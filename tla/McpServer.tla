----------------------------- MODULE McpServer -----------------------------
(***************************************************************************)
(* One MCP server, its client (src/src/mcp/mcp-client.ts) and the tools    *)
(* registered for it (src/src/mcp/mcp-manager.ts).  The server changes its *)
(* tools and tells so; the client lists them again, page by page; the      *)
(* process may end, a request may time out, and the user disables, enables *)
(* and reloads the server.                                                 *)
(*                                                                         *)
(* A list of tools is a version per page.  Abstracted: what the tools do   *)
(* and their calls.  The transports differ in how they end: the exit of a  *)
(* process unregisters the tools, a stream that breaks leaves them, and a  *)
(* stream that ends leaves the client up, which hears nothing more.        *)
(***************************************************************************)
EXTENDS Integers, Sequences

CONSTANTS Pages,       \* pages of a list
          MaxVersions  \* bound: changes of the server's tools

ASSUME McpConstants == Pages \in Nat \ {0} /\ MaxVersions \in Nat

VARIABLES
  server,   \* [version, told]: told counts the notifications sent and not heard
  mcp,      \* the client: [is, listing, got, dirty, refreshing, hears], "dead" when it lost
            \* its server, hears while answers and notifications reach it
  tools     \* the registry: [shown, disabled], shown the lists whose tools are registered

mcpVars == <<server, mcp, tools>>

NoMcp == [is |-> "none", listing |-> FALSE, got |-> <<>>, dirty |-> FALSE,
          refreshing |-> FALSE, hears |-> TRUE]

McpInit ==
  /\ server = [version |-> 0, told |-> 0]
  /\ mcp = NoMcp /\ tools = [shown |-> {}, disabled |-> FALSE]

Online == mcp.is = "up"

(***************************************************************************)
(* The server.                                                             *)
(***************************************************************************)
ToolsChange ==
  /\ server.version < MaxVersions
  /\ server' = [version |-> server.version + 1,
                told |-> IF mcp.is \in {"none", "dead"} THEN 0 ELSE server.told + 1]
  /\ UNCHANGED <<mcp, tools>>

(***************************************************************************)
(* The client.                                                             *)
(***************************************************************************)
Lists(x) == [x EXCEPT !.listing = TRUE, !.got = <<>>]

\* The loop of handleToolsChanged begins again, or ends.
Refreshes(x) ==
  IF x.dirty /\ x.is = "up" THEN Lists([x EXCEPT !.dirty = FALSE, !.refreshing = TRUE])
  ELSE [x EXCEPT !.refreshing = FALSE]

\* connectAll, a reload and enableServerImmediate make a new client.
Connect ==
  /\ mcp.is \in {"none", "dead"} /\ ~tools.disabled
  /\ mcp' = [NoMcp EXCEPT !.is = "starts"]
  /\ server' = [server EXCEPT !.told = 0]
  /\ UNCHANGED tools

Initialized ==
  /\ mcp.is = "starts" /\ ~mcp.listing /\ mcp.hears
  /\ mcp' = Lists(mcp)
  /\ UNCHANGED <<server, tools>>

\* A page; after the last one the tools are registered, those of a later list
\* in place of the earlier ones, those of the first beside what is there.
PageComes ==
  /\ mcp.listing /\ mcp.hears
  /\ LET got == Append(mcp.got, server.version)
         done == [mcp EXCEPT !.listing = FALSE, !.got = <<>>, !.is = "up"]
     IN  IF Len(got) < Pages
         THEN mcp' = [mcp EXCEPT !.got = got] /\ UNCHANGED tools
         ELSE /\ mcp' = Refreshes(done)
              /\ tools' = [tools EXCEPT !.shown = {got} \cup IF Online THEN {} ELSE @]
  /\ UNCHANGED server

\* A request fails or times out: of the first list, the connection is given
\* up; of a later one, the tools are.
ListFails ==
  /\ mcp.is = "starts" \/ mcp.listing
  /\ IF Online
     THEN /\ mcp' = [mcp EXCEPT !.listing = FALSE, !.got = <<>>, !.refreshing = FALSE]
          /\ tools' = [tools EXCEPT !.shown = {}]
     ELSE mcp' = NoMcp /\ UNCHANGED tools
  /\ UNCHANGED server

ForgetsWhileBusy(x) ==
  IF x.is # "up" \/ x.refreshing THEN x ELSE Refreshes([x EXCEPT !.dirty = TRUE])

\* notifications/tools/list_changed.
Changed(x) ==
  IF x.is # "up" \/ x.refreshing THEN [x EXCEPT !.dirty = TRUE]
  ELSE Refreshes([x EXCEPT !.dirty = TRUE])

NotificationComes ==
  /\ server.told > 0 /\ mcp.is \in {"starts", "up"} /\ mcp.hears
  /\ mcp' = Changed(mcp)
  /\ server' = [server EXCEPT !.told = @ - 1]
  /\ UNCHANGED tools

\* The stream of an SSE server ends without an error: the client is not told,
\* it stays up, or goes on to wait for the answers of its first list.
StreamEnds ==
  /\ mcp.is \in {"starts", "up"} /\ mcp.hears
  /\ mcp' = [mcp EXCEPT !.hears = FALSE]
  /\ UNCHANGED <<server, tools>>

\* The process exits: its tools go.  One that cannot be reached, or a stream
\* that breaks, leaves them.
ServerEnds ==
  /\ Online
  /\ mcp' = [NoMcp EXCEPT !.is = "dead"]
  /\ tools' = [tools EXCEPT !.shown = {}] \/ UNCHANGED tools
  /\ UNCHANGED server

(***************************************************************************)
(* The user.  The REPL waits for a client that connects.                   *)
(***************************************************************************)
\* disableServerImmediate unregisters the tools of a client that is there.
Disable ==
  /\ ~tools.disabled /\ mcp.is # "starts"
  /\ tools' = [shown |-> IF mcp.is = "none" THEN tools.shown ELSE {}, disabled |-> TRUE]
  /\ mcp' = NoMcp
  /\ UNCHANGED server

Enable ==
  /\ tools.disabled /\ tools' = [tools EXCEPT !.disabled = FALSE]
  /\ UNCHANGED <<server, mcp>>

\* disconnectAll, of /mcp off and of a reload: the tools stay registered.
DisconnectAll ==
  /\ mcp.is \in {"up", "dead"} /\ mcp' = NoMcp /\ UNCHANGED <<server, tools>>

McpNext ==
  \/ ToolsChange \/ Connect \/ Initialized \/ PageComes \/ ListFails
  \/ NotificationComes \/ StreamEnds \/ ServerEnds \/ Disable \/ Enable \/ DisconnectAll

McpSpec == McpInit /\ [][McpNext]_mcpVars

(***************************************************************************)
(* Properties.                                                             *)
(***************************************************************************)
McpTypeOK ==
  /\ mcp.is \in {"none", "starts", "up", "dead"} /\ Len(mcp.got) < Pages
  /\ server.told \in 0..MaxVersions
  /\ \A list \in tools.shown : Len(list) = Pages

\* When a client that is up has heard of all the server's changes and no list
\* is under way, the model is shown the tools the server has, or none after a
\* list that failed: a list torn by a change is replaced, and a change told
\* while another is being fetched, or before the connection stands, is not lost.
\* Beside them there may be tools a closed connection left registered.  What
\* changes after the stream has ended (mcp-client.ts:318) is never heard: such
\* a client stays up with the tools of its last list.
ToolsBecomeFresh ==
  Online /\ server.told = 0 /\ ~mcp.refreshing /\ tools.shown # {} =>
    [p \in 1..Pages |-> server.version] \in tools.shown
=============================================================================
