------------------------------ MODULE Gateway ------------------------------
(***************************************************************************)
(* The connection to Discord (src/src/discord/gateway-client.ts) and the   *)
(* menu that starts and stops it (repl.ts, discord-bot.ts): sockets that   *)
(* open, are ready, are told to reconnect or closed, heartbeats without an *)
(* answer, and timers that connect again.  Each start makes a client of    *)
(* its own; the REPL keeps the last one.                                   *)
(*                                                                         *)
(* Abstracted: sequence numbers, urls, the length of a backoff, and the    *)
(* interactions themselves.  The server may send any frame at any time.    *)
(***************************************************************************)
EXTENDS Integers, FiniteSets

CONSTANTS Clients, Sockets,  \* bounds: clients made and sockets open at a time
          MaxTimers          \* bound: timers of a client when the server tells it to reconnect

ASSUME GatewayConstants ==
  IsFiniteSet(Sockets) /\ MaxTimers \in Nat \ {0} /\ "none" \notin Clients \cup Sockets

VARIABLES
  client,  \* [on, ws, up, session, hb, start, timers, invalid, fetch]: the last three
           \* count by canResume
  socket,  \* [owner, resume, first, hello, awaited]: first when start() waits for it,
           \* awaited when its connect is not settled
  repl     \* [bot, gone]: the client of this.discordBot; /quit

gatewayVars == <<client, socket, repl>>

Nothing  == [r \in BOOLEAN |-> 0]
NoClient == [on |-> FALSE, ws |-> "none", up |-> FALSE, session |-> FALSE, hb |-> "off",
             start |-> "no", timers |-> Nothing, invalid |-> Nothing, fetch |-> Nothing]
NoSocket == [owner |-> "none", resume |-> FALSE, first |-> FALSE, hello |-> FALSE,
             awaited |-> FALSE]

GatewayInit ==
  /\ client = [c \in Clients |-> NoClient] /\ socket = [s \in Sockets |-> NoSocket]
  /\ repl = [bot |-> "none", gone |-> FALSE]

Pending(x) == LET Both(f) == f[TRUE] + f[FALSE] IN Both(x.timers) + Both(x.invalid) + Both(x.fetch)
Put(c, x) == client' = [client EXCEPT ![c] = x]
Shut(s) == [t \in Sockets |-> IF t = s THEN NoSocket ELSE socket[t]]

(***************************************************************************)
(* The client.                                                             *)
(***************************************************************************)
ScheduleReconnect(x, r) == IF x.on THEN [x EXCEPT !.timers[r] = @ + 1] ELSE x

\* stop(): the socket is closed; timers and a fetch go on.
StopClient(x) == [x EXCEPT !.on = FALSE, !.hb = "off", !.up = FALSE, !.ws = "none"]

\* closeAndReconnect.
Reconnects(c, x, r) ==
  IF ~x.on THEN Put(c, x) /\ UNCHANGED socket
  ELSE /\ Put(c, ScheduleReconnect([x EXCEPT !.hb = "off", !.up = FALSE, !.ws = "none"], r))
       /\ socket' = Shut(x.ws)

\* new WebSocket, which is the client's socket from now on.
Opens(c, x, r) ==
  \E s \in Sockets :
    /\ socket[s] = NoSocket
    /\ socket' = [socket EXCEPT ![s] = [owner |-> c, resume |-> r, hello |-> FALSE,
                     awaited |-> TRUE, first |-> client[c].start = "fetch"]]
    /\ Put(c, [x EXCEPT !.ws = s])

TimerFires(c, r) ==
  /\ client[c].timers[r] > 0
  /\ LET x == [client[c] EXCEPT !.timers[r] = @ - 1] IN
       IF ~x.on THEN Put(c, x) /\ UNCHANGED socket
       ELSE IF r /\ x.session THEN Opens(c, x, r)
       ELSE Put(c, [x EXCEPT !.fetch[r] = @ + 1]) /\ UNCHANGED socket
  /\ UNCHANGED repl

FetchFailsForGood(c, r) ==
  /\ client[c].fetch[r] > 0
  /\ LET x == [client[c] EXCEPT !.fetch[r] = @ - 1] IN
       Opens(c, x, r) \/ (Put(c, x) /\ UNCHANGED socket)
  /\ UNCHANGED repl

\* The url of the gateway arrives, or not; a stop meanwhile is not looked for.
FetchEnds(c, r) ==
  /\ client[c].fetch[r] > 0
  /\ LET x == [client[c] EXCEPT !.fetch[r] = @ - 1] IN
       Opens(c, x, r) \/ (Put(c, ScheduleReconnect(x, r)) /\ UNCHANGED socket)
  /\ UNCHANGED repl

\* The fetch of start(): a failure stops the client.
StartFetchEnds(c) ==
  /\ client[c].start = "fetch"
  /\ LET x == [client[c] EXCEPT !.start = "socket"] IN
       \/ Opens(c, x, FALSE)
       \/ Put(c, StopClient([x EXCEPT !.start = "done"])) /\ UNCHANGED socket
  /\ UNCHANGED repl

(***************************************************************************)
(* Frames of the server, on any open socket, the current one or not.       *)
(***************************************************************************)
FrameOn(c, s) == socket[s].owner = c /\ c # "none"

Hello(c, s) ==
  /\ FrameOn(c, s) /\ ~socket[s].hello
  /\ Put(c, [client[c] EXCEPT !.hb = "acked"])
  /\ socket' = [socket EXCEPT ![s].hello = TRUE]
  /\ UNCHANGED repl

\* READY or RESUMED; the start() that awaits this socket returns.
Ready(c, s) ==
  /\ FrameOn(c, s) /\ socket[s].hello /\ socket[s].awaited
  /\ \E fresh \in {TRUE} \cup {~socket[s].resume} :
       Put(c, [client[c] EXCEPT !.up = TRUE, !.session = @ \/ fresh,
                 !.start = IF socket[s].first THEN "done" ELSE @])
  /\ socket' = [socket EXCEPT ![s].awaited = FALSE]
  /\ UNCHANGED repl

TellsReconnect(c, s) ==
  /\ FrameOn(c, s) /\ socket[s].hello /\ Pending(client[c]) < MaxTimers
  /\ Reconnects(c, client[c], TRUE)
  /\ UNCHANGED repl

\* INVALID_SESSION: a timer of its own, which reconnects whatever is current then.
TellsInvalid(c, s) ==
  /\ FrameOn(c, s) /\ socket[s].hello
  /\ Pending(client[c]) < MaxTimers
  /\ \E r \in BOOLEAN : Put(c, [client[c] EXCEPT !.invalid[r] = @ + 1])
  /\ UNCHANGED <<socket, repl>>

InvalidFires(c, r) ==
  /\ client[c].invalid[r] > 0
  /\ Reconnects(c, [client[c] EXCEPT !.invalid[r] = @ - 1], r)
  /\ UNCHANGED repl

\* An answer of a heartbeat, or the next one is due without it.
Heartbeat(c) ==
  /\ client[c].hb # "off"
  /\ \/ client[c].hb = "acked" /\ Put(c, [client[c] EXCEPT !.hb = "sent"]) /\ UNCHANGED socket
     \/ client[c].hb = "sent" /\ Reconnects(c, client[c], TRUE)
     \/ client[c].hb = "sent" /\ Put(c, [client[c] EXCEPT !.hb = "acked"]) /\ UNCHANGED socket
  /\ UNCHANGED repl

\* The socket ends: for good by the code, or to be opened again; that of
\* start() makes it fail, and one that is not current is not looked at.
Closes(c, s) ==
  /\ FrameOn(c, s)
  /\ LET x == [client[c] EXCEPT !.hb = "off", !.up = FALSE, !.ws = "none"] IN
       IF client[c].ws # s THEN UNCHANGED client
       ELSE \/ Put(c, [x EXCEPT !.on = FALSE, !.start = IF socket[s].first THEN "done" ELSE @])
            \/ \E r \in BOOLEAN :
                 IF socket[s].first /\ socket[s].awaited
                 THEN Put(c, StopClient([x EXCEPT !.start = "done"]))
                 ELSE Put(c, ScheduleReconnect(x, r))
  /\ socket' = Shut(s)
  /\ UNCHANGED repl

(***************************************************************************)
(* The menu of the REPL, which waits for start(), and /quit.               *)
(***************************************************************************)
Running == repl.bot # "none" /\ client[repl.bot].up
Waits == repl.bot # "none" /\ client[repl.bot].start \in {"fetch", "socket"}

\* "start receiving": offered unless the last bot is connected; it makes a new
\* bot and client in its place.
MenuStarts(c) ==
  /\ ~repl.gone /\ ~Waits /\ ~Running /\ client[c] = NoClient
  /\ Put(c, [NoClient EXCEPT !.on = TRUE, !.start = "fetch"])
  /\ repl' = [repl EXCEPT !.bot = c]
  /\ UNCHANGED socket

BotStops ==
  IF repl.bot = "none" THEN UNCHANGED <<client, socket>>
  ELSE /\ Put(repl.bot, StopClient(client[repl.bot]))
       /\ socket' = Shut(client[repl.bot].ws)

MenuStops ==
  /\ ~repl.gone /\ ~Waits /\ Running
  /\ BotStops /\ repl' = [repl EXCEPT !.bot = "none"]

Quit ==
  /\ ~repl.gone /\ ~Waits
  /\ BotStops /\ repl' = [bot |-> "none", gone |-> TRUE]

GatewayNext ==
  \/ \E c \in Clients :
       \/ \E r \in BOOLEAN : TimerFires(c, r) \/ FetchEnds(c, r) \/ InvalidFires(c, r)
       \/ StartFetchEnds(c) \/ Heartbeat(c) \/ MenuStarts(c)
       \/ \E s \in Sockets :
            Hello(c, s) \/ Ready(c, s) \/ TellsReconnect(c, s) \/ TellsInvalid(c, s) \/ Closes(c, s)
  \/ MenuStops \/ Quit

GatewaySpec == GatewayInit /\ [][GatewayNext]_gatewayVars

(***************************************************************************)
(* Properties.                                                             *)
(***************************************************************************)
GatewayTypeOK ==
  /\ \A c \in Clients :
       /\ client[c].ws \in Sockets \cup {"none"} /\ client[c].hb \in {"off", "acked", "sent"}
       /\ Pending(client[c]) <= MaxTimers + Cardinality(Sockets)
  /\ \A s \in Sockets : socket[s].owner \in Clients \cup {"none"}

\* A client that was not stopped is connected, connecting, or has a timer that
\* will connect: no order of frames, closings, lost heartbeats and failed
\* attempts leaves it deaf for ever.
NeverDeaf ==
  \A c \in Clients : client[c].on =>
    \/ \E s \in Sockets : client[c].ws = s /\ socket[s].owner = c
    \/ client[c].start = "fetch"
    \/ \E r \in BOOLEAN : client[c].timers[r] > 0 \/ client[c].fetch[r] > 0

\* After /quit no socket stays open and none will be (repl.ts: unless it is
\* closed, the connection and its timers keep the process alive).
QuitEndsReceiving ==
  repl.gone => \A c \in Clients : ~client[c].on /\ \A s \in Sockets : socket[s] = NoSocket
=============================================================================
