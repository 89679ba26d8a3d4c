---------------------------- MODULE Permissions ----------------------------
(***************************************************************************)
(* What lets a tool run (permission-manager.ts, rule-engine.ts): rules of  *)
(* the settings, words of the user given in a question, the autonomous     *)
(* mode, containment of the shell, and questions, which are put one after  *)
(* the other on a chain of promises (_permissionQueue).                    *)
(*                                                                         *)
(* The agent and its background agents share the manager.  A check runs    *)
(* without an await up to its question; the question itself is asked when  *)
(* those before it are settled, with the verdict taken at the check.       *)
(*                                                                         *)
(* Abstracted: what a command or a path looks like is a class of a call:   *)
(* "outside" for a path outside the sandbox and for a command that reaches *)
(* out of the folder; one remote surface stands for Discord and Slack,     *)
(* whose grants are kept apart in the same way; wording, warnings and      *)
(* counts; the paths of game_smoke and browser_screenshot.                 *)
(***************************************************************************)
EXTENDS Naturals, Sequences, FiniteSets

CONSTANTS Mains, Helpers,  \* calls at work: of the agent, of background agents
          CallKinds,           \* the calls that may come
          Modes,           \* settings a session may start with
          Patterns,        \* rules the user may write
          MaxGrants         \* bound: grants and changes of rules

\* "write" stands for file_write and file_edit, "read" for file_read, glob and grep.
Tools == {"safe", "write", "read", "bash", "web", "other", "computer"}
Surfaces == {"cli", "remote"}
Classes == {"plain", "outside", "blocked", "destructive"}

ASSUME PermissionConstants ==
  /\ Mains \cap Helpers = {}
  /\ CallKinds \subseteq [tool : Tools, class : Classes]
  /\ \A k \in CallKinds : k.class \in CASE k.tool = "bash" -> Classes
                                      [] k.tool \in {"write", "read", "computer"} ->
                                           {"plain", "outside"}
                                      [] OTHER -> {"plain"}
  /\ Modes \subseteq [autorun : {FALSE}, mismatch : {FALSE}, contained : BOOLEAN,
                      remoteAutorun : BOOLEAN, bridge : BOOLEAN]
  /\ Patterns \subseteq [on : Surfaces \cup {"all"}, tool : Tools, class : Classes \cup {"any"}]
  /\ MaxGrants \in Nat

VARIABLES
  rules,   \* [allow, deny, ask]: sets of patterns
  grant,   \* [always, once, session, sessionOnce]: the user's answers
  mode,    \* [autorun, mismatch, contained, remoteAutorun, bridge]
  asker,   \* per call at work: [is, on, kind]
  chain,   \* the questions in their order; the first is on the screen
  said     \* history: [given, times]: the user's grants, and how many

permVars == <<rules, grant, mode, asker, chain, said>>

Askers == Mains \cup Helpers
NoKind == [tool |-> "safe", class |-> "plain"]
Idle == [is |-> "idle", on |-> "cli", kind |-> NoKind]

(***************************************************************************)
(* The rules (rule-engine.ts).                                             *)
(***************************************************************************)
Applies(p, on) == p.on \in {"all", on}
Matches(p, on, k) == Applies(p, on) /\ p.tool = k.tool /\ p.class \in {"any", k.class}

EvaluateRules(on, k) ==
  IF \E p \in rules.deny : Matches(p, on, k) THEN "deny"
  ELSE IF \E p \in rules.allow : p.class # "any" /\ Matches(p, on, k) THEN "allow"
  ELSE IF \E p \in rules.ask : Matches(p, on, k) THEN "ask" ELSE "none"

ToolAllowedByRule(on, tool) ==
  \E p \in rules.allow : p.class = "any" /\ Applies(p, on) /\ p.tool = tool

(***************************************************************************)
(* The decision of a check: "allow", "refuse" or "question".               *)
(***************************************************************************)
OutsideSandbox(k) == k.tool \in {"write", "read"} /\ k.class = "outside"
NeedsAsk(k) == k.tool = "bash" /\ k.class = "outside"

\* checkAutorunPermission; "none" leaves it to the usual way.
Autorun(k) ==
  IF OutsideSandbox(k) THEN "refuse"
  ELSE IF k.tool = "bash" /\ k.class \in {"destructive", "outside"} THEN "none"
  ELSE IF k.tool \in {"write", "read", "bash", "web"} THEN "allow" ELSE "none"

Barred(on, k) == EvaluateRules(on, k) = "deny" \/ k.class = "blocked"

RemoteDecision(k) ==
  LET rule == EvaluateRules("remote", k)
      force == rule = "ask" \/ mode.mismatch
  IN  IF Barred("remote", k) \/ OutsideSandbox(k) THEN "refuse"
      ELSE IF k.tool = "safe" \/ (~mode.mismatch /\ rule = "allow") THEN "allow"
      ELSE IF /\ ~force
              /\ \/ ToolAllowedByRule("remote", k.tool)
                 \/ k.tool \in grant.session \/ k \in grant.sessionOnce
      THEN "allow"
      ELSE IF mode.remoteAutorun /\ ~force
      THEN IF Autorun(k) = "allow" /\ (k.tool = "bash" => mode.contained) THEN "allow" ELSE "refuse"
      ELSE IF mode.bridge THEN "question" ELSE "refuse"

CliDecision(k) ==
  LET rule == EvaluateRules("cli", k)
      auto == IF rule # "ask" /\ (mode.autorun \/ (k.tool = "bash" /\ mode.contained))
              THEN Autorun(k) ELSE "none"
      wide == rule # "ask" /\ (ToolAllowedByRule("cli", k.tool) \/ k.tool \in grant.always)
  IN  IF Barred("cli", k) THEN "refuse"
      ELSE IF k.tool = "safe" THEN "allow"
      ELSE IF mode.mismatch THEN IF OutsideSandbox(k) THEN "refuse" ELSE "question"
      ELSE IF rule = "allow" THEN "allow"
      ELSE IF auto # "none" THEN auto
      ELSE IF wide /\ ~NeedsAsk(k) THEN IF OutsideSandbox(k) THEN "refuse" ELSE "allow"
      ELSE IF k \in grant.once THEN "allow"
      ELSE IF k.tool = "write" /\ OutsideSandbox(k) THEN "refuse" ELSE "question"

\* The desktop of the user: only here, and asked for each time.
DesktopDecision(on, k) ==
  IF on = "cli" /\ EvaluateRules(on, k) # "deny" /\ k.class # "outside"
  THEN "question" ELSE "refuse"

Decision(on, k) ==
  IF k.tool = "computer" THEN DesktopDecision(on, k)
  ELSE IF on = "remote" THEN RemoteDecision(k) ELSE CliDecision(k)

(***************************************************************************)
(* Steps.                                                                  *)
(***************************************************************************)
\* checkToolPermission up to its first await.
Check(c) ==
  /\ asker[c].is = "idle"
  /\ \E on \in Surfaces, k \in CallKinds :
       /\ Decision(on, k) # "refuse"
       /\ asker' = [asker EXCEPT ![c] =
            [is |-> IF Decision(on, k) = "allow" THEN "runs" ELSE "asks", on |-> on, kind |-> k]]
       /\ chain' = IF Decision(on, k) = "question" THEN Append(chain, c) ELSE chain
  /\ UNCHANGED <<rules, grant, mode, said>>

WordOf(c, class, by) ==
  [on |-> asker[c].on, tool |-> asker[c].kind.tool, class |-> class, by |-> by]
Says(w) == said' = [given |-> said.given \cup {w}, times |-> said.times + 1]

\* Mutant: a question that throws keeps its place.
QuestionStays(c, is) ==
  /\ chain' = IF is = "failed" THEN chain ELSE Tail(chain)
  /\ asker' = [asker EXCEPT ![c] = IF is = "runs" THEN [@ EXCEPT !.is = "runs"] ELSE Idle]

\* The question is over, whatever the answer: resolveQueue in the finally.
QuestionOver(c, is) ==
  /\ chain' = Tail(chain)
  /\ asker' = [asker EXCEPT ![c] = IF is = "runs" THEN [@ EXCEPT !.is = "runs"] ELSE Idle]

\* No, a stop of the run, an input that was closed, a timeout, a failing save.
Refuses(c) ==
  /\ \E is \in {"refused", "failed"} : QuestionOver(c, is)
  /\ UNCHANGED <<rules, grant, mode, said>>

Grants(c) == said.times < MaxGrants /\ QuestionOver(c, "runs") /\ UNCHANGED mode

\* The answer of the question about the desktop is not kept.
AllowsDesktop(c) ==
  /\ asker[c].kind.tool = "computer" /\ QuestionOver(c, "runs")
  /\ UNCHANGED <<rules, grant, mode, said>>

\* "Now": for the same call, in this session.
AllowsOnce(c) ==
  /\ asker[c].kind.tool # "computer" /\ Grants(c)
  /\ grant' = IF asker[c].on = "cli" THEN [grant EXCEPT !.once = @ \cup {asker[c].kind}]
              ELSE [grant EXCEPT !.sessionOnce = @ \cup {asker[c].kind}]
  /\ Says(WordOf(c, asker[c].kind.class, "answer"))
  /\ UNCHANGED rules

AllowsForSession(c) ==
  /\ asker[c].kind.tool # "computer" /\ Grants(c)
  /\ grant' = IF asker[c].on = "cli" THEN [grant EXCEPT !.always = @ \cup {asker[c].kind.tool}]
              ELSE [grant EXCEPT !.session = @ \cup {asker[c].kind.tool}]
  /\ Says(WordOf(c, "any", "answer"))
  /\ UNCHANGED rules

\* Mutant: a rule for all surfaces.
AllowsForAll(c) ==
  /\ asker[c].on = "cli" /\ asker[c].kind.tool # "computer" /\ said.times < MaxGrants
  /\ QuestionOver(c, "runs")
  /\ rules' = [rules EXCEPT !.allow = @ \cup
                 {[on |-> "all", tool |-> asker[c].kind.tool, class |-> "any"]}]
  /\ Says(WordOf(c, "any", "rule"))
  /\ UNCHANGED <<grant, mode>>

\* "Always": a rule of the settings.  When their save fails the call throws,
\* and the rule is kept.
AllowsForGood(c) ==
  /\ asker[c].on = "cli" /\ asker[c].kind.tool # "computer" /\ said.times < MaxGrants
  /\ \E is \in {"runs", "failed"} : QuestionOver(c, is)
  /\ rules' = [rules EXCEPT !.allow = @ \cup
                 {[on |-> "cli", tool |-> asker[c].kind.tool, class |-> "any"]}]
  /\ Says(WordOf(c, "any", "rule"))
  /\ UNCHANGED <<grant, mode>>

AnswersQuestion(c) ==
  /\ chain # <<>> /\ c = Head(chain)
  /\ \/ Refuses(c) \/ AllowsDesktop(c) \/ AllowsOnce(c) \/ AllowsForSession(c)
     \/ AllowsForGood(c)

CallOver(c) ==
  /\ asker[c].is = "runs"
  /\ asker' = [asker EXCEPT ![c] = Idle]
  /\ UNCHANGED <<rules, grant, mode, chain, said>>

\* A batch of the agent begins or ends: its thoughts may have said that it
\* needs no tool (setCotMismatchForTurn).
BatchTurns ==
  /\ \A c \in Mains : asker[c].is = "idle"
  /\ mode' = [mode EXCEPT !.mismatch = ~@]
  /\ UNCHANGED <<rules, grant, asker, chain, said>>

\* /autorun, Shift+Tab.
SwitchAutorun ==
  /\ mode' = [mode EXCEPT !.autorun = ~@]
  /\ UNCHANGED <<rules, grant, asker, chain, said>>

\* The screen /permission.
AddRule ==
  /\ said.times < MaxGrants
  /\ \E p \in Patterns :
       \/ /\ rules' = [rules EXCEPT !.allow = @ \cup {p}]
          /\ Says([on |-> p.on, tool |-> p.tool, class |-> p.class, by |-> "rule"])
       \/ /\ \/ rules' = [rules EXCEPT !.deny = @ \cup {p}]
             \/ rules' = [rules EXCEPT !.ask = @ \cup {p}]
          /\ said' = [said EXCEPT !.times = @ + 1]
  /\ UNCHANGED <<grant, mode, asker, chain>>

RemoveRule ==
  /\ \/ \E p \in rules.allow :
          /\ rules' = [rules EXCEPT !.allow = @ \ {p}]
          /\ said' = [said EXCEPT !.given =
                        @ \ {[on |-> p.on, tool |-> p.tool, class |-> p.class, by |-> "rule"]}]
     \/ /\ \E p \in rules.deny \cup rules.ask :
             \/ rules' = [rules EXCEPT !.deny = @ \ {p}]
             \/ rules' = [rules EXCEPT !.ask = @ \ {p}]
        /\ UNCHANGED said
  /\ UNCHANGED <<grant, mode, asker, chain>>

PermInit ==
  /\ rules = [allow |-> {}, deny |-> {}, ask |-> {}]
  /\ grant = [always |-> {}, once |-> {}, session |-> {}, sessionOnce |-> {}]
  /\ mode \in Modes
  /\ asker = [c \in Askers |-> Idle] /\ chain = <<>>
  /\ said = [given |-> {}, times |-> 0]

PermNext ==
  \/ \E c \in Askers : Check(c) \/ AnswersQuestion(c) \/ CallOver(c)
  \/ BatchTurns \/ SwitchAutorun \/ AddRule \/ RemoveRule

\* The user answers a question that is on the screen, or it times out.
QuestionAnswered == \E c \in Askers : AnswersQuestion(c)
PermFairness == WF_permVars(QuestionAnswered)

PermSpec == PermInit /\ [][PermNext]_permVars /\ PermFairness

(***************************************************************************)
(* Properties.                                                             *)
(***************************************************************************)
PermTypeOK ==
  /\ asker \in [Askers -> [is : {"idle", "asks", "runs"}, on : Surfaces, kind : CallKinds \cup {NoKind}]]
  /\ chain \in Seq(Askers)
  /\ said.times \in 0..MaxGrants

\* What the user has granted on this surface for this call, or for its tool.
GrantedFor(on, k, classes) ==
  \E w \in said.given : w.on \in {on, "all"} /\ w.tool = k.tool /\ w.class \in classes

\* A mode trusts only calls that keep to the folder and destroy nothing.
Trusted(on, k) ==
  /\ k.class = "plain"
  /\ IF on = "cli" THEN mode.autorun \/ (k.tool = "bash" /\ mode.contained)
     ELSE mode.remoteAutorun

RuleAsks(on, k) == \E p \in rules.ask : Matches(p, on, k)

\* A rule, the reach of a command or the sandbox wants a question for this call,
\* or its refusal.
Wanted(on, k) == RuleAsks(on, k) \/ NeedsAsk(k) \/ OutsideSandbox(k)

\* Who has allowed bash as a whole on Discord or Slack is not asked about the
\* reach of a command: checkChannelPermission does not look at it.
ReachUnseen(on, k) == on = "remote" /\ NeedsAsk(k) /\ ~RuleAsks(on, k)

HasWord(on, k) ==
  /\ ~mode.mismatch /\ k.class # "blocked"
  /\ \/ GrantedFor(on, k, {k.class})
     \/ GrantedFor(on, k, {"any"}) /\ (~Wanted(on, k) \/ ReachUnseen(on, k))
     \/ Trusted(on, k) /\ ~Wanted(on, k)

\* A tool that runs unasked does so by the user's word on that surface, or by a
\* mode that trusts calls of this kind; no mode and no word for a whole tool
\* counts where a question is wanted, no word at all in a turn whose thoughts
\* said that no tool is needed, and an answer given at the terminal never speaks
\* for a remote surface (permission-manager.ts:419-448, 590-675, 895-915).  The
\* exception is the code's, ReachUnseen: by a word for bash as a whole a command
\* that reaches out of the folder runs unasked on Discord and Slack (424-428),
\* where config-reference.md:356-358 and rule-engine.ts:16-19 keep the question.
RunsByWord ==
  [][\A c \in Askers :
       asker[c].is = "idle" /\ asker'[c].is = "runs" /\ asker'[c].kind.tool # "safe" =>
         HasWord(asker'[c].on, asker'[c].kind)]_permVars

\* Every question comes to its turn and is settled, however those before it
\* end.
QuestionsAreSettled == \A c \in Askers : asker[c].is = "asks" ~> asker[c].is # "asks"
=============================================================================
