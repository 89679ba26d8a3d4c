---------------------------- MODULE Parts_proofs ----------------------------
(***************************************************************************)
(* Safety of the smaller parts for any values of their constants: the      *)
(* sub-agents, the worktrees, the schedules, an MCP server, the connection *)
(* to Discord.  They share no state; each has its own inductive invariant. *)
(* At the end, the sum of all ten parts (MCParts): what is proved of each  *)
(* alone holds of the whole.                                               *)
(***************************************************************************)
EXTENDS MCParts, Prewarm_proofs, Terminal_proofs, Tools_proofs, FiniteSetTheorems, TLAPS

-----------------------------------------------------------------------------
(* Sub-agents. *)

AgentPcs == {"none", "call", "tool", "write", "over"}
AgentOuts == {"none", "answer", "error", "limit", "cancelled"}
TurnNos == 0..TurnCap
CallNos == 0..MaxCalls
CutNos == 0..CutCap
Mailbox == Seq(Nat)

AgentType ==
  [pc : AgentPcs, turn : TurnNos, limit : TurnNos, pending : Mailbox, read : Mailbox,
   aborted : BOOLEAN, calls : CallNos, cuts : CutNos, retried : BOOLEAN, out : AgentOuts]

TaskType ==
  [listed : BOOLEAN, status : {"none", "running", "completed", "failed", "cancelled"},
   result : AgentOuts, isolation : {"shared", "worktree"}, mails : 0..MaxMails,
   settled : BOOLEAN, getter : {"no", "waits", "done"}, got : AgentOuts]

InOrder(s) == \A i \in 1..Len(s) : s[i] = i
OrderedAfter(s, n) == \A i \in 1..Len(s) : s[i] = n + i

\* What the agent has read and what waits for it are the follow-ups that were
\* accepted, in order; and while one waits in a run
\* there is a turn left to read it.
MailSound(x, mails) ==
  /\ Len(x.pending) <= MailCap
  /\ Len(x.read) + Len(x.pending) = mails
  /\ InOrder(x.read) /\ OrderedAfter(x.pending, Len(x.read))
  /\ x.pending # <<>> /\ x.pc # "over" => x.turn < x.limit

\* An agent that is over has an outcome, and "cancelled" only after a cancel; one
\* that executes a reply has calls of it left.
OutcomeSound(x) ==
  /\ x.pc = "over" <=> x.out # "none"
  /\ x.out = "cancelled" => x.aborted
  /\ x.pc \in {"tool", "write"} => x.calls # 0

AgentSound(x, mails) ==
  /\ x \in AgentType /\ x.turn <= x.limit /\ MailSound(x, mails) /\ OutcomeSound(x)

\* The record is that of a run in progress until it is settled or cancelled, and
\* then says what the run came to.
RecordSound ==
  /\ task.status = "none" => agent.pc = "none" /\ ~task.listed /\ task.got = "none"
                              /\ task.mails = 0
  /\ task.status # "none" => agent.pc # "none"
  /\ task.status = "running" => task.listed /\ task.result = "none" /\ ~task.settled
  /\ task.settled => agent.pc = "over"
  /\ agent.aborted => task.status = "cancelled"
  /\ task.status = "completed" => task.settled

SubInv ==
  /\ AgentSound(agent, task.mails) /\ task \in TaskType
  /\ RecordSound /\ ResultTellsStatus

LEMMA SubSets ==
  /\ "none" \in AgentPcs /\ "call" \in AgentPcs /\ "tool" \in AgentPcs
  /\ "write" \in AgentPcs /\ "over" \in AgentPcs
  /\ "none" \in AgentOuts /\ "answer" \in AgentOuts /\ "error" \in AgentOuts
  /\ "limit" \in AgentOuts /\ "cancelled" \in AgentOuts
  /\ 0 \in TurnNos /\ 0 \in CallNos /\ 0 \in CutNos /\ <<>> \in Mailbox
  /\ TurnNos \subseteq Int /\ CallNos \subseteq Int
BY SubAgentConstants DEF AgentPcs, AgentOuts, TurnNos, CallNos, CutNos, Mailbox

LEMMA SubInitInv == SubInit => SubInv
<1>1. NoAgent \in AgentType
  BY SubSets DEF NoAgent, AgentType
<1>2. NoTask \in TaskType
  BY SubSets, SubAgentConstants DEF NoTask, TaskType
<1>3. QED
  BY <1>1, <1>2, SubAgentConstants
     DEF SubInit, SubInv, AgentSound, MailSound, OutcomeSound, RecordSound,
         ResultTellsStatus, NoAgent, NoTask, InOrder, OrderedAfter

\* Nothing read and nothing waiting but what was accepted is changed.
SameMail(x, y) == y.pending = x.pending /\ y.read = x.read

\* An agent that ends by itself, its mailbox empty or its task cancelled.
LEMMA EndsSound ==
  ASSUME NEW x, NEW mails \in Nat, AgentSound(x, mails),
         NEW out \in {"answer", "error", "limit", "cancelled"},
         out = "cancelled" => x.aborted
  PROVE  LET y == Ends(x, out)
         IN  /\ AgentSound(y, mails) /\ y.pc = "over" /\ y.aborted = x.aborted
             /\ y.out = out /\ SameMail(x, y)
<1> DEFINE y == Ends(x, out)
<1>1. x \in AgentType
  BY DEF AgentSound
<1>2. y \in AgentType
  BY <1>1, SubSets DEF AgentType, Ends
<1>3. /\ y.pc = "over" /\ y.out = out /\ y.aborted = x.aborted /\ y.pending = x.pending
      /\ y.read = x.read /\ y.turn = x.turn /\ y.limit = x.limit
  BY <1>1 DEF AgentType, Ends
<1> HIDE DEF y
<1>4. AgentSound(y, mails)
  BY <1>2, <1>3 DEF AgentSound, MailSound, OutcomeSound
<1>5. QED
  BY <1>3, <1>4 DEF y, SameMail

\* The follow-ups that waited, read after those read before.
LEMMA ReadOn ==
  ASSUME NEW s \in Seq(Nat), NEW t \in Seq(Nat), InOrder(s), OrderedAfter(t, Len(s))
  PROVE  /\ s \o t \in Seq(Nat) /\ Len(s \o t) = Len(s) + Len(t)
         /\ Len(s) \in Nat /\ Len(t) \in Nat /\ InOrder(s \o t)
<1>1. /\ s \o t \in Seq(Nat) /\ Len(s \o t) = Len(s) + Len(t)
      /\ Len(s) \in Nat /\ Len(t) \in Nat
  OBVIOUS
<1>2. ASSUME NEW i \in 1..Len(s \o t)
      PROVE  (s \o t)[i] = i
  <2>1. CASE i <= Len(s)
    BY <1>1, <2>1 DEF InOrder
  <2>2. CASE i > Len(s)
    <3>1. i - Len(s) \in 1..Len(t)
      BY <1>1, <2>2
    <3>2. (s \o t)[i] = t[i - Len(s)]
      BY <1>1, <2>2
    <3>3. QED
      BY <1>1, <3>1, <3>2 DEF OrderedAfter
  <2>3. QED
    BY <1>1, <2>1, <2>2
<1>3. QED
  BY <1>1, <1>2 DEF InOrder

\* The loop goes on: what waited has been read, or the agent is over.
LEMMA NextTurnSound ==
  ASSUME NEW x, NEW mails \in Nat, AgentSound(x, mails), x.pc # "over"
  PROVE  LET y == NextTurn(x)
         IN  /\ AgentSound(y, mails) /\ y.pc \in {"call", "over"} /\ y.aborted = x.aborted
             /\ x.aborted => y.pc = "over"
             /\ y.pc = "over" /\ y.out # "cancelled" => SameMail(x, y) /\ x.pending = <<>>
             /\ y.pc = "over" => y.out # "none"
             /\ x.turn < x.limit /\ ~x.aborted => y.pc = "call"
<1> DEFINE y == NextTurn(x)
<1>1. /\ x \in AgentType /\ x.turn \in TurnNos /\ x.limit \in TurnNos /\ x.turn <= x.limit
      /\ x.read \in Seq(Nat) /\ x.pending \in Seq(Nat) /\ x.out = "none"
      /\ x.turn \in Int /\ x.limit \in Int
  BY SubSets DEF AgentSound, AgentType, OutcomeSound, Mailbox
<1>2. CASE x.turn >= x.limit
  <2>1. y = Ends(x, "limit")
    BY <1>2 DEF NextTurn
  <2>2. x.pending = <<>>
    BY <1>1, <1>2 DEF AgentSound, MailSound
  <2> HIDE DEF y
  <2>3. /\ AgentSound(y, mails) /\ y.pc = "over" /\ y.aborted = x.aborted
        /\ y.out = "limit" /\ SameMail(x, y)
    BY <2>1, EndsSound
  <2>4. QED
    BY <2>2, <2>3, <1>1, <1>2 DEF y
<1>3. ASSUME x.turn < x.limit
      PROVE  x.turn + 1 \in TurnNos /\ x.turn + 1 <= x.limit
  BY <1>1, <1>3, SubAgentConstants DEF TurnNos
<1>4. CASE x.turn < x.limit /\ x.aborted
  <2> DEFINE z == [x EXCEPT !.turn = @ + 1]
  <2>1. y = Ends(z, "cancelled")
    BY <1>1, <1>4 DEF NextTurn
  <2>2. z \in AgentType
    BY <1>1, <1>3, <1>4 DEF AgentType
  <2>3. /\ z.pc = x.pc /\ z.out = x.out /\ z.aborted = x.aborted /\ z.pending = x.pending
        /\ z.read = x.read /\ z.turn = x.turn + 1 /\ z.limit = x.limit
    BY <1>1 DEF AgentType
  <2> DEFINE w == Ends(z, "cancelled")
  <2> HIDE DEF z
  <2>4. w \in AgentType
    BY <2>2, SubSets DEF AgentType, Ends
  <2>5. /\ w.pc = "over" /\ w.out = "cancelled" /\ w.aborted = z.aborted
        /\ w.pending = z.pending /\ w.read = z.read /\ w.turn = z.turn /\ w.limit = z.limit
    BY <2>2 DEF AgentType, Ends
  <2> HIDE DEF w, y
  <2>6. y = w
    BY <2>1 DEF w
  <2>7. x.turn + 1 <= x.limit
    BY <1>3, <1>4
  <2>8. AgentSound(y, mails)
    BY <2>3, <2>4, <2>5, <2>6, <2>7, <1>4, <1>1 DEF AgentSound, MailSound, OutcomeSound
  <2>9. QED
    BY <2>3, <2>5, <2>6, <2>8, <1>1, <1>4 DEF y
<1>5. CASE x.turn < x.limit /\ ~x.aborted
  <2>1. y = [x EXCEPT !.turn = @ + 1, !.read = @ \o x.pending, !.pending = <<>>,
                      !.pc = "call", !.calls = 0]
    BY <1>1, <1>5 DEF NextTurn
  <2>2. x.read \o x.pending \in Mailbox
    BY <1>1 DEF Mailbox
  <2>3. y \in AgentType
    BY <2>1, <2>2, <1>1, <1>3, <1>5, SubSets DEF AgentType
  <2>4. /\ y.pc = "call" /\ y.out = "none" /\ y.aborted = x.aborted /\ y.pending = <<>>
        /\ y.read = x.read \o x.pending /\ y.turn = x.turn + 1 /\ y.limit = x.limit
    BY <2>1, <1>1 DEF AgentType
  <2> HIDE DEF y
  <2>5. PICK a \in Seq(Nat), b \in Seq(Nat) : a = x.read /\ b = x.pending
    BY <1>1
  <2>6. MailSound(y, mails)
    <3>1. InOrder(a) /\ OrderedAfter(b, Len(a)) /\ Len(a) + Len(b) = mails
      BY <2>5 DEF AgentSound, MailSound
    <3>2. InOrder(a \o b) /\ Len(a \o b) = mails
      BY <3>1, ReadOn
    <3>3. OrderedAfter(<<>>, mails) /\ Len(<<>>) = 0
      BY DEF OrderedAfter
    <3>4. /\ y.read = a \o b /\ y.pending = <<>>
      BY <2>4, <2>5
    <3>5. QED
      BY <3>2, <3>3, <3>4, SubAgentConstants DEF MailSound
  <2>7. AgentSound(y, mails)
    BY <2>3, <2>4, <2>6, <1>1, <1>3, <1>5 DEF AgentSound, OutcomeSound
  <2>8. QED
    BY <2>4, <2>7, <1>1, <1>5 DEF y
<1>6. QED
  BY <1>1, <1>2, <1>4, <1>5

\* What a step of the loop does to an agent that runs: it stays sound, ends by
\* itself only with all read, and begins nothing once the task is cancelled.
Goes(x, y, mails) ==
  /\ AgentSound(y, mails) /\ y.aborted = x.aborted /\ y.pc # "none"
  /\ y.pc = "over" /\ y.out # "cancelled" => InOrder(y.read) /\ Len(y.read) = mails
  /\ x.aborted => y.pc = "over" \/ (y.turn = x.turn /\ (y.calls = x.calls \/ x.pc = "write"))

\* An agent none of whose mails, turns and outcome change is as sound as before.
LEMMA StillSound ==
  ASSUME NEW x, NEW y \in AgentType, NEW mails \in Nat, AgentSound(x, mails), SameMail(x, y),
         y.turn = x.turn, y.limit = x.limit, y.out = x.out, x.aborted => y.aborted,
         x.pc = "over" <=> y.pc = "over", y.pc \in {"tool", "write"} => y.calls # 0
  PROVE  AgentSound(y, mails)
BY DEF AgentSound, MailSound, OutcomeSound, SameMail

\* The last reply has been read by whoever has nothing waiting.
LEMMA AllRead ==
  ASSUME NEW x, NEW mails \in Nat, AgentSound(x, mails), x.pending = <<>>
  PROVE  InOrder(x.read) /\ Len(x.read) = mails
<1>1. x.read \in Seq(Nat) /\ Len(x.read) \in Nat /\ Len(x.pending) = 0
  BY DEF AgentSound, AgentType, Mailbox
<1>2. QED
  BY <1>1 DEF AgentSound, MailSound

LEMMA EndsGoes ==
  ASSUME NEW x, NEW mails \in Nat, AgentSound(x, mails),
         NEW out \in {"answer", "error", "limit", "cancelled"},
         out = "cancelled" => x.aborted, out # "cancelled" => x.pending = <<>>
  PROVE  Goes(x, Ends(x, out), mails)
<1> DEFINE y == Ends(x, out)
<1>1. /\ AgentSound(y, mails) /\ y.pc = "over" /\ y.aborted = x.aborted
      /\ y.out = out /\ SameMail(x, y)
  BY EndsSound
<1> HIDE DEF y
<1>2. y.out # "cancelled" => InOrder(y.read) /\ Len(y.read) = mails
  BY <1>1, AllRead DEF SameMail
<1>3. Goes(x, y, mails)
  BY <1>1, <1>2 DEF Goes
<1>4. QED
  BY <1>3 DEF y

LEMMA NextTurnGoes ==
  ASSUME NEW x, NEW mails \in Nat, AgentSound(x, mails), x.pc # "over"
  PROVE  /\ Goes(x, NextTurn(x), mails)
         /\ x.turn < x.limit /\ ~x.aborted => NextTurn(x).pc = "call"
<1> DEFINE y == NextTurn(x)
<1>1. /\ AgentSound(y, mails) /\ y.pc \in {"call", "over"} /\ y.aborted = x.aborted
      /\ x.aborted => y.pc = "over"
      /\ y.pc = "over" /\ y.out # "cancelled" => SameMail(x, y) /\ x.pending = <<>>
      /\ x.turn < x.limit /\ ~x.aborted => y.pc = "call"
  BY NextTurnSound
<1> HIDE DEF y
<1>2. y.pc = "over" /\ y.out # "cancelled" => InOrder(y.read) /\ Len(y.read) = mails
  BY <1>1, AllRead DEF SameMail
<1>3. Goes(x, y, mails)
  BY <1>1, <1>2 DEF Goes
<1>4. QED
  BY <1>1, <1>3 DEF y

\* A follow-up that is accepted waits with a turn left to read it.
LEMMA QueuedSound ==
  ASSUME NEW x, NEW mails \in Nat, AgentSound(x, mails), Len(x.pending) < MailCap,
         ~(x.turn >= x.limit /\ x.limit >= TurnCap)
  PROVE  LET y == Queued(x, mails + 1)
         IN  /\ AgentSound(y, mails + 1) /\ y.pc = x.pc /\ y.aborted = x.aborted
             /\ y.out = x.out /\ y.turn = x.turn /\ y.calls = x.calls
<1> DEFINE y == Queued(x, mails + 1)
<1>1. /\ x \in AgentType /\ x.turn \in TurnNos /\ x.limit \in TurnNos
      /\ x.pending \in Seq(Nat) /\ x.read \in Seq(Nat) /\ mails + 1 \in Nat
      /\ Len(x.pending) \in Nat /\ Len(x.read) \in Nat /\ x.turn <= x.limit
  BY DEF AgentSound, AgentType, Mailbox
<1> DEFINE lim == IF x.turn >= x.limit THEN x.limit + 1 ELSE x.limit
<1>2. lim \in TurnNos /\ x.turn < lim
  BY <1>1, SubAgentConstants DEF TurnNos
<1> DEFINE waits == Append(x.pending, mails + 1)
<1>3. waits \in Mailbox /\ Len(waits) = Len(x.pending) + 1 /\ OrderedAfter(waits, Len(x.read))
  <2>1. PICK a \in Seq(Nat), n \in Nat : a = x.pending /\ n = Len(x.read)
    BY <1>1
  <2>2. OrderedAfter(a, n) /\ n + Len(a) = mails
    BY <2>1 DEF AgentSound, MailSound
  <2>3. /\ Append(a, mails + 1) \in Seq(Nat) /\ Len(Append(a, mails + 1)) = Len(a) + 1
        /\ OrderedAfter(Append(a, mails + 1), n)
    BY <2>2, <1>1 DEF OrderedAfter
  <2>4. QED
    BY <2>1, <2>3 DEF Mailbox
<1>4. y = [x EXCEPT !.pending = waits, !.limit = lim]
  BY <1>1 DEF Queued, AgentType
<1> HIDE DEF lim, waits, y
<1>5. y \in AgentType
  BY <1>1, <1>2, <1>3, <1>4 DEF AgentType
<1>6. /\ y.pending = waits /\ y.limit = lim /\ y.read = x.read /\ y.turn = x.turn
      /\ y.pc = x.pc /\ y.aborted = x.aborted /\ y.out = x.out /\ y.calls = x.calls
  BY <1>1, <1>4 DEF AgentType
<1>7. x.turn \in Int /\ lim \in Int
  BY <1>1, <1>2, SubSets
<1>8. MailSound(y, mails + 1)
  <2>1. Len(x.read) + Len(x.pending) = mails /\ InOrder(x.read)
    BY DEF AgentSound, MailSound
  <2>2. Len(y.read) + Len(y.pending) = mails + 1
    <3>1. Len(y.read) = Len(x.read) /\ Len(y.pending) = Len(x.pending) + 1
      BY <1>6, <1>3
    <3>2. PICK m \in Nat, n \in Nat : m = Len(x.read) /\ n = Len(x.pending)
      BY <1>1
    <3>3. m + n = mails
      BY <2>1, <3>2
    <3>4. Len(y.read) = m /\ Len(y.pending) = n + 1
      BY <3>1, <3>2
    <3>5. m + (n + 1) = mails + 1
      BY <3>3
    <3>6. QED
      BY <3>4, <3>5
  <2>3. Len(y.pending) <= MailCap
    BY <1>1, <1>3, <1>6, SubAgentConstants
  <2>4. QED
    BY <2>1, <2>2, <2>3, <1>2, <1>3, <1>6 DEF MailSound
<1>9. AgentSound(y, mails + 1)
  BY <1>2, <1>5, <1>6, <1>7, <1>8 DEF AgentSound, OutcomeSound
<1>10. QED
  BY <1>6, <1>9 DEF y

\* Each step of the loop, as the task sees it.
LEMMA LoopStep ==
  ASSUME SubInv,
         \/ CallFails \/ ReplyIsLate \/ ReplyCallsTools \/ ReplyIsSentBack
         \/ ReplyShowsWrites \/ ReplyIsFinal \/ ToolEnds \/ WriteEnds
  PROVE  /\ agent.pc \notin {"none", "over"} /\ UNCHANGED task
         /\ Goes(agent, agent', task.mails)
<1> DEFINE m == task.mails
<1>1. /\ AgentSound(agent, m) /\ m \in Nat /\ agent \in AgentType
      /\ agent.calls \in CallNos /\ agent.cuts \in CutNos
  BY SubAgentConstants DEF SubInv, TaskType, AgentSound, AgentType
<1> HIDE DEF m
<1>2. ASSUME CallFails
      PROVE  Goes(agent, agent', m)
  BY <1>1, <1>2, EndsGoes, NextTurnGoes DEF CallFails
<1>3. ASSUME ReplyIsLate
      PROVE  Goes(agent, agent', m)
  BY <1>1, <1>3, EndsGoes, NextTurnGoes DEF ReplyIsLate
<1>4. ASSUME NEW n \in CallNos, NEW pc \in {"call", "tool", "write"},
             agent.pc # "over", ~agent.aborted \/ agent.pc = "write",
             pc # "call" => n # 0,
             agent' = [agent EXCEPT !.pc = pc, !.calls = n]
      PROVE  Goes(agent, agent', m)
  <2>1. agent' \in AgentType
    BY <1>1, <1>4, SubSets DEF AgentType
  <2>2. /\ SameMail(agent, agent') /\ agent'.turn = agent.turn /\ agent'.limit = agent.limit
        /\ agent'.out = agent.out /\ agent'.aborted = agent.aborted /\ agent'.pc = pc
        /\ agent'.calls = n
    BY <1>1, <1>4 DEF AgentType, SameMail
  <2>3. AgentSound(agent', m)
    BY <1>1, <1>4, <2>1, <2>2, StillSound
  <2>4. QED
    BY <1>4, <2>2, <2>3 DEF Goes
<1>5. ASSUME ReplyCallsTools
      PROVE  Goes(agent, agent', m)
  <2>1. PICK n \in 1..MaxCalls : agent' = [agent EXCEPT !.pc = "tool", !.calls = n]
    BY <1>5 DEF ReplyCallsTools
  <2>2. n \in CallNos /\ n # 0
    BY SubAgentConstants DEF CallNos
  <2>3. QED
    BY <1>4, <1>5, <2>1, <2>2 DEF ReplyCallsTools, InTime
<1>6. ASSUME ReplyShowsWrites
      PROVE  Goes(agent, agent', m)
  <2>1. PICK n \in 1..MaxCalls : agent' = [agent EXCEPT !.pc = "write", !.calls = n]
    BY <1>6 DEF ReplyShowsWrites
  <2>2. n \in CallNos /\ n # 0
    BY SubAgentConstants DEF CallNos
  <2>3. QED
    BY <1>4, <1>6, <2>1, <2>2 DEF ReplyShowsWrites, InTime
<1>7. ASSUME NEW z \in AgentType, SameMail(agent, z), z.turn = agent.turn, InTime,
             z.limit = agent.limit, z.out = agent.out, z.aborted = agent.aborted,
             z.calls = agent.calls,
             z.pc = agent.pc, agent' = NextTurn(z)
      PROVE  Goes(agent, agent', m)
  <2>1. AgentSound(z, m) /\ z.pc # "over"
    BY <1>1, <1>7, StillSound DEF InTime
  <2>2. Goes(z, NextTurn(z), m)
    BY <1>1, <2>1, NextTurnGoes
  <2>3. QED
    BY <1>7, <2>2 DEF Goes, InTime
<1>8. ASSUME ReplyIsSentBack
      PROVE  Goes(agent, agent', m)
  <2>1. CASE agent.cuts < CutCap /\ agent' = NextTurn([agent EXCEPT !.cuts = @ + 1])
    <3> DEFINE z == [agent EXCEPT !.cuts = @ + 1]
    <3>1. agent.cuts + 1 \in CutNos
      BY <1>1, <2>1, SubAgentConstants DEF CutNos
    <3>2. z \in AgentType
      BY <1>1, <3>1 DEF AgentType
    <3>3. /\ SameMail(agent, z) /\ z.turn = agent.turn /\ z.limit = agent.limit
          /\ z.out = agent.out /\ z.aborted = agent.aborted /\ z.pc = agent.pc
          /\ z.calls = agent.calls
      BY <1>1 DEF AgentType, SameMail
    <3>4. agent' = NextTurn(z)
      BY <2>1
    <3> HIDE DEF z
    <3>5. QED
      BY <1>7, <1>8, <3>2, <3>3, <3>4 DEF ReplyIsSentBack
  <2>2. CASE agent' = NextTurn([agent EXCEPT !.retried = TRUE])
    <3> DEFINE z == [agent EXCEPT !.retried = TRUE]
    <3>1. z \in AgentType
      BY <1>1 DEF AgentType
    <3>2. /\ SameMail(agent, z) /\ z.turn = agent.turn /\ z.limit = agent.limit
          /\ z.out = agent.out /\ z.aborted = agent.aborted /\ z.pc = agent.pc
          /\ z.calls = agent.calls
      BY <1>1 DEF AgentType, SameMail
    <3>3. agent' = NextTurn(z)
      BY <2>2
    <3> HIDE DEF z
    <3>4. QED
      BY <1>7, <1>8, <3>1, <3>2, <3>3 DEF ReplyIsSentBack
  <2>3. QED
    BY <1>8, <2>1, <2>2 DEF ReplyIsSentBack
<1>9. ASSUME ReplyIsFinal
      PROVE  Goes(agent, agent', m)
  BY <1>1, <1>9, EndsGoes DEF ReplyIsFinal, InTime
<1>10. ASSUME agent.calls # 1, agent.pc \in {"tool", "write"}
       PROVE  agent.calls - 1 \in CallNos /\ agent.calls - 1 # 0
  BY <1>1, <1>10, SubAgentConstants DEF CallNos, AgentSound, OutcomeSound
<1>11. ASSUME ToolEnds
       PROVE  Goes(agent, agent', m)
  <2>1. CASE agent.aborted
    BY <1>1, <1>11, <2>1, EndsGoes DEF ToolEnds
  <2>2. CASE ~agent.aborted /\ (agent.calls = 1 \/ agent.pending # <<>>)
    BY <1>1, <1>11, <2>2, NextTurnGoes DEF ToolEnds
  <2>3. CASE ~agent.aborted /\ agent.calls # 1 /\ agent.pending = <<>>
    <3>1. agent' = [agent EXCEPT !.pc = "tool", !.calls = agent.calls - 1]
      BY <1>1, <1>11, <2>3 DEF ToolEnds, AgentType
    <3>2. QED
      BY <3>1, <1>4, <1>10, <1>11, <2>3 DEF ToolEnds
  <2>4. QED
    BY <2>1, <2>2, <2>3
<1>12. ASSUME WriteEnds
       PROVE  Goes(agent, agent', m)
  <2>1. CASE agent.calls = 1
    BY <1>1, <1>12, <2>1, NextTurnGoes DEF WriteEnds
  <2>2. CASE agent.calls # 1
    <3>1. agent' = [agent EXCEPT !.pc = "write", !.calls = agent.calls - 1]
      BY <1>1, <1>12, <2>2 DEF WriteEnds, AgentType
    <3>2. QED
      BY <3>1, <1>4, <1>10, <1>12, <2>2 DEF WriteEnds
  <2>3. QED
    BY <2>1, <2>2
<1>13. agent.pc \notin {"none", "over"} /\ UNCHANGED task
  BY DEF CallFails, ReplyIsLate, ReplyCallsTools, ReplyIsSentBack, ReplyShowsWrites,
         ReplyIsFinal, ToolEnds, WriteEnds, InTime
<1>14. Goes(agent, agent', m)
  BY <1>2, <1>3, <1>5, <1>6, <1>8, <1>9, <1>11, <1>12
<1>15. QED
  BY <1>13, <1>14 DEF m

\* The record after a step of the loop: nothing in it speaks of a run that goes on.
LEMMA LoopKeepsRecord ==
  ASSUME SubInv, agent.pc \notin {"none", "over"}, UNCHANGED task,
         Goes(agent, agent', task.mails)
  PROVE  SubInv'
<1>1. task.status # "completed"
  BY DEF SubInv, RecordSound
<1>2. AgentSound(agent', task'.mails)
  BY DEF Goes
<1>3. RecordSound'
  BY DEF SubInv, RecordSound, Goes
<1>4. ResultTellsStatus'
  BY <1>1 DEF SubInv, ResultTellsStatus
<1>5. QED
  BY <1>2, <1>3, <1>4 DEF SubInv

LEMMA LaunchInv ==
  ASSUME SubInv, Launch
  PROVE  SubInv' /\ agent.pc = "none" /\ agent'.pc = "call" /\ ~agent.aborted
<1>1. PICK most \in 1..TurnCap, isolation \in {"shared", "worktree"} :
        /\ agent' = NextTurn([NoAgent EXCEPT !.limit = most])
        /\ task' = [NoTask EXCEPT !.listed = TRUE, !.status = "running",
                                  !.isolation = isolation]
  BY DEF Launch
<1>2. agent.pc = "none" /\ ~agent.aborted
  BY DEF SubInv, RecordSound, Launch
<1> DEFINE x == [NoAgent EXCEPT !.limit = most]
<1>3. most \in TurnNos
  BY SubAgentConstants DEF TurnNos
<1>4. NoAgent \in AgentType
  BY SubSets DEF NoAgent, AgentType
<1>5. x \in AgentType
  BY <1>3, <1>4 DEF AgentType
<1>6. /\ x.pc = "none" /\ x.turn = 0 /\ x.limit = most /\ x.pending = <<>> /\ x.read = <<>>
      /\ x.aborted = FALSE /\ x.out = "none"
  BY DEF NoAgent
<1> HIDE DEF x
<1>7. AgentSound(x, 0)
  BY <1>5, <1>6, SubAgentConstants
     DEF AgentSound, MailSound, OutcomeSound, InOrder, OrderedAfter
<1>8. Goes(x, agent', 0) /\ agent'.pc = "call"
  <2>1. agent' = NextTurn(x)
    BY <1>1 DEF x
  <2>2. x.turn < x.limit
    BY <1>6, SubAgentConstants
  <2>3. QED
    BY <2>1, <2>2, <1>6, <1>7, NextTurnGoes
<1>9. /\ task' \in TaskType /\ task'.mails = 0 /\ task'.status = "running" /\ task'.listed
      /\ task'.result = "none" /\ ~task'.settled /\ task'.got = "none"
  <2>1. NoTask \in TaskType
    BY SubSets, SubAgentConstants DEF NoTask, TaskType
  <2>2. NoTask.mails = 0 /\ NoTask.result = "none" /\ ~NoTask.settled /\ NoTask.got = "none"
    BY DEF NoTask
  <2>3. QED
    BY <1>1, <2>1, <2>2 DEF TaskType
<1>10. AgentSound(agent', task'.mails)
  BY <1>8, <1>9 DEF Goes
<1>11. RecordSound'
  BY <1>6, <1>8, <1>9 DEF RecordSound, Goes
<1>12. ResultTellsStatus'
  BY <1>9 DEF ResultTellsStatus
<1>13. QED
  BY <1>2, <1>8, <1>9, <1>10, <1>11, <1>12 DEF SubInv

LEMMA SettlesInv ==
  ASSUME SubInv, RunSettles
  PROVE  SubInv'
<1>1. /\ task \in TaskType /\ agent \in AgentType /\ UNCHANGED agent
  BY DEF SubInv, AgentSound, RunSettles
<1>2. PICK outcome \in {"completed", "failed"}, result \in {"answer", "error", "limit", "cancelled"} :
        /\ Settle(outcome, result)
        /\ outcome = "completed" => result = "answer" /\ agent.out = "answer"
        /\ outcome = "failed" => result # "answer" /\ (result = "cancelled" => agent.aborted)
  <2>1. agent.out \in AgentOuts \ {"none"} /\ (agent.out = "cancelled" => agent.aborted)
    BY <1>1 DEF SubInv, AgentSound, OutcomeSound, AgentType, RunSettles
  <2>2. QED
    BY <2>1 DEF RunSettles, AgentOuts
<1>3. CASE task.listed /\ task.status = "running"
  <2>1. task' = [task EXCEPT !.settled = TRUE, !.status = outcome, !.result = result]
    BY <1>2, <1>3 DEF Settle
  <2>2. /\ task' \in TaskType /\ task'.settled /\ task'.status = outcome
        /\ task'.result = result /\ task'.mails = task.mails /\ task'.got = task.got
        /\ task'.listed = task.listed
    BY <2>1, <1>1 DEF TaskType, AgentOuts
  <2>3. ~agent.aborted /\ agent.pc = "over" /\ task.got = "none"
    BY <1>3 DEF SubInv, RecordSound, RunSettles, ResultTellsStatus
  <2>4. AgentSound(agent', task'.mails)
    BY <2>2, <1>1 DEF SubInv
  <2>5. RecordSound'
    BY <2>2, <2>3, <1>1 DEF RecordSound
  <2>6. ResultTellsStatus'
    BY <2>2, <2>3, <1>1, <1>2 DEF ResultTellsStatus
  <2>7. QED
    BY <2>2, <2>4, <2>5, <2>6 DEF SubInv
<1>4. CASE ~(task.listed /\ task.status = "running")
  <2>1. task' = [task EXCEPT !.settled = TRUE]
    BY <1>2, <1>4 DEF Settle
  <2>2. /\ task' \in TaskType /\ task'.settled /\ task'.status = task.status
        /\ task'.result = task.result /\ task'.mails = task.mails /\ task'.got = task.got
        /\ task'.listed = task.listed
    BY <2>1, <1>1 DEF TaskType
  <2>3. task.status # "running" /\ agent.pc = "over"
    BY <1>4 DEF SubInv, RecordSound, RunSettles
  <2>4. AgentSound(agent', task'.mails)
    BY <2>2, <1>1 DEF SubInv
  <2>5. RecordSound'
    BY <2>2, <2>3, <1>1 DEF RecordSound, SubInv
  <2>6. ResultTellsStatus'
    BY <2>2, <1>1 DEF ResultTellsStatus, SubInv
  <2>7. QED
    BY <2>2, <2>4, <2>5, <2>6 DEF SubInv
<1>5. QED
  BY <1>3, <1>4

LEMMA SendInv ==
  ASSUME SubInv, Send
  PROVE  SubInv' /\ agent'.pc = agent.pc /\ ~agent.aborted
<1>1. /\ task \in TaskType /\ AgentSound(agent, task.mails) /\ ~agent.aborted
      /\ task.mails \in Nat /\ task.mails + 1 \in 0..MaxMails
  BY SubAgentConstants DEF SubInv, TaskType, RecordSound, Send
<1>2. PICK m \in Nat : m = task.mails
  BY <1>1
<1>3. agent' = Queued(agent, m + 1) /\ task' = [task EXCEPT !.mails = m + 1]
  BY <1>1, <1>2 DEF Send, TaskType
<1>4. /\ AgentSound(agent', m + 1) /\ agent'.pc = agent.pc
      /\ agent'.aborted = agent.aborted /\ agent'.out = agent.out
  BY <1>1, <1>2, <1>3, QueuedSound DEF Send
<1>5. /\ task' \in TaskType /\ task'.mails = m + 1 /\ task'.status = task.status
      /\ task'.result = task.result /\ task'.listed = task.listed
      /\ task'.settled = task.settled /\ task'.got = task.got
  BY <1>1, <1>2, <1>3 DEF TaskType
<1>6. RecordSound'
  BY <1>4, <1>5 DEF RecordSound, SubInv, Send
<1>7. ResultTellsStatus'
  BY <1>4, <1>5 DEF ResultTellsStatus, SubInv
<1>8. QED
  BY <1>1, <1>4, <1>5, <1>6, <1>7 DEF SubInv

LEMMA CancelInv ==
  ASSUME SubInv, Cancel
  PROVE  SubInv' /\ agent'.pc = agent.pc /\ ~agent.aborted
<1>1. /\ task \in TaskType /\ AgentSound(agent, task.mails) /\ ~agent.aborted
      /\ task.mails \in Nat /\ agent \in AgentType /\ task.got = "none"
  BY SubAgentConstants
     DEF SubInv, TaskType, RecordSound, Cancel, AgentSound, ResultTellsStatus
<1>2. agent' \in AgentType
  BY <1>1 DEF Cancel, AgentType
<1>3. /\ SameMail(agent, agent') /\ agent'.turn = agent.turn /\ agent'.limit = agent.limit
      /\ agent'.out = agent.out /\ agent'.aborted /\ agent'.pc = agent.pc
      /\ agent'.calls = agent.calls
  BY <1>1 DEF Cancel, AgentType, SameMail
<1>4. AgentSound(agent', task.mails)
  <2>1. agent'.pc \in {"tool", "write"} => agent'.calls # 0
    BY <1>1, <1>3 DEF AgentSound, OutcomeSound
  <2>2. QED
    BY <1>1, <1>2, <1>3, <2>1, StillSound
<1>5. /\ task' \in TaskType /\ task'.mails = task.mails /\ task'.status = "cancelled"
      /\ task'.result = "cancelled" /\ task'.listed = task.listed
      /\ task'.settled = task.settled /\ task'.got = task.got
  BY <1>1 DEF Cancel, TaskType, AgentOuts
<1>6. RecordSound'
  BY <1>3, <1>5 DEF RecordSound, SubInv, Cancel
<1>7. ResultTellsStatus'
  BY <1>1, <1>5 DEF ResultTellsStatus
<1>8. QED
  BY <1>1, <1>3, <1>4, <1>5, <1>6, <1>7 DEF SubInv

LEMMA GetsInv ==
  ASSUME SubInv, GetResult \/ GetterReturns
  PROVE  SubInv' /\ UNCHANGED agent
<1>1. task \in TaskType /\ UNCHANGED agent
  BY DEF SubInv, GetResult, GetterReturns
<1>2. CASE task' = [task EXCEPT !.getter = "waits"]
  <2>1. /\ task' \in TaskType /\ task'.mails = task.mails /\ task'.status = task.status
        /\ task'.result = task.result /\ task'.listed = task.listed
        /\ task'.settled = task.settled /\ task'.got = task.got
    BY <1>1, <1>2 DEF TaskType
  <2>2. RecordSound'
    BY <1>1, <2>1 DEF RecordSound, SubInv
  <2>3. ResultTellsStatus'
    BY <1>1, <2>1 DEF ResultTellsStatus, SubInv
  <2>4. QED
    BY <1>1, <2>1, <2>2, <2>3 DEF SubInv
<1>3. CASE task' = [task EXCEPT !.listed = FALSE, !.getter = "done", !.got = task.result]
           /\ task.status \notin {"none", "running"}
  <2>1. /\ task' \in TaskType /\ task'.mails = task.mails /\ task'.status = task.status
        /\ task'.result = task.result /\ ~task'.listed
        /\ task'.settled = task.settled /\ task'.got = task'.result
    BY <1>1, <1>3 DEF TaskType
  <2>2. RecordSound'
    BY <1>1, <1>3, <2>1 DEF RecordSound, SubInv
  <2>3. ResultTellsStatus'
    BY <1>1, <2>1 DEF ResultTellsStatus, SubInv
  <2>4. QED
    BY <1>1, <2>1, <2>2, <2>3 DEF SubInv
<1>4. QED
  <2>1. GetterReturns => task.status \notin {"none", "running"}
    BY DEF SubInv, RecordSound, GetterReturns
  <2>2. GetResult => task.listed
    BY DEF GetResult
  <2>3. task.listed /\ task.result # "none" => task.status \notin {"none", "running"}
    BY DEF SubInv, RecordSound
  <2>4. QED
    BY <1>1, <1>2, <1>3, <2>1, <2>2, <2>3 DEF GetResult, GetterReturns

LEMMA SubNextInv ==
  ASSUME SubInv, [SubNext]_subVars
  PROVE  SubInv'
<1>1. CASE UNCHANGED subVars
  BY <1>1 DEF subVars, SubInv, RecordSound, ResultTellsStatus
<1>2. CASE RunSettles
  BY <1>2, SettlesInv
<1>3. CASE GetterReturns \/ GetResult
  BY <1>3, GetsInv
<1>4. CASE Launch
  BY <1>4, LaunchInv
<1>5. CASE Send
  BY <1>5, SendInv
<1>6. CASE Cancel
  BY <1>6, CancelInv
<1>7. CASE \/ CallFails \/ ReplyIsLate \/ ReplyCallsTools \/ ReplyIsSentBack
           \/ ReplyShowsWrites \/ ReplyIsFinal \/ ToolEnds \/ WriteEnds
  BY <1>7, LoopStep, LoopKeepsRecord
<1>8. QED
  BY <1>1, <1>2, <1>3, <1>4, <1>5, <1>6, <1>7 DEF SubNext, AgentSteps

\* The inductive invariant holds of every behaviour of a sub-agent and its task.
THEOREM SubInvHolds == SubSpec => []SubInv
<1>1. SubInit => SubInv
  BY SubInitInv
<1>2. SubInv /\ [SubNext]_subVars => SubInv'
  BY SubNextInv
<1>3. QED
  BY <1>1, <1>2, PTL DEF SubSpec

\* Whoever asks for the result of a sub-agent gets what its status says, and what
\* task_cancel cancelled stays cancelled although the run may end later with an
\* answer: for any number of turns, tool calls and follow-ups.
THEOREM ResultIsThatOfTheStatus == SubSpec => []ResultTellsStatus
<1>1. SubInv => ResultTellsStatus
  BY DEF SubInv
<1>2. QED
  BY <1>1, SubInvHolds, PTL

LEMMA SubInvTypes == SubInv => SubTypeOK
BY DEF SubInv, SubTypeOK, AgentSound, AgentType, TaskType, MailSound, AgentPcs, AgentOuts,
       TurnNos, CallNos, CutNos

\* The values stay in their ranges, the mailbox within MAX_PENDING_FOLLOW_UPS and
\* the limit of turns, that task_send may raise, within MAX_SUB_ITERATIONS.
THEOREM SubTypesHold == SubSpec => []SubTypeOK
BY SubInvTypes, SubInvHolds, PTL

\* What a step of a sub-agent's loop may do, for FollowedUntilCancelled.
FollowStep ==
  /\ agent.pc # "over" /\ agent'.pc = "over" /\ agent'.out # "cancelled"
       => agent'.read = [i \in 1..task.mails |-> i]
  /\ agent.aborted =>
       /\ agent'.turn = agent.turn \/ agent'.pc = "over"
       /\ agent'.calls = agent.calls \/ agent'.pc = "over" \/ agent.pc = "write"

LEMMA FollowLemma ==
  ASSUME SubInv, [SubNext]_subVars
  PROVE  FollowStep \/ UNCHANGED subVars
<1>1. CASE RunSettles \/ GetterReturns \/ GetResult
  BY <1>1 DEF RunSettles, GetterReturns, GetResult, FollowStep
<1>2. CASE Launch
  BY <1>2, LaunchInv DEF FollowStep
<1>3. CASE Send
  BY <1>3, SendInv DEF FollowStep
<1>4. CASE Cancel
  BY <1>4, CancelInv DEF FollowStep
<1>5. CASE \/ CallFails \/ ReplyIsLate \/ ReplyCallsTools \/ ReplyIsSentBack
           \/ ReplyShowsWrites \/ ReplyIsFinal \/ ToolEnds \/ WriteEnds
  <2>1. Goes(agent, agent', task.mails)
    BY <1>5, LoopStep
  <2>2. ASSUME InOrder(agent'.read), Len(agent'.read) = task.mails
        PROVE  agent'.read = [i \in 1..task.mails |-> i]
    <3>1. agent'.read \in Seq(Nat)
      BY <2>1 DEF Goes, AgentSound, AgentType, Mailbox
    <3>2. PICK s \in Seq(Nat) : s = agent'.read
      BY <3>1
    <3>3. PICK m : m = task.mails
      OBVIOUS
    <3>4. Len(s) = m /\ \A i \in 1..m : s[i] = i
      BY <2>2, <3>2, <3>3 DEF InOrder
    <3>5. s = [i \in 1..m |-> i]
      BY <3>4
    <3>6. QED
      BY <3>2, <3>3, <3>5
  <2>3. QED
    BY <2>1, <2>2 DEF Goes, FollowStep
<1>6. QED
  BY <1>1, <1>2, <1>3, <1>4, <1>5 DEF SubNext, AgentSteps

\* A follow-up that task_send accepted is read, in order and once, before the run
\* ends by itself, and after task_cancel no LLM call and no tool is begun but for
\* the writes a reply showed as text: for any limits.
THEOREM FollowUpsAreRead == SubSpec => FollowedUntilCancelled
<1>1. SubInv /\ [SubNext]_subVars => [FollowStep]_subVars
  BY FollowLemma
<1>2. QED
  BY <1>1, SubInvHolds, PTL DEF SubSpec, FollowedUntilCancelled, FollowStep

-----------------------------------------------------------------------------
(* Worktrees. *)

Works == SUBSET Kinds
HeadNos == 0..MaxHeads
TreeStates == {"none", "active", "changed", "error"} \cup Closed
TreeOwners == TreeAgents \cup {"user"}
TreeType == [there : BOOLEAN, work : Works, moved : BOOLEAN, base : HeadNos]
MainType == [head : HeadNos, dirty : SUBSET TreeOwners, has : [TreeAgents -> Works]]
HistoryType == [wrote : [TreeAgents -> Works], dropped : [TreeAgents -> Works]]

TreeTypes ==
  /\ tree \in [TreeAgents -> TreeType] /\ main \in MainType /\ h \in HistoryType
  /\ state \in [TreeAgents -> TreeStates] /\ file \in [TreeAgents -> TreeStates]

\* A worktree that is there holds all its agent wrote, one that is gone nothing
\* that is shown and neither in main nor given up; a closed record, in memory or
\* on disk, is that of one that is gone, and an agent runs only in one that is
\* there and on disk.
TreeSound(a) ==
  /\ tree[a].there => h.wrote[a] = tree[a].work
  /\ ~tree[a].there => tree[a].work = {}
                       /\ h.wrote[a] \cap Shown \subseteq main.has[a] \cup h.dropped[a]
  /\ a \in runs => tree[a].there /\ state[a] = "active"
  /\ state[a] \in Closed \/ file[a] \in Closed => ~tree[a].there
  /\ state[a] = "none" => file[a] = "none"
  /\ file[a] = "none" => h.wrote[a] = {} /\ a \notin runs

\* The steps of an operation find the worktree as its first step left it.
BusySound(a) ==
  /\ busy = [op |-> "create", by |-> a] => tree[a].there /\ state[a] = "active"
  /\ busy = [op |-> "copy", by |-> a] => tree[a].there /\ a \notin runs
  /\ busy = [op |-> "remove", by |-> a] =>
       tree[a].there /\ a \notin runs /\ tree[a].work \cap Shown \subseteq main.has[a]

TreeInv == TreeTypes /\ \A a \in TreeAgents : TreeSound(a) /\ BusySound(a)

LEMMA TreeSets ==
  /\ {} \in Works /\ 0 \in HeadNos /\ NoTree \in TreeType
  /\ \A x \in Works, k \in Kinds : x \cup {k} \in Works
  /\ \A x \in Works, y \in Works : x \cup y \in Works /\ x \cap y \in Works
  /\ {"tracked"} \in Works /\ Shown \in Works
  /\ \A st \in {"none", "active", "changed", "error", "cleaned", "applied", "discarded"} :
       st \in TreeStates
<1>1. 0 \in HeadNos
  BY WorktreeConstants DEF HeadNos
<1>2. NoTree \in TreeType
  BY <1>1 DEF NoTree, TreeType, Works
<1>3. QED
  BY <1>1, <1>2 DEF Works, Kinds, Shown, TreeStates, Closed

LEMMA TreeInitInv == TreeInit => TreeInv
<1> SUFFICES ASSUME TreeInit
             PROVE  TreeInv
  OBVIOUS
<1>1. TreeTypes
  <2>1. main \in MainType /\ h \in HistoryType
    BY TreeSets DEF TreeInit, MainType, HistoryType
  <2>2. QED
    BY <2>1, TreeSets DEF TreeInit, TreeTypes
<1>2. ASSUME NEW a \in TreeAgents
      PROVE  TreeSound(a) /\ BusySound(a)
  BY DEF TreeInit, TreeSound, BusySound, NoTree, NoOp, Closed
<1>3. QED
  BY <1>1, <1>2 DEF TreeInv

\* The agents that an operation leaves alone stay sound.
LEMMA OtherTrees ==
  ASSUME TreeInv, NEW b \in TreeAgents, tree'[b] = tree[b], state'[b] = state[b],
         file'[b] = file[b], main'.has[b] = main.has[b], h'.wrote[b] = h.wrote[b],
         h'.dropped[b] = h.dropped[b], b \in runs' <=> b \in runs,
         busy' = busy \/ busy'.op \notin {"create", "copy", "remove"} \/ busy'.by # b
  PROVE  (TreeSound(b) /\ BusySound(b))'
<1>1. TreeSound(b) /\ BusySound(b)
  BY DEF TreeInv
<1>2. TreeSound(b)'
  BY <1>1 DEF TreeSound
<1>3. CASE busy' = busy
  BY <1>1, <1>2, <1>3 DEF BusySound
<1>4. CASE busy' # busy
  <2>1. \A op \in {"create", "copy", "remove"} : busy' # [op |-> op, by |-> b]
    BY <1>4
  <2>2. QED
    BY <1>2, <2>1 DEF BusySound
<1>5. QED
  BY <1>3, <1>4

LEMMA CreateTreeInv ==
  ASSUME TreeInv, NEW a \in TreeAgents, CreateTree(a)
  PROVE  TreeInv'
<1>1. TreeTypes /\ TreeSound(a)
  BY DEF TreeInv
<1> DEFINE new == [NoTree EXCEPT !.there = TRUE, !.base = main.head]
<1>2. new \in TreeType /\ new.there /\ new.work = {}
  BY <1>1, TreeSets DEF TreeTypes, TreeType, MainType, NoTree
<1>3. tree' = [tree EXCEPT ![a] = new] /\ state' = [state EXCEPT ![a] = "active"]
  BY DEF CreateTree
<1> HIDE DEF new
<1>4. TreeTypes'
  BY <1>1, <1>2, <1>3, TreeSets DEF TreeTypes, CreateTree
<1>5. tree'[a] = new /\ state'[a] = "active"
  BY <1>1, <1>3 DEF TreeTypes
<1>6. (TreeSound(a) /\ BusySound(a))'
  BY <1>1, <1>2, <1>5 DEF TreeSound, BusySound, CreateTree, Busy, Closed
<1>7. ASSUME NEW b \in TreeAgents, b # a
      PROVE  (TreeSound(b) /\ BusySound(b))'
  <2>1. tree'[b] = tree[b] /\ state'[b] = state[b]
    BY <1>1, <1>3, <1>7 DEF TreeTypes
  <2>2. QED
    BY <2>1, <1>7, OtherTrees DEF CreateTree, Busy
<1>8. QED
  BY <1>4, <1>6, <1>7 DEF TreeInv

LEMMA CreateEndsInv ==
  ASSUME TreeInv, NEW a \in TreeAgents, CreateEnds(a)
  PROVE  TreeInv'
<1>1. TreeTypes /\ TreeSound(a) /\ BusySound(a)
  BY DEF TreeInv
<1>2. file' = [file EXCEPT ![a] = "active"] \/ UNCHANGED <<file, runs>>
  BY DEF CreateEnds
<1>3. TreeTypes'
  BY <1>1, <1>2, TreeSets DEF TreeTypes, CreateEnds
<1>4. (file'[a] = "active" /\ runs' \in {runs, runs \cup {a}}) \/ UNCHANGED <<file, runs>>
  BY <1>1 DEF TreeTypes, CreateEnds
<1>5. (TreeSound(a) /\ BusySound(a))'
  BY <1>1, <1>4 DEF TreeSound, BusySound, CreateEnds, NoOp, Closed
<1>6. ASSUME NEW b \in TreeAgents, b # a
      PROVE  (TreeSound(b) /\ BusySound(b))'
  <2>1. file'[b] = file[b] /\ (b \in runs' <=> b \in runs)
    BY <1>1, <1>6 DEF TreeTypes, CreateEnds
  <2>2. QED
    BY <2>1, <1>6, OtherTrees DEF CreateEnds, NoOp
<1>7. QED
  BY <1>3, <1>5, <1>6 DEF TreeInv

LEMMA AgentWritesInv ==
  ASSUME TreeInv, NEW a \in TreeAgents, AgentWrites(a)
  PROVE  TreeInv'
<1>1. TreeTypes /\ TreeSound(a) /\ BusySound(a)
  BY DEF TreeInv
<1>2. PICK kind \in Kinds :
        /\ tree' = [tree EXCEPT ![a].work = @ \cup {kind}]
        /\ h' = [h EXCEPT !.wrote[a] = @ \cup {kind}]
  BY DEF AgentWrites
<1> DEFINE written == tree[a].work \cup {kind}
<1>3. written \in Works /\ tree[a] \in TreeType
  BY <1>1, TreeSets DEF TreeTypes, TreeType
<1>4. /\ tree' = [tree EXCEPT ![a] = [tree[a] EXCEPT !.work = written]]
      /\ [tree[a] EXCEPT !.work = written] \in TreeType
      /\ tree'[a].there = tree[a].there /\ tree'[a].work = written
  BY <1>1, <1>2, <1>3 DEF TreeTypes, TreeType
<1>5. /\ h' \in HistoryType /\ h'.wrote[a] = h.wrote[a] \cup {kind}
      /\ h'.dropped = h.dropped /\ \A b \in TreeAgents : b # a => h'.wrote[b] = h.wrote[b]
  <2>1. h.wrote[a] \cup {kind} \in Works
    BY <1>1, TreeSets DEF TreeTypes, HistoryType
  <2>2. QED
    BY <1>1, <1>2, <2>1 DEF TreeTypes, HistoryType
<1> HIDE DEF written
<1>6. TreeTypes'
  BY <1>1, <1>4, <1>5 DEF TreeTypes, AgentWrites
<1>7. (TreeSound(a) /\ BusySound(a))'
  BY <1>1, <1>4, <1>5 DEF TreeSound, BusySound, AgentWrites, Free, NoOp, written
<1>8. ASSUME NEW b \in TreeAgents, b # a
      PROVE  (TreeSound(b) /\ BusySound(b))'
  <2>1. tree'[b] = tree[b]
    BY <1>1, <1>4, <1>8 DEF TreeTypes
  <2>2. QED
    BY <2>1, <1>5, <1>8, OtherTrees DEF AgentWrites
<1>9. QED
  BY <1>6, <1>7, <1>8 DEF TreeInv

LEMMA AgentCommitsInv ==
  ASSUME TreeInv, NEW a \in TreeAgents, AgentCommits(a)
  PROVE  TreeInv'
<1>1. TreeTypes /\ TreeSound(a) /\ BusySound(a)
  BY DEF TreeInv
<1>2. /\ tree' = [tree EXCEPT ![a] = [tree[a] EXCEPT !.moved = TRUE]]
      /\ [tree[a] EXCEPT !.moved = TRUE] \in TreeType
      /\ tree'[a].there = tree[a].there /\ tree'[a].work = tree[a].work
  BY <1>1 DEF TreeTypes, TreeType, AgentCommits
<1>3. TreeTypes'
  BY <1>1, <1>2 DEF TreeTypes, AgentCommits
<1>4. (TreeSound(a) /\ BusySound(a))'
  BY <1>1, <1>2 DEF TreeSound, BusySound, AgentCommits
<1>5. ASSUME NEW b \in TreeAgents, b # a
      PROVE  (TreeSound(b) /\ BusySound(b))'
  <2>1. tree'[b] = tree[b]
    BY <1>1, <1>2, <1>5 DEF TreeTypes
  <2>2. QED
    BY <2>1, <1>5, OtherTrees DEF AgentCommits
<1>6. QED
  BY <1>3, <1>4, <1>5 DEF TreeInv

\* A worktree is removed or not, and its record in memory changes.
LEMMA TreeUpdate ==
  ASSUME TreeTypes, NEW a \in TreeAgents, NEW st \in TreeStates,
         RemoveTree(a) \/ UNCHANGED tree,
         state' = [state EXCEPT ![a] = st]
  PROVE  /\ tree' \in [TreeAgents -> TreeType] /\ state' \in [TreeAgents -> TreeStates]
         /\ state'[a] = st
         /\ RemoveTree(a) => ~tree'[a].there /\ tree'[a].work = {}
         /\ \A b \in TreeAgents : b # a => tree'[b] = tree[b] /\ state'[b] = state[b]
<1>1. NoTree \in TreeType /\ ~NoTree.there /\ NoTree.work = {}
  BY TreeSets DEF NoTree
<1>2. QED
  BY <1>1 DEF TreeTypes, RemoveTree

LEMMA FinalizeInv ==
  ASSUME TreeInv, NEW a \in TreeAgents, Finalize(a)
  PROVE  TreeInv'
<1>1. TreeTypes /\ TreeSound(a) /\ BusySound(a)
  BY DEF TreeInv
<1>2. PICK st \in {"cleaned", "changed", "error"} :
        /\ state' = [state EXCEPT ![a] = st]
        /\ \/ st = "cleaned" /\ tree[a].work \cap Shown = {} /\ RemoveTree(a)
           \/ st # "cleaned" /\ UNCHANGED tree
  BY DEF Finalize
<1>3. /\ tree' \in [TreeAgents -> TreeType] /\ state' \in [TreeAgents -> TreeStates]
      /\ state'[a] = st
      /\ RemoveTree(a) => ~tree'[a].there /\ tree'[a].work = {}
      /\ \A b \in TreeAgents : b # a => tree'[b] = tree[b] /\ state'[b] = state[b]
  BY <1>1, <1>2, TreeUpdate, TreeSets
<1>4. TreeTypes'
  BY <1>1, <1>3 DEF TreeTypes, Finalize
<1>5. (TreeSound(a) /\ BusySound(a))'
  BY <1>1, <1>2, <1>3 DEF TreeSound, BusySound, Finalize, Busy, Closed
<1>6. ASSUME NEW b \in TreeAgents, b # a
      PROVE  (TreeSound(b) /\ BusySound(b))'
  BY <1>3, <1>6, OtherTrees DEF Finalize, Busy
<1>7. QED
  BY <1>4, <1>5, <1>6 DEF TreeInv

LEMMA PersistInv ==
  ASSUME TreeInv, NEW a \in TreeAgents, Persist(a)
  PROVE  TreeInv'
<1>1. TreeTypes /\ TreeSound(a) /\ BusySound(a)
  BY DEF TreeInv
<1>2. CASE file' = [file EXCEPT ![a] = state[a]] /\ UNCHANGED state
  <2>1. /\ file' \in [TreeAgents -> TreeStates] /\ file'[a] = state[a]
        /\ \A b \in TreeAgents : b # a => file'[b] = file[b]
    BY <1>1, <1>2 DEF TreeTypes
  <2>2. TreeTypes'
    BY <1>1, <1>2, <2>1 DEF TreeTypes, Persist
  <2>3. (TreeSound(a) /\ BusySound(a))'
    BY <1>1, <1>2, <2>1 DEF TreeSound, BusySound, Persist, NoOp
  <2>4. ASSUME NEW b \in TreeAgents, b # a
        PROVE  (TreeSound(b) /\ BusySound(b))'
    BY <1>2, <2>1, <2>4, OtherTrees DEF Persist, NoOp
  <2>5. QED
    BY <2>2, <2>3, <2>4 DEF TreeInv
<1>3. CASE UNCHANGED file
           /\ state' = [state EXCEPT ![a] = IF @ \in {"cleaned", "changed"} THEN "error" ELSE @]
  <2>1. /\ state' \in [TreeAgents -> TreeStates]
        /\ state'[a] = IF state[a] \in {"cleaned", "changed"} THEN "error" ELSE state[a]
        /\ \A b \in TreeAgents : b # a => state'[b] = state[b]
    BY <1>1, <1>3, TreeSets DEF TreeTypes
  <2>2. TreeTypes'
    BY <1>1, <1>3, <2>1 DEF TreeTypes, Persist
  <2>3. (TreeSound(a) /\ BusySound(a))'
    BY <1>1, <1>3, <2>1 DEF TreeSound, BusySound, Persist, NoOp, Closed
  <2>4. ASSUME NEW b \in TreeAgents, b # a
        PROVE  (TreeSound(b) /\ BusySound(b))'
    BY <1>3, <2>1, <2>4, OtherTrees DEF Persist, NoOp
  <2>5. QED
    BY <2>2, <2>3, <2>4 DEF TreeInv
<1>4. QED
  BY <1>2, <1>3 DEF Persist

\* What is a's work in main changes, and who changed main last.
LEMMA MainUpdate ==
  ASSUME TreeTypes, NEW a \in TreeAgents, NEW has \in Works, NEW dirty \in SUBSET TreeOwners,
         main' = [main EXCEPT !.has[a] = has, !.dirty = dirty]
  PROVE  /\ main' \in MainType /\ main'.has[a] = has
         /\ \A b \in TreeAgents : b # a => main'.has[b] = main.has[b]
BY DEF TreeTypes, MainType

LEMMA ApplyPatchInv ==
  ASSUME TreeInv, NEW a \in TreeAgents, ApplyPatch(a)
  PROVE  TreeInv'
<1>1. TreeTypes /\ TreeSound(a) /\ BusySound(a)
  BY DEF TreeInv
<1> DEFINE has == tree[a].work \cap {"tracked"}
<1>2. has \in Works /\ {a} \in SUBSET TreeOwners
  BY <1>1, TreeSets DEF TreeTypes, TreeType, TreeOwners
<1>3. main' = [main EXCEPT !.has[a] = has, !.dirty = {a}]
  BY DEF ApplyPatch
<1> HIDE DEF has
<1>4. /\ main' \in MainType /\ main'.has[a] = has
      /\ \A b \in TreeAgents : b # a => main'.has[b] = main.has[b]
  BY <1>1, <1>2, <1>3, MainUpdate
<1>5. TreeTypes'
  BY <1>1, <1>4 DEF TreeTypes, ApplyPatch
<1>6. (TreeSound(a) /\ BusySound(a))'
  BY <1>1, <1>4 DEF TreeSound, BusySound, ApplyPatch, Busy
<1>7. ASSUME NEW b \in TreeAgents, b # a
      PROVE  (TreeSound(b) /\ BusySound(b))'
  BY <1>4, <1>7, OtherTrees DEF ApplyPatch, Busy
<1>8. QED
  BY <1>5, <1>6, <1>7 DEF TreeInv

LEMMA ApplyCopiesInv ==
  ASSUME TreeInv, NEW a \in TreeAgents, ApplyCopies(a)
  PROVE  TreeInv'
<1>1. TreeTypes /\ TreeSound(a) /\ BusySound(a)
  BY DEF TreeInv
<1>2. tree[a].work \cap Shown \in Works
  BY <1>1, TreeSets DEF TreeTypes, TreeType
<1>3. PICK has \in Works, dirty \in SUBSET TreeOwners :
        /\ main' = [main EXCEPT !.has[a] = has, !.dirty = dirty]
        /\ \/ busy' = NoOp
           \/ has = tree[a].work \cap Shown /\ Busy("remove", a)
  <2>1. CASE /\ main' = [main EXCEPT !.has[a] = tree[a].work \cap Shown]
             /\ Busy("remove", a)
    <3>1. main' = [main EXCEPT !.has[a] = tree[a].work \cap Shown, !.dirty = main.dirty]
          /\ main.dirty \in SUBSET TreeOwners
      BY <1>1, <2>1 DEF TreeTypes, MainType
    <3>2. QED
      BY <1>2, <2>1, <3>1
  <2>2. CASE /\ \E left \in SUBSET (tree[a].work \cap Shown) :
                  main' = [main EXCEPT !.has[a] = left, !.dirty = IF left = {} THEN {} ELSE {a}]
             /\ busy' = NoOp
    <3>1. PICK left \in SUBSET (tree[a].work \cap Shown) :
                  main' = [main EXCEPT !.has[a] = left, !.dirty = IF left = {} THEN {} ELSE {a}]
      BY <2>2
    <3>2. left \in Works
      BY <1>2 DEF Works
    <3>3. (IF left = {} THEN {} ELSE {a}) \in SUBSET TreeOwners
      BY DEF TreeOwners
    <3>4. QED
      BY <2>2, <3>1, <3>2, <3>3
  <2>3. QED
    BY <2>1, <2>2 DEF ApplyCopies
<1>4. /\ main' \in MainType /\ main'.has[a] = has
      /\ \A b \in TreeAgents : b # a => main'.has[b] = main.has[b]
  BY <1>1, <1>3, MainUpdate
<1>5. TreeTypes'
  BY <1>1, <1>4 DEF TreeTypes, ApplyCopies
<1>6. (TreeSound(a) /\ BusySound(a))'
  <2>1. /\ tree[a].there /\ a \notin runs /\ UNCHANGED <<tree, state, file, runs, h>>
    BY <1>1 DEF BusySound, ApplyCopies
  <2>2. TreeSound(a)'
    BY <1>1, <2>1 DEF TreeSound
  <2>3. CASE busy' = NoOp
    BY <2>2, <2>3 DEF BusySound, NoOp
  <2>4. CASE main'.has[a] = tree[a].work \cap Shown /\ Busy("remove", a)
    BY <2>1, <2>2, <2>4 DEF BusySound, Busy
  <2>5. QED
    BY <1>3, <1>4, <2>3, <2>4
<1>7. ASSUME NEW b \in TreeAgents, b # a
      PROVE  (TreeSound(b) /\ BusySound(b))'
  <2>1. busy'.op = "none" \/ busy'.by # b
    BY <1>3, <1>7 DEF Busy, NoOp
  <2>2. UNCHANGED <<tree, state, file, runs, h>>
    BY DEF ApplyCopies
  <2>3. QED
    BY <1>4, <1>7, <2>1, <2>2, OtherTrees
<1>8. QED
  BY <1>5, <1>6, <1>7 DEF TreeInv

LEMMA ApplyRemovesInv ==
  ASSUME TreeInv, NEW a \in TreeAgents, ApplyRemoves(a)
  PROVE  TreeInv'
<1>1. TreeTypes /\ TreeSound(a) /\ BusySound(a)
  BY DEF TreeInv
<1>2. CASE RemoveTree(a) /\ state' = [state EXCEPT ![a] = "applied"] /\ Busy("persist", a)
  <2>1. /\ tree' \in [TreeAgents -> TreeType] /\ state' \in [TreeAgents -> TreeStates]
        /\ state'[a] = "applied" /\ ~tree'[a].there /\ tree'[a].work = {}
        /\ \A b \in TreeAgents : b # a => tree'[b] = tree[b] /\ state'[b] = state[b]
    BY <1>1, <1>2, TreeUpdate, TreeSets
  <2>2. TreeTypes'
    BY <1>1, <2>1 DEF TreeTypes, ApplyRemoves
  <2>3. (TreeSound(a) /\ BusySound(a))'
    BY <1>1, <1>2, <2>1 DEF TreeSound, BusySound, ApplyRemoves, Busy, Closed
  <2>4. ASSUME NEW b \in TreeAgents, b # a
        PROVE  (TreeSound(b) /\ BusySound(b))'
    BY <1>2, <2>1, <2>4, OtherTrees DEF ApplyRemoves, Busy
  <2>5. QED
    BY <2>2, <2>3, <2>4 DEF TreeInv
<1>3. CASE UNCHANGED <<tree, state>> /\ busy' = NoOp
  <2>1. ASSUME NEW b \in TreeAgents
        PROVE  (TreeSound(b) /\ BusySound(b))'
    BY <1>3, <2>1 DEF TreeInv, TreeSound, BusySound, ApplyRemoves, NoOp
  <2>2. QED
    BY <1>1, <1>3, <2>1 DEF TreeInv, TreeTypes, ApplyRemoves
<1>4. QED
  BY <1>2, <1>3 DEF ApplyRemoves

LEMMA DiscardInv ==
  ASSUME TreeInv, NEW a \in TreeAgents, Discard(a)
  PROVE  TreeInv'
<1>1. TreeTypes /\ TreeSound(a) /\ BusySound(a)
  BY DEF TreeInv
<1>2. /\ tree' \in [TreeAgents -> TreeType] /\ state' \in [TreeAgents -> TreeStates]
      /\ state'[a] = "discarded" /\ ~tree'[a].there /\ tree'[a].work = {}
      /\ \A b \in TreeAgents : b # a => tree'[b] = tree[b] /\ state'[b] = state[b]
  <2>1. RemoveTree(a) /\ state' = [state EXCEPT ![a] = "discarded"]
    BY DEF Discard
  <2>2. QED
    BY <1>1, <2>1, TreeUpdate, TreeSets
<1>3. /\ h' \in HistoryType /\ h'.wrote = h.wrote
      /\ h'.dropped[a] = h.dropped[a] \cup tree[a].work
      /\ \A b \in TreeAgents : b # a => h'.dropped[b] = h.dropped[b]
  <2>1. h.dropped[a] \cup tree[a].work \in Works
    BY <1>1, TreeSets DEF TreeTypes, HistoryType, TreeType
  <2>2. QED
    BY <1>1, <2>1 DEF TreeTypes, HistoryType, Discard
<1>4. TreeTypes'
  BY <1>1, <1>2, <1>3 DEF TreeTypes, Discard
<1>5. (TreeSound(a) /\ BusySound(a))'
  BY <1>1, <1>2, <1>3 DEF TreeSound, BusySound, Discard, Busy, Closed
<1>6. ASSUME NEW b \in TreeAgents, b # a
      PROVE  (TreeSound(b) /\ BusySound(b))'
  BY <1>2, <1>3, <1>6, OtherTrees DEF Discard, Busy
<1>7. QED
  BY <1>4, <1>5, <1>6 DEF TreeInv

LEMMA UserInv ==
  ASSUME TreeInv, UserEdits \/ UserCommits
  PROVE  TreeInv'
<1>1. TreeTypes
  BY DEF TreeInv
<1>2. main' \in MainType /\ main'.has = main.has
  <2>1. main.head < MaxHeads => main.head + 1 \in HeadNos
    BY <1>1, WorktreeConstants DEF TreeTypes, MainType, HeadNos
  <2>2. {"user"} \in SUBSET TreeOwners
    BY DEF TreeOwners
  <2>3. QED
    BY <1>1, <2>1, <2>2 DEF TreeTypes, MainType, UserEdits, UserCommits
<1>3. UNCHANGED <<tree, state, file, runs, busy, h>>
  BY DEF UserEdits, UserCommits
<1>4. ASSUME NEW b \in TreeAgents
      PROVE  (TreeSound(b) /\ BusySound(b))'
  BY <1>2, <1>3, <1>4 DEF TreeInv, TreeSound, BusySound
<1>5. QED
  BY <1>1, <1>2, <1>3, <1>4 DEF TreeInv, TreeTypes

LEMMA UserRestoresInv ==
  ASSUME TreeInv, UserRestores
  PROVE  TreeInv'
<1>1. TreeTypes
  BY DEF TreeInv
<1>2. UNCHANGED <<tree, state, file, runs, busy>> /\ busy = NoOp
  BY DEF UserRestores, Free
<1>3. /\ main' \in MainType
      /\ \A b \in TreeAgents : main'.has[b] = IF b \in main.dirty THEN {} ELSE main.has[b]
  BY <1>1, TreeSets DEF TreeTypes, MainType, UserRestores
<1>4. /\ h' \in HistoryType /\ h'.wrote = h.wrote
      /\ \A b \in TreeAgents :
           h'.dropped[b] = IF b \in main.dirty THEN h.dropped[b] \cup main.has[b]
                           ELSE h.dropped[b]
  BY <1>1, TreeSets DEF TreeTypes, MainType, HistoryType, UserRestores
<1>5. ASSUME NEW b \in TreeAgents
      PROVE  (TreeSound(b) /\ BusySound(b))'
  <2>1. TreeSound(b)
    BY DEF TreeInv
  <2>2. main.has[b] \cup h.dropped[b] \subseteq main'.has[b] \cup h'.dropped[b]
    BY <1>3, <1>4
  <2>3. TreeSound(b)'
    BY <1>2, <1>4, <2>1, <2>2 DEF TreeSound
  <2>4. QED
    BY <1>2, <2>3 DEF BusySound, NoOp
<1>6. QED
  BY <1>1, <1>2, <1>3, <1>4, <1>5 DEF TreeInv, TreeTypes

LEMMA RebootInv ==
  ASSUME TreeInv, Reboot
  PROVE  TreeInv'
<1>1. TreeTypes
  BY DEF TreeInv
<1>2. /\ state' \in [TreeAgents -> TreeStates] /\ file' = state'
      /\ \A a \in TreeAgents : state'[a] = IF file[a] = "active" THEN "error" ELSE file[a]
  BY <1>1, TreeSets DEF TreeTypes, Reboot
<1>3. ASSUME NEW b \in TreeAgents
      PROVE  (TreeSound(b) /\ BusySound(b))'
  BY <1>2, <1>3 DEF TreeInv, TreeSound, BusySound, Reboot, NoOp, Closed
<1>4. QED
  BY <1>1, <1>2, <1>3 DEF TreeInv, TreeTypes, Reboot

LEMMA TreeNextInv ==
  ASSUME TreeInv, [TreeNext]_treeVars
  PROVE  TreeInv'
<1>1. CASE UNCHANGED treeVars
  BY <1>1 DEF treeVars, TreeInv, TreeTypes, TreeSound, BusySound
<1>2. ASSUME NEW a \in TreeAgents,
             \/ CreateTree(a) \/ CreateEnds(a) \/ AgentWrites(a) \/ AgentCommits(a)
             \/ Finalize(a) \/ Persist(a) \/ ApplyPatch(a) \/ ApplyCopies(a)
             \/ ApplyRemoves(a) \/ Discard(a)
      PROVE  TreeInv'
  BY <1>2, CreateTreeInv, CreateEndsInv, AgentWritesInv, AgentCommitsInv, FinalizeInv,
     PersistInv, ApplyPatchInv, ApplyCopiesInv, ApplyRemovesInv, DiscardInv
<1>3. QED
  BY <1>1, <1>2, UserInv, UserRestoresInv, RebootInv DEF TreeNext

\* The inductive invariant holds of every behaviour of the worktrees.
THEOREM TreeInvHolds == TreeSpec => []TreeInv
<1>1. TreeInit => TreeInv
  BY TreeInitInv
<1>2. TreeInv /\ [TreeNext]_treeVars => TreeInv'
  BY TreeNextInv
<1>3. QED
  BY <1>1, <1>2, PTL DEF TreeSpec

\* What an isolated agent wrote and git shows is in its worktree or in main until
\* the user gives it up, wherever the process ends, and as long as it is only in
\* the worktree task_list shows its record: for any number of agents.
THEOREM WorkIsNeverLost == TreeSpec => []WorkIsKept
<1>1. TreeInv => WorkIsKept
  <2> SUFFICES ASSUME TreeInv, NEW a \in TreeAgents
               PROVE  /\ h.wrote[a] \cap Shown \subseteq
                           tree[a].work \cup main.has[a] \cup h.dropped[a]
                      /\ tree[a].work \cap Shown \subseteq main.has[a] \/ Recoverable(a)
    BY DEF WorkIsKept
  <2>1. TreeSound(a)
    BY DEF TreeInv
  <2>2. CASE tree[a].there
    BY <2>1, <2>2 DEF TreeSound, Recoverable
  <2>3. CASE ~tree[a].there
    BY <2>1, <2>3 DEF TreeSound
  <2>4. QED
    BY <2>2, <2>3
<1>2. QED
  BY <1>1, TreeInvHolds, PTL

\* The values of the worktrees, their records and main stay in their ranges.
THEOREM TreeTypesHold == TreeSpec => []TreeTypeOK
<1>1. TreeInv => TreeTypeOK
  <2> SUFFICES ASSUME TreeTypes
               PROVE  TreeTypeOK
    BY DEF TreeInv
  <2>1. main.head \in 0..MaxHeads
    BY DEF TreeTypes, MainType, HeadNos
  <2>2. ASSUME NEW a \in TreeAgents
        PROVE  /\ tree[a].work \subseteq Kinds /\ tree[a].base \in 0..MaxHeads
               /\ state[a] \in TreeStates /\ file[a] \in TreeStates
    BY DEF TreeTypes, TreeType, HeadNos, Works
  <2>3. QED
    BY <2>1, <2>2 DEF TreeTypeOK, TreeStates
<1>2. QED
  BY <1>1, TreeInvHolds, PTL

-----------------------------------------------------------------------------
(* Loops and schedules. *)

RanNos == 0..1
LoopType ==
  [made : BOOLEAN, on : BOOLEAN, once : BOOLEAN, slash : BOOLEAN, timer : BOOLEAN,
   running : BOOLEAN, ran : RanNos]
TurnType == [busy : BOOLEAN, user : BOOLEAN]

\* A schedule that is on is still to come: one that repeats has its timer all the
\* time, one of a single run has not run, and has a timer until it runs.
LoopSound(x) ==
  /\ x.timer => x.on
  /\ x.on => x.timer \/ x.running
  /\ x.on /\ ~x.once => x.timer
  /\ x.on /\ x.once => x.ran = 0
  /\ x.once /\ x.running => ~x.timer

LoopInv ==
  /\ loop \in [Ids -> LoopType] /\ turn \in TurnType
  /\ \A i \in Ids : LoopSound(loop[i])

\* Starts are those of a schedule that is on and has not had its single run.
LoopStarts(x, y) == ~x.running /\ y.running => x.on /\ ~(x.once /\ x.ran > 0)

\* One schedule changes, to a sound one.
LEMMA LoopUpdate ==
  ASSUME LoopInv, NEW i \in Ids, NEW y \in LoopType, LoopSound(y), LoopStarts(loop[i], y),
         loop' = [loop EXCEPT ![i] = y], turn' \in TurnType
  PROVE  LoopInv' /\ \A j \in Ids : LoopStarts(loop[j], loop'[j])
<1>1. loop' \in [Ids -> LoopType] /\ loop'[i] = y /\ \A j \in Ids : j # i => loop'[j] = loop[j]
  BY DEF LoopInv
<1>2. QED
  BY <1>1 DEF LoopInv, LoopStarts

LEMMA LoopNextInv ==
  ASSUME LoopInv, [LoopNext]_loopVars
  PROVE  LoopInv' /\ \A j \in Ids : LoopStarts(loop[j], loop'[j])
<1>1. loop \in [Ids -> LoopType] /\ turn \in TurnType /\ 0 \in RanNos /\ 1 \in RanNos
  BY DEF LoopInv, RanNos
<1>2. CASE UNCHANGED loop /\ turn' \in TurnType
  BY <1>2 DEF LoopInv, LoopStarts
<1>3. ASSUME NEW i \in Ids, StartLoop(i)
      PROVE  LoopInv' /\ \A j \in Ids : LoopStarts(loop[j], loop'[j])
  <2>1. PICK once \in BOOLEAN, slash \in BOOLEAN :
          loop' = [loop EXCEPT ![i] = [NoLoop EXCEPT !.made = TRUE, !.on = TRUE, !.timer = TRUE,
                                                     !.once = once, !.slash = slash]]
    BY <1>3 DEF StartLoop
  <2> DEFINE y == [NoLoop EXCEPT !.made = TRUE, !.on = TRUE, !.timer = TRUE,
                                 !.once = once, !.slash = slash]
  <2>2. y \in LoopType /\ LoopSound(y) /\ ~y.running
    BY <1>1 DEF NoLoop, LoopType, LoopSound
  <2>3. loop' = [loop EXCEPT ![i] = y]
    BY <2>1
  <2> HIDE DEF y
  <2>4. LoopStarts(loop[i], y) /\ turn' = turn
    BY <1>3, <2>2 DEF LoopStarts, StartLoop
  <2>5. QED
    BY <1>1, <2>2, <2>3, <2>4, LoopUpdate
<1>4. ASSUME NEW i \in Ids, FireSkips(i) \/ Refused(i) \/ Accepted(i)
      PROVE  LoopInv' /\ \A j \in Ids : LoopStarts(loop[j], loop'[j])
  <2>1. PICK x \in LoopType : x = loop[i]
    BY <1>1
  <2>2. LoopSound(x)
    BY <2>1 DEF LoopInv
  <2>3. PICK running \in BOOLEAN, timer \in BOOLEAN :
          /\ loop' = [loop EXCEPT ![i].running = running, ![i].timer = timer]
          /\ \/ running = x.running /\ running /\ timer = ~x.once
             \/ running = x.running /\ ~running /\ timer
             \/ ~x.running /\ running /\ timer = ~x.once
    <3>1. CASE FireSkips(i)
      <4>1. loop' = [loop EXCEPT ![i].running = x.running, ![i].timer = ~x.once]
        BY <1>1, <2>1, <3>1 DEF FireSkips, LoopType
      <4>2. QED
        BY <4>1, <2>1, <3>1 DEF FireSkips, LoopType
    <3>2. CASE Refused(i)
      <4>1. loop' = [loop EXCEPT ![i].running = FALSE, ![i].timer = TRUE]
        BY <1>1, <2>1, <3>2 DEF Refused, LoopType
      <4>2. QED
        BY <4>1, <2>1, <3>2 DEF Refused, LoopType
    <3>3. CASE Accepted(i)
      <4>1. loop' = [loop EXCEPT ![i].running = TRUE, ![i].timer = ~x.once]
        BY <1>1, <2>1, <3>3 DEF Accepted
      <4>2. QED
        BY <4>1, <2>1, <3>3 DEF Accepted, LoopType
    <3>4. QED
      BY <1>4, <3>1, <3>2, <3>3
  <2> DEFINE y == [x EXCEPT !.running = running, !.timer = timer]
  <2>4. loop' = [loop EXCEPT ![i] = y]
    BY <1>1, <2>1, <2>3
  <2>5. /\ y \in LoopType /\ y.running = running /\ y.timer = timer /\ y.on = x.on
        /\ y.once = x.once /\ y.ran = x.ran
    BY DEF LoopType
  <2> HIDE DEF y
  <2>6. x.on /\ x.timer
    BY <1>4, <2>1 DEF FireSkips, Refused, Accepted, Due
  <2>7. LoopSound(y)
    BY <2>2, <2>3, <2>5, <2>6 DEF LoopSound
  <2>8. LoopStarts(x, y)
    BY <2>2, <2>3, <2>5, <2>6 DEF LoopSound, LoopStarts
  <2>9. turn' \in TurnType
    BY <1>1, <1>4, <2>1 DEF TurnType, FireSkips, Refused, Accepted, LoopType
  <2>10. QED
    BY <2>1, <2>4, <2>5, <2>7, <2>8, <2>9, LoopUpdate
<1>5. ASSUME NEW i \in Ids, RunEnds(i)
      PROVE  LoopInv' /\ \A j \in Ids : LoopStarts(loop[j], loop'[j])
  <2>1. PICK x \in LoopType : x = loop[i]
    BY <1>1
  <2>2. LoopSound(x)
    BY <2>1 DEF LoopInv
  <2> DEFINE y == [x EXCEPT !.running = FALSE, !.ran = 1, !.on = @ /\ ~x.once]
  <2>3. loop' = [loop EXCEPT ![i] = y]
    BY <1>1, <1>5, <2>1 DEF RunEnds, LoopType
  <2>4. /\ y \in LoopType /\ ~y.running /\ y.timer = x.timer /\ y.ran = 1
        /\ y.on = (x.on /\ ~x.once) /\ y.once = x.once
    BY <1>1 DEF LoopType
  <2> HIDE DEF y
  <2>5. x.running
    BY <1>5, <2>1 DEF RunEnds
  <2>6. LoopSound(y) /\ LoopStarts(x, y)
    BY <2>2, <2>4, <2>5 DEF LoopSound, LoopStarts
  <2>7. turn' \in TurnType
    BY <1>1, <1>5, <2>1 DEF RunEnds, TurnType, LoopType
  <2>8. QED
    BY <2>1, <2>3, <2>4, <2>6, <2>7, LoopUpdate
<1>6. ASSUME NEW ids, Stopped(ids), UNCHANGED turn
      PROVE  LoopInv' /\ \A j \in Ids : LoopStarts(loop[j], loop'[j])
  <2>1. ASSUME NEW j \in Ids
        PROVE  /\ loop'[j] \in LoopType /\ LoopSound(loop'[j])
               /\ LoopStarts(loop[j], loop'[j])
    <3>1. PICK x \in LoopType : x = loop[j]
      BY <1>1
    <3>2. LoopSound(x)
      BY <3>1 DEF LoopInv
    <3> DEFINE y == [x EXCEPT !.on = FALSE, !.timer = FALSE]
    <3>3. loop'[j] = x \/ loop'[j] = y
      BY <1>6, <3>1 DEF Stopped
    <3>4. y \in LoopType /\ y.on = FALSE /\ y.timer = FALSE /\ y.running = x.running
      BY DEF LoopType
    <3>5. LoopSound(y) /\ LoopStarts(x, y) /\ LoopStarts(x, x)
      BY <3>4 DEF LoopSound, LoopStarts
    <3>6. QED
      BY <3>1, <3>2, <3>3, <3>4, <3>5
  <2>2. loop' \in [Ids -> LoopType]
    BY <1>1, <1>6, <2>1 DEF Stopped
  <2>3. QED
    BY <1>1, <1>6, <2>1, <2>2 DEF LoopInv
<1>7. ASSUME UNCHANGED loopVars \/ UserTurn \/ UserTurnEnds
      PROVE  UNCHANGED loop /\ turn' \in TurnType
  <2>1. CASE UNCHANGED loopVars
    BY <1>1, <2>1 DEF loopVars
  <2>2. CASE UserTurn \/ UserTurnEnds
    <3>1. PICK b \in BOOLEAN : turn' = [busy |-> b, user |-> b] /\ UNCHANGED loop
      BY <2>2 DEF UserTurn, UserTurnEnds
    <3>2. [busy |-> b, user |-> b] \in TurnType
      BY DEF TurnType
    <3>3. QED
      BY <3>1, <3>2
  <2>3. QED
    BY <1>7, <2>1, <2>2
<1>8. ASSUME StopAll \/ \E i \in Ids : StopLoop(i)
      PROVE  LoopInv' /\ \A j \in Ids : LoopStarts(loop[j], loop'[j])
  BY <1>6, <1>8 DEF StopAll, StopLoop
<1>9. QED
  BY <1>2, <1>3, <1>4, <1>5, <1>7, <1>8 DEF LoopNext

LEMMA LoopInitInv == LoopInit => LoopInv
<1>1. NoLoop \in LoopType /\ LoopSound(NoLoop)
  BY DEF NoLoop, LoopType, LoopSound, RanNos
<1>2. QED
  BY <1>1 DEF LoopInit, LoopInv, TurnType

\* The inductive invariant holds of every behaviour of the schedules.
THEOREM LoopInvHolds == LoopSpec => []LoopInv
<1>1. LoopInit => LoopInv
  BY LoopInitInv
<1>2. LoopInv /\ [LoopNext]_loopVars => LoopInv'
  BY LoopNextInv
<1>3. QED
  BY <1>1, <1>2, PTL DEF LoopSpec

\* No schedule runs over its own last run or after it was stopped, one of a single
\* run runs once, and while it has not run it is still to come: for any number of
\* schedules, whatever else keeps the agent busy.
THEOREM SchedulesAreKept == LoopSpec => SchedulesKeepTheirWord
<1>1. LoopInv /\ [LoopNext]_loopVars =>
        [\A i \in Ids : ~loop[i].running /\ loop'[i].running =>
           loop[i].on /\ ~(loop[i].once /\ loop[i].ran > 0)]_loopVars
  BY LoopNextInv DEF LoopStarts
<1>2. LoopInv => \A i \in Ids : loop[i].on => loop[i].timer \/ loop[i].running
  BY DEF LoopInv, LoopSound
<1>3. QED
  BY <1>1, <1>2, LoopInvHolds, PTL DEF LoopSpec, SchedulesKeepTheirWord

\* A schedule that has a timer is on.
THEOREM LoopTypesHold == LoopSpec => []LoopTypeOK
<1>1. LoopInv => LoopTypeOK
  BY DEF LoopInv, LoopTypeOK, LoopType, TurnType, RanNos, LoopSound
<1>2. QED
  BY <1>1, LoopInvHolds, PTL

-----------------------------------------------------------------------------
(* An MCP server and its client. *)

VersionNos == 0..MaxVersions
McpStates == {"none", "starts", "up", "dead"}
Listed == Seq(VersionNos)
FullLists == {s \in Listed : Len(s) = Pages}
McpType ==
  [is : McpStates, listing : BOOLEAN, got : Listed, dirty : BOOLEAN, refreshing : BOOLEAN,
   hears : BOOLEAN]
ServerType == [version : VersionNos, told : VersionNos]
ToolsType == [shown : SUBSET FullLists, disabled : BOOLEAN]

AllAt(s, v) == \A i \in 1..Len(s) : s[i] = v
ListOf(v) == [p \in 1..Pages |-> v]

\* A client that is up lists exactly while it refreshes, and pages are kept only
\* while they come.
ListingSound(x) ==
  /\ x.is = "up" => (x.listing <=> x.refreshing)
  /\ x.is # "up" => ~x.refreshing
  /\ x.listing => x.is \in {"starts", "up"}
  /\ ~x.listing => x.got = <<>>
  /\ Len(x.got) < Pages

\* A change the client has not heard of is on its way or marked: without one the
\* pages so far are those of the server, and so are the tools once listed.
FreshnessSound(x, s, shown) ==
  /\ s.told = 0 /\ ~x.dirty => AllAt(x.got, s.version)
  /\ x.is = "up" /\ ~x.refreshing /\ x.dirty => shown = {}
  /\ x.is = "up" /\ ~x.refreshing /\ ~x.dirty /\ s.told = 0
       => ListOf(s.version) \in shown \/ shown = {}

McpInv ==
  /\ mcp \in McpType /\ server \in ServerType /\ tools \in ToolsType
  /\ server.told <= server.version
  /\ ListingSound(mcp) /\ FreshnessSound(mcp, server, tools.shown)

LEMMA McpSets ==
  /\ 0 \in VersionNos /\ <<>> \in Listed /\ VersionNos \subseteq Int /\ NoMcp \in McpType
  /\ "starts" \in McpStates /\ "up" \in McpStates /\ "dead" \in McpStates
<1>1. <<>> \in Listed
  BY DEF Listed
<1>2. 0 \in VersionNos /\ VersionNos \subseteq Int
  BY McpConstants DEF VersionNos
<1>3. QED
  BY <1>1, <1>2 DEF McpStates, McpType, NoMcp

LEMMA NoMcpSound ==
  ASSUME NEW x \in McpType, x.got = <<>>, ~x.listing, ~x.refreshing, x.is # "up",
         NEW s, NEW shown
  PROVE  ListingSound(x) /\ FreshnessSound(x, s, shown)
BY McpConstants DEF ListingSound, FreshnessSound, AllAt

LEMMA McpInitInv == McpInit => McpInv
<1>1. [version |-> 0, told |-> 0] \in ServerType /\ [shown |-> {}, disabled |-> FALSE] \in ToolsType
  BY McpSets DEF ServerType, ToolsType
<1>2. NoMcp \in McpType /\ NoMcp.got = <<>> /\ ~NoMcp.listing /\ ~NoMcp.refreshing /\ NoMcp.is # "up"
  BY McpSets DEF NoMcp
<1>3. QED
  BY <1>1, <1>2, NoMcpSound DEF McpInit, McpInv

\* A list begun anew, whatever was heard before.
LEMMA ListsSound ==
  ASSUME NEW x \in McpType, x.is \in {"starts", "up"}, x.is = "up" <=> x.refreshing
  PROVE  LET y == Lists(x)
         IN  /\ y \in McpType /\ ListingSound(y) /\ y.got = <<>> /\ y.is = x.is
             /\ y.refreshing = x.refreshing
<1> DEFINE y == Lists(x)
<1>1. y \in McpType
  BY McpSets DEF Lists, McpType
<1>2. /\ y.got = <<>> /\ y.is = x.is /\ y.refreshing = x.refreshing /\ y.listing
  BY DEF Lists, McpType
<1> HIDE DEF y
<1>3. ListingSound(y)
  BY <1>2, McpConstants DEF ListingSound
<1>4. QED
  BY <1>1, <1>2, <1>3 DEF y

\* The client goes round its loop of refreshes, or leaves it with nothing marked.
LEMMA RefreshesSound ==
  ASSUME NEW x \in McpType, x.is = "up", ~x.listing, x.got = <<>>
  PROVE  LET y == Refreshes(x)
         IN  /\ y \in McpType /\ ListingSound(y) /\ y.got = <<>> /\ y.is = "up"
             /\ (y.refreshing \/ ~y.dirty) /\ y.refreshing = x.dirty
<1> DEFINE y == Refreshes(x)
<1>1. CASE x.dirty
  <2> DEFINE z == [x EXCEPT !.dirty = FALSE, !.refreshing = TRUE]
  <2>1. z \in McpType /\ z.is = "up" /\ z.refreshing
    BY DEF McpType
  <2>2. y = Lists(z)
    BY <1>1 DEF Refreshes
  <2> HIDE DEF y, z
  <2>3. /\ y \in McpType /\ ListingSound(y) /\ y.got = <<>> /\ y.is = "up" /\ y.refreshing
    BY <2>1, <2>2, ListsSound
  <2>4. QED
    BY <1>1, <2>3 DEF y, McpType
<1>2. CASE ~x.dirty
  <2>1. y = [x EXCEPT !.refreshing = FALSE]
    BY <1>2 DEF Refreshes
  <2>2. y \in McpType /\ y.is = "up" /\ ~y.refreshing /\ ~y.listing /\ y.got = <<>> /\ ~y.dirty
    BY <1>2, <2>1 DEF McpType
  <2> HIDE DEF y
  <2>3. ListingSound(y)
    BY <2>2, McpConstants DEF ListingSound
  <2>4. QED
    BY <1>2, <2>2, <2>3 DEF y, McpType
<1>3. QED
  BY <1>1, <1>2

LEMMA ToolsChangeInv ==
  ASSUME McpInv, ToolsChange
  PROVE  McpInv'
<1>1. /\ server \in ServerType /\ server.version < MaxVersions /\ UNCHANGED <<mcp, tools>>
      /\ server.version \in Int /\ server.told \in Int /\ server.told <= server.version
      /\ 0 <= server.told
  BY McpConstants DEF McpInv, ToolsChange, ServerType, VersionNos
<1>2. PICK told \in VersionNos :
        /\ server' = [version |-> server.version + 1, told |-> told]
        /\ told <= server.version + 1
        /\ told = 0 => mcp.is \in {"none", "dead"}
  <2>1. server.version + 1 \in VersionNos /\ server.told + 1 \in VersionNos
    BY <1>1, McpConstants DEF ServerType, VersionNos
  <2>2. QED
    BY <1>1, <2>1, McpSets DEF ToolsChange
<1>3. server' \in ServerType /\ server'.told = told /\ server'.version = server.version + 1
  <2>1. server.version + 1 \in VersionNos
    BY <1>1, McpConstants DEF ServerType, VersionNos
  <2>2. QED
    BY <1>2, <2>1 DEF ServerType
<1>4. FreshnessSound(mcp', server', tools'.shown)
  <2>1. CASE mcp.is \in {"none", "dead"}
    <3>1. mcp.got = <<>>
      BY <2>1 DEF McpInv, ListingSound
    <3>2. QED
      BY <1>1, <2>1, <3>1 DEF FreshnessSound, AllAt
  <2>2. CASE mcp.is \notin {"none", "dead"}
    BY <1>1, <1>2, <1>3, <2>2 DEF FreshnessSound, McpInv
  <2>3. QED
    BY <2>1, <2>2
<1>5. QED
  BY <1>1, <1>2, <1>3, <1>4 DEF McpInv

LEMMA PageComesInv ==
  ASSUME McpInv, PageComes
  PROVE  McpInv'
<1>1. /\ mcp \in McpType /\ mcp.listing /\ UNCHANGED server /\ tools \in ToolsType
      /\ mcp.is \in {"starts", "up"} /\ Len(mcp.got) < Pages /\ mcp.got \in Listed
      /\ server.version \in VersionNos
  BY DEF McpInv, PageComes, ListingSound, McpType, ServerType
<1> DEFINE got == Append(mcp.got, server.version)
           done == [mcp EXCEPT !.listing = FALSE, !.got = <<>>, !.is = "up"]
<1>2. /\ got \in Listed /\ Len(got) <= Pages /\ Len(got) = Len(mcp.got) + 1
      /\ server.told = 0 /\ ~mcp.dirty => AllAt(got, server.version)
  <2>1. PICK s \in Seq(VersionNos), v \in VersionNos : s = mcp.got /\ v = server.version
    BY <1>1 DEF Listed
  <2>2. /\ Append(s, v) \in Seq(VersionNos) /\ Len(Append(s, v)) = Len(s) + 1
        /\ AllAt(s, v) => AllAt(Append(s, v), v)
    BY DEF AllAt
  <2>3. Len(s) + 1 <= Pages
    BY <1>1, <2>1, McpConstants
  <2>4. server.told = 0 /\ ~mcp.dirty => AllAt(s, v)
    BY <2>1 DEF McpInv, FreshnessSound
  <2>5. QED
    BY <2>1, <2>2, <2>3, <2>4 DEF Listed
<1>3. CASE Len(got) < Pages
  <2>1. mcp' = [mcp EXCEPT !.got = got] /\ UNCHANGED tools
    BY <1>3 DEF PageComes
  <2> HIDE DEF got, done
  <2>2. /\ mcp' \in McpType /\ mcp'.got = got /\ mcp'.is = mcp.is /\ mcp'.listing = mcp.listing
        /\ mcp'.dirty = mcp.dirty /\ mcp'.refreshing = mcp.refreshing
    BY <1>1, <1>2, <2>1 DEF McpType
  <2>3. ListingSound(mcp')
    BY <1>1, <1>3, <2>2 DEF McpInv, ListingSound
  <2>4. FreshnessSound(mcp', server', tools'.shown)
    BY <1>1, <1>2, <2>1, <2>2 DEF McpInv, FreshnessSound
  <2>5. QED
    BY <1>1, <2>1, <2>2, <2>3, <2>4 DEF McpInv
<1>4. CASE ~(Len(got) < Pages)
  <2>1. mcp' = Refreshes(done) /\ tools' = [tools EXCEPT !.shown = {got} \cup IF Online THEN {} ELSE @]
    BY <1>4 DEF PageComes
  <2>2. /\ done \in McpType /\ done.is = "up" /\ ~done.listing /\ done.got = <<>>
        /\ done.dirty = mcp.dirty
    BY <1>1, McpSets DEF McpType
  <2>3. Len(got) = Pages
    BY <1>1, <1>2, <1>4, McpConstants DEF Listed
  <2> HIDE DEF got, done
  <2>4. got \in FullLists
    BY <1>2, <2>3 DEF FullLists
  <2>5. tools' \in ToolsType /\ got \in tools'.shown
    BY <1>1, <2>1, <2>4 DEF ToolsType
  <2>6. /\ mcp' \in McpType /\ ListingSound(mcp') /\ mcp'.got = <<>> /\ mcp'.is = "up"
        /\ (mcp'.refreshing \/ ~mcp'.dirty) /\ mcp'.refreshing = mcp.dirty
    BY <2>1, <2>2, RefreshesSound
  <2>7. AllAt(got, server.version) => got = ListOf(server.version)
    <3>1. PICK s \in Seq(VersionNos) : s = got
      BY <1>2 DEF Listed
    <3>2. AllAt(s, server.version) => s = [p \in 1..Len(s) |-> server.version]
      BY DEF AllAt
    <3>3. QED
      BY <2>3, <3>1, <3>2 DEF ListOf
  <2>8. FreshnessSound(mcp', server', tools'.shown)
    <3>1. AllAt(mcp'.got, server'.version)
      BY <2>6 DEF AllAt
    <3>2. ~mcp'.refreshing /\ server'.told = 0 => ListOf(server'.version) \in tools'.shown
      BY <1>1, <1>2, <2>5, <2>6, <2>7
    <3>3. QED
      BY <2>6, <3>1, <3>2 DEF FreshnessSound
  <2>9. QED
    BY <1>1, <2>5, <2>6, <2>8 DEF McpInv
<1>5. QED
  BY <1>3, <1>4

LEMMA ListFailsInv ==
  ASSUME McpInv, ListFails
  PROVE  McpInv'
<1>1. mcp \in McpType /\ tools \in ToolsType /\ UNCHANGED server
  BY DEF McpInv, ListFails
<1>2. CASE Online
  <2>1. /\ mcp' = [mcp EXCEPT !.listing = FALSE, !.got = <<>>, !.refreshing = FALSE]
        /\ tools' = [tools EXCEPT !.shown = {}]
    BY <1>2 DEF ListFails
  <2>2. /\ mcp' \in McpType /\ mcp'.got = <<>> /\ ~mcp'.refreshing /\ ~mcp'.listing
        /\ tools' \in ToolsType /\ tools'.shown = {}
    BY <1>1, <2>1, McpSets DEF McpType, ToolsType
  <2>3. ListingSound(mcp') /\ FreshnessSound(mcp', server', tools'.shown)
    BY <2>2, McpConstants DEF ListingSound, FreshnessSound, AllAt
  <2>4. QED
    BY <1>1, <2>2, <2>3 DEF McpInv
<1>3. CASE ~Online
  <2>1. mcp' = NoMcp /\ UNCHANGED tools
    BY <1>3 DEF ListFails
  <2>2. QED
    BY <1>1, <2>1, McpSets, NoMcpSound DEF McpInv, NoMcp
<1>4. QED
  BY <1>2, <1>3

LEMMA NotificationInv ==
  ASSUME McpInv, NotificationComes
  PROVE  McpInv'
<1>1. /\ mcp \in McpType /\ UNCHANGED tools /\ mcp' = Changed(mcp)
      /\ mcp.is \in {"starts", "up"}
  BY DEF McpInv, NotificationComes
<1>2. server' \in ServerType /\ server'.told <= server'.version /\ server'.version = server.version
  <2>1. server.told \in VersionNos /\ server.version \in VersionNos /\ server.told > 0
    BY DEF McpInv, ServerType, NotificationComes
  <2>2. server.told - 1 \in VersionNos /\ server.told - 1 <= server.version
    BY <2>1, McpConstants DEF VersionNos, McpInv
  <2>3. QED
    BY <2>2 DEF NotificationComes, McpInv, ServerType
<1>3. CASE mcp.is # "up" \/ mcp.refreshing
  <2>1. mcp' = [mcp EXCEPT !.dirty = TRUE]
    BY <1>1, <1>3 DEF Changed
  <2>2. /\ mcp' \in McpType /\ mcp'.got = mcp.got /\ mcp'.is = mcp.is /\ mcp'.dirty
        /\ mcp'.listing = mcp.listing /\ mcp'.refreshing = mcp.refreshing
    BY <1>1, <2>1 DEF McpType
  <2>3. ListingSound(mcp')
    BY <2>2 DEF McpInv, ListingSound
  <2>4. FreshnessSound(mcp', server', tools'.shown)
    BY <1>3, <2>2 DEF FreshnessSound
  <2>5. QED
    BY <1>1, <1>2, <2>2, <2>3, <2>4 DEF McpInv
<1>4. CASE mcp.is = "up" /\ ~mcp.refreshing
  <2> DEFINE x == [mcp EXCEPT !.dirty = TRUE]
  <2>1. mcp' = Refreshes(x)
    BY <1>1, <1>4 DEF Changed
  <2>2. /\ x \in McpType /\ x.got = mcp.got /\ x.is = "up" /\ x.dirty = TRUE
        /\ x.listing = mcp.listing
    BY <1>1, <1>4 DEF McpType
  <2>3. ~mcp.listing /\ mcp.got = <<>>
    BY <1>4 DEF McpInv, ListingSound
  <2> HIDE DEF x
  <2>4. mcp' \in McpType /\ ListingSound(mcp') /\ mcp'.got = <<>> /\ mcp'.refreshing
    BY <2>1, <2>2, <2>3, RefreshesSound
  <2>5. FreshnessSound(mcp', server', tools'.shown)
    BY <2>4 DEF FreshnessSound, AllAt
  <2>6. QED
    BY <1>1, <1>2, <2>4, <2>5 DEF McpInv
<1>5. QED
  BY <1>3, <1>4

\* The client is not there, starts or is lost.
LEMMA NoClientInv ==
  ASSUME McpInv, NEW is \in {"none", "starts", "dead"}, mcp' = [NoMcp EXCEPT !.is = is],
         tools' \in ToolsType, server' \in ServerType, server'.told <= server'.version
  PROVE  McpInv'
<1>1. /\ mcp' \in McpType /\ mcp'.got = <<>> /\ ~mcp'.listing /\ ~mcp'.refreshing
      /\ mcp'.is # "up"
  <2>1. is \in McpStates
    BY DEF McpStates
  <2>2. QED
    BY <2>1, McpSets DEF NoMcp, McpType
<1>2. QED
  BY <1>1, NoMcpSound DEF McpInv

LEMMA ClientGoesInv ==
  ASSUME McpInv, Connect \/ ServerEnds \/ Disable \/ DisconnectAll
  PROVE  McpInv'
<1>1. tools \in ToolsType /\ server \in ServerType /\ server.told <= server.version
  BY DEF McpInv
<1>2. NoMcp = [NoMcp EXCEPT !.is = "none"]
  BY DEF NoMcp
<1>3. CASE Connect
  <2>1. server' \in ServerType /\ server'.told <= server'.version
    BY <1>1, <1>3, McpSets, McpConstants DEF Connect, ServerType, VersionNos
  <2>2. mcp' = [NoMcp EXCEPT !.is = "starts"] /\ tools' \in ToolsType
    BY <1>1, <1>3 DEF Connect
  <2>3. QED
    BY <2>1, <2>2, NoClientInv
<1>4. CASE ServerEnds
  <2>1. tools' \in ToolsType /\ server' = server /\ mcp' = [NoMcp EXCEPT !.is = "dead"]
    BY <1>1, <1>4 DEF ServerEnds, ToolsType
  <2>2. QED
    BY <1>1, <2>1, NoClientInv
<1>5. CASE Disable
  <2>1. tools' \in ToolsType /\ server' = server /\ mcp' = NoMcp
    BY <1>1, <1>5 DEF Disable, ToolsType
  <2>2. QED
    BY <1>1, <1>2, <2>1, NoClientInv
<1>6. CASE DisconnectAll
  <2>1. tools' = tools /\ server' = server /\ mcp' = NoMcp
    BY <1>6 DEF DisconnectAll
  <2>2. QED
    BY <1>1, <1>2, <2>1, NoClientInv
<1>7. QED
  BY <1>3, <1>4, <1>5, <1>6

LEMMA McpNextInv ==
  ASSUME McpInv, [McpNext]_mcpVars
  PROVE  McpInv'
<1>1. CASE UNCHANGED mcpVars
  BY <1>1 DEF mcpVars, McpInv
<1>2. CASE Enable
  <2>1. tools' \in ToolsType /\ tools'.shown = tools.shown /\ UNCHANGED <<server, mcp>>
    BY <1>2 DEF Enable, McpInv, ToolsType
  <2>2. QED
    BY <2>1 DEF McpInv
<1>3. CASE Initialized
  <2>1. /\ mcp \in McpType /\ mcp.is = "starts" /\ ~mcp.refreshing /\ mcp' = Lists(mcp)
        /\ UNCHANGED <<server, tools>>
    BY <1>3 DEF Initialized, McpInv, ListingSound
  <2>2. /\ mcp' \in McpType /\ ListingSound(mcp') /\ mcp'.got = <<>> /\ mcp'.is = "starts"
    BY <2>1, ListsSound
  <2>3. FreshnessSound(mcp', server', tools'.shown)
    BY <2>2 DEF FreshnessSound, AllAt
  <2>4. QED
    BY <2>1, <2>2, <2>3 DEF McpInv
<1>4. CASE StreamEnds
  <2>1. /\ mcp' \in McpType /\ mcp'.is = mcp.is /\ mcp'.listing = mcp.listing
        /\ mcp'.got = mcp.got /\ mcp'.dirty = mcp.dirty /\ mcp'.refreshing = mcp.refreshing
        /\ UNCHANGED <<server, tools>>
    BY <1>4 DEF StreamEnds, McpInv, McpType
  <2>2. ListingSound(mcp')
    BY <2>1 DEF McpInv, ListingSound
  <2>3. FreshnessSound(mcp', server', tools'.shown)
    BY <2>1 DEF McpInv, FreshnessSound
  <2>4. QED
    BY <2>1, <2>2, <2>3 DEF McpInv
<1>5. QED
  BY <1>1, <1>2, <1>3, <1>4, ToolsChangeInv, PageComesInv, ListFailsInv, NotificationInv,
     ClientGoesInv DEF McpNext

\* The inductive invariant holds of every behaviour of a server and its client.
THEOREM McpInvHolds == McpSpec => []McpInv
<1>1. McpInit => McpInv
  BY McpInitInv
<1>2. McpInv /\ [McpNext]_mcpVars => McpInv'
  BY McpNextInv
<1>3. QED
  BY <1>1, <1>2, PTL DEF McpSpec

\* When a client that is up has heard of all changes of its server and no list is
\* under way, the model is shown the tools the server has, or none after a list
\* that failed: for any number of pages and changes, whenever they come and however
\* the process or the stream ends.
THEOREM ToolsStayFresh == McpSpec => []ToolsBecomeFresh
<1>1. McpInv => ToolsBecomeFresh
  BY DEF McpInv, FreshnessSound, ToolsBecomeFresh, Online, ListOf
<1>2. QED
  BY <1>1, McpInvHolds, PTL

\* The values stay in their ranges, and every list that is registered is a whole one.
THEOREM McpTypesHold == McpSpec => []McpTypeOK
<1>1. McpInv => McpTypeOK
  BY DEF McpInv, McpTypeOK, McpType, McpStates, ServerType, VersionNos, ListingSound,
         ToolsType, FullLists
<1>2. QED
  BY <1>1, McpInvHolds, PTL

-----------------------------------------------------------------------------
(* The connection to Discord. *)

Counters == [BOOLEAN -> Nat]
SocketRefs == Sockets \cup {"none"}
OwnerRefs == Clients \cup {"none"}
Beats == {"off", "acked", "sent"}
StartStates == {"no", "fetch", "socket", "done"}
ClientType ==
  [on : BOOLEAN, ws : SocketRefs, up : BOOLEAN, session : BOOLEAN, hb : Beats,
   start : StartStates, timers : Counters, invalid : Counters, fetch : Counters]
SocketType ==
  [owner : OwnerRefs, resume : BOOLEAN, first : BOOLEAN, hello : BOOLEAN, awaited : BOOLEAN]

ReplType == [bot : OwnerRefs, gone : BOOLEAN]

\* A client whose start has not got to its socket: nothing else of it is under way.
AtRest(c, x, so) ==
  /\ \A r \in BOOLEAN : x.timers[r] = 0 /\ x.invalid[r] = 0 /\ x.fetch[r] = 0
  /\ x.hb = "off" /\ x.ws = "none"
  /\ \A s \in Sockets : so[s].owner # c

\* What connects a client again, or keeps it connected.
Hears(x) ==
  \/ x.ws # "none" \/ x.start = "fetch"
  \/ \E r \in BOOLEAN : x.timers[r] > 0 \/ x.fetch[r] > 0

\* The current socket of a client is its own, and one that is on hears.
ClientSound(c, x, so) ==
  /\ x.ws # "none" => so[x.ws].owner = c
  /\ x.start \in {"no", "fetch"} => AtRest(c, x, so)
  /\ x.on => Hears(x)

GatewayInv ==
  /\ client \in [Clients -> ClientType] /\ socket \in [Sockets -> SocketType]
  /\ repl \in ReplType
  /\ \A c \in Clients : ClientSound(c, client[c], socket)

LEMMA GatewaySets ==
  /\ "none" \in SocketRefs /\ "none" \in OwnerRefs /\ "none" \notin Sockets
  /\ "none" \notin Clients /\ Nothing \in Counters /\ NoClient \in ClientType
  /\ NoSocket \in SocketType
  /\ "off" \in Beats /\ "acked" \in Beats /\ "sent" \in Beats
  /\ "no" \in StartStates /\ "fetch" \in StartStates /\ "socket" \in StartStates
  /\ "done" \in StartStates
<1>1. Nothing \in Counters
  BY DEF Nothing, Counters
<1>2. /\ "none" \in SocketRefs /\ "none" \in OwnerRefs /\ "none" \notin Sockets
      /\ "none" \notin Clients
  BY GatewayConstants DEF SocketRefs, OwnerRefs
<1>3. /\ "off" \in Beats /\ "acked" \in Beats /\ "sent" \in Beats
      /\ "no" \in StartStates /\ "fetch" \in StartStates /\ "socket" \in StartStates
      /\ "done" \in StartStates
  BY DEF Beats, StartStates
<1>4. QED
  BY <1>1, <1>2, <1>3 DEF ClientType, SocketType, NoClient, NoSocket

LEMMA GatewayInitInv == GatewayInit => GatewayInv
<1> SUFFICES ASSUME GatewayInit
             PROVE  GatewayInv
  OBVIOUS
<1>1. ASSUME NEW c \in Clients
      PROVE  ClientSound(c, client[c], socket)
  <2>1. /\ client[c] = NoClient /\ \A s \in Sockets : socket[s].owner = "none"
    BY DEF GatewayInit, NoSocket
  <2>2. c # "none"
    BY GatewaySets
  <2>3. QED
    BY <2>1, <2>2 DEF ClientSound, AtRest, NoClient, Nothing
<1>2. QED
  BY <1>1, GatewaySets DEF GatewayInit, GatewayInv, ReplType

\* A client and its own sockets change, to a sound client.
LEMMA PutInv ==
  ASSUME GatewayInv, NEW c \in Clients, NEW x \in ClientType, Put(c, x),
         socket' \in [Sockets -> SocketType], repl' \in ReplType,
         \A s \in Sockets : \/ socket'[s].owner = socket[s].owner
                            \/ socket[s].owner \in {c, "none"} /\ socket'[s].owner \in {c, "none"},
         ClientSound(c, x, socket')
  PROVE  GatewayInv'
<1>1. /\ client' \in [Clients -> ClientType] /\ client'[c] = x
      /\ \A d \in Clients : d # c => client'[d] = client[d]
  BY DEF GatewayInv, Put
<1>2. ASSUME NEW d \in Clients, d # c
      PROVE  ClientSound(d, client[d], socket')
  <2>1. ClientSound(d, client[d], socket) /\ client[d] \in ClientType /\ d # "none"
    BY GatewaySets DEF GatewayInv
  <2>2. \A s \in Sockets : socket'[s].owner = d <=> socket[s].owner = d
    BY <1>2, <2>1
  <2>3. client[d].ws \in Sockets \cup {"none"}
    BY <2>1 DEF ClientType, SocketRefs
  <2>4. client[d].ws # "none" => socket'[client[d].ws].owner = d
    BY <2>1, <2>2, <2>3 DEF ClientSound
  <2>5. AtRest(d, client[d], socket) => AtRest(d, client[d], socket')
    BY <2>2 DEF AtRest
  <2>6. QED
    BY <2>1, <2>4, <2>5 DEF ClientSound
<1>3. QED
  BY <1>1, <1>2 DEF GatewayInv

\* A client and a socket of its own after either changed.
LEMMA ShutFacts ==
  ASSUME socket \in [Sockets -> SocketType], NEW s, socket' = Shut(s)
  PROVE  /\ socket' \in [Sockets -> SocketType]
         /\ \A t \in Sockets : socket'[t] = IF t = s THEN NoSocket ELSE socket[t]
BY GatewaySets DEF Shut

\* A client whose start is over or waits for its socket, so nothing is quiet in it.
IsStarted(x) == x.start \in {"socket", "done"}

LEMMA ScheduleFacts ==
  ASSUME NEW x \in ClientType, NEW r \in BOOLEAN
  PROVE  LET y == ScheduleReconnect(x, r)
         IN  /\ y \in ClientType /\ y.ws = x.ws /\ y.start = x.start /\ y.on = x.on
             /\ y.on => Hears(y)
<1> DEFINE y == ScheduleReconnect(x, r)
<1>1. CASE x.on
  <2> DEFINE f == [x.timers EXCEPT ![r] = @ + 1]
  <2>1. f \in Counters /\ f[r] > 0
    BY DEF ClientType, Counters
  <2>2. y = [x EXCEPT !.timers = f]
    BY <1>1 DEF ScheduleReconnect, ClientType
  <2> HIDE DEF f
  <2>3. y \in ClientType /\ y.ws = x.ws /\ y.start = x.start /\ y.on = x.on /\ y.timers = f
    BY <2>1, <2>2 DEF ClientType
  <2> HIDE DEF y
  <2>4. Hears(y)
    BY <2>1, <2>3 DEF Hears
  <2>5. QED
    BY <2>3, <2>4 DEF y
<1>2. CASE ~x.on
  BY <1>2 DEF ScheduleReconnect
<1>3. QED
  BY <1>1, <1>2

\* A client without a socket that connects again or was stopped.
LEMMA LooseSound ==
  ASSUME NEW c, NEW x, NEW so, x.ws = "none", IsStarted(x), x.on => Hears(x)
  PROVE  ClientSound(c, x, so)
BY DEF ClientSound, IsStarted

LEMMA ReconnectsInv ==
  ASSUME GatewayInv, NEW c \in Clients, NEW x \in ClientType, NEW r \in BOOLEAN,
         IsStarted(x), x.ws = client[c].ws, ~x.on => ClientSound(c, x, socket),
         Reconnects(c, x, r), UNCHANGED repl
  PROVE  GatewayInv'
<1>1. /\ socket \in [Sockets -> SocketType] /\ repl' \in ReplType
      /\ ClientSound(c, client[c], socket)
  BY DEF GatewayInv
<1>2. CASE ~x.on
  BY <1>1, <1>2, PutInv DEF Reconnects
<1>3. CASE x.on
  <2> DEFINE z == [x EXCEPT !.hb = "off", !.up = FALSE, !.ws = "none"]
             y == ScheduleReconnect(z, r)
  <2>1. z \in ClientType /\ z.ws = "none" /\ z.start = x.start /\ z.on = x.on
    BY GatewaySets DEF ClientType
  <2>2. Put(c, y) /\ socket' = Shut(x.ws)
    BY <1>3 DEF Reconnects
  <2> HIDE DEF z
  <2>3. /\ y \in ClientType /\ y.ws = z.ws /\ y.start = z.start /\ y.on = z.on
        /\ y.on => Hears(y)
    BY <2>1, ScheduleFacts
  <2> HIDE DEF y
  <2>4. ClientSound(c, y, socket')
    BY <2>1, <2>3, LooseSound DEF IsStarted
  <2>5. /\ socket' \in [Sockets -> SocketType]
        /\ \A t \in Sockets : socket'[t] = IF t = x.ws THEN NoSocket ELSE socket[t]
    BY <1>1, <2>2, ShutFacts
  <2>6. \A t \in Sockets : \/ socket'[t].owner = socket[t].owner
                           \/ socket[t].owner \in {c, "none"} /\ socket'[t].owner \in {c, "none"}
    BY <1>1, <2>5, GatewaySets DEF ClientSound, NoSocket
  <2>7. QED
    BY <1>1, <2>2, <2>3, <2>4, <2>5, <2>6, PutInv
<1>4. QED
  BY <1>2, <1>3

LEMMA OpensInv ==
  ASSUME GatewayInv, NEW c \in Clients, NEW x \in ClientType, NEW r \in BOOLEAN,
         IsStarted(x), Opens(c, x, r), UNCHANGED repl
  PROVE  GatewayInv'
<1>1. /\ socket \in [Sockets -> SocketType] /\ repl' \in ReplType
      /\ c \in OwnerRefs /\ "none" \notin Sockets
  BY GatewaySets DEF GatewayInv, OwnerRefs
<1>2. PICK s \in Sockets :
        /\ socket[s] = NoSocket
        /\ socket' = [socket EXCEPT ![s] = [owner |-> c, resume |-> r, hello |-> FALSE,
                         awaited |-> TRUE, first |-> client[c].start = "fetch"]]
        /\ Put(c, [x EXCEPT !.ws = s])
  BY DEF Opens
<1> DEFINE y == [x EXCEPT !.ws = s]
           new == [owner |-> c, resume |-> r, hello |-> FALSE, awaited |-> TRUE,
                   first |-> client[c].start = "fetch"]
<1>3. s \in SocketRefs
  BY DEF SocketRefs
<1>4. y \in ClientType /\ y.ws = s /\ y.start = x.start /\ y.on = x.on
  BY <1>3 DEF ClientType
<1>5. new \in SocketType /\ new.owner = c
  BY <1>1 DEF SocketType
<1>6. Put(c, y) /\ socket' = [socket EXCEPT ![s] = new]
  BY <1>2
<1> HIDE DEF y, new
<1>7. /\ socket' \in [Sockets -> SocketType] /\ socket'[s] = new
      /\ \A t \in Sockets : t # s => socket'[t] = socket[t]
  BY <1>1, <1>5, <1>6
<1>8. Hears(y)
  BY <1>1, <1>4 DEF Hears
<1>9. ClientSound(c, y, socket')
  BY <1>4, <1>5, <1>7, <1>8 DEF ClientSound, IsStarted
<1>10. \A t \in Sockets : \/ socket'[t].owner = socket[t].owner
                          \/ socket[t].owner \in {c, "none"} /\ socket'[t].owner \in {c, "none"}
  BY <1>2, <1>5, <1>7 DEF NoSocket
<1>11. QED
  BY <1>1, <1>4, <1>6, <1>7, <1>9, <1>10, PutInv

\* stop() of a client.
LEMMA StopFacts ==
  ASSUME NEW x \in ClientType
  PROVE  LET y == StopClient(x)
         IN  y \in ClientType /\ ~y.on /\ y.ws = "none" /\ y.start = x.start /\ y.hb = "off"
             /\ y.timers = x.timers /\ y.invalid = x.invalid /\ y.fetch = x.fetch
BY GatewaySets DEF StopClient, ClientType

\* A count of a client goes down by one, and the client was started by then.
LEMMA CountsDown ==
  ASSUME NEW f \in Counters, NEW r \in BOOLEAN, f[r] > 0
  PROVE  [f EXCEPT ![r] = @ - 1] \in Counters
BY DEF Counters

LEMMA CountsUp ==
  ASSUME NEW f \in Counters, NEW r \in BOOLEAN
  PROVE  [f EXCEPT ![r] = @ + 1] \in Counters /\ [f EXCEPT ![r] = @ + 1][r] > 0
BY DEF Counters

LEMMA StartedFacts ==
  ASSUME GatewayInv, NEW c \in Clients, ~AtRest(c, client[c], socket)
  PROVE  IsStarted(client[c])
BY DEF GatewayInv, ClientSound, ClientType, StartStates, IsStarted

LEMMA TimerFiresInv ==
  ASSUME GatewayInv, NEW c \in Clients, NEW r \in BOOLEAN, TimerFires(c, r)
  PROVE  GatewayInv'
<1>1. /\ client[c] \in ClientType /\ IsStarted(client[c]) /\ client[c].timers[r] > 0
      /\ ClientSound(c, client[c], socket) /\ UNCHANGED repl
      /\ socket \in [Sockets -> SocketType] /\ repl \in ReplType
  BY StartedFacts DEF GatewayInv, TimerFires, AtRest
<1>2. PICK b \in ClientType : b = client[c]
  BY <1>1
<1> DEFINE f == [b.timers EXCEPT ![r] = @ - 1]
           x == [b EXCEPT !.timers = f]
<1>3. f \in Counters /\ b.fetch \in Counters
  BY <1>1, <1>2, CountsDown DEF ClientType
<1>4. x = [client[c] EXCEPT !.timers[r] = @ - 1]
  BY <1>2 DEF ClientType
<1> HIDE DEF f
<1>5. /\ x \in ClientType /\ x.on = b.on /\ x.ws = b.ws /\ x.start = b.start
      /\ x.fetch = b.fetch /\ x.session = b.session
  BY <1>3 DEF ClientType
<1> HIDE DEF x
<1>6. CASE ~x.on
  <2>1. Put(c, x) /\ UNCHANGED socket
    BY <1>4, <1>6 DEF TimerFires
  <2>2. ClientSound(c, x, socket)
    BY <1>1, <1>2, <1>5, <1>6 DEF ClientSound, IsStarted
  <2>3. QED
    BY <1>1, <1>5, <2>1, <2>2, PutInv
<1>7. CASE x.on /\ Opens(c, x, r)
  BY <1>1, <1>2, <1>5, <1>7, OpensInv DEF IsStarted
<1>8. CASE x.on /\ Put(c, [x EXCEPT !.fetch[r] = @ + 1]) /\ UNCHANGED socket
  <2> DEFINE g == [x.fetch EXCEPT ![r] = @ + 1]
             y == [x EXCEPT !.fetch = g]
  <2>1. g \in Counters /\ g[r] > 0
    BY <1>3, <1>5, CountsUp
  <2>2. y = [x EXCEPT !.fetch[r] = @ + 1]
    BY <1>5 DEF ClientType
  <2> HIDE DEF g
  <2>3. y \in ClientType /\ y.ws = x.ws /\ y.start = x.start /\ y.on = x.on /\ y.fetch = g
    BY <1>5, <2>1 DEF ClientType
  <2> HIDE DEF y
  <2>4. Hears(y)
    BY <2>1, <2>3 DEF Hears
  <2>5. ClientSound(c, y, socket)
    BY <1>1, <1>2, <1>5, <2>3, <2>4 DEF ClientSound, IsStarted
  <2>6. QED
    BY <1>1, <1>8, <2>2, <2>3, <2>5, PutInv
<1>9. QED
  BY <1>4, <1>6, <1>7, <1>8 DEF TimerFires

LEMMA FetchEndsInv ==
  ASSUME GatewayInv, NEW c \in Clients, NEW r \in BOOLEAN, FetchEnds(c, r)
  PROVE  GatewayInv'
<1>1. /\ client[c] \in ClientType /\ IsStarted(client[c]) /\ client[c].fetch[r] > 0
      /\ ClientSound(c, client[c], socket) /\ UNCHANGED repl
      /\ socket \in [Sockets -> SocketType] /\ repl \in ReplType
  BY StartedFacts DEF GatewayInv, FetchEnds, AtRest
<1>2. PICK b \in ClientType : b = client[c]
  BY <1>1
<1> DEFINE f == [b.fetch EXCEPT ![r] = @ - 1]
           x == [b EXCEPT !.fetch = f]
<1>3. f \in Counters
  BY <1>1, <1>2, CountsDown DEF ClientType
<1>4. x = [client[c] EXCEPT !.fetch[r] = @ - 1]
  BY <1>2 DEF ClientType
<1> HIDE DEF f
<1>5. x \in ClientType /\ x.on = b.on /\ x.ws = b.ws /\ x.start = b.start
  BY <1>3 DEF ClientType
<1> HIDE DEF x
<1>6. CASE Opens(c, x, r)
  BY <1>1, <1>2, <1>5, <1>6, OpensInv DEF IsStarted
<1>7. CASE Put(c, ScheduleReconnect(x, r)) /\ UNCHANGED socket
  <2> DEFINE y == ScheduleReconnect(x, r)
  <2>1. /\ y \in ClientType /\ y.ws = x.ws /\ y.start = x.start /\ y.on = x.on
        /\ y.on => Hears(y)
    BY <1>5, ScheduleFacts
  <2>2. Put(c, y)
    BY <1>7
  <2> HIDE DEF y
  <2>3. ClientSound(c, y, socket)
    BY <1>1, <1>2, <1>5, <2>1 DEF ClientSound, IsStarted
  <2>4. QED
    BY <1>1, <1>7, <2>1, <2>2, <2>3, PutInv
<1>8. QED
  BY <1>4, <1>6, <1>7 DEF FetchEnds

LEMMA StartFetchEndsInv ==
  ASSUME GatewayInv, NEW c \in Clients, StartFetchEnds(c)
  PROVE  GatewayInv'
<1>1. /\ client[c] \in ClientType /\ client[c].start = "fetch" /\ UNCHANGED repl
      /\ socket \in [Sockets -> SocketType] /\ repl \in ReplType
  BY DEF GatewayInv, StartFetchEnds
<1>2. PICK b \in ClientType : b = client[c]
  BY <1>1
<1> DEFINE x == [b EXCEPT !.start = "socket"]
           z == [x EXCEPT !.start = "done"]
<1>3. x \in ClientType /\ x.start = "socket" /\ z \in ClientType /\ z.start = "done"
  BY GatewaySets DEF ClientType
<1>4. Opens(c, x, FALSE) \/ (Put(c, StopClient(z)) /\ UNCHANGED socket)
  BY <1>2 DEF StartFetchEnds
<1> HIDE DEF x, z
<1>5. CASE Opens(c, x, FALSE)
  <2>1. PICK no \in BOOLEAN : no = FALSE
    OBVIOUS
  <2>2. Opens(c, x, no)
    BY <1>5, <2>1
  <2>3. QED
    BY <1>1, <1>3, <2>2, OpensInv DEF IsStarted
<1>6. CASE Put(c, StopClient(z)) /\ UNCHANGED socket
  <2> DEFINE y == StopClient(z)
  <2>1. y \in ClientType /\ ~y.on /\ y.ws = "none" /\ y.start = z.start
    BY <1>3, StopFacts
  <2>2. Put(c, y)
    BY <1>6
  <2> HIDE DEF y
  <2>3. ClientSound(c, y, socket)
    BY <1>3, <2>1, LooseSound DEF IsStarted
  <2>4. QED
    BY <1>1, <1>6, <2>1, <2>2, <2>3, PutInv
<1>7. QED
  BY <1>4, <1>5, <1>6

\* What there is of a client that has a socket of its own.
LEMMA FrameFacts ==
  ASSUME GatewayInv, NEW c \in Clients, NEW s \in Sockets, FrameOn(c, s)
  PROVE  /\ client[c] \in ClientType /\ IsStarted(client[c]) /\ socket[s] \in SocketType
         /\ socket[s].owner = c /\ ClientSound(c, client[c], socket)
         /\ socket \in [Sockets -> SocketType] /\ repl \in ReplType
BY StartedFacts DEF GatewayInv, FrameOn, AtRest

LEMMA HelloInv ==
  ASSUME GatewayInv, NEW c \in Clients, NEW s \in Sockets, Hello(c, s)
  PROVE  GatewayInv'
<1>1. /\ client[c] \in ClientType /\ IsStarted(client[c]) /\ socket[s] \in SocketType
      /\ ClientSound(c, client[c], socket)
      /\ socket \in [Sockets -> SocketType] /\ repl \in ReplType
  BY FrameFacts DEF Hello
<1>2. PICK b \in ClientType : b = client[c]
  BY <1>1
<1> DEFINE x == [b EXCEPT !.hb = "acked"]
<1>3. /\ x \in ClientType /\ x.ws = b.ws /\ x.start = b.start /\ x.on = b.on
      /\ x.timers = b.timers /\ x.fetch = b.fetch
  BY GatewaySets DEF ClientType
<1>4. Put(c, x) /\ UNCHANGED repl /\ socket' = [socket EXCEPT ![s].hello = TRUE]
  BY <1>2 DEF Hello
<1> HIDE DEF x
<1>5. /\ socket' \in [Sockets -> SocketType]
      /\ \A t \in Sockets : socket'[t].owner = socket[t].owner
  BY <1>1, <1>4 DEF SocketType
<1>6. ClientSound(c, x, socket')
  BY <1>1, <1>2, <1>3, <1>5 DEF ClientSound, IsStarted, Hears, ClientType, SocketRefs
<1>7. QED
  BY <1>1, <1>3, <1>4, <1>5, <1>6, PutInv

LEMMA ReadyInv ==
  ASSUME GatewayInv, NEW c \in Clients, NEW s \in Sockets, Ready(c, s)
  PROVE  GatewayInv'
<1>1. /\ client[c] \in ClientType /\ IsStarted(client[c]) /\ socket[s] \in SocketType
      /\ ClientSound(c, client[c], socket)
      /\ socket \in [Sockets -> SocketType] /\ repl \in ReplType
  BY FrameFacts DEF Ready
<1>2. PICK b \in ClientType : b = client[c]
  BY <1>1
<1>3. PICK fresh \in BOOLEAN, start \in StartStates :
        /\ Put(c, [b EXCEPT !.up = TRUE, !.session = @ \/ fresh, !.start = start])
        /\ start = b.start \/ start = "done"
  <2>1. PICK fresh \in {TRUE} \cup {~socket[s].resume} :
          Put(c, [client[c] EXCEPT !.up = TRUE, !.session = @ \/ fresh,
                    !.start = IF socket[s].first THEN "done" ELSE @])
    BY DEF Ready
  <2>2. fresh \in BOOLEAN
    BY <1>1 DEF SocketType
  <2>3. CASE socket[s].first
    <3>1. Put(c, [b EXCEPT !.up = TRUE, !.session = @ \/ fresh, !.start = "done"])
      BY <1>2, <2>1, <2>3
    <3>2. QED
      BY <2>2, <3>1, GatewaySets
  <2>4. CASE ~socket[s].first
    <3>1. Put(c, [b EXCEPT !.up = TRUE, !.session = @ \/ fresh, !.start = b.start])
      BY <1>2, <2>1, <2>4
    <3>2. b.start \in StartStates
      BY DEF ClientType
    <3>3. QED
      BY <2>2, <3>1, <3>2
  <2>5. QED
    BY <2>3, <2>4
<1> DEFINE x == [b EXCEPT !.up = TRUE, !.session = @ \/ fresh, !.start = start]
<1>4. /\ x \in ClientType /\ x.ws = b.ws /\ x.start = start /\ x.on = b.on
      /\ x.timers = b.timers /\ x.fetch = b.fetch
  BY DEF ClientType
<1>5. Put(c, x) /\ UNCHANGED repl /\ socket' = [socket EXCEPT ![s].awaited = FALSE]
  BY <1>3 DEF Ready
<1> HIDE DEF x
<1>6. /\ socket' \in [Sockets -> SocketType]
      /\ \A t \in Sockets : socket'[t].owner = socket[t].owner
  BY <1>1, <1>5 DEF SocketType
<1>7. ClientSound(c, x, socket')
  BY <1>1, <1>2, <1>3, <1>4, <1>6 DEF ClientSound, IsStarted, Hears, ClientType, SocketRefs
<1>8. QED
  BY <1>1, <1>4, <1>5, <1>6, <1>7, PutInv

LEMMA TellsReconnectInv ==
  ASSUME GatewayInv, NEW c \in Clients, NEW s \in Sockets, TellsReconnect(c, s)
  PROVE  GatewayInv'
<1>1. /\ client[c] \in ClientType /\ IsStarted(client[c]) /\ ClientSound(c, client[c], socket)
  BY FrameFacts DEF TellsReconnect
<1>2. PICK yes \in BOOLEAN : yes = TRUE
  OBVIOUS
<1>3. Reconnects(c, client[c], yes) /\ UNCHANGED repl
  BY <1>2 DEF TellsReconnect
<1>4. QED
  BY <1>1, <1>3, ReconnectsInv

LEMMA TellsInvalidInv ==
  ASSUME GatewayInv, NEW c \in Clients, NEW s \in Sockets, TellsInvalid(c, s)
  PROVE  GatewayInv'
<1>1. /\ client[c] \in ClientType /\ IsStarted(client[c]) /\ UNCHANGED <<socket, repl>>
      /\ ClientSound(c, client[c], socket)
      /\ socket \in [Sockets -> SocketType] /\ repl \in ReplType
  BY FrameFacts DEF TellsInvalid
<1>2. PICK b \in ClientType : b = client[c]
  BY <1>1
<1>3. PICK r \in BOOLEAN : Put(c, [client[c] EXCEPT !.invalid[r] = @ + 1])
  BY DEF TellsInvalid
<1> DEFINE f == [b.invalid EXCEPT ![r] = @ + 1]
           x == [b EXCEPT !.invalid = f]
<1>4. f \in Counters
  BY CountsUp DEF ClientType
<1>5. Put(c, x)
  BY <1>2, <1>3 DEF ClientType
<1> HIDE DEF f
<1>6. /\ x \in ClientType /\ x.ws = b.ws /\ x.start = b.start /\ x.on = b.on
      /\ x.timers = b.timers /\ x.fetch = b.fetch
  BY <1>4 DEF ClientType
<1> HIDE DEF x
<1>7. ClientSound(c, x, socket)
  BY <1>1, <1>2, <1>6 DEF ClientSound, IsStarted, Hears
<1>8. QED
  BY <1>1, <1>5, <1>6, <1>7, PutInv

LEMMA InvalidFiresInv ==
  ASSUME GatewayInv, NEW c \in Clients, NEW r \in BOOLEAN, InvalidFires(c, r)
  PROVE  GatewayInv'
<1>1. /\ client[c] \in ClientType /\ IsStarted(client[c]) /\ client[c].invalid[r] > 0
      /\ ClientSound(c, client[c], socket)
  BY StartedFacts DEF GatewayInv, InvalidFires, AtRest
<1>2. PICK b \in ClientType : b = client[c]
  BY <1>1
<1> DEFINE f == [b.invalid EXCEPT ![r] = @ - 1]
           x == [b EXCEPT !.invalid = f]
<1>3. f \in Counters
  BY <1>1, <1>2, CountsDown DEF ClientType
<1>4. Reconnects(c, x, r) /\ UNCHANGED repl
  BY <1>2 DEF InvalidFires, ClientType
<1> HIDE DEF f
<1>5. /\ x \in ClientType /\ x.on = b.on /\ x.ws = b.ws /\ x.start = b.start
      /\ x.timers = b.timers /\ x.fetch = b.fetch
  BY <1>3 DEF ClientType
<1> HIDE DEF x
<1>6. ClientSound(c, x, socket)
  BY <1>1, <1>2, <1>5 DEF ClientSound, IsStarted, Hears
<1>7. QED
  BY <1>1, <1>2, <1>4, <1>5, <1>6, ReconnectsInv DEF IsStarted

LEMMA HeartbeatInv ==
  ASSUME GatewayInv, NEW c \in Clients, Heartbeat(c)
  PROVE  GatewayInv'
<1>1. /\ client[c] \in ClientType /\ IsStarted(client[c]) /\ UNCHANGED repl
      /\ ClientSound(c, client[c], socket)
      /\ socket \in [Sockets -> SocketType] /\ repl \in ReplType
  BY StartedFacts DEF GatewayInv, Heartbeat, AtRest
<1>2. PICK b \in ClientType : b = client[c]
  BY <1>1
<1>3. ASSUME NEW hb \in Beats, Put(c, [client[c] EXCEPT !.hb = hb]), UNCHANGED socket
      PROVE  GatewayInv'
  <2> DEFINE x == [b EXCEPT !.hb = hb]
  <2>1. /\ x \in ClientType /\ x.ws = b.ws /\ x.start = b.start /\ x.on = b.on
        /\ x.timers = b.timers /\ x.fetch = b.fetch
    BY DEF ClientType
  <2>2. Put(c, x)
    BY <1>2, <1>3
  <2> HIDE DEF x
  <2>3. ClientSound(c, x, socket)
    BY <1>1, <1>2, <2>1 DEF ClientSound, IsStarted, Hears
  <2>4. QED
    BY <1>1, <1>3, <2>1, <2>2, <2>3, PutInv
<1>4. CASE Reconnects(c, client[c], TRUE)
  <2>1. PICK yes \in BOOLEAN : yes = TRUE
    OBVIOUS
  <2>2. Reconnects(c, client[c], yes)
    BY <1>4, <2>1
  <2>3. QED
    BY <1>1, <2>2, ReconnectsInv
<1>5. QED
  BY <1>3, <1>4, GatewaySets DEF Heartbeat

LEMMA ClosesInv ==
  ASSUME GatewayInv, NEW c \in Clients, NEW s \in Sockets, Closes(c, s)
  PROVE  GatewayInv'
<1>1. /\ client[c] \in ClientType /\ IsStarted(client[c]) /\ socket[s] \in SocketType
      /\ socket[s].owner = c /\ ClientSound(c, client[c], socket)
      /\ socket \in [Sockets -> SocketType] /\ repl' \in ReplType
      /\ client \in [Clients -> ClientType]
  BY FrameFacts DEF Closes, GatewayInv
<1>2. PICK b \in ClientType : b = client[c]
  BY <1>1
<1>3. /\ socket' \in [Sockets -> SocketType]
      /\ \A t \in Sockets : socket'[t] = IF t = s THEN NoSocket ELSE socket[t]
  BY <1>1, ShutFacts DEF Closes
<1>4. \A t \in Sockets : \/ socket'[t].owner = socket[t].owner
                         \/ socket[t].owner \in {c, "none"} /\ socket'[t].owner \in {c, "none"}
  BY <1>1, <1>3 DEF NoSocket
<1>5. ASSUME NEW y \in ClientType, Put(c, y), y.ws = "none", IsStarted(y), y.on => Hears(y)
      PROVE  GatewayInv'
  BY <1>1, <1>3, <1>4, <1>5, PutInv, LooseSound
<1>6. CASE client[c].ws # s
  <2>1. Put(c, b) /\ b.ws # s
    BY <1>1, <1>2, <1>6 DEF Closes, Put
  <2>2. b.ws # "none" => socket'[b.ws].owner = c
    <3>1. b.ws \in Sockets \cup {"none"}
      BY DEF ClientType, SocketRefs
    <3>2. QED
      BY <1>1, <1>2, <1>3, <2>1, <3>1 DEF ClientSound
  <2>3. ClientSound(c, b, socket')
    BY <1>1, <1>2, <2>2 DEF ClientSound, IsStarted
  <2>4. QED
    BY <1>1, <1>3, <1>4, <2>1, <2>3, PutInv
<1>7. CASE client[c].ws = s
  <2> DEFINE x == [b EXCEPT !.hb = "off", !.up = FALSE, !.ws = "none"]
  <2>1. x \in ClientType /\ x.ws = "none" /\ x.start = b.start /\ x.on = b.on
    BY GatewaySets DEF ClientType
  <2>2. \/ Put(c, [x EXCEPT !.on = FALSE, !.start = IF socket[s].first THEN "done" ELSE @])
        \/ Put(c, StopClient([x EXCEPT !.start = "done"]))
        \/ \E r \in BOOLEAN : Put(c, ScheduleReconnect(x, r))
    BY <1>2, <1>7 DEF Closes
  <2> HIDE DEF x
  <2>3. CASE Put(c, [x EXCEPT !.on = FALSE, !.start = IF socket[s].first THEN "done" ELSE @])
    <3> DEFINE start == IF socket[s].first THEN "done" ELSE x.start
               y == [x EXCEPT !.on = FALSE, !.start = start]
    <3>1. start \in {x.start, "done"}
      OBVIOUS
    <3>2. start \in StartStates
      BY <2>1, <3>1, GatewaySets DEF ClientType
    <3>3. Put(c, y)
      BY <2>1, <2>3 DEF ClientType
    <3> HIDE DEF start
    <3>4. y \in ClientType /\ ~y.on /\ y.ws = "none" /\ y.start = start
      BY <2>1, <3>2 DEF ClientType
    <3> HIDE DEF y
    <3>5. QED
      BY <1>1, <1>2, <1>5, <2>1, <3>1, <3>3, <3>4 DEF IsStarted
  <2>4. CASE Put(c, StopClient([x EXCEPT !.start = "done"]))
    <3> DEFINE z == [x EXCEPT !.start = "done"]
               y == StopClient(z)
    <3>1. z \in ClientType /\ z.start = "done"
      BY <2>1, GatewaySets DEF ClientType
    <3> HIDE DEF z
    <3>2. y \in ClientType /\ ~y.on /\ y.ws = "none" /\ y.start = "done"
      BY <3>1, StopFacts
    <3>3. Put(c, y)
      BY <2>4 DEF z
    <3> HIDE DEF y
    <3>4. QED
      BY <1>5, <3>2, <3>3 DEF IsStarted
  <2>5. ASSUME NEW r \in BOOLEAN, Put(c, ScheduleReconnect(x, r))
        PROVE  GatewayInv'
    <3> DEFINE y == ScheduleReconnect(x, r)
    <3>1. /\ y \in ClientType /\ y.ws = x.ws /\ y.start = x.start /\ y.on = x.on
          /\ y.on => Hears(y)
      BY <2>1, ScheduleFacts
    <3>2. Put(c, y)
      BY <2>5
    <3> HIDE DEF y
    <3>3. QED
      BY <1>1, <1>2, <1>5, <2>1, <3>1, <3>2 DEF IsStarted
  <2>6. QED
    BY <2>2, <2>3, <2>4, <2>5
<1>8. QED
  BY <1>6, <1>7

LEMMA MenuStartsInv ==
  ASSUME GatewayInv, NEW c \in Clients, MenuStarts(c)
  PROVE  GatewayInv'
<1>1. /\ client[c] = NoClient /\ socket' = socket /\ socket \in [Sockets -> SocketType]
      /\ repl' = [repl EXCEPT !.bot = c] /\ ClientSound(c, NoClient, socket)
  BY DEF GatewayInv, MenuStarts
<1> DEFINE x == [NoClient EXCEPT !.on = TRUE, !.start = "fetch"]
<1>2. x \in ClientType
  BY GatewaySets DEF ClientType
<1>3. /\ x.start = "fetch" /\ x.ws = NoClient.ws /\ x.hb = NoClient.hb
      /\ x.timers = NoClient.timers /\ x.invalid = NoClient.invalid /\ x.fetch = NoClient.fetch
  BY DEF NoClient
<1>4. Put(c, x)
  BY DEF MenuStarts
<1> HIDE DEF x
<1>5. AtRest(c, NoClient, socket)
  BY <1>1 DEF ClientSound, NoClient
<1>6. ClientSound(c, x, socket')
  BY <1>1, <1>3, <1>5 DEF ClientSound, AtRest, Hears
<1>7. repl' \in ReplType
  <2>1. c \in OwnerRefs
    BY DEF OwnerRefs
  <2>2. QED
    BY <1>1, <2>1 DEF ReplType, GatewayInv
<1>8. QED
  BY <1>1, <1>2, <1>4, <1>6, <1>7, PutInv

\* The bot of the REPL is stopped and nothing takes its place.
LEMMA BotStopsInv ==
  ASSUME GatewayInv, BotStops, repl' \in ReplType, repl'.bot = "none"
  PROVE  GatewayInv'
<1>1. CASE repl.bot = "none"
  BY <1>1, GatewaySets DEF GatewayInv, BotStops
<1>2. CASE repl.bot # "none"
  <2>1. PICK c \in Clients : c = repl.bot
    BY <1>2 DEF GatewayInv, OwnerRefs, ReplType
  <2>2. /\ client[c] \in ClientType /\ ClientSound(c, client[c], socket)
        /\ socket \in [Sockets -> SocketType] /\ repl' \in ReplType
    BY GatewaySets DEF GatewayInv
  <2>3. PICK b \in ClientType : b = client[c]
    BY <2>2
  <2> DEFINE y == StopClient(b)
  <2>4. /\ y \in ClientType /\ ~y.on /\ y.ws = "none" /\ y.start = b.start /\ y.hb = "off"
        /\ y.timers = b.timers /\ y.invalid = b.invalid /\ y.fetch = b.fetch
    BY StopFacts
  <2>5. Put(c, y) /\ socket' = Shut(b.ws)
    BY <1>2, <2>1, <2>3 DEF BotStops
  <2> HIDE DEF y
  <2>6. /\ socket' \in [Sockets -> SocketType]
        /\ \A t \in Sockets : socket'[t] = IF t = b.ws THEN NoSocket ELSE socket[t]
    BY <2>2, <2>5, ShutFacts
  <2>7. \A t \in Sockets : \/ socket'[t].owner = socket[t].owner
                           \/ socket[t].owner \in {c, "none"} /\ socket'[t].owner \in {c, "none"}
    BY <2>2, <2>3, <2>6, GatewaySets DEF ClientSound, NoSocket
  <2>8. AtRest(c, b, socket) => AtRest(c, y, socket')
    BY <2>4, <2>6, GatewaySets DEF AtRest, NoSocket
  <2>9. ClientSound(c, y, socket')
    BY <2>2, <2>3, <2>4, <2>8 DEF ClientSound
  <2>10. QED
    BY <2>2, <2>4, <2>5, <2>6, <2>7, <2>9, PutInv
<1>3. QED
  BY <1>1, <1>2

LEMMA GatewayNextInv ==
  ASSUME GatewayInv, [GatewayNext]_gatewayVars
  PROVE  GatewayInv'
<1>1. CASE UNCHANGED gatewayVars
  BY <1>1 DEF gatewayVars, GatewayInv
<1>2. CASE MenuStops \/ Quit
  <2>1. BotStops
    BY <1>2 DEF MenuStops, Quit
  <2>2. repl' \in ReplType /\ repl'.bot = "none"
    <3>1. repl \in ReplType /\ "none" \in OwnerRefs
      BY GatewaySets DEF GatewayInv
    <3>2. CASE MenuStops
      BY <3>1, <3>2 DEF MenuStops, ReplType
    <3>3. CASE Quit
      BY <3>1, <3>3 DEF Quit, ReplType
    <3>4. QED
      BY <1>2, <3>2, <3>3
  <2>3. QED
    BY <2>1, <2>2, BotStopsInv
<1>3. ASSUME NEW c \in Clients,
             \/ \E r \in BOOLEAN : TimerFires(c, r) \/ FetchEnds(c, r) \/ InvalidFires(c, r)
             \/ StartFetchEnds(c) \/ Heartbeat(c) \/ MenuStarts(c)
      PROVE  GatewayInv'
  BY <1>3, TimerFiresInv, FetchEndsInv, InvalidFiresInv, StartFetchEndsInv, HeartbeatInv,
     MenuStartsInv
<1>4. ASSUME NEW c \in Clients, NEW s \in Sockets,
             \/ Hello(c, s) \/ Ready(c, s) \/ TellsReconnect(c, s) \/ TellsInvalid(c, s)
             \/ Closes(c, s)
      PROVE  GatewayInv'
  BY <1>4, HelloInv, ReadyInv, TellsReconnectInv, TellsInvalidInv, ClosesInv
<1>5. QED
  BY <1>1, <1>2, <1>3, <1>4 DEF GatewayNext

\* The inductive invariant holds of every behaviour of the connection.
THEOREM GatewayInvHolds == GatewaySpec => []GatewayInv
<1>1. GatewayInit => GatewayInv
  BY GatewayInitInv
<1>2. GatewayInv /\ [GatewayNext]_gatewayVars => GatewayInv'
  BY GatewayNextInv
<1>3. QED
  BY <1>1, <1>2, PTL DEF GatewaySpec

\* A client that was not stopped is connected, connecting, or has a timer that
\* will connect: for any number of clients, sockets and timers, whatever frames
\* come on whichever socket.
THEOREM NeverDeafHolds == GatewaySpec => []NeverDeaf
<1>1. GatewayInv => NeverDeaf
  <2> SUFFICES ASSUME GatewayInv, NEW c \in Clients, client[c].on
               PROVE  \/ \E s \in Sockets : client[c].ws = s /\ socket[s].owner = c
                      \/ client[c].start = "fetch"
                      \/ \E r \in BOOLEAN : client[c].timers[r] > 0 \/ client[c].fetch[r] > 0
    BY DEF NeverDeaf
  <2>1. ClientSound(c, client[c], socket) /\ client[c].ws \in Sockets \cup {"none"}
    BY DEF GatewayInv, ClientType, SocketRefs
  <2>2. QED
    BY <2>1 DEF ClientSound, Hears
<1>2. QED
  BY <1>1, GatewayInvHolds, PTL

-----------------------------------------------------------------------------
(* How much a connection has under way. *)

Both(f) == f[TRUE] + f[FALSE]
Beat(x) == IF x.hb = "off" THEN 0 ELSE 1

\* The sockets of a client that the server has not greeted.
Unheard(c, so) == {s \in Sockets : so[s].owner = c /\ ~so[s].hello}

\* Whatever is under way for a client comes of a socket: one not greeted, a
\* heartbeat, or what a lost one left behind.  The current socket beats.
LoadSound(c, x, so) ==
  /\ Pending(x) + Beat(x) + Cardinality(Unheard(c, so)) <= MaxTimers + Cardinality(Sockets)
  /\ x.ws # "none" /\ so[x.ws].hello => x.hb # "off"

LoadInv == \A c \in Clients : LoadSound(c, client[c], socket)

LEMMA SocketsCount ==
  /\ MaxTimers \in Nat \ {0} /\ IsFiniteSet(Sockets) /\ Cardinality(Sockets) \in Nat
  /\ \A S \in SUBSET Sockets :
       IsFiniteSet(S) /\ Cardinality(S) \in Nat /\ Cardinality(S) <= Cardinality(Sockets)
  /\ \A S \in SUBSET Sockets : \A T \in SUBSET S : Cardinality(T) <= Cardinality(S)
  /\ \A S \in SUBSET Sockets : \A s \in S : Cardinality(S \ {s}) = Cardinality(S) - 1
  /\ \A S \in SUBSET Sockets : \A s \in Sockets \ S : Cardinality(S \cup {s}) = Cardinality(S) + 1
<1>1. MaxTimers \in Nat \ {0} /\ IsFiniteSet(Sockets)
  BY GatewayConstants
<1>2. \A S \in SUBSET Sockets : IsFiniteSet(S) /\ Cardinality(S) <= Cardinality(Sockets)
  BY <1>1, FS_Subset
<1>3. \A S : IsFiniteSet(S) => Cardinality(S) \in Nat
  BY FS_CardinalityType
<1>4. \A S \in SUBSET Sockets : \A T \in SUBSET S : Cardinality(T) <= Cardinality(S)
  BY <1>2, FS_Subset
<1>5. \A S \in SUBSET Sockets : \A s \in S : Cardinality(S \ {s}) = Cardinality(S) - 1
  BY <1>2, FS_RemoveElement
<1>6. \A S \in SUBSET Sockets : \A s \in Sockets \ S : Cardinality(S \cup {s}) = Cardinality(S) + 1
  BY <1>2, FS_AddElement
<1>. QED BY <1>1, <1>2, <1>3, <1>4, <1>5, <1>6

LEMMA UnheardIs ==
  ASSUME NEW c, NEW so
  PROVE  Unheard(c, so) \in SUBSET Sockets /\ Cardinality(Unheard(c, so)) \in Nat
<1>1. Unheard(c, so) \in SUBSET Sockets
  BY DEF Unheard
<1>. QED BY <1>1, SocketsCount

\* A count by canResume, of which one side is set.
LEMMA BothIs ==
  ASSUME NEW f, NEW yes, NEW no, yes = TRUE, no = FALSE
  PROVE Both(f) = f[yes] + f[no]
BY Zenon DEF Both
LEMMA BothTyped ==
  ASSUME NEW f \in Counters
  PROVE  Both(f) \in Nat
<1>1. PICK yes \in BOOLEAN, no \in BOOLEAN : yes = TRUE /\ no = FALSE
  BY Zenon
<1>2. Both(f) = f[yes] + f[no]
  BY <1>1, BothIs
<1>3. f[yes] \in Nat /\ f[no] \in Nat
  BY Zenon DEF Counters
<1>. QED BY <1>2, <1>3
LEMMA Trade ==
  ASSUME NEW p \in Nat, NEW q \in Nat, NEW n \in Nat
  PROVE  n + q = (p + q) - p + n /\ q + n = (q + p) - p + n
OBVIOUS

LEMMA BothSet ==
  ASSUME NEW f \in Counters, NEW r \in BOOLEAN, NEW n \in Nat
  PROVE  Both([f EXCEPT ![r] = n]) = Both(f) - f[r] + n
<1>1. PICK yes \in BOOLEAN, no \in BOOLEAN : yes = TRUE /\ no = FALSE
  BY Zenon
<1>. DEFINE g == [f EXCEPT ![r] = n]
<1>2. Both(f) = f[yes] + f[no] /\ Both(g) = g[yes] + g[no]
  BY <1>1, BothIs
<1>3. f[yes] \in Nat /\ f[no] \in Nat
  BY Zenon DEF Counters
<1>4. (r = yes \/ r = no) /\ yes # no
  BY Zenon, <1>1
<1>5. g[r] = n /\ \A q \in BOOLEAN : q # r => g[q] = f[q]
  BY Zenon DEF Counters
<1>6. CASE r = yes
  <2>1. g[yes] = n /\ g[no] = f[no] /\ f[r] = f[yes]
    BY Zenon, <1>4, <1>5, <1>6
  <2>2. n + f[no] = (f[yes] + f[no]) - f[yes] + n
    BY Zenon, <1>3, Trade
  <2>. QED BY Zenon, <1>2, <2>1, <2>2
<1>7. CASE r = no
  <2>1. g[no] = n /\ g[yes] = f[yes] /\ f[r] = f[no]
    BY Zenon, <1>4, <1>5, <1>7
  <2>2. f[yes] + n = (f[yes] + f[no]) - f[no] + n
    BY Zenon, <1>3, Trade
  <2>. QED BY Zenon, <1>2, <2>1, <2>2
<1>. QED BY <1>4, <1>6, <1>7

LEMMA BothGoes ==
  ASSUME NEW f \in Counters, NEW r \in BOOLEAN
  PROVE  /\ Both([f EXCEPT ![r] = @ + 1]) = Both(f) + 1
         /\ f[r] > 0 => Both([f EXCEPT ![r] = @ - 1]) = Both(f) - 1
<1>1. PICK k \in Nat : k = f[r]
  BY DEF Counters
<1>2. PICK b \in Nat : b = Both(f)
  BY BothTyped
<1>3. Both([f EXCEPT ![r] = k + 1]) = b - k + (k + 1)
  <2>1. k + 1 \in Nat
    OBVIOUS
  <2>. QED BY <1>1, <1>2, <2>1, BothSet
<1>4. k > 0 => Both([f EXCEPT ![r] = k - 1]) = b - k + (k - 1)
  <2>1. k > 0 => k - 1 \in Nat
    OBVIOUS
  <2>. QED BY <1>1, <1>2, <2>1, BothSet
<1>5. b - k + (k + 1) = b + 1 /\ b - k + (k - 1) = b - 1
  OBVIOUS
<1>. QED BY Zenon, <1>1, <1>2, <1>3, <1>4, <1>5

LEMMA PendingIs ==
  ASSUME NEW x \in ClientType
  PROVE  /\ Pending(x) = Both(x.timers) + Both(x.invalid) + Both(x.fetch)
         /\ Both(x.timers) \in Nat /\ Both(x.invalid) \in Nat /\ Both(x.fetch) \in Nat
         /\ Pending(x) \in Nat /\ Beat(x) \in {0, 1}
<1>1. \A f \in Counters : Both(f) \in Nat
  BY BothTyped
<1>2. x.timers \in Counters /\ x.invalid \in Counters /\ x.fetch \in Counters
  BY DEF ClientType
<1>3. Pending(x) = Both(x.timers) + Both(x.invalid) + Both(x.fetch)
  BY DEF Pending, Both
<1>. QED BY <1>1, <1>2, <1>3 DEF Beat

\* One client and sockets of its own change.
LEMMA LoadKept ==
  ASSUME GatewayInv, LoadInv, NEW c \in Clients, NEW x, Put(c, x),
         \A s \in Sockets : \/ socket'[s] = socket[s]
                            \/ socket[s].owner \in {c, "none"} /\ socket'[s].owner \in {c, "none"},
         LoadSound(c, x, socket')
  PROVE  LoadInv'
<1>1. client'[c] = x /\ \A d \in Clients : d # c => client'[d] = client[d]
  BY DEF GatewayInv, Put
<1>2. ASSUME NEW d \in Clients, d # c
      PROVE  LoadSound(d, client[d], socket')
  <2>1. d # "none" /\ ClientSound(d, client[d], socket) /\ LoadSound(d, client[d], socket)
        /\ client[d].ws \in Sockets \cup {"none"}
    BY GatewaySets DEF GatewayInv, LoadInv, ClientType, SocketRefs
  <2>2. Unheard(d, socket') = Unheard(d, socket)
    BY <1>2, <2>1 DEF Unheard
  <2>3. client[d].ws # "none" => socket'[client[d].ws] = socket[client[d].ws]
    BY <1>2, <2>1 DEF ClientSound
  <2>. QED BY <2>1, <2>2, <2>3 DEF LoadSound
<1>. QED BY <1>1, <1>2 DEF LoadInv

\* A client with no more under way than before.
LEMMA NoMoreLoad ==
  ASSUME NEW c, NEW b \in ClientType, NEW y \in ClientType, NEW so, NEW to,
         LoadSound(c, b, so), Unheard(c, to) \subseteq Unheard(c, so),
         Pending(y) + Beat(y) <= Pending(b) + Beat(b),
         y.ws # "none" /\ to[y.ws].hello => y.hb # "off"
  PROVE  LoadSound(c, y, to)
<1>1. PICK m \in Nat, n \in Nat : m = Cardinality(Unheard(c, so)) /\ n = Cardinality(Unheard(c, to))
  BY UnheardIs
<1>2. n <= m
  BY <1>1, UnheardIs, SocketsCount
<1>3. PICK p \in Nat, q \in Nat : p = Pending(b) + Beat(b) /\ q = Pending(y) + Beat(y)
  BY PendingIs
<1>. QED BY <1>1, <1>2, <1>3, SocketsCount DEF LoadSound

\* A socket is closed: it has been greeted, or is one less that was not.
LEMMA ShutUnheard ==
  ASSUME socket \in [Sockets -> SocketType], NEW c \in Clients, NEW s, socket' = Shut(s)
  PROVE  Unheard(c, socket') = Unheard(c, socket) \ {s}
<1>1. \A t \in Sockets : socket'[t] = IF t = s THEN NoSocket ELSE socket[t]
  BY ShutFacts
<1>2. c # "none"
  BY GatewaySets
<1>. QED BY <1>1, <1>2 DEF Unheard, NoSocket

LEMMA ScheduleLoad ==
  ASSUME NEW x \in ClientType, NEW r \in BOOLEAN
  PROVE  LET y == ScheduleReconnect(x, r)
         IN  y \in ClientType /\ y.ws = x.ws /\ y.hb = x.hb /\ Pending(y) <= Pending(x) + 1
<1>. DEFINE y == ScheduleReconnect(x, r)
<1>1. CASE x.on
  <2>. DEFINE f == [x.timers EXCEPT ![r] = @ + 1]
  <2>1. f \in Counters /\ Both(f) = Both(x.timers) + 1
    BY CountsUp, BothGoes DEF ClientType
  <2>2. y = [x EXCEPT !.timers = f]
    BY <1>1 DEF ScheduleReconnect, ClientType
  <2>. HIDE DEF f
  <2>3. /\ y \in ClientType /\ y.ws = x.ws /\ y.hb = x.hb
        /\ y.timers = f /\ y.invalid = x.invalid /\ y.fetch = x.fetch
    BY <2>1, <2>2 DEF ClientType
  <2>. HIDE DEF y
  <2>4. Pending(y) = Pending(x) + 1
    BY <2>1, <2>3, PendingIs
  <2>. QED BY <2>3, <2>4, PendingIs DEF y
<1>2. CASE ~x.on
  BY <1>2, PendingIs DEF ScheduleReconnect
<1>. QED BY <1>1, <1>2

\* A client that connects again is charged one timer.
LEMMA ReconnectsLoad ==
  ASSUME GatewayInv, LoadInv, NEW c \in Clients, NEW x \in ClientType, NEW r \in BOOLEAN,
         x.ws = client[c].ws, LoadSound(c, x, socket),
         Pending(x) + 1 + Cardinality(Unheard(c, socket)) <= MaxTimers + Cardinality(Sockets),
         Reconnects(c, x, r)
  PROVE  LoadInv'
<1>1. socket \in [Sockets -> SocketType] /\ ClientSound(c, client[c], socket)
  BY DEF GatewayInv
<1>2. CASE ~x.on
  BY <1>1, <1>2, LoadKept DEF Reconnects
<1>3. CASE x.on
  <2>. DEFINE z == [x EXCEPT !.hb = "off", !.up = FALSE, !.ws = "none"]
              y == ScheduleReconnect(z, r)
  <2>1. /\ z \in ClientType /\ z.ws = "none" /\ z.hb = "off" /\ z.timers = x.timers
        /\ z.invalid = x.invalid /\ z.fetch = x.fetch
    BY GatewaySets DEF ClientType
  <2>2. Put(c, y) /\ socket' = Shut(x.ws)
    BY <1>3 DEF Reconnects
  <2>. HIDE DEF z
  <2>3. Pending(z) = Pending(x)
    BY <2>1, PendingIs
  <2>4. y \in ClientType /\ y.ws = "none" /\ y.hb = "off" /\ Pending(y) <= Pending(x) + 1
    BY <2>1, <2>3, ScheduleLoad
  <2>. HIDE DEF y
  <2>5. Unheard(c, socket') \subseteq Unheard(c, socket)
    BY <1>1, <2>2, ShutUnheard
  <2>6. LoadSound(c, y, socket')
    <3>1. PICK m \in Nat, n \in Nat :
            m = Cardinality(Unheard(c, socket)) /\ n = Cardinality(Unheard(c, socket'))
      BY UnheardIs
    <3>2. n <= m
      BY <2>5, <3>1, UnheardIs, SocketsCount
    <3>3. Pending(y) \in Nat /\ Pending(x) \in Nat /\ Beat(y) = 0
      BY <2>4, PendingIs DEF Beat
    <3>. QED BY <2>4, <3>1, <3>2, <3>3, SocketsCount DEF LoadSound
  <2>7. \A t \in Sockets : socket'[t] = IF t = x.ws THEN NoSocket ELSE socket[t]
    BY <1>1, <2>2, ShutFacts
  <2>8. \A t \in Sockets :
          \/ socket'[t] = socket[t]
          \/ socket[t].owner \in {c, "none"} /\ socket'[t].owner \in {c, "none"}
    BY <1>1, <2>7, GatewaySets DEF ClientSound, NoSocket
  <2>. QED BY <2>2, <2>6, <2>8, LoadKept
<1>. QED BY <1>2, <1>3

\* A socket that opens is one more that was not greeted.
LEMMA OpensLoad ==
  ASSUME GatewayInv, LoadInv, NEW c \in Clients, NEW x \in ClientType, NEW r,
         Pending(x) + Beat(x) + Cardinality(Unheard(c, socket)) < MaxTimers + Cardinality(Sockets),
         Opens(c, x, r)
  PROVE  LoadInv'
<1>1. PICK s \in Sockets :
        /\ socket[s] = NoSocket
        /\ socket' = [socket EXCEPT ![s] = [owner |-> c, resume |-> r, hello |-> FALSE,
                         awaited |-> TRUE, first |-> client[c].start = "fetch"]]
        /\ Put(c, [x EXCEPT !.ws = s])
  BY DEF Opens
<1>2. /\ socket'[s].owner = c /\ ~socket'[s].hello /\ socket[s].owner = "none" /\ c # "none"
      /\ \A t \in Sockets : t # s => socket'[t] = socket[t]
  BY <1>1, GatewaySets DEF GatewayInv, NoSocket
<1>. DEFINE y == [x EXCEPT !.ws = s]
<1>3. /\ y \in ClientType /\ y.ws = s /\ y.hb = x.hb /\ y.timers = x.timers
      /\ y.invalid = x.invalid /\ y.fetch = x.fetch
  BY DEF ClientType, SocketRefs
<1>4. Put(c, y)
  BY <1>1
<1>. HIDE DEF y
<1>5. Pending(y) = Pending(x) /\ Beat(y) = Beat(x)
  BY <1>3, PendingIs DEF Beat
<1>6. Unheard(c, socket') = Unheard(c, socket) \cup {s} /\ s \in Sockets \ Unheard(c, socket)
  BY <1>2 DEF Unheard
<1>7. Cardinality(Unheard(c, socket')) = Cardinality(Unheard(c, socket)) + 1
  BY <1>6, UnheardIs, SocketsCount
<1>8. LoadSound(c, y, socket')
  <2>1. PICK m \in Nat, p \in Nat, k \in Nat :
          m = Cardinality(Unheard(c, socket)) /\ p = Pending(x) + Beat(x)
          /\ k = MaxTimers + Cardinality(Sockets)
    BY UnheardIs, PendingIs, SocketsCount
  <2>2. y.ws = s /\ ~socket'[s].hello
    BY <1>2, <1>3
  <2>. QED BY <1>5, <1>7, <2>1, <2>2 DEF LoadSound
<1>. QED BY <1>1, <1>2, <1>4, <1>8, LoadKept

\* A client of which only the counts change, to no more.
LEMMA SameSockets ==
  ASSUME GatewayInv, LoadInv, NEW c \in Clients, NEW y \in ClientType, Put(c, y), socket' = socket,
         Pending(y) + Beat(y) <= Pending(client[c]) + Beat(client[c]),
         y.ws \in {client[c].ws, "none"}, y.hb # "off" \/ y.hb = client[c].hb \/ y.ws = "none"
  PROVE  LoadInv'
<1>1. client[c] \in ClientType /\ LoadSound(c, client[c], socket)
  BY DEF GatewayInv, LoadInv
<1>2. LoadSound(c, y, socket')
  BY <1>1, NoMoreLoad DEF LoadSound
<1>. QED BY <1>2, LoadKept

\* A pending step of a client is taken off its count.
LEMMA TimerFiresLoad ==
  ASSUME GatewayInv, LoadInv, NEW c \in Clients, NEW r \in BOOLEAN, TimerFires(c, r)
  PROVE  LoadInv'
<1>1. client[c] \in ClientType /\ client[c].timers[r] > 0 /\ LoadSound(c, client[c], socket)
  BY DEF GatewayInv, LoadInv, TimerFires
<1>2. PICK b \in ClientType : b = client[c]
  BY <1>1
<1>. DEFINE f == [b.timers EXCEPT ![r] = @ - 1]
            x == [b EXCEPT !.timers = f]
<1>3. f \in Counters /\ Both(f) = Both(b.timers) - 1
  BY <1>1, <1>2, CountsDown, BothGoes DEF ClientType
<1>4. x = [client[c] EXCEPT !.timers[r] = @ - 1]
  BY <1>2 DEF ClientType
<1>. HIDE DEF f
<1>5. /\ x \in ClientType /\ x.ws = b.ws /\ x.hb = b.hb /\ x.timers = f
      /\ x.invalid = b.invalid /\ x.fetch = b.fetch
  BY <1>3 DEF ClientType
<1>. HIDE DEF x
<1>6. Pending(x) = Pending(b) - 1 /\ Beat(x) = Beat(b)
  BY <1>3, <1>5, PendingIs DEF Beat
<1>7. CASE Put(c, x) /\ UNCHANGED socket
  BY <1>2, <1>5, <1>6, <1>7, SameSockets, PendingIs
<1>8. CASE Opens(c, x, r)
  BY <1>1, <1>2, <1>5, <1>6, <1>8, OpensLoad, PendingIs, UnheardIs, SocketsCount DEF LoadSound
<1>9. CASE Put(c, [x EXCEPT !.fetch[r] = @ + 1]) /\ UNCHANGED socket
  <2>. DEFINE g == [x.fetch EXCEPT ![r] = @ + 1]
              y == [x EXCEPT !.fetch = g]
  <2>1. g \in Counters /\ Both(g) = Both(x.fetch) + 1
    BY <1>5, CountsUp, BothGoes DEF ClientType
  <2>2. y = [x EXCEPT !.fetch[r] = @ + 1]
    BY <1>5 DEF ClientType
  <2>. HIDE DEF g
  <2>3. /\ y \in ClientType /\ y.ws = x.ws /\ y.hb = x.hb /\ y.timers = x.timers
        /\ y.invalid = x.invalid /\ y.fetch = g
    BY <1>5, <2>1 DEF ClientType
  <2>. HIDE DEF y
  <2>4. Pending(y) = Pending(b) /\ Beat(y) = Beat(b)
    BY <1>5, <1>6, <2>1, <2>3, PendingIs DEF Beat
  <2>5. Put(c, y)
    BY <1>9, <2>2
  <2>. QED BY <1>2, <1>5, <1>9, <2>3, <2>4, <2>5, SameSockets, PendingIs
<1>. QED BY <1>4, <1>7, <1>8, <1>9 DEF TimerFires

LEMMA FetchEndsLoad ==
  ASSUME GatewayInv, LoadInv, NEW c \in Clients, NEW r \in BOOLEAN, FetchEnds(c, r)
  PROVE  LoadInv'
<1>1. client[c] \in ClientType /\ client[c].fetch[r] > 0 /\ LoadSound(c, client[c], socket)
  BY DEF GatewayInv, LoadInv, FetchEnds
<1>2. PICK b \in ClientType : b = client[c]
  BY <1>1
<1>. DEFINE f == [b.fetch EXCEPT ![r] = @ - 1]
            x == [b EXCEPT !.fetch = f]
<1>3. f \in Counters /\ Both(f) = Both(b.fetch) - 1
  BY <1>1, <1>2, CountsDown, BothGoes DEF ClientType
<1>4. x = [client[c] EXCEPT !.fetch[r] = @ - 1]
  BY <1>2 DEF ClientType
<1>. HIDE DEF f
<1>5. /\ x \in ClientType /\ x.ws = b.ws /\ x.hb = b.hb /\ x.timers = b.timers
      /\ x.invalid = b.invalid /\ x.fetch = f
  BY <1>3 DEF ClientType
<1>. HIDE DEF x
<1>6. Pending(x) = Pending(b) - 1 /\ Beat(x) = Beat(b)
  BY <1>3, <1>5, PendingIs DEF Beat
<1>7. CASE Opens(c, x, r)
  BY <1>1, <1>2, <1>5, <1>6, <1>7, OpensLoad, PendingIs, UnheardIs, SocketsCount DEF LoadSound
<1>8. CASE Put(c, ScheduleReconnect(x, r)) /\ UNCHANGED socket
  <2>. DEFINE y == ScheduleReconnect(x, r)
  <2>1. y \in ClientType /\ y.ws = x.ws /\ y.hb = x.hb /\ Pending(y) <= Pending(x) + 1
    BY <1>5, ScheduleLoad
  <2>2. Put(c, y)
    BY <1>8
  <2>. HIDE DEF y
  <2>3. Pending(y) + Beat(y) <= Pending(b) + Beat(b)
    BY <1>5, <1>6, <2>1, PendingIs DEF Beat
  <2>. QED BY <1>2, <1>5, <1>8, <2>1, <2>2, <2>3, SameSockets
<1>. QED BY <1>4, <1>7, <1>8 DEF FetchEnds

\* A client whose start is not over has nothing under way.
LEMMA QuietLoad ==
  ASSUME NEW c, NEW b \in ClientType, NEW so, AtRest(c, b, so)
  PROVE  Pending(b) = 0 /\ Beat(b) = 0 /\ Unheard(c, so) = {} /\ Cardinality(Unheard(c, so)) = 0
<1>1. \A f : (\A r \in BOOLEAN : f[r] = 0) => Both(f) = 0
  <2>. SUFFICES ASSUME NEW f, \A r \in BOOLEAN : f[r] = 0 PROVE Both(f) = 0
    BY Zenon
  <2>1. PICK yes \in BOOLEAN, no \in BOOLEAN : yes = TRUE /\ no = FALSE
    BY Zenon
  <2>2. Both(f) = f[yes] + f[no] /\ f[yes] = 0 /\ f[no] = 0
    BY <2>1, BothIs
  <2>3. 0 + 0 = 0
    OBVIOUS
  <2>. QED BY Zenon, <2>2, <2>3
<1>2. Both(b.timers) = 0 /\ Both(b.invalid) = 0 /\ Both(b.fetch) = 0
  BY Zenon, <1>1 DEF AtRest
<1>3. Unheard(c, so) = {}
  BY DEF AtRest, Unheard
<1>4. b.hb = "off"
  BY DEF AtRest
<1>. QED BY <1>2, <1>3, <1>4, PendingIs, FS_EmptySet DEF Beat

LEMMA StartFetchEndsLoad ==
  ASSUME GatewayInv, LoadInv, NEW c \in Clients, StartFetchEnds(c)
  PROVE  LoadInv'
<1>1. client[c] \in ClientType /\ AtRest(c, client[c], socket)
  BY DEF GatewayInv, StartFetchEnds, ClientSound
<1>2. PICK b \in ClientType : b = client[c] /\ Pending(b) = 0 /\ Beat(b) = 0
                              /\ Cardinality(Unheard(c, socket)) = 0
  BY <1>1, QuietLoad
<1>. DEFINE x == [b EXCEPT !.start = "socket"]
            z == [x EXCEPT !.start = "done"]
<1>3. /\ x \in ClientType /\ z \in ClientType /\ x.ws = b.ws /\ x.hb = b.hb
      /\ x.timers = b.timers /\ x.invalid = b.invalid /\ x.fetch = b.fetch
      /\ z.timers = b.timers /\ z.invalid = b.invalid /\ z.fetch = b.fetch
  BY GatewaySets DEF ClientType
<1>4. Opens(c, x, FALSE) \/ (Put(c, StopClient(z)) /\ UNCHANGED socket)
  BY <1>2 DEF StartFetchEnds
<1>. HIDE DEF x, z
<1>5. Pending(x) = 0 /\ Beat(x) = 0 /\ Pending(z) = 0
  BY <1>2, <1>3, PendingIs DEF Beat
<1>6. CASE Opens(c, x, FALSE)
  <2>1. Pending(x) + Beat(x) + Cardinality(Unheard(c, socket)) < MaxTimers + Cardinality(Sockets)
    BY <1>2, <1>5, SocketsCount
  <2>. QED BY <1>3, <1>6, <2>1, OpensLoad
<1>7. CASE Put(c, StopClient(z)) /\ UNCHANGED socket
  <2>. DEFINE y == StopClient(z)
  <2>1. /\ y \in ClientType /\ y.ws = "none" /\ y.hb = "off"
        /\ y.timers = z.timers /\ y.invalid = z.invalid /\ y.fetch = z.fetch
    BY <1>3, StopFacts
  <2>2. Put(c, y)
    BY <1>7
  <2>. HIDE DEF y
  <2>3. Pending(y) = 0 /\ Beat(y) = 0
    BY <1>3, <1>5, <2>1, PendingIs DEF Beat
  <2>. QED BY <1>2, <1>7, <2>1, <2>2, <2>3, SameSockets
<1>. QED BY <1>4, <1>6, <1>7

LEMMA HelloLoad ==
  ASSUME GatewayInv, LoadInv, NEW c \in Clients, NEW s \in Sockets, Hello(c, s)
  PROVE  LoadInv'
<1>1. /\ client[c] \in ClientType /\ LoadSound(c, client[c], socket)
      /\ socket \in [Sockets -> SocketType] /\ socket[s].owner = c /\ ~socket[s].hello
  BY DEF GatewayInv, LoadInv, Hello, FrameOn
<1>2. PICK b \in ClientType : b = client[c]
  BY <1>1
<1>. DEFINE x == [b EXCEPT !.hb = "acked"]
<1>3. /\ x \in ClientType /\ x.hb = "acked"
      /\ x.timers = b.timers /\ x.invalid = b.invalid /\ x.fetch = b.fetch
  BY GatewaySets DEF ClientType
<1>4. Put(c, x) /\ socket' = [socket EXCEPT ![s].hello = TRUE]
  BY <1>2 DEF Hello
<1>. HIDE DEF x
<1>5. /\ socket'[s].owner = c /\ socket'[s].hello
      /\ \A t \in Sockets : t # s => socket'[t] = socket[t]
  BY <1>1, <1>4 DEF SocketType
<1>6. Unheard(c, socket') = Unheard(c, socket) \ {s} /\ s \in Unheard(c, socket)
  BY <1>1, <1>5 DEF Unheard
<1>7. Cardinality(Unheard(c, socket')) = Cardinality(Unheard(c, socket)) - 1
  BY <1>6, UnheardIs, SocketsCount
<1>8. Pending(x) = Pending(b) /\ Beat(x) = 1 /\ Pending(b) \in Nat /\ Beat(b) \in {0, 1}
  BY <1>3, PendingIs DEF Beat
<1>9. LoadSound(c, x, socket')
  BY <1>1, <1>2, <1>3, <1>7, <1>8, UnheardIs, SocketsCount DEF LoadSound
<1>. QED BY <1>1, <1>4, <1>5, <1>9, LoadKept

LEMMA ReadyLoad ==
  ASSUME GatewayInv, LoadInv, NEW c \in Clients, NEW s \in Sockets, Ready(c, s)
  PROVE  LoadInv'
<1>1. /\ client[c] \in ClientType /\ LoadSound(c, client[c], socket)
      /\ socket \in [Sockets -> SocketType] /\ client \in [Clients -> ClientType]
      /\ socket[s].owner = c
  BY DEF GatewayInv, LoadInv, Ready, FrameOn
<1>2. PICK b \in ClientType : b = client[c]
  BY <1>1
<1>0. PICK up, session, start : Put(c, [b EXCEPT !.up = up, !.session = session, !.start = start])
  BY <1>2 DEF Ready
<1>. DEFINE x == [b EXCEPT !.up = up, !.session = session, !.start = start]
<1>3. /\ x.ws = b.ws /\ x.hb = b.hb
      /\ x.timers = b.timers /\ x.invalid = b.invalid /\ x.fetch = b.fetch
  BY DEF ClientType
<1>4. Put(c, x) /\ socket' = [socket EXCEPT ![s].awaited = FALSE]
  BY <1>0 DEF Ready
<1>. HIDE DEF x
<1>5. \A t \in Sockets : /\ socket'[t].owner = socket[t].owner /\ socket'[t].hello = socket[t].hello
                         /\ t # s => socket'[t] = socket[t]
  BY <1>1, <1>4 DEF SocketType
<1>6. Unheard(c, socket') = Unheard(c, socket)
  BY <1>5 DEF Unheard
<1>7. Pending(x) = Pending(b) /\ Beat(x) = Beat(b)
  BY <1>3 DEF Pending, Beat
<1>8. b.ws # "none" => socket'[b.ws].hello = socket[b.ws].hello
  BY <1>5 DEF ClientType, SocketRefs
<1>9. LoadSound(c, x, socket')
  BY <1>1, <1>2, <1>3, <1>6, <1>7, <1>8 DEF LoadSound
<1>. QED BY <1>1, <1>4, <1>5, <1>9, LoadKept

LEMMA TellsReconnectLoad ==
  ASSUME GatewayInv, LoadInv, NEW c \in Clients, NEW s \in Sockets, TellsReconnect(c, s)
  PROVE  LoadInv'
<1>1. client[c] \in ClientType /\ LoadSound(c, client[c], socket) /\ Pending(client[c]) < MaxTimers
  BY DEF GatewayInv, LoadInv, TellsReconnect
<1>2. PICK yes \in BOOLEAN : yes = TRUE
  OBVIOUS
<1>3. Reconnects(c, client[c], yes)
  BY <1>2 DEF TellsReconnect
<1>4. Pending(client[c]) + 1 + Cardinality(Unheard(c, socket)) <= MaxTimers + Cardinality(Sockets)
  <2>1. Cardinality(Unheard(c, socket)) <= Cardinality(Sockets)
    BY UnheardIs, SocketsCount
  <2>. QED BY <1>1, <2>1, PendingIs, UnheardIs, SocketsCount
<1>. QED BY <1>1, <1>3, <1>4, ReconnectsLoad

LEMMA TellsInvalidLoad ==
  ASSUME GatewayInv, LoadInv, NEW c \in Clients, NEW s \in Sockets, TellsInvalid(c, s)
  PROVE  LoadInv'
<1>1. /\ client[c] \in ClientType /\ LoadSound(c, client[c], socket) /\ socket' = socket
      /\ Pending(client[c]) < MaxTimers /\ socket[s].hello
  BY DEF GatewayInv, LoadInv, TellsInvalid
<1>2. PICK b \in ClientType : b = client[c]
  BY <1>1
<1>3. PICK r \in BOOLEAN : Put(c, [client[c] EXCEPT !.invalid[r] = @ + 1])
  BY DEF TellsInvalid
<1>. DEFINE f == [b.invalid EXCEPT ![r] = @ + 1]
            x == [b EXCEPT !.invalid = f]
<1>4. f \in Counters /\ Both(f) = Both(b.invalid) + 1
  BY CountsUp, BothGoes DEF ClientType
<1>5. Put(c, x)
  BY <1>2, <1>3 DEF ClientType
<1>. HIDE DEF f
<1>6. /\ x \in ClientType /\ x.ws = b.ws /\ x.hb = b.hb
      /\ x.timers = b.timers /\ x.invalid = f /\ x.fetch = b.fetch
  BY <1>4 DEF ClientType
<1>. HIDE DEF x
<1>7. Pending(x) = Pending(b) + 1 /\ Beat(x) \in {0, 1} /\ Pending(b) \in Nat
  BY <1>4, <1>6, PendingIs
<1>8. Cardinality(Unheard(c, socket)) <= Cardinality(Sockets) - 1
  <2>1. Unheard(c, socket) \in SUBSET (Sockets \ {s}) /\ Sockets \ {s} \in SUBSET Sockets
    BY <1>1 DEF Unheard
  <2>2. Cardinality(Sockets \ {s}) = Cardinality(Sockets) - 1
    BY SocketsCount
  <2>. QED BY <2>1, <2>2, SocketsCount
<1>9. LoadSound(c, x, socket')
  <2>1. Pending(x) + Beat(x) + Cardinality(Unheard(c, socket)) <= MaxTimers + Cardinality(Sockets)
    BY <1>1, <1>2, <1>7, <1>8, UnheardIs, SocketsCount
  <2>. QED BY <1>1, <1>2, <1>6, <2>1 DEF LoadSound
<1>. QED BY <1>1, <1>5, <1>9, LoadKept

LEMMA InvalidFiresLoad ==
  ASSUME GatewayInv, LoadInv, NEW c \in Clients, NEW r \in BOOLEAN, InvalidFires(c, r)
  PROVE  LoadInv'
<1>1. client[c] \in ClientType /\ client[c].invalid[r] > 0 /\ LoadSound(c, client[c], socket)
  BY DEF GatewayInv, LoadInv, InvalidFires
<1>2. PICK b \in ClientType : b = client[c]
  BY <1>1
<1>. DEFINE f == [b.invalid EXCEPT ![r] = @ - 1]
            x == [b EXCEPT !.invalid = f]
<1>3. f \in Counters /\ Both(f) = Both(b.invalid) - 1
  BY <1>1, <1>2, CountsDown, BothGoes DEF ClientType
<1>4. Reconnects(c, x, r)
  BY <1>2 DEF InvalidFires, ClientType
<1>. HIDE DEF f
<1>5. /\ x \in ClientType /\ x.ws = b.ws /\ x.hb = b.hb
      /\ x.timers = b.timers /\ x.invalid = f /\ x.fetch = b.fetch
  BY <1>3 DEF ClientType
<1>. HIDE DEF x
<1>6. Pending(x) = Pending(b) - 1 /\ Beat(x) = Beat(b) /\ Pending(b) \in Nat /\ Beat(b) \in {0, 1}
  BY <1>3, <1>5, PendingIs DEF Beat
<1>7. LoadSound(c, x, socket)
      /\ Pending(x) + 1 + Cardinality(Unheard(c, socket)) <= MaxTimers + Cardinality(Sockets)
  BY <1>1, <1>2, <1>5, <1>6, UnheardIs, SocketsCount DEF LoadSound
<1>. QED BY <1>2, <1>4, <1>5, <1>7, ReconnectsLoad

LEMMA HeartbeatLoad ==
  ASSUME GatewayInv, LoadInv, NEW c \in Clients, Heartbeat(c)
  PROVE  LoadInv'
<1>1. client[c] \in ClientType /\ LoadSound(c, client[c], socket) /\ client[c].hb # "off"
  BY DEF GatewayInv, LoadInv, Heartbeat
<1>2. PICK b \in ClientType : b = client[c]
  BY <1>1
<1>3. ASSUME NEW hb \in Beats \ {"off"}, Put(c, [client[c] EXCEPT !.hb = hb]), UNCHANGED socket
      PROVE  LoadInv'
  <2>. DEFINE x == [b EXCEPT !.hb = hb]
  <2>1. /\ x \in ClientType /\ x.ws = b.ws /\ x.hb = hb
        /\ x.timers = b.timers /\ x.invalid = b.invalid /\ x.fetch = b.fetch
    BY DEF ClientType
  <2>2. Put(c, x)
    BY <1>2, <1>3
  <2>. HIDE DEF x
  <2>3. Pending(x) = Pending(b) /\ Beat(x) = 1 /\ Beat(b) = 1 /\ Pending(b) \in Nat
    BY <1>1, <1>2, <2>1, PendingIs DEF Beat
  <2>. QED BY <1>2, <1>3, <2>1, <2>2, <2>3, SameSockets
<1>4. CASE Reconnects(c, client[c], TRUE)
  <2>1. PICK yes \in BOOLEAN : yes = TRUE
    OBVIOUS
  <2>2. Reconnects(c, client[c], yes)
    BY <1>4, <2>1
  <2>3. Pending(client[c]) + 1 + Cardinality(Unheard(c, socket)) <= MaxTimers + Cardinality(Sockets)
    BY <1>1 DEF LoadSound, Beat
  <2>. QED BY <1>1, <2>2, <2>3, ReconnectsLoad
<1>5. "acked" \in Beats \ {"off"} /\ "sent" \in Beats \ {"off"}
  BY DEF Beats
<1>6. CASE Put(c, [client[c] EXCEPT !.hb = "sent"]) /\ UNCHANGED socket
  BY <1>3, <1>5, <1>6
<1>7. CASE Put(c, [client[c] EXCEPT !.hb = "acked"]) /\ UNCHANGED socket
  BY <1>3, <1>5, <1>7
<1>. QED BY <1>4, <1>6, <1>7 DEF Heartbeat

LEMMA ClosesLoad ==
  ASSUME GatewayInv, LoadInv, NEW c \in Clients, NEW s \in Sockets, Closes(c, s)
  PROVE  LoadInv'
<1>1. /\ client[c] \in ClientType /\ socket[s].owner = c /\ LoadSound(c, client[c], socket)
      /\ socket \in [Sockets -> SocketType] /\ client \in [Clients -> ClientType]
      /\ socket' = Shut(s)
  BY DEF GatewayInv, LoadInv, Closes, FrameOn
<1>2. PICK b \in ClientType : b = client[c]
  BY <1>1
<1>3. /\ \A t \in Sockets : socket'[t] = IF t = s THEN NoSocket ELSE socket[t]
      /\ \A t \in Sockets : \/ socket'[t] = socket[t]
                            \/ socket[t].owner \in {c, "none"} /\ socket'[t].owner \in {c, "none"}
  BY <1>1, ShutFacts DEF NoSocket
<1>4. Unheard(c, socket') = Unheard(c, socket) \ {s}
  BY <1>1, ShutUnheard
<1>5. CASE client[c].ws # s
  <2>1. Put(c, b)
    BY <1>1, <1>2, <1>5 DEF Closes, Put
  <2>2. b.ws # "none" => socket'[b.ws] = socket[b.ws]
    BY <1>2, <1>3, <1>5 DEF ClientType, SocketRefs
  <2>3. Unheard(c, socket') \subseteq Unheard(c, socket) /\ Pending(b) + Beat(b) <= Pending(b) + Beat(b)
    BY <1>4, PendingIs
  <2>4. LoadSound(c, b, socket')
    <3>1. b.ws # "none" /\ socket'[b.ws].hello => b.hb # "off"
      BY <1>1, <1>2, <2>2 DEF LoadSound
    <3>. QED BY <1>1, <1>2, <2>3, <3>1, NoMoreLoad
  <2>. QED BY <1>3, <2>1, <2>4, LoadKept
<1>6. CASE client[c].ws = s
  \* The socket was greeted, and beats, or not: one of the two is over.
  <2>1. Pending(b) + 1 + Cardinality(Unheard(c, socket')) <= MaxTimers + Cardinality(Sockets)
    <3>0. /\ Pending(b) + Beat(b) + Cardinality(Unheard(c, socket)) <= MaxTimers + Cardinality(Sockets)
          /\ Pending(b) \in Nat /\ Beat(b) \in {0, 1} /\ Cardinality(Unheard(c, socket)) \in Nat
      BY <1>1, <1>2, PendingIs, UnheardIs DEF LoadSound
    <3>1. CASE socket[s].hello
      <4>1. Beat(b) = 1
        BY <1>1, <1>2, <1>6, <3>1, GatewaySets DEF LoadSound, Beat
      <4>2. Unheard(c, socket') = Unheard(c, socket)
        BY <1>4, <3>1 DEF Unheard
      <4>. QED BY <3>0, <4>1, <4>2
    <3>2. CASE ~socket[s].hello
      <4>1. s \in Unheard(c, socket)
        BY <1>1, <3>2 DEF Unheard
      <4>2. Cardinality(Unheard(c, socket')) = Cardinality(Unheard(c, socket)) - 1
        BY <1>4, <4>1, UnheardIs, SocketsCount
      <4>. QED BY <3>0, <4>2, SocketsCount
    <3>. QED BY <3>1, <3>2
  <2>2. ASSUME NEW y, Put(c, y), y.ws = "none", y.hb = "off", Pending(y) \in Nat,
               Pending(y) <= Pending(b) + 1
        PROVE  LoadInv'
    <3>1. Beat(y) = 0
      BY <2>2 DEF Beat
    <3>2. LoadSound(c, y, socket')
      BY <2>1, <2>2, <3>1, PendingIs, UnheardIs, SocketsCount DEF LoadSound
    <3>. QED BY <1>3, <2>2, <3>2, LoadKept
  <2>. DEFINE x == [b EXCEPT !.hb = "off", !.up = FALSE, !.ws = "none"]
  <2>3. /\ x \in ClientType /\ x.ws = "none" /\ x.hb = "off"
        /\ x.timers = b.timers /\ x.invalid = b.invalid /\ x.fetch = b.fetch
    BY GatewaySets DEF ClientType
  <2>4. \/ Put(c, [x EXCEPT !.on = FALSE, !.start = IF socket[s].first THEN "done" ELSE @])
        \/ Put(c, StopClient([x EXCEPT !.start = "done"]))
        \/ \E r \in BOOLEAN : Put(c, ScheduleReconnect(x, r))
    BY <1>2, <1>6 DEF Closes
  <2>. HIDE DEF x
  <2>5. Pending(x) = Pending(b) /\ Pending(b) \in Nat
    BY <2>3, PendingIs
  <2>6. ASSUME NEW start, Put(c, [x EXCEPT !.on = FALSE, !.start = start])
        PROVE  LoadInv'
    <3>. DEFINE y == [x EXCEPT !.on = FALSE, !.start = start]
    <3>1. /\ y.ws = "none" /\ y.hb = "off"
          /\ y.timers = x.timers /\ y.invalid = x.invalid /\ y.fetch = x.fetch
      BY <2>3 DEF ClientType
    <3>2. Put(c, y)
      BY <2>6
    <3>. HIDE DEF y
    <3>3. Pending(y) = Pending(x)
      BY <3>1 DEF Pending
    <3>. QED BY <2>2, <2>5, <3>1, <3>2, <3>3
  <2>7. CASE Put(c, StopClient([x EXCEPT !.start = "done"]))
    <3>. DEFINE z == [x EXCEPT !.start = "done"]
                y == StopClient(z)
    <3>1. z \in ClientType /\ z.timers = x.timers /\ z.invalid = x.invalid /\ z.fetch = x.fetch
      BY <2>3, GatewaySets DEF ClientType
    <3>. HIDE DEF z
    <3>2. /\ y.ws = "none" /\ y.hb = "off"
          /\ y.timers = x.timers /\ y.invalid = x.invalid /\ y.fetch = x.fetch
      BY <3>1, StopFacts
    <3>3. Put(c, y)
      BY <2>7 DEF z
    <3>. HIDE DEF y
    <3>4. Pending(y) = Pending(x)
      BY <3>2 DEF Pending
    <3>. QED BY <2>2, <2>5, <3>2, <3>3, <3>4
  <2>8. ASSUME NEW r \in BOOLEAN, Put(c, ScheduleReconnect(x, r))
        PROVE  LoadInv'
    <3>. DEFINE y == ScheduleReconnect(x, r)
    <3>1. y \in ClientType /\ y.ws = x.ws /\ y.hb = x.hb /\ Pending(y) <= Pending(x) + 1
      BY <2>3, ScheduleLoad
    <3>2. Put(c, y)
      BY <2>8
    <3>. HIDE DEF y
    <3>. QED BY <2>2, <2>3, <2>5, <3>1, <3>2, PendingIs
  <2>. QED BY <2>4, <2>6, <2>7, <2>8
<1>. QED BY <1>5, <1>6

LEMMA MenuStartsLoad ==
  ASSUME GatewayInv, LoadInv, NEW c \in Clients, MenuStarts(c)
  PROVE  LoadInv'
<1>1. client[c] = NoClient /\ socket' = socket /\ NoClient \in ClientType
  BY GatewaySets DEF MenuStarts
<1>. DEFINE x == [NoClient EXCEPT !.on = TRUE, !.start = "fetch"]
<1>2. x \in ClientType
  BY GatewaySets DEF ClientType
<1>3. /\ x.ws = NoClient.ws /\ x.hb = NoClient.hb
      /\ x.timers = NoClient.timers /\ x.invalid = NoClient.invalid /\ x.fetch = NoClient.fetch
  BY DEF NoClient
<1>4. Put(c, x)
  BY DEF MenuStarts
<1>. HIDE DEF x
<1>5. Pending(x) = Pending(NoClient) /\ Beat(x) = Beat(NoClient)
  BY <1>3 DEF Pending, Beat
<1>6. Pending(x) + Beat(x) <= Pending(client[c]) + Beat(client[c])
  BY <1>1, <1>5, PendingIs
<1>. QED BY <1>1, <1>2, <1>3, <1>4, <1>6, SameSockets

LEMMA BotStopsLoad ==
  ASSUME GatewayInv, LoadInv, BotStops
  PROVE  LoadInv'
<1>1. CASE repl.bot = "none"
  BY <1>1 DEF LoadInv, BotStops
<1>2. CASE repl.bot # "none"
  <2>1. PICK c \in Clients : c = repl.bot
    BY <1>2 DEF GatewayInv, OwnerRefs, ReplType
  <2>2. /\ client[c] \in ClientType /\ ClientSound(c, client[c], socket)
        /\ LoadSound(c, client[c], socket) /\ socket \in [Sockets -> SocketType]
    BY DEF GatewayInv, LoadInv
  <2>3. PICK b \in ClientType : b = client[c]
    BY <2>2
  <2>. DEFINE y == StopClient(b)
  <2>4. /\ y \in ClientType /\ y.ws = "none" /\ y.hb = "off"
        /\ y.timers = b.timers /\ y.invalid = b.invalid /\ y.fetch = b.fetch
    BY StopFacts
  <2>5. Put(c, y) /\ socket' = Shut(b.ws)
    BY <1>2, <2>1, <2>3 DEF BotStops
  <2>. HIDE DEF y
  <2>6. Pending(y) + Beat(y) <= Pending(b) + Beat(b)
    BY <2>4, PendingIs DEF Beat
  <2>7. Unheard(c, socket') \subseteq Unheard(c, socket)
    BY <2>2, <2>5, ShutUnheard
  <2>8. LoadSound(c, y, socket')
    BY <2>2, <2>3, <2>4, <2>6, <2>7, NoMoreLoad
  <2>9. \A t \in Sockets : socket'[t] = IF t = b.ws THEN NoSocket ELSE socket[t]
    BY <2>2, <2>5, ShutFacts
  <2>10. \A t \in Sockets :
          \/ socket'[t] = socket[t]
          \/ socket[t].owner \in {c, "none"} /\ socket'[t].owner \in {c, "none"}
    BY <2>2, <2>3, <2>9, GatewaySets DEF ClientSound, NoSocket
  <2>. QED BY <2>5, <2>8, <2>10, LoadKept
<1>. QED BY <1>1, <1>2

LEMMA LoadNextInv ==
  ASSUME GatewayInv, LoadInv, [GatewayNext]_gatewayVars
  PROVE  LoadInv'
<1>1. CASE UNCHANGED gatewayVars
  BY <1>1 DEF gatewayVars, LoadInv
<1>2. CASE MenuStops \/ Quit
  BY <1>2, BotStopsLoad DEF MenuStops, Quit
<1>3. ASSUME NEW c \in Clients,
             \/ \E r \in BOOLEAN : TimerFires(c, r) \/ FetchEnds(c, r) \/ InvalidFires(c, r)
             \/ StartFetchEnds(c) \/ Heartbeat(c) \/ MenuStarts(c)
      PROVE  LoadInv'
  BY <1>3, TimerFiresLoad, FetchEndsLoad, InvalidFiresLoad, StartFetchEndsLoad, HeartbeatLoad,
     MenuStartsLoad
<1>4. ASSUME NEW c \in Clients, NEW s \in Sockets,
             \/ Hello(c, s) \/ Ready(c, s) \/ TellsReconnect(c, s) \/ TellsInvalid(c, s)
             \/ Closes(c, s)
      PROVE  LoadInv'
  BY <1>4, HelloLoad, ReadyLoad, TellsReconnectLoad, TellsInvalidLoad, ClosesLoad
<1>. QED BY <1>1, <1>2, <1>3, <1>4 DEF GatewayNext

\* Reconnects do not pile up: the timers and fetches of a client stay within those
\* the server asked for and one for each socket, whatever frames, lost heartbeats
\* and failed attempts come in whichever order (scheduleReconnect, which adds a
\* timer without looking for another).
THEOREM GatewayTypesHold == GatewaySpec => []GatewayTypeOK
<1>1. GatewayInit => LoadInv
  <2>. SUFFICES ASSUME GatewayInit, NEW c \in Clients PROVE LoadSound(c, client[c], socket)
    BY DEF LoadInv
  <2>1. client[c] = NoClient /\ NoClient \in ClientType
        /\ \A s \in Sockets : socket[s].owner # c
    BY GatewaySets DEF GatewayInit, NoSocket
  <2>2. AtRest(c, NoClient, socket)
    BY <2>1 DEF AtRest, NoClient, Nothing
  <2>3. NoClient.ws = "none"
    BY DEF NoClient
  <2>. QED BY <2>1, <2>2, <2>3, QuietLoad, SocketsCount DEF LoadSound
<1>2. GatewayInv /\ LoadInv => GatewayTypeOK
  <2>. SUFFICES ASSUME GatewayInv, LoadInv PROVE GatewayTypeOK
    OBVIOUS
  <2>1. ASSUME NEW c \in Clients
        PROVE  Pending(client[c]) <= MaxTimers + Cardinality(Sockets)
    <3>1. client[c] \in ClientType /\ LoadSound(c, client[c], socket)
      BY DEF GatewayInv, LoadInv
    <3>. QED BY <3>1, PendingIs, UnheardIs, SocketsCount DEF LoadSound
  <2>. QED BY <2>1 DEF GatewayInv, GatewayTypeOK, ClientType, SocketType, SocketRefs, OwnerRefs, Beats
<1>3. GatewayInv /\ LoadInv /\ [GatewayNext]_gatewayVars => LoadInv'
  BY LoadNextInv
<1>. QED BY <1>1, <1>2, <1>3, GatewayInvHolds, PTL DEF GatewaySpec
-----------------------------------------------------------------------------
(***************************************************************************)
(* The parts together (MCParts).  A step of a behaviour is one of a single *)
(* part, so that the others see it as a stutter: what the parts promise    *)
(* alone they promise together.                                            *)
(***************************************************************************)
PartSteps ==
  /\ [PrewarmNext]_prewarmVars /\ [SubNext]_subVars /\ [TreeNext]_treeVars
  /\ [ToolNext]_toolVars /\ [CheckNext]_checkVars /\ [GatewayNext]_gatewayVars
  /\ [LoopNext]_loopVars /\ [McpNext]_mcpVars /\ [TermNext]_termVars /\ [PermNext]_permVars

LEMMA PartsStepOnePart == [PartsNext]_partsVars => PartSteps
<1>. SUFFICES ASSUME [PartsNext]_partsVars PROVE PartSteps
  OBVIOUS
<1>1. CASE UNCHANGED partsVars
  BY <1>1 DEF partsVars, PartSteps
<1>2. CASE PartsNext
  BY <1>2 DEF PartsNext, PartSteps
<1>. QED BY <1>1, <1>2

\* Each part behaves as it does alone.
LEMMA PartsBehaveAlone ==
  PartsSpec =>
    /\ PrewarmInit /\ [][PrewarmNext]_prewarmVars
    /\ SubInit /\ [][SubNext]_subVars
    /\ ToolInit /\ [][ToolNext]_toolVars
    /\ PermInit /\ [][PermNext]_permVars
    /\ TreeSpec /\ CheckSpec /\ GatewaySpec /\ LoopSpec /\ McpSpec /\ TermSpec
<1>1. PartsInit => /\ PrewarmInit /\ SubInit /\ ToolInit /\ PermInit /\ TreeInit /\ CheckInit
                   /\ GatewayInit /\ LoopInit /\ McpInit /\ TermInit
  BY DEF PartsInit
<1>2. [PartsNext]_partsVars =>
        /\ [PrewarmNext]_prewarmVars /\ [SubNext]_subVars /\ [TreeNext]_treeVars
        /\ [ToolNext]_toolVars /\ [CheckNext]_checkVars /\ [GatewayNext]_gatewayVars
        /\ [LoopNext]_loopVars /\ [McpNext]_mcpVars /\ [TermNext]_termVars /\ [PermNext]_permVars
  BY PartsStepOnePart DEF PartSteps
<1>. QED
  BY <1>1, <1>2, PTL
  DEF PartsSpec, TreeSpec, CheckSpec, GatewaySpec, LoopSpec, McpSpec, TermSpec

\* The parts that a run asks fairness of keep their invariants without it.
LEMMA PartsKeepInvariants ==
  PartsSpec => [](SlotInv /\ SubInv /\ ToolInv /\ PoolInv /\ SizesInv /\ PermInv)
<1>1. SlotInv /\ [PrewarmNext]_prewarmVars => SlotInv'
  BY SlotInvStep
<1>2. SubInv /\ [SubNext]_subVars => SubInv'
  BY SubNextInv
<1>3. ToolInv /\ PoolInv /\ SizesInv /\ [ToolNext]_toolVars => ToolInv' /\ PoolInv' /\ SizesInv'
  BY ToolInvStep, PoolInvStep, SizesInvStep
<1>4. PermInv /\ [PermNext]_permVars => PermInv'
  BY PermStep
<1>. QED
  BY <1>1, <1>2, <1>3, <1>4, SlotInit, SubInitInv, ToolInvInit, PoolInvInit, SizesInvInit,
     PermInitOK, PartsBehaveAlone, PTL

\* The variables of every part keep their types whichever part takes its steps:
\* for any values of the constants.
THEOREM PartsTypesHold == PartsSpec => []PartsTypeOK
<1>1. PartsSpec => [](PrewarmTypeOK /\ SubTypeOK /\ ToolTypeOK /\ PermTypeOK)
  <2>1. SlotInv /\ SubInv /\ ToolInv /\ PoolInv /\ SizesInv /\ PermInv
          => PrewarmTypeOK /\ SubTypeOK /\ ToolTypeOK /\ PermTypeOK
    BY SlotInvTypes, SubInvTypes, ToolInvTypes, PermInvTypes
  <2>. QED BY <2>1, PartsKeepInvariants, PTL
<1>2. PartsSpec => [](TreeTypeOK /\ CheckTypeOK /\ GatewayTypeOK /\ LoopTypeOK /\ McpTypeOK
                      /\ TermTypeOK)
  BY PartsBehaveAlone, TreeTypesHold, CheckTyped, GatewayTypesHold, LoopTypesHold, McpTypesHold,
     TermTypesHold, PTL
<1>3. PrewarmTypeOK /\ SubTypeOK /\ ToolTypeOK /\ PermTypeOK
      /\ TreeTypeOK /\ CheckTypeOK /\ GatewayTypeOK /\ LoopTypeOK /\ McpTypeOK /\ TermTypeOK
        => PartsTypeOK
  BY DEF PartsTypeOK
<1>. QED BY <1>1, <1>2, <1>3, PTL

\* What each part promises, as the run of the parts checks it.
PartsPromises ==
  /\ SlotReadsWhatIsUsed /\ ResultTellsStatus /\ WorkIsKept /\ TotalIsKept
  /\ NeverDeaf /\ ToolsBecomeFresh /\ KeysAreHeard /\ EnteredIsKept

\* The safety of all parts in the behaviours of the composition: the state they
\* show and the steps they take.
THEOREM PartsAreSafe ==
  PartsSpec =>
    /\ []PartsPromises
    /\ OnlyReplacementsAreOvertaken /\ FollowedUntilCancelled /\ StoppedBatchRests
    /\ RestoreIsExactAndUndoable /\ SchedulesKeepTheirWord /\ OutputIsKept /\ RunsByWord
<1>1. PartsSpec => [](SlotReadsWhatIsUsed /\ ResultTellsStatus /\ TotalIsKept)
  <2>1. SlotInv /\ SubInv /\ ToolInv => SlotReadsWhatIsUsed /\ ResultTellsStatus /\ TotalIsKept
    BY SlotInvServes DEF SubInv, ToolInv
  <2>. QED BY <2>1, PartsKeepInvariants, PTL
<1>2. PartsSpec => [](WorkIsKept /\ NeverDeaf /\ ToolsBecomeFresh /\ KeysAreHeard /\ EnteredIsKept)
  BY PartsBehaveAlone, WorkIsNeverLost, NeverDeafHolds, ToolsStayFresh, SomebodyHears,
     EnteredTextsAreKept, PTL
<1>3. PartsSpec => OnlyReplacementsAreOvertaken
  <2>1. SlotInv /\ [PrewarmNext]_prewarmVars => [Overtakes]_prewarmVars
    BY OvertakesStep
  <2>2. [Overtakes]_prewarmVars <=>
          [\A c \in Calls' \ Calls : \A p \in PrewarmsOnWire' :
             WaitedFor(c) # 0 /\ p > WaitedFor(c)]_prewarmVars
    BY DEF Overtakes
  <2>. QED
    BY <2>1, <2>2, PartsBehaveAlone, PartsKeepInvariants, PTL DEF OnlyReplacementsAreOvertaken
<1>4. PartsSpec => FollowedUntilCancelled
  <2>1. SubInv /\ [SubNext]_subVars => [FollowStep]_subVars
    BY FollowLemma
  <2>. QED
    BY <2>1, PartsBehaveAlone, PartsKeepInvariants, PTL DEF FollowedUntilCancelled, FollowStep
<1>5. PartsSpec => StoppedBatchRests
  BY StartsUnstoppedStep, PartsBehaveAlone, PartsKeepInvariants, PTL
  DEF StoppedBatchRests, StartsUnstopped
<1>6. PartsSpec => RunsByWord
  BY RunsWithWordStep, PartsBehaveAlone, PartsKeepInvariants, PTL DEF RunsByWord, RunsWithWord
<1>7. PartsSpec => RestoreIsExactAndUndoable /\ SchedulesKeepTheirWord /\ OutputIsKept
  BY PartsBehaveAlone, RestoresAreUndoable, SchedulesAreKept, NoOutputIsLost, PTL
<1>8. SlotReadsWhatIsUsed /\ ResultTellsStatus /\ TotalIsKept
      /\ WorkIsKept /\ NeverDeaf /\ ToolsBecomeFresh /\ KeysAreHeard /\ EnteredIsKept
        => PartsPromises
  BY DEF PartsPromises
<1>. QED BY <1>1, <1>2, <1>3, <1>4, <1>5, <1>6, <1>7, <1>8, PTL
=============================================================================
