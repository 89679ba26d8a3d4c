----------------------------- MODULE SubAgents -----------------------------
(***************************************************************************)
(* One background sub-agent (src/src/agent/sub-agent.ts): its loop of LLM  *)
(* calls and tools, the mailbox of follow-ups of the parent (task_send),   *)
(* the task record of SubAgentManager, task_cancel and task_output.        *)
(*                                                                         *)
(* The loop goes from await to await in one step: what follows a reply, a  *)
(* failure or the end of a tool up to the next call is one action.  The    *)
(* promise of the run settles in a microtask of its own, so a step of the  *)
(* parent can come between the end of the loop and the record of it.       *)
(*                                                                         *)
(* Abstracted: the texts, prompts and models, permissions of the tools,    *)
(* usage records, the worktree (Worktrees) except that its finalize may    *)
(* throw when its record cannot be written.                                *)
(***************************************************************************)
EXTENDS Integers, Sequences, SequencesExt

CONSTANTS TurnCap,      \* MAX_SUB_ITERATIONS
          MailCap,      \* MAX_PENDING_FOLLOW_UPS
          CutCap,       \* MAX_CONTINUATION_ATTEMPTS
          MaxCalls,     \* bound: tool calls of a reply
          MaxMails      \* bound: follow-ups accepted

ASSUME SubAgentConstants ==
  /\ TurnCap \in Nat \ {0} /\ MailCap \in Nat \ {0} /\ MaxCalls \in Nat \ {0}
  /\ CutCap \in Nat /\ MaxMails \in Nat

VARIABLES
  agent,  \* the SubAgent: [pc, turn, limit, pending, read, aborted, calls, cuts, retried, out]
  task    \* its record: [listed, status, result, isolation, mails, settled, getter, got]

subVars == <<agent, task>>

NoAgent == [pc |-> "none", turn |-> 0, limit |-> 0, pending |-> <<>>, read |-> <<>>,
            aborted |-> FALSE, calls |-> 0, cuts |-> 0, retried |-> FALSE, out |-> "none"]
NoTask  == [listed |-> FALSE, status |-> "none", result |-> "none", isolation |-> "shared",
            mails |-> 0, settled |-> FALSE, getter |-> "no", got |-> "none"]

(***************************************************************************)
(* The loop of run().                                                      *)
(***************************************************************************)
Ends(x, out) == [x EXCEPT !.pc = "over", !.out = out, !.calls = 0]

\* The next iteration: the limit, the abort, the mailbox, the call.
NextTurn(x) ==
  IF x.turn >= x.limit THEN Ends(x, "limit")
  ELSE IF x.aborted THEN Ends([x EXCEPT !.turn = @ + 1], "cancelled")
  ELSE [x EXCEPT !.turn = @ + 1, !.read = @ \o x.pending, !.pending = <<>>,
                 !.pc = "call", !.calls = 0]

\* The call fails, or was cut: by a follow-up the loop goes on with it.
CallFails ==
  /\ agent.pc = "call"
  /\ agent' = IF agent.aborted THEN Ends(agent, "cancelled")
              ELSE IF agent.pending # <<>> THEN NextTurn(agent)
              ELSE Ends(agent, "error")
  /\ UNCHANGED task

\* A reply that came after a cancel or a follow-up is not acted upon.
ReplyIsLate ==
  /\ agent.pc = "call" /\ (agent.aborted \/ agent.pending # <<>>)
  /\ agent' = IF agent.aborted THEN Ends(agent, "cancelled") ELSE NextTurn(agent)
  /\ UNCHANGED task

InTime == agent.pc = "call" /\ ~agent.aborted /\ agent.pending = <<>>

ReplyCallsTools ==
  /\ InTime
  /\ \E n \in 1..MaxCalls : agent' = [agent EXCEPT !.pc = "tool", !.calls = n]
  /\ UNCHANGED task

\* An incomplete reply is continued, a file shown as text is asked for again.
ReplyIsSentBack ==
  /\ InTime
  /\ \/ agent.cuts < CutCap /\ agent' = NextTurn([agent EXCEPT !.cuts = @ + 1])
     \/ ~agent.retried /\ agent' = NextTurn([agent EXCEPT !.retried = TRUE])
  /\ UNCHANGED task

\* After that, file writes shown as JSON are executed for the model.
ReplyShowsWrites ==
  /\ InTime /\ agent.retried
  /\ \E n \in 1..MaxCalls : agent' = [agent EXCEPT !.pc = "write", !.calls = n]
  /\ UNCHANGED task

\* The final reply; an empty one is reported as the limit.
ReplyIsFinal ==
  /\ InTime
  /\ \E out \in {"answer", "limit"} : agent' = Ends(agent, out)
  /\ UNCHANGED task

\* A tool is never stopped; the rest of its reply is skipped when a follow-up
\* has come, and left when the task was cancelled.
ToolEnds ==
  /\ agent.pc = "tool"
  /\ agent' = IF agent.aborted THEN Ends(agent, "cancelled")
              ELSE IF agent.calls = 1 \/ agent.pending # <<>> THEN NextTurn(agent)
              ELSE [agent EXCEPT !.calls = @ - 1]
  /\ UNCHANGED task

\* The writes of a reply are executed to the last, whatever came meanwhile.
WriteEnds ==
  /\ agent.pc = "write"
  /\ agent' = IF agent.calls = 1 THEN NextTurn(agent) ELSE [agent EXCEPT !.calls = @ - 1]
  /\ UNCHANGED task

(***************************************************************************)
(* SubAgentManager.                                                        *)
(***************************************************************************)
\* launchBackground: the first call is sent before it returns.
Launch ==
  /\ task.status = "none"
  /\ \E turns \in 1..TurnCap, isolation \in {"shared", "worktree"} :
       /\ agent' = NextTurn([NoAgent EXCEPT !.limit = turns])
       /\ task' = [NoTask EXCEPT !.listed = TRUE, !.status = "running",
                                 !.isolation = isolation]

SettleOver(outcome, result) ==
  task' = [task EXCEPT !.settled = TRUE, !.status = outcome, !.result = result]

\* The end of the run is recorded unless the task was cancelled or collected;
\* a worktree whose end cannot be recorded makes it a failure.
Settle(outcome, result) ==
  task' = IF task.listed /\ task.status = "running"
          THEN [task EXCEPT !.settled = TRUE, !.status = outcome, !.result = result]
          ELSE [task EXCEPT !.settled = TRUE]

RunSettles ==
  /\ agent.pc = "over" /\ ~task.settled
  /\ \/ agent.out = "answer" /\ Settle("completed", "answer")
     \/ agent.out # "answer" /\ Settle("failed", agent.out)
     \/ task.isolation = "worktree" /\ Settle("failed", "error")
  /\ UNCHANGED agent

QueuedAtLimit(x, mail) == [x EXCEPT !.pending = Append(@, mail)]

\* queueFollowUp, accepting: at the last turn the limit is raised by one.
Queued(x, mail) ==
  [x EXCEPT !.pending = Append(@, mail), !.limit = IF x.turn >= @ THEN @ + 1 ELSE @]

\* task_send to a running task, refused by a full mailbox or at the last turn.
Send ==
  /\ task.listed /\ task.status = "running" /\ task.mails < MaxMails
  /\ Len(agent.pending) < MailCap
  /\ ~(agent.turn >= agent.limit /\ agent.limit >= TurnCap)
  /\ agent' = Queued(agent, task.mails + 1)
  /\ task' = [task EXCEPT !.mails = @ + 1]

\* task_cancel: the status and the result at once, the agent when it looks.
Cancel ==
  /\ task.listed /\ task.status = "running"
  /\ task' = [task EXCEPT !.status = "cancelled", !.result = "cancelled"]
  /\ agent' = [agent EXCEPT !.aborted = TRUE]

\* task_output: a result at hand is returned, but that of a worktree is
\* awaited; the record is removed with it.
GetResult ==
  /\ task.listed /\ task.getter = "no"
  /\ task' = IF task.isolation = "shared" /\ task.result # "none"
             THEN [task EXCEPT !.listed = FALSE, !.getter = "done", !.got = task.result]
             ELSE [task EXCEPT !.getter = "waits"]
  /\ UNCHANGED agent

GetterReturns ==
  /\ task.getter = "waits" /\ task.settled
  /\ task' = [task EXCEPT !.listed = FALSE, !.getter = "done", !.got = task.result]
  /\ UNCHANGED agent

SubInit == agent = NoAgent /\ task = NoTask

AgentSteps ==
  \/ CallFails \/ ReplyIsLate \/ ReplyCallsTools \/ ReplyIsSentBack
  \/ ReplyShowsWrites \/ ReplyIsFinal \/ ToolEnds \/ WriteEnds
  \/ RunSettles \/ GetterReturns

SubNext == AgentSteps \/ Launch \/ Send \/ Cancel \/ GetResult

\* A call and a tool end some time; nobody has to send, cancel or collect.
SubFairness == WF_subVars(AgentSteps)

SubSpec == SubInit /\ [][SubNext]_subVars /\ SubFairness

(***************************************************************************)
(* Properties.                                                             *)
(***************************************************************************)
SubTypeOK ==
  /\ agent.pc \in {"none", "call", "tool", "write", "over"}
  /\ agent.turn \in 0..TurnCap /\ agent.limit \in 0..TurnCap
  /\ Len(agent.pending) <= MailCap /\ agent.calls \in 0..MaxCalls
  /\ agent.cuts \in 0..CutCap
  /\ task.status \in {"none", "running", "completed", "failed", "cancelled"}
  /\ task.result \in {"none", "answer", "error", "limit", "cancelled"}

\* A follow-up that task_send accepted is read, in order and once, before the
\* run ends by itself: its result is that of a call that had all of them in
\* its prompt.  Only a cancel leaves them unread, and one that is accepted in
\* the microtask between the end of the loop and the record of it.  After
\* task_cancel no LLM call and no tool is begun (the comment of abort(),
\* sub-agent.ts), but for the writes a reply showed as text.
FollowedUntilCancelled ==
  [][/\ agent.pc # "over" /\ agent'.pc = "over" /\ agent'.out # "cancelled"
         => agent'.read = [i \in 1..task.mails |-> i]
     /\ agent.aborted =>
         /\ agent'.turn = agent.turn \/ agent'.pc = "over"
         /\ agent'.calls = agent.calls \/ agent'.pc = "over" \/ agent.pc = "write"]_subVars

\* Whoever asks for the result gets what the status says, and what was
\* cancelled stays cancelled although the run ends later with an answer.
ResultTellsStatus ==
  /\ task.status = "cancelled" => task.result = "cancelled"
  /\ task.status = "completed" => task.result = "answer" /\ agent.out = "answer"
  /\ task.status = "failed" => task.result \notin {"none", "answer", "cancelled"}
  /\ task.got # "none" => task.got = task.result /\ ~task.listed
=============================================================================
