--------------------------- MODULE ForegroundRun ---------------------------
(***************************************************************************)
(* One CLI run of AgentLoop (src/src/agent/agent-loop.ts) together with the *)
(* pause gate, the session file and the prompt loop of the REPL.           *)
(*                                                                         *)
(* 'pc' is the await at which run() is suspended; what the code does from  *)
(* one await to the next is one action, and key presses, the session file  *)
(* and the crash interleave at the awaits.  The reply of the model, the    *)
(* tools and the judges are nondeterministic.  A user message is a number  *)
(* (the n-th text the user typed); of the history only the user messages   *)
(* and the unanswered tool calls are kept, nothing else tells states apart.*)
(*                                                                         *)
(* Abstracted: remote runs (see Rooms; the queue keeps a prompt's run from *)
(* interleaving with one), prewarms and side calls (they end before the    *)
(* main call), the limit of 20 pending texts, harness notes, displays.     *)
(***************************************************************************)
EXTENDS Integers, Sequences, FiniteSets, SequencesExt, Counting

CONSTANTS Calls,      \* main LLM calls that may be unfinished at once
          MaxInputs,  \* bound: texts the user types
          MaxRuns,    \* bound: runs begun, resumes from the file included
          MaxPauses,  \* bound: /run pause
          MaxIoErrors \* bound: session saves that fail

ASSUME RunConstants ==
  /\ IsFiniteSet(Calls) /\ Calls # {}
  /\ {MaxInputs, MaxRuns, MaxPauses, MaxIoErrors} \subseteq Nat

VARIABLES state, source, inFlight, epoch, promise, made, req, cp  \* RunApiGate

VARIABLES
  pc,             \* where run() is suspended, "idle" when the REPL prompts
  aborted,        \* _aborted
  outcome,        \* runStats.outcome
  busy,           \* isProcessing
  retries,        \* connectionRetries
  mem,            \* session and history in memory
  disk,           \* the session file
  baseline,       \* durableResumeBaseline, NoSession = null
  steering,       \* pendingSteeringMessages
  pendingInputs,  \* the REPL's queue of texts for later turns
  prompt,         \* the text run() was called with and has not added yet
  n,              \* bounds: [typed, runs, pauses, ioErrors]
  h               \* history: [dropped, resumes, overtaken, reported, escaped]

gate    == <<state, source, inFlight, epoch, promise, made, req, cp>>
session == <<mem, disk, baseline>>
texts   == <<steering, pendingInputs, prompt>>
vars    == <<gate, pc, aborted, outcome, busy, retries, session, texts, n, h>>

Gate == INSTANCE RunApiGate WITH
          Requests <- Calls, Checkpoints <- {"loop"},
          MaxEpoch <- 2 * MaxRuns, MaxPromises <- MaxPauses

MaxRetries == 3  \* MAX_CONNECTION_RETRIES

NoCheckpoint == [id |-> 0, state |-> "none"]
EmptySession == [users |-> <<>>, open |-> {}, ckpt |-> NoCheckpoint]
NoSession    == [users |-> <<0>>, open |-> {}, ckpt |-> NoCheckpoint]

RunInit ==
  /\ Gate!GateInit
  /\ pc = "idle" /\ aborted = FALSE /\ outcome = "incomplete" /\ busy = FALSE
  /\ retries = 0
  /\ mem = EmptySession /\ disk = EmptySession /\ baseline = NoSession
  /\ steering = <<>> /\ pendingInputs = <<>> /\ prompt = 0
  /\ n = [typed |-> 0, runs |-> 0, pauses |-> 0, ioErrors |-> 0]
  /\ h = [dropped |-> {}, resumes |-> [k \in 1..MaxPauses |-> 0],
          overtaken |-> 0, reported |-> TRUE, escaped |-> FALSE]

-----------------------------------------------------------------------------
\* saveCurrentSession of the session s: ok, or it throws and the file is kept.
Save(s, ok) ==
  /\ ok \/ n.ioErrors < MaxIoErrors
  /\ disk' = IF ok THEN s ELSE disk

CountSave(counts, ok) == IF ok THEN counts ELSE [counts EXCEPT !.ioErrors = @ + 1]

\* recordSpanEnd and return, or an exception: the finally of run() comes next.
Stop(o) == pc' = "stop" /\ outcome' = o

\* applyPendingSteering: every waiting text becomes a user message.
ApplySteering ==
  /\ mem' = [mem EXCEPT !.users = @ \o steering]
  /\ steering' = <<>>

BeginRun ==
  /\ n.runs < MaxRuns
  /\ Gate!BeginRun("cli")
  /\ busy' = TRUE /\ aborted' = FALSE /\ outcome' = "incomplete" /\ retries' = 0

WithCkptState(s, st) == [s EXCEPT !.ckpt.state = st]

\* The call of the current run; the calls of aborted runs close later.
CurrentCall(m) == pc = "main" /\ m \in Gate!Open

-----------------------------------------------------------------------------
\* Enter at the prompt, or the next text of drainPendingInputs.
StartRun ==
  /\ pc = "idle"
  /\ IF pendingInputs = <<>>
     THEN /\ n.typed < MaxInputs
          /\ prompt' = n.typed + 1
          /\ n' = [n EXCEPT !.typed = @ + 1, !.runs = @ + 1]
          /\ UNCHANGED pendingInputs
     ELSE /\ prompt' = Head(pendingInputs)
          /\ pendingInputs' = Tail(pendingInputs)
          /\ n' = [n EXCEPT !.runs = @ + 1]
  /\ BeginRun
  /\ pc' = "starting"
  /\ h' = [h EXCEPT !.reported = FALSE, !.escaped = FALSE]
  /\ UNCHANGED <<session, steering>>

\* The user message enters the history, or checkUserInput refuses it.
AcceptPrompt ==
  /\ pc = "starting"
  /\ \/ /\ mem' = [mem EXCEPT !.users = Append(@, prompt)]
        /\ pc' = "top"
        /\ UNCHANGED <<outcome, h>>
     \/ /\ Stop("error")
        /\ h' = [h EXCEPT !.dropped = @ \cup {prompt}]
        /\ UNCHANGED mem
  /\ prompt' = 0
  /\ UNCHANGED <<gate, aborted, busy, retries, disk, baseline, steering, pendingInputs, n>>

\* The head of an iteration: the loop check, then the abort check.
StopAtTop ==
  /\ pc = "top"
  /\ \/ Stop("max_iterations")
     \/ aborted /\ Stop("aborted")
     \/ aborted /\ Stop("error")   \* circuit_break
  /\ UNCHANGED <<gate, aborted, busy, retries, session, texts, n, h>>

\* pauseAtBoundaryIfRequested, before an iteration and before every retry.
AtBoundary == pc = "retry" \/ (pc = "top" /\ ~aborted)

PassBoundary ==
  /\ AtBoundary
  /\ state # "pause_requested"
  /\ pc' = "reduce"
  /\ UNCHANGED <<gate, aborted, outcome, busy, retries, session, texts, n, h>>

\* Mutant: the waiting texts are applied after the save.
PauseSavesTooEarly ==
  /\ AtBoundary
  /\ state = "pause_requested" /\ inFlight = 0
  /\ LET ckpt == [id |-> n.pauses, state |-> "durable_paused"]
     IN /\ disk' = [mem EXCEPT !.ckpt = ckpt]
        /\ mem' = [mem EXCEPT !.users = @ \o steering, !.ckpt = ckpt]
  /\ Gate!PauseAtBoundary("loop") /\ pc' = "paused"
  /\ steering' = <<>>
  /\ UNCHANGED <<aborted, outcome, busy, retries, baseline, pendingInputs, prompt, n, h>>

PauseAtBoundary ==
  /\ AtBoundary
  /\ state = "pause_requested"
  /\ LET saved == [mem EXCEPT !.users = @ \o steering,
                              !.ckpt = [id |-> n.pauses, state |-> "durable_paused"]]
     IN /\ mem' = saved
        /\ \E ok \in BOOLEAN :
             /\ Save(saved, ok)
             /\ n' = CountSave(n, ok)
             /\ IF ~ok
                THEN Gate!Resume /\ Stop("incomplete")
                ELSE IF inFlight = 0
                     THEN Gate!PauseAtBoundary("loop") /\ pc' = "paused" /\ UNCHANGED outcome
                     ELSE pc' = "reduce" /\ UNCHANGED <<gate, outcome>>
  /\ steering' = <<>>
  /\ UNCHANGED <<aborted, busy, retries, baseline, pendingInputs, prompt, h>>

\* The pause was released: pauseAtBoundary returns true, no run began since.
LeavePause ==
  /\ pc = "paused"
  /\ Gate!WakeCheckpoint("loop")
  /\ pc' = "reduce"
  /\ UNCHANGED <<aborted, outcome, busy, retries, session, texts, n, h>>

-----------------------------------------------------------------------------
\* judgePendingBoundary and enforceForcedLimit refuse to send the call.
StopInReduce ==
  /\ pc = "reduce"
  /\ \/ aborted /\ Stop("aborted")
     \/ Stop("error")              \* context_reduction_failed
     \/ Stop("incomplete")         \* an exception
  /\ UNCHANGED <<gate, aborted, busy, retries, session, texts, n, h>>

\* Main calls begun since the pending pause request: 0, 1, or 2 for more.
OneMore == IF state # "pause_requested" THEN 0 ELSE IF h.overtaken = 0 THEN 1 ELSE 2

\* An Esc during a forced reduction that succeeds is noticed only by the call.
StartMain(m) ==
  /\ pc = "reduce"
  /\ Gate!EnterRequest(m)
  /\ pc' = "main"
  /\ h' = [h EXCEPT !.overtaken = OneMore]
  /\ UNCHANGED <<aborted, outcome, busy, retries, session, texts, n>>

\* The stream ended without an abort and its generator is closed.
Reply(m) ==
  /\ CurrentCall(m)
  /\ ~aborted
  /\ Gate!LeaveRequest(m)
  /\ retries' = 0
  /\ \/ /\ pc' = "tools"           \* tool calls
        /\ mem' = [mem EXCEPT !.open = @ \cup {"batch"}]
        /\ UNCHANGED steering
     \/ /\ pc' = "top"             \* cut at the output limit
        /\ \E calls \in {{}, {"orphan"}} : mem' = [mem EXCEPT !.open = @ \cup calls]
        /\ UNCHANGED steering
     \/ /\ steering = <<>>         \* text
        /\ pc' = "judge"
        /\ UNCHANGED <<mem, steering>>
     \/ /\ steering # <<>>         \* text, with texts waiting
        /\ pc' = "top"
        /\ ApplySteering
  /\ UNCHANGED <<aborted, outcome, busy, disk, baseline, pendingInputs, prompt, n, h>>

\* Mutants: a failed stream keeps its count; the retries have no limit.
MainFailsUnclosed(m) ==
  /\ CurrentCall(m) /\ ~aborted
  /\ pc' = "ask"
  /\ UNCHANGED <<gate, aborted, outcome, busy, retries, session, texts, n, h>>

MainFailsForEver(m) ==
  /\ CurrentCall(m) /\ ~aborted
  /\ Gate!LeaveRequest(m)
  /\ pc' = "backoff" /\ retries' = retries + 1
  /\ UNCHANGED <<aborted, outcome, busy, session, texts, n, h>>

\* A connection error waits and sends again; any other failure asks the user.
MainFails(m) ==
  /\ CurrentCall(m)
  /\ ~aborted
  /\ Gate!LeaveRequest(m)
  /\ \/ pc' = "backoff" /\ retries < MaxRetries /\ retries' = retries + 1
     \/ pc' = "ask" /\ UNCHANGED retries
  /\ UNCHANGED <<aborted, outcome, busy, session, texts, n, h>>

\* abortableIterator gives up the stream and closes its generator without
\* awaiting it: CloseCall may come in the middle of a later run.
MainAborted(m) ==
  /\ CurrentCall(m)
  /\ aborted
  /\ Stop("aborted")
  /\ UNCHANGED <<gate, aborted, busy, retries, session, texts, n, h>>

CloseCall(m) ==
  /\ ~CurrentCall(m)
  /\ Gate!LeaveRequest(m)
  /\ UNCHANGED <<pc, aborted, outcome, busy, retries, session, texts, n, h>>

\* Mutant: the retry sends again without the boundary.
BackoffSkipsBoundary ==
  /\ pc = "backoff"
  /\ pc' = "reduce"
  /\ UNCHANGED <<gate, aborted, outcome, busy, retries, session, texts, n, h>>

Backoff ==
  /\ pc = "backoff"
  /\ pc' = "retry"
  /\ UNCHANGED <<gate, aborted, outcome, busy, retries, session, texts, n, h>>

AnswerAsk ==
  /\ pc = "ask"
  /\ \/ pc' = "retry" /\ retries' = 0 /\ UNCHANGED <<aborted, outcome>>
     \/ Stop("aborted") /\ aborted' = TRUE /\ UNCHANGED retries
  /\ UNCHANGED <<gate, busy, session, texts, n, h>>

-----------------------------------------------------------------------------
\* withToolBatch answers every call of the batch, whatever the tools did.
Answered(s) == [s EXCEPT !.open = @ \ {"batch"}]

\* Mutant: the results of the tools are sent without the boundary.
EndToolsSkipsBoundary ==
  /\ pc = "tools"
  /\ pc' = "reduce"
  /\ mem' = Answered(mem)
  /\ UNCHANGED <<gate, aborted, outcome, busy, retries, disk, baseline, texts, n, h>>

EndTools ==
  /\ pc = "tools"
  /\ \/ /\ Stop("aborted") \/ Stop("incomplete")  \* tool_abort, an exception
        /\ mem' = Answered(mem)
        /\ UNCHANGED steering
     \/ /\ steering # <<>>
        /\ pc' = "top"
        /\ mem' = [Answered(mem) EXCEPT !.users = @ \o steering]
        /\ steering' = <<>>
        /\ UNCHANGED outcome
     \/ /\ steering = <<>>
        /\ pc' \in {"top", "declared"}            \* response_complete
        /\ mem' = Answered(mem)
        /\ UNCHANGED <<outcome, steering>>
  /\ UNCHANGED <<gate, aborted, busy, retries, disk, baseline, pendingInputs, prompt, n, h>>

\* The awaited gates are over and the reply is taken as the final one.
JudgePasses ==
  /\ pc \in {"judge", "declared"}
  /\ \/ /\ steering # <<>>
        /\ pc' = "top"
        /\ ApplySteering
        /\ UNCHANGED outcome
     \/ /\ steering = <<>>
        /\ Stop("completed")
        /\ UNCHANGED <<mem, steering>>
  /\ UNCHANGED <<gate, aborted, busy, retries, disk, baseline, pendingInputs, prompt, n, h>>

\* A judge finds the task unfinished or throws.  A text reply may also end the
\* run: as completed at the limit of self checks, as an error when it is garbage
\* or empty again, as aborted when the user refuses a synthetic write.
JudgeFails ==
  /\ \/ /\ pc \in {"judge", "declared"}
        /\ (pc' = "top" /\ UNCHANGED outcome) \/ Stop("incomplete")
     \/ /\ pc = "judge"
        /\ \E o \in {"completed", "error", "aborted"} : Stop(o)
  /\ UNCHANGED <<gate, aborted, busy, retries, session, texts, n, h>>

-----------------------------------------------------------------------------
\* Mutant: the REPL clears the texts the run did not reach.
RescueForgets == steering' = <<>> /\ UNCHANGED pendingInputs

\* The REPL takes what run() left in steering (processInput's finally).
Rescue == pendingInputs' = pendingInputs \o steering /\ steering' = <<>>

FinalOutcome == IF outcome = "incomplete" /\ aborted THEN "aborted" ELSE outcome

\* The finally of run() up to finishRequest, without an await.
FinallyKeeps ==
  /\ pc = "stop"
  /\ ~(mem.ckpt.state = "resuming" /\ (FinalOutcome # "incomplete" \/ baseline # NoSession))
  /\ Gate!FinishRun
  /\ outcome' = FinalOutcome
  /\ pc' = "finishing"
  /\ h' = [h EXCEPT !.reported = TRUE]
  /\ UNCHANGED <<aborted, busy, retries, session, texts, n>>

FinallyDeletes ==
  /\ pc = "stop"
  /\ mem.ckpt.state = "resuming" /\ FinalOutcome # "incomplete"
  /\ Gate!FinishRun
  /\ outcome' = FinalOutcome
  /\ mem' = [mem EXCEPT !.ckpt = NoCheckpoint]
  /\ \E ok \in BOOLEAN :
       /\ Save(mem', ok)
       /\ n' = CountSave(n, ok)
       /\ IF ok
          THEN /\ pc' = "finishing"
               /\ baseline' = NoSession
               /\ h' = [h EXCEPT !.reported = TRUE]
               /\ UNCHANGED <<steering, pendingInputs>>
          ELSE /\ pc' = "turn"               \* thrown out of the finally
               /\ Rescue
               /\ UNCHANGED <<baseline, h>>
  /\ UNCHANGED <<aborted, busy, retries, prompt>>

FinallyRollsBack ==
  /\ pc = "stop"
  /\ mem.ckpt.state = "resuming" /\ FinalOutcome = "incomplete" /\ baseline # NoSession
  /\ Gate!FinishRun
  /\ mem' = baseline
  /\ baseline' = NoSession
  /\ pc' = "finishing"
  /\ h' = [h EXCEPT !.reported = TRUE,
                    !.dropped = @ \cup (ToSet(mem.users) \ ToSet(baseline.users))]
  /\ UNCHANGED <<aborted, outcome, busy, retries, disk, texts, n>>

\* finishRequest returns and run() ends.
FinishRequest ==
  /\ pc = "finishing"
  /\ busy' = FALSE
  /\ pc' = "turn"
  /\ Rescue
  /\ UNCHANGED <<gate, aborted, outcome, retries, session, prompt, n, h>>

\* The REPL saves after a turn; a failure is only logged, and after a resumed
\* run there is no save.
EndTurn ==
  /\ pc = "turn"
  /\ pc' = "idle"
  /\ disk' \in {mem, disk}
  /\ UNCHANGED <<gate, aborted, outcome, busy, retries, mem, baseline, texts, n, h>>

-----------------------------------------------------------------------------
\* A key press reaches the processing input between two awaits of the run.
Listening == pc \notin {"idle", "stop", "turn", "ask"}

\* routeTypeAhead -> queueSteering
TypeText ==
  /\ Listening
  /\ n.typed < MaxInputs
  /\ steering' = Append(steering, n.typed + 1)
  /\ n' = [n EXCEPT !.typed = @ + 1]
  /\ UNCHANGED <<gate, pc, aborted, outcome, busy, retries, session, pendingInputs, prompt, h>>

\* Mutant: Esc leaves the pause alone.
EscKeepsPause ==
  /\ Listening
  /\ aborted' = TRUE
  /\ h' = [h EXCEPT !.escaped = TRUE]
  /\ UNCHANGED <<gate, pc, outcome, busy, retries, session, texts, n>>

Esc ==
  /\ Listening
  /\ aborted' = TRUE
  /\ Gate!AbortRun \/ (state \notin {"pause_requested", "paused"} /\ UNCHANGED gate)
  /\ h' = [h EXCEPT !.escaped = TRUE]
  /\ UNCHANGED <<pc, outcome, busy, retries, session, texts, n>>

RequestPause ==
  /\ Listening
  /\ n.pauses < MaxPauses
  /\ Gate!RequestPause
  /\ n' = [n EXCEPT !.pauses = @ + 1]
  /\ h' = [h EXCEPT !.overtaken = 0, !.escaped = FALSE]
  /\ UNCHANGED <<pc, aborted, outcome, busy, retries, session, texts>>

CancelPause ==
  /\ Listening
  /\ state = "pause_requested"
  /\ Gate!Resume
  /\ UNCHANGED <<pc, aborted, outcome, busy, retries, session, texts, n, h>>

CountResume == [h EXCEPT !.resumes[mem.ckpt.id] = @ + 1]

\* resumeRun at a paused run
ResumePaused ==
  /\ pc = "paused" /\ state = "paused"
  /\ mem' = WithCkptState(mem, "resuming")
  /\ \E ok \in BOOLEAN :
       /\ Save(mem', ok)
       /\ n' = CountSave(n, ok)
       /\ IF ok THEN Gate!Resume /\ baseline' = mem' /\ h' = CountResume
                ELSE UNCHANGED <<gate, baseline, h>>
  /\ UNCHANGED <<pc, aborted, outcome, busy, retries, texts>>

\* Mutant: the resumed run starts without saving that it did.
ResumeUnsaved ==
  /\ pc = "idle" /\ ~busy
  /\ mem.ckpt.state = "durable_paused"
  /\ mem' = WithCkptState(mem, "resuming")
  /\ baseline' = mem'
  /\ BeginRun
  /\ pc' = "top"
  /\ n' = [n EXCEPT !.runs = @ + 1]
  /\ h' = [CountResume EXCEPT !.reported = FALSE, !.escaped = FALSE]
  /\ UNCHANGED <<disk, texts>>

\* beginDurableRunResume, in this process or after a restart
ResumeSaved ==
  /\ pc = "idle" /\ pendingInputs = <<>>
  /\ ~busy /\ state = "idle"
  /\ mem.ckpt.state = "durable_paused"
  /\ mem' = WithCkptState(mem, "resuming")
  /\ \/ /\ Save(mem', TRUE)
        /\ baseline' = mem'
        /\ BeginRun
        /\ pc' = "top"
        /\ n' = [n EXCEPT !.runs = @ + 1]
        /\ h' = [CountResume EXCEPT !.reported = FALSE, !.escaped = FALSE]
     \/ /\ Save(mem', FALSE)
        /\ n' = CountSave(n, FALSE)
        /\ UNCHANGED <<gate, pc, aborted, outcome, busy, retries, baseline, h>>
  /\ UNCHANGED texts

\* discardDurableRunCheckpoint
Discard ==
  /\ pc = "idle" /\ pendingInputs = <<>>
  /\ ~busy
  /\ mem.ckpt # NoCheckpoint
  /\ mem' = [mem EXCEPT !.ckpt = NoCheckpoint]
  /\ \E ok \in BOOLEAN : Save(mem', ok) /\ n' = CountSave(n, ok)
  /\ UNCHANGED <<gate, pc, aborted, outcome, busy, retries, baseline, texts, h>>

\* The process ends, with or without the emergency save, and the next one
\* restores the session.
Crash ==
  /\ Gate!Restart
  /\ \/ UNCHANGED disk
     \/ disk' = [mem EXCEPT !.open = IF @ = {} THEN {} ELSE {"orphan"}]
  /\ mem' = disk' /\ baseline' = NoSession
  /\ pc' = "idle" /\ aborted' = FALSE /\ outcome' = "incomplete" /\ busy' = FALSE
  /\ retries' = 0
  /\ steering' = <<>> /\ pendingInputs' = <<>> /\ prompt' = 0
  /\ h' = [h EXCEPT !.dropped = (1..n.typed) \ ToSet(disk'.users),
                    !.overtaken = 0, !.reported = TRUE, !.escaped = FALSE]
  /\ UNCHANGED n

-----------------------------------------------------------------------------
\* What the process does by itself, and what the user does.
RunStep ==
  \/ AcceptPrompt \/ StopAtTop \/ PassBoundary \/ PauseAtBoundary \/ LeavePause
  \/ StopInReduce \/ Backoff \/ EndTools \/ JudgePasses \/ JudgeFails
  \/ FinallyKeeps \/ FinallyDeletes \/ FinallyRollsBack \/ FinishRequest \/ EndTurn
  \/ \E m \in Calls : StartMain(m) \/ Reply(m) \/ MainFails(m) \/ MainAborted(m)

UserStep ==
  \/ StartRun \/ TypeText \/ Esc \/ RequestPause \/ CancelPause
  \/ ResumePaused \/ ResumeSaved \/ Discard \/ AnswerAsk

RunNext == RunStep \/ UserStep \/ Crash \/ \E m \in Calls : CloseCall(m)

RunSpec == RunInit /\ [][RunNext]_vars

\* Node resumes what is ready; a stream answers, fails or hits its idle
\* timeout; a tool returns; a cancelled stream closes.  No fairness for the user.
RunFairness ==
  /\ WF_vars(RunStep)
  /\ WF_vars(\E m \in Calls : CloseCall(m))

FairRunSpec == RunSpec /\ RunFairness

-----------------------------------------------------------------------------
Sessions ==
  [users : Seq(0..MaxInputs), open : SUBSET {"batch", "orphan"},
   ckpt : [id : 0..MaxPauses, state : {"none", "durable_paused", "resuming"}]]

\* The types of the run's fields; in particular at most MAX_CONNECTION_RETRIES
\* automatic retries of one call.
RunTypeOK ==
  /\ pc \in {"idle", "starting", "top", "retry", "paused", "reduce", "main", "tools",
             "judge", "declared", "backoff", "ask", "stop", "finishing", "turn"}
  /\ aborted \in BOOLEAN /\ busy \in BOOLEAN
  /\ outcome \in {"incomplete", "completed", "aborted", "error", "max_iterations"}
  /\ retries \in 0..MaxRetries
  /\ {mem, disk, baseline} \subseteq Sessions
  /\ {steering, pendingInputs} \subseteq Seq(1..MaxInputs)
  /\ prompt \in 0..MaxInputs

\* "After the display of the pause the application and the PC may be stopped"
\* (README.md:86): whatever is typed, cancelled or fails to be saved meanwhile,
\* a paused run finds its whole conversation and its own resumable checkpoint
\* in the file.
PausedIsSaved ==
  state = "paused" =>
    /\ disk.users = mem.users /\ disk.open = mem.open
    /\ disk.ckpt = [id |-> mem.ckpt.id, state |-> "durable_paused"]

\* A checkpoint starts the next API call once: it is resumed at most once, over
\* crashes, failed saves and both ways of resuming, and once resumed it is
\* never again resumable from the file.
ResumedOnce ==
  \A k \in 1..MaxPauses :
    /\ h.resumes[k] <= 1
    /\ h.resumes[k] = 1 => disk.ckpt # [id |-> k, state |-> "durable_paused"]

Occurrences(t) == Times(t, mem.users \o steering \o pendingInputs \o <<prompt>>)

\* Every text the user typed is in exactly one place, the history, the texts
\* waiting for a boundary, the queue of later turns or the call of run(), unless
\* it was refused, rolled back with a resumed run or lost with the process:
\* "accepted input that reached no boundary is rescued" (repl.ts:3979).
NothingTypedIsLost ==
  \A t \in 1..n.typed : Occurrences(t) = IF t \in h.dropped THEN 0 ELSE 1

\* When the loop reaches a boundary no call of the run is in flight: an
\* abandoned stream gives its count back before the next boundary.  Otherwise
\* the boundary would write a checkpoint and go on.
BoundaryIsQuiet == pc \in {"top", "retry"} => inFlight = 0

\* At most one main call starts between a pause request and the pause.
PauseOvertakenAtMostOnce == h.overtaken <= 1

\* A pause request is answered, by the pause, by the end of the run or by the
\* user, even when the model calls tools for ever.
PauseIsAnswered == state = "pause_requested" ~> (state # "pause_requested" \/ pc = "ask")

\* After Esc the run ends, also a paused run, an aborted call that does not
\* close and a run in a tool, unless the user asks for a pause once more.
AbortEndsRun == h.escaped ~> (pc = "idle" \/ ~h.escaped)

-----------------------------------------------------------------------------
\* What comments and documents of the repository say, and the code does not do.

\* "Also when the pause request arrives during a context reduction or a retry
\* wait, save before the next main API call" (agent-loop.ts:1144).
NoMainCallOverPause == h.overtaken = 0

\* "A checkpoint holds no tool call that was not executed"
\* (docs/durable-run-resume-design.md:61).
CheckpointHoldsNoOpenCall == disk.ckpt.state = "durable_paused" => disk.open = {}

\* "task_complete always fires in the finally, exceptions and every return path
\* included" (agent-loop.ts:2435).
TaskCompleteAlwaysFires == pc = "idle" => h.reported

\* "Input that arrives during an asynchronous gate is picked up just before the
\* reply becomes final" (agent-loop.ts:2403).
NoTextWaitsAtCompletion == pc = "stop" /\ outcome = "completed" => steering = <<>>
=============================================================================
