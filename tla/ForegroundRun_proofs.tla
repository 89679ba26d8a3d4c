------------------------ MODULE ForegroundRun_proofs ------------------------
(***************************************************************************)
(* Safety of ForegroundRun for every bound: the run uses the pause gate as *)
(* the gate is specified, its types, and the invariants of pause and       *)
(* resume.                                                                 *)
(***************************************************************************)
EXTENDS ForegroundRun, Counting_proofs, SequenceTheorems, TLAPS

-----------------------------------------------------------------------------
(* The run and the gate. *)

\* Every step of the run is a step of the gate's interface or leaves it alone.
LEMMA StepUsesGate == RunNext => Gate!GateNext \/ UNCHANGED gate
<1> USE DEF Gate!GateNext, Gate!RequestStep, Gate!CheckpointStep, Gate!Sources
<1> SUFFICES ASSUME RunNext PROVE Gate!GateNext \/ UNCHANGED gate
  OBVIOUS
<1>1. CASE AcceptPrompt \/ StopAtTop \/ PassBoundary \/ StopInReduce \/ Backoff
  BY <1>1 DEF AcceptPrompt, StopAtTop, PassBoundary, StopInReduce, Backoff
<1>2. CASE PauseAtBoundary
  BY <1>2 DEF PauseAtBoundary
<1>3. CASE LeavePause
  BY <1>3 DEF LeavePause
<1>4. CASE EndTools \/ JudgePasses \/ JudgeFails \/ FinishRequest \/ EndTurn
  BY <1>4 DEF EndTools, JudgePasses, JudgeFails, FinishRequest, EndTurn
<1>5. CASE FinallyKeeps \/ FinallyDeletes \/ FinallyRollsBack
  BY <1>5 DEF FinallyKeeps, FinallyDeletes, FinallyRollsBack
<1>6. ASSUME NEW m \in Calls,
             StartMain(m) \/ Reply(m) \/ MainFails(m) \/ MainAborted(m) \/ CloseCall(m)
      PROVE  Gate!GateNext \/ UNCHANGED gate
  BY <1>6 DEF StartMain, Reply, MainFails, MainAborted, CloseCall
<1>7. CASE StartRun
  BY <1>7 DEF StartRun, BeginRun
<1>8. CASE TypeText \/ Discard \/ AnswerAsk
  BY <1>8 DEF TypeText, Discard, AnswerAsk
<1>9. CASE Esc \/ RequestPause \/ CancelPause
  BY <1>9 DEF Esc, RequestPause, CancelPause
<1>10. CASE ResumePaused
  BY <1>10 DEF ResumePaused
<1>11. CASE ResumeSaved
  BY <1>11 DEF ResumeSaved, BeginRun
<1>12. CASE Crash
  BY <1>12 DEF Crash
<1>13. QED
  BY <1>1, <1>2, <1>3, <1>4, <1>5, <1>6, <1>7, <1>8, <1>9, <1>10, <1>11, <1>12
     DEF RunNext, RunStep, UserStep

\* agent-loop.ts drives RunApiGate only as its specification allows: whatever is
\* proved of the gate's specification holds of the gate inside a run.
THEOREM RunUsesGate == RunSpec => Gate!GateSpec
<1>1. RunInit => Gate!GateInit
  BY DEF RunInit
<1>2. [RunNext]_vars => [Gate!GateNext]_Gate!gateVars
  BY StepUsesGate DEF vars, gate, Gate!gateVars
<1>3. QED
  BY <1>1, <1>2, PTL DEF RunSpec, Gate!GateSpec

-----------------------------------------------------------------------------
(* Types, part by part. *)

CkptType == [id : 0..MaxPauses, state : {"none", "durable_paused", "resuming"}]
CountType == [typed : 0..MaxInputs, runs : Nat, pauses : 0..MaxPauses, ioErrors : Nat]

ControlTyped ==
  /\ pc \in {"idle", "starting", "top", "retry", "paused", "reduce", "main", "tools",
             "judge", "declared", "backoff", "ask", "stop", "finishing", "turn"}
  /\ aborted \in BOOLEAN /\ busy \in BOOLEAN
  /\ outcome \in {"incomplete", "completed", "aborted", "error", "max_iterations"}
  /\ retries \in 0..MaxRetries
SessionsTyped == mem \in Sessions /\ disk \in Sessions /\ baseline \in Sessions
TextsTyped ==
  /\ steering \in Seq(1..MaxInputs)
  /\ pendingInputs \in Seq(1..MaxInputs)
  /\ prompt \in 0..MaxInputs
CountsTyped == n \in CountType

RunTypeInv == ControlTyped /\ SessionsTyped /\ TextsTyped /\ CountsTyped

\* The sessions the code builds from a session.
LEMMA SessionTypes ==
  ASSUME NEW s \in Sessions
  PROVE  /\ \A q \in Seq(1..MaxInputs) : s.users \o q \in Seq(0..MaxInputs)
         /\ \A t \in 0..MaxInputs : Append(s.users, t) \in Seq(0..MaxInputs)
<1>1. Seq(1..MaxInputs) \subseteq Seq(0..MaxInputs)
  BY RunConstants, SeqMonotonic
<1>2. QED
  BY <1>1, ConcatProperties, AppendProperties DEF Sessions

LEMMA FixedSessions == EmptySession \in Sessions /\ NoSession \in Sessions
<1>1. MaxInputs \in Nat /\ MaxPauses \in Nat
  BY RunConstants
<1>2. << >> \in Seq(0..MaxInputs) /\ <<0>> \in Seq(0..MaxInputs)
  BY <1>1
<1>3. QED
  BY <1>1, <1>2 DEF EmptySession, NoSession, NoCheckpoint, Sessions

LEMMA RunTypeInit == RunInit => RunTypeInv
<1>1. MaxInputs \in Nat /\ MaxPauses \in Nat /\ << >> \in Seq(1..MaxInputs)
  BY RunConstants
<1>2. RunInit => ControlTyped
  <2>1. 0 \in 0..MaxRetries
    BY DEF MaxRetries
  <2>2. QED
    BY <2>1, Zenon DEF RunInit, ControlTyped
<1>3. RunInit => SessionsTyped
  BY FixedSessions DEF RunInit, SessionsTyped
<1>4. RunInit => TextsTyped
  BY <1>1 DEF RunInit, TextsTyped
<1>5. RunInit => CountsTyped
  BY <1>1 DEF RunInit, CountsTyped, CountType
<1>6. QED
  BY <1>2, <1>3, <1>4, <1>5 DEF RunTypeInv

LEMMA CountsStep == CountsTyped /\ [RunNext]_vars => CountsTyped'
<1> SUFFICES ASSUME CountsTyped, [RunNext]_vars PROVE CountsTyped'
  OBVIOUS
<1> USE DEF CountsTyped, CountType
<1>0. MaxInputs \in Nat /\ MaxPauses \in Nat
  BY RunConstants
<1>1. ASSUME NEW ok \in BOOLEAN, n' = CountSave(n, ok) PROVE CountsTyped'
  BY <1>1 DEF CountSave
<1>2. CASE PauseAtBoundary \/ FinallyDeletes \/ ResumePaused \/ Discard
  BY <1>1, <1>2 DEF PauseAtBoundary, FinallyDeletes, ResumePaused, Discard
<1>3. CASE ResumeSaved
  <2>1. n' = [n EXCEPT !.runs = @ + 1] => CountsTyped'
    OBVIOUS
  <2>2. QED
    BY <1>1, <1>3, <2>1 DEF ResumeSaved
<1>4. CASE StartRun
  <2>1. n' = [n EXCEPT !.runs = @ + 1] => CountsTyped'
    OBVIOUS
  <2>2. ASSUME n.typed < MaxInputs, n' = [n EXCEPT !.typed = @ + 1, !.runs = @ + 1]
        PROVE  CountsTyped'
    <3>1. n.typed + 1 \in 0..MaxInputs /\ n.runs + 1 \in Nat
      BY <1>0, <2>2
    <3>2. [n EXCEPT !.typed = @ + 1] \in CountType
      BY <3>1
    <3>3. QED
      BY <2>2, <3>1, <3>2
  <2>3. QED
    BY <1>4, <2>1, <2>2 DEF StartRun
<1>5. CASE TypeText
  BY <1>0, <1>5 DEF TypeText
<1>6. CASE RequestPause
  BY <1>0, <1>6 DEF RequestPause
<1>7. CASE UNCHANGED n
  BY <1>7
<1>8. QED
  BY <1>2, <1>3, <1>4, <1>5, <1>6, <1>7
     DEF RunNext, RunStep, UserStep, vars, AcceptPrompt, StopAtTop, PassBoundary, LeavePause,
         StopInReduce, Backoff, EndTools, JudgePasses, JudgeFails, FinallyKeeps,
         FinallyRollsBack, FinishRequest, EndTurn, StartMain, Reply, MainFails, MainAborted,
         CloseCall, Esc, CancelPause, AnswerAsk, Crash

LEMMA TextsStep == RunTypeInv /\ [RunNext]_vars => TextsTyped'
<1> SUFFICES ASSUME RunTypeInv, [RunNext]_vars PROVE TextsTyped'
  OBVIOUS
<1> USE DEF RunTypeInv, TextsTyped
<1>0. MaxInputs \in Nat /\ << >> \in Seq(1..MaxInputs)
  BY RunConstants
<1>1. CASE Rescue /\ UNCHANGED prompt
  BY <1>1, <1>0, ConcatProperties DEF Rescue
<1>2. CASE FinallyDeletes \/ FinishRequest
  BY <1>1, <1>2 DEF FinallyDeletes, FinishRequest
<1>3. CASE AcceptPrompt
  BY <1>0, <1>3 DEF AcceptPrompt
<1>4. CASE UNCHANGED <<pendingInputs, prompt>> /\ steering' \in {<< >>, steering}
  BY <1>0, <1>4
<1>5. CASE StartRun
  <2>1. CASE pendingInputs = << >>
    <3>1. n.typed + 1 \in 0..MaxInputs
      BY <1>0, <1>5, <2>1 DEF StartRun, CountsTyped, CountType
    <3>2. QED
      BY <1>5, <2>1, <3>1 DEF StartRun
  <2>2. CASE pendingInputs # << >>
    <3>1. Head(pendingInputs) \in 1..MaxInputs /\ Tail(pendingInputs) \in Seq(1..MaxInputs)
      BY <2>2, HeadTailProperties
    <3>2. Head(pendingInputs) \in 0..MaxInputs
      BY <1>0, <3>1
    <3>3. prompt' = Head(pendingInputs) /\ pendingInputs' = Tail(pendingInputs)
          /\ steering' = steering
      BY <1>5, <2>2 DEF StartRun
    <3>4. QED
      BY <3>1, <3>2, <3>3
  <2>3. QED
    BY <2>1, <2>2
<1>6. CASE TypeText
  <2>1. n.typed + 1 \in 1..MaxInputs
    BY <1>0, <1>6 DEF TypeText, CountsTyped, CountType
  <2>2. QED
    BY <1>6, <2>1, AppendProperties DEF TypeText
<1>7. CASE Crash
  BY <1>0, <1>7 DEF Crash
<1>8. QED
  BY <1>2, <1>3, <1>4, <1>5, <1>6, <1>7
     DEF RunNext, RunStep, UserStep, vars, texts, ApplySteering, StopAtTop, PassBoundary,
         PauseAtBoundary, LeavePause, StopInReduce, Backoff, EndTools, JudgePasses, JudgeFails,
         FinallyKeeps, FinallyRollsBack, EndTurn, StartMain, Reply, MainFails, MainAborted,
         CloseCall, Esc, RequestPause, CancelPause, ResumePaused, ResumeSaved, Discard, AnswerAsk

LEMMA ControlStep == ControlTyped /\ [RunNext]_vars => ControlTyped'
<1> SUFFICES ASSUME ControlTyped, [RunNext]_vars PROVE ControlTyped'
  OBVIOUS
<1> USE DEF ControlTyped, MaxRetries
<1>0. 0 \in 0..MaxRetries
  OBVIOUS
<1>1. CASE AcceptPrompt \/ StopAtTop \/ PassBoundary \/ PauseAtBoundary \/ LeavePause
  BY <1>1 DEF AcceptPrompt, StopAtTop, PassBoundary, PauseAtBoundary, LeavePause, Stop
<1>2. CASE StopInReduce \/ Backoff \/ EndTools \/ JudgePasses \/ JudgeFails
  BY <1>2 DEF StopInReduce, Backoff, EndTools, JudgePasses, JudgeFails, Stop
<1>3. CASE FinallyKeeps \/ FinallyDeletes \/ FinallyRollsBack \/ FinishRequest \/ EndTurn
  BY <1>3 DEF FinallyKeeps, FinallyDeletes, FinallyRollsBack, FinishRequest, EndTurn,
              FinalOutcome
<1>4. ASSUME NEW m \in Calls, Reply(m) \/ MainFails(m)
      PROVE  ControlTyped'
  BY <1>4 DEF Reply, MainFails
<1>5. ASSUME NEW m \in Calls, StartMain(m) \/ MainAborted(m) \/ CloseCall(m)
      PROVE  ControlTyped'
  BY <1>5 DEF StartMain, MainAborted, CloseCall, Stop
<1>6. ASSUME UNCHANGED <<pc, aborted, outcome, busy, retries>> PROVE ControlTyped'
  BY <1>6
<1>7. ASSUME pc' \in {"starting", "top", "idle"}, aborted' = FALSE, busy' \in BOOLEAN,
             outcome' = "incomplete", retries' = 0
      PROVE  ControlTyped'
  BY <1>0, <1>7, Zenon
<1>8. CASE TypeText \/ Esc \/ RequestPause \/ CancelPause \/ Discard
  BY <1>8 DEF TypeText, Esc, RequestPause, CancelPause, Discard
<1>9. CASE StartRun
  BY <1>7, <1>9 DEF StartRun, BeginRun
<1>10. CASE ResumeSaved
  BY <1>6, <1>7, <1>10 DEF ResumeSaved, BeginRun
<1>11. CASE ResumePaused
  BY <1>6, <1>11 DEF ResumePaused
<1>12. CASE Crash
  BY <1>7, <1>12 DEF Crash
<1>13. CASE AnswerAsk
  BY <1>0, <1>13, Zenon DEF AnswerAsk, Stop
<1>14. CASE UNCHANGED vars
  BY <1>6, <1>14 DEF vars
<1>15. QED
  BY <1>1, <1>2, <1>3, <1>4, <1>5, <1>8, <1>9, <1>10, <1>11, <1>12, <1>13, <1>14
     DEF RunNext, RunStep, UserStep

\* The sessions one step may write.
LEMMA WrittenSessions ==
  ASSUME RunTypeInv
  PROVE  /\ [mem EXCEPT !.users = Append(@, prompt)] \in Sessions
         /\ [mem EXCEPT !.users = @ \o steering] \in Sessions
         /\ [Answered(mem) EXCEPT !.users = @ \o steering] \in Sessions
         /\ Answered(mem) \in Sessions
         /\ \A o \in SUBSET {"batch", "orphan"} : [mem EXCEPT !.open = @ \cup o] \in Sessions
         /\ [mem EXCEPT !.open = IF @ = {} THEN {} ELSE {"orphan"}] \in Sessions
         /\ [mem EXCEPT !.ckpt = NoCheckpoint] \in Sessions
         /\ WithCkptState(mem, "resuming") \in Sessions
         /\ [mem EXCEPT !.users = @ \o steering,
                        !.ckpt = [id |-> n.pauses, state |-> "durable_paused"]] \in Sessions
<1>1. mem \in Sessions /\ steering \in Seq(1..MaxInputs) /\ prompt \in 0..MaxInputs
      /\ n.pauses \in 0..MaxPauses
  BY DEF RunTypeInv, SessionsTyped, TextsTyped, CountsTyped, CountType
<1>2. mem.users \o steering \in Seq(0..MaxInputs) /\ Append(mem.users, prompt) \in Seq(0..MaxInputs)
  BY <1>1, SessionTypes
<1>3. NoCheckpoint \in CkptType /\ [id |-> n.pauses, state |-> "durable_paused"] \in CkptType
      /\ [mem.ckpt EXCEPT !.state = "resuming"] \in CkptType
  BY <1>1, RunConstants DEF NoCheckpoint, CkptType, Sessions
<1>4. [mem EXCEPT !.users = Append(@, prompt)] \in Sessions
      /\ [mem EXCEPT !.users = @ \o steering] \in Sessions
  BY <1>1, <1>2 DEF Sessions
<1>5. \A o \in SUBSET {"batch", "orphan"} : [mem EXCEPT !.open = o] \in Sessions
  BY <1>1 DEF Sessions
<1>6. Answered(mem) \in Sessions /\ Answered(mem).users = mem.users
  BY <1>1 DEF Answered, Sessions
<1>7. [Answered(mem) EXCEPT !.users = @ \o steering] \in Sessions
  BY <1>2, <1>6 DEF Sessions
<1>8. [mem EXCEPT !.ckpt = NoCheckpoint] \in Sessions
  BY <1>1, <1>3 DEF Sessions, CkptType
<1>9. WithCkptState(mem, "resuming") \in Sessions
  BY <1>1, <1>3 DEF WithCkptState, Sessions, CkptType
<1>10. [mem EXCEPT !.users = @ \o steering,
                   !.ckpt = [id |-> n.pauses, state |-> "durable_paused"]] \in Sessions
  BY <1>3, <1>4 DEF Sessions, CkptType
<1>11. mem.open \in SUBSET {"batch", "orphan"}
  BY <1>1 DEF Sessions
<1>12. (\A o \in SUBSET {"batch", "orphan"} : [mem EXCEPT !.open = @ \cup o] \in Sessions)
       /\ [mem EXCEPT !.open = IF @ = {} THEN {} ELSE {"orphan"}] \in Sessions
  BY <1>5, <1>11
<1>13. QED
  BY <1>4, <1>6, <1>7, <1>8, <1>9, <1>10, <1>12

LEMMA SessionsStep == RunTypeInv /\ [RunNext]_vars => SessionsTyped'
<1> SUFFICES ASSUME RunTypeInv, [RunNext]_vars PROVE SessionsTyped'
  OBVIOUS
<1> USE DEF SessionsTyped
<1>0. SessionsTyped
  BY DEF RunTypeInv
<1>1. ASSUME mem' \in Sessions, disk' \in {mem, mem', disk}, baseline' \in {mem', baseline, NoSession}
      PROVE  SessionsTyped'
  BY <1>0, <1>1, FixedSessions
<1>2. CASE AcceptPrompt
  BY <1>0, <1>1, <1>2, WrittenSessions DEF AcceptPrompt
<1>3. CASE PauseAtBoundary
  BY <1>1, <1>3, WrittenSessions DEF PauseAtBoundary, Save
<1>4. ASSUME NEW m \in Calls, Reply(m) PROVE SessionsTyped'
  BY <1>0, <1>1, <1>4, WrittenSessions DEF Reply, ApplySteering
<1>5. CASE EndTools
  BY <1>1, <1>5, WrittenSessions DEF EndTools
<1>6. CASE JudgePasses
  BY <1>0, <1>1, <1>6, WrittenSessions DEF JudgePasses, ApplySteering
<1>7. CASE FinallyDeletes
  BY <1>1, <1>7, WrittenSessions DEF FinallyDeletes, Save
<1>8. CASE FinallyRollsBack
  BY <1>0, <1>1, <1>8 DEF FinallyRollsBack
<1>9. CASE EndTurn
  BY <1>0, <1>1, <1>9 DEF EndTurn
<1>10. CASE ResumePaused
  BY <1>1, <1>10, WrittenSessions DEF ResumePaused, Save
<1>11. CASE ResumeSaved
  BY <1>1, <1>11, WrittenSessions DEF ResumeSaved, Save
<1>12. CASE Discard
  BY <1>1, <1>12, WrittenSessions DEF Discard, Save
<1>13. CASE Crash
  BY <1>0, <1>13, WrittenSessions, FixedSessions DEF Crash
<1>14. CASE UNCHANGED session
  BY <1>0, <1>1, <1>14 DEF session
<1>15. QED
  BY <1>2, <1>3, <1>4, <1>5, <1>6, <1>7, <1>8, <1>9, <1>10, <1>11, <1>12, <1>13, <1>14
     DEF RunNext, RunStep, UserStep, vars, StopAtTop, PassBoundary, LeavePause, StopInReduce,
         Backoff, JudgeFails, FinallyKeeps, FinishRequest, StartMain, MainFails, MainAborted,
         CloseCall, StartRun, TypeText, Esc, RequestPause, CancelPause, AnswerAsk

LEMMA RunTypeInvariant == RunSpec => []RunTypeInv
<1>1. RunTypeInv /\ [RunNext]_vars => RunTypeInv'
  BY CountsStep, TextsStep, ControlStep, SessionsStep DEF RunTypeInv
<1>2. QED
  BY <1>1, RunTypeInit, PTL DEF RunSpec

\* The fields of the run keep their types; in particular no call is retried by
\* itself more than MAX_CONNECTION_RETRIES times.
THEOREM RunTyped == RunSpec => []RunTypeOK
<1>1. RunTypeInv => RunTypeOK
  BY DEF RunTypeInv, RunTypeOK, ControlTyped, SessionsTyped, TextsTyped
<1>2. QED
  BY <1>1, RunTypeInvariant, PTL

-----------------------------------------------------------------------------
(* The calls of the run. *)

CallRecord == [phase : {"off", "active"}, tracked : BOOLEAN, epoch : Nat, awaits : Nat]

\* The gate's state follows the run: idle outside run(), paused only in the await
\* of the boundary.
StateFollowsRun ==
  /\ state \in {"idle", "running", "pause_requested", "paused"}
  /\ state = "idle" <=> pc \in {"idle", "finishing", "turn"}
  /\ state = "paused" => pc = "paused"

\* No call ever waits inside the gate, and none belongs to a future epoch.
CallsTyped ==
  /\ epoch \in Nat
  /\ req \in [Calls -> CallRecord]
  /\ \A m \in Calls : req[m].epoch <= epoch

\* The run has at most one open call, and only where it reads or abandons it.
AtMostOneCall ==
  /\ pc \notin {"main", "stop"} => Gate!Open = {}
  /\ \A a, b \in Gate!Open : a = b
  /\ inFlight = IF Gate!Open = {} THEN 0 ELSE 1

CallsInv == StateFollowsRun /\ CallsTyped /\ AtMostOneCall

LEMMA CallsInit == RunInit => CallsInv
<1> SUFFICES ASSUME RunInit PROVE CallsInv
  OBVIOUS
<1>1. StateFollowsRun /\ CallsTyped
  BY DEF RunInit, Gate!GateInit, Gate!Off, StateFollowsRun, CallsTyped, CallRecord
<1>2. Gate!Open = {}
  BY DEF RunInit, Gate!GateInit, Gate!Off, Gate!Open
<1>3. QED
  BY <1>1, <1>2 DEF RunInit, Gate!GateInit, CallsInv, AtMostOneCall

\* A step that leaves the calls alone and comes from where none is open, or goes
\* where one may be.
LEMMA CallsKept ==
  ASSUME CallsInv, UNCHANGED <<req, epoch, inFlight>>, StateFollowsRun',
         pc' \in {"main", "stop"} \/ pc \notin {"main", "stop"}
  PROVE  CallsInv'
<1>1. Gate!Open' = Gate!Open
  BY DEF Gate!Open
<1>2. QED
  BY <1>1 DEF CallsInv, CallsTyped, AtMostOneCall

\* A run that begins or ends has no open call.
LEMMA CallsRenewed ==
  ASSUME CallsInv, epoch' = epoch + 1, req' = req, inFlight' = 0, StateFollowsRun'
  PROVE  CallsInv'
<1>1. \A m \in Calls : req[m].epoch \in Nat
  BY DEF CallsInv, CallsTyped, CallRecord
<1>2. Gate!Open' = {}
  BY <1>1 DEF CallsInv, CallsTyped, Gate!Open
<1>3. QED
  BY <1>1, <1>2 DEF CallsInv, CallsTyped, AtMostOneCall

\* A call that closes leaves the others open.
LEMMA CallClosed ==
  ASSUME CallsInv, NEW m \in Calls, Gate!LeaveRequest(m)
  PROVE  /\ Gate!Open' = Gate!Open \ {m} /\ CallsTyped'
         /\ inFlight' = IF Gate!Open' = {} THEN 0 ELSE 1
<1>1. req' = [req EXCEPT ![m] = Gate!Off] /\ epoch' = epoch /\ req[m].phase = "active"
      /\ Gate!Off \in CallRecord /\ Gate!Off.phase = "off" /\ Gate!Off.epoch = 0
  BY DEF Gate!LeaveRequest, Gate!Off, CallRecord
<1>2. Gate!Open' = Gate!Open \ {m}
  BY <1>1 DEF CallsInv, CallsTyped, Gate!Open
<1>3. CallsTyped'
  BY <1>1 DEF CallsInv, CallsTyped
<1>4. inFlight' = IF m \in Gate!Open THEN 0 ELSE inFlight
  BY DEF Gate!LeaveRequest, Gate!Open, CallsInv, AtMostOneCall
<1>5. QED
  BY <1>2, <1>3, <1>4 DEF CallsInv, AtMostOneCall

\* The main call opens where no other is open.
LEMMA CallOpened ==
  ASSUME CallsInv, NEW m \in Calls, pc = "reduce", Gate!EnterRequest(m), pc' = "main"
  PROVE  CallsInv'
<1>1. state \in {"running", "pause_requested"} /\ Gate!Open = {}
  BY DEF CallsInv, StateFollowsRun, AtMostOneCall
<1>2. /\ req' = [req EXCEPT ![m] = [phase |-> "active", tracked |-> TRUE,
                                   epoch |-> epoch, awaits |-> 0]]
      /\ inFlight' = inFlight + 1 /\ state' = state /\ epoch' = epoch
  BY <1>1 DEF Gate!EnterRequest
<1>3. Gate!Open' = {m}
  BY <1>1, <1>2 DEF CallsInv, CallsTyped, Gate!Open
<1>4. CallsTyped'
  BY <1>2 DEF CallsInv, CallsTyped, CallRecord
<1>5. StateFollowsRun'
  BY <1>1, <1>2 DEF StateFollowsRun
<1>6. QED
  BY <1>1, <1>2, <1>3, <1>4, <1>5 DEF CallsInv, AtMostOneCall

\* The boundary waits for the pending promise of its pause, or its continuation is
\* queued and no pause is pending.
LoopWaits ==
  /\ made \in Nat /\ promise \in Nat
  /\ cp \in [{"loop"} -> [phase : {"away", "waiting"}, epoch : Nat, awaits : Nat]]
  /\ cp["loop"].phase = "waiting" =>
       /\ cp["loop"].awaits # 0
       /\ state \in {"pause_requested", "paused"} => cp["loop"].awaits = promise

LEMMA LoopWaitsInit == RunInit => LoopWaits
  BY DEF RunInit, Gate!GateInit, Gate!Away, LoopWaits

LEMMA LoopWaitsStep == CallsInv /\ LoopWaits /\ [RunNext]_vars => LoopWaits'
<1> SUFFICES ASSUME CallsInv, LoopWaits, [RunNext]_vars PROVE LoopWaits'
  OBVIOUS
<1>1. ASSUME UNCHANGED <<cp, promise, made>>,
             state' \in {"pause_requested", "paused"} => state \in {"pause_requested", "paused"}
      PROVE  LoopWaits'
  BY <1>1 DEF LoopWaits
<1>2. ASSUME Gate!ReleaseWaiters, UNCHANGED cp, state' \in {"idle", "running"}
      PROVE  LoopWaits'
  BY <1>2 DEF LoopWaits, Gate!ReleaseWaiters
<1>3. ASSUME Gate!PauseAtBoundary("loop") PROVE LoopWaits'
  <2>1. promise' # 0 /\ promise' \in Nat /\ made' \in Nat
    BY <1>3 DEF LoopWaits, Gate!PauseAtBoundary, Gate!EnsurePausePromise
  <2>2. epoch \in Nat
    BY DEF CallsInv, CallsTyped
  <2>3. QED
    BY <1>3, <2>1, <2>2 DEF LoopWaits, Gate!PauseAtBoundary
<1>4. ASSUME Gate!RequestPause PROVE LoopWaits'
  <2>1. cp["loop"].phase = "waiting" => cp["loop"].awaits = promise /\ promise # 0
    BY <1>4 DEF LoopWaits, Gate!RequestPause, Gate!Drained
  <2>2. promise # 0 => promise' = promise
    BY <1>4 DEF Gate!RequestPause, Gate!EnsurePausePromise
  <2>3. made' \in Nat /\ promise' \in Nat /\ cp' = cp
    BY <1>4 DEF LoopWaits, Gate!RequestPause, Gate!EnsurePausePromise
  <2>4. QED
    BY <2>1, <2>2, <2>3 DEF LoopWaits
<1>5. CASE PauseAtBoundary
  BY <1>1, <1>2, <1>3, <1>5 DEF PauseAtBoundary, gate, Gate!Resume
<1>6. CASE LeavePause
  BY <1>6 DEF LeavePause, LoopWaits, Gate!WakeCheckpoint, Gate!Away
<1>7. CASE FinallyKeeps \/ FinallyDeletes \/ FinallyRollsBack
  BY <1>2, <1>7 DEF FinallyKeeps, FinallyDeletes, FinallyRollsBack, Gate!FinishRun
<1>8. ASSUME NEW m \in Calls, StartMain(m) PROVE LoopWaits'
  <2>1. state # "paused"
    BY <1>8 DEF StartMain, CallsInv, StateFollowsRun
  <2>2. QED
    BY <1>1, <1>8, <2>1 DEF StartMain, Gate!EnterRequest
<1>9. ASSUME NEW m \in Calls, Reply(m) \/ MainFails(m) \/ CloseCall(m) PROVE LoopWaits'
  BY <1>1, <1>9 DEF Reply, MainFails, CloseCall, Gate!LeaveRequest
<1>10. CASE StartRun \/ ResumeSaved
  BY <1>1, <1>2, <1>10 DEF StartRun, ResumeSaved, BeginRun, Gate!BeginRun, gate
<1>11. CASE Esc \/ CancelPause \/ ResumePaused
  BY <1>1, <1>2, <1>11 DEF Esc, CancelPause, ResumePaused, gate, Gate!AbortRun, Gate!Resume
<1>12. CASE RequestPause
  BY <1>4, <1>12 DEF RequestPause
<1>13. CASE Crash
  BY <1>13 DEF Crash, Gate!Restart, Gate!Away, LoopWaits
<1>14. CASE UNCHANGED gate
  BY <1>1, <1>14 DEF gate
<1>15. QED
  BY <1>5, <1>6, <1>7, <1>8, <1>9, <1>10, <1>11, <1>12, <1>13, <1>14
     DEF RunNext, RunStep, UserStep, vars, AcceptPrompt, StopAtTop, PassBoundary, StopInReduce,
         Backoff, EndTools, JudgePasses, JudgeFails, FinishRequest, EndTurn, MainAborted,
         TypeText, Discard, AnswerAsk

LEMMA CallsStep == CallsInv /\ LoopWaits /\ [RunNext]_vars => CallsInv'
<1> SUFFICES ASSUME CallsInv, LoopWaits, [RunNext]_vars PROVE CallsInv'
  OBVIOUS
<1> USE DEF StateFollowsRun
<1>0. StateFollowsRun
  BY DEF CallsInv
<1>1. CASE AcceptPrompt \/ StopAtTop \/ PassBoundary \/ StopInReduce \/ Backoff \/ AnswerAsk
  BY <1>0, <1>1, CallsKept
     DEF AcceptPrompt, StopAtTop, PassBoundary, AtBoundary, StopInReduce, Backoff, AnswerAsk,
         Stop, gate
<1>2. CASE PauseAtBoundary
  BY <1>0, <1>2, CallsKept
     DEF PauseAtBoundary, AtBoundary, Stop, gate, Gate!Resume, Gate!PauseAtBoundary
<1>3. CASE LeavePause
  BY <1>0, <1>3, CallsKept DEF LeavePause, Gate!WakeCheckpoint, LoopWaits
<1>4. CASE EndTools \/ JudgePasses \/ JudgeFails \/ FinishRequest \/ EndTurn
  BY <1>0, <1>4, CallsKept DEF EndTools, JudgePasses, JudgeFails, FinishRequest, EndTurn, Stop, gate
<1>5. CASE FinallyKeeps \/ FinallyDeletes \/ FinallyRollsBack
  BY <1>5, CallsRenewed
     DEF FinallyKeeps, FinallyDeletes, FinallyRollsBack, Gate!FinishRun
<1>6. ASSUME NEW m \in Calls, StartMain(m) PROVE CallsInv'
  BY <1>6, CallOpened DEF StartMain
<1>7. ASSUME NEW m \in Calls, Reply(m) \/ MainFails(m) PROVE CallsInv'
  <2>1. Gate!LeaveRequest(m) /\ m \in Gate!Open /\ pc = "main"
        /\ pc' \in {"tools", "top", "judge", "backoff", "ask"}
    BY <1>7 DEF Reply, MainFails, CurrentCall
  <2>2. Gate!Open' = {} /\ CallsTyped' /\ inFlight' = 0
    BY <2>1, CallClosed DEF CallsInv, AtMostOneCall
  <2>3. StateFollowsRun'
    BY <1>0, <2>1 DEF Gate!LeaveRequest
  <2>4. QED
    BY <2>1, <2>2, <2>3 DEF CallsInv, AtMostOneCall
<1>8. ASSUME NEW m \in Calls, MainAborted(m) PROVE CallsInv'
  BY <1>0, <1>8, CallsKept DEF MainAborted, CurrentCall, Stop, gate
<1>9. ASSUME NEW m \in Calls, CloseCall(m) PROVE CallsInv'
  <2>1. Gate!LeaveRequest(m) /\ pc' = pc
    BY <1>9 DEF CloseCall
  <2>2. StateFollowsRun'
    BY <1>0, <2>1 DEF Gate!LeaveRequest
  <2>3. QED
    BY <2>1, <2>2, CallClosed DEF CallsInv, AtMostOneCall
<1>10. CASE StartRun \/ ResumeSaved
  <2>1. CASE Gate!BeginRun("cli") /\ pc' \in {"starting", "top"}
    BY <2>1, CallsRenewed DEF Gate!BeginRun
  <2>2. CASE UNCHANGED <<gate, pc>>
    BY <1>0, <2>2, CallsKept DEF gate
  <2>3. QED
    BY <1>10, <2>1, <2>2 DEF StartRun, ResumeSaved, BeginRun
<1>11. CASE TypeText \/ Discard
  BY <1>0, <1>11, CallsKept DEF TypeText, Discard, gate
<1>12. CASE Esc \/ RequestPause \/ CancelPause \/ ResumePaused
  BY <1>0, <1>12, CallsKept
     DEF Esc, RequestPause, CancelPause, ResumePaused, gate,
         Gate!AbortRun, Gate!RequestPause, Gate!Resume
<1>13. CASE Crash
  <2>1. epoch' = 0 /\ inFlight' = 0 /\ state' = "idle" /\ pc' = "idle"
        /\ req' = [r \in Calls |-> Gate!Off]
    BY <1>13 DEF Crash, Gate!Restart
  <2>2. CallsTyped' /\ Gate!Open' = {}
    BY <2>1 DEF CallsTyped, CallRecord, Gate!Off, Gate!Open
  <2>3. QED
    BY <2>1, <2>2 DEF CallsInv, AtMostOneCall
<1>14. CASE UNCHANGED vars
  BY <1>0, <1>14, CallsKept DEF vars, gate
<1>15. QED
  BY <1>1, <1>2, <1>3, <1>4, <1>5, <1>6, <1>7, <1>8, <1>9, <1>10, <1>11, <1>12, <1>13, <1>14
     DEF RunNext, RunStep, UserStep

LEMMA CallsInvariant == RunSpec => [](CallsInv /\ LoopWaits)
  BY CallsInit, CallsStep, LoopWaitsInit, LoopWaitsStep, PTL DEF RunSpec

\* When the agent loop reaches a boundary no call of its run is in flight, over
\* any number of retries, aborts, late closings, runs and restarts.
THEOREM BoundariesAreQuiet == RunSpec => []BoundaryIsQuiet
<1>1. CallsInv => BoundaryIsQuiet
  BY DEF CallsInv, AtMostOneCall, BoundaryIsQuiet
<1>2. QED
  BY <1>1, CallsInvariant, PTL

-----------------------------------------------------------------------------
(* Pause and resume. *)

\* A displayed pause is in the file with the whole conversation, whatever is
\* typed, cancelled or fails to be saved while the run is paused.
LEMMA PausedIsSavedStep ==
  RunTypeInv /\ CallsInv /\ PausedIsSaved /\ [RunNext]_vars => PausedIsSaved'
<1> SUFFICES ASSUME RunTypeInv, CallsInv, PausedIsSaved, [RunNext]_vars PROVE PausedIsSaved'
  OBVIOUS
<1>0. state = "paused" => pc = "paused"
  BY DEF CallsInv, StateFollowsRun
<1>1. ASSUME state' # "paused" PROVE PausedIsSaved'
  BY <1>1 DEF PausedIsSaved
<1>2. ASSUME UNCHANGED <<state, session>> PROVE PausedIsSaved'
  BY <1>2 DEF PausedIsSaved, session
<1>3. ASSUME pc # "paused", UNCHANGED state PROVE PausedIsSaved'
  BY <1>0, <1>1, <1>3
<1>4. CASE AcceptPrompt \/ EndTools \/ JudgePasses \/ EndTurn \/ Discard
  BY <1>3, <1>4 DEF AcceptPrompt, EndTools, JudgePasses, EndTurn, Discard, gate
<1>5. CASE PauseAtBoundary
  <2>1. pc # "paused"
    BY <1>5 DEF PauseAtBoundary, AtBoundary
  <2>2. CASE UNCHANGED gate
    BY <1>3, <2>1, <2>2 DEF gate
  <2>3. CASE Gate!Resume
    BY <1>1, <2>3 DEF Gate!Resume
  <2>4. CASE disk' = mem'
    <3>1. mem'.ckpt = [id |-> n.pauses, state |-> "durable_paused"]
      BY <1>5 DEF PauseAtBoundary, RunTypeInv, SessionsTyped, Sessions
    <3>2. QED
      BY <2>4, <3>1 DEF PausedIsSaved
  <2>5. QED
    BY <1>5, <2>2, <2>3, <2>4 DEF PauseAtBoundary, Save
<1>6. ASSUME NEW m \in Calls,
             StartMain(m) \/ Reply(m) \/ MainFails(m) \/ MainAborted(m) \/ CloseCall(m)
      PROVE  PausedIsSaved'
  BY <1>2, <1>3, <1>6 DEF StartMain, Reply, MainFails, MainAborted, CloseCall, CurrentCall,
                         gate, Gate!LeaveRequest, Gate!EnterRequest
<1>7. CASE FinallyKeeps \/ FinallyDeletes \/ FinallyRollsBack
  BY <1>1, <1>7 DEF FinallyKeeps, FinallyDeletes, FinallyRollsBack, Gate!FinishRun
<1>8. CASE StartRun
  BY <1>1, <1>8 DEF StartRun, BeginRun, Gate!BeginRun
<1>9. CASE ResumeSaved
  BY <1>1, <1>3, <1>9 DEF ResumeSaved, BeginRun, Gate!BeginRun, gate
<1>10. CASE ResumePaused
  <2>1. CASE Gate!Resume
    BY <1>1, <2>1 DEF Gate!Resume
  <2>2. CASE UNCHANGED gate /\ disk' = disk /\ mem' = WithCkptState(mem, "resuming")
    <3>1. /\ mem'.users = mem.users /\ mem'.open = mem.open
          /\ mem'.ckpt.id = mem.ckpt.id
      BY <2>2 DEF WithCkptState, RunTypeInv, SessionsTyped, Sessions
    <3>2. QED
      BY <2>2, <3>1 DEF PausedIsSaved, gate
  <2>3. QED
    BY <1>10, <2>1, <2>2 DEF ResumePaused, Save
<1>11. CASE LeavePause
  BY <1>2, <1>11 DEF LeavePause, Gate!WakeCheckpoint
<1>12. CASE Esc \/ RequestPause \/ CancelPause
  BY <1>1, <1>2, <1>12 DEF Esc, RequestPause, CancelPause, gate,
                           Gate!AbortRun, Gate!RequestPause, Gate!Resume
<1>13. CASE Crash
  BY <1>1, <1>13 DEF Crash, Gate!Restart
<1>14. CASE UNCHANGED <<gate, session>>
  BY <1>2, <1>14 DEF gate
<1>15. QED
  BY <1>4, <1>5, <1>6, <1>7, <1>8, <1>9, <1>10, <1>11, <1>12, <1>13, <1>14
     DEF RunNext, RunStep, UserStep, vars, StopAtTop, PassBoundary, StopInReduce, Backoff,
         JudgeFails, FinishRequest, TypeText, AnswerAsk

\* "After the display of the pause the application and the PC may be stopped."
THEOREM PauseIsSaved == RunSpec => []PausedIsSaved
<1>1. RunInit => PausedIsSaved
  BY DEF RunInit, Gate!GateInit, PausedIsSaved
<1>2. QED
  BY <1>1, PausedIsSavedStep, RunTypeInvariant, CallsInvariant, PTL DEF RunSpec

-----------------------------------------------------------------------------
(* Once only: resumes of a checkpoint, main calls over a pause request. *)

HistoryFields ==
  h = [dropped |-> h.dropped, resumes |-> h.resumes, overtaken |-> h.overtaken,
       reported |-> h.reported, escaped |-> h.escaped]

\* Only a resume changes the number of resumes; only a main call, a pause request
\* or a restart changes the number of overtaking calls.
LEMMA HistoryStep ==
  ASSUME HistoryFields, [RunNext]_vars
  PROVE  /\ HistoryFields'
         /\ \/ h'.resumes = h.resumes
            \/ (ResumePaused \/ ResumeSaved) /\ h'.resumes = CountResume.resumes
         /\ \/ h'.overtaken = h.overtaken
            \/ RequestPause /\ h'.overtaken = 0
            \/ Crash /\ h'.overtaken = 0
            \/ \E m \in Calls : StartMain(m) /\ h'.overtaken = OneMore
<1> USE DEF HistoryFields
<1>1. CASE AcceptPrompt
  BY <1>1 DEF AcceptPrompt
<1>2. CASE StopAtTop \/ PassBoundary \/ PauseAtBoundary \/ LeavePause \/ StopInReduce \/ Backoff
  BY <1>2 DEF StopAtTop, PassBoundary, PauseAtBoundary, LeavePause, StopInReduce, Backoff
<1>3. CASE EndTools \/ JudgePasses \/ JudgeFails \/ FinishRequest \/ EndTurn
  BY <1>3 DEF EndTools, JudgePasses, JudgeFails, FinishRequest, EndTurn
<1>4. CASE FinallyKeeps \/ FinallyDeletes \/ FinallyRollsBack
  BY <1>4 DEF FinallyKeeps, FinallyDeletes, FinallyRollsBack
<1>5. ASSUME NEW m \in Calls, Reply(m) \/ MainFails(m) \/ MainAborted(m) \/ CloseCall(m)
      PROVE  h' = h
  BY <1>5 DEF Reply, MainFails, MainAborted, CloseCall
<1>6. ASSUME NEW m \in Calls, StartMain(m)
      PROVE  HistoryFields' /\ h'.resumes = h.resumes /\ h'.overtaken = OneMore
  BY <1>6 DEF StartMain
<1>7. CASE StartRun
  BY <1>7 DEF StartRun
<1>8. CASE TypeText \/ CancelPause \/ Discard \/ AnswerAsk
  BY <1>8 DEF TypeText, CancelPause, Discard, AnswerAsk
<1>9. CASE Esc
  BY <1>9 DEF Esc
<1>10. CASE RequestPause
  BY <1>10 DEF RequestPause
<1>11. CASE ResumePaused
  BY <1>11 DEF ResumePaused, CountResume
<1>12. CASE ResumeSaved
  BY <1>12 DEF ResumeSaved, CountResume
<1>13. CASE Crash
  BY <1>13 DEF Crash
<1>14. CASE UNCHANGED vars
  BY <1>14 DEF vars
<1>15. QED
  BY <1>1, <1>2, <1>3, <1>4, <1>5, <1>6, <1>7, <1>8, <1>9, <1>10, <1>11, <1>12, <1>13, <1>14
     DEF RunNext, RunStep, UserStep

\* At most one main call has overtaken the pending request, and none while the
\* next one is being prepared: the boundary before it sees the request.
OvertakenInv ==
  /\ h.overtaken \in {0, 1}
  /\ pc = "reduce" /\ state = "pause_requested" => h.overtaken = 0

LEMMA OvertakenStep ==
  HistoryFields /\ CallsInv /\ LoopWaits /\ OvertakenInv /\ [RunNext]_vars => OvertakenInv'
<1> SUFFICES ASSUME HistoryFields, CallsInv, LoopWaits, OvertakenInv, [RunNext]_vars
             PROVE  OvertakenInv'
  OBVIOUS
<1> USE DEF OvertakenInv
<1>1. CASE RequestPause \/ Crash
  BY <1>1 DEF HistoryFields, RequestPause, Crash
<1>2. ASSUME NEW m \in Calls, StartMain(m) PROVE OvertakenInv'
  BY <1>2 DEF HistoryFields, StartMain, OneMore
<1>3. CASE h'.overtaken = h.overtaken
  <2>1. ASSUME pc' = "reduce", state' = "pause_requested", ~RequestPause
        PROVE  pc = "reduce" /\ state = "pause_requested"
    <3>1. CASE PassBoundary
      BY <2>1, <3>1 DEF PassBoundary, gate
    <3>2. CASE PauseAtBoundary
      <4>1. inFlight = 0
        BY <3>2 DEF PauseAtBoundary, AtBoundary, CallsInv, AtMostOneCall
      <4>2. QED
        BY <2>1, <3>2, <4>1 DEF PauseAtBoundary, Stop
    <3>3. CASE LeavePause
      BY <2>1, <3>3 DEF LeavePause, Gate!WakeCheckpoint, LoopWaits
    <3>4. CASE UNCHANGED <<pc, state>>
      BY <2>1, <3>4
    <3>5. CASE Esc \/ CancelPause \/ ResumePaused
      BY <2>1, <3>5 DEF Esc, CancelPause, ResumePaused, Gate!AbortRun, Gate!Resume, gate
    <3>6. CASE pc' # "reduce"
      BY <2>1, <3>6
    <3>7. QED
      BY <2>1, <3>1, <3>2, <3>3, <3>4, <3>5, <3>6
         DEF RunNext, RunStep, UserStep, vars, gate, Stop, Gate!LeaveRequest, AcceptPrompt, StopAtTop, StopInReduce,
             Backoff, EndTools, JudgePasses, JudgeFails, FinallyKeeps, FinallyDeletes,
             FinallyRollsBack, FinishRequest, EndTurn, StartMain, Reply, MainFails,
             MainAborted, CloseCall, StartRun, TypeText, ResumeSaved, BeginRun, Discard,
             AnswerAsk, Crash
  <2>2. QED
    BY <1>1, <1>3, <2>1
<1>4. QED
  BY <1>1, <1>2, <1>3, HistoryStep

\* A pause request is overtaken by at most one main call.
THEOREM OvertakenOnce == RunSpec => []PauseOvertakenAtMostOnce
<1>1. RunInit => HistoryFields /\ OvertakenInv
  BY DEF RunInit, HistoryFields, OvertakenInv
<1>2. HistoryFields /\ [RunNext]_vars => HistoryFields'
  BY HistoryStep
<1>3. OvertakenInv => PauseOvertakenAtMostOnce
  BY DEF OvertakenInv, PauseOvertakenAtMostOnce
<1>4. QED
  BY <1>1, <1>2, <1>3, OvertakenStep, CallsInvariant, PTL DEF RunSpec

\* A resumable checkpoint was never resumed, neither the saved nor the loaded one,
\* and the pause being taken is a new one.
ResumeInv ==
  /\ h.resumes \in [1..MaxPauses -> Nat]
  /\ \A k \in 1..MaxPauses :
       /\ h.resumes[k] <= 1
       /\ k > n.pauses => h.resumes[k] = 0
       /\ h.resumes[k] = 1 =>
            /\ disk.ckpt # [id |-> k, state |-> "durable_paused"]
            /\ mem.ckpt # [id |-> k, state |-> "durable_paused"]
  /\ state \in {"pause_requested", "paused"} =>
       n.pauses > 0 /\ h.resumes[n.pauses] = 0
  /\ state = "paused" => mem.ckpt.id = n.pauses
  /\ mem.ckpt.state = "durable_paused" => mem.ckpt.id \in 1..n.pauses
  /\ disk.ckpt.state = "durable_paused" => disk.ckpt.id \in 1..n.pauses
  /\ baseline.ckpt.state # "durable_paused"

\* A step that resumes nothing, pauses nothing and writes no other checkpoint.
LEMMA ResumeInvKept ==
  ASSUME ResumeInv, RunTypeInv, h'.resumes = h.resumes, n'.pauses = n.pauses,
         state' \in {"pause_requested", "paused"} => state \in {"pause_requested", "paused"},
         state' = "paused" => state = "paused" /\ mem'.ckpt.id = mem.ckpt.id,
         mem'.ckpt \in {mem.ckpt, disk.ckpt} \/ mem'.ckpt.state # "durable_paused",
         disk'.ckpt \in {mem.ckpt, disk.ckpt} \/ disk'.ckpt.state # "durable_paused",
         baseline'.ckpt.state # "durable_paused"
  PROVE  ResumeInv'
<1>1. n.pauses \in Nat
  BY DEF RunTypeInv, CountsTyped, CountType
<1>2. QED
  BY <1>1 DEF ResumeInv

\* The resume of the loaded checkpoint, when it is saved as resuming.
LEMMA ResumeInvResumed ==
  ASSUME ResumeInv, RunTypeInv, NEW k \in 1..MaxPauses,
         mem.ckpt.id = k, h.resumes[k] = 0, k <= n.pauses,
         h'.resumes = [h.resumes EXCEPT ![k] = @ + 1], n'.pauses = n.pauses,
         state' = "running", mem' = WithCkptState(mem, "resuming"),
         disk' = mem', baseline' = mem'
  PROVE  ResumeInv'
<1>1. mem'.ckpt.state = "resuming"
  BY DEF WithCkptState, RunTypeInv, SessionsTyped, Sessions
<1>2. n.pauses \in Nat
  BY DEF RunTypeInv, CountsTyped, CountType
<1>3. h.resumes \in [1..MaxPauses -> Nat]
  BY DEF ResumeInv
<1>4. /\ h'.resumes \in [1..MaxPauses -> Nat]
      /\ \A j \in 1..MaxPauses : h'.resumes[j] = IF j = k THEN 1 ELSE h.resumes[j]
  <2>1. ASSUME NEW f \in [1..MaxPauses -> Nat], f[k] = 0
        PROVE  /\ [f EXCEPT ![k] = @ + 1] \in [1..MaxPauses -> Nat]
               /\ \A j \in 1..MaxPauses :
                    [f EXCEPT ![k] = @ + 1][j] = IF j = k THEN 1 ELSE f[j]
    BY <2>1
  <2>2. QED
    BY <1>3, <2>1
<1>5. QED
  BY <1>1, <1>2, <1>4 DEF ResumeInv

LEMMA PausesStep ==
  ASSUME CountsTyped, [RunNext]_vars
  PROVE  n'.pauses = n.pauses \/ (RequestPause /\ n'.pauses = n.pauses + 1)
<1> USE DEF CountsTyped, CountType
<1>1. ASSUME NEW ok \in BOOLEAN, n' = CountSave(n, ok) PROVE n'.pauses = n.pauses
  BY <1>1 DEF CountSave
<1>2. CASE PauseAtBoundary \/ FinallyDeletes \/ ResumePaused \/ Discard
  BY <1>1, <1>2 DEF PauseAtBoundary, FinallyDeletes, ResumePaused, Discard
<1>3. CASE ResumeSaved \/ StartRun \/ TypeText \/ RequestPause
  BY <1>1, <1>3 DEF ResumeSaved, StartRun, TypeText, RequestPause
<1>4. CASE UNCHANGED n
  BY <1>4
<1>5. QED
  BY <1>2, <1>3, <1>4
     DEF RunNext, RunStep, UserStep, vars, AcceptPrompt, StopAtTop, PassBoundary, LeavePause,
         StopInReduce, Backoff, EndTools, JudgePasses, JudgeFails, FinallyKeeps,
         FinallyRollsBack, FinishRequest, EndTurn, StartMain, Reply, MainFails, MainAborted,
         CloseCall, Esc, CancelPause, AnswerAsk, Crash

\* The checkpoints of the sessions the code builds from the loaded one.
LEMMA CkptOfWritten ==
  ASSUME mem \in Sessions
  PROVE  /\ Answered(mem).ckpt = mem.ckpt
         /\ WithCkptState(mem, "resuming").ckpt.state = "resuming"
         /\ WithCkptState(mem, "resuming").ckpt.id = mem.ckpt.id
         /\ \A u : [mem EXCEPT !.users = u].ckpt = mem.ckpt
         /\ \A u : [Answered(mem) EXCEPT !.users = u].ckpt = mem.ckpt
         /\ \A o : [mem EXCEPT !.open = o].ckpt = mem.ckpt
         /\ [mem EXCEPT !.ckpt = NoCheckpoint].ckpt.state # "durable_paused"
         /\ \A u, c : [mem EXCEPT !.users = u, !.ckpt = c].ckpt = c
  BY DEF Answered, WithCkptState, Sessions, NoCheckpoint

LEMMA ResumeInvStep ==
  HistoryFields /\ RunTypeInv /\ CallsInv /\ ResumeInv /\ [RunNext]_vars => ResumeInv'
<1> SUFFICES ASSUME HistoryFields, RunTypeInv, CallsInv, ResumeInv, [RunNext]_vars
             PROVE  ResumeInv'
  OBVIOUS
<1>1. /\ state = "paused" => pc = "paused"
      /\ baseline.ckpt.state # "durable_paused" /\ NoSession.ckpt.state # "durable_paused"
      /\ CountsTyped /\ mem \in Sessions /\ n.pauses \in 0..MaxPauses
  BY DEF CallsInv, StateFollowsRun, ResumeInv, NoSession, NoCheckpoint, RunTypeInv,
         SessionsTyped, CountsTyped, CountType
<1>2. ASSUME ~ResumePaused, ~ResumeSaved, ~RequestPause
      PROVE  h'.resumes = h.resumes /\ n'.pauses = n.pauses
  BY <1>1, <1>2, HistoryStep, PausesStep
<1>3. ASSUME ~ResumePaused, ~ResumeSaved, ~RequestPause, UNCHANGED session,
             state' = state \/ state' \in {"idle", "running"}
      PROVE  ResumeInv'
  BY <1>1, <1>2, <1>3, ResumeInvKept DEF session
<1>4. CASE ResumePaused
  <2>1. h.resumes[n.pauses] = 0 /\ mem.ckpt.id = n.pauses /\ n.pauses \in 1..MaxPauses
    BY <1>1, <1>4 DEF ResumePaused, ResumeInv
  <2>2. CASE h' = CountResume /\ Gate!Resume /\ baseline' = mem' /\ disk' = mem'
    <3>1. h'.resumes = [h.resumes EXCEPT ![n.pauses] = @ + 1]
      BY <2>1, <2>2 DEF CountResume, HistoryFields
    <3>2. n'.pauses = n.pauses
      BY <1>1, <1>4, PausesStep DEF ResumePaused, RequestPause, Gate!RequestPause
    <3>3. QED
      BY <1>4, <2>1, <2>2, <3>1, <3>2, ResumeInvResumed DEF ResumePaused, Gate!Resume
  <2>3. CASE h' = h /\ UNCHANGED <<gate, baseline, disk>>
    <3>1. n'.pauses = n.pauses
      BY <1>1, <1>4, PausesStep DEF ResumePaused, RequestPause, Gate!RequestPause
    <3>2. mem'.ckpt.state = "resuming" /\ mem'.ckpt.id = mem.ckpt.id
      BY <1>1, <1>4, CkptOfWritten DEF ResumePaused
    <3>3. QED
      BY <1>1, <2>3, <3>1, <3>2, ResumeInvKept DEF gate
  <2>4. QED
    BY <1>4, <2>2, <2>3 DEF ResumePaused, Save
<1>5. CASE ResumeSaved
  <2>1. /\ mem.ckpt = [id |-> mem.ckpt.id, state |-> "durable_paused"]
        /\ mem.ckpt.id \in 1..n.pauses
    BY <1>1, <1>5 DEF ResumeSaved, ResumeInv, Sessions
  <2>2. mem.ckpt.id \in 1..MaxPauses /\ h.resumes[mem.ckpt.id] = 0
    BY <1>1, <2>1, RunConstants DEF ResumeInv
  <2>3. n'.pauses = n.pauses
    BY <1>1, <1>5, PausesStep DEF ResumeSaved, RequestPause, Listening
  <2>4. CASE BeginRun /\ disk' = mem' /\ baseline' = mem'
             /\ h' = [CountResume EXCEPT !.reported = FALSE, !.escaped = FALSE]
    <3>1. h'.resumes = [h.resumes EXCEPT ![mem.ckpt.id] = @ + 1]
      BY <2>4 DEF CountResume, HistoryFields
    <3>2. mem.ckpt.id <= n.pauses
      BY <1>1, <2>1
    <3>3. QED
      BY <1>5, <2>2, <2>3, <2>4, <3>1, <3>2, ResumeInvResumed
         DEF ResumeSaved, BeginRun, Gate!BeginRun
  <2>5. CASE UNCHANGED <<gate, baseline, h, disk>>
    <3>1. mem'.ckpt.state = "resuming"
      BY <1>1, <1>5, CkptOfWritten DEF ResumeSaved
    <3>2. QED
      BY <1>1, <1>5, <2>3, <2>5, <3>1, ResumeInvKept DEF gate, ResumeSaved
  <2>6. QED
    BY <1>5, <2>4, <2>5 DEF ResumeSaved, Save
<1>6. CASE RequestPause
  <2>1. /\ h'.resumes = h.resumes /\ n'.pauses = n.pauses + 1 /\ n.pauses < MaxPauses
        /\ UNCHANGED session /\ state' = "pause_requested"
    BY <1>6 DEF RequestPause, Gate!RequestPause, HistoryFields, RunTypeInv, CountsTyped, CountType
  <2>2. h.resumes[n.pauses + 1] = 0
    <3>1. n.pauses + 1 \in 1..MaxPauses /\ n.pauses + 1 > n.pauses
      BY <1>1, <2>1, RunConstants
    <3>2. QED
      BY <3>1 DEF ResumeInv
  <2>3. QED
    BY <1>1, <2>1, <2>2 DEF ResumeInv, session
<1>7. CASE PauseAtBoundary
  <2>1. h'.resumes = h.resumes /\ n'.pauses = n.pauses /\ state = "pause_requested"
    BY <1>2, <1>7 DEF PauseAtBoundary, AtBoundary, ResumePaused, ResumeSaved, RequestPause,
                      Gate!RequestPause
  <2>2. /\ mem'.ckpt = [id |-> n.pauses, state |-> "durable_paused"]
        /\ disk' \in {mem', disk} /\ baseline' = baseline
        /\ state' \in {"running", "paused", "pause_requested"}
    BY <1>1, <1>7, CkptOfWritten
       DEF PauseAtBoundary, Save, gate, Gate!Resume, Gate!PauseAtBoundary
  <2>3. n.pauses \in 1..MaxPauses /\ h.resumes[n.pauses] = 0
    BY <1>1, <2>1 DEF ResumeInv
  <2>4. QED
    BY <2>1, <2>2, <2>3 DEF ResumeInv
<1>8. CASE Crash
  <2>1. disk'.ckpt \in {mem.ckpt, disk.ckpt} /\ mem' = disk' /\ baseline' = NoSession
        /\ state' = "idle"
    <3>1. CASE disk' = disk
      BY <1>8, <3>1 DEF Crash, Gate!Restart
    <3>2. CASE disk' = [mem EXCEPT !.open = IF @ = {} THEN {} ELSE {"orphan"}]
      BY <1>1, <1>8, <3>2, CkptOfWritten DEF Crash, Gate!Restart
    <3>3. QED
      BY <1>8, <3>1, <3>2 DEF Crash
  <2>2. h'.resumes = h.resumes /\ n' = n
    BY <1>8 DEF Crash, HistoryFields
  <2>3. QED
    BY <1>1, <2>1, <2>2, ResumeInvKept
<1>9. CASE AcceptPrompt \/ EndTools \/ JudgePasses
  <2>1. mem'.ckpt = mem.ckpt /\ UNCHANGED <<disk, baseline, state>>
    BY <1>1, <1>9, CkptOfWritten DEF AcceptPrompt, EndTools, JudgePasses, ApplySteering, gate
  <2>2. ~ResumePaused /\ ~ResumeSaved /\ ~RequestPause
    BY <1>9 DEF AcceptPrompt, EndTools, JudgePasses, ResumePaused, ResumeSaved, RequestPause,
                gate, Gate!RequestPause
  <2>3. QED
    BY <1>1, <1>2, <2>1, <2>2, ResumeInvKept
<1>10. ASSUME NEW m \in Calls, Reply(m) PROVE ResumeInv'
  <2>1. mem'.ckpt = mem.ckpt /\ UNCHANGED <<disk, baseline, state>>
    BY <1>1, <1>10, CkptOfWritten DEF Reply, ApplySteering, Gate!LeaveRequest
  <2>2. ~ResumePaused /\ ~ResumeSaved /\ ~RequestPause
    BY <1>10 DEF Reply, CurrentCall, ResumePaused, ResumeSaved, RequestPause, Gate!RequestPause, Gate!LeaveRequest
  <2>3. QED
    BY <1>1, <1>2, <2>1, <2>2, ResumeInvKept
<1>11. CASE FinallyDeletes \/ FinallyRollsBack
  <2>1. /\ mem'.ckpt.state # "durable_paused" /\ disk' \in {mem', disk} /\ state' = "idle"
        /\ baseline' \in {NoSession, baseline}
    BY <1>1, <1>11, CkptOfWritten DEF FinallyDeletes, FinallyRollsBack, Save, Gate!FinishRun
  <2>2. ~ResumePaused /\ ~ResumeSaved /\ ~RequestPause
    BY <1>11 DEF FinallyDeletes, FinallyRollsBack, ResumePaused, ResumeSaved, RequestPause,
                 Listening
  <2>3. QED
    BY <1>1, <1>2, <2>1, <2>2, ResumeInvKept
<1>12. CASE EndTurn
  <2>1. disk' \in {mem, disk} /\ UNCHANGED <<mem, baseline, state>>
    BY <1>12 DEF EndTurn, gate
  <2>2. ~ResumePaused /\ ~ResumeSaved /\ ~RequestPause
    BY <1>12 DEF EndTurn, ResumePaused, ResumeSaved, RequestPause, Listening
  <2>3. QED
    BY <1>1, <1>2, <2>1, <2>2, ResumeInvKept
<1>13. CASE Discard
  <2>1. mem'.ckpt.state # "durable_paused" /\ disk' \in {mem', disk} /\ state # "paused"
        /\ UNCHANGED <<baseline, state, h>>
    BY <1>1, <1>13, CkptOfWritten DEF Discard, Save, gate
  <2>2. n'.pauses = n.pauses
    BY <1>1, <1>13, PausesStep DEF Discard, RequestPause, Listening
  <2>3. QED
    BY <1>1, <2>1, <2>2, ResumeInvKept
<1>14. ASSUME NEW m \in Calls, StartMain(m) \/ MainFails(m) \/ MainAborted(m) \/ CloseCall(m)
       PROVE  ResumeInv'
  <2>1. UNCHANGED <<session, n, state>> /\ h'.resumes = h.resumes
    BY <1>1, <1>14 DEF StartMain, MainFails, MainAborted, CloseCall, HistoryFields, gate,
                       Gate!LeaveRequest, Gate!EnterRequest
  <2>2. QED
    BY <1>1, <2>1, ResumeInvKept DEF session
<1>15. CASE StopAtTop \/ PassBoundary \/ StopInReduce \/ Backoff \/ JudgeFails \/ FinishRequest
            \/ AnswerAsk \/ LeavePause \/ CancelPause \/ UNCHANGED vars
  <2>1. UNCHANGED <<session, n, h>> /\ (state' = state \/ state' = "running")
    BY <1>15 DEF StopAtTop, PassBoundary, StopInReduce, Backoff, JudgeFails, FinishRequest,
                 AnswerAsk, LeavePause, CancelPause, vars, gate, Gate!WakeCheckpoint, Gate!Resume
  <2>2. QED
    BY <1>1, <2>1, ResumeInvKept DEF session
<1>16. CASE FinallyKeeps \/ StartRun \/ TypeText \/ Esc
  <2>1. UNCHANGED session /\ (state' = state \/ state' \in {"idle", "running"})
        /\ h'.resumes = h.resumes
    BY <1>16 DEF FinallyKeeps, StartRun, BeginRun, TypeText, Esc, HistoryFields, gate,
                 Gate!FinishRun, Gate!BeginRun, Gate!AbortRun
  <2>2. n'.pauses = n.pauses
    BY <1>1, <1>16, PausesStep
       DEF FinallyKeeps, StartRun, TypeText, Esc, CountsTyped, CountType
  <2>3. QED
    BY <1>1, <2>1, <2>2, ResumeInvKept DEF session
<1>17. QED
  BY <1>4, <1>5, <1>6, <1>7, <1>8, <1>9, <1>10, <1>11, <1>12, <1>13, <1>14, <1>15, <1>16
     DEF RunNext, RunStep, UserStep

\* A checkpoint starts the next API call once: over crashes, failed saves and both
\* ways of resuming it is resumed at most once, and never again afterwards.
THEOREM ResumedAtMostOnce == RunSpec => []ResumedOnce
<1>1. RunInit => HistoryFields /\ ResumeInv
  BY RunConstants
     DEF RunInit, Gate!GateInit, HistoryFields, ResumeInv, EmptySession, NoSession, NoCheckpoint
<1>2. HistoryFields /\ [RunNext]_vars => HistoryFields'
  BY HistoryStep
<1>3. ResumeInv => ResumedOnce
  BY DEF ResumeInv, ResumedOnce
<1>4. QED
  BY <1>1, <1>2, <1>3, ResumeInvStep, RunTypeInvariant, CallsInvariant, PTL DEF RunSpec

-----------------------------------------------------------------------------
(* No text the user typed is lost. *)

\* The sequences of texts, as sequences of numbers that can be counted in.
LEMMA TextSequences ==
  ASSUME RunTypeInv
  PROVE  /\ mem.users \in Seq(Nat) /\ disk.users \in Seq(Nat) /\ baseline.users \in Seq(Nat)
         /\ steering \in Seq(Nat) /\ pendingInputs \in Seq(Nat)
         /\ \A t : /\ Times(t, mem.users) \in Nat /\ Times(t, disk.users) \in Nat
                   /\ Times(t, baseline.users) \in Nat
                   /\ Times(t, steering) \in Nat /\ Times(t, pendingInputs) \in Nat
<1>1. Seq(0..MaxInputs) \subseteq Seq(Nat) /\ Seq(1..MaxInputs) \subseteq Seq(Nat)
  BY RunConstants, SeqMonotonic
<1>2. mem.users \in Seq(Nat) /\ disk.users \in Seq(Nat) /\ baseline.users \in Seq(Nat)
  BY <1>1 DEF RunTypeInv, SessionsTyped, Sessions
<1>3. steering \in Seq(Nat) /\ pendingInputs \in Seq(Nat)
  BY <1>1 DEF RunTypeInv, TextsTyped
<1>. QED BY <1>2, <1>3, TimesType

\* The number of places that hold a text, summed over the four of them.
LEMMA OccurrencesSum ==
  ASSUME RunTypeInv, NEW t
  PROVE  Occurrences(t) = Times(t, mem.users) + Times(t, steering) + Times(t, pendingInputs)
                            + (IF t = prompt THEN 1 ELSE 0)
<1>1. /\ mem.users \in Seq(Nat) /\ steering \in Seq(Nat) /\ pendingInputs \in Seq(Nat)
      /\ prompt \in Nat
  BY TextSequences, RunConstants DEF RunTypeInv, TextsTyped
<1>2. /\ <<prompt>> \in Seq(Nat) /\ mem.users \o steering \in Seq(Nat)
      /\ mem.users \o steering \o pendingInputs \in Seq(Nat)
  BY <1>1
<1>3. /\ Times(t, mem.users \o steering) = Times(t, mem.users) + Times(t, steering)
      /\ Times(t, mem.users \o steering \o pendingInputs)
           = Times(t, mem.users \o steering) + Times(t, pendingInputs)
      /\ Times(t, mem.users \o steering \o pendingInputs \o <<prompt>>)
           = Times(t, mem.users \o steering \o pendingInputs) + Times(t, <<prompt>>)
  BY <1>1, <1>2, TimesCat
<1>. QED BY <1>3, TimesOne DEF Occurrences

\* A text typed and not given up is held once, any other text never.
Owed(t) == IF t <= n.typed /\ t \notin h.dropped THEN 1 ELSE 0

TextsHeld ==
  \A t \in 1..MaxInputs :
    Times(t, mem.users) + Times(t, steering) + Times(t, pendingInputs)
      + (IF t = prompt THEN 1 ELSE 0) = Owed(t)

\* Only typed texts are given up; only a run that starts holds its text itself.
TextsGivenUp ==
  /\ \A t \in 1..MaxInputs : t \in h.dropped => t <= n.typed
  /\ pc = "starting" <=> prompt # 0

\* What a resumed run falls back to is part of its history; the session file
\* never holds a text twice, nor one that was not typed.
TextsCopied ==
  \A t \in 1..MaxInputs :
    /\ Times(t, baseline.users) <= Times(t, mem.users)
    /\ Times(t, disk.users) <= IF t <= n.typed THEN 1 ELSE 0

TextInv == TextsHeld /\ TextsGivenUp /\ TextsCopied

LEMMA TextInvMeaning == RunTypeInv /\ TextInv => NothingTypedIsLost
<1> SUFFICES ASSUME RunTypeInv, TextInv, NEW t \in 1..n.typed
             PROVE  Occurrences(t) = IF t \in h.dropped THEN 0 ELSE 1
  BY DEF NothingTypedIsLost
<1>1. t \in 1..MaxInputs /\ t <= n.typed
  BY RunConstants DEF RunTypeInv, CountsTyped, CountType
<1>. QED BY <1>1, OccurrencesSum DEF TextInv, TextsHeld, Owed

\* The texts stay, become messages of the history, or wait for the next turn.
TextsMove ==
  \/ mem'.users = mem.users /\ steering' = steering /\ pendingInputs' = pendingInputs
  \/ mem'.users = mem.users \o steering /\ steering' = <<>> /\ pendingInputs' = pendingInputs
  \/ mem'.users = mem.users /\ steering' = <<>> /\ pendingInputs' = pendingInputs \o steering

LEMMA NoTextInNoSession == \A t : Times(t, NoSession.users) = IF t = 0 THEN 1 ELSE 0
BY TimesOne DEF NoSession

\* A step that hands texts on, and writes or remembers nothing but the history.
LEMMA TextsPassed ==
  ASSUME RunTypeInv, RunTypeInv', TextInv, TextsMove,
         prompt' = prompt, n'.typed = n.typed, h'.dropped = h.dropped,
         pc' = "starting" <=> pc = "starting",
         baseline'.users \in {baseline.users, mem'.users, NoSession.users},
         disk'.users \in {disk.users, mem.users, mem'.users}
  PROVE  TextInv'
<1>1. ASSUME NEW t
      PROVE  /\ Times(t, mem'.users) + Times(t, steering') + Times(t, pendingInputs')
                  = Times(t, mem.users) + Times(t, steering) + Times(t, pendingInputs)
             /\ Times(t, mem.users) <= Times(t, mem'.users)
  <2>1. /\ Times(t, mem.users) \in Nat /\ Times(t, steering) \in Nat
        /\ Times(t, pendingInputs) \in Nat /\ Times(t, <<>>) = 0
    BY TextSequences, TimesOne
  <2>2. /\ Times(t, mem.users \o steering) = Times(t, mem.users) + Times(t, steering)
        /\ Times(t, pendingInputs \o steering) = Times(t, pendingInputs) + Times(t, steering)
    BY TextSequences, TimesCat
  <2>3. CASE mem'.users = mem.users /\ steering' = steering /\ pendingInputs' = pendingInputs
    BY <2>1, <2>3
  <2>4. CASE mem'.users = mem.users \o steering /\ steering' = <<>> /\ pendingInputs' = pendingInputs
    BY <2>1, <2>2, <2>4
  <2>5. CASE mem'.users = mem.users /\ steering' = <<>> /\ pendingInputs' = pendingInputs \o steering
    BY <2>1, <2>2, <2>5
  <2>. QED BY <2>3, <2>4, <2>5 DEF TextsMove
<1>0. /\ mem'.users \in Seq(Nat) /\ steering' \in Seq(Nat) /\ pendingInputs' \in Seq(Nat)
      /\ n.typed \in Nat
  <2>1. Seq(0..MaxInputs) \subseteq Seq(Nat) /\ Seq(1..MaxInputs) \subseteq Seq(Nat)
    BY RunConstants, SeqMonotonic
  <2>. QED BY <2>1 DEF RunTypeInv, SessionsTyped, Sessions, TextsTyped, CountsTyped, CountType
<1>2. TextsHeld'
  <2>1. ASSUME NEW t \in 1..MaxInputs
        PROVE  Times(t, mem'.users) + Times(t, steering') + Times(t, pendingInputs')
                 + (IF t = prompt THEN 1 ELSE 0) = Owed(t)
    BY <1>1 DEF TextInv, TextsHeld
  <2>. QED BY <2>1 DEF TextsHeld, Owed
<1>3. TextsGivenUp'
  BY DEF TextInv, TextsGivenUp
<1>4. TextsCopied'
  <2> SUFFICES ASSUME NEW t \in 1..MaxInputs
               PROVE  /\ Times(t, baseline'.users) <= Times(t, mem'.users)
                      /\ Times(t, disk'.users) <= IF t <= n'.typed THEN 1 ELSE 0
    BY DEF TextsCopied
  <2>1. /\ Times(t, mem.users) \in Nat /\ Times(t, steering) \in Nat
        /\ Times(t, pendingInputs) \in Nat /\ Times(t, baseline.users) \in Nat
        /\ Times(t, mem'.users) \in Nat /\ Times(t, steering') \in Nat
        /\ Times(t, pendingInputs') \in Nat
        /\ n.typed \in Nat /\ t \in Nat /\ 0 # t
    BY <1>0, TextSequences, TimesType, RunConstants
  <2>2. Times(t, NoSession.users) = 0
    BY <2>1, NoTextInNoSession
  <2>3. /\ Times(t, baseline.users) <= Times(t, mem.users)
        /\ Times(t, disk.users) <= IF t <= n.typed THEN 1 ELSE 0
    BY DEF TextInv, TextsCopied
  <2>7. Times(t, mem.users) + Times(t, steering) + Times(t, pendingInputs)
          <= IF t <= n.typed THEN 1 ELSE 0
    <3>1. Times(t, mem.users) + Times(t, steering) + Times(t, pendingInputs)
            + (IF t = prompt THEN 1 ELSE 0) <= IF t <= n.typed THEN 1 ELSE 0
      BY DEF TextInv, TextsHeld, Owed
    <3>. QED BY <2>1, <3>1
  <2>4. Times(t, mem.users) <= IF t <= n.typed THEN 1 ELSE 0
    BY <2>1, <2>7
  <2>5. Times(t, mem'.users) <= IF t <= n.typed THEN 1 ELSE 0
    <3>1. Times(t, mem'.users) + Times(t, steering') + Times(t, pendingInputs')
            <= IF t <= n.typed THEN 1 ELSE 0
      BY <1>1, <2>1, <2>7
    <3>. QED BY <2>1, <3>1
  <2>6. Times(t, baseline'.users) <= Times(t, mem'.users)
    BY <1>1, <2>1, <2>2, <2>3
  <2>. QED BY <2>3, <2>4, <2>5, <2>6
<1>. QED BY <1>2, <1>3, <1>4 DEF TextInv

LEMMA TextInit == RunInit => TextInv
<1> SUFFICES ASSUME RunInit PROVE TextInv
  OBVIOUS
<1>1. \A t : Times(t, <<>>) = 0 /\ Times(t, NoSession.users) = IF t = 0 THEN 1 ELSE 0
  BY TimesOne, NoTextInNoSession
<1>2. /\ mem.users = <<>> /\ disk.users = <<>> /\ baseline.users = NoSession.users
      /\ steering = <<>> /\ pendingInputs = <<>> /\ prompt = 0 /\ n.typed = 0
      /\ h.dropped = {} /\ pc = "idle"
  BY DEF RunInit, EmptySession
<1>3. \A t \in 1..MaxInputs : t > 0
  BY RunConstants
<1>. QED BY <1>1, <1>2, <1>3, RunConstants
       DEF TextInv, TextsHeld, Owed, TextsGivenUp, TextsCopied

\* What is left to show of a step of a text by itself.
LEMMA TextCounts ==
  ASSUME RunTypeInv, TextInv, NEW t \in 1..MaxInputs
  PROVE  /\ Times(t, mem.users) \in Nat /\ Times(t, steering) \in Nat
         /\ Times(t, pendingInputs) \in Nat /\ Times(t, baseline.users) \in Nat
         /\ Times(t, disk.users) \in Nat
         /\ t \in Nat \ {0} /\ n.typed \in Nat /\ prompt \in Nat
         /\ Times(t, <<>>) = 0 /\ Times(t, NoSession.users) = 0
         /\ Times(t, mem.users) + Times(t, steering) + Times(t, pendingInputs)
              + (IF t = prompt THEN 1 ELSE 0) = IF t <= n.typed /\ t \notin h.dropped THEN 1 ELSE 0
         /\ t \in h.dropped => t <= n.typed
         /\ Times(t, baseline.users) <= Times(t, mem.users)
         /\ Times(t, disk.users) <= IF t <= n.typed THEN 1 ELSE 0
<1>1. t \in Nat \ {0} /\ n.typed \in Nat /\ prompt \in Nat
  BY RunConstants DEF RunTypeInv, TextsTyped, CountsTyped, CountType
<1>. QED BY <1>1, TextSequences, TimesOne, NoTextInNoSession
       DEF TextInv, TextsHeld, Owed, TextsGivenUp, TextsCopied

\* A text that is not owed is nowhere; one that is owed is in the call of run() or
\* in one other place.
LEMMA TextCases ==
  ASSUME RunTypeInv, TextInv, NEW t \in 1..MaxInputs
  PROVE  /\ ~(t <= n.typed) \/ t \in h.dropped =>
              /\ Times(t, mem.users) = 0 /\ Times(t, steering) = 0
              /\ Times(t, pendingInputs) = 0 /\ Times(t, baseline.users) = 0 /\ t # prompt
         /\ t <= n.typed /\ t \notin h.dropped =>
              Times(t, mem.users) + Times(t, steering) + Times(t, pendingInputs)
                = IF t = prompt THEN 0 ELSE 1
         /\ ~(t <= n.typed) => t \notin h.dropped /\ Times(t, disk.users) = 0
         /\ Times(t, mem.users) \in {0, 1} /\ Times(t, disk.users) \in {0, 1}
<1>1. PICK a \in Nat, b \in Nat, c \in Nat, d \in Nat, e \in Nat :
        /\ a = Times(t, mem.users) /\ b = Times(t, steering) /\ c = Times(t, pendingInputs)
        /\ d = Times(t, baseline.users) /\ e = Times(t, disk.users)
  BY TextCounts
<1>2. PICK p \in {0, 1} : p = IF t = prompt THEN 1 ELSE 0
  OBVIOUS
<1>3. PICK o \in {0, 1} : o = Owed(t)
  BY DEF Owed
<1>4. a + b + c + p = o
  BY <1>1, <1>2, <1>3 DEF TextInv, TextsHeld
<1>5. d <= a /\ (~(t <= n.typed) => e <= 0) /\ e <= 1 /\ (t \in h.dropped => t <= n.typed)
  BY <1>1, TextCounts
<1>6. ~(t <= n.typed) \/ t \in h.dropped => o = 0
  BY <1>3 DEF Owed
<1>7. t <= n.typed /\ t \notin h.dropped => o = 1
  BY <1>3 DEF Owed
<1>8. o = 0 => a = 0 /\ b = 0 /\ c = 0 /\ d = 0 /\ p = 0
  BY <1>4, <1>5
<1>9. o = 1 => a + b + c = 1 - p
  BY <1>4
<1>10. a \in {0, 1} /\ e \in {0, 1} /\ (~(t <= n.typed) => e = 0)
  BY <1>4, <1>5
<1>. QED BY <1>1, <1>2, <1>5, <1>6, <1>7, <1>8, <1>9, <1>10

\* Enter while the run works.
LEMMA TextTyped ==
  ASSUME RunTypeInv, TextInv, TypeText
  PROVE  TextInv'
<1>1. /\ mem' = mem /\ disk' = disk /\ baseline' = baseline /\ pendingInputs' = pendingInputs
      /\ prompt' = prompt /\ h' = h /\ pc' = pc
      /\ steering' = Append(steering, n.typed + 1) /\ n'.typed = n.typed + 1
      /\ n.typed \in Nat
  BY DEF TypeText, session, RunTypeInv, CountsTyped, CountType
<1>2. \A t : Times(t, Append(steering, n.typed + 1))
               = Times(t, steering) + IF t = n.typed + 1 THEN 1 ELSE 0
  <2>1. steering \in Seq(Nat) /\ n.typed + 1 \in Nat
    BY <1>1, TextSequences
  <2>2. PICK y \in Nat : y = n.typed + 1
    BY <2>1
  <2>3. \A t : Times(t, Append(steering, y)) = Times(t, steering) + IF t = y THEN 1 ELSE 0
    BY <2>1, <2>2, TimesAppend
  <2>. QED BY <2>2, <2>3
<1>3. ASSUME NEW t \in 1..MaxInputs
      PROVE  /\ Times(t, mem.users) + Times(t, steering') + Times(t, pendingInputs)
                  + (IF t = prompt THEN 1 ELSE 0)
                  = IF t <= n.typed + 1 /\ t \notin h.dropped THEN 1 ELSE 0
             /\ t \in h.dropped => t <= n.typed + 1
             /\ Times(t, disk.users) <= IF t <= n.typed + 1 THEN 1 ELSE 0
  <2>1. Times(t, steering') = Times(t, steering) + IF t = n.typed + 1 THEN 1 ELSE 0
    BY <1>1, <1>2
  <2>2. CASE t = n.typed + 1
    <3>1. ~(t <= n.typed) /\ t <= n.typed + 1
      BY <1>1, <2>2
    <3>. QED BY <2>1, <2>2, <3>1, TextCases
  <2>3. CASE t # n.typed + 1
    <3>1. (t <= n.typed + 1 <=> t <= n.typed) /\ Times(t, steering) \in Nat
      BY <1>1, <2>3, TextCounts
    <3>2. Times(t, steering') = Times(t, steering)
      BY <2>1, <2>3, <3>1
    <3>. QED BY <3>1, <3>2, TextCounts
  <2>. QED BY <2>2, <2>3
<1>. QED BY <1>1, <1>3 DEF TextInv, TextsHeld, Owed, TextsGivenUp, TextsCopied

\* Enter at the prompt, or the next text of the queue.
LEMMA TextStarted ==
  ASSUME RunTypeInv, TextInv, StartRun
  PROVE  TextInv'
<1>1. /\ mem' = mem /\ disk' = disk /\ baseline' = baseline /\ steering' = steering
      /\ h'.dropped = h.dropped /\ pc = "idle" /\ pc' = "starting" /\ n.typed \in Nat
      /\ prompt = 0
  BY DEF StartRun, session, RunTypeInv, CountsTyped, CountType, TextInv, TextsGivenUp
<1>2. CASE pendingInputs = <<>>
  <2>1. prompt' = n.typed + 1 /\ n'.typed = n.typed + 1 /\ pendingInputs' = pendingInputs
    BY <1>2 DEF StartRun, RunTypeInv, CountsTyped, CountType
  <2>2. ASSUME NEW t \in 1..MaxInputs
        PROVE  /\ Times(t, mem.users) + Times(t, steering) + Times(t, pendingInputs)
                    + (IF t = n.typed + 1 THEN 1 ELSE 0)
                    = IF t <= n.typed + 1 /\ t \notin h.dropped THEN 1 ELSE 0
               /\ t \in h.dropped => t <= n.typed + 1
               /\ Times(t, disk.users) <= IF t <= n.typed + 1 THEN 1 ELSE 0
    <3>1. CASE t = n.typed + 1
      <4>1. ~(t <= n.typed) /\ t <= n.typed + 1
        BY <1>1, <3>1
      <4>. QED BY <3>1, <4>1, TextCases
    <3>2. CASE t # n.typed + 1
      <4>1. (t <= n.typed + 1 <=> t <= n.typed) /\ t # prompt
        BY <1>1, <3>2, TextCounts
      <4>. QED BY <3>2, <4>1, TextCounts
    <3>. QED BY <3>1, <3>2
  <2>. QED BY <1>1, <2>1, <2>2 DEF TextInv, TextsHeld, Owed, TextsGivenUp, TextsCopied
<1>3. CASE pendingInputs # <<>>
  <2>1. prompt' = Head(pendingInputs) /\ pendingInputs' = Tail(pendingInputs) /\ n'.typed = n.typed
    BY <1>3 DEF StartRun, RunTypeInv, CountsTyped, CountType
  <2>2. Head(pendingInputs) # 0
    <3>1. Head(pendingInputs) \in 1..MaxInputs
      BY <1>3, HeadTailProperties DEF RunTypeInv, TextsTyped
    <3>. QED BY <3>1, RunConstants
  <2>3. /\ \A t : Times(t, pendingInputs) = Times(t, Tail(pendingInputs))
                                              + IF t = Head(pendingInputs) THEN 1 ELSE 0
        /\ \A t : Times(t, Tail(pendingInputs)) \in Nat
    <3>1. pendingInputs \in Seq(Nat)
      BY TextSequences
    <3>2. Tail(pendingInputs) \in Seq(Nat)
      BY <1>3, <3>1, HeadTailProperties
    <3>. QED BY <1>3, <3>1, <3>2, TimesTail, TimesType
  <2>4. ASSUME NEW t \in 1..MaxInputs
        PROVE  Times(t, mem.users) + Times(t, steering) + Times(t, Tail(pendingInputs))
                 + (IF t = Head(pendingInputs) THEN 1 ELSE 0)
                 = IF t <= n.typed /\ t \notin h.dropped THEN 1 ELSE 0
    <3>1. CASE t = Head(pendingInputs)
      BY <1>1, <2>3, <3>1, TextCounts
    <3>2. CASE t # Head(pendingInputs)
      BY <1>1, <2>3, <3>2, TextCounts
    <3>. QED BY <3>1, <3>2
  <2>. QED BY <1>1, <2>1, <2>2, <2>4 DEF TextInv, TextsHeld, Owed, TextsGivenUp, TextsCopied
<1>. QED BY <1>2, <1>3

\* The message enters the history or is refused.
LEMMA TextAccepted ==
  ASSUME RunTypeInv, HistoryFields, TextInv, AcceptPrompt
  PROVE  TextInv'
<1>1. /\ disk' = disk /\ baseline' = baseline /\ steering' = steering
      /\ pendingInputs' = pendingInputs /\ prompt' = 0 /\ n' = n /\ pc' # "starting"
      /\ prompt # 0
  BY DEF AcceptPrompt, Stop, TextInv, TextsGivenUp
<1>2. CASE mem' = [mem EXCEPT !.users = Append(@, prompt)] /\ h' = h
  <2>1. mem'.users = Append(mem.users, prompt)
    BY <1>2 DEF RunTypeInv, SessionsTyped, Sessions
  <2>2. prompt \in Nat
    BY RunConstants DEF RunTypeInv, TextsTyped
  <2>3. \A t : Times(t, mem'.users) = Times(t, mem.users) + IF t = prompt THEN 1 ELSE 0
    <3>1. mem.users \in Seq(Nat)
      BY TextSequences
    <3>2. PICK y \in Nat : y = prompt
      BY <2>2
    <3>3. \A t : Times(t, Append(mem.users, y)) = Times(t, mem.users) + IF t = y THEN 1 ELSE 0
      BY <3>1, <3>2, TimesAppend
    <3>. QED BY <2>1, <3>2, <3>3
  <2>4. ASSUME NEW t \in 1..MaxInputs
        PROVE  /\ Times(t, mem'.users) + Times(t, steering) + Times(t, pendingInputs)
                    + (IF t = 0 THEN 1 ELSE 0)
                    = IF t <= n.typed /\ t \notin h.dropped THEN 1 ELSE 0
               /\ Times(t, baseline.users) <= Times(t, mem'.users)
    <3>1. Times(t, mem'.users) = Times(t, mem.users) + IF t = prompt THEN 1 ELSE 0
      BY <2>3
    <3>2. CASE t = prompt
      BY <3>1, <3>2, TextCounts
    <3>3. CASE t # prompt
      BY <3>1, <3>3, TextCounts
    <3>. QED BY <3>2, <3>3
  <2>. QED BY <1>1, <1>2, <2>4 DEF TextInv, TextsHeld, Owed, TextsGivenUp, TextsCopied
<1>3. CASE mem' = mem /\ h' = [h EXCEPT !.dropped = @ \cup {prompt}]
  <2>1. h'.dropped = h.dropped \cup {prompt}
    BY <1>3 DEF HistoryFields
  <2>2. ASSUME NEW t \in 1..MaxInputs
        PROVE  /\ Times(t, mem.users) + Times(t, steering) + Times(t, pendingInputs)
                    + (IF t = 0 THEN 1 ELSE 0)
                    = IF t <= n.typed /\ t \notin h.dropped \cup {prompt} THEN 1 ELSE 0
               /\ t \in h.dropped \cup {prompt} => t <= n.typed
    <3>1. CASE t = prompt
      BY <3>1, TextCounts
    <3>2. CASE t # prompt
      BY <3>2, TextCounts
    <3>. QED BY <3>1, <3>2
  <2>. QED BY <1>1, <1>3, <2>1, <2>2 DEF TextInv, TextsHeld, Owed, TextsGivenUp, TextsCopied
<1>. QED BY <1>2, <1>3 DEF AcceptPrompt

\* A resumed run that was cut off falls back: what it added is given up.
LEMMA TextRolledBack ==
  ASSUME RunTypeInv, HistoryFields, TextInv, FinallyRollsBack
  PROVE  TextInv'
<1>1. /\ mem' = baseline /\ disk' = disk /\ baseline'.users = NoSession.users /\ steering' = steering
      /\ pendingInputs' = pendingInputs /\ prompt' = prompt /\ n' = n
      /\ h'.dropped = h.dropped \cup (ToSet(mem.users) \ ToSet(baseline.users))
      /\ pc # "starting" /\ pc' # "starting" /\ prompt = 0
  BY DEF FinallyRollsBack, texts, HistoryFields, TextInv, TextsGivenUp
<1>2. \A t : /\ Times(t, mem.users) = 0 <=> t \notin ToSet(mem.users)
             /\ Times(t, baseline.users) = 0 <=> t \notin ToSet(baseline.users)
  BY TextSequences, TimesIn DEF ToSet
<1>3. ASSUME NEW t \in 1..MaxInputs
      PROVE  /\ Times(t, baseline.users) + Times(t, steering) + Times(t, pendingInputs)
                  + (IF t = prompt THEN 1 ELSE 0)
                  = IF t <= n.typed /\ t \notin h'.dropped THEN 1 ELSE 0
             /\ t \in h'.dropped => t <= n.typed
             /\ Times(t, NoSession.users) <= Times(t, baseline.users)
  <2>1. t \in h'.dropped
          <=> (t \in h.dropped \/ (Times(t, mem.users) # 0 /\ Times(t, baseline.users) = 0))
    BY <1>1, <1>2
  <2>2. PICK a \in Nat, b \in Nat, c \in Nat, d \in Nat :
          /\ a = Times(t, mem.users) /\ b = Times(t, steering) /\ c = Times(t, pendingInputs)
          /\ d = Times(t, baseline.users)
    BY TextCounts
  <2>3. /\ a + b + c = IF t <= n.typed /\ t \notin h.dropped THEN 1 ELSE 0
        /\ d <= a /\ t # prompt /\ Times(t, NoSession.users) = 0
        /\ t \in h.dropped => t <= n.typed
    BY <1>1, <2>2, TextCounts
  <2>4. t \in h'.dropped <=> (t \in h.dropped \/ (a # 0 /\ d = 0))
    BY <2>1, <2>2
  <2>5. /\ d + b + c = IF t <= n.typed /\ t \notin h'.dropped THEN 1 ELSE 0
        /\ t \in h'.dropped => t <= n.typed
    <3>1. CASE a = 0
      <4>1. d = 0 /\ (t \in h'.dropped <=> t \in h.dropped)
        BY <2>3, <2>4, <3>1
      <4>. QED BY <2>3, <3>1, <4>1
    <3>2. CASE a # 0
      <4>1. a = 1 /\ b = 0 /\ c = 0 /\ t <= n.typed /\ t \notin h.dropped
        BY <2>3, <3>2
      <4>. QED BY <2>3, <2>4, <4>1
    <3>. QED BY <3>1, <3>2
  <2>. QED BY <2>2, <2>3, <2>5
<1>. QED BY <1>1, <1>3 DEF TextInv, TextsHeld, Owed, TextsGivenUp, TextsCopied

\* The process ends: what the file does not hold is given up.
LEMMA TextCrashed ==
  ASSUME RunTypeInv, RunTypeInv', HistoryFields, TextInv, Crash
  PROVE  TextInv'
<1>1. /\ mem' = disk' /\ disk'.users \in {disk.users, mem.users} /\ baseline'.users = NoSession.users
      /\ steering' = <<>> /\ pendingInputs' = <<>> /\ prompt' = 0 /\ n' = n /\ pc' # "starting"
      /\ h'.dropped = (1..n.typed) \ ToSet(disk'.users)
  BY DEF Crash, HistoryFields, RunTypeInv, SessionsTyped, Sessions
<1>2. disk'.users \in Seq(Nat)
  BY <1>1, TextSequences
<1>3. \A t : Times(t, disk'.users) = 0 <=> t \notin ToSet(disk'.users)
  BY <1>2, TimesIn DEF ToSet
<1>4. ASSUME NEW t \in 1..MaxInputs
      PROVE  /\ Times(t, disk'.users) + Times(t, <<>>) + Times(t, <<>>)
                  + (IF t = 0 THEN 1 ELSE 0)
                  = IF t <= n.typed /\ t \notin h'.dropped THEN 1 ELSE 0
             /\ t \in h'.dropped => t <= n.typed
             /\ Times(t, NoSession.users) <= Times(t, disk'.users)
             /\ Times(t, disk'.users) <= IF t <= n.typed THEN 1 ELSE 0
  <2>1. Times(t, disk'.users) \in Nat
    BY <1>2, TimesType
  <2>2. Times(t, disk'.users) <= IF t <= n.typed THEN 1 ELSE 0
    BY <1>1, TextCases
  <2>3. t \in h'.dropped <=> t <= n.typed /\ Times(t, disk'.users) = 0
    BY <1>1, <1>3, TextCounts
  <2>. QED BY <2>1, <2>2, <2>3, TextCounts
<1>. QED BY <1>1, <1>4 DEF TextInv, TextsHeld, Owed, TextsGivenUp, TextsCopied

LEMMA TextStep ==
  RunTypeInv /\ RunTypeInv' /\ HistoryFields /\ TextInv /\ [RunNext]_vars => TextInv'
<1> SUFFICES ASSUME RunTypeInv, RunTypeInv', HistoryFields, TextInv, [RunNext]_vars
             PROVE  TextInv'
  OBVIOUS
<1>1. mem \in Sessions /\ HistoryFields /\ n \in CountType
  BY DEF RunTypeInv, SessionsTyped, CountsTyped
<1>3. ASSUME NEW ok \in BOOLEAN, n' = CountSave(n, ok) PROVE n'.typed = n.typed
  BY <1>1, <1>3 DEF CountSave, CountType
<1>4. CASE StopAtTop \/ PassBoundary \/ LeavePause \/ StopInReduce \/ Backoff \/ JudgeFails
           \/ FinallyKeeps \/ Esc \/ RequestPause \/ CancelPause \/ AnswerAsk \/ UNCHANGED vars
           \/ \E m \in Calls : StartMain(m) \/ MainFails(m) \/ MainAborted(m) \/ CloseCall(m)
  <2>1. /\ mem' = mem /\ disk' = disk /\ baseline' = baseline /\ UNCHANGED texts
        /\ n'.typed = n.typed /\ h'.dropped = h.dropped /\ (pc' = "starting" <=> pc = "starting")
    BY <1>1, <1>4 DEF HistoryFields, CountType, session, vars, Stop, AtBoundary, CurrentCall,
         StopAtTop, PassBoundary, LeavePause, StopInReduce, Backoff, JudgeFails, FinallyKeeps,
         Esc, RequestPause, CancelPause, AnswerAsk, StartMain, MainFails, MainAborted, CloseCall
  <2>. QED BY <2>1, TextsPassed DEF TextsMove, texts
<1>5. CASE EndTurn
  BY <1>5, TextsPassed DEF EndTurn, TextsMove, texts
<1>6. CASE FinishRequest
  BY <1>6, TextsPassed DEF FinishRequest, Rescue, TextsMove, session
<1>7. CASE PauseAtBoundary
  <2>1. /\ mem'.users = mem.users \o steering /\ steering' = <<>>
        /\ pendingInputs' = pendingInputs /\ prompt' = prompt
        /\ disk' \in {mem', disk} /\ baseline' = baseline /\ h' = h /\ n'.typed = n.typed
        /\ pc' # "starting" /\ pc # "starting"
    BY <1>1, <1>3, <1>7 DEF PauseAtBoundary, Save, Stop, AtBoundary, Sessions
  <2>. QED BY <2>1, TextsPassed DEF TextsMove
<1>8. ASSUME NEW m \in Calls, Reply(m) PROVE TextInv'
  <2>1. /\ \/ mem'.users = mem.users /\ steering' = steering
           \/ mem'.users = mem.users \o steering /\ steering' = <<>>
        /\ pendingInputs' = pendingInputs /\ prompt' = prompt
        /\ disk' = disk /\ baseline' = baseline /\ h' = h /\ n' = n
        /\ pc' # "starting" /\ pc # "starting"
    BY <1>1, <1>8 DEF Reply, CurrentCall, ApplySteering, Sessions
  <2>. QED BY <2>1, TextsPassed DEF TextsMove
<1>9. CASE EndTools \/ JudgePasses
  <2>1. /\ \/ mem'.users = mem.users /\ steering' = steering
           \/ mem'.users = mem.users \o steering /\ steering' = <<>>
        /\ pendingInputs' = pendingInputs /\ prompt' = prompt
        /\ disk' = disk /\ baseline' = baseline /\ h' = h /\ n' = n
        /\ pc' # "starting" /\ pc # "starting"
    BY <1>1, <1>9 DEF EndTools, JudgePasses, Answered, ApplySteering, Stop, Sessions
  <2>. QED BY <2>1, TextsPassed DEF TextsMove
<1>10. CASE FinallyDeletes
  <2>1. /\ mem'.users = mem.users /\ prompt' = prompt /\ disk' \in {mem', disk}
        /\ baseline' \in {baseline, NoSession} /\ h'.dropped = h.dropped /\ n'.typed = n.typed
        /\ \/ steering' = steering /\ pendingInputs' = pendingInputs
           \/ steering' = <<>> /\ pendingInputs' = pendingInputs \o steering
        /\ pc' # "starting" /\ pc # "starting"
    BY <1>1, <1>3, <1>10 DEF FinallyDeletes, Save, Rescue, Sessions, HistoryFields
  <2>. QED BY <2>1, TextsPassed DEF TextsMove
<1>11. CASE ResumePaused
  <2>1. /\ mem'.users = mem.users /\ UNCHANGED texts /\ disk' \in {mem', disk}
        /\ baseline' \in {baseline, mem'} /\ h'.dropped = h.dropped /\ n'.typed = n.typed
        /\ pc' = pc
    BY <1>1, <1>3, <1>11
       DEF ResumePaused, Save, WithCkptState, CountResume, Sessions, HistoryFields
  <2>. QED BY <2>1, TextsPassed DEF TextsMove, texts
<1>12. CASE ResumeSaved
  <2>1. /\ mem'.users = mem.users /\ UNCHANGED texts /\ disk' \in {mem', disk}
        /\ baseline' \in {baseline, mem'} /\ h'.dropped = h.dropped /\ n'.typed = n.typed
        /\ pc' # "starting" /\ pc # "starting"
    BY <1>1, <1>3, <1>12
       DEF ResumeSaved, Save, WithCkptState, CountResume, Sessions, HistoryFields, CountType
  <2>. QED BY <2>1, TextsPassed DEF TextsMove, texts
<1>13. CASE Discard
  <2>1. /\ mem'.users = mem.users /\ UNCHANGED texts /\ disk' \in {mem', disk}
        /\ baseline' = baseline /\ h' = h /\ n'.typed = n.typed /\ pc' = pc
    BY <1>1, <1>3, <1>13 DEF Discard, Save, Sessions
  <2>. QED BY <2>1, TextsPassed DEF TextsMove, texts
<1>. QED
  BY <1>4, <1>5, <1>6, <1>7, <1>8, <1>9, <1>10, <1>11, <1>12, <1>13,
     TextTyped, TextStarted, TextAccepted, TextRolledBack, TextCrashed
     DEF RunNext, RunStep, UserStep

\* Every text the user typed is in exactly one place, over boundaries, rescues,
\* resumed runs, failed saves and restarts, unless it was refused, rolled back or
\* lost with the process.
THEOREM TypedTextsAreKept == RunSpec => []NothingTypedIsLost
<1>1. RunInit => HistoryFields
  BY DEF RunInit, HistoryFields
<1>2. HistoryFields /\ [RunNext]_vars => HistoryFields'
  BY HistoryStep
<1>3. QED
  BY <1>1, <1>2, TextInit, TextStep, TextInvMeaning, RunTypeInvariant, PTL DEF RunSpec
=============================================================================
