----------------------------- MODULE RunApiGate -----------------------------
(***************************************************************************)
(* class RunApiGate, src/src/agent/run-api-gate.ts: the pause gate of the  *)
(* foreground run.  Every chat call of the main provider goes through      *)
(* EnterRequest / LeaveRequest; the agent loop stops at PauseAtBoundary.   *)
(*                                                                         *)
(* A promise is a number: 'promise' is the unresolved pausePromise (0 when *)
(* there is none), a call that awaits any other number awaits a resolved   *)
(* promise and its continuation is queued.  Continuations run before the   *)
(* next event of the process (Node drains microtasks first), so the one    *)
(* action that only a key press can start, RequestPause, waits for         *)
(* Drained; every other action may interleave with the continuations.      *)
(* Early returns that change nothing are stuttering steps.                 *)
(***************************************************************************)
EXTENDS Integers, FiniteSets

CONSTANTS Requests,     \* concurrent chat calls of the gated provider
          Checkpoints,  \* callers of pauseAtBoundary / waitUntilRunning
          MaxEpoch,     \* bound: beginRun / finishRun calls of one process
          MaxPromises   \* bound: pause promises of one process

ASSUME GateConstants ==
  /\ IsFiniteSet(Requests)
  /\ MaxEpoch \in Nat
  /\ MaxPromises \in Nat

VARIABLES state,     \* RunPauseState
          source,    \* who started the run; "none" when idle
          inFlight,  \* tracked calls of this epoch, as the code counts them
          epoch,     \* bumped when a run begins and when it ends
          promise,   \* the unresolved pausePromise, 0 = null
          made,      \* promises created so far
          req,       \* the chat calls
          cp         \* the checkpoints

gateVars == <<state, source, inFlight, epoch, promise, made, req, cp>>

States  == {"idle", "running", "pause_requested", "paused"}
Sources == {"cli", "remote"}

Off == [phase |-> "off", tracked |-> FALSE, epoch |-> 0, awaits |-> 0]
Away == [phase |-> "away", epoch |-> 0, awaits |-> 0]

GateInit ==
  /\ state = "idle" /\ source = "none"
  /\ inFlight = 0 /\ epoch = 0
  /\ promise = 0 /\ made = 0
  /\ req = [r \in Requests |-> Off]
  /\ cp = [c \in Checkpoints |-> Away]

ReleaseWaiters == promise' = 0 /\ made' = made

EnsurePausePromise ==
  IF promise # 0 THEN UNCHANGED <<promise, made>>
                 ELSE promise' = made + 1 /\ made' = made + 1

IsActiveEpoch(e) == epoch = e /\ state # "idle"

\* No continuation of a resolved pause promise is still queued.
Drained ==
  /\ \A r \in Requests : req[r].phase = "waiting" => req[r].awaits = promise
  /\ \A c \in Checkpoints : cp[c].phase = "waiting" => cp[c].awaits = promise

-----------------------------------------------------------------------------
BeginRun(src) ==
  /\ epoch < MaxEpoch
  /\ ReleaseWaiters
  /\ epoch' = epoch + 1
  /\ state' = "running"
  /\ source' = src
  /\ inFlight' = 0
  /\ UNCHANGED <<req, cp>>

\* Mutant: the end of a run forgets the waiters.
FinishRunForgetsWaiters ==
  /\ epoch < MaxEpoch
  /\ epoch' = epoch + 1
  /\ state' = "idle" /\ source' = "none" /\ inFlight' = 0
  /\ UNCHANGED <<promise, made, req, cp>>

FinishRun ==
  /\ epoch < MaxEpoch
  /\ ReleaseWaiters
  /\ epoch' = epoch + 1
  /\ state' = "idle"
  /\ source' = "none"
  /\ inFlight' = 0
  /\ UNCHANGED <<req, cp>>

\* Mutant: an abort goes on without releasing the waiters.
AbortRunForgetsWaiters ==
  /\ state \in {"pause_requested", "paused"}
  /\ state' = "running"
  /\ UNCHANGED <<source, inFlight, epoch, promise, made, req, cp>>

AbortRun ==
  /\ state \in {"pause_requested", "paused"}
  /\ state' = "running"
  /\ ReleaseWaiters
  /\ UNCHANGED <<source, inFlight, epoch, req, cp>>

RequestPause ==
  /\ Drained
  /\ state = "running" /\ source = "cli"
  /\ made < MaxPromises
  /\ state' = "pause_requested"
  /\ EnsurePausePromise
  /\ UNCHANGED <<source, inFlight, epoch, req, cp>>

Resume ==
  /\ state \in {"pause_requested", "paused"} /\ source = "cli"
  /\ state' = "running"
  /\ ReleaseWaiters
  /\ UNCHANGED <<source, inFlight, epoch, req, cp>>

-----------------------------------------------------------------------------
EnterRequest(r) ==
  /\ req[r].phase = "off"
  /\ \/ /\ state = "idle"
        /\ req' = [req EXCEPT ![r] = [phase |-> "active", tracked |-> FALSE,
                                      epoch |-> epoch, awaits |-> 0]]
        /\ UNCHANGED <<inFlight, promise, made>>
     \/ /\ state = "paused"
        /\ EnsurePausePromise
        /\ req' = [req EXCEPT ![r] = [phase |-> "waiting", tracked |-> FALSE,
                                      epoch |-> epoch, awaits |-> promise']]
        /\ UNCHANGED inFlight
     \/ /\ state \in {"running", "pause_requested"}
        /\ inFlight' = inFlight + 1
        /\ req' = [req EXCEPT ![r] = [phase |-> "active", tracked |-> TRUE,
                                      epoch |-> epoch, awaits |-> 0]]
        /\ UNCHANGED <<promise, made>>
  /\ UNCHANGED <<state, source, epoch, cp>>

\* The awaited pause was released: the call starts, unless its run is over.
WakeRequest(r) ==
  /\ req[r].phase = "waiting" /\ req[r].awaits # promise
  /\ IF IsActiveEpoch(req[r].epoch)
     THEN /\ inFlight' = inFlight + 1
          /\ req' = [req EXCEPT ![r] = [phase |-> "active", tracked |-> TRUE,
                                        epoch |-> req[r].epoch, awaits |-> 0]]
     ELSE /\ req' = [req EXCEPT ![r] = Off]
          /\ UNCHANGED inFlight
  /\ UNCHANGED <<state, source, epoch, promise, made, cp>>

\* The signal of a waiting call is aborted: enterRequest returns null.
AbortWaiting(r) ==
  /\ req[r].phase = "waiting"
  /\ req' = [req EXCEPT ![r] = Off]
  /\ UNCHANGED <<state, source, inFlight, epoch, promise, made, cp>>

\* Mutants: the count is given back by every call; by calls of any run.
LeaveRequestUntracked(r) ==
  /\ req[r].phase = "active"
  /\ inFlight' = inFlight - 1
  /\ req' = [req EXCEPT ![r] = Off]
  /\ UNCHANGED <<state, source, epoch, promise, made, cp>>

LeaveRequestAnyEpoch(r) ==
  /\ req[r].phase = "active"
  /\ inFlight' = IF req[r].tracked /\ inFlight > 0 THEN inFlight - 1 ELSE inFlight
  /\ req' = [req EXCEPT ![r] = Off]
  /\ UNCHANGED <<state, source, epoch, promise, made, cp>>

LeaveRequest(r) ==
  /\ req[r].phase = "active"
  /\ inFlight' = IF req[r].tracked /\ req[r].epoch = epoch /\ inFlight > 0
                 THEN inFlight - 1 ELSE inFlight
  /\ req' = [req EXCEPT ![r] = Off]
  /\ UNCHANGED <<state, source, epoch, promise, made, cp>>

-----------------------------------------------------------------------------
\* Mutant: the boundary pauses without looking at the calls in flight.
PauseAtBoundaryAtOnce(c) ==
  /\ cp[c].phase = "away"
  /\ state = "pause_requested"
  /\ state' = "paused"
  /\ EnsurePausePromise
  /\ cp' = [cp EXCEPT ![c] = [phase |-> "waiting", epoch |-> epoch,
                              awaits |-> promise']]
  /\ UNCHANGED <<source, inFlight, epoch, req>>

\* With a pending request and no call in flight the run pauses and waits; in
\* every other case pauseAtBoundary returns true and changes nothing.
PauseAtBoundary(c) ==
  /\ cp[c].phase = "away"
  /\ state = "pause_requested" /\ inFlight = 0
  /\ state' = "paused"
  /\ EnsurePausePromise
  /\ cp' = [cp EXCEPT ![c] = [phase |-> "waiting", epoch |-> epoch,
                              awaits |-> promise']]
  /\ UNCHANGED <<source, inFlight, epoch, req>>

WaitUntilRunning(c) ==
  /\ cp[c].phase = "away"
  /\ state = "paused"
  /\ EnsurePausePromise
  /\ cp' = [cp EXCEPT ![c] = [phase |-> "waiting", epoch |-> epoch,
                              awaits |-> promise']]
  /\ UNCHANGED <<state, source, inFlight, epoch, req>>

\* The caller goes on when IsActiveEpoch(cp[c].epoch), and gives up otherwise.
WakeCheckpoint(c) ==
  /\ cp[c].phase = "waiting" /\ cp[c].awaits # promise
  /\ cp' = [cp EXCEPT ![c] = Away]
  /\ UNCHANGED <<state, source, inFlight, epoch, promise, made, req>>

\* The process ends; the next one constructs a new gate.
Restart ==
  /\ state' = "idle" /\ source' = "none"
  /\ inFlight' = 0 /\ epoch' = 0
  /\ promise' = 0 /\ made' = 0
  /\ req' = [r \in Requests |-> Off]
  /\ cp' = [c \in Checkpoints |-> Away]

-----------------------------------------------------------------------------
RequestStep(r) == EnterRequest(r) \/ WakeRequest(r) \/ AbortWaiting(r) \/ LeaveRequest(r)
CheckpointStep(c) == PauseAtBoundary(c) \/ WaitUntilRunning(c) \/ WakeCheckpoint(c)

GateNext ==
  \/ \E src \in Sources : BeginRun(src)
  \/ FinishRun \/ AbortRun \/ RequestPause \/ Resume \/ Restart
  \/ \E r \in Requests : RequestStep(r)
  \/ \E c \in Checkpoints : CheckpointStep(c)

GateSpec == GateInit /\ [][GateNext]_gateVars

\* Queued continuations run: Node never leaves a resolved await behind.
GateFairness ==
  /\ \A r \in Requests : WF_gateVars(WakeRequest(r))
  /\ \A c \in Checkpoints : WF_gateVars(WakeCheckpoint(c))

FairGateSpec == GateSpec /\ GateFairness

-----------------------------------------------------------------------------
\* The types of the gate's fields; the count in particular never goes negative.
GateTypeOK ==
  /\ state \in States
  /\ source \in Sources \cup {"none"}
  /\ inFlight \in Nat /\ epoch \in Nat /\ promise \in Nat /\ made \in Nat
  /\ req \in [Requests -> [phase : {"off", "waiting", "active"}, tracked : BOOLEAN,
                           epoch : Nat, awaits : Nat]]
  /\ cp \in [Checkpoints -> [phase : {"away", "waiting"}, epoch : Nat, awaits : Nat]]

\* The calls the current run has on the wire.
Open == {r \in Requests : /\ req[r].phase = "active" /\ req[r].tracked
                          /\ req[r].epoch = epoch}

\* The calls the current run has parked.
Parked == {r \in Requests : /\ req[r].phase = "waiting"
                            /\ IsActiveEpoch(req[r].epoch)}

\* The counter is exact: whatever calls of earlier runs, or calls begun while
\* no run was active, return late, inFlight is the number of the run's own
\* open calls.  (An inexact count either never lets the boundary pause or lets
\* it pause under an open connection.)
InFlightExact == inFlight = Cardinality(Open)

\* "API connections in flight are not cut; while paused only new connections
\* are made to wait" (run-api-gate.ts:28): at the pause the run has none.
PausedIsQuiet == state = "paused" => Open = {}

\* Whoever waits, waits either for a released promise or for the one the next
\* resume, abort, begin or finish of a paused run resolves: nobody holds a
\* promise that was forgotten.
WaitersReleasable ==
  /\ promise # 0 => state \in {"pause_requested", "paused"}
  /\ \A r \in Requests :
       req[r].phase = "waiting" /\ req[r].awaits = promise => state = "paused"
  /\ \A c \in Checkpoints :
       cp[c].phase = "waiting" /\ cp[c].awaits = promise => state = "paused"

\* Epochs, promises and counters implement the barrier.
Barrier == INSTANCE RunBarrier WITH open <- Open, parked <- Parked
ImplementsBarrier == Barrier!BarrierSpec

\* A call or a checkpoint waits for ever only when the run stays paused.
NobodyStranded ==
  /\ \A r \in Requests : <>[](req[r].phase = "waiting") => <>[](state = "paused")
  /\ \A c \in Checkpoints : <>[](cp[c].phase = "waiting") => <>[](state = "paused")
=============================================================================
