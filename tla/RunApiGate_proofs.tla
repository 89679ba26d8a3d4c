-------------------------- MODULE RunApiGate_proofs --------------------------
(***************************************************************************)
(* Safety of RunApiGate for every set of calls and every bound: the types, *)
(* the exact count, the quiet pause, the releasable waiters, and the       *)
(* implementation of RunBarrier.                                           *)
(***************************************************************************)
EXTENDS RunApiGate, FiniteSetTheorems, TLAPS

-----------------------------------------------------------------------------
(* The inductive invariant, part by part. *)

\* A promise is pending exactly while a pause is requested or reached.
PromiseMatchesState ==
  /\ promise # 0 <=> state \in {"pause_requested", "paused"}
  /\ promise <= made

\* Whoever waits holds a promise that was made, and the pending one only in a pause.
WaitersHoldMade ==
  /\ \A r \in Requests : req[r].phase = "waiting" =>
       /\ req[r].awaits # 0 /\ req[r].awaits <= made
       /\ req[r].awaits = promise => state = "paused"
  /\ \A c \in Checkpoints : cp[c].phase = "waiting" =>
       /\ cp[c].awaits # 0 /\ cp[c].awaits <= made
       /\ cp[c].awaits = promise => state = "paused"

\* A pause begins with no continuation of an earlier one still queued.
PauseIsDrained == state \in {"pause_requested", "paused"} => Drained

\* No call belongs to a run that has not begun.
EpochsPast == \A r \in Requests : req[r].epoch <= epoch

PausedCountZero == state = "paused" => inFlight = 0

GateInv ==
  /\ GateTypeOK
  /\ PromiseMatchesState
  /\ WaitersHoldMade
  /\ PauseIsDrained
  /\ EpochsPast
  /\ PausedCountZero
  /\ InFlightExact

-----------------------------------------------------------------------------
(* What one step does to the set of open calls. *)

\* Open calls are finitely many, so their number can be counted.
LEMMA OpenFinite == IsFiniteSet(Open) /\ IsFiniteSet(Open')
<1>1. Open \subseteq Requests /\ Open' \subseteq Requests
  BY DEF Open
<1>2. QED
  BY <1>1, GateConstants, FS_Subset

\* Adding a call that was not open adds one to the count.
LEMMA CountAdd ==
  ASSUME NEW r \in Requests, r \notin Open, Open' = Open \cup {r},
         InFlightExact, inFlight' = inFlight + 1
  PROVE  InFlightExact'
<1>1. Cardinality(Open \cup {r}) = Cardinality(Open) + 1
  BY OpenFinite, FS_AddElement
<1>2. QED
  BY <1>1 DEF InFlightExact

\* Removing an open call takes one from the count, which was positive.
LEMMA CountRemove ==
  ASSUME NEW r \in Requests, r \in Open, InFlightExact
  PROVE  /\ inFlight > 0
         /\ Open' = Open \ {r} /\ inFlight' = inFlight - 1 => InFlightExact'
<1>1. Cardinality(Open \ {r}) = Cardinality(Open) - 1
  BY OpenFinite, FS_RemoveElement
<1>2. Cardinality(Open) \in Nat /\ Cardinality(Open \ {r}) \in Nat
  <2>1. IsFiniteSet(Open \ {r})
    BY OpenFinite, FS_RemoveElement
  <2>2. QED
    BY <2>1, OpenFinite, FS_CardinalityType
<1>3. inFlight = Cardinality(Open)
  BY DEF InFlightExact
<1>4. inFlight > 0
  BY <1>1, <1>2, <1>3
<1>5. ASSUME Open' = Open \ {r}, inFlight' = inFlight - 1
      PROVE  InFlightExact'
  <2>1. inFlight' = Cardinality(Open')
    BY <1>1, <1>3, <1>5
  <2>2. QED
    BY <2>1 DEF InFlightExact
<1>6. QED
  BY <1>4, <1>5

\* A run that begins or ends has no open call: every call is of an older epoch.
LEMMA NewEpochEmpty ==
  ASSUME GateTypeOK, EpochsPast, epoch' = epoch + 1, req' = req, inFlight' = 0
  PROVE  Open' = {} /\ InFlightExact'
<1>1. Open' = {}
  BY DEF GateTypeOK, EpochsPast, Open
<1>2. QED
  BY <1>1, FS_EmptySet DEF InFlightExact

-----------------------------------------------------------------------------
\* The gate of a new process satisfies the invariant.
LEMMA GateInvInit == GateInit => GateInv
<1> SUFFICES ASSUME GateInit PROVE GateInv
  OBVIOUS
<1>1. GateTypeOK
  BY DEF GateInit, GateTypeOK, States, Sources, Off, Away
<1>2. PromiseMatchesState /\ WaitersHoldMade /\ PauseIsDrained /\ EpochsPast /\ PausedCountZero
  BY DEF GateInit, PromiseMatchesState, WaitersHoldMade, PauseIsDrained, Drained,
         EpochsPast, PausedCountZero, Off, Away
<1>3. InFlightExact
  <2>1. Open = {}
    BY DEF GateInit, Open, Off
  <2>2. QED
    BY <2>1, FS_EmptySet DEF GateInit, InFlightExact
<1>4. QED
  BY <1>1, <1>2, <1>3 DEF GateInv

\* beginRun and finishRun: the epoch changes, all waiters are released.
LEMMA GateInvEpoch ==
  ASSUME GateInv, ReleaseWaiters, epoch' = epoch + 1, inFlight' = 0,
         state' \in {"idle", "running"}, source' \in Sources \cup {"none"},
         UNCHANGED <<req, cp>>
  PROVE  GateInv'
<1>1. GateTypeOK'
  BY DEF GateInv, GateTypeOK, ReleaseWaiters, States
<1>2. PromiseMatchesState' /\ PauseIsDrained' /\ PausedCountZero'
  BY DEF GateInv, GateTypeOK, ReleaseWaiters, PromiseMatchesState, PauseIsDrained, PausedCountZero
<1>3. WaitersHoldMade'
  BY DEF GateInv, ReleaseWaiters, WaitersHoldMade
<1>4. EpochsPast'
  BY DEF GateInv, GateTypeOK, EpochsPast
<1>5. InFlightExact'
  BY NewEpochEmpty DEF GateInv
<1>6. QED
  BY <1>1, <1>2, <1>3, <1>4, <1>5 DEF GateInv

\* abortRun and resume: the pause is withdrawn, all waiters are released.
LEMMA GateInvRelease ==
  ASSUME GateInv, ReleaseWaiters, state' = "running",
         UNCHANGED <<source, inFlight, epoch, req, cp>>
  PROVE  GateInv'
<1>1. GateTypeOK'
  BY DEF GateInv, GateTypeOK, ReleaseWaiters, States
<1>2. PromiseMatchesState' /\ PauseIsDrained' /\ PausedCountZero' /\ EpochsPast'
  BY DEF GateInv, GateTypeOK, ReleaseWaiters, PromiseMatchesState, PauseIsDrained,
         PausedCountZero, EpochsPast
<1>3. WaitersHoldMade'
  BY DEF GateInv, ReleaseWaiters, WaitersHoldMade
<1>4. InFlightExact'
  BY DEF GateInv, InFlightExact, Open
<1>5. QED
  BY <1>1, <1>2, <1>3, <1>4 DEF GateInv

\* requestPause: drained, so nobody waits, and the new promise is nobody's yet.
LEMMA GateInvRequestPause == GateInv /\ RequestPause => GateInv'
<1> SUFFICES ASSUME GateInv, RequestPause PROVE GateInv'
  OBVIOUS
<1>1. promise = 0 /\ promise' = made + 1 /\ made' = made + 1 /\ made \in Nat
  BY DEF GateInv, GateTypeOK, RequestPause, PromiseMatchesState, EnsurePausePromise
<1>2. /\ \A r \in Requests : req[r].phase # "waiting"
      /\ \A c \in Checkpoints : cp[c].phase # "waiting"
  BY <1>1 DEF GateInv, RequestPause, Drained, WaitersHoldMade
<1>3. GateTypeOK'
  BY <1>1 DEF GateInv, GateTypeOK, RequestPause, States
<1>4. PromiseMatchesState' /\ PausedCountZero' /\ EpochsPast'
  BY <1>1 DEF GateInv, GateTypeOK, RequestPause, PromiseMatchesState, PausedCountZero, EpochsPast
<1>5. WaitersHoldMade' /\ PauseIsDrained'
  BY <1>2 DEF RequestPause, WaitersHoldMade, PauseIsDrained, Drained
<1>6. InFlightExact'
  BY DEF GateInv, RequestPause, InFlightExact, Open
<1>7. QED
  BY <1>3, <1>4, <1>5, <1>6 DEF GateInv

\* enterRequest: untracked when idle, parked when paused, counted otherwise.
LEMMA GateInvEnter ==
  ASSUME GateInv, NEW r \in Requests, EnterRequest(r)
  PROVE  GateInv'
<1>1. /\ req[r].phase = "off" /\ UNCHANGED <<state, source, epoch, cp>>
      /\ promise \in Nat /\ made \in Nat /\ epoch \in Nat /\ inFlight \in Nat
      /\ r \notin Open
  BY DEF GateInv, GateTypeOK, EnterRequest, Open
<1>2. CASE state = "idle"
  <2>1. /\ req' = [req EXCEPT ![r] = [phase |-> "active", tracked |-> FALSE,
                                      epoch |-> epoch, awaits |-> 0]]
        /\ UNCHANGED <<inFlight, promise, made>>
    BY <1>2 DEF EnterRequest
  <2>2. GateTypeOK'
    BY <1>1, <2>1 DEF GateInv, GateTypeOK
  <2>3. PromiseMatchesState' /\ PausedCountZero' /\ EpochsPast'
    BY <1>1, <2>1 DEF GateInv, GateTypeOK, PromiseMatchesState, PausedCountZero, EpochsPast
  <2>4. WaitersHoldMade' /\ PauseIsDrained'
    BY <1>1, <1>2, <2>1 DEF GateInv, GateTypeOK, WaitersHoldMade, PauseIsDrained, Drained
  <2>5. Open' = Open
    BY <1>1, <2>1 DEF GateInv, GateTypeOK, Open
  <2>6. QED
    BY <2>1, <2>2, <2>3, <2>4, <2>5 DEF GateInv, InFlightExact
<1>3. CASE state = "paused"
  <2>1. /\ UNCHANGED <<inFlight, promise, made>> /\ promise # 0 /\ promise <= made
        /\ req' = [req EXCEPT ![r] = [phase |-> "waiting", tracked |-> FALSE,
                                      epoch |-> epoch, awaits |-> promise]]
    BY <1>3 DEF GateInv, EnterRequest, EnsurePausePromise, PromiseMatchesState
  <2>2. GateTypeOK'
    BY <1>1, <2>1 DEF GateInv, GateTypeOK
  <2>3. PromiseMatchesState' /\ PausedCountZero' /\ EpochsPast'
    BY <1>1, <2>1 DEF GateInv, GateTypeOK, PromiseMatchesState, PausedCountZero, EpochsPast
  <2>4. WaitersHoldMade' /\ PauseIsDrained'
    BY <1>1, <1>3, <2>1 DEF GateInv, GateTypeOK, WaitersHoldMade, PauseIsDrained, Drained
  <2>5. Open' = Open
    BY <1>1, <2>1 DEF GateInv, GateTypeOK, Open
  <2>6. QED
    BY <2>1, <2>2, <2>3, <2>4, <2>5 DEF GateInv, InFlightExact
<1>4. CASE state \in {"running", "pause_requested"}
  <2>1. /\ inFlight' = inFlight + 1 /\ UNCHANGED <<promise, made>>
        /\ req' = [req EXCEPT ![r] = [phase |-> "active", tracked |-> TRUE,
                                      epoch |-> epoch, awaits |-> 0]]
    BY <1>4 DEF EnterRequest
  <2>2. GateTypeOK'
    BY <1>1, <2>1 DEF GateInv, GateTypeOK
  <2>3. PromiseMatchesState' /\ PausedCountZero' /\ EpochsPast'
    BY <1>1, <1>4, <2>1 DEF GateInv, GateTypeOK, PromiseMatchesState, PausedCountZero, EpochsPast
  <2>4. WaitersHoldMade' /\ PauseIsDrained'
    BY <1>1, <2>1 DEF GateInv, GateTypeOK, WaitersHoldMade, PauseIsDrained, Drained
  <2>5. Open' = Open \cup {r}
    BY <1>1, <2>1 DEF GateInv, GateTypeOK, Open
  <2>6. InFlightExact'
    BY <1>1, <2>1, <2>5, CountAdd DEF GateInv
  <2>7. QED
    BY <2>2, <2>3, <2>4, <2>6 DEF GateInv
<1>5. QED
  BY <1>2, <1>3, <1>4 DEF GateInv, GateTypeOK, States

\* A released call starts in the run that parked it, and is dropped after it.
LEMMA GateInvWake ==
  ASSUME GateInv, NEW r \in Requests, WakeRequest(r)
  PROVE  GateInv'
<1>1. /\ req[r].phase = "waiting" /\ req[r].awaits # promise
      /\ UNCHANGED <<state, source, epoch, promise, made, cp>>
      /\ inFlight \in Nat /\ r \notin Open
  BY DEF GateInv, GateTypeOK, WakeRequest, Open
<1>2. state \notin {"pause_requested", "paused"}
  BY <1>1 DEF GateInv, PauseIsDrained, Drained
<1>3. CASE IsActiveEpoch(req[r].epoch)
  <2>1. /\ inFlight' = inFlight + 1
        /\ req' = [req EXCEPT ![r] = [phase |-> "active", tracked |-> TRUE,
                                      epoch |-> epoch, awaits |-> 0]]
        /\ epoch \in Nat
    BY <1>3 DEF GateInv, GateTypeOK, WakeRequest, IsActiveEpoch
  <2>2. GateTypeOK'
    BY <1>1, <2>1 DEF GateInv, GateTypeOK
  <2>3. PromiseMatchesState' /\ PausedCountZero' /\ EpochsPast'
    BY <1>1, <1>2, <2>1 DEF GateInv, GateTypeOK, PromiseMatchesState, PausedCountZero, EpochsPast
  <2>4. WaitersHoldMade' /\ PauseIsDrained'
    BY <1>1, <1>2, <2>1 DEF GateInv, GateTypeOK, WaitersHoldMade, PauseIsDrained
  <2>5. Open' = Open \cup {r}
    BY <1>1, <2>1 DEF GateInv, GateTypeOK, Open
  <2>6. InFlightExact'
    BY <1>1, <2>1, <2>5, CountAdd DEF GateInv
  <2>7. QED
    BY <2>2, <2>3, <2>4, <2>6 DEF GateInv
<1>4. CASE ~IsActiveEpoch(req[r].epoch)
  <2>1. req' = [req EXCEPT ![r] = Off] /\ UNCHANGED inFlight
    BY <1>4 DEF WakeRequest
  <2>2. GateTypeOK'
    BY <1>1, <2>1 DEF GateInv, GateTypeOK, Off
  <2>3. PromiseMatchesState' /\ PausedCountZero' /\ EpochsPast'
    BY <1>1, <2>1 DEF GateInv, GateTypeOK, PromiseMatchesState, PausedCountZero, EpochsPast, Off
  <2>4. WaitersHoldMade' /\ PauseIsDrained'
    BY <1>1, <1>2, <2>1 DEF GateInv, GateTypeOK, WaitersHoldMade, PauseIsDrained, Off
  <2>5. Open' = Open
    BY <1>1, <2>1 DEF GateInv, GateTypeOK, Open, Off
  <2>6. QED
    BY <2>1, <2>2, <2>3, <2>4, <2>5 DEF GateInv, InFlightExact
<1>5. QED
  BY <1>3, <1>4

\* A waiting call whose signal is aborted leaves without ever being counted.
LEMMA GateInvAbortWaiting ==
  ASSUME GateInv, NEW r \in Requests, AbortWaiting(r)
  PROVE  GateInv'
<1>1. /\ req[r].phase = "waiting" /\ req' = [req EXCEPT ![r] = Off]
      /\ UNCHANGED <<state, source, inFlight, epoch, promise, made, cp>>
  BY DEF AbortWaiting
<1>2. GateTypeOK'
  BY <1>1 DEF GateInv, GateTypeOK, Off
<1>3. PromiseMatchesState' /\ PausedCountZero' /\ EpochsPast'
  BY <1>1 DEF GateInv, GateTypeOK, PromiseMatchesState, PausedCountZero, EpochsPast, Off
<1>4. WaitersHoldMade' /\ PauseIsDrained'
  BY <1>1 DEF GateInv, GateTypeOK, WaitersHoldMade, PauseIsDrained, Drained, Off
<1>5. Open' = Open
  BY <1>1 DEF GateInv, GateTypeOK, Open, Off
<1>6. QED
  BY <1>1, <1>2, <1>3, <1>4, <1>5 DEF GateInv, InFlightExact

\* leaveRequest: one less for a call of this run, nothing for any other call.
LEMMA GateInvLeave ==
  ASSUME GateInv, NEW r \in Requests, LeaveRequest(r)
  PROVE  GateInv'
<1>1. /\ req[r].phase = "active" /\ req' = [req EXCEPT ![r] = Off]
      /\ UNCHANGED <<state, source, epoch, promise, made, cp>>
      /\ inFlight \in Nat
  BY DEF GateInv, GateTypeOK, LeaveRequest
<1>2. PromiseMatchesState' /\ EpochsPast'
  BY <1>1 DEF GateInv, GateTypeOK, PromiseMatchesState, EpochsPast, Off
<1>3. WaitersHoldMade' /\ PauseIsDrained'
  BY <1>1 DEF GateInv, GateTypeOK, WaitersHoldMade, PauseIsDrained, Drained, Off
<1>4. CASE r \in Open
  <2>1. inFlight > 0
    BY <1>4, CountRemove DEF GateInv
  <2>2. inFlight' = inFlight - 1
    BY <1>4, <2>1 DEF LeaveRequest, Open
  <2>3. Open' = Open \ {r}
    BY <1>1 DEF GateInv, GateTypeOK, Open, Off
  <2>4. InFlightExact'
    BY <1>4, <2>2, <2>3, CountRemove DEF GateInv
  <2>5. GateTypeOK'
    BY <1>1, <2>1, <2>2 DEF GateInv, GateTypeOK, Off
  <2>6. PausedCountZero'
    BY <1>1, <2>1, <2>2 DEF GateInv, PausedCountZero
  <2>7. QED
    BY <1>2, <1>3, <2>4, <2>5, <2>6 DEF GateInv
<1>5. CASE r \notin Open
  <2>1. inFlight' = inFlight
    BY <1>1, <1>5 DEF LeaveRequest, Open
  <2>2. Open' = Open
    BY <1>1, <1>5 DEF GateInv, GateTypeOK, Open, Off
  <2>3. GateTypeOK'
    BY <1>1, <2>1 DEF GateInv, GateTypeOK, Off
  <2>4. QED
    BY <1>1, <1>2, <1>3, <2>1, <2>2, <2>3 DEF GateInv, InFlightExact, PausedCountZero
<1>6. QED
  BY <1>4, <1>5

\* pauseAtBoundary: nothing is in flight, the caller holds the pending promise.
LEMMA GateInvPause ==
  ASSUME GateInv, NEW c \in Checkpoints, PauseAtBoundary(c)
  PROVE  GateInv'
<1>1. /\ state = "pause_requested" /\ inFlight = 0 /\ state' = "paused"
      /\ UNCHANGED <<source, inFlight, epoch, req, promise, made>>
      /\ cp' = [cp EXCEPT ![c] = [phase |-> "waiting", epoch |-> epoch, awaits |-> promise]]
      /\ promise # 0 /\ promise <= made
  BY DEF GateInv, PauseAtBoundary, EnsurePausePromise, PromiseMatchesState
<1>2. GateTypeOK'
  BY <1>1 DEF GateInv, GateTypeOK, States
<1>3. PromiseMatchesState' /\ PausedCountZero' /\ EpochsPast'
  BY <1>1 DEF GateInv, PromiseMatchesState, PausedCountZero, EpochsPast
<1>4. WaitersHoldMade' /\ PauseIsDrained'
  BY <1>1 DEF GateInv, GateTypeOK, WaitersHoldMade, PauseIsDrained, Drained
<1>5. QED
  BY <1>1, <1>2, <1>3, <1>4 DEF GateInv, InFlightExact, Open

\* waitUntilRunning: the caller joins those who wait for the pending promise.
LEMMA GateInvWaitUntilRunning ==
  ASSUME GateInv, NEW c \in Checkpoints, WaitUntilRunning(c)
  PROVE  GateInv'
<1>1. /\ state = "paused"
      /\ UNCHANGED <<state, source, inFlight, epoch, req, promise, made>>
      /\ cp' = [cp EXCEPT ![c] = [phase |-> "waiting", epoch |-> epoch, awaits |-> promise]]
      /\ promise # 0 /\ promise <= made
  BY DEF GateInv, WaitUntilRunning, EnsurePausePromise, PromiseMatchesState
<1>2. GateTypeOK'
  BY <1>1 DEF GateInv, GateTypeOK
<1>3. PromiseMatchesState' /\ PausedCountZero' /\ EpochsPast'
  BY <1>1 DEF GateInv, PromiseMatchesState, PausedCountZero, EpochsPast
<1>4. WaitersHoldMade' /\ PauseIsDrained'
  BY <1>1 DEF GateInv, GateTypeOK, WaitersHoldMade, PauseIsDrained, Drained
<1>5. QED
  BY <1>1, <1>2, <1>3, <1>4 DEF GateInv, InFlightExact, Open

\* A checkpoint that wakes disturbs nobody else.
LEMMA GateInvWakeCheckpoint ==
  ASSUME GateInv, NEW c \in Checkpoints, WakeCheckpoint(c)
  PROVE  GateInv'
<1>1. /\ cp' = [cp EXCEPT ![c] = Away]
      /\ UNCHANGED <<state, source, inFlight, epoch, promise, made, req>>
  BY DEF WakeCheckpoint
<1>2. GateTypeOK'
  BY <1>1 DEF GateInv, GateTypeOK, Away
<1>3. PromiseMatchesState' /\ PausedCountZero' /\ EpochsPast'
  BY <1>1 DEF GateInv, PromiseMatchesState, PausedCountZero, EpochsPast
<1>4. WaitersHoldMade' /\ PauseIsDrained'
  BY <1>1 DEF GateInv, GateTypeOK, WaitersHoldMade, PauseIsDrained, Drained, Away
<1>5. QED
  BY <1>1, <1>2, <1>3, <1>4 DEF GateInv, InFlightExact, Open

\* The gate of the next process is a new one.
LEMMA GateInvRestart == Restart => GateInv'
<1> SUFFICES ASSUME Restart PROVE GateInv'
  OBVIOUS
<1>1. GateTypeOK'
  BY DEF Restart, GateTypeOK, States, Sources, Off, Away
<1>2. PromiseMatchesState' /\ WaitersHoldMade' /\ PauseIsDrained' /\ EpochsPast' /\ PausedCountZero'
  BY DEF Restart, PromiseMatchesState, WaitersHoldMade, PauseIsDrained, Drained,
         EpochsPast, PausedCountZero, Off, Away
<1>3. Open' = {}
  BY DEF Restart, Open, Off
<1>4. InFlightExact'
  BY <1>3, FS_EmptySet DEF Restart, InFlightExact
<1>5. QED
  BY <1>1, <1>2, <1>4 DEF GateInv

-----------------------------------------------------------------------------
\* The invariant is inductive: every operation of the gate preserves it.
THEOREM GateInvInductive == GateSpec => []GateInv
<1>1. GateInit => GateInv
  BY GateInvInit
<1>2. GateInv /\ [GateNext]_gateVars => GateInv'
  <2> SUFFICES ASSUME GateInv, [GateNext]_gateVars PROVE GateInv'
    OBVIOUS
  <2>1. ASSUME NEW src \in Sources, BeginRun(src) PROVE GateInv'
    BY <2>1, GateInvEpoch DEF BeginRun
  <2>2. CASE FinishRun
    BY <2>2, GateInvEpoch DEF FinishRun
  <2>3. CASE AbortRun
    BY <2>3, GateInvRelease DEF AbortRun
  <2>4. CASE RequestPause
    BY <2>4, GateInvRequestPause
  <2>5. CASE Resume
    BY <2>5, GateInvRelease DEF Resume
  <2>6. CASE Restart
    BY <2>6, GateInvRestart
  <2>7. ASSUME NEW r \in Requests, RequestStep(r) PROVE GateInv'
    BY <2>7, GateInvEnter, GateInvWake, GateInvAbortWaiting, GateInvLeave DEF RequestStep
  <2>8. ASSUME NEW c \in Checkpoints, CheckpointStep(c) PROVE GateInv'
    BY <2>8, GateInvPause, GateInvWaitUntilRunning, GateInvWakeCheckpoint DEF CheckpointStep
  <2>9. CASE UNCHANGED gateVars
    BY <2>9 DEF gateVars, GateInv, GateTypeOK, PromiseMatchesState, WaitersHoldMade,
                PauseIsDrained, Drained, EpochsPast, PausedCountZero, InFlightExact, Open
  <2>10. QED
    BY <2>1, <2>2, <2>3, <2>4, <2>5, <2>6, <2>7, <2>8, <2>9 DEF GateNext
<1>3. QED
  BY <1>1, <1>2, PTL DEF GateSpec

\* Types: the fields keep their types, the count never goes negative.
THEOREM GateTyped == GateSpec => []GateTypeOK
<1>1. GateInv => GateTypeOK
  BY DEF GateInv
<1>2. QED
  BY <1>1, GateInvInductive, PTL

\* inFlight is the number of open calls of the run (run-api-gate.ts:101-107).
THEOREM CountIsExact == GateSpec => []InFlightExact
<1>1. GateInv => InFlightExact
  BY DEF GateInv
<1>2. QED
  BY <1>1, GateInvInductive, PTL

\* No call of a paused run is open (run-api-gate.ts:113-119).
THEOREM PauseIsQuiet == GateSpec => []PausedIsQuiet
<1>1. GateInv => PausedIsQuiet
  BY OpenFinite, FS_EmptySet DEF GateInv, PausedCountZero, InFlightExact, PausedIsQuiet
<1>2. QED
  BY <1>1, GateInvInductive, PTL

\* No waiter holds a forgotten promise (run-api-gate.ts:146-159).
THEOREM WaitersAreReleasable == GateSpec => []WaitersReleasable
<1>1. GateInv => WaitersReleasable
  BY DEF GateInv, PromiseMatchesState, WaitersHoldMade, WaitersReleasable
<1>2. QED
  BY <1>1, GateInvInductive, PTL

-----------------------------------------------------------------------------
(* The gate implements the barrier. *)

\* No call is open or parked in a gate that has no call of the current run.
LEMMA NewEpochMapsToEmpty ==
  ASSUME GateInv, epoch' = epoch + 1, req' = req
  PROVE  Open' = {} /\ Parked' = {}
BY DEF GateInv, GateTypeOK, EpochsPast, Open, Parked, IsActiveEpoch

\* A gate step that keeps the calls and the epoch keeps the mapped calls, as
\* long as it stays inside a run.
LEMMA SameCalls ==
  ASSUME UNCHANGED <<req, epoch>>, state # "idle", state' # "idle"
  PROVE  Open' = Open /\ Parked' = Parked
BY DEF Open, Parked, IsActiveEpoch

\* Every call step is a barrier step of the same call, or a stutter when the
\* call does not belong to the current run.
LEMMA CallStepMaps ==
  ASSUME GateInv, NEW r \in Requests, RequestStep(r)
  PROVE  [Barrier!BarrierNext]_(Barrier!barrierVars)
<1> USE DEF Barrier!barrierVars
<1>1. GateTypeOK /\ GateTypeOK'
  BY GateInvEnter, GateInvWake, GateInvAbortWaiting, GateInvLeave DEF GateInv, RequestStep
<1>2. CASE EnterRequest(r)
  <2>1. CASE state = "idle"
    <3>1. Open' = Open /\ Parked' = Parked /\ state' = state
      BY <1>1, <1>2, <2>1 DEF EnterRequest, GateTypeOK, Open, Parked, IsActiveEpoch
    <3>2. QED
      BY <3>1
  <2>2. CASE state = "paused"
    <3>1. Open' = Open /\ Parked' = Parked \cup {r} /\ state' = state
      BY <1>1, <1>2, <2>2 DEF EnterRequest, GateTypeOK, Open, Parked, IsActiveEpoch
    <3>2. Barrier!Park(r)
      BY <2>2, <3>1 DEF Barrier!Park
    <3>3. QED
      BY <3>2 DEF Barrier!BarrierNext
  <2>3. CASE state \in {"running", "pause_requested"}
    <3>1. Open' = Open \cup {r} /\ Parked' = Parked \ {r} /\ state' = state
      BY <1>1, <1>2, <2>3 DEF EnterRequest, GateTypeOK, Open, Parked, IsActiveEpoch
    <3>2. Barrier!Start(r)
      BY <2>3, <3>1 DEF Barrier!Start
    <3>3. QED
      BY <3>2 DEF Barrier!BarrierNext
  <2>4. QED
    BY <1>1, <2>1, <2>2, <2>3 DEF GateTypeOK, States
<1>3. CASE WakeRequest(r)
  <2>1. state' = state /\ state \notin {"pause_requested", "paused"}
    BY <1>3 DEF WakeRequest, GateInv, PauseIsDrained, Drained
  <2>2. CASE IsActiveEpoch(req[r].epoch)
    <3>1. Open' = Open \cup {r} /\ Parked' = Parked \ {r}
      BY <1>1, <1>3, <2>2 DEF WakeRequest, GateTypeOK, Open, Parked, IsActiveEpoch
    <3>2. state \in {"running", "pause_requested"}
      BY <1>1, <2>1, <2>2 DEF GateTypeOK, States, IsActiveEpoch
    <3>3. Barrier!Start(r)
      BY <2>1, <3>1, <3>2 DEF Barrier!Start
    <3>4. QED
      BY <3>3 DEF Barrier!BarrierNext
  <2>3. CASE ~IsActiveEpoch(req[r].epoch)
    <3>1. /\ req' = [req EXCEPT ![r] = Off] /\ epoch' = epoch
          /\ req[r].phase = "waiting"
      BY <1>3, <2>3 DEF WakeRequest
    <3>2. Open' = Open
      BY <1>1, <3>1 DEF GateTypeOK, Open, Off
    <3>3. Parked' = Parked
      BY <1>1, <2>1, <2>3, <3>1 DEF GateTypeOK, Parked, IsActiveEpoch, Off
    <3>4. QED
      BY <2>1, <3>2, <3>3
  <2>4. QED
    BY <2>2, <2>3
<1>4. CASE AbortWaiting(r)
  <2>1. Open' = Open /\ Parked' = Parked \ {r} /\ state' = state
    BY <1>1, <1>4 DEF AbortWaiting, GateTypeOK, Open, Parked, IsActiveEpoch, Off
  <2>2. CASE r \in Parked
    BY <2>1, <2>2 DEF Barrier!Drop, Barrier!BarrierNext
  <2>3. CASE r \notin Parked
    BY <2>1, <2>3
  <2>4. QED
    BY <2>2, <2>3
<1>5. CASE LeaveRequest(r)
  <2>1. Open' = Open \ {r} /\ Parked' = Parked /\ state' = state
    BY <1>1, <1>5 DEF LeaveRequest, GateTypeOK, Open, Parked, IsActiveEpoch, Off
  <2>2. CASE r \in Open
    BY <2>1, <2>2 DEF Barrier!End, Barrier!BarrierNext
  <2>3. CASE r \notin Open
    BY <2>1, <2>3
  <2>4. QED
    BY <2>2, <2>3
<1>6. QED
  BY <1>2, <1>3, <1>4, <1>5 DEF RequestStep

\* A checkpoint step is the barrier's Reach, or a stutter.
LEMMA CheckpointStepMaps ==
  ASSUME GateInv, NEW c \in Checkpoints, CheckpointStep(c)
  PROVE  [Barrier!BarrierNext]_(Barrier!barrierVars)
<1> USE DEF Barrier!barrierVars
<1>1. CASE PauseAtBoundary(c)
  <2>1. Open = {}
    BY <1>1, OpenFinite, FS_EmptySet DEF PauseAtBoundary, GateInv, InFlightExact
  <2>2. Open' = Open /\ Parked' = Parked
    BY <1>1, SameCalls DEF PauseAtBoundary
  <2>3. Barrier!Reach
    BY <1>1, <2>1, <2>2 DEF PauseAtBoundary, Barrier!Reach
  <2>4. QED
    BY <2>3 DEF Barrier!BarrierNext
<1>2. CASE WaitUntilRunning(c)
  BY <1>2, SameCalls DEF WaitUntilRunning
<1>3. CASE WakeCheckpoint(c)
  BY <1>3 DEF WakeCheckpoint, Open, Parked, IsActiveEpoch
<1>4. QED
  BY <1>1, <1>2, <1>3 DEF CheckpointStep

\* Epochs, promises and counters implement the barrier of RunBarrier.
THEOREM GateImplementsBarrier == GateSpec => ImplementsBarrier
<1>1. GateInit => Barrier!BarrierInit
  BY DEF GateInit, Barrier!BarrierInit, Open, Parked, Off
<1>2. GateInv /\ [GateNext]_gateVars => [Barrier!BarrierNext]_(Barrier!barrierVars)
  <2> SUFFICES ASSUME GateInv, [GateNext]_gateVars
               PROVE  [Barrier!BarrierNext]_(Barrier!barrierVars)
    OBVIOUS
  <2>1. ASSUME NEW src \in Sources, BeginRun(src) PROVE Barrier!Begin
    BY <2>1, NewEpochMapsToEmpty DEF BeginRun, Barrier!Begin
  <2>2. ASSUME FinishRun PROVE Barrier!Finish
    BY <2>2, NewEpochMapsToEmpty DEF FinishRun, Barrier!Finish
  <2>3. ASSUME AbortRun PROVE Barrier!Release
    BY <2>3, SameCalls DEF AbortRun, Barrier!Release
  <2>4. ASSUME RequestPause PROVE Barrier!Request
    BY <2>4, SameCalls DEF RequestPause, Barrier!Request
  <2>5. ASSUME Resume PROVE Barrier!Release
    BY <2>5, SameCalls DEF Resume, Barrier!Release
  <2>6. ASSUME Restart PROVE Barrier!Finish
    BY <2>6 DEF Restart, Barrier!Finish, Open, Parked, Off
  <2>7. CASE UNCHANGED gateVars
    BY <2>7 DEF gateVars, Barrier!barrierVars, Open, Parked, IsActiveEpoch
  <2>8. QED
    BY <2>1, <2>2, <2>3, <2>4, <2>5, <2>6, <2>7, CallStepMaps, CheckpointStepMaps
       DEF GateNext, Barrier!BarrierNext
<1>3. QED
  BY <1>1, <1>2, GateInvInductive, PTL DEF GateSpec, ImplementsBarrier, Barrier!BarrierSpec
=============================================================================
