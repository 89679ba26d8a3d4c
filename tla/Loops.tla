------------------------------- MODULE Loops -------------------------------
(***************************************************************************)
(* /loop and the schedule tools (src/src/loop/loop-manager.ts): timers     *)
(* that run a prompt or a command in the REPL, again and again or once,    *)
(* skipped while their last run goes on and refused while the agent is     *)
(* busy (repl.ts, runScheduledPrompt).                                     *)
(*                                                                         *)
(* Abstracted: the intervals (a timer that is set fires at any time),      *)
(* statistics, and the texts.                                              *)
(***************************************************************************)
EXTENDS Integers, FiniteSets

CONSTANTS Ids,        \* bound: schedules ever made
          MaxActive   \* MAX_ACTIVE_SCHEDULES

ASSUME LoopConstants == MaxActive \in Nat \ {0}

VARIABLES
  loop,   \* schedule: [made, on, once, slash, timer, running, ran]
  turn    \* [busy, user]: agentBusy; a turn of the user's own

loopVars == <<loop, turn>>

NoLoop == [made |-> FALSE, on |-> FALSE, once |-> FALSE, slash |-> FALSE,
           timer |-> FALSE, running |-> FALSE, ran |-> 0]

LoopInit ==
  /\ loop = [i \in Ids |-> NoLoop]
  /\ turn = [busy |-> FALSE, user |-> FALSE]

\* start(): /loop repeats, schedule_create runs once unless told otherwise.
StartLoop(i) ==
  /\ ~loop[i].made /\ Cardinality({j \in Ids : loop[j].on}) < MaxActive
  /\ \E once, slash \in BOOLEAN :
       loop' = [loop EXCEPT ![i] = [NoLoop EXCEPT !.made = TRUE, !.on = TRUE, !.timer = TRUE,
                                                  !.once = once, !.slash = slash]]
  /\ UNCHANGED turn

Due(i) == loop[i].on /\ loop[i].timer

\* fire(): a timer that repeats stays set, one of a single run is gone.
FireSkips(i) ==
  /\ Due(i) /\ loop[i].running
  /\ loop' = [loop EXCEPT ![i].timer = ~loop[i].once]
  /\ UNCHANGED turn

RefusedForGood(i) ==
  /\ Due(i) /\ ~loop[i].running /\ turn.busy
  /\ loop' = [loop EXCEPT ![i].timer = ~loop[i].once]
  /\ UNCHANGED turn

\* The runner says no: a single run is tried again after a second.
Refused(i) ==
  /\ Due(i) /\ ~loop[i].running /\ turn.busy
  /\ loop' = [loop EXCEPT ![i].timer = TRUE]
  /\ UNCHANGED turn

\* It runs: a prompt makes the agent busy, a command does not.
Accepted(i) ==
  /\ Due(i) /\ ~loop[i].running /\ ~turn.busy
  /\ loop' = [loop EXCEPT ![i].running = TRUE, ![i].timer = ~loop[i].once]
  /\ turn' = [turn EXCEPT !.busy = ~loop[i].slash]

\* The run ends, or throws: a schedule of a single run is over either way.
\* The end of a prompt makes the agent free, whoever else is running.
RunEnds(i) ==
  /\ loop[i].running
  /\ loop' = [loop EXCEPT ![i].running = FALSE, ![i].ran = 1, ![i].on = @ /\ ~loop[i].once]
  /\ turn' = [turn EXCEPT !.busy = @ /\ loop[i].slash]

\* stop() and stopAll(): the timer goes, a run goes on.
Stopped(ids) ==
  loop' = [i \in Ids |-> IF i \in ids THEN [loop[i] EXCEPT !.on = FALSE, !.timer = FALSE]
                         ELSE loop[i]]
StopLoop(i) == loop[i].on /\ Stopped({i}) /\ UNCHANGED turn
StopAll == (\E i \in Ids : loop[i].on) /\ Stopped(Ids) /\ UNCHANGED turn

\* A turn of the user; the prompt is open while a schedule runs.
UserTurn ==
  /\ ~turn.user /\ turn' = [busy |-> TRUE, user |-> TRUE]
  /\ UNCHANGED loop

UserTurnEnds ==
  /\ turn.user /\ turn' = [busy |-> FALSE, user |-> FALSE]
  /\ UNCHANGED loop

LoopNext ==
  \/ \E i \in Ids : \/ StartLoop(i) \/ FireSkips(i) \/ Refused(i) \/ Accepted(i)
                    \/ RunEnds(i) \/ StopLoop(i)
  \/ StopAll \/ UserTurn \/ UserTurnEnds

LoopSpec == LoopInit /\ [][LoopNext]_loopVars

(***************************************************************************)
(* Properties.                                                             *)
(***************************************************************************)
LoopTypeOK ==
  /\ \A i \in Ids : loop[i].ran \in 0..1 /\ (loop[i].timer => loop[i].on)
  /\ turn.user \in BOOLEAN

\* No schedule runs over its own last run or after it was stopped, one of a
\* single run runs once, and while it has not run it is still to come: it has
\* a timer or is running until someone stops it.
SchedulesKeepTheirWord ==
  /\ [][\A i \in Ids : ~loop[i].running /\ loop'[i].running =>
          loop[i].on /\ ~(loop[i].once /\ loop[i].ran > 0)]_loopVars
  /\ [](\A i \in Ids : loop[i].on => loop[i].timer \/ loop[i].running)
=============================================================================
