----------------------------- MODULE RunBarrier -----------------------------
(***************************************************************************)
(* What the run gate promises to the rest of the agent, without epochs,    *)
(* promises or counters: a pause is reached only when no API call of the   *)
(* run is open, no call opens while the run is paused, and a call that was *)
(* parked by a pause belongs to the run that parked it.                    *)
(* RunApiGate (src/src/agent/run-api-gate.ts) implements it.               *)
(***************************************************************************)
EXTENDS FiniteSets

CONSTANT Requests  \* the API calls of the process

VARIABLES state,   \* "idle" | "running" | "pause_requested" | "paused"
          open,    \* calls of the current run that are on the wire
          parked   \* calls of the current run held back by the pause

barrierVars == <<state, open, parked>>

BarrierTypeOK ==
  /\ state \in {"idle", "running", "pause_requested", "paused"}
  /\ open \subseteq Requests
  /\ parked \subseteq Requests

BarrierInit == state = "idle" /\ open = {} /\ parked = {}

\* A run starts or ends: whatever the previous run left behind is not its own.
Begin  == state' = "running" /\ open' = {} /\ parked' = {}
Finish == state' = "idle" /\ open' = {} /\ parked' = {}

Request == /\ state = "running"
           /\ state' = "pause_requested"
           /\ UNCHANGED <<open, parked>>

Reach == /\ state = "pause_requested"
         /\ open = {}
         /\ state' = "paused"
         /\ UNCHANGED <<open, parked>>

Release == /\ state \in {"pause_requested", "paused"}
           /\ state' = "running"
           /\ UNCHANGED <<open, parked>>

Start(r) == /\ state \in {"running", "pause_requested"}
            /\ open' = open \cup {r}
            /\ parked' = parked \ {r}
            /\ UNCHANGED state

Park(r) == /\ state = "paused"
           /\ parked' = parked \cup {r}
           /\ UNCHANGED <<state, open>>

Drop(r) == /\ r \in parked
           /\ parked' = parked \ {r}
           /\ UNCHANGED <<state, open>>

End(r) == /\ r \in open
          /\ open' = open \ {r}
          /\ UNCHANGED <<state, parked>>

BarrierNext ==
  \/ Begin \/ Finish \/ Request \/ Reach \/ Release
  \/ \E r \in Requests : Start(r) \/ Park(r) \/ Drop(r) \/ End(r)

BarrierSpec == BarrierInit /\ [][BarrierNext]_barrierVars
=============================================================================
