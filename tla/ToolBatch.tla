----------------------------- MODULE ToolBatch -----------------------------
(***************************************************************************)
(* The tool calls of one reply (agent-loop.ts, withToolBatch): executed    *)
(* one after the other or side by side under a semaphore, stopped by Esc   *)
(* or by a tool that stops the run, every call answered in the history,    *)
(* and the results cut to the total a reply may take (ToolResultBatch,     *)
(* tool-result-limit.ts).                                                  *)
(*                                                                         *)
(* A call granted by the semaphore goes on in a microtask: nothing but     *)
(* another such call comes between.  Results are added in one synchronous  *)
(* loop, here one step per result.                                         *)
(*                                                                         *)
(* Abstracted: arguments, texts, guides, displays and statistics; what a   *)
(* result says but its size in tokens and whether it is an error; the      *)
(* checks of the executor, which all end in a failed result or throw.      *)
(***************************************************************************)
EXTENDS Integers, Sequences

CONSTANTS MaxBatch,   \* bound: calls of a reply
          Limit,      \* maxParallelTools
          Sizes,      \* bound: sizes of a result in tokens
          Frame,      \* MESSAGE_OVERHEAD_TOKENS
          FullNote,   \* fullCost: the largest long note of an omitted result
          BriefNote,  \* the short note and the shortest, frame included
          ShortNote,
          MinBody,    \* MIN_TOOL_RESULT_TOKENS
          PerResult, Total  \* toolResultLimitTokens, toolResultTotalTokens

ASSUME ToolBatchConstants ==
  /\ {MaxBatch, Limit} \subseteq Nat \ {0}
  /\ Sizes \subseteq Nat
  /\ {Frame, FullNote, BriefNote, ShortNote, MinBody, PerResult, Total} \subseteq Nat
  /\ MinBody > 0 /\ Frame <= ShortNote /\ ShortNote <= BriefNote /\ BriefNote <= FullNote

VARIABLES
  batch,  \* the reply: [pc, path, next, stopped, todo, log, notes, ended]
  call,   \* its calls: sequence of [kind, is]
  sem,    \* the semaphore: [running, queue]
  room,   \* the result budget: [used, full, left]
  user    \* [paused, esc, lock]: /run pause, Esc, the lock of writes

toolVars == <<batch, call, sem, room, user>>

CallIds == DOMAIN call
NoBatch == [pc |-> "rest", path |-> "none", next |-> 1, stopped |-> FALSE,
            todo |-> <<>>, log |-> <<>>, notes |-> 0, ended |-> TRUE]
NoCall == [kind |-> "other", is |-> "waits"]
NoRoom == [used |-> 0, full |-> FALSE, left |-> 0]
Indices(a, b) == [i \in 1..(IF b < a THEN 0 ELSE b - a + 1) |-> a + i - 1]

(***************************************************************************)
(* The budget of the results.                                              *)
(***************************************************************************)
Reserve(count, full, brief) ==
  IF count = 0 THEN 0 ELSE IF full THEN count * brief ELSE FullNote + (count - 1) * brief

\* The note small enough for all calls of the reply; none is small enough for
\* a reply that overflows.
Brief(n) == IF Reserve(n, FALSE, BriefNote) <= Total THEN BriefNote ELSE ShortNote
Overflows(n) == Reserve(n, FALSE, Brief(n)) > Total

Uses(cost, note) ==
  room' = [used |-> room.used + cost, full |-> room.full \/ note, left |-> room.left - 1]

FitUnreserved(kind, size, n) ==
  LET bodyRoom == Total - room.used - Frame IN
  \/ size <= bodyRoom /\ Uses(size + Frame, FALSE)
  \/ size > bodyRoom /\ Uses(FullNote, TRUE)

\* fit(): the result as it is, cut, or only a note that it was omitted.
Fit(kind, size, n) ==
  LET rest == room.left - 1
      brief == Brief(n)
      bodyRoom == Total - room.used - Reserve(rest, room.full, brief) - Frame
      allowed == IF kind = "write" \/ bodyRoom < PerResult THEN bodyRoom ELSE PerResult
      cut == kind # "write" /\ allowed >= MinBody
  IN  \/ size <= allowed /\ Uses(size + Frame, FALSE)
      \/ /\ size > allowed /\ cut
         /\ \E kept \in {allowed - 1, allowed} : Uses(kept + Frame, FALSE)
      \/ /\ size > allowed /\ ~cut
         /\ \E full \in {BriefNote, FullNote}, small \in {Frame, brief} :
              IF ~room.full \/ Total - room.used - full >= rest * brief
              THEN Uses(full, TRUE) ELSE Uses(small, TRUE)

(***************************************************************************)
(* The batch.                                                              *)
(***************************************************************************)
Answered(log) == {log[i] : i \in DOMAIN log} \ {0}

\* The calls without a result.
Missing == CallIds \ Answered(batch.log)

\* Mutant: only the results at hand are added.
UpcomingAtHand == IF batch.todo # <<>> THEN {Head(batch.todo)} ELSE {}

\* The result to be added next: those at hand in their order; in the finally of
\* withToolBatch each call that has none gets one.
Upcoming ==
  IF batch.todo # <<>> THEN {Head(batch.todo)}
  ELSE {c \in Missing : batch.ended /\ \A d \in Missing : c <= d}

Leave(b, todo) == [b EXCEPT !.pc = "add", !.ended = TRUE, !.todo = todo]

\* A reply with calls: side by side, one after the other (a single call, a
\* limit of one, file writes shown as text), or refused as a repetition.
ReplyWithCalls ==
  /\ batch.pc = "rest"
  /\ \E n \in 1..MaxBatch, path \in {"parallel", "sequence", "refused"} :
       /\ path = "parallel" => n > 1 /\ Limit > 1
       /\ \E kinds \in [1..n -> {"write", "ask", "other"}] :
            call' = [c \in 1..n |-> [kind |-> kinds[c], is |-> "waits"]]
       /\ room' = [NoRoom EXCEPT !.left = n]
       /\ batch' = [NoBatch EXCEPT !.path = path,
                      !.pc = IF path = "refused" THEN "add" ELSE "gate",
                      !.ended = path = "refused",
                      !.todo = IF path = "refused" THEN Indices(1, n) ELSE <<>>]
  /\ sem' = [running |-> 0, queue |-> <<>>]
  /\ UNCHANGED user

Granted == \E c \in CallIds : call[c].is = "granted"

\* The gate of the run before the pool, and before each tool in sequence.
GateOpens == batch.pc = "gate" /\ (~user.paused \/ user.esc)

\* Stopped at the gate: the calls behind this one are answered first.
GateStops ==
  /\ GateOpens /\ user.esc
  /\ batch' = Leave(batch, IF batch.path = "parallel" THEN <<>>
                           ELSE Indices(batch.next + 1, Len(call)))
  /\ UNCHANGED <<call, sem, room, user>>

PoolStarts ==
  /\ GateOpens /\ ~user.esc /\ batch.path = "parallel"
  /\ LET now == IF Len(call) < Limit THEN Len(call) ELSE Limit IN
       /\ call' = [c \in CallIds |-> IF c <= now THEN [call[c] EXCEPT !.is = "granted"] ELSE call[c]]
       /\ sem' = [running |-> now, queue |-> Indices(now + 1, Len(call))]
  /\ batch' = [batch EXCEPT !.pc = "pool"]
  /\ UNCHANGED <<room, user>>

\* checkDialogueLock: ask_user opens the lock, a write is refused under it.
StartCall(c) ==
  /\ call' = [call EXCEPT ![c].is =
                IF user.lock /\ call[c].kind = "write" THEN "refused" ELSE "runs"]
  /\ user' = [user EXCEPT !.lock = @ /\ call[c].kind # "ask"]

SequenceStarts ==
  /\ GateOpens /\ ~user.esc /\ batch.path = "sequence"
  /\ StartCall(batch.next)
  /\ batch' = [batch EXCEPT !.pc = "tool"]
  /\ UNCHANGED <<sem, room>>

\* release(): the first that waits is granted the place.
Release(c, is) ==
  IF sem.queue = <<>>
  THEN /\ sem' = [sem EXCEPT !.running = @ - 1]
       /\ call' = [call EXCEPT ![c].is = is]
  ELSE /\ sem' = [sem EXCEPT !.queue = Tail(@)]
       /\ call' = [call EXCEPT ![c].is = is, ![Head(sem.queue)].is = "granted"]

StartUnchecked(c) ==
  /\ call[c].is = "granted"
  /\ StartCall(c)
  /\ UNCHANGED <<batch, sem, room>>

\* A granted call looks for a stop, then starts.
PoolCallStarts(c) ==
  /\ call[c].is = "granted"
  /\ IF user.esc \/ batch.stopped
     THEN Release(c, "skipped") /\ UNCHANGED user
     ELSE StartCall(c) /\ UNCHANGED sem
  /\ UNCHANGED <<batch, room>>

\* How a tool ends: a failure may stop the run; a write the user refuses, or a
\* delegation that fails, locks the writes; a check before the tool may throw.
Endings == {"ok", "failed", "stops", "denied", "thrown"}
Outcome(c, is) ==
  IF call[c].is = "refused" THEN is = "failed"
  ELSE is = "denied" => call[c].kind # "ask"
Locked(is) == user' = [user EXCEPT !.lock = @ \/ is = "denied"]

PoolCallEnds(c) ==
  /\ batch.pc = "pool" /\ call[c].is \in {"runs", "refused"} /\ ~Granted
  /\ \E is \in Endings :
       /\ Outcome(c, is)
       /\ Release(c, is) /\ Locked(is)
       /\ batch' = [batch EXCEPT !.stopped = @ \/ is = "stops"]
  /\ UNCHANGED room

\* All have settled: their results are added in the order of the calls.
PoolEnds ==
  /\ batch.pc = "pool" /\ \A c \in CallIds : call[c].is \in Endings \cup {"skipped"}
  /\ batch' = Leave(batch, Indices(1, Len(call)))
  /\ UNCHANGED <<call, sem, room, user>>

SequenceCallEnds ==
  /\ batch.pc = "tool"
  /\ \E is \in Endings :
       /\ Outcome(batch.next, is)
       /\ call' = [call EXCEPT ![batch.next].is = is] /\ Locked(is)
       /\ batch' = IF is = "thrown" THEN Leave(batch, <<>>)
                   ELSE IF is = "stops" \/ batch.next = Len(call)
                   THEN Leave(batch, Indices(batch.next, Len(call)))
                   ELSE [batch EXCEPT !.pc = "add", !.todo = <<batch.next>>]
  /\ UNCHANGED <<sem, room>>

\* addLimitedToolResult, and perhaps a note for the model (addInTurnNote).
AddResult ==
  /\ batch.pc = "add"
  /\ \E c \in Upcoming :
       /\ call' = [call EXCEPT ![c] = NoCall]
       /\ \E size \in Sizes : Fit(call[c].kind, size, Len(call))
       /\ \E noted \in {0, 1} :
            batch' = [batch EXCEPT !.todo = IF @ = <<>> THEN @ ELSE Tail(@),
                                   !.log = Append(@, c), !.notes = @ + noted]
  /\ UNCHANGED <<sem, user>>

\* The next tool of the sequence, or the notes and the end.
Added ==
  /\ batch.pc = "add" /\ Upcoming = {}
  /\ IF batch.ended
     THEN /\ batch' = [NoBatch EXCEPT !.log = batch.log \o [i \in 1..batch.notes |-> 0]]
          /\ room' = NoRoom
     ELSE batch' = [batch EXCEPT !.pc = "gate", !.next = @ + 1] /\ UNCHANGED room
  /\ UNCHANGED <<call, sem, user>>

\* The user: Esc, pause and resume, and the next request after an Esc; the
\* lock ends by itself after a while.
Awaiting == batch.pc # "add" /\ ~Granted

Escape == Awaiting /\ user' = [user EXCEPT !.esc = TRUE] /\ UNCHANGED <<batch, call, sem, room>>
Pause == /\ Awaiting /\ user' = [user EXCEPT !.paused = ~@]
         /\ UNCHANGED <<batch, call, sem, room>>
NewRun == /\ batch.pc = "rest" /\ user' = [user EXCEPT !.esc = FALSE, !.paused = FALSE]
          /\ UNCHANGED <<batch, call, sem, room>>
LockExpires == /\ Awaiting /\ user' = [user EXCEPT !.lock = FALSE]
               /\ UNCHANGED <<batch, call, sem, room>>

ToolInit ==
  /\ batch = NoBatch /\ call = <<>>
  /\ sem = [running |-> 0, queue |-> <<>>]
  /\ room = NoRoom
  /\ user = [paused |-> FALSE, esc |-> FALSE, lock |-> FALSE]

BatchSteps ==
  \/ GateStops \/ PoolStarts \/ SequenceStarts \/ SequenceCallEnds \/ PoolEnds
  \/ AddResult \/ Added
  \/ \E c \in CallIds : PoolCallStarts(c) \/ PoolCallEnds(c)

ToolNext == BatchSteps \/ ReplyWithCalls \/ Escape \/ Pause \/ NewRun \/ LockExpires

\* Every tool ends some time; the user need not do anything.
ToolFairness == WF_toolVars(BatchSteps)

ToolSpec == ToolInit /\ [][ToolNext]_toolVars /\ ToolFairness

(***************************************************************************)
(* Properties.                                                             *)
(***************************************************************************)
ToolTypeOK ==
  /\ batch.pc \in {"rest", "gate", "pool", "tool", "add"}
  /\ batch.next \in 1..MaxBatch /\ Len(call) <= MaxBatch
  /\ sem.running \in 0..Limit /\ room.left \in 0..MaxBatch
  /\ room.used \in Nat

\* Each call has exactly one result and the notes come after all of them.
PairsAreWhole ==
  /\ Answered(batch.log) = CallIds
  /\ \A i \in DOMAIN batch.log : (batch.log[i] = 0) = (i > Len(call))

\* A batch that is not paused comes to its end, and however it ends its pairs
\* are whole: a call without a result, or a note between two results, and the
\* history can no longer be reduced.
EveryBatchEnds ==
  batch.pc = "gate" ~> (batch.pc = "rest" /\ PairsAreWhole) \/ user.paused

\* Once a tool has stopped the run, or Esc was pressed, no tool starts.
StoppedBatchRests ==
  [][\A c \in CallIds \cap DOMAIN call' : call[c].is \in {"waits", "granted"} /\ call'[c].is = "runs"
       => ~batch.stopped /\ ~user.esc]_toolVars

\* The results of a reply stay within the total, and room is left for a note
\* about each result to come, unless the reply has more calls than the
\* shortest notes can hold.
TotalIsKept ==
  ~Overflows(Len(call)) =>
    room.used + Reserve(room.left, room.full, Brief(Len(call))) <= Total
=============================================================================
