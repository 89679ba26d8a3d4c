---------------------------- MODULE Tools_proofs ----------------------------
(***************************************************************************)
(* Proofs about the tools of a run.  ToolBatch: the results of one reply   *)
(* stay within the total, and no tool starts once a tool has stopped the   *)
(* run or Esc was pressed, for every number of calls, every limit and      *)
(* every size.  Permissions: what a rule or a grant of the program's state *)
(* allows is covered by something the user said, so that a tool that runs  *)
(* unasked has the user's word.  Checkpoints: a restore gives the files of *)
(* its commit back, and what it overwrites is in a commit, for every set   *)
(* of files and every number of writes, commits and jobs.                  *)
(***************************************************************************)
EXTENDS ToolBatch, Permissions, Checkpoints, FiniteSets, FiniteSetTheorems,
        SequenceTheorems, FunctionTheorems, WellFoundedInduction, TLAPS

-----------------------------------------------------------------------------
(* The tool calls of one reply. *)

BatchPcs == {"rest", "gate", "pool", "tool", "add"}
Paths == {"none", "parallel", "sequence", "refused"}
Stages == {"waits", "granted", "runs", "refused", "skipped"} \cup Endings

ToolTypes ==
  /\ call \in Seq([kind : {"write", "ask", "other"}, is : Stages])
  /\ batch \in [pc : BatchPcs, path : Paths, next : Int, stopped : BOOLEAN, todo : Seq(Int),
                log : Seq(Int), notes : Nat, ended : BOOLEAN]
  /\ sem \in [running : Int, queue : Seq(Int)]
  /\ room \in [used : Int, full : BOOLEAN, left : Int]
  /\ user \in [paused : BOOLEAN, esc : BOOLEAN, lock : BOOLEAN]

\* The results at hand are of calls without a result, each once.
TodoInv ==
  /\ \A i \in DOMAIN batch.todo : batch.todo[i] \in Missing
  /\ \A i, j \in DOMAIN batch.todo : batch.todo[i] = batch.todo[j] => i = j

\* Where the batch is tells which calls have a result.
PathInv ==
  /\ batch.pc # "add" => batch.todo = <<>>
  /\ batch.pc \in {"gate", "pool", "tool"} => ~batch.ended
  /\ batch.pc = "gate" => batch.path \in {"parallel", "sequence"}
  /\ batch.pc = "pool" => batch.path = "parallel"
  /\ batch.pc = "tool" => batch.path = "sequence"
  /\ batch.path = "parallel" /\ batch.pc \in {"gate", "pool"} => batch.log = <<>>
  /\ batch.path = "sequence" => ~batch.stopped
  /\ batch.path = "sequence" /\ batch.pc \in {"gate", "tool"} =>
       batch.next \in CallIds /\ Answered(batch.log) = 1..(batch.next - 1)
  /\ batch.pc = "add" /\ ~batch.ended =>
       /\ batch.path = "sequence"
       /\ batch.next \in CallIds /\ batch.next < Len(call)
       /\ \/ batch.todo = <<batch.next>> /\ Answered(batch.log) = 1..(batch.next - 1)
          \/ batch.todo = <<>> /\ Answered(batch.log) = 1..batch.next

\* The budget counts the calls without a result.
LeftInv == batch.pc # "rest" => room.left = Cardinality(Missing)

ToolInv == ToolTypes /\ TodoInv /\ PathInv /\ LeftInv /\ TotalIsKept

-----------------------------------------------------------------------------
(* The budget. *)

LEMMA NotesTyped ==
  /\ Frame \in Nat /\ FullNote \in Nat /\ BriefNote \in Nat /\ ShortNote \in Nat
  /\ MinBody \in Nat /\ PerResult \in Nat /\ Total \in Nat
  /\ Frame <= ShortNote /\ ShortNote <= BriefNote /\ BriefNote <= FullNote
BY ToolBatchConstants

LEMMA BriefTyped ==
  ASSUME NEW n
  PROVE  Brief(n) \in Nat /\ Frame <= Brief(n) /\ Brief(n) <= FullNote
<1>1. Brief(n) = BriefNote \/ Brief(n) = ShortNote
  BY DEF Brief
<1> QED
  BY <1>1, NotesTyped

\* A result taken by fit() leaves the budget kept (ToolResultBatch.fit).
LEMMA FitKeepsTotal ==
  ASSUME NEW kind, NEW size \in Nat, NEW n \in Nat,
         room \in [used : Int, full : BOOLEAN, left : Int],
         room.left > 0, Fit(kind, size, n)
  PROVE  /\ room' \in [used : Int, full : BOOLEAN, left : Int]
         /\ room'.left = room.left - 1
         /\ room.used + Reserve(room.left, room.full, Brief(n)) <= Total =>
              room'.used + Reserve(room'.left, room'.full, Brief(n)) <= Total
<1> DEFINE rest == room.left - 1
           Noted == IF rest = 0 THEN 0 ELSE rest * Brief(n)
           First == IF rest = 0 THEN 0 ELSE FullNote + (rest - 1) * Brief(n)
           Later == IF room.full THEN Noted ELSE First
           bodyRoom == Total - room.used - Later - Frame
           allowed == IF kind = "write" \/ bodyRoom < PerResult THEN bodyRoom ELSE PerResult
           Taken(cost) == room' = [used |-> room.used + cost, full |-> room.full, left |-> rest]
           NotedFor(cost) == room' = [used |-> room.used + cost, full |-> TRUE, left |-> rest]
           Before == room.used + Reserve(room.left, room.full, Brief(n)) <= Total
           Goal == /\ room' \in [used : Int, full : BOOLEAN, left : Int]
                   /\ room'.left = room.left - 1
                   /\ Before => room'.used + Reserve(room'.left, room'.full, Brief(n)) <= Total
<1> SUFFICES Goal
  OBVIOUS
<1>1. Brief(n) \in Nat /\ Frame <= Brief(n) /\ Brief(n) <= FullNote
  BY BriefTyped
<1>2. rest \in Nat /\ rest * Brief(n) \in Int /\ (rest - 1) * Brief(n) \in Int
  BY <1>1
<1>3. /\ Noted \in Int /\ First \in Int /\ Later \in Int
      /\ rest * Brief(n) = Noted
  BY <1>1, <1>2, NotesTyped
<1>4. /\ Before /\ room.full => room.used + Brief(n) + Noted <= Total
      /\ Before /\ ~room.full => room.used + FullNote + Noted <= Total
  <2>1. room.left * Brief(n) = Brief(n) + rest * Brief(n)
    BY <1>1
  <2>2. CASE room.full
    BY <1>1, <1>2, <1>3, <2>1, <2>2 DEF Reserve
  <2>3. CASE ~room.full
    BY <1>1, <1>2, <1>3, <2>3, NotesTyped DEF Reserve
  <2> QED
    BY <2>2, <2>3
<1>5. ASSUME NEW cost \in Int, Taken(cost), Before => room.used + cost + Later <= Total
      PROVE  Goal
  <2>1. /\ room'.used = room.used + cost /\ room'.left = rest /\ room'.full = room.full
        /\ room' \in [used : Int, full : BOOLEAN, left : Int]
    BY <1>2, <1>5
  <2>2. Reserve(room'.left, room'.full, Brief(n)) = Later
    BY <2>1 DEF Reserve
  <2> QED
    BY <1>5, <2>1, <2>2
<1>6. ASSUME NEW cost \in Int, NotedFor(cost), Before => room.used + cost + Noted <= Total
      PROVE  Goal
  <2>1. /\ room'.used = room.used + cost /\ room'.left = rest /\ room'.full = TRUE
        /\ room' \in [used : Int, full : BOOLEAN, left : Int]
    BY <1>2, <1>6
  <2>2. Reserve(room'.left, room'.full, Brief(n)) = Noted
    BY <2>1 DEF Reserve
  <2> QED
    BY <1>6, <2>1, <2>2
<1>7. /\ \A cost \in Int : Uses(cost, FALSE) => Taken(cost)
      /\ \A cost \in Int : Uses(cost, TRUE) => NotedFor(cost)
  BY DEF Uses
<1>8. bodyRoom \in Int /\ allowed \in Int /\ allowed <= bodyRoom
  BY <1>3, NotesTyped
<1>9. \/ size <= allowed /\ Uses(size + Frame, FALSE)
      \/ \E kept \in {allowed - 1, allowed} : Uses(kept + Frame, FALSE)
      \/ \E full \in {BriefNote, FullNote}, small \in {Frame, Brief(n)} :
              IF ~room.full \/ Total - room.used - full >= rest * Brief(n)
              THEN Uses(full, TRUE) ELSE Uses(small, TRUE)
  <2>1. Reserve(rest, room.full, Brief(n)) = Later
    BY DEF Reserve
  <2> QED
    BY <2>1 DEF Fit
<1> HIDE DEF Goal, Before, Noted, First, Later
<1>10. CASE size <= allowed /\ Uses(size + Frame, FALSE)
  <2>1. Taken(size + Frame)
    BY <1>10, NotesTyped DEF Uses
  <2>2. room.used + (size + Frame) + Later <= Total
    BY <1>3, <1>8, <1>10, NotesTyped
  <2> QED
    BY <1>5, <2>1, <2>2, NotesTyped
<1>11. CASE \E kept \in {allowed - 1, allowed} : Uses(kept + Frame, FALSE)
  <2>1. PICK kept \in {allowed - 1, allowed} : Uses(kept + Frame, FALSE)
    BY <1>11
  <2>2. kept \in Int /\ kept <= bodyRoom
    BY <1>8
  <2>3. room.used + (kept + Frame) + Later <= Total
    BY <1>3, <2>2, NotesTyped
  <2>4. Taken(kept + Frame)
    BY <2>1, <2>2, NotesTyped DEF Uses
  <2> QED
    BY <1>5, <2>2, <2>3, <2>4, NotesTyped
<1>12. CASE \E full \in {BriefNote, FullNote}, small \in {Frame, Brief(n)} :
              IF ~room.full \/ Total - room.used - full >= rest * Brief(n)
              THEN Uses(full, TRUE) ELSE Uses(small, TRUE)
  <2>1. PICK full \in {BriefNote, FullNote}, small \in {Frame, Brief(n)} :
              IF ~room.full \/ Total - room.used - full >= rest * Brief(n)
              THEN Uses(full, TRUE) ELSE Uses(small, TRUE)
    BY <1>12
  <2>2. full \in Nat /\ full <= FullNote /\ small \in Nat /\ small <= Brief(n)
    BY <1>1, NotesTyped
  <2>3. CASE ~room.full /\ NotedFor(full)
    <3>1. Before => room.used + full + Noted <= Total
      BY <1>3, <1>4, <2>2, <2>3, NotesTyped
    <3> QED
      BY <1>6, <2>2, <2>3, <3>1
  <2>4. CASE Total - room.used - full >= rest * Brief(n) /\ NotedFor(full)
    <3>1. room.used + full + Noted <= Total
      BY <1>3, <2>2, <2>4, NotesTyped
    <3> QED
      BY <1>6, <2>2, <2>4, <3>1
  <2>5. CASE room.full /\ NotedFor(small)
    <3>1. Before => room.used + small + Noted <= Total
      BY <1>1, <1>3, <1>4, <2>2, <2>5, NotesTyped
    <3> QED
      BY <1>6, <2>2, <2>5, <3>1
  <2> QED
    BY <2>1, <2>3, <2>4, <2>5 DEF Uses
<1> QED
  BY <1>9, <1>10, <1>11, <1>12

-----------------------------------------------------------------------------
(* Sequences. *)

LEMMA IsSequence ==
  ASSUME NEW S, NEW n \in Nat, NEW t \in [1..n -> S]
  PROVE  t \in Seq(S) /\ Len(t) = n /\ DOMAIN t = 1..n
BY LenProperties, SeqDef

LEMMA SameShape ==
  ASSUME NEW S, NEW s \in Seq(S), NEW t \in [DOMAIN s -> S]
  PROVE  t \in Seq(S) /\ Len(t) = Len(s) /\ DOMAIN t = DOMAIN s
BY LenProperties, SeqDef

LEMMA ElementsAre ==
  ASSUME NEW S, NEW s \in Seq(S)
  PROVE  \A d \in DOMAIN s : s[d] \in S
OBVIOUS

LEMMA IndicesAre ==
  ASSUME NEW a \in Int, NEW b \in Int
  PROVE  /\ Indices(a, b) \in Seq(Int)
         /\ \A i \in DOMAIN Indices(a, b) :
              i \in Nat /\ Indices(a, b)[i] = a + i - 1 /\ Indices(a, b)[i] \in a..b
<1> DEFINE n == IF b < a THEN 0 ELSE b - a + 1
<1>1. n \in Nat /\ Indices(a, b) = [i \in 1..n |-> a + i - 1]
  BY DEF Indices
<1>2. Indices(a, b) \in [1..n -> Int] /\ DOMAIN Indices(a, b) = 1..n
  BY <1>1
<1>3. \A i \in 1..n : a + i - 1 \in a..b
  OBVIOUS
<1> QED
  BY <1>1, <1>2, <1>3, SeqDef

LEMMA AnsweredGrows ==
  ASSUME NEW log \in Seq(Int), NEW c \in Int, c # 0
  PROVE  Answered(Append(log, c)) = Answered(log) \cup {c}
<1>1. /\ Len(Append(log, c)) = Len(log) + 1
      /\ \A i \in 1..Len(log) : Append(log, c)[i] = log[i]
      /\ Append(log, c)[Len(log) + 1] = c
      /\ DOMAIN Append(log, c) = 1..(Len(log) + 1) /\ DOMAIN log = 1..Len(log)
      /\ Len(log) \in Nat
  OBVIOUS
<1> QED
  BY <1>1 DEF Answered

LEMMA MissingFinite ==
  ASSUME ToolTypes
  PROVE  /\ IsFiniteSet(Missing) /\ Cardinality(Missing) \in Nat
         /\ Missing # {} => Cardinality(Missing) > 0
         /\ CallIds = 1..Len(call) /\ Len(call) \in Nat
<1>1. CallIds = 1..Len(call) /\ Len(call) \in Nat
  BY DEF ToolTypes, CallIds
<1>2. IsFiniteSet(1..Len(call))
  BY <1>1, FS_Interval
<1>3. IsFiniteSet(Missing)
  BY <1>1, <1>2, FS_Subset DEF Missing
<1> QED
  BY <1>1, <1>3, FS_CardinalityType, FS_EmptySet

\* A step that adds no result.
LEMMA SameResults ==
  ASSUME ToolTypes, ToolTypes', TodoInv, LeftInv, TotalIsKept,
         Len(call') = Len(call), batch'.log = batch.log, batch'.todo = batch.todo,
         room' = room, batch'.pc = "rest" \/ batch.pc # "rest"
  PROVE  TodoInv' /\ LeftInv' /\ TotalIsKept'
<1>1. CallIds' = CallIds
  BY MissingFinite DEF ToolTypes, CallIds
<1>2. Missing' = Missing
  BY <1>1 DEF Missing
<1>3. TodoInv'
  BY <1>2 DEF TodoInv
<1>4. LeftInv'
  BY <1>2 DEF LeftInv
<1> QED
  BY <1>3, <1>4 DEF TotalIsKept

-----------------------------------------------------------------------------
(* The steps. *)

\* A reply with calls: all of them are missing, and the budget has room for a
\* note about each.
LEMMA ReplyKeeps ==
  ASSUME ToolInv, ReplyWithCalls
  PROVE  ToolInv'
<1>1. PICK n \in 1..MaxBatch, path \in {"parallel", "sequence", "refused"} :
        /\ \E kinds \in [1..n -> {"write", "ask", "other"}] :
             call' = [c \in 1..n |-> [kind |-> kinds[c], is |-> "waits"]]
        /\ room' = [NoRoom EXCEPT !.left = n]
        /\ batch' = [NoBatch EXCEPT !.path = path,
                       !.pc = IF path = "refused" THEN "add" ELSE "gate",
                       !.ended = path = "refused",
                       !.todo = IF path = "refused" THEN Indices(1, n) ELSE <<>>]
  BY DEF ReplyWithCalls
<1>2. n \in Nat /\ n > 0
  BY ToolBatchConstants
<1>3. call' \in Seq([kind : {"write", "ask", "other"}, is : Stages])
      /\ Len(call') = n /\ CallIds' = 1..n
  <2>1. PICK kinds \in [1..n -> {"write", "ask", "other"}] :
             call' = [c \in 1..n |-> [kind |-> kinds[c], is |-> "waits"]]
    BY <1>1
  <2>2. call' \in [1..n -> [kind : {"write", "ask", "other"}, is : Stages]]
    BY <2>1 DEF Stages
  <2>3. /\ call' \in Seq([kind : {"write", "ask", "other"}, is : Stages])
        /\ Len(call') = n /\ DOMAIN call' = 1..n
    <3> DEFINE S == [kind : {"write", "ask", "other"}, is : Stages]
    <3>1. call' \in [1..n -> S] /\ n \in Nat
      BY <1>2, <2>2
    <3> HIDE DEF S
    <3>2. call' \in Seq(S) /\ Len(call') = n /\ DOMAIN call' = 1..n
      BY <3>1, IsSequence
    <3> QED
      BY <3>2 DEF S
  <2> QED
    BY <2>3 DEF CallIds
<1>4. Indices(1, n) \in Seq(Int)
      /\ \A i \in DOMAIN Indices(1, n) : Indices(1, n)[i] = i /\ Indices(1, n)[i] \in 1..n
  BY <1>2, IndicesAre, SMTT(20)
<1>5. batch' = [pc |-> IF path = "refused" THEN "add" ELSE "gate", path |-> path,
                 next |-> 1, stopped |-> FALSE,
                 todo |-> IF path = "refused" THEN Indices(1, n) ELSE <<>>,
                 log |-> <<>>, notes |-> 0, ended |-> path = "refused"]
  BY <1>1 DEF NoBatch
<1>6. room' = [used |-> 0, full |-> FALSE, left |-> n]
  BY <1>1 DEF NoRoom
<1>7. batch'.log = <<>> /\ Answered(batch'.log) = {} /\ Missing' = 1..n
  BY <1>3, <1>5 DEF Answered, Missing
<1>8. ToolTypes'
  <2>1. batch' \in [pc : BatchPcs, path : Paths, next : Int, stopped : BOOLEAN, todo : Seq(Int),
                log : Seq(Int), notes : Nat, ended : BOOLEAN]
    BY <1>4, <1>5 DEF BatchPcs, Paths
  <2>2. room' \in [used : Int, full : BOOLEAN, left : Int]
    BY <1>2, <1>6
  <2>3. sem' \in [running : Int, queue : Seq(Int)]
        /\ user' \in [paused : BOOLEAN, esc : BOOLEAN, lock : BOOLEAN]
    BY DEF ReplyWithCalls, ToolInv, ToolTypes
  <2> QED
    BY <1>3, <2>1, <2>2, <2>3 DEF ToolTypes
<1>9. TodoInv'
  <2>1. batch'.todo = <<>> \/ batch'.todo = Indices(1, n)
    BY <1>1 DEF NoBatch
  <2> QED
    BY <1>4, <1>7, <2>1 DEF TodoInv
<1>10. PathInv'
  <2>1. 1..(1 - 1) = {} /\ 1 \in 1..n
    BY <1>2
  <2>2. batch'.path = path /\ batch'.next = 1 /\ ~batch'.stopped /\ batch'.log = <<>>
    BY <1>5
  <2>3. CASE path = "refused"
    BY <1>5, <2>2, <2>3 DEF PathInv
  <2>4. CASE path # "refused"
    BY <1>3, <1>5, <1>7, <2>1, <2>2, <2>4 DEF PathInv
  <2> QED
    BY <2>3, <2>4
<1>11. LeftInv'
  BY <1>2, <1>7, <1>6, FS_Interval DEF LeftInv
<1>12. TotalIsKept'
  <2>1. FullNote + (n - 1) * Brief(n) \in Int /\ Total \in Int
    BY <1>2, NotesTyped, BriefTyped
  <2>2. ~Overflows(n) => FullNote + (n - 1) * Brief(n) <= Total
    BY <1>2, <2>1 DEF Overflows, Reserve
  <2> QED
    BY <1>2, <1>3, <1>6, <2>1, <2>2 DEF TotalIsKept, Reserve
<1> QED
  BY <1>8, <1>9, <1>10, <1>11, <1>12 DEF ToolInv

\* The batch is left with some results at hand.
LEMMA LeaveKeeps ==
  ASSUME ToolInv, ToolTypes', batch.pc # "rest",
         NEW todo \in Seq(Int), batch' = Leave(batch, todo),
         \A i \in DOMAIN todo : todo[i] \in Missing,
         \A i, j \in DOMAIN todo : todo[i] = todo[j] => i = j,
         Len(call') = Len(call), room' = room
  PROVE  ToolInv'
<1>1. CallIds' = CallIds
  BY MissingFinite DEF ToolInv, ToolTypes, CallIds
<1>2. /\ batch'.pc = "add" /\ batch'.ended /\ batch'.todo = todo
      /\ batch'.log = batch.log /\ batch'.path = batch.path /\ batch'.stopped = batch.stopped
  BY DEF ToolInv, ToolTypes, Leave
<1>3. Missing' = Missing
  BY <1>1, <1>2 DEF Missing
<1>4. TodoInv'
  BY <1>2, <1>3 DEF TodoInv
<1>5. PathInv'
  BY <1>2 DEF PathInv, ToolInv
<1>6. LeftInv'
  BY <1>3 DEF LeftInv, ToolInv
<1>7. TotalIsKept'
  BY DEF TotalIsKept, ToolInv
<1> QED
  BY <1>4, <1>5, <1>6, <1>7 DEF ToolInv

LEMMA GateStopsKeeps ==
  ASSUME ToolInv, GateStops
  PROVE  ToolInv'
<1> DEFINE todo == IF batch.path = "parallel" THEN <<>> ELSE Indices(batch.next + 1, Len(call))
<1>1. /\ batch.pc = "gate" /\ batch' = Leave(batch, todo)
      /\ call' = call /\ sem' = sem /\ room' = room /\ user' = user
  BY DEF GateStops, GateOpens
<1>2. ToolTypes /\ PathInv /\ CallIds = 1..Len(call) /\ Len(call) \in Nat /\ batch.next \in Int
  BY MissingFinite DEF ToolInv, ToolTypes
<1>3. CASE batch.path = "parallel"
  <2>1. todo = <<>> /\ todo \in Seq(Int) /\ DOMAIN todo = {}
    BY <1>3
  <2>2. ToolTypes'
    BY <1>1, <1>2, <2>1 DEF ToolTypes, Leave, BatchPcs
  <2> QED
    BY <1>1, <2>1, <2>2, LeaveKeeps
<1>4. CASE batch.path = "sequence"
  <2>1. batch.next \in 1..Len(call) /\ Answered(batch.log) = 1..(batch.next - 1)
    BY <1>1, <1>2, <1>4 DEF PathInv
  <2>2. todo = Indices(batch.next + 1, Len(call))
    BY <1>4
  <2>3. /\ todo \in Seq(Int)
        /\ \A i \in DOMAIN todo : i \in Nat /\ todo[i] = batch.next + i
                                  /\ todo[i] \in (batch.next + 1)..Len(call)
    <3>1. batch.next + 1 \in Int /\ Len(call) \in Int
      BY <1>2
    <3>2. /\ Indices(batch.next + 1, Len(call)) \in Seq(Int)
          /\ \A i \in DOMAIN Indices(batch.next + 1, Len(call)) :
               /\ i \in Nat
               /\ Indices(batch.next + 1, Len(call))[i] = (batch.next + 1) + i - 1
               /\ Indices(batch.next + 1, Len(call))[i] \in (batch.next + 1)..Len(call)
      BY <3>1, IndicesAre
    <3>3. \A i \in Nat : (batch.next + 1) + i - 1 = batch.next + i
      BY <1>2
    <3> QED
      BY <2>2, <3>2, <3>3
  <2>4. (batch.next + 1)..Len(call) \subseteq Missing
    BY <1>2, <2>1 DEF Missing
  <2>5. ToolTypes'
    BY <1>1, <1>2, <2>3 DEF ToolTypes, Leave, BatchPcs
  <2> HIDE DEF todo
  <2> QED
    BY <1>1, <1>2, <2>3, <2>4, <2>5, LeaveKeeps
<1> QED
  BY <1>1, <1>2, <1>3, <1>4 DEF PathInv

\* The stage of one call changes.
LEMMA StageKeeps ==
  ASSUME NEW s \in Seq([kind : {"write", "ask", "other"}, is : Stages]),
         NEW c, NEW is \in Stages
  PROVE  /\ [s EXCEPT ![c].is = is] \in Seq([kind : {"write", "ask", "other"}, is : Stages])
         /\ Len([s EXCEPT ![c].is = is]) = Len(s)
         /\ DOMAIN [s EXCEPT ![c].is = is] = DOMAIN s
<1> DEFINE S == [kind : {"write", "ask", "other"}, is : Stages]
           t == [s EXCEPT ![c].is = is]
<1>1. \A d \in DOMAIN s : s[d] \in S
  BY ElementsAre
<1>2. \A d \in DOMAIN s : [s[d] EXCEPT !.is = is] \in S
  BY <1>1
<1>3. t \in [DOMAIN s -> S]
  BY <1>1, <1>2
<1> HIDE DEF S, t
<1>4. s \in Seq(S)
  BY DEF S
<1>5. t \in Seq(S) /\ Len(t) = Len(s) /\ DOMAIN t = DOMAIN s
  BY <1>3, <1>4, SameShape
<1> QED
  BY <1>5 DEF S, t

\* release() keeps the types.
LEMMA ReleaseKeeps ==
  ASSUME ToolTypes, NEW c, NEW is \in Stages, Release(c, is)
  PROVE  /\ call' \in Seq([kind : {"write", "ask", "other"}, is : Stages])
         /\ Len(call') = Len(call)
         /\ sem' \in [running : Int, queue : Seq(Int)]
<1>1. CASE sem.queue = <<>>
  <2>1. call' = [call EXCEPT ![c].is = is] /\ sem' = [sem EXCEPT !.running = @ - 1]
    BY <1>1 DEF Release
  <2>2. call \in Seq([kind : {"write", "ask", "other"}, is : Stages])
    BY DEF ToolTypes
  <2>3. sem' \in [running : Int, queue : Seq(Int)]
    <3>1. sem = [running |-> sem.running, queue |-> sem.queue]
          /\ sem.running \in Int /\ sem.queue \in Seq(Int)
      BY DEF ToolTypes
    <3>2. sem' = [running |-> sem.running - 1, queue |-> sem.queue]
      BY <2>1, <3>1
    <3> QED
      BY <3>1, <3>2
  <2> QED
    BY <2>1, <2>2, <2>3, StageKeeps
<1>2. CASE sem.queue # <<>>
  <2> DEFINE first == [call EXCEPT ![c].is = is]
             head == Head(sem.queue)
  <2>1. /\ call' = [first EXCEPT ![head].is = "granted"]
        /\ sem' = [sem EXCEPT !.queue = Tail(@)]
    BY <1>2 DEF Release
  <2>2. call \in Seq([kind : {"write", "ask", "other"}, is : Stages]) /\ "granted" \in Stages
    BY DEF ToolTypes, Stages
  <2>3. first \in Seq([kind : {"write", "ask", "other"}, is : Stages]) /\ Len(first) = Len(call)
    BY <2>2, StageKeeps
  <2>4. sem' \in [running : Int, queue : Seq(Int)]
    <3>1. sem.queue \in Seq(Int) /\ sem.queue # <<>> /\ sem.running \in Int
      BY <1>2 DEF ToolTypes
    <3>2. Tail(sem.queue) \in Seq(Int)
      BY <3>1
    <3> QED
      BY <2>1, <3>1, <3>2 DEF ToolTypes
  <2> HIDE DEF first, head
  <2>5. /\ call' \in Seq([kind : {"write", "ask", "other"}, is : Stages])
        /\ Len(call') = Len(first)
    BY <2>1, <2>2, <2>3, StageKeeps
  <2> QED
    BY <2>3, <2>4, <2>5
<1> QED
  BY <1>1, <1>2

\* release() sets one call to its end and grants another.
LEMMA ReleaseSets ==
  ASSUME ToolTypes, NEW c, NEW is, Release(c, is), NEW d \in CallIds
  PROVE  call'[d].is \in {is, "granted", call[d].is}
<1>1. call[d] \in [kind : {"write", "ask", "other"}, is : Stages]
  BY ElementsAre DEF ToolTypes, CallIds
<1>2. call = [e \in DOMAIN call |-> call[e]]
  BY DEF ToolTypes
<1>3. CASE sem.queue = <<>>
  <2>1. call' = [call EXCEPT ![c].is = is]
    BY <1>3 DEF Release
  <2> QED
    BY <1>1, <1>2, <2>1 DEF CallIds
<1>4. CASE sem.queue # <<>>
  <2> DEFINE first == [call EXCEPT ![c].is = is]
  <2>1. call' = [first EXCEPT ![Head(sem.queue)].is = "granted"]
    BY <1>4 DEF Release
  <2>2. first[d].is \in {is, call[d].is} /\ d \in DOMAIN first /\ "is" \in DOMAIN first[d]
    BY <1>1, <1>2 DEF CallIds
  <2> HIDE DEF first
  <2>3. call'[d] = (IF d = Head(sem.queue) THEN [first[d] EXCEPT !.is = "granted"] ELSE first[d])
    BY <2>1, <2>2
  <2> QED
    BY <2>2, <2>3
<1> QED
  BY <1>3, <1>4

\* A step within the pool or a tool that adds no result and moves the batch on.
LEMMA MovesOn ==
  ASSUME ToolInv, ToolTypes', Len(call') = Len(call), room' = room,
         batch'.log = batch.log, batch'.todo = batch.todo, batch'.path = batch.path,
         batch'.next = batch.next, batch'.ended = batch.ended,
         \/ batch'.pc = batch.pc
         \/ batch.pc = "gate" /\ batch.path = "parallel" /\ batch'.pc = "pool"
         \/ batch.pc = "gate" /\ batch.path = "sequence" /\ batch'.pc = "tool",
         batch.path = "sequence" => ~batch'.stopped
  PROVE  ToolInv'
<1>1. CallIds' = CallIds
  BY MissingFinite DEF ToolInv, ToolTypes, CallIds
<1>2. TodoInv' /\ LeftInv' /\ TotalIsKept'
  BY SameResults DEF ToolInv
<1>3. PathInv'
  BY <1>1 DEF PathInv, ToolInv
<1> QED
  BY <1>2, <1>3 DEF ToolInv

LEMMA PoolStartsKeeps ==
  ASSUME ToolInv, PoolStarts
  PROVE  ToolInv'
<1> DEFINE now == IF Len(call) < Limit THEN Len(call) ELSE Limit
           S == [kind : {"write", "ask", "other"}, is : Stages]
<1>1. /\ batch.pc = "gate" /\ batch.path = "parallel"
      /\ call' = [c \in CallIds |-> IF c <= now THEN [call[c] EXCEPT !.is = "granted"] ELSE call[c]]
      /\ sem' = [running |-> now, queue |-> Indices(now + 1, Len(call))]
      /\ batch' = [batch EXCEPT !.pc = "pool"]
      /\ room' = room /\ user' = user
  BY DEF PoolStarts, GateOpens
<1>2. ToolTypes /\ PathInv /\ Len(call) \in Nat /\ Limit \in Nat
  BY ToolBatchConstants, MissingFinite DEF ToolInv
<1>3. now \in Int /\ Indices(now + 1, Len(call)) \in Seq(Int)
  <2>1. now \in Int /\ now + 1 \in Int /\ Len(call) \in Int
    BY <1>2
  <2> QED
    BY <2>1, IndicesAre
<1>4. call' \in Seq(S) /\ Len(call') = Len(call)
  <2>1. call \in Seq(S) /\ "granted" \in Stages
    BY <1>2 DEF ToolTypes, Stages
  <2>2. \A c \in DOMAIN call : call[c] \in S /\ [call[c] EXCEPT !.is = "granted"] \in S
    <3>1. \A c \in DOMAIN call : call[c] \in S
      BY <2>1, ElementsAre
    <3> QED
      BY <2>1, <3>1
  <2>3. call' \in [DOMAIN call -> S]
    BY <1>1, <2>2 DEF CallIds
  <2> HIDE DEF S
  <2> QED
    BY <2>1, <2>3, SameShape
<1>5. ToolTypes'
  BY <1>1, <1>2, <1>3, <1>4 DEF ToolTypes, BatchPcs
<1> QED
  BY <1>1, <1>2, <1>4, <1>5, MovesOn DEF ToolTypes, PathInv

\* A tool starts: types and calls are kept.
LEMMA StartKeeps ==
  ASSUME ToolTypes, NEW c, StartCall(c)
  PROVE  /\ call' \in Seq([kind : {"write", "ask", "other"}, is : Stages])
         /\ Len(call') = Len(call)
         /\ user' \in [paused : BOOLEAN, esc : BOOLEAN, lock : BOOLEAN]
<1> DEFINE is == IF user.lock /\ call[c].kind = "write" THEN "refused" ELSE "runs"
<1>1. is \in Stages /\ call' = [call EXCEPT ![c].is = is]
  BY DEF StartCall, Stages
<1>2. user' \in [paused : BOOLEAN, esc : BOOLEAN, lock : BOOLEAN]
  BY DEF StartCall, ToolTypes
<1>3. call \in Seq([kind : {"write", "ask", "other"}, is : Stages])
  BY DEF ToolTypes
<1> HIDE DEF is
<1> QED
  BY <1>1, <1>2, <1>3, StageKeeps

LEMMA SequenceStartsKeeps ==
  ASSUME ToolInv, SequenceStarts
  PROVE  ToolInv'
<1>1. /\ batch.pc = "gate" /\ batch.path = "sequence" /\ StartCall(batch.next)
      /\ batch' = [batch EXCEPT !.pc = "tool"] /\ sem' = sem /\ room' = room
  BY DEF SequenceStarts, GateOpens
<1>2. ToolTypes /\ PathInv
  BY DEF ToolInv
<1>3. Len(call') = Len(call) /\ ToolTypes'
  BY <1>1, <1>2, StartKeeps DEF ToolTypes, BatchPcs
<1> QED
  BY <1>1, <1>2, <1>3, MovesOn DEF ToolTypes, PathInv

LEMMA PoolCallStartsKeeps ==
  ASSUME ToolInv, NEW c, PoolCallStarts(c)
  PROVE  ToolInv'
<1>1. /\ batch' = batch /\ room' = room
      /\ \/ Release(c, "skipped") /\ user' = user
         \/ StartCall(c) /\ sem' = sem
  BY DEF PoolCallStarts
<1>2. ToolTypes /\ PathInv /\ "skipped" \in Stages
  BY DEF ToolInv, Stages
<1>3. Len(call') = Len(call) /\ ToolTypes'
  BY <1>1, <1>2, ReleaseKeeps, StartKeeps DEF ToolTypes
<1> QED
  BY <1>1, <1>2, <1>3, MovesOn DEF PathInv

LEMMA PoolCallEndsKeeps ==
  ASSUME ToolInv, NEW c, PoolCallEnds(c)
  PROVE  ToolInv'
<1>1. batch.pc = "pool" /\ room' = room
  BY DEF PoolCallEnds
<1>2. PICK is \in Endings :
        /\ Release(c, is) /\ Locked(is)
        /\ batch' = [batch EXCEPT !.stopped = @ \/ is = "stops"]
  BY DEF PoolCallEnds
<1>3. ToolTypes /\ PathInv /\ is \in Stages
  BY DEF ToolInv, Stages
<1>4. user' \in [paused : BOOLEAN, esc : BOOLEAN, lock : BOOLEAN]
  BY <1>2, <1>3 DEF Locked, ToolTypes
<1>5. /\ batch'.log = batch.log /\ batch'.todo = batch.todo /\ batch'.path = batch.path
      /\ batch'.next = batch.next /\ batch'.ended = batch.ended /\ batch'.pc = batch.pc
      /\ batch' \in [pc : BatchPcs, path : Paths, next : Int, stopped : BOOLEAN, todo : Seq(Int),
                log : Seq(Int), notes : Nat, ended : BOOLEAN]
  BY <1>2, <1>3 DEF ToolTypes
<1>6. Len(call') = Len(call) /\ ToolTypes'
  BY <1>1, <1>2, <1>3, <1>4, <1>5, ReleaseKeeps DEF ToolTypes
<1>7. batch.path = "parallel"
  BY <1>1, <1>3 DEF PathInv
<1> QED
  BY <1>1, <1>5, <1>6, <1>7, MovesOn

LEMMA PoolEndsKeeps ==
  ASSUME ToolInv, PoolEnds
  PROVE  ToolInv'
<1> DEFINE todo == Indices(1, Len(call))
<1>1. /\ batch.pc = "pool" /\ batch' = Leave(batch, todo)
      /\ call' = call /\ sem' = sem /\ room' = room /\ user' = user
  BY DEF PoolEnds
<1>2. ToolTypes /\ PathInv /\ CallIds = 1..Len(call) /\ Len(call) \in Nat
  BY MissingFinite DEF ToolInv
<1>3. /\ todo \in Seq(Int)
      /\ \A i \in DOMAIN todo : todo[i] = i /\ todo[i] \in 1..Len(call)
  <2>1. 1 \in Int /\ Len(call) \in Int
    BY <1>2
  <2>2. /\ Indices(1, Len(call)) \in Seq(Int)
        /\ \A i \in DOMAIN Indices(1, Len(call)) :
              /\ i \in Nat /\ Indices(1, Len(call))[i] = 1 + i - 1
              /\ Indices(1, Len(call))[i] \in 1..Len(call)
    BY <2>1, IndicesAre
  <2> QED
    BY <2>2
<1> HIDE DEF todo
<1>4. Missing = 1..Len(call)
  BY <1>1, <1>2 DEF PathInv, Missing, Answered
<1>5. ToolTypes'
  BY <1>1, <1>2, <1>3 DEF ToolTypes, Leave, BatchPcs
<1> QED
  BY <1>1, <1>3, <1>4, <1>5, LeaveKeeps

LEMMA SequenceCallEndsKeeps ==
  ASSUME ToolInv, SequenceCallEnds
  PROVE  ToolInv'
<1>1. batch.pc = "tool" /\ sem' = sem /\ room' = room
  BY DEF SequenceCallEnds
<1>2. PICK is \in Endings :
        /\ call' = [call EXCEPT ![batch.next].is = is] /\ Locked(is)
        /\ batch' = IF is = "thrown" THEN Leave(batch, <<>>)
                    ELSE IF is = "stops" \/ batch.next = Len(call)
                    THEN Leave(batch, Indices(batch.next, Len(call)))
                    ELSE [batch EXCEPT !.pc = "add", !.todo = <<batch.next>>]
  BY DEF SequenceCallEnds
<1>3. /\ ToolTypes /\ PathInv /\ is \in Stages
      /\ CallIds = 1..Len(call) /\ Len(call) \in Nat /\ batch.next \in Int
  BY MissingFinite DEF ToolInv, ToolTypes, Stages
<1>4. /\ batch.path = "sequence" /\ ~batch.ended /\ ~batch.stopped /\ batch.todo = <<>>
      /\ batch.next \in 1..Len(call) /\ Answered(batch.log) = 1..(batch.next - 1)
  BY <1>1, <1>3 DEF PathInv
<1>5. batch.next..Len(call) \subseteq Missing
  BY <1>3, <1>4 DEF Missing
<1>6. /\ call' \in Seq([kind : {"write", "ask", "other"}, is : Stages])
      /\ Len(call') = Len(call)
      /\ user' \in [paused : BOOLEAN, esc : BOOLEAN, lock : BOOLEAN]
  <2>1. call \in Seq([kind : {"write", "ask", "other"}, is : Stages])
    BY <1>3 DEF ToolTypes
  <2>2. user' \in [paused : BOOLEAN, esc : BOOLEAN, lock : BOOLEAN]
    BY <1>2, <1>3 DEF Locked, ToolTypes
  <2> QED
    BY <1>2, <1>3, <2>1, <2>2, StageKeeps
<1>7. ASSUME NEW todo \in Seq(Int), batch' = Leave(batch, todo)
      PROVE  ToolTypes'
  BY <1>1, <1>3, <1>6, <1>7 DEF ToolTypes, Leave, BatchPcs
<1>8. CASE is = "thrown"
  <2> DEFINE todo == <<>>
  <2>1. batch' = Leave(batch, todo) /\ todo \in Seq(Int) /\ DOMAIN todo = {}
    BY <1>2, <1>8
  <2>2. ToolTypes'
    BY <1>7, <2>1
  <2> QED
    BY <1>1, <1>6, <2>1, <2>2, LeaveKeeps
<1>9. CASE is # "thrown" /\ (is = "stops" \/ batch.next = Len(call))
  <2> DEFINE todo == Indices(batch.next, Len(call))
  <2>1. batch' = Leave(batch, todo)
    BY <1>2, <1>9
  <2>2. /\ todo \in Seq(Int)
        /\ \A i \in DOMAIN todo : i \in Nat /\ todo[i] = batch.next + i - 1
                                  /\ todo[i] \in batch.next..Len(call)
    <3>1. batch.next \in Int /\ Len(call) \in Int
      BY <1>3
    <3> QED
      BY <3>1, IndicesAre
  <2> HIDE DEF todo
  <2>3. ToolTypes'
    BY <1>7, <2>1, <2>2
  <2>4. \A i, j \in DOMAIN todo : todo[i] = todo[j] => i = j
    BY <1>3, <2>2
  <2> QED
    BY <1>1, <1>5, <1>6, <2>1, <2>2, <2>3, <2>4, LeaveKeeps
<1>10. CASE is # "thrown" /\ ~(is = "stops" \/ batch.next = Len(call))
  <2>1. batch' = [batch EXCEPT !.pc = "add", !.todo = <<batch.next>>]
    BY <1>2, <1>10
  <2>2. /\ batch'.pc = "add" /\ batch'.todo = <<batch.next>> /\ batch'.log = batch.log
        /\ batch'.path = batch.path /\ batch'.next = batch.next
        /\ ~batch'.ended /\ ~batch'.stopped
        /\ batch' \in [pc : BatchPcs, path : Paths, next : Int, stopped : BOOLEAN, todo : Seq(Int),
                log : Seq(Int), notes : Nat, ended : BOOLEAN]
    <3>1. <<batch.next>> \in Seq(Int)
      BY <1>3
    <3> QED
      BY <1>3, <1>4, <2>1, <3>1 DEF ToolTypes, BatchPcs
  <2>3. ToolTypes'
    BY <1>1, <1>3, <1>6, <2>2 DEF ToolTypes
  <2>4. CallIds' = CallIds
    BY <1>3, <1>6, <2>3, MissingFinite DEF ToolTypes, CallIds
  <2>5. Missing' = Missing
    BY <2>2, <2>4 DEF Missing
  <2>6. TodoInv'
    BY <1>3, <1>4, <1>5, <2>2, <2>5 DEF TodoInv
  <2>7. PathInv'
    <3>1. batch.next < Len(call) /\ Len(call') = Len(call)
      BY <1>3, <1>4, <1>6, <1>10
    <3> QED
      BY <1>3, <1>4, <2>2, <2>4, <3>1 DEF PathInv
  <2>8. LeftInv' /\ TotalIsKept'
    BY <1>1, <1>6, <2>5 DEF ToolInv, LeftInv, TotalIsKept
  <2> QED
    BY <2>3, <2>6, <2>7, <2>8 DEF ToolInv
<1> QED
  BY <1>8, <1>9, <1>10

\* A result is added: its call is missing no more, and the budget counts one less.
LEMMA AddResultKeeps ==
  ASSUME ToolInv, AddResult
  PROVE  ToolInv'
<1>1. PICK c \in Upcoming :
        /\ call' = [call EXCEPT ![c] = NoCall]
        /\ \E size \in Sizes : Fit(call[c].kind, size, Len(call))
        /\ \E noted \in {0, 1} :
             batch' = [batch EXCEPT !.todo = IF @ = <<>> THEN @ ELSE Tail(@),
                                    !.log = Append(@, c), !.notes = @ + noted]
  BY DEF AddResult
<1>2. PICK size \in Sizes : Fit(call[c].kind, size, Len(call))
  BY <1>1
<1>3. batch.pc = "add" /\ sem' = sem /\ user' = user
  BY DEF AddResult
<1>4. /\ ToolTypes /\ TodoInv /\ PathInv
      /\ CallIds = 1..Len(call) /\ Len(call) \in Nat
      /\ IsFiniteSet(Missing) /\ Cardinality(Missing) \in Nat
      /\ Missing # {} => Cardinality(Missing) > 0
      /\ batch.todo \in Seq(Int) /\ batch.log \in Seq(Int)
  BY MissingFinite DEF ToolInv, ToolTypes
<1>5. c \in Missing /\ (batch.todo # <<>> => c = batch.todo[1])
  <2>1. CASE batch.todo # <<>>
    <3>1. 1 \in DOMAIN batch.todo /\ Head(batch.todo) = batch.todo[1]
      BY <1>4, <2>1
    <3> QED
      BY <1>1, <1>4, <2>1, <3>1 DEF Upcoming, TodoInv
  <2>2. CASE batch.todo = <<>>
    BY <1>1, <2>2 DEF Upcoming
  <2> QED
    BY <2>1, <2>2
<1>6. c \in 1..Len(call) /\ c \in Int /\ c # 0
  BY <1>4, <1>5 DEF Missing
<1>7. PICK noted \in {0, 1} :
        batch' = [batch EXCEPT !.todo = IF @ = <<>> THEN @ ELSE Tail(@),
                               !.log = Append(@, c), !.notes = @ + noted]
  BY <1>1
<1>8. /\ batch'.todo = (IF batch.todo = <<>> THEN batch.todo ELSE Tail(batch.todo))
      /\ batch'.log = Append(batch.log, c) /\ batch'.notes = batch.notes + noted
      /\ batch'.pc = batch.pc /\ batch'.path = batch.path /\ batch'.next = batch.next
      /\ batch'.stopped = batch.stopped /\ batch'.ended = batch.ended
      /\ DOMAIN batch' = DOMAIN batch
  BY <1>4, <1>7 DEF ToolTypes
<1>9. /\ call' \in Seq([kind : {"write", "ask", "other"}, is : Stages])
      /\ Len(call') = Len(call) /\ CallIds' = CallIds
  <2> DEFINE S == [kind : {"write", "ask", "other"}, is : Stages]
  <2>1. call \in Seq(S) /\ NoCall \in S
    BY <1>4 DEF ToolTypes, NoCall, Stages
  <2>2. \A d \in DOMAIN call : call[d] \in S
    BY <2>1, ElementsAre
  <2>3. call' \in [DOMAIN call -> S]
    BY <1>1, <2>1, <2>2
  <2> HIDE DEF S
  <2>4. call' \in Seq(S) /\ Len(call') = Len(call) /\ DOMAIN call' = DOMAIN call
    BY <2>1, <2>3, SameShape
  <2> QED
    BY <2>4 DEF S, CallIds
<1>10. Answered(batch'.log) = Answered(batch.log) \cup {c} /\ Missing' = Missing \ {c}
  <2>1. Answered(batch'.log) = Answered(batch.log) \cup {c}
    BY <1>4, <1>6, <1>8, AnsweredGrows
  <2> QED
    BY <1>9, <2>1 DEF Missing
<1>11. Cardinality(Missing') = Cardinality(Missing) - 1 /\ room.left = Cardinality(Missing)
       /\ room.left > 0
  <2>1. Cardinality(Missing \ {c}) = Cardinality(Missing) - 1
    BY <1>4, <1>5, FS_RemoveElement
  <2>2. room.left = Cardinality(Missing)
    BY <1>3 DEF ToolInv, LeftInv
  <2> QED
    BY <1>4, <1>5, <1>10, <2>1, <2>2
<1>12. /\ room' \in [used : Int, full : BOOLEAN, left : Int]
       /\ room'.left = room.left - 1
       /\ room.used + Reserve(room.left, room.full, Brief(Len(call))) <= Total =>
            room'.used + Reserve(room'.left, room'.full, Brief(Len(call))) <= Total
  <2>1. size \in Nat /\ room \in [used : Int, full : BOOLEAN, left : Int]
    BY <1>4, ToolBatchConstants DEF ToolTypes
  <2> QED
    BY <1>2, <1>4, <1>11, <2>1, FitKeepsTotal
<1>13. batch'.todo \in Seq(Int)
       /\ \A i \in DOMAIN batch'.todo :
            i + 1 \in DOMAIN batch.todo /\ batch'.todo[i] = batch.todo[i + 1] /\ i \in Nat /\ i > 0
  <2>1. CASE batch.todo = <<>>
    BY <1>8, <2>1
  <2>2. CASE batch.todo # <<>>
    BY <1>4, <1>8, <2>2
  <2> QED
    BY <2>1, <2>2
<1>14. ToolTypes'
  <2>1. batch'.log \in Seq(Int) /\ batch'.notes \in Nat
    <3>1. batch.notes \in Nat
      BY <1>4 DEF ToolTypes
    <3> QED
      BY <1>4, <1>6, <1>8, <3>1
  <2>2. batch' \in [pc : BatchPcs, path : Paths, next : Int, stopped : BOOLEAN, todo : Seq(Int),
                log : Seq(Int), notes : Nat, ended : BOOLEAN]
    BY <1>4, <1>7, <1>8, <1>13, <2>1 DEF ToolTypes
  <2> QED
    BY <1>3, <1>4, <1>9, <1>12, <2>2 DEF ToolTypes
<1>15. TodoInv'
  <2>1. ASSUME NEW i \in DOMAIN batch'.todo
        PROVE  batch'.todo[i] \in Missing'
    <3>1. batch.todo # <<>>
      BY <1>13, <2>1
    <3>2. 1 \in DOMAIN batch.todo /\ i + 1 \in DOMAIN batch.todo /\ i + 1 # 1
      BY <1>4, <1>13, <2>1, <3>1
    <3>3. batch.todo[i + 1] \in Missing /\ batch.todo[i + 1] # batch.todo[1]
      BY <1>4, <3>2 DEF TodoInv
    <3> QED
      BY <1>5, <1>10, <1>13, <3>1, <3>3
  <2>2. ASSUME NEW i \in DOMAIN batch'.todo, NEW j \in DOMAIN batch'.todo,
               batch'.todo[i] = batch'.todo[j]
        PROVE  i = j
    <3>1. i + 1 = j + 1
      BY <1>4, <1>13, <2>2 DEF TodoInv
    <3> QED
      BY <1>13, <3>1
  <2> QED
    BY <2>1, <2>2 DEF TodoInv
<1>16. PathInv'
  <2>1. CASE batch.ended
    BY <1>3, <1>4, <1>8, <2>1 DEF PathInv
  <2>2. CASE ~batch.ended
    <3>1. batch.todo # <<>>
      BY <1>1, <2>2 DEF Upcoming
    <3>2. /\ batch.path = "sequence" /\ batch.next \in CallIds /\ batch.next < Len(call)
          /\ batch.todo = <<batch.next>> /\ Answered(batch.log) = 1..(batch.next - 1)
          /\ ~batch.stopped
      BY <1>3, <1>4, <2>2, <3>1 DEF PathInv
    <3>3. batch'.todo = <<>> /\ c = batch.next
      BY <1>5, <1>8, <3>1, <3>2
    <3>4. Answered(batch'.log) = 1..batch.next
      BY <1>4, <1>10, <3>2, <3>3
    <3> QED
      BY <1>3, <1>8, <1>9, <2>2, <3>2, <3>3, <3>4 DEF PathInv
  <2> QED
    BY <2>1, <2>2
<1>17. LeftInv' /\ TotalIsKept'
  BY <1>9, <1>11, <1>12 DEF ToolInv, LeftInv, TotalIsKept
<1> QED
  BY <1>14, <1>15, <1>16, <1>17 DEF ToolInv

\* All results at hand are added: the next tool, or the end of the batch.
LEMMA AddedKeeps ==
  ASSUME ToolInv, Added
  PROVE  ToolInv'
<1>1. /\ batch.pc = "add" /\ Upcoming = {}
      /\ call' = call /\ sem' = sem /\ user' = user
  BY DEF Added
<1>2. ToolTypes /\ PathInv /\ CallIds = 1..Len(call) /\ Len(call) \in Nat /\ batch.next \in Int
  BY MissingFinite DEF ToolInv, ToolTypes
<1>3. CASE batch.ended
  <2> DEFINE log == batch.log \o [i \in 1..batch.notes |-> 0]
  <2>1. log \in Seq(Int)
    <3>1. batch.notes \in Nat /\ batch.log \in Seq(Int)
      BY <1>2 DEF ToolTypes
    <3>2. [i \in 1..batch.notes |-> 0] \in [1..batch.notes -> Int]
      OBVIOUS
    <3>3. [i \in 1..batch.notes |-> 0] \in Seq(Int)
      BY <3>1, <3>2, IsSequence
    <3> QED
      BY <3>1, <3>3, ConcatProperties
  <2>2. batch' = [NoBatch EXCEPT !.log = log] /\ room' = NoRoom
    BY <1>3 DEF Added
  <2> HIDE DEF log
  <2>3. batch' = [pc |-> "rest", path |-> "none", next |-> 1, stopped |-> FALSE,
                  todo |-> <<>>, log |-> log, notes |-> 0, ended |-> TRUE]
        /\ room' = [used |-> 0, full |-> FALSE, left |-> 0]
    BY <2>2 DEF NoBatch, NoRoom
  <2>4. ToolTypes'
    BY <1>1, <1>2, <2>1, <2>3 DEF ToolTypes, BatchPcs, Paths
  <2>5. TodoInv' /\ PathInv' /\ LeftInv'
    BY <2>3 DEF TodoInv, PathInv, LeftInv
  <2>6. TotalIsKept'
    BY <2>3, NotesTyped DEF TotalIsKept, Reserve
  <2> QED
    BY <2>4, <2>5, <2>6 DEF ToolInv
<1>4. CASE ~batch.ended
  <2>1. batch' = [batch EXCEPT !.pc = "gate", !.next = @ + 1] /\ room' = room
    BY <1>4 DEF Added
  <2>2. batch.todo = <<>>
    BY <1>1 DEF Upcoming
  <2>3. /\ batch.path = "sequence" /\ batch.next \in CallIds /\ batch.next < Len(call)
        /\ ~batch.stopped /\ Answered(batch.log) = 1..batch.next
    BY <1>1, <1>2, <1>4, <2>2 DEF PathInv
  <2>4. /\ batch'.pc = "gate" /\ batch'.next = batch.next + 1 /\ batch'.todo = <<>>
        /\ batch'.log = batch.log /\ batch'.path = "sequence" /\ ~batch'.ended /\ ~batch'.stopped
        /\ batch' \in [pc : BatchPcs, path : Paths, next : Int, stopped : BOOLEAN, todo : Seq(Int),
                log : Seq(Int), notes : Nat, ended : BOOLEAN]
    <3>1. batch.next + 1 \in Int
      BY <1>2
    <3> QED
      BY <1>2, <1>4, <2>1, <2>2, <2>3, <3>1 DEF ToolTypes, BatchPcs
  <2>5. ToolTypes'
    BY <1>1, <1>2, <2>1, <2>4 DEF ToolTypes
  <2>6. TodoInv' /\ LeftInv' /\ TotalIsKept'
    BY <1>1, <2>1, <2>2, <2>4, <2>5, SameResults DEF ToolInv
  <2>7. PathInv'
    <3>1. CallIds' = CallIds /\ (batch.next + 1) - 1 = batch.next /\ batch.next + 1 \in CallIds
      BY <1>1, <1>2, <2>3 DEF CallIds
    <3> QED
      BY <2>3, <2>4, <3>1 DEF PathInv
  <2> QED
    BY <2>5, <2>6, <2>7 DEF ToolInv
<1> QED
  BY <1>3, <1>4

\* The user, and a step of another part.
LEMMA UserKeeps ==
  ASSUME ToolInv, UNCHANGED <<batch, call, sem, room>>,
         user' \in [paused : BOOLEAN, esc : BOOLEAN, lock : BOOLEAN]
  PROVE  ToolInv'
<1>1. ToolTypes'
  BY DEF ToolInv, ToolTypes
<1>2. CallIds' = CallIds /\ Missing' = Missing
  BY DEF CallIds, Missing
<1> QED
  BY <1>1, <1>2 DEF ToolInv, TodoInv, PathInv, LeftInv, TotalIsKept

-----------------------------------------------------------------------------
(* The theorems. *)

\* The invariant holds at the start, of a session without a batch.
LEMMA ToolInvInit == ToolInit => ToolInv
<1> SUFFICES ASSUME ToolInit PROVE ToolInv
  OBVIOUS
<1>1. /\ batch = NoBatch /\ call = <<>> /\ sem = [running |-> 0, queue |-> <<>>]
      /\ room = NoRoom /\ user = [paused |-> FALSE, esc |-> FALSE, lock |-> FALSE]
  BY DEF ToolInit
<1>2. ToolTypes
  BY <1>1 DEF ToolTypes, NoBatch, NoRoom, BatchPcs, Paths
<1>3. TodoInv /\ PathInv /\ LeftInv
  BY <1>1 DEF TodoInv, PathInv, LeftInv, NoBatch
<1>4. TotalIsKept
  BY <1>1, NotesTyped DEF TotalIsKept, Reserve, NoRoom
<1> QED
  BY <1>2, <1>3, <1>4 DEF ToolInv

\* Every step of a batch and of the user keeps the invariant.
LEMMA ToolInvStep == ToolInv /\ [ToolNext]_toolVars => ToolInv'
<1> SUFFICES ASSUME ToolInv, [ToolNext]_toolVars PROVE ToolInv'
  OBVIOUS
<1>1. CASE GateStops
  BY <1>1, GateStopsKeeps
<1>2. CASE PoolStarts
  BY <1>2, PoolStartsKeeps
<1>3. CASE SequenceStarts
  BY <1>3, SequenceStartsKeeps
<1>4. CASE SequenceCallEnds
  BY <1>4, SequenceCallEndsKeeps
<1>5. CASE PoolEnds
  BY <1>5, PoolEndsKeeps
<1>6. CASE AddResult
  BY <1>6, AddResultKeeps
<1>7. CASE Added
  BY <1>7, AddedKeeps
<1>8. CASE \E c \in CallIds : PoolCallStarts(c) \/ PoolCallEnds(c)
  BY <1>8, PoolCallStartsKeeps, PoolCallEndsKeeps
<1>9. CASE ReplyWithCalls
  BY <1>9, ReplyKeeps
<1>10. CASE Escape \/ Pause \/ NewRun \/ LockExpires
  <2>1. UNCHANGED <<batch, call, sem, room>>
    BY <1>10 DEF Escape, Pause, NewRun, LockExpires
  <2>2. user' \in [paused : BOOLEAN, esc : BOOLEAN, lock : BOOLEAN]
    BY <1>10 DEF Escape, Pause, NewRun, LockExpires, ToolInv, ToolTypes
  <2> QED
    BY <2>1, <2>2, UserKeeps
<1>11. CASE UNCHANGED toolVars
  BY <1>11, UserKeeps DEF toolVars, ToolInv, ToolTypes
<1> QED
  BY <1>1, <1>2, <1>3, <1>4, <1>5, <1>6, <1>7, <1>8, <1>9, <1>10, <1>11 DEF ToolNext, BatchSteps

\* The invariant of the tool batch: the budget counts the calls without a
\* result, the results at hand are of such calls, each once (withToolBatch,
\* ToolResultBatch).
THEOREM ToolInvHolds == ToolSpec => []ToolInv
<1>1. ToolInit => ToolInv
  BY ToolInvInit
<1>2. ToolInv /\ [ToolNext]_toolVars => ToolInv'
  BY ToolInvStep
<1> QED
  BY <1>1, <1>2, PTL DEF ToolSpec

\* The results of a reply stay within the total a reply may take, with room
\* left for a note about each call still to answer (ToolResultBatch.fit).
THEOREM ResultsFitTotal == ToolSpec => []TotalIsKept
<1>1. ToolInv => TotalIsKept
  BY DEF ToolInv
<1> QED
  BY <1>1, ToolInvHolds, PTL

StartsUnstopped ==
  \A c \in CallIds \cap DOMAIN call' :
    call[c].is \in {"waits", "granted"} /\ call'[c].is = "runs" => ~batch.stopped /\ ~user.esc

LEMMA StartsUnstoppedStep ==
  ToolInv /\ [ToolNext]_toolVars => [StartsUnstopped]_toolVars
<1> SUFFICES ASSUME ToolInv, ToolNext,
                    NEW c \in CallIds \cap DOMAIN call',
                    call[c].is \in {"waits", "granted"}, call'[c].is = "runs"
             PROVE  ~batch.stopped /\ ~user.esc
  BY DEF toolVars, StartsUnstopped
<1>1. CASE call' = call
  BY <1>1
<1>2. CASE SequenceStarts
  BY <1>2 DEF SequenceStarts, GateOpens, ToolInv, PathInv
<1>3. ASSUME NEW d \in CallIds, PoolCallStarts(d)
      PROVE  ~batch.stopped /\ ~user.esc
  <2>1. CASE Release(d, "skipped")
    <3>1. call'[c].is \in {"skipped", "granted", call[c].is}
      BY <2>1, ReleaseSets DEF ToolInv
    <3> QED
      BY <3>1
  <2> QED
    BY <1>3, <2>1 DEF PoolCallStarts
<1>4. ASSUME NEW d \in CallIds, PoolCallEnds(d)
      PROVE  FALSE
  <2>1. PICK is \in Endings : Release(d, is)
    BY <1>4 DEF PoolCallEnds
  <2>2. call'[c].is \in {is, "granted", call[c].is}
    BY <2>1, ReleaseSets DEF ToolInv
  <2> QED
    BY <2>2 DEF Endings
<1>5. ASSUME SequenceCallEnds
      PROVE  FALSE
  BY <1>5 DEF SequenceCallEnds, Endings, ToolInv, ToolTypes, CallIds
<1>6. ASSUME PoolStarts
      PROVE  FALSE
  BY <1>6 DEF PoolStarts, ToolInv, ToolTypes, CallIds
<1>7. ASSUME AddResult
      PROVE  FALSE
  BY <1>7 DEF AddResult, NoCall, ToolInv, ToolTypes, CallIds
<1>8. ASSUME ReplyWithCalls
      PROVE  FALSE
  BY <1>8 DEF ReplyWithCalls
<1> QED
  BY <1>1, <1>2, <1>3, <1>4, <1>5, <1>6, <1>7, <1>8
  DEF ToolNext, BatchSteps, GateStops, PoolEnds, Added, Escape, Pause, NewRun, LockExpires

\* No tool starts once a tool has stopped the run or Esc was pressed
\* (the gate in executeSequentialToolCalls, runOne of the pool).
THEOREM StoppedRests == ToolSpec => StoppedBatchRests
BY StartsUnstoppedStep, ToolInvHolds, PTL DEF ToolSpec, StoppedBatchRests, StartsUnstopped

\* The results added so far are of calls of the reply, each once; at rest the
\* pairs are whole.
LogSound ==
  /\ batch.pc # "rest" =>
       /\ \A i \in DOMAIN batch.log : batch.log[i] \in CallIds
       /\ \A i, j \in DOMAIN batch.log : batch.log[i] = batch.log[j] => i = j
  /\ batch.pc = "rest" => PairsAreWhole

LEMMA SameLog ==
  ASSUME ToolInv, ToolInv', LogSound, DOMAIN call' = DOMAIN call, batch'.log = batch.log,
         batch'.pc = "rest" <=> batch.pc = "rest"
  PROVE  LogSound'
<1>1. CallIds' = CallIds /\ Len(call') = Len(call)
  <2>1. CallIds = 1..Len(call) /\ Len(call) \in Nat
    BY MissingFinite DEF ToolInv
  <2>2. DOMAIN call' = 1..Len(call') /\ Len(call') \in Nat
    BY DEF ToolInv, ToolTypes
  <2>. QED BY <2>1, <2>2 DEF CallIds
<1>. QED BY <1>1 DEF LogSound, PairsAreWhole, Answered

\* A sequence that names each of the first n numbers once has n places.
LEMMA EachOnce ==
  ASSUME NEW n \in Nat, NEW s \in Seq(Int), Answered(s) = 1..n,
         \A i \in DOMAIN s : s[i] \in 1..n,
         \A i, j \in DOMAIN s : s[i] = s[j] => i = j
  PROVE  Len(s) = n
<1>1. PICK m \in Nat : m = Len(s) /\ DOMAIN s = 1..m
  OBVIOUS
<1>. DEFINE f == [i \in 1..m |-> s[i]]
<1>2. f \in [1..m -> 1..n] /\ (\A i, j \in 1..m : f[i] = f[j] => i = j)
      /\ \A k \in 1..n : \E i \in 1..m : f[i] = k
  BY <1>1 DEF Answered
<1>. HIDE DEF f
<1>3. f \in Bijection(1..m, 1..n)
  BY <1>2, Fun_IsBij
<1>4. ExistsBijection(1..m, 1..n)
  BY <1>3 DEF ExistsBijection
<1>5. Cardinality(1..m) = m /\ Cardinality(1..n) = n /\ IsFiniteSet(1..m)
  BY FS_Interval
<1>6. Cardinality(1..m) = Cardinality(1..n)
  BY <1>4, <1>5, FS_Bijection
<1>. QED BY <1>1, <1>5, <1>6

\* When nothing is to be added any more, no call of the reply is missing.
LEMMA NothingUpcoming ==
  ASSUME ToolTypes, batch.ended, Upcoming = {}
  PROVE  Missing = {}
<1>1. batch.todo = <<>> /\ {c \in Missing : \A d \in Missing : c <= d} = {}
  BY DEF Upcoming
<1>2. Missing \subseteq Nat
  BY MissingFinite DEF Missing
<1>. SUFFICES ASSUME Missing # {} PROVE FALSE
  OBVIOUS
<1>3. \E c \in Missing : \A d \in Missing : ~(<<d, c>> \in OpToRel(<, Nat))
  BY <1>2, NatLessThanWellFounded, WFMin
<1>4. PICK c \in Missing : \A d \in Missing : ~(<<d, c>> \in OpToRel(<, Nat))
  BY <1>3
<1>5. ASSUME NEW d \in Missing PROVE c <= d
  <2>1. c \in Nat /\ d \in Nat
    BY <1>2, <1>4
  <2>2. ~(d < c)
    BY <2>1, <1>4 DEF OpToRel
  <2>. QED BY <2>1, <2>2
<1>. QED BY <1>1, <1>4, <1>5

\* The result to be added is one of a call that has none.
LEMMA UpcomingIsMissing ==
  ASSUME ToolTypes, TodoInv, NEW c \in Upcoming
  PROVE  c \in Missing
<1>1. batch.todo \in Seq(Int)
  BY DEF ToolTypes
<1>2. batch.todo # <<>> => 1 \in DOMAIN batch.todo /\ Head(batch.todo) = batch.todo[1]
  BY <1>1
<1>. QED BY <1>2 DEF Upcoming, TodoInv

LEMMA AddResultLogs == ToolInv /\ LogSound /\ AddResult => LogSound'
<1>. SUFFICES ASSUME ToolInv, LogSound, AddResult PROVE LogSound'
  OBVIOUS
<1>1. PICK c \in Upcoming :
        /\ call' = [call EXCEPT ![c] = NoCall]
        /\ \E noted \in {0, 1} :
             batch' = [batch EXCEPT !.todo = IF @ = <<>> THEN @ ELSE Tail(@),
                                    !.log = Append(@, c), !.notes = @ + noted]
  BY DEF AddResult
<1>2. /\ ToolTypes /\ TodoInv /\ CallIds = 1..Len(call) /\ Len(call) \in Nat
      /\ batch.todo \in Seq(Int) /\ batch.log \in Seq(Int) /\ batch.pc = "add"
  BY MissingFinite DEF ToolInv, ToolTypes, AddResult
<1>3. c \in Missing
  BY <1>1, <1>2, UpcomingIsMissing
<1>4. c \in 1..Len(call) /\ c \in Int /\ \A i \in DOMAIN batch.log : batch.log[i] # c
  BY <1>2, <1>3 DEF Missing, Answered
<1>5. batch'.log = Append(batch.log, c) /\ batch'.pc = "add" /\ CallIds' = CallIds
  BY <1>1, <1>2 DEF ToolTypes, CallIds
<1>6. PICK m \in Nat : m = Len(batch.log) /\ DOMAIN batch.log = 1..m
  BY <1>2
<1>7. /\ DOMAIN batch'.log = 1..m + 1 /\ batch'.log[m + 1] = c
      /\ \A i \in 1..m : batch'.log[i] = batch.log[i]
  BY <1>2, <1>4, <1>5, <1>6
<1>8. /\ \A i \in 1..m : batch.log[i] \in CallIds
      /\ \A i, j \in 1..m : batch.log[i] = batch.log[j] => i = j
  BY <1>2, <1>6 DEF LogSound
<1>9. \A i \in 1..m + 1 : batch'.log[i] \in CallIds
  BY <1>2, <1>4, <1>7, <1>8
<1>10. \A i, j \in 1..m + 1 : batch'.log[i] = batch'.log[j] => i = j
  <2>. TAKE i, j \in 1..m + 1
  <2>1. /\ i \in 1..m \/ i = m + 1
        /\ j \in 1..m \/ j = m + 1
    OBVIOUS
  <2>2. \A k \in 1..m : batch'.log[k] # c
    BY <1>4, <1>6, <1>7
  <2>. QED BY <1>7, <1>8, <2>1, <2>2
<1>. QED BY <1>5, <1>7, <1>9, <1>10 DEF LogSound

LEMMA AddedLogs == ToolInv /\ LogSound /\ Added => LogSound'
<1>. SUFFICES ASSUME ToolInv, LogSound, Added PROVE LogSound'
  OBVIOUS
<1>1. /\ ToolTypes /\ CallIds = 1..Len(call) /\ Len(call) \in Nat /\ call' = call
      /\ batch.log \in Seq(Int) /\ batch.notes \in Nat /\ batch.pc = "add"
  BY MissingFinite DEF ToolInv, ToolTypes, Added
<1>2. CASE ~batch.ended
  <2>1. batch'.log = batch.log /\ batch'.pc = "gate"
    BY <1>1, <1>2 DEF Added, ToolTypes
  <2>. QED BY <1>1, <2>1 DEF LogSound, CallIds
<1>3. CASE batch.ended
  <2>1. PICK k \in Nat, n \in Nat, s \in Seq(Int) :
          k = batch.notes /\ n = Len(call) /\ s = batch.log
    BY <1>1
  <2>2. /\ \A i \in DOMAIN s : s[i] \in 1..n
        /\ \A i, j \in DOMAIN s : s[i] = s[j] => i = j
    BY <1>1, <2>1 DEF LogSound
  <2>3. Answered(s) = 1..n
    <3>1. Missing = {}
      BY <1>1, <1>3, NothingUpcoming DEF Added
    <3>. QED BY <1>1, <2>1, <2>2, <3>1 DEF Missing, Answered
  <2>4. Len(s) = n /\ DOMAIN s = 1..n
    BY <2>2, <2>3, EachOnce
  <2>5. PICK z : z = [i \in 1..k |-> 0]
    OBVIOUS
  <2>6. z \in Seq(Int) /\ Len(z) = k /\ \A i \in 1..k : z[i] = 0
    <3>1. z \in [1..k -> Int]
      BY <2>5
    <3>. QED BY <2>5, <3>1, IsSequence
  <2>7. PICK t \in Seq(Int) :
          /\ t = s \o z /\ Len(t) = n + k /\ \A i \in 1..n : t[i] = s[i]
          /\ \A i \in 1..k : t[n + i] = z[i]
    <3>1. s \o z \in Seq(Int)
      BY <2>6, ConcatProperties
    <3>2. Len(s \o z) = n + k
      BY <2>4, <2>6, ConcatProperties
    <3>3. \A i \in 1..n + k : (s \o z)[i] = IF i <= n THEN s[i] ELSE z[i - n]
      BY <2>4, <2>6, ConcatProperties
    <3>4. /\ \A i \in 1..n : (s \o z)[i] = s[i]
          /\ \A i \in 1..k : (s \o z)[n + i] = z[i]
      <4>1. ASSUME NEW i \in 1..k PROVE (s \o z)[n + i] = z[i]
        <5>1. n + i \in 1..n + k /\ ~(n + i <= n) /\ (n + i) - n = i
          OBVIOUS
        <5>. QED BY <3>3, <5>1
      <4>2. ASSUME NEW i \in 1..n PROVE (s \o z)[i] = s[i]
        <5>1. i \in 1..n + k /\ i <= n
          OBVIOUS
        <5>. QED BY <3>3, <5>1
      <4>. QED BY <4>1, <4>2
    <3>. QED BY <3>1, <3>2, <3>4
  <2>8. /\ DOMAIN t = 1..n + k /\ \A i \in 1..n : t[i] = s[i]
        /\ \A i \in 1..k : t[n + i] = 0
    BY <2>6, <2>7
  <2>9. batch'.log = t /\ batch'.pc = "rest"
    BY <1>3, <2>1, <2>5, <2>7 DEF Added, NoBatch
  <2>10. \A i \in n + 1..n + k : t[i] = 0
    <3>. TAKE i \in n + 1..n + k
    <3>1. i - n \in 1..k /\ n + (i - n) = i
      OBVIOUS
    <3>. QED BY <2>8, <3>1
  <2>11. Answered(t) = 1..n
    <3>1. \A i \in DOMAIN t : (i \in 1..n /\ t[i] = s[i]) \/ t[i] = 0
      BY <2>8, <2>10
    <3>2. \A i \in 1..n : i \in DOMAIN t /\ t[i] = s[i]
      BY <2>8
    <3>. QED BY <2>3, <2>4, <3>1, <3>2 DEF Answered
  <2>12. \A i \in 1..n + k : (t[i] = 0) = (i > n)
    BY <2>2, <2>4, <2>8, <2>10
  <2>13. CallIds' = 1..n /\ Len(call') = n
    BY <1>1, <2>1 DEF CallIds
  <2>. QED BY <2>8, <2>9, <2>11, <2>12, <2>13 DEF LogSound, PairsAreWhole
<1>. QED BY <1>2, <1>3

LEMMA LogSoundStep == ToolInv /\ LogSound /\ [ToolNext]_toolVars => LogSound'
<1>. SUFFICES ASSUME ToolInv, LogSound, [ToolNext]_toolVars PROVE LogSound'
  OBVIOUS
<1>0. ToolInv' /\ ToolTypes
  BY ToolInvStep DEF ToolInv
<1>1. CASE GateStops
  BY <1>0, <1>1, SameLog DEF GateStops, GateOpens, Leave, ToolTypes
<1>2. CASE PoolStarts
  <2>1. DOMAIN call' = DOMAIN call
    BY <1>2 DEF PoolStarts, CallIds
  <2>. QED BY <1>0, <1>2, <2>1, SameLog DEF PoolStarts, GateOpens, ToolTypes
<1>3. CASE SequenceStarts
  <2>1. DOMAIN call' = DOMAIN call
    BY <1>3 DEF SequenceStarts, StartCall
  <2>. QED BY <1>0, <1>3, <2>1, SameLog DEF SequenceStarts, GateOpens, ToolTypes
<1>4. CASE SequenceCallEnds
  BY <1>0, <1>4, SameLog DEF SequenceCallEnds, Leave, ToolTypes
<1>5. CASE PoolEnds
  BY <1>0, <1>5, SameLog DEF PoolEnds, Leave, ToolTypes
<1>6. CASE AddResult
  BY <1>6, AddResultLogs
<1>7. CASE Added
  BY <1>7, AddedLogs
<1>8. CASE \E c \in CallIds : PoolCallStarts(c) \/ PoolCallEnds(c)
  <2>1. DOMAIN call' = DOMAIN call
    BY <1>8 DEF PoolCallStarts, PoolCallEnds, StartCall, Release
  <2>2. batch'.log = batch.log /\ batch'.pc = batch.pc
    BY <1>0, <1>8 DEF PoolCallStarts, PoolCallEnds, ToolTypes
  <2>. QED BY <1>0, <2>1, <2>2, SameLog
<1>9. CASE ReplyWithCalls
  <2>1. batch'.log = <<>> /\ batch'.pc \in {"gate", "add"}
    BY <1>9 DEF ReplyWithCalls, NoBatch
  <2>. QED BY <2>1 DEF LogSound
<1>10. CASE UNCHANGED <<batch, call>>
  BY <1>0, <1>10, SameLog
<1>. QED
  BY <1>1, <1>2, <1>3, <1>4, <1>5, <1>6, <1>7, <1>8, <1>9, <1>10
  DEF ToolNext, BatchSteps, Escape, Pause, NewRun, LockExpires, toolVars

\* However a batch comes to its end, by Esc, a tool that stops the run or throws,
\* a refusal, in the pool or in sequence, each of its calls has exactly one result
\* and the notes for the model follow all of them (the finally of withToolBatch,
\* addInTurnNote): without a pair missing the history can be reduced.
THEOREM BatchesEndWhole == ToolSpec => [](batch.pc = "rest" => PairsAreWhole)
<1>1. ToolInit => LogSound
  BY DEF ToolInit, LogSound, PairsAreWhole, NoBatch, Answered, CallIds
<1>2. LogSound => (batch.pc = "rest" => PairsAreWhole)
  BY DEF LogSound
<1>. QED BY <1>1, <1>2, LogSoundStep, ToolInvHolds, PTL DEF ToolSpec

-----------------------------------------------------------------------------
(* The semaphore of the pool. *)

Active   == {c \in CallIds : call[c].is \in {"granted", "runs", "refused"}}
Unplaced == {c \in CallIds : call[c].is = "waits"}

\* The queue holds the calls that wait, each once, and only a full pool has one.
QueueSound(q) ==
  /\ \A i \in DOMAIN q : q[i] \in Unplaced
  /\ \A i, j \in DOMAIN q : q[i] = q[j] => i = j
  /\ \A c \in Unplaced : \E i \in DOMAIN q : q[i] = c
  /\ q # <<>> => Cardinality(Active) = Limit

PlacesSound ==
  /\ sem.running = Cardinality(Active) /\ Cardinality(Active) <= Limit
  /\ QueueSound(sem.queue)

PoolInv ==
  /\ sem.running \in 0..Limit
  /\ batch.pc = "gate" /\ batch.path = "parallel" => Unplaced = CallIds
  /\ batch.pc # "pool" => \A c \in CallIds : call[c].is # "granted"
  /\ batch.pc = "pool" => PlacesSound

LEMMA ActiveFinite ==
  ASSUME ToolTypes
  PROVE  IsFiniteSet(Active) /\ Cardinality(Active) \in Nat
<1>1. IsFiniteSet(CallIds)
  BY MissingFinite, FS_Interval
<1>2. IsFiniteSet(Active)
  BY <1>1, FS_Subset DEF Active
<1>. QED BY <1>2, FS_CardinalityType

LEMMA PoolStartsPool == ToolInv /\ PoolInv /\ PoolStarts => PoolInv'
<1>. SUFFICES ASSUME ToolInv, PoolInv, PoolStarts PROVE PoolInv'
  OBVIOUS
<1>1. PICK n \in Nat, l \in Nat : n = Len(call) /\ l = Limit /\ CallIds = 1..n /\ Unplaced = 1..n
  BY MissingFinite, ToolBatchConstants DEF ToolInv, PoolInv, PoolStarts, GateOpens
<1>2. PICK now \in Nat : now = IF n < l THEN n ELSE l
  OBVIOUS
<1>3. /\ call' = [c \in CallIds |-> IF c <= now THEN [call[c] EXCEPT !.is = "granted"] ELSE call[c]]
      /\ sem' = [running |-> now, queue |-> Indices(now + 1, n)]
      /\ batch'.pc = "pool"
  BY <1>1, <1>2 DEF PoolStarts, ToolInv, ToolTypes
<1>4. PICK q \in Seq(Int) :
        /\ q = Indices(now + 1, n) /\ DOMAIN q = 1..n - now
        /\ \A i \in 1..n - now : q[i] = now + i
  <2>1. PICK m \in Nat : m = n - now
    BY <1>2
  <2>2. Indices(now + 1, n) = [i \in 1..m |-> now + 1 + i - 1]
    <3>1. (IF n < now + 1 THEN 0 ELSE n - (now + 1) + 1) = m
      BY <1>2, <2>1
    <3>. QED BY <3>1 DEF Indices
  <2>3. \A i \in 1..m : now + 1 + i - 1 = now + i
    OBVIOUS
  <2>4. PICK q \in Seq(Int) : q = Indices(now + 1, n)
    BY IndicesAre
  <2>5. DOMAIN q = 1..m /\ \A i \in 1..m : q[i] = now + i
    BY <2>2, <2>3, <2>4
  <2>. QED BY <2>1, <2>4, <2>5
<1>5. CallIds' = 1..n /\ \A c \in 1..n : call'[c].is = IF c <= now THEN "granted" ELSE "waits"
  BY <1>1, <1>3 DEF CallIds, Unplaced, ToolInv, ToolTypes
<1>6. Active' = 1..now /\ Unplaced' = now + 1..n
  BY <1>2, <1>5 DEF Active, Unplaced
<1>7. Cardinality(Active') = now
  BY <1>6, FS_Interval
<1>8. now <= l /\ (n - now > 0 => now = l)
  BY <1>2
<1>9. QueueSound(sem.queue)'
  <2>1. \A i \in DOMAIN q : q[i] \in Unplaced'
    BY <1>4, <1>6
  <2>2. \A i, j \in DOMAIN q : q[i] = q[j] => i = j
    BY <1>4
  <2>3. ASSUME NEW c \in Unplaced' PROVE \E i \in DOMAIN q : q[i] = c
    <3>1. c - now \in 1..n - now /\ now + (c - now) = c
      BY <1>6, <2>3
    <3>. QED BY <1>4, <3>1
  <2>4. q # <<>> => Cardinality(Active') = Limit
    BY <1>1, <1>4, <1>7, <1>8
  <2>. QED BY <1>3, <1>4, <2>1, <2>2, <2>3, <2>4 DEF QueueSound
<1>. QED BY <1>1, <1>3, <1>7, <1>8, <1>9 DEF PoolInv, PlacesSound

\* A call that gives its place back hands it to the first that waits.
LEMMA ReleasePlace ==
  ASSUME ToolTypes, PlacesSound, NEW c \in Active, NEW is \in Endings \cup {"skipped"},
         Release(c, is)
  PROVE  PlacesSound' /\ sem'.running \in 0..Limit
<1>1. /\ CallIds = 1..Len(call) /\ DOMAIN call = CallIds
      /\ c \in CallIds /\ c \notin Unplaced /\ Unplaced \subseteq CallIds
      /\ sem.queue \in Seq(Int) /\ is \notin {"granted", "runs", "refused", "waits"}
  BY MissingFinite DEF ToolTypes, CallIds, Active, Unplaced, Endings
<1>2. PICK k \in Nat, l \in Nat : k = Cardinality(Active) /\ l = Limit /\ k <= l /\ sem.running = k
  BY ActiveFinite, ToolBatchConstants DEF PlacesSound
<1>3. IsFiniteSet(Active \ {c}) /\ Cardinality(Active \ {c}) = k - 1 /\ k - 1 \in Nat
  <2>1. PICK A : A = Active
    OBVIOUS
  <2>2. IsFiniteSet(A) /\ c \in A /\ Cardinality(A) = k
    BY <1>2, <2>1, ActiveFinite
  <2>3. IsFiniteSet(A \ {c}) /\ Cardinality(A \ {c}) = Cardinality(A) - 1
    BY <2>2, FS_RemoveElement
  <2>4. Cardinality(A \ {c}) \in Nat
    BY <2>3, FS_CardinalityType
  <2>. QED BY <2>1, <2>2, <2>3, <2>4
<1>4. \A d \in CallIds : call[d] \in [kind : {"write", "ask", "other"}, is : Stages]
  BY <1>1, ElementsAre DEF ToolTypes
<1>5. CASE sem.queue = <<>>
  <2>1. sem'.running = k - 1 /\ sem'.queue = <<>> /\ call' = [call EXCEPT ![c].is = is]
    BY <1>2, <1>5 DEF Release, ToolTypes
  <2>2. /\ CallIds' = CallIds /\ call'[c].is = is
        /\ \A d \in CallIds \ {c} : call'[d] = call[d]
    BY <1>1, <1>4, <2>1 DEF CallIds
  <2>3. Active' = Active \ {c} /\ Unplaced' = Unplaced
    BY <1>1, <2>2 DEF Active, Unplaced
  <2>4. QueueSound(sem.queue)'
    BY <1>5, <2>1, <2>3 DEF QueueSound, PlacesSound
  <2>. QED BY <1>2, <1>3, <2>1, <2>3, <2>4 DEF PlacesSound
<1>6. CASE sem.queue # <<>>
  <2>1. PICK m \in Nat, q \in Seq(Int) : q = sem.queue /\ m = Len(q) - 1 /\ DOMAIN q = 1..m + 1
    <3>1. PICK q \in Seq(Int) : q = sem.queue /\ q # <<>>
      BY <1>1, <1>6
    <3>2. Len(q) - 1 \in Nat /\ DOMAIN q = 1..Len(q) /\ (Len(q) - 1) + 1 = Len(q)
      BY <3>1
    <3>. QED BY <3>1, <3>2
  <2>2. PICK d : d = q[1] /\ d = Head(q)
    BY <2>1
  <2>3. PICK t \in Seq(Int) :
          t = Tail(q) /\ DOMAIN t = 1..m /\ \A i \in 1..m : t[i] = q[i + 1]
    <3>1. q # <<>> /\ Len(q) = m + 1
      BY <1>6, <2>1
    <3>2. Tail(q) \in Seq(Int) /\ Len(Tail(q)) = m
      BY <3>1
    <3>3. DOMAIN Tail(q) = 1..m
      BY <3>2
    <3>4. \A i \in 1..m : Tail(q)[i] = q[i + 1]
      BY <3>1
    <3>. QED BY <3>2, <3>3, <3>4
  <2>4. /\ sem'.running = k /\ sem'.queue = t
        /\ call' = [call EXCEPT ![c].is = is, ![d].is = "granted"]
    BY <1>2, <1>6, <2>1, <2>2, <2>3 DEF Release, ToolTypes
  <2>5. /\ \A i \in 1..m + 1 : q[i] \in Unplaced
        /\ \A i, j \in 1..m + 1 : q[i] = q[j] => i = j
        /\ \A e \in Unplaced : \E i \in 1..m + 1 : q[i] = e
        /\ k = l
    BY <1>2, <1>6, <2>1 DEF PlacesSound, QueueSound
  <2>6. d \in Unplaced /\ d \in CallIds /\ d # c /\ d \notin Active
    BY <1>1, <2>2, <2>5 DEF Unplaced, Active
  <2>7. /\ CallIds' = CallIds /\ call'[c].is = is /\ call'[d].is = "granted"
        /\ \A e \in CallIds \ {c, d} : call'[e] = call[e]
    BY <1>1, <1>4, <2>4, <2>6 DEF CallIds
  <2>8. Active' = (Active \ {c}) \cup {d} /\ Unplaced' = Unplaced \ {d}
    BY <1>1, <2>6, <2>7 DEF Active, Unplaced
  <2>9. Cardinality(Active') = k
    <3>1. PICK B : B = Active \ {c}
      OBVIOUS
    <3>2. IsFiniteSet(B) /\ Cardinality(B) = k - 1 /\ d \notin B
      BY <1>3, <2>6, <3>1
    <3>3. Cardinality(B \cup {d}) = Cardinality(B) + 1
      BY <3>2, FS_AddElement
    <3>. QED BY <2>8, <3>1, <3>2, <3>3
  <2>10. QueueSound(sem.queue)'
    <3>1. ASSUME NEW i \in 1..m PROVE t[i] \in Unplaced' /\ i + 1 \in 1..m + 1 /\ t[i] = q[i + 1]
      <4>1. i + 1 \in 1..m + 1 /\ 1 \in 1..m + 1 /\ i + 1 # 1
        OBVIOUS
      <4>2. q[i + 1] \in Unplaced /\ q[i + 1] # d
        BY <2>2, <2>5, <4>1
      <4>. QED BY <2>3, <2>8, <4>1, <4>2
    <3>2. \A i, j \in 1..m : t[i] = t[j] => i = j
      <4>. TAKE i, j \in 1..m
      <4>1. q[i + 1] = q[j + 1] => i + 1 = j + 1
        BY <2>5, <3>1
      <4>. QED BY <3>1, <4>1
    <3>3. ASSUME NEW e \in Unplaced' PROVE \E i \in 1..m : t[i] = e
      <4>1. PICK j \in 1..m + 1 : q[j] = e
        BY <2>5, <2>8
      <4>2. j # 1
        BY <2>2, <2>8, <4>1
      <4>3. j - 1 \in 1..m /\ (j - 1) + 1 = j
        BY <4>2
      <4>. QED BY <2>3, <4>1, <4>3
    <3>. QED BY <1>2, <2>3, <2>4, <2>5, <2>9, <3>1, <3>2, <3>3 DEF QueueSound
  <2>. QED BY <1>2, <2>4, <2>9, <2>10 DEF PlacesSound
<1>. QED BY <1>5, <1>6

\* A call that starts keeps its place.
LEMMA StartKeepsPlace ==
  ASSUME ToolTypes, NEW c \in Active, StartCall(c)
  PROVE  Active' = Active /\ Unplaced' = Unplaced /\ CallIds' = CallIds
<1>1. /\ DOMAIN call = CallIds /\ c \in CallIds /\ CallIds' = CallIds
      /\ call'[c].is \in {"runs", "refused"} /\ call[c].is \in {"granted", "runs", "refused"}
      /\ \A d \in CallIds \ {c} : call'[d] = call[d]
  <2>1. \A d \in CallIds : call[d] \in [kind : {"write", "ask", "other"}, is : Stages]
    BY ElementsAre DEF ToolTypes, CallIds
  <2>. QED BY <2>1 DEF StartCall, CallIds, Active
<1>. QED BY <1>1 DEF Active, Unplaced

LEMMA PoolCallsKeepPlaces ==
  ASSUME ToolInv, PoolInv, NEW c \in CallIds, PoolCallStarts(c) \/ PoolCallEnds(c)
  PROVE  PoolInv'
<1>1. batch.pc = "pool" /\ batch'.pc = "pool" /\ c \in Active /\ ToolTypes /\ PlacesSound
  BY DEF PoolCallStarts, PoolCallEnds, PoolInv, ToolInv, ToolTypes, Active
<1>2. CASE \E is \in Endings \cup {"skipped"} : Release(c, is)
  BY <1>1, <1>2, ReleasePlace DEF PoolInv
<1>3. CASE StartCall(c) /\ UNCHANGED sem
  BY <1>1, <1>3, StartKeepsPlace DEF PoolInv, PlacesSound, QueueSound
<1>. QED BY <1>2, <1>3 DEF PoolCallStarts, PoolCallEnds

\* Outside the pool no call is granted a place.
LEMMA OutsideThePool ==
  ASSUME PoolInv, ToolTypes, NEW c, NEW is \in Stages \ {"granted"}, batch'.pc # "pool",
         batch'.pc = "gate" => batch'.path # "parallel", sem' = sem, batch.pc # "pool",
         \/ call' = call
         \/ c \in CallIds /\ call' = [call EXCEPT ![c].is = is]
         \/ c \in CallIds /\ call' = [call EXCEPT ![c] = NoCall]
  PROVE  PoolInv'
<1>1. \A d \in CallIds : call[d] \in [kind : {"write", "ask", "other"}, is : Stages]
  BY ElementsAre DEF ToolTypes, CallIds
<1>2. CallIds' = CallIds /\ \A d \in CallIds : call'[d].is # "granted"
  BY <1>1 DEF PoolInv, CallIds, NoCall
<1>. QED BY <1>2 DEF PoolInv

LEMMA PoolInvStep == ToolInv /\ PoolInv /\ [ToolNext]_toolVars => PoolInv'
<1>. SUFFICES ASSUME ToolInv, PoolInv, [ToolNext]_toolVars PROVE PoolInv'
  OBVIOUS
<1>0. ToolTypes /\ PathInv /\ "failed" \in Stages \ {"granted"}
  BY DEF ToolInv, Stages, Endings
<1>1. CASE GateStops
  BY <1>0, <1>1, OutsideThePool DEF GateStops, GateOpens, Leave, ToolTypes
<1>2. CASE PoolStarts
  BY <1>2, PoolStartsPool
<1>3. CASE SequenceStarts
  <2>1. PICK is \in {"refused", "runs"} : call' = [call EXCEPT ![batch.next].is = is]
    BY <1>3 DEF SequenceStarts, StartCall
  <2>2. is \in Stages \ {"granted"} /\ batch.next \in CallIds
    BY <1>0, <1>3 DEF Stages, PathInv, SequenceStarts, GateOpens
  <2>. QED BY <1>0, <1>3, <2>1, <2>2, OutsideThePool DEF SequenceStarts, GateOpens, ToolTypes
<1>4. CASE SequenceCallEnds
  <2>1. PICK is \in Endings : call' = [call EXCEPT ![batch.next].is = is]
    BY <1>4 DEF SequenceCallEnds
  <2>2. is \in Stages \ {"granted"} /\ batch.next \in CallIds
    BY <1>0, <1>4 DEF Stages, Endings, PathInv, SequenceCallEnds
  <2>3. batch'.pc = "add" /\ sem' = sem /\ batch.pc = "tool"
    BY <1>0, <1>4 DEF SequenceCallEnds, Leave, ToolTypes
  <2>. QED BY <1>0, <2>1, <2>2, <2>3, OutsideThePool
<1>5. CASE PoolEnds
  <2>1. batch'.pc = "add" /\ call' = call /\ sem' = sem
        /\ \A c \in CallIds : call[c].is # "granted"
    BY <1>0, <1>5 DEF PoolEnds, Leave, ToolTypes, Endings
  <2>. QED BY <2>1 DEF PoolInv, CallIds
<1>6. CASE AddResult
  <2>1. PICK c \in Upcoming : call' = [call EXCEPT ![c] = NoCall]
    BY <1>6 DEF AddResult
  <2>2. batch'.pc = "add" /\ sem' = sem /\ batch.pc = "add"
    BY <1>0, <1>6 DEF AddResult, ToolTypes
  <2>3. c \in CallIds
    BY <2>1, UpcomingIsMissing DEF Missing, ToolInv
  <2>. QED BY <1>0, <2>1, <2>2, <2>3, OutsideThePool
<1>7. CASE Added
  <2>1. batch'.pc \in {"rest", "gate"} /\ (batch'.pc = "gate" => batch'.path = "sequence")
        /\ call' = call /\ sem' = sem /\ batch.pc = "add"
    <3>1. batch.pc = "add" /\ call' = call /\ sem' = sem
      BY <1>7 DEF Added
    <3>2. CASE batch.ended
      BY <1>7, <3>1, <3>2 DEF Added, NoBatch
    <3>3. CASE ~batch.ended
      BY <1>0, <1>7, <3>1, <3>3 DEF Added, PathInv, ToolTypes
    <3>. QED BY <3>1, <3>2, <3>3
  <2>. QED BY <1>0, <2>1, OutsideThePool
<1>8. CASE \E c \in CallIds : PoolCallStarts(c) \/ PoolCallEnds(c)
  BY <1>8, PoolCallsKeepPlaces
<1>9. CASE ReplyWithCalls
  <2>1. PICK n \in 1..MaxBatch :
          /\ \E kinds \in [1..n -> {"write", "ask", "other"}] :
               call' = [c \in 1..n |-> [kind |-> kinds[c], is |-> "waits"]]
    BY <1>9 DEF ReplyWithCalls
  <2>2. CallIds' = 1..n /\ \A c \in 1..n : call'[c].is = "waits"
    BY <2>1 DEF CallIds
  <2>3. sem'.running = 0 /\ batch'.pc \in {"gate", "add"} /\ 0 \in 0..Limit
    BY <1>9, ToolBatchConstants DEF ReplyWithCalls, NoBatch
  <2>. QED BY <2>2, <2>3 DEF PoolInv, Unplaced
<1>10. CASE UNCHANGED <<batch, call, sem>>
  BY <1>10 DEF PoolInv, PlacesSound, QueueSound, Active, Unplaced, CallIds
<1>. QED
  BY <1>1, <1>2, <1>3, <1>4, <1>5, <1>6, <1>7, <1>8, <1>9, <1>10
  DEF ToolNext, BatchSteps, Escape, Pause, NewRun, LockExpires, toolVars

LEMMA PoolInvInit == ToolInit => PoolInv
BY ToolBatchConstants DEF ToolInit, PoolInv, NoBatch, CallIds

LEMMA PoolInvHolds == ToolSpec => []PoolInv
BY PoolInvInit, PoolInvStep, ToolInvHolds, PTL DEF ToolSpec

\* In the pool no more calls run than maxParallelTools, and no call waits while a
\* place is free: whatever way calls give their places back, by their end, a
\* failure or a stop, none is lost (acquire and release of the semaphore).
THEOREM PlacesAreUsed ==
  ToolSpec => [](batch.pc = "pool" =>
                   /\ Cardinality(Active) <= Limit
                   /\ Unplaced # {} => Cardinality(Active) = Limit)
<1>1. PoolInv => (batch.pc = "pool" =>
                    /\ Cardinality(Active) <= Limit
                    /\ Unplaced # {} => Cardinality(Active) = Limit)
  <2>. SUFFICES ASSUME PoolInv, batch.pc = "pool"
                PROVE  /\ Cardinality(Active) <= Limit
                       /\ Unplaced # {} => Cardinality(Active) = Limit
    OBVIOUS
  <2>1. PlacesSound
    BY DEF PoolInv
  <2>2. Unplaced # {} => sem.queue # <<>>
    BY <2>1 DEF PlacesSound, QueueSound
  <2>. QED BY <2>1, <2>2 DEF PlacesSound, QueueSound
<1>. QED BY <1>1, PoolInvHolds, PTL

-----------------------------------------------------------------------------
(* The sizes. *)

\* What a result takes is a number: a result is cut only to a body worth having.
LEMMA FitCosts ==
  ASSUME NEW kind, NEW size \in Nat, NEW n \in Nat,
         room \in [used : Int, full : BOOLEAN, left : Int], Fit(kind, size, n)
  PROVE  \E cost \in Nat : room'.used = room.used + cost
<1>. DEFINE brief == Brief(n)
            bodyRoom == Total - room.used - Reserve(room.left - 1, room.full, brief) - Frame
            allowed == IF kind = "write" \/ bodyRoom < PerResult THEN bodyRoom ELSE PerResult
<1>1. \A cost, note : Uses(cost, note) => room'.used = room.used + cost
  BY DEF Uses
<1>2. brief \in Nat /\ MinBody \in Nat /\ MinBody > 0
  BY BriefTyped, ToolBatchConstants
<1>3. Reserve(room.left - 1, room.full, brief) \in Int
  <2>1. PICK k \in Int : k = room.left - 1
    OBVIOUS
  <2>2. k * brief \in Int /\ (k - 1) * brief \in Int
    BY <1>2
  <2>. QED BY <2>1, <2>2, NotesTyped, <1>2 DEF Reserve
<1>4. allowed \in Int
  BY <1>3, NotesTyped
<1>5. \/ Uses(size + Frame, FALSE)
      \/ allowed >= MinBody /\ \E kept \in {allowed - 1, allowed} : Uses(kept + Frame, FALSE)
      \/ \E c \in {BriefNote, FullNote, Frame, brief} : Uses(c, TRUE)
  BY DEF Fit
<1>. HIDE DEF allowed, brief
<1>6. CASE Uses(size + Frame, FALSE)
  <2>1. size + Frame \in Nat
    BY NotesTyped
  <2>. QED BY <1>1, <1>6, <2>1
<1>7. CASE allowed >= MinBody /\ \E kept \in {allowed - 1, allowed} : Uses(kept + Frame, FALSE)
  <2>1. PICK kept \in {allowed - 1, allowed} : Uses(kept + Frame, FALSE)
    BY <1>7
  <2>2. kept + Frame \in Nat
    BY <1>2, <1>4, <1>7, NotesTyped
  <2>. QED BY <1>1, <2>1, <2>2
<1>8. CASE \E c \in {BriefNote, FullNote, Frame, brief} : Uses(c, TRUE)
  BY <1>1, <1>2, <1>8, NotesTyped
<1>. QED BY <1>5, <1>6, <1>7, <1>8

SizesInv ==
  /\ batch.next \in 1..MaxBatch /\ Len(call) <= MaxBatch
  /\ room.used \in Nat /\ (batch.pc = "rest" => room.left = 0)

LEMMA SizesInvStep == ToolInv /\ SizesInv /\ [ToolNext]_toolVars => SizesInv'
<1>. SUFFICES ASSUME ToolInv, SizesInv, [ToolNext]_toolVars PROVE SizesInv'
  OBVIOUS
<1>0. /\ ToolInv' /\ ToolTypes /\ PathInv /\ MaxBatch \in Nat /\ MaxBatch > 0
      /\ CallIds = 1..Len(call) /\ Len(call) \in Nat
  BY ToolInvStep, MissingFinite, ToolBatchConstants DEF ToolInv
<1>1. ASSUME DOMAIN call' = DOMAIN call PROVE Len(call') = Len(call)
  <2>1. DOMAIN call' = 1..Len(call') /\ Len(call') \in Nat
    BY <1>0 DEF ToolInv, ToolTypes
  <2>. QED BY <1>0, <1>1, <2>1 DEF CallIds
<1>2. ASSUME DOMAIN call' = DOMAIN call, room' = room, batch'.next = batch.next,
             batch'.pc = "rest" => batch.pc = "rest"
      PROVE  SizesInv'
  BY <1>1, <1>2 DEF SizesInv
<1>3. CASE GateStops \/ PoolEnds \/ SequenceCallEnds
  <2>1. batch'.next = batch.next /\ batch'.pc # "rest" /\ room' = room
    <3>1. CASE GateStops \/ PoolEnds
      <4>1. PICK todo : batch' = Leave(batch, todo) /\ room' = room
        BY <3>1 DEF GateStops, PoolEnds
      <4>. QED BY <1>0, <4>1 DEF Leave, ToolTypes
    <3>2. CASE SequenceCallEnds
      BY <1>0, <3>2 DEF SequenceCallEnds, Leave, ToolTypes
    <3>. QED BY <1>3, <3>1, <3>2
  <2>2. DOMAIN call' = DOMAIN call
    BY <1>3 DEF GateStops, PoolEnds, SequenceCallEnds
  <2>. QED BY <1>2, <2>1, <2>2
<1>4. CASE PoolStarts \/ SequenceStarts
  <2>1. batch'.next = batch.next /\ batch'.pc # "rest" /\ room' = room
    BY <1>0, <1>4 DEF PoolStarts, SequenceStarts, ToolTypes
  <2>2. DOMAIN call' = DOMAIN call
    BY <1>4 DEF PoolStarts, SequenceStarts, StartCall, CallIds
  <2>. QED BY <1>2, <2>1, <2>2
<1>5. CASE \E c \in CallIds : PoolCallStarts(c) \/ PoolCallEnds(c)
  <2>1. batch'.next = batch.next /\ batch'.pc = batch.pc /\ room' = room
    BY <1>0, <1>5 DEF PoolCallStarts, PoolCallEnds, ToolTypes
  <2>2. DOMAIN call' = DOMAIN call
    BY <1>5 DEF PoolCallStarts, PoolCallEnds, StartCall, Release
  <2>. QED BY <1>2, <2>1, <2>2
<1>6. CASE AddResult
  <2>1. /\ batch'.next = batch.next /\ batch'.pc = "add" /\ DOMAIN call' = DOMAIN call
        /\ \E c \in Upcoming, size \in Sizes : Fit(call[c].kind, size, Len(call))
    BY <1>0, <1>6 DEF AddResult, ToolTypes
  <2>2. PICK cost \in Nat : room'.used = room.used + cost
    BY <1>0, <2>1, FitCosts, ToolBatchConstants DEF ToolTypes
  <2>. QED BY <1>1, <2>1, <2>2 DEF SizesInv
<1>7. CASE Added
  <2>1. CASE batch.ended
    BY <1>0, <1>7, <2>1 DEF Added, NoBatch, NoRoom, SizesInv
  <2>2. CASE ~batch.ended
    <3>1. /\ batch.next \in 1..Len(call) /\ batch.next < Len(call) /\ call' = call
          /\ batch'.next = batch.next + 1 /\ batch'.pc = "gate" /\ room' = room
      BY <1>0, <1>7, <2>2 DEF Added, PathInv, ToolTypes
    <3>. QED BY <1>0, <3>1 DEF SizesInv
  <2>. QED BY <2>1, <2>2
<1>8. CASE ReplyWithCalls
  <2>1. PICK n \in 1..MaxBatch :
          /\ \E kinds \in [1..n -> {"write", "ask", "other"}] :
               call' = [c \in 1..n |-> [kind |-> kinds[c], is |-> "waits"]]
          /\ room' = [NoRoom EXCEPT !.left = n]
    BY <1>8 DEF ReplyWithCalls
  <2>2. Len(call') = n
    <3>1. DOMAIN call' = 1..n /\ DOMAIN call' = 1..Len(call') /\ Len(call') \in Nat /\ n \in Nat
      BY <1>0, <2>1 DEF ToolInv, ToolTypes
    <3>. QED BY <3>1
  <2>3. batch'.next = 1 /\ batch'.pc # "rest"
    BY <1>8 DEF ReplyWithCalls, NoBatch
  <2>. QED BY <1>0, <2>1, <2>2, <2>3 DEF SizesInv, NoRoom
<1>9. CASE UNCHANGED <<batch, call, room>>
  BY <1>9 DEF SizesInv
<1>. QED
  BY <1>3, <1>4, <1>5, <1>6, <1>7, <1>8, <1>9
  DEF ToolNext, BatchSteps, Escape, Pause, NewRun, LockExpires, toolVars

LEMMA SizesInvInit == ToolInit => SizesInv
<1>1. Len(<<>>) = 0
  OBVIOUS
<1>. QED BY <1>1, ToolBatchConstants DEF ToolInit, SizesInv, NoBatch, NoRoom

LEMMA ToolInvTypes == ToolInv /\ PoolInv /\ SizesInv => ToolTypeOK
<1>. SUFFICES ASSUME ToolInv, PoolInv, SizesInv PROVE ToolTypeOK
  OBVIOUS
<1>1. Cardinality(Missing) \in 0..Len(call)
  <2>1. /\ CallIds = 1..Len(call) /\ Len(call) \in Nat /\ Missing \subseteq CallIds
        /\ Cardinality(Missing) \in Nat
    BY MissingFinite DEF ToolInv, Missing
  <2>2. IsFiniteSet(1..Len(call)) /\ Cardinality(1..Len(call)) = Len(call)
    <3>1. PICK n \in Nat : n = Len(call)
      BY <2>1
    <3>2. IsFiniteSet(1..n) /\ Cardinality(1..n) = n
      BY FS_Interval
    <3>. QED BY <3>1, <3>2
  <2>3. Cardinality(Missing) <= Cardinality(1..Len(call))
    BY <2>1, <2>2, FS_Subset
  <2>. QED BY <2>1, <2>2, <2>3
<1>2. room.left \in 0..MaxBatch
  <2>1. Len(call) \in Nat /\ MaxBatch \in Nat /\ Len(call) <= MaxBatch
    BY MissingFinite, ToolBatchConstants DEF ToolInv, SizesInv
  <2>. QED BY <1>1, <2>1 DEF ToolInv, LeftInv, SizesInv
<1>. QED BY <1>2 DEF ToolInv, ToolTypes, BatchPcs, PoolInv, SizesInv, ToolTypeOK

\* The numbers of a batch stay what they are: the next call and the calls within
\* the reply, the places of the semaphore within the limit, the budget's count of
\* the results to come within the calls, and what it has used above zero.
THEOREM ToolTypesHold == ToolSpec => []ToolTypeOK
BY SizesInvInit, SizesInvStep, ToolInvTypes, PoolInvHolds, ToolInvHolds, PTL DEF ToolSpec

-----------------------------------------------------------------------------
(* Permissions. *)

AllPatterns == [on : Surfaces \cup {"all"}, tool : Tools, class : Classes \cup {"any"}]
WordTypes == [on : Surfaces \cup {"all"}, tool : Tools, class : Classes \cup {"any"},
          by : {"answer", "rule"}]
Statuses == {"idle", "asks", "runs"}
CallTypes == [is : Statuses, on : Surfaces, kind : CallKinds \cup {NoKind}]

PermTypes ==
  /\ rules \in [allow : SUBSET AllPatterns, deny : SUBSET AllPatterns, ask : SUBSET AllPatterns]
  /\ grant \in [always : SUBSET Tools, once : SUBSET CallKinds,
                session : SUBSET Tools, sessionOnce : SUBSET CallKinds]
  /\ said \in [given : SUBSET WordTypes, times : 0..MaxGrants]
  /\ asker \in [Askers -> CallTypes]
  /\ \A c \in Askers : asker[c].is # "idle" => asker[c].kind \in CallKinds
  /\ chain \in Seq(Askers)

\* Each question belongs to a call that waits for it, and no call has two.
ChainInv ==
  /\ \A i \in 1..Len(chain) : asker[chain[i]].is = "asks"
  /\ \A i, j \in 1..Len(chain) : chain[i] = chain[j] => i = j

\* The word behind a rule, an answer for a tool and an answer for a call.
RuleWord(p) == [on |-> p.on, tool |-> p.tool, class |-> p.class, by |-> "rule"]
ToolWord(on, t) == [on |-> on, tool |-> t, class |-> "any", by |-> "answer"]
CallWord(on, k) == [on |-> on, tool |-> k.tool, class |-> k.class, by |-> "answer"]

WordsInv ==
  /\ \A p \in rules.allow : RuleWord(p) \in said.given
  /\ \A t \in grant.always : ToolWord("cli", t) \in said.given
  /\ \A t \in grant.session : ToolWord("remote", t) \in said.given
  /\ \A k \in grant.once : CallWord("cli", k) \in said.given
  /\ \A k \in grant.sessionOnce : CallWord("remote", k) \in said.given

PermInv == PermTypes /\ ChainInv /\ WordsInv

(***************************************************************************)
(* The decision.                                                           *)
(***************************************************************************)
\* An allow rule with an argument that matches is a word for just this call.
LEMMA RuleForCall ==
  ASSUME PermInv, NEW on \in Surfaces, NEW k \in CallKinds,
         EvaluateRules(on, k) = "allow"
  PROVE  GrantedFor(on, k, {k.class})
<1>1. PICK p \in rules.allow : p.class # "any" /\ Matches(p, on, k)
  BY DEF EvaluateRules
<1>2. RuleWord(p) \in said.given
  BY DEF PermInv, WordsInv
<1>3. /\ RuleWord(p).on \in {on, "all"} /\ RuleWord(p).tool = k.tool
      /\ RuleWord(p).class = k.class
  BY <1>1 DEF RuleWord, Matches, Applies
<1> QED
  BY <1>2, <1>3 DEF GrantedFor

\* A rule for a whole tool is a word for the tool.
LEMMA RuleForTool ==
  ASSUME PermInv, NEW on \in Surfaces, NEW k \in CallKinds,
         ToolAllowedByRule(on, k.tool)
  PROVE  GrantedFor(on, k, {"any"})
<1>1. PICK p \in rules.allow : p.class = "any" /\ Applies(p, on) /\ p.tool = k.tool
  BY DEF ToolAllowedByRule
<1>2. RuleWord(p) \in said.given
  BY DEF PermInv, WordsInv
<1>3. /\ RuleWord(p).on \in {on, "all"} /\ RuleWord(p).tool = k.tool
      /\ RuleWord(p).class = "any"
  BY <1>1 DEF RuleWord, Applies
<1> QED
  BY <1>2, <1>3 DEF GrantedFor

\* An answer for the tool, on its surface.
LEMMA AnswerForTool ==
  ASSUME PermInv, NEW on \in Surfaces, NEW k \in CallKinds,
         \/ on = "cli" /\ k.tool \in grant.always
         \/ on = "remote" /\ k.tool \in grant.session
  PROVE  GrantedFor(on, k, {"any"})
<1>1. ToolWord(on, k.tool) \in said.given
  BY DEF PermInv, WordsInv
<1> QED
  BY <1>1 DEF GrantedFor, ToolWord

\* An answer for the call, on its surface.
LEMMA AnswerForCall ==
  ASSUME PermInv, NEW on \in Surfaces, NEW k \in CallKinds,
         \/ on = "cli" /\ k \in grant.once
         \/ on = "remote" /\ k \in grant.sessionOnce
  PROVE  GrantedFor(on, k, {k.class})
<1>1. CallWord(on, k) \in said.given
  BY DEF PermInv, WordsInv
<1> QED
  BY <1>1 DEF GrantedFor, CallWord

\* Only a rule that asks makes EvaluateRules say "ask", and an asking rule is
\* passed over only by a denial or by an allowance of just this call.
LEMMA AskRules ==
  ASSUME NEW on, NEW k, EvaluateRules(on, k) \notin {"deny", "allow", "ask"}
  PROVE  ~RuleAsks(on, k)
  BY DEF EvaluateRules, RuleAsks

\* What the autonomous mode lets through keeps to the folder.
LEMMA AutorunIsPlain ==
  ASSUME NEW k \in CallKinds, Autorun(k) = "allow", k.class # "blocked"
  PROVE  k.class = "plain"
<1>1. k \in [tool : Tools, class : Classes]
  BY PermissionConstants
<1>2. k.class \in CASE k.tool = "bash" -> Classes
                    [] k.tool \in {"write", "read", "computer"} -> {"plain", "outside"}
                    [] OTHER -> {"plain"}
  BY PermissionConstants
<1> QED
  BY <1>1, <1>2 DEF Autorun, Classes, OutsideSandbox, Tools

\* A check of another surface that lets a tool run has a word for it.
LEMMA RemoteHasWord ==
  ASSUME PermInv, NEW k \in CallKinds, k.tool # "safe", RemoteDecision(k) = "allow"
  PROVE  HasWord("remote", k)
<1> DEFINE rule == EvaluateRules("remote", k)
<1>1. rule # "deny" /\ k.class # "blocked"
  BY DEF RemoteDecision, Barred
<1>2. ~mode.mismatch
  BY DEF RemoteDecision
<1>3. "remote" \in Surfaces /\ ~OutsideSandbox(k)
  BY DEF Surfaces, RemoteDecision
<1>4. CASE rule = "allow"
  BY <1>1, <1>2, <1>3, <1>4, RuleForCall DEF HasWord
<1>5. CASE rule # "allow"
  <2>1. rule # "ask"
    BY <1>1, <1>2, <1>5 DEF RemoteDecision
  <2>2. ~RuleAsks("remote", k) /\ (~Wanted("remote", k) \/ ReachUnseen("remote", k))
    BY <1>1, <1>3, <1>5, <2>1, AskRules DEF Wanted, ReachUnseen
  <2>3. CASE ToolAllowedByRule("remote", k.tool)
    BY <1>1, <1>2, <1>3, <2>2, <2>3, RuleForTool DEF HasWord
  <2>4. CASE k.tool \in grant.session
    BY <1>1, <1>2, <1>3, <2>2, <2>4, AnswerForTool DEF HasWord
  <2>5. CASE k \in grant.sessionOnce
    BY <1>1, <1>2, <1>3, <2>5, AnswerForCall DEF HasWord
  <2>6. CASE ~ToolAllowedByRule("remote", k.tool) /\ k.tool \notin grant.session
             /\ k \notin grant.sessionOnce
    <3>1. mode.remoteAutorun /\ Autorun(k) = "allow"
      BY <1>1, <1>2, <1>5, <2>1, <2>6 DEF RemoteDecision
    <3>2. Trusted("remote", k) /\ ~Wanted("remote", k)
      BY <1>1, <1>3, <2>2, <3>1, AutorunIsPlain DEF Trusted, Wanted, NeedsAsk
    <3> QED
      BY <1>1, <1>2, <2>2, <3>2 DEF HasWord
  <2> QED
    BY <2>3, <2>4, <2>5, <2>6
<1> QED
  BY <1>4, <1>5

\* The same at the terminal.
LEMMA CliHasWord ==
  ASSUME PermInv, NEW k \in CallKinds, k.tool # "safe", CliDecision(k) = "allow"
  PROVE  HasWord("cli", k)
<1> DEFINE rule == EvaluateRules("cli", k)
           auto == IF rule # "ask" /\ (mode.autorun \/ (k.tool = "bash" /\ mode.contained))
                   THEN Autorun(k) ELSE "none"
           wide == rule # "ask" /\ (ToolAllowedByRule("cli", k.tool) \/ k.tool \in grant.always)
<1>1. rule # "deny" /\ k.class # "blocked"
  BY DEF CliDecision, Barred
<1>2. ~mode.mismatch
  BY DEF CliDecision
<1>3. "cli" \in Surfaces
  BY DEF Surfaces
<1>4. CASE rule = "allow"
  BY <1>1, <1>2, <1>3, <1>4, RuleForCall DEF HasWord
<1>5. CASE rule # "allow" /\ k \in grant.once
  BY <1>1, <1>2, <1>3, <1>5, AnswerForCall DEF HasWord
<1>6. CASE rule # "allow" /\ k \notin grant.once
  <2>1. auto = "allow" \/ (auto = "none" /\ wide /\ ~NeedsAsk(k) /\ ~OutsideSandbox(k))
    <3>1. auto \in {"allow", "refuse", "none"}
      BY DEF Autorun
    <3> QED
      BY <1>1, <1>2, <1>6, <3>1 DEF CliDecision
  <2>2. rule # "ask"
    BY <2>1
  <2>3. ~RuleAsks("cli", k)
    BY <1>1, <1>6, <2>2, AskRules
  <2>4. CASE auto = "allow"
    <3>1. Autorun(k) = "allow" /\ (mode.autorun \/ (k.tool = "bash" /\ mode.contained))
      BY <2>4
    <3>2. Trusted("cli", k) /\ ~NeedsAsk(k) /\ ~OutsideSandbox(k)
      BY <1>1, <3>1, AutorunIsPlain DEF Trusted, NeedsAsk, OutsideSandbox
    <3> QED
      BY <1>1, <1>2, <2>3, <3>2 DEF HasWord, Wanted
  <2>5. CASE auto = "none" /\ wide /\ ~NeedsAsk(k) /\ ~OutsideSandbox(k)
    <3>1. ~Wanted("cli", k)
      BY <2>3, <2>5 DEF Wanted
    <3>2. GrantedFor("cli", k, {"any"})
      BY <1>3, <2>5, RuleForTool, AnswerForTool
    <3> QED
      BY <1>1, <1>2, <3>1, <3>2 DEF HasWord
  <2> QED
    BY <2>1, <2>4, <2>5
<1> QED
  BY <1>4, <1>5, <1>6

LEMMA DecisionHasWord ==
  ASSUME PermInv, NEW on \in Surfaces, NEW k \in CallKinds, k.tool # "safe",
         Decision(on, k) = "allow"
  PROVE  HasWord(on, k)
<1>1. k.tool # "computer"
  BY DEF Decision, DesktopDecision
<1>2. CASE on = "remote"
  BY <1>1, <1>2, RemoteHasWord DEF Decision
<1>3. CASE on = "cli"
  BY <1>1, <1>3, CliHasWord DEF Decision
<1> QED
  BY <1>2, <1>3 DEF Surfaces

(***************************************************************************)
(* The steps.                                                              *)
(***************************************************************************)
LEMMA PermInitOK == PermInit => PermInv
<1> SUFFICES ASSUME PermInit PROVE PermInv
  OBVIOUS
<1>1. PermTypes
  BY PermissionConstants DEF PermInit, PermTypes, Idle, NoKind, CallTypes, Statuses, Surfaces, Askers
<1>2. ChainInv
  BY DEF PermInit, ChainInv
<1>3. WordsInv
  BY DEF PermInit, WordsInv
<1> QED
  BY <1>1, <1>2, <1>3 DEF PermInv

\* A call that checks: it runs, or its question is the last of the chain.
LEMMA CheckKeeps ==
  ASSUME PermInv, NEW c \in Askers, Check(c)
  PROVE  PermInv'
<1>1. PICK on \in Surfaces, k \in CallKinds :
        /\ asker' = [asker EXCEPT ![c] =
             [is |-> IF Decision(on, k) = "allow" THEN "runs" ELSE "asks", on |-> on, kind |-> k]]
        /\ chain' = IF Decision(on, k) = "question" THEN Append(chain, c) ELSE chain
        /\ Decision(on, k) # "refuse"
  BY DEF Check
<1>2. Decision(on, k) \in {"allow", "refuse", "question"}
  BY DEF Decision, DesktopDecision, RemoteDecision, CliDecision, Autorun
<1>3. asker[c].is = "idle" /\ UNCHANGED <<rules, grant, mode, said>>
  BY DEF Check
<1>4. PermTypes'
  BY <1>1, <1>3 DEF PermInv, PermTypes, CallTypes, Statuses
<1>5. \A i \in 1..Len(chain) : chain[i] # c
  BY <1>3 DEF PermInv, ChainInv
<1>6. ChainInv'
  <2>1. CASE Decision(on, k) = "allow"
    BY <1>1, <1>5, <2>1 DEF PermInv, PermTypes, ChainInv
  <2>2. CASE Decision(on, k) = "question"
    <3>1. chain' = Append(chain, c) /\ asker'[c].is = "asks"
      BY <1>1, <2>2 DEF PermInv, PermTypes
    <3>2. /\ Len(chain') = Len(chain) + 1 /\ Len(chain) \in Nat
          /\ chain'[Len(chain) + 1] = c
          /\ \A i \in 1..Len(chain) : chain'[i] = chain[i]
      BY <3>1 DEF PermInv, PermTypes
    <3>3. \A i \in 1..Len(chain) : asker'[chain[i]].is = "asks"
      BY <1>1, <1>5 DEF PermInv, PermTypes, ChainInv
    <3>4. \A i \in 1..Len(chain') : i \in 1..Len(chain) \/ i = Len(chain) + 1
      BY <3>2
    <3>5. \A i \in 1..Len(chain') : asker'[chain'[i]].is = "asks"
      BY <3>1, <3>2, <3>3, <3>4
    <3>6. \A i, j \in 1..Len(chain') : chain'[i] = chain'[j] => i = j
      BY <1>5, <3>2, <3>4 DEF PermInv, ChainInv
    <3> QED
      BY <3>5, <3>6 DEF ChainInv
  <2> QED
    BY <1>1, <1>2, <2>1, <2>2
<1>7. WordsInv'
  BY <1>3 DEF PermInv, WordsInv, RuleWord, ToolWord, CallWord
<1> QED
  BY <1>4, <1>6, <1>7 DEF PermInv

\* The question at the head ends.
LEMMA OverKeeps ==
  ASSUME PermInv, NEW c \in Askers, chain # <<>>, c = Head(chain),
         NEW is, QuestionOver(c, is)
  PROVE  /\ asker' \in [Askers -> CallTypes] /\ chain' \in Seq(Askers) /\ ChainInv'
         /\ \A d \in Askers : asker'[d].is # "idle" => asker'[d].kind \in CallKinds
<1>1. /\ chain' = Tail(chain)
      /\ asker' = [asker EXCEPT ![c] = IF is = "runs" THEN [@ EXCEPT !.is = "runs"] ELSE Idle]
  BY DEF QuestionOver
<1>2. /\ chain \in Seq(Askers) /\ Len(chain) \in Nat \ {0} /\ c = chain[1]
      /\ Len(chain') = Len(chain) - 1
      /\ \A i \in 1..Len(chain') : chain'[i] = chain[i + 1]
  BY <1>1 DEF PermInv, PermTypes
<1>3. asker[c].is = "asks"
  BY <1>2 DEF PermInv, ChainInv
<1>4. Idle \in CallTypes /\ [asker[c] EXCEPT !.is = "runs"] \in CallTypes
      /\ [asker[c] EXCEPT !.is = "runs"].kind = asker[c].kind
  BY DEF Idle, NoKind, CallTypes, Statuses, Surfaces, PermInv, PermTypes
<1>5. asker' \in [Askers -> CallTypes]
  BY <1>1, <1>4 DEF PermInv, PermTypes
<1>6. chain' \in Seq(Askers)
  BY <1>1, <1>2
<1>7. \A d \in Askers : asker'[d].is # "idle" => asker'[d].kind \in CallKinds
  BY <1>1, <1>3, <1>4 DEF PermInv, PermTypes, Idle
<1>8. \A i \in 1..Len(chain') : chain[i + 1] # c /\ asker[chain[i + 1]].is = "asks"
                                /\ chain[i + 1] \in Askers
  BY <1>2 DEF PermInv, ChainInv
<1>9. ChainInv'
  <2>1. \A i \in 1..Len(chain') : asker'[chain'[i]].is = "asks"
    BY <1>1, <1>2, <1>8 DEF PermInv, PermTypes
  <2>2. \A i, j \in 1..Len(chain') : chain'[i] = chain'[j] => i = j
    BY <1>2 DEF PermInv, ChainInv
  <2> QED
    BY <2>1, <2>2 DEF ChainInv
<1> QED
  BY <1>5, <1>6, <1>7, <1>9

\* A grant is kept together with the word it stands for.
LEMMA AnswerKeeps ==
  ASSUME PermInv, NEW c \in Askers, AnswersQuestion(c)
  PROVE  PermInv'
<1>1. chain # <<>> /\ c = Head(chain)
  BY DEF AnswersQuestion
<1>2. asker[c].is = "asks" /\ asker[c].on \in Surfaces /\ asker[c].kind \in CallKinds
  BY <1>1 DEF PermInv, PermTypes, ChainInv, CallTypes
<1>3. /\ asker[c].kind.tool \in Tools /\ asker[c].kind.class \in Classes
      /\ MaxGrants \in Nat
  BY <1>2, PermissionConstants
<1>4. \A is : QuestionOver(c, is) =>
        /\ asker' \in [Askers -> CallTypes] /\ chain' \in Seq(Askers) /\ ChainInv'
        /\ \A d \in Askers : asker'[d].is # "idle" => asker'[d].kind \in CallKinds
  BY <1>1, OverKeeps
<1>5. CASE Refuses(c) \/ AllowsDesktop(c)
  <2>1. UNCHANGED <<rules, grant, mode, said>> /\ \E is : QuestionOver(c, is)
    BY <1>5 DEF Refuses, AllowsDesktop
  <2> QED
    BY <1>4, <2>1 DEF PermInv, PermTypes, WordsInv, RuleWord, ToolWord, CallWord
<1>6. CASE AllowsOnce(c)
  <2>1. /\ said.times < MaxGrants /\ QuestionOver(c, "runs") /\ UNCHANGED <<rules, mode>>
        /\ grant' = IF asker[c].on = "cli"
                    THEN [grant EXCEPT !.once = @ \cup {asker[c].kind}]
                    ELSE [grant EXCEPT !.sessionOnce = @ \cup {asker[c].kind}]
        /\ said' = [given |-> said.given \cup {CallWord(asker[c].on, asker[c].kind)},
                    times |-> said.times + 1]
    BY <1>6 DEF AllowsOnce, Grants, Says, WordOf, CallWord
  <2>2. CallWord(asker[c].on, asker[c].kind) \in WordTypes
    BY <1>2, <1>3 DEF CallWord, WordTypes, Classes
  <2>3. PermTypes'
    <3>1. said' \in [given : SUBSET WordTypes, times : 0..MaxGrants]
      BY <1>3, <2>1, <2>2 DEF PermInv, PermTypes
    <3>2. grant' \in [always : SUBSET Tools, once : SUBSET CallKinds,
                     session : SUBSET Tools, sessionOnce : SUBSET CallKinds]
      BY <1>2, <1>3, <2>1 DEF PermInv, PermTypes
    <3> QED
      BY <1>4, <2>1, <3>1, <3>2 DEF PermInv, PermTypes
  <2>4. WordsInv'
    BY <1>2, <2>1 DEF PermInv, PermTypes, WordsInv, RuleWord, ToolWord, CallWord, Surfaces
  <2> QED
    BY <1>4, <2>1, <2>3, <2>4 DEF PermInv
<1>7. CASE AllowsForSession(c)
  <2>1. /\ said.times < MaxGrants /\ QuestionOver(c, "runs") /\ UNCHANGED <<rules, mode>>
        /\ grant' = IF asker[c].on = "cli"
                    THEN [grant EXCEPT !.always = @ \cup {asker[c].kind.tool}]
                    ELSE [grant EXCEPT !.session = @ \cup {asker[c].kind.tool}]
        /\ said' = [given |-> said.given \cup {ToolWord(asker[c].on, asker[c].kind.tool)},
                    times |-> said.times + 1]
    BY <1>7 DEF AllowsForSession, Grants, Says, WordOf, ToolWord
  <2>2. ToolWord(asker[c].on, asker[c].kind.tool) \in WordTypes
    BY <1>2, <1>3 DEF ToolWord, WordTypes
  <2>3. PermTypes'
    <3>1. said' \in [given : SUBSET WordTypes, times : 0..MaxGrants]
      BY <1>3, <2>1, <2>2 DEF PermInv, PermTypes
    <3>2. grant' \in [always : SUBSET Tools, once : SUBSET CallKinds,
                     session : SUBSET Tools, sessionOnce : SUBSET CallKinds]
      BY <1>2, <1>3, <2>1 DEF PermInv, PermTypes
    <3> QED
      BY <1>4, <2>1, <3>1, <3>2 DEF PermInv, PermTypes
  <2>4. WordsInv'
    BY <1>2, <2>1 DEF PermInv, PermTypes, WordsInv, RuleWord, ToolWord, CallWord, Surfaces
  <2> QED
    BY <1>4, <2>1, <2>3, <2>4 DEF PermInv
<1>8. CASE AllowsForGood(c)
  <2> DEFINE p == [on |-> "cli", tool |-> asker[c].kind.tool, class |-> "any"]
  <2>1. /\ said.times < MaxGrants /\ (\E is : QuestionOver(c, is)) /\ UNCHANGED <<grant, mode>>
        /\ rules' = [rules EXCEPT !.allow = @ \cup {p}]
        /\ said' = [given |-> said.given \cup {RuleWord(p)}, times |-> said.times + 1]
    BY <1>8 DEF AllowsForGood, Says, WordOf, RuleWord
  <2>2. p \in AllPatterns /\ RuleWord(p) \in WordTypes
    BY <1>2, <1>3 DEF RuleWord, WordTypes, AllPatterns, Surfaces
  <2> HIDE DEF p
  <2>3. PermTypes'
    BY <1>2, <1>3, <1>4, <2>1, <2>2, SMTT(20) DEF PermInv, PermTypes
  <2>4. WordsInv'
    BY <2>1 DEF PermInv, PermTypes, WordsInv, RuleWord, ToolWord, CallWord
  <2> QED
    BY <1>4, <2>1, <2>3, <2>4 DEF PermInv
<1> QED
  BY <1>5, <1>6, <1>7, <1>8 DEF AnswersQuestion

\* The screen of the rules.
LEMMA RulesKeep ==
  ASSUME PermInv, AddRule \/ RemoveRule
  PROVE  PermInv'
<1>1. UNCHANGED <<grant, mode, asker, chain>>
  BY DEF AddRule, RemoveRule
<1>2. ChainInv'
  BY <1>1 DEF PermInv, ChainInv
<1>3. CASE AddRule
  <2>1. PICK p \in Patterns :
          \/ /\ rules' = [rules EXCEPT !.allow = @ \cup {p}]
             /\ said' = [given |-> said.given \cup {RuleWord(p)}, times |-> said.times + 1]
          \/ /\ \/ rules' = [rules EXCEPT !.deny = @ \cup {p}]
                \/ rules' = [rules EXCEPT !.ask = @ \cup {p}]
             /\ said' = [said EXCEPT !.times = @ + 1]
    BY <1>3 DEF AddRule, Says, RuleWord
  <2>2. p \in AllPatterns /\ RuleWord(p) \in WordTypes
    BY PermissionConstants DEF AllPatterns, RuleWord, WordTypes
  <2>3. said.times < MaxGrants /\ MaxGrants \in Nat
    BY <1>3, PermissionConstants DEF AddRule
  <2>4. PermTypes'
    <3>1. said' \in [given : SUBSET WordTypes, times : 0..MaxGrants]
      BY <2>1, <2>2, <2>3 DEF PermInv, PermTypes
    <3>2. rules' \in [allow : SUBSET AllPatterns, deny : SUBSET AllPatterns, ask : SUBSET AllPatterns]
      BY <2>1, <2>2 DEF PermInv, PermTypes
    <3> QED
      BY <1>1, <3>1, <3>2 DEF PermInv, PermTypes
  <2>5. WordsInv'
    BY <1>1, <2>1 DEF PermInv, PermTypes, WordsInv, RuleWord, ToolWord, CallWord
  <2> QED
    BY <1>2, <2>4, <2>5 DEF PermInv
<1>4. CASE RemoveRule
  <2>1. CASE /\ \E p \in rules.deny \cup rules.ask :
                  \/ rules' = [rules EXCEPT !.deny = @ \ {p}]
                  \/ rules' = [rules EXCEPT !.ask = @ \ {p}]
             /\ UNCHANGED said
    BY <1>1, <1>2, <2>1 DEF PermInv, PermTypes, WordsInv, RuleWord, ToolWord, CallWord
  <2>2. CASE \E p \in rules.allow :
               /\ rules' = [rules EXCEPT !.allow = @ \ {p}]
               /\ said' = [said EXCEPT !.given = @ \ {RuleWord(p)}]
    <3>1. PICK p \in rules.allow :
            /\ rules' = [rules EXCEPT !.allow = @ \ {p}]
            /\ said' = [said EXCEPT !.given = @ \ {RuleWord(p)}]
      BY <2>2
    <3>2. PermTypes'
      BY <1>1, <3>1 DEF PermInv, PermTypes
    <3>3. \A q \in AllPatterns : RuleWord(q) = RuleWord(p) => q = p
      BY DEF RuleWord, AllPatterns, PermInv, PermTypes
    <3>4. \A q \in rules'.allow : RuleWord(q) \in said'.given
      BY <3>1, <3>3 DEF PermInv, PermTypes, WordsInv
    <3>5. \A on, t : ToolWord(on, t) # RuleWord(p)
      BY DEF ToolWord, RuleWord
    <3>6. \A on, k : CallWord(on, k) # RuleWord(p)
      BY DEF CallWord, RuleWord
    <3>7. WordsInv'
      BY <1>1, <3>1, <3>4, <3>5, <3>6 DEF PermInv, PermTypes, WordsInv
    <3> QED
      BY <1>2, <3>2, <3>7 DEF PermInv
  <2> QED
    BY <1>4, <2>1, <2>2 DEF RemoveRule, RuleWord
<1> QED
  BY <1>3, <1>4

\* The invariant holds of every step.
LEMMA PermStep == PermInv /\ [PermNext]_permVars => PermInv'
<1> SUFFICES ASSUME PermInv, [PermNext]_permVars PROVE PermInv'
  OBVIOUS
<1>1. ASSUME NEW c \in Askers, Check(c) PROVE PermInv'
  BY <1>1, CheckKeeps
<1>2. ASSUME NEW c \in Askers, AnswersQuestion(c) PROVE PermInv'
  BY <1>2, AnswerKeeps
<1>3. ASSUME NEW c \in Askers, CallOver(c) PROVE PermInv'
  <2>1. /\ asker[c].is = "runs" /\ asker' = [asker EXCEPT ![c] = Idle]
        /\ UNCHANGED <<rules, grant, mode, chain, said>>
    BY <1>3 DEF CallOver
  <2>2. PermTypes'
    BY <2>1 DEF PermInv, PermTypes, Idle, NoKind, CallTypes, Statuses, Surfaces
  <2>3. ChainInv'
    BY <2>1 DEF PermInv, PermTypes, ChainInv
  <2>4. WordsInv'
    BY <2>1 DEF PermInv, WordsInv, RuleWord, ToolWord, CallWord
  <2> QED
    BY <2>2, <2>3, <2>4 DEF PermInv
<1>4. CASE BatchTurns \/ SwitchAutorun \/ UNCHANGED permVars
  <2>1. UNCHANGED <<rules, grant, asker, chain, said>>
    BY <1>4 DEF BatchTurns, SwitchAutorun, permVars
  <2> QED
    BY <2>1 DEF PermInv, PermTypes, ChainInv, WordsInv, RuleWord, ToolWord, CallWord
<1>5. CASE AddRule \/ RemoveRule
  BY <1>5, RulesKeep
<1> QED
  BY <1>1, <1>2, <1>3, <1>4, <1>5 DEF PermNext

(***************************************************************************)
(* Theorems.                                                               *)
(***************************************************************************)
\* What the program allows by a rule or an answer is covered by a word of the
\* user, and each question on the chain is that of a call that waits for it.
THEOREM PermInvHolds == PermSpec => []PermInv
<1> QED
  BY PermInitOK, PermStep, PTL DEF PermSpec

RunsWithWord ==
  \A c \in Askers :
    asker[c].is = "idle" /\ asker'[c].is = "runs" /\ asker'[c].kind.tool # "safe" =>
      HasWord(asker'[c].on, asker'[c].kind)

LEMMA RunsWithWordStep ==
  PermInv /\ [PermNext]_permVars => [RunsWithWord]_permVars
<1> SUFFICES ASSUME PermInv, PermNext, NEW d \in Askers,
                    asker[d].is = "idle", asker'[d].is = "runs", asker'[d].kind.tool # "safe"
             PROVE  HasWord(asker'[d].on, asker'[d].kind)
  BY DEF RunsWithWord
<1>1. ASSUME NEW c \in Askers, Check(c) PROVE HasWord(asker'[d].on, asker'[d].kind)
  <2>1. PICK on \in Surfaces, k \in CallKinds :
          asker' = [asker EXCEPT ![c] =
            [is |-> IF Decision(on, k) = "allow" THEN "runs" ELSE "asks", on |-> on, kind |-> k]]
    BY <1>1 DEF Check
  <2>2. c = d /\ Decision(on, k) = "allow" /\ asker'[d].on = on /\ asker'[d].kind = k
    BY <2>1 DEF PermInv, PermTypes
  <2> QED
    BY <2>2, DecisionHasWord
<1>2. ASSUME NEW c \in Askers, AnswersQuestion(c) PROVE FALSE
  <2>1. c = Head(chain) /\ chain # <<>> /\ \E is : QuestionOver(c, is)
    BY <1>2 DEF AnswersQuestion, Refuses, AllowsDesktop, AllowsOnce, AllowsForSession,
                AllowsForGood, Grants
  <2>2. asker[c].is = "asks"
    BY <2>1 DEF PermInv, PermTypes, ChainInv
  <2>3. c # d
    BY <2>2
  <2> QED
    BY <2>1, <2>3 DEF QuestionOver, PermInv, PermTypes
<1>3. ASSUME NEW c \in Askers, CallOver(c) PROVE FALSE
  BY <1>3 DEF CallOver, PermInv, PermTypes, Idle
<1>4. CASE BatchTurns \/ SwitchAutorun \/ AddRule \/ RemoveRule
  BY <1>4 DEF BatchTurns, SwitchAutorun, AddRule, RemoveRule
<1> QED
  BY <1>1, <1>2, <1>3, <1>4 DEF PermNext

\* RunsByWord (checkToolPermission): no tool runs unasked without the user's
\* word on that surface or a mode that trusts the call; and only on Discord and
\* Slack, for a command that reaches out of the folder, does a word for the whole
\* tool count where the documents keep a question.
THEOREM ToolsRunByWord == PermSpec => RunsByWord
BY RunsWithWordStep, PermInvHolds, PTL DEF PermSpec, RunsByWord, RunsWithWord

LEMMA PermInvTypes == PermInv => PermTypeOK
BY DEF PermInv, PermTypes, PermTypeOK, CallTypes, Statuses

\* The calls, the questions that wait and the answers given keep their types.
THEOREM PermTypesHold == PermSpec => []PermTypeOK
BY PermInvTypes, PermInvHolds, PTL

(***************************************************************************)
(* The questions come to their turn: the safety half of                    *)
(* QuestionsAreSettled, to which the answers, or the timeouts, of the      *)
(* questions on the screen add the end.                                    *)
(***************************************************************************)
\* A call that waits for an answer has a question on the chain.
AskersWait == \A c \in Askers : asker[c].is = "asks" => \E i \in 1..Len(chain) : chain[i] = c

\* The questions of the others wait as before.
OthersWait(c) == \A d \in Askers : d # c => (asker'[d].is = "asks" <=> asker[d].is = "asks")

QuestionComes ==
  \E c \in Askers : chain' = Append(chain, c) /\ asker'[c].is = "asks" /\ OthersWait(c)
FirstIsSettled ==
  \E c \in Askers : /\ chain # <<>> /\ c = Head(chain) /\ chain' = Tail(chain)
                    /\ asker'[c].is # "asks" /\ OthersWait(c)
NoQuestionMoves ==
  chain' = chain /\ \A d \in Askers : asker'[d].is = "asks" <=> asker[d].is = "asks"

LEMMA ChainMoves ==
  ASSUME PermInv, [PermNext]_permVars
  PROVE  QuestionComes \/ FirstIsSettled \/ NoQuestionMoves
<1>1. asker \in [Askers -> CallTypes] /\ chain \in Seq(Askers)
  BY DEF PermInv, PermTypes
<1>2. ASSUME NEW c \in Askers, Check(c) PROVE QuestionComes \/ NoQuestionMoves
  <2>1. PICK on \in Surfaces, k \in CallKinds :
          /\ asker' = [asker EXCEPT ![c] =
               [is |-> IF Decision(on, k) = "allow" THEN "runs" ELSE "asks", on |-> on, kind |-> k]]
          /\ chain' = IF Decision(on, k) = "question" THEN Append(chain, c) ELSE chain
          /\ Decision(on, k) # "refuse" /\ asker[c].is = "idle"
    BY <1>2 DEF Check
  <2>2. Decision(on, k) \in {"allow", "refuse", "question"}
    BY DEF Decision, DesktopDecision, RemoteDecision, CliDecision, Autorun
  <2>3. /\ asker'[c].is = IF Decision(on, k) = "allow" THEN "runs" ELSE "asks"
        /\ \A d \in Askers : d # c => asker'[d] = asker[d]
    BY <1>1, <2>1
  <2>4. CASE Decision(on, k) = "question"
    BY <2>1, <2>3, <2>4 DEF QuestionComes, OthersWait
  <2>5. CASE Decision(on, k) = "allow"
    BY <2>1, <2>3, <2>5 DEF NoQuestionMoves
  <2>. QED BY <2>1, <2>2, <2>4, <2>5
<1>3. ASSUME NEW c \in Askers, AnswersQuestion(c) PROVE FirstIsSettled
  <2>1. PICK is \in {"runs", "refused", "failed"} : QuestionOver(c, is)
    BY <1>3 DEF AnswersQuestion, Refuses, AllowsDesktop, AllowsOnce, AllowsForSession,
                AllowsForGood, Grants
  <2>2. chain # <<>> /\ c = Head(chain) /\ chain' = Tail(chain)
    BY <1>3, <2>1 DEF AnswersQuestion, QuestionOver
  <2>3. asker' = [asker EXCEPT ![c] = IF is = "runs" THEN [@ EXCEPT !.is = "runs"] ELSE Idle]
    BY <2>1 DEF QuestionOver
  <2>4. [asker[c] EXCEPT !.is = "runs"].is = "runs" /\ Idle.is = "idle"
    BY <1>1 DEF CallTypes, Idle
  <2>5. asker'[c].is # "asks" /\ \A d \in Askers : d # c => asker'[d] = asker[d]
    BY <1>1, <2>3, <2>4
  <2>. QED BY <2>2, <2>5 DEF FirstIsSettled, OthersWait
<1>4. ASSUME NEW c \in Askers, CallOver(c) PROVE NoQuestionMoves
  <2>1. asker[c].is = "runs" /\ asker' = [asker EXCEPT ![c] = Idle] /\ chain' = chain
    BY <1>4 DEF CallOver
  <2>. QED BY <1>1, <2>1 DEF NoQuestionMoves, Idle
<1>5. CASE BatchTurns \/ SwitchAutorun \/ AddRule \/ RemoveRule \/ UNCHANGED permVars
  BY <1>5 DEF BatchTurns, SwitchAutorun, AddRule, RemoveRule, permVars, NoQuestionMoves
<1>. QED BY <1>2, <1>3, <1>4, <1>5 DEF PermNext

LEMMA AskersWaitStep == PermInv /\ AskersWait /\ [PermNext]_permVars => AskersWait'
<1>. SUFFICES ASSUME PermInv, AskersWait, [PermNext]_permVars,
                     NEW d \in Askers, asker'[d].is = "asks"
              PROVE  \E i \in 1..Len(chain') : chain'[i] = d
  BY DEF AskersWait
<1>1. chain \in Seq(Askers)
  BY DEF PermInv, PermTypes
<1>2. CASE QuestionComes
  <2>1. PICK c \in Askers : chain' = Append(chain, c) /\ OthersWait(c)
    BY <1>2 DEF QuestionComes
  <2>2. /\ Len(chain') = Len(chain) + 1 /\ Len(chain) \in Nat /\ chain'[Len(chain) + 1] = c
        /\ \A i \in 1..Len(chain) : chain'[i] = chain[i]
    BY <1>1, <2>1
  <2>3. CASE d = c
    <3>1. Len(chain) + 1 \in 1..Len(chain')
      BY <2>2
    <3>. QED BY <2>2, <2>3, <3>1
  <2>4. CASE d # c
    <3>1. PICK i \in 1..Len(chain) : chain[i] = d
      BY <2>1, <2>4 DEF OthersWait, AskersWait
    <3>2. i \in 1..Len(chain')
      BY <2>2
    <3>. QED BY <2>2, <3>1, <3>2
  <2>. QED BY <2>3, <2>4
<1>3. CASE FirstIsSettled
  <2>1. /\ chain # <<>> /\ chain' = Tail(chain) /\ d # Head(chain)
        /\ asker[d].is = "asks"
    BY <1>3 DEF FirstIsSettled, OthersWait
  <2>2. /\ Len(chain') = Len(chain) - 1 /\ Len(chain) \in Nat /\ chain[1] = Head(chain)
        /\ \A i \in 1..Len(chain') : chain'[i] = chain[i + 1]
    BY <1>1, <2>1
  <2>3. PICK i \in 1..Len(chain) : chain[i] = d
    BY <2>1 DEF AskersWait
  <2>4. i - 1 \in 1..Len(chain') /\ (i - 1) + 1 = i
    BY <2>1, <2>2, <2>3
  <2>. QED BY <2>2, <2>3, <2>4
<1>4. CASE NoQuestionMoves
  BY <1>4 DEF NoQuestionMoves, AskersWait
<1>. QED BY <1>2, <1>3, <1>4, ChainMoves

\* How the line of questions may move: it is as long as before or longer behind, or
\* its first question is settled and each of the others comes one nearer.
LineMoves ==
  \/ Len(chain) <= Len(chain') /\ \A i \in 1..Len(chain) : chain'[i] = chain[i]
  \/ /\ Len(chain') = Len(chain) - 1 /\ \A i \in 1..Len(chain') : chain'[i] = chain[i + 1]
     /\ asker'[chain[1]].is # "asks"

\* A question is on the chain as long as its call waits, and once; no other
\* overtakes it, and each settled one, whatever the answer, lets it come one
\* nearer to the screen (_permissionQueue and resolveQueue in permission-manager.ts,
\* where each caller awaits the promise of the one before): for any number of callers.
THEOREM QuestionsComeNearer ==
  PermSpec => /\ [](/\ AskersWait
                    /\ \A i, j \in 1..Len(chain) : chain[i] = chain[j] => i = j)
              /\ [][LineMoves]_permVars
<1>1. PermInit => AskersWait
  BY DEF PermInit, AskersWait, Idle
<1>2. PermInv => \A i, j \in 1..Len(chain) : chain[i] = chain[j] => i = j
  BY DEF PermInv, ChainInv
<1>3. PermInv /\ [PermNext]_permVars => [LineMoves]_permVars
  <2>. SUFFICES ASSUME PermInv, [PermNext]_permVars PROVE LineMoves
    OBVIOUS
  <2>1. chain \in Seq(Askers)
    BY DEF PermInv, PermTypes
  <2>2. CASE QuestionComes
    <3>1. PICK c \in Askers : chain' = Append(chain, c)
      BY <2>2 DEF QuestionComes
    <3>2. /\ Len(chain') = Len(chain) + 1 /\ Len(chain) \in Nat
          /\ \A i \in 1..Len(chain) : chain'[i] = chain[i]
      BY <2>1, <3>1
    <3>. QED BY <3>2 DEF LineMoves
  <2>3. CASE FirstIsSettled
    <3>1. chain # <<>> /\ chain' = Tail(chain) /\ asker'[Head(chain)].is # "asks"
      BY <2>3 DEF FirstIsSettled
    <3>2. /\ Len(chain') = Len(chain) - 1 /\ chain[1] = Head(chain)
          /\ \A i \in 1..Len(chain') : chain'[i] = chain[i + 1]
      BY <2>1, <3>1
    <3>. QED BY <3>1, <3>2 DEF LineMoves
  <2>4. CASE NoQuestionMoves
    BY <2>1, <2>4 DEF NoQuestionMoves, LineMoves
  <2>. QED BY <2>2, <2>3, <2>4, ChainMoves
<1>. QED BY <1>1, <1>2, <1>3, AskersWaitStep, PermInvHolds, PTL DEF PermSpec

-----------------------------------------------------------------------------
(* The checkpoints of the work folder. *)

Versions == 0..2 * MaxWrites
Trees    == [Files -> Versions]
Targets  == Trees \cup {NoCommit, Lost}
CheckPcs   == {"none", "staged", "sized", "saved", "found", "checked", "restored"}
StoreTypes == [log : Seq(Trees), index : Trees, excluded : SUBSET Files, wrote : 0..MaxWrites]
JobTypes == [pc : CheckPcs, target : Targets, added : SUBSET Files, touched : SUBSET Files,
             missed : SUBSET Files]

CheckTypes ==
  /\ work \in Trees /\ store \in StoreTypes /\ queue \in Seq(Targets) /\ job \in JobTypes
  /\ Len(store.log) <= MaxLog /\ Len(queue) <= MaxJobs

\* What a restore was asked for is a commit of the log, or the log was cleared.
Known(c, log) == c \in {NoCommit, Lost} \/ \E i \in DOMAIN log : c = log[i]

TargetsSound ==
  /\ Known(job.target, store.log)
  /\ \A i \in DOMAIN queue : Known(queue[i], store.log)
  /\ job.pc \in {"saved", "found", "checked", "restored"} => job.target # NoCommit
  /\ job.pc \in {"found", "checked", "restored"} => job.target # Lost

\* What a restore removes: what the snapshot has and the target has not, but for
\* what a failure left out.
SnapshotSound ==
  job.pc \in {"found", "checked"} =>
    LET since == {f \in Files : Tip[f] # 0 /\ job.target[f] = 0}
    IN  job.added \subseteq since /\ since \subseteq job.added \cup job.missed

\* The files that a job need not see to: not in the store, or left out by a failure.
Escaped == store.excluded \cup job.missed

\* What a job has done to a file that nobody else wrote meanwhile: staged as it is,
\* committed, taken from the target, removed; unless it escaped.
FileSound(f) ==
  /\ job.pc \in {"staged", "sized"} => store.index[f] = work[f] \/ f \in Escaped
  /\ job.pc \in {"saved", "found"} => Tip[f] = work[f] \/ f \in Escaped
  /\ job.pc = "checked" =>
       IF job.target[f] # 0 THEN work[f] = job.target[f] ELSE work[f] = Tip[f] \/ f \in Escaped
  /\ job.pc = "restored" => work[f] = job.target[f] \/ (job.target[f] = 0 /\ f \in Escaped)

CheckInv ==
  CheckTypes /\ TargetsSound /\ SnapshotSound /\ \A f \in Files \ job.touched : FileSound(f)

LEMMA CheckFacts ==
  /\ MaxWrites \in Nat \ {0} /\ MaxLog \in Nat \ {0} /\ MaxJobs \in Nat \ {0}
  /\ 0 \in Versions /\ Absent \in Trees /\ NoCommit \in Targets /\ Lost \in Targets
  /\ NoJob \in JobTypes /\ NoJob.pc = "none" /\ NoJob.target = NoCommit /\ NoJob.touched = {}
<1>1. MaxWrites \in Nat \ {0} /\ MaxLog \in Nat \ {0} /\ MaxJobs \in Nat \ {0}
  BY CheckpointConstants
<1>2. 0 \in Versions
  BY <1>1 DEF Versions
<1>3. Absent \in Trees /\ NoCommit \in Targets /\ Lost \in Targets
  BY <1>2 DEF Absent, Trees, Targets
<1>4. NoJob \in JobTypes /\ NoJob.pc = "none" /\ NoJob.target = NoCommit /\ NoJob.touched = {}
  BY <1>3 DEF NoJob, JobTypes, CheckPcs
<1>. QED BY <1>1, <1>2, <1>3, <1>4

\* The last commit, or the empty folder.
LEMMA TipIs ==
  ASSUME CheckTypes
  PROVE  /\ Tip \in Trees
         /\ \/ store.log = <<>> /\ \A f \in Files : Tip[f] = 0
            \/ \E i \in DOMAIN store.log : Tip = store.log[i]
<1>1. store.log \in Seq(Trees)
  BY DEF CheckTypes, StoreTypes
<1>2. CASE store.log = <<>>
  BY <1>2, CheckFacts DEF Tip, Absent
<1>3. CASE store.log # <<>>
  <2>1. PICK n \in Nat : n = Len(store.log)
    BY <1>1
  <2>2. n # 0 /\ DOMAIN store.log = 1..n
    BY <1>1, <1>3, <2>1
  <2>3. n \in DOMAIN store.log /\ Tip = store.log[n]
    BY <1>3, <2>1, <2>2 DEF Tip
  <2>. QED BY <1>1, <2>3
<1>. QED BY <1>2, <1>3

\* A job that is over leaves nothing to keep but the commits that are asked for.
LEMMA JobOver ==
  ASSUME CheckInv, job' = NoJob, work' \in Trees, store' \in StoreTypes, store'.log = store.log,
         queue' = queue
  PROVE  CheckInv'
<1>1. CheckTypes'
  BY CheckFacts DEF CheckInv, CheckTypes
<1>2. TargetsSound'
  BY CheckFacts DEF CheckInv, TargetsSound, Known
<1>. QED BY <1>1, <1>2, CheckFacts DEF CheckInv, SnapshotSound, FileSound

LEMMA CheckInvInit == CheckInit => CheckInv
<1> SUFFICES ASSUME CheckInit PROVE CheckInv
  OBVIOUS
<1>1. /\ store.log = <<>> /\ store.index = Absent /\ store.excluded = {} /\ store.wrote = 0
      /\ store \in StoreTypes
  <2>1. <<>> \in Seq(Trees) /\ 0 \in 0..MaxWrites
    BY CheckFacts
  <2>. QED BY <2>1, CheckFacts DEF CheckInit, NoStore, StoreTypes
<1>2. CheckTypes
  <2>1. <<>> \in Seq(Targets) /\ Len(<<>>) = 0
    OBVIOUS
  <2>. QED BY <1>1, <2>1, CheckFacts DEF CheckInit, CheckTypes
<1>3. TargetsSound
  BY <1>1, CheckFacts DEF CheckInit, TargetsSound, Known
<1>. QED BY <1>2, <1>3, CheckFacts DEF CheckInit, CheckInv, SnapshotSound, FileSound

\* A write of a tool, a sub-agent or the user.
LEMMA WriteKept ==
  ASSUME CheckInv, NEW f \in Files, Writes(f),
         queue' = queue \/ (Len(queue) < MaxJobs /\ queue' = Append(queue, NoCommit))
  PROVE  CheckInv'
<1>1. PICK v \in {0, store.wrote + 1, MaxWrites + store.wrote + 1} :
        work' = [work EXCEPT ![f] = v]
  BY DEF Writes
<1>2. /\ store' = [store EXCEPT !.wrote = @ + 1] /\ job' = [job EXCEPT !.touched = @ \cup {f}]
      /\ store.wrote < MaxWrites
  BY DEF Writes
<1>3. /\ store' \in StoreTypes /\ store'.log = store.log /\ store'.index = store.index
      /\ store'.excluded = store.excluded
  <2>1. store \in StoreTypes /\ store.wrote + 1 \in 0..MaxWrites
    BY <1>2, CheckFacts DEF CheckInv, CheckTypes, StoreTypes
  <2>. QED BY <1>2, <2>1 DEF StoreTypes
<1>4. /\ job' \in JobTypes /\ job'.pc = job.pc /\ job'.target = job.target
      /\ job'.added = job.added /\ job'.touched = job.touched \cup {f} /\ job'.missed = job.missed
  BY <1>2 DEF CheckInv, CheckTypes, JobTypes
<1>5. work' \in Trees /\ \A d \in Files \ {f} : work'[d] = work[d]
  <2>1. v \in Versions
    BY <1>1, <1>2, CheckFacts DEF CheckInv, CheckTypes, StoreTypes, Versions
  <2>. QED BY <1>1, <2>1 DEF CheckInv, CheckTypes, Trees
<1>6. /\ queue' \in Seq(Targets) /\ Len(queue') <= MaxJobs
      /\ \A i \in DOMAIN queue' : queue'[i] = NoCommit \/ (i \in DOMAIN queue /\ queue'[i] = queue[i])
  <2>1. queue \in Seq(Targets) /\ Len(queue) <= MaxJobs
    BY DEF CheckInv, CheckTypes
  <2>2. CASE Len(queue) < MaxJobs /\ queue' = Append(queue, NoCommit)
    BY <2>1, <2>2, CheckFacts
  <2>. QED BY <2>1, <2>2
<1>7. Tip' = Tip
  BY <1>3 DEF Tip
<1>8. CheckTypes'
  BY <1>3, <1>4, <1>5, <1>6 DEF CheckInv, CheckTypes
<1>9. TargetsSound'
  BY <1>3, <1>4, <1>6 DEF CheckInv, TargetsSound, Known
<1>10. SnapshotSound'
  BY <1>3, <1>4, <1>7 DEF CheckInv, SnapshotSound
<1>11. ASSUME NEW d \in Files \ job'.touched PROVE FileSound(d)'
  <2>1. d \in Files \ job.touched /\ FileSound(d) /\ work'[d] = work[d]
    BY <1>4, <1>5, <1>11 DEF CheckInv
  <2>. QED BY <1>3, <1>4, <1>7, <2>1 DEF FileSound, Escaped
<1>. QED BY <1>8, <1>9, <1>10, <1>11 DEF CheckInv

LEMMA AskRestoreKept ==
  ASSUME CheckInv, AskRestore
  PROVE  CheckInv'
<1>1. PICK i \in DOMAIN store.log : queue' = Append(queue, store.log[i])
  BY DEF AskRestore
<1>2. work' = work /\ store' = store /\ job' = job /\ Len(queue) < MaxJobs
  BY DEF AskRestore
<1>3. PICK c \in Targets : c = store.log[i]
  BY <1>1 DEF CheckInv, CheckTypes, StoreTypes, Targets
<1>4. /\ queue' \in Seq(Targets) /\ Len(queue') <= MaxJobs
      /\ \A k \in DOMAIN queue' : queue'[k] = c \/ (k \in DOMAIN queue /\ queue'[k] = queue[k])
  <2>1. queue \in Seq(Targets) /\ Len(queue) <= MaxJobs /\ queue' = Append(queue, c)
    BY <1>1, <1>3 DEF CheckInv, CheckTypes
  <2>. QED BY <1>2, <2>1, CheckFacts
<1>5. TargetsSound'
  BY <1>1, <1>2, <1>3, <1>4 DEF CheckInv, TargetsSound, Known
<1>. QED BY <1>2, <1>4, <1>5 DEF CheckInv, CheckTypes, SnapshotSound, FileSound, Escaped, Tip

LEMMA ForgetKept ==
  ASSUME CheckInv, Forget
  PROVE  CheckInv'
<1>1. /\ store'.log = <<>> /\ store' \in StoreTypes
      /\ work' = work /\ job' = NoJob
  <2>1. <<>> \in Seq(Trees) /\ store.wrote \in 0..MaxWrites
    BY DEF CheckInv, CheckTypes, StoreTypes
  <2>2. store' = [log |-> <<>>, index |-> Absent, excluded |-> {}, wrote |-> store.wrote]
    BY DEF Forget, NoStore
  <2>3. [log |-> <<>>, index |-> Absent, excluded |-> {}, wrote |-> store.wrote] \in StoreTypes
    BY <2>1, CheckFacts DEF StoreTypes
  <2>4. work' = work /\ job' = NoJob
    BY DEF Forget
  <2>. QED BY <2>2, <2>3, <2>4
<1>2. /\ queue' \in Seq(Targets) /\ Len(queue') <= MaxJobs
      /\ \A i \in DOMAIN queue' : queue'[i] \in {NoCommit, Lost}
  <2>1. PICK n \in Nat : n = Len(queue) /\ DOMAIN queue = 1..n
    BY DEF CheckInv, CheckTypes
  <2>2. /\ queue' = [i \in 1..n |-> IF queue[i] = NoCommit THEN NoCommit ELSE Lost]
        /\ n <= MaxJobs
    BY <2>1 DEF Forget, CheckInv, CheckTypes
  <2>. QED BY <2>1, <2>2, CheckFacts
<1>3. CheckTypes'
  BY <1>1, <1>2, CheckFacts DEF CheckInv, CheckTypes
<1>4. TargetsSound'
  BY <1>1, <1>2, CheckFacts DEF TargetsSound, Known
<1>. QED BY <1>1, <1>3, <1>4, CheckFacts DEF CheckInv, SnapshotSound, FileSound

\* git add -A takes every file as it is, but for the excluded ones.
LEMMA StageKept ==
  ASSUME CheckInv, Stage
  PROVE  CheckInv'
<1>1. PICK t \in Trees : t = [f \in Files |->
        IF store.index[f] # 0 \/ f \notin store.excluded THEN work[f] ELSE 0]
  BY CheckFacts DEF CheckInv, CheckTypes, Trees
<1>2. /\ store' \in StoreTypes /\ store'.log = store.log /\ store'.excluded = store.excluded
      /\ store'.index = t /\ work' = work
      /\ \A f \in Files : t[f] = work[f] \/ f \in store.excluded
  <2>1. store \in StoreTypes /\ store' = [store EXCEPT !.index = t]
    BY <1>1 DEF Stage, CheckInv, CheckTypes
  <2>2. \A f \in Files : t[f] = work[f] \/ f \in store.excluded
    BY <1>1
  <2>. QED BY <2>1, <2>2 DEF StoreTypes, Stage
<1>3. PICK n \in Nat : n = Len(queue) /\ DOMAIN queue = 1..n /\ n # 0 /\ n <= MaxJobs
                       /\ queue \in Seq(Targets)
  BY DEF CheckInv, CheckTypes, Stage
<1>4. PICK c \in Targets : c = Head(queue) /\ c = queue[1]
  BY <1>3
<1>5. /\ queue' \in Seq(Targets) /\ Len(queue') <= MaxJobs
      /\ \A i \in DOMAIN queue' : i + 1 \in DOMAIN queue /\ queue'[i] = queue[i + 1]
  BY <1>3, CheckFacts DEF Stage
<1>6. /\ job' \in JobTypes /\ job'.pc = "staged" /\ job'.target = c
  <2>1. job' = [pc |-> "staged", target |-> c, added |-> {}, touched |-> {},
                  missed |-> {}]
    BY <1>4 DEF Stage, NoJob
  <2>. QED BY <2>1 DEF JobTypes, CheckPcs
<1>7. CheckTypes'
  BY <1>2, <1>5, <1>6 DEF CheckInv, CheckTypes
<1>8. TargetsSound'
  BY <1>2, <1>3, <1>4, <1>5, <1>6 DEF CheckInv, TargetsSound, Known
<1>. QED BY <1>2, <1>6, <1>7, <1>8 DEF CheckInv, SnapshotSound, FileSound, Escaped

\* A job that fails at its first command is over, and nothing else happened.
LEMMA StageFailsKept ==
  ASSUME CheckInv, StageFails
  PROVE  CheckInv'
<1>1. PICK n \in Nat : n = Len(queue) /\ DOMAIN queue = 1..n /\ n # 0 /\ n <= MaxJobs
                       /\ queue \in Seq(Targets)
  BY DEF CheckInv, CheckTypes, StageFails
<1>2. /\ queue' \in Seq(Targets) /\ Len(queue') <= MaxJobs
      /\ \A i \in DOMAIN queue' : i + 1 \in DOMAIN queue /\ queue'[i] = queue[i + 1]
  BY <1>1, CheckFacts DEF StageFails
<1>3. work' = work /\ store' = store /\ job' = job /\ job.pc = "none"
  BY DEF StageFails
<1>4. CheckTypes'
  BY <1>2, <1>3 DEF CheckInv, CheckTypes
<1>5. TargetsSound'
  BY <1>2, <1>3 DEF CheckInv, TargetsSound, Known
<1>. QED BY <1>3, <1>4, <1>5 DEF CheckInv, SnapshotSound, FileSound

\* The files too large leave the index and are excluded from now on, or missed.
LEMMA UnstageKept ==
  ASSUME CheckInv, Unstage
  PROVE  CheckInv'
<1>1. PICK gone \in SUBSET Files, hit \in SUBSET Files :
        /\ store' = [store EXCEPT !.excluded = @ \cup hit,
                       !.index = [f \in Files |-> IF f \in gone THEN Tip[f] ELSE @[f]]]
        /\ job' = [job EXCEPT !.pc = "sized", !.missed = @ \cup (gone \ hit)]
  BY DEF Unstage, Staged
<1>2. PICK t \in Trees : t = [f \in Files |-> IF f \in gone THEN Tip[f] ELSE store.index[f]]
  BY TipIs DEF CheckInv, CheckTypes, StoreTypes, Trees
<1>3. /\ store' \in StoreTypes /\ store'.log = store.log
      /\ store'.excluded = store.excluded \cup hit /\ store'.index = t
  <2>1. store \in StoreTypes /\ store' = [store EXCEPT !.excluded = @ \cup hit, !.index = t]
    BY <1>1, <1>2 DEF CheckInv, CheckTypes
  <2>. QED BY <2>1 DEF StoreTypes
<1>4. /\ job' \in JobTypes /\ job.pc = "staged" /\ job'.pc = "sized" /\ job'.target = job.target
      /\ job'.touched = job.touched /\ job'.missed = job.missed \cup (gone \ hit)
      /\ work' = work /\ queue' = queue
  <2>1. job.pc = "staged" /\ work' = work /\ queue' = queue /\ job \in JobTypes
    BY DEF Unstage, CheckInv, CheckTypes
  <2>. QED BY <1>1, <2>1 DEF JobTypes, CheckPcs
<1>5. CheckTypes'
  BY <1>3, <1>4 DEF CheckInv, CheckTypes
<1>6. TargetsSound'
  BY <1>3, <1>4 DEF CheckInv, TargetsSound, Known
<1>7. ASSUME NEW f \in Files \ job'.touched PROVE FileSound(f)'
  BY <1>2, <1>3, <1>4 DEF CheckInv, FileSound, Escaped
<1>. QED BY <1>4, <1>5, <1>6, <1>7 DEF CheckInv, SnapshotSound

\* After the commit, or without one when nothing is staged, the index is the last
\* one; what a failing list hides is missed.
LEMMA CommitKept ==
  ASSUME CheckInv, Commit
  PROVE  CheckInv'
<1>1. work' = work /\ queue' = queue /\ job.pc = "sized" /\ store \in StoreTypes
      /\ store.index \in Trees /\ store.log \in Seq(Trees)
  BY DEF Commit, CheckInv, CheckTypes, StoreTypes
<1>2. CASE job' = NoJob /\ store' = store
  BY <1>1, <1>2, JobOver DEF CheckInv, CheckTypes
<1>4. CASE job' = CommitEnds(Staged(store.index)) /\ store' = store /\ job' # NoJob
  <2>1. Restores /\ job' = [job EXCEPT !.pc = "saved", !.missed = @ \cup Staged(store.index)]
    BY <1>4 DEF CommitEnds
  <2>2. Staged(store.index) \in SUBSET Files
    BY DEF Staged
  <2>3. /\ job' \in JobTypes /\ job'.pc = "saved" /\ job'.target = job.target
        /\ job'.touched = job.touched /\ job.target # NoCommit
        /\ job'.missed = job.missed \cup Staged(store.index)
    <3>1. job \in JobTypes
      BY DEF CheckInv, CheckTypes
    <3>. QED BY <2>1, <2>2, <3>1 DEF JobTypes, CheckPcs, Restores
  <2>4. Tip' = Tip
    BY <1>4 DEF Tip
  <2>5. CheckTypes'
    BY <1>1, <1>4, <2>3 DEF CheckInv, CheckTypes
  <2>6. TargetsSound'
    BY <1>1, <1>4, <2>3 DEF CheckInv, TargetsSound, Known
  <2>7. ASSUME NEW f \in Files \ job'.touched PROVE FileSound(f)'
    <3>1. store.index[f] = work[f] \/ f \in Escaped
      BY <1>1, <2>3, <2>7 DEF CheckInv, FileSound
    <3>2. store.index[f] = Tip[f] \/ f \in Staged(store.index)
      BY DEF Staged
    <3>. QED BY <1>1, <1>4, <2>3, <2>4, <3>1, <3>2 DEF FileSound, Escaped
  <2>. QED BY <2>3, <2>5, <2>6, <2>7 DEF CheckInv, SnapshotSound
<1>3. CASE /\ job' = CommitEnds({})
           /\ \/ Staged(store.index) = {} /\ store' = store
              \/ Len(store.log) < MaxLog /\ store' = [store EXCEPT !.log = Append(@, store.index)]
  <2>1. /\ store' \in StoreTypes /\ store'.index = store.index
        /\ store'.excluded = store.excluded /\ Len(store'.log) <= MaxLog
        /\ \A i \in DOMAIN store.log : i \in DOMAIN store'.log /\ store'.log[i] = store.log[i]
        /\ Tip' = store.index
    <3>1. CASE Staged(store.index) = {} /\ store' = store
      <4>1. Tip' = Tip
        BY <3>1 DEF Tip
      <4>2. Tip \in Trees /\ \A f \in Files : store.index[f] = Tip[f]
        BY <3>1, TipIs DEF CheckInv, Staged
      <4>3. Tip = store.index
        BY <1>1, <4>2 DEF Trees
      <4>. QED BY <3>1, <4>1, <4>3 DEF CheckInv, CheckTypes
    <3>2. CASE Len(store.log) < MaxLog /\ store' = [store EXCEPT !.log = Append(@, store.index)]
      <4>1. PICK n \in Nat : n = Len(store.log) /\ DOMAIN store.log = 1..n
        BY <1>1
      <4>0. Append(store.log, store.index) \in Seq(Trees)
        BY <1>1, AppendProperties
      <4>2. PICK g \in Seq(Trees) : g = Append(store.log, store.index)
        BY <4>0
      <4>3. /\ Len(g) = n + 1 /\ DOMAIN g = 1..n + 1 /\ g[n + 1] = store.index /\ g # <<>>
            /\ \A i \in 1..n : g[i] = store.log[i]
        BY <1>1, <4>1, <4>2
      <4>4. store' = [store EXCEPT !.log = g]
        BY <3>2, <4>2
      <4>5. store'.log = g /\ store' \in StoreTypes /\ store'.index = store.index
            /\ store'.excluded = store.excluded
        BY <1>1, <4>4 DEF StoreTypes
      <4>6. Tip' = g[Len(g)]
        BY <4>3, <4>5 DEF Tip
      <4>. QED BY <3>2, <4>1, <4>3, <4>5, <4>6, CheckFacts
    <3>. QED BY <1>3, <3>1, <3>2
  <2>2. ASSUME NEW c, Known(c, store.log) PROVE Known(c, store'.log)
    BY <2>1, <2>2 DEF Known
  <2>3. CASE ~Restores
    <3>1. job' = NoJob
      BY <1>3, <2>3 DEF CommitEnds
    <3>2. CheckTypes'
      BY <1>1, <2>1, <3>1, CheckFacts DEF CheckInv, CheckTypes
    <3>3. TargetsSound'
      <4>1. \A i \in DOMAIN queue : Known(queue[i], store'.log)
        BY <2>2 DEF CheckInv, TargetsSound
      <4>. QED BY <1>1, <3>1, <4>1, CheckFacts DEF TargetsSound, Known
    <3>. QED BY <3>1, <3>2, <3>3, CheckFacts DEF CheckInv, SnapshotSound, FileSound
  <2>4. CASE Restores
    <3>1. /\ job' \in JobTypes /\ job'.pc = "saved" /\ job'.target = job.target
          /\ job'.touched = job.touched /\ job.target # NoCommit /\ job'.missed = job.missed
      BY <1>3, <2>4 DEF CommitEnds, Restores, CheckInv, CheckTypes, JobTypes, CheckPcs
    <3>2. CheckTypes'
      BY <1>1, <2>1, <3>1 DEF CheckInv, CheckTypes
    <3>3. TargetsSound'
      <4>1. Known(job.target, store.log) /\ \A i \in DOMAIN queue : Known(queue[i], store.log)
        BY DEF CheckInv, TargetsSound
      <4>2. /\ Known(job.target, store'.log)
            /\ \A i \in DOMAIN queue : Known(queue[i], store'.log)
        BY <2>2, <4>1
      <4>. QED BY <1>1, <3>1, <4>2 DEF TargetsSound
    <3>4. SnapshotSound'
      BY <2>1, <3>1 DEF SnapshotSound
    <3>. QED BY <1>1, <2>1, <3>1, <3>2, <3>3, <3>4 DEF CheckInv, FileSound, Escaped
  <2>. QED BY <2>3, <2>4
<1>. QED BY <1>2, <1>3, <1>4 DEF Commit

\* A restore that found its commit: what the snapshot has and the commit has not.
LEMMA FindAddedKept ==
  ASSUME CheckInv, FindAdded
  PROVE  CheckInv'
<1>1. job.pc = "saved" /\ work' = work /\ store' = store /\ queue' = queue /\ job \in JobTypes
  BY DEF FindAdded, CheckInv, CheckTypes
<1>2. CASE job.target = Lost
  BY <1>1, <1>2, JobOver DEF FindAdded, CheckInv, CheckTypes
<1>3. CASE job.target # Lost
  <2>1. PICK since \in SUBSET Files, named \in SUBSET Files :
          /\ named \subseteq since /\ since = {f \in Files : Tip[f] # 0 /\ job.target[f] = 0}
          /\ job' = [job EXCEPT !.pc = "found", !.added = named, !.missed = @ \cup (since \ named)]
    BY <1>3 DEF FindAdded
  <2>2. /\ job' \in JobTypes /\ job'.pc = "found" /\ job'.target = job.target
        /\ job'.touched = job.touched /\ job'.added = named
        /\ job'.missed = job.missed \cup (since \ named)
    <3>1. named \in SUBSET Files /\ since \ named \in SUBSET Files
      BY <2>1
    <3>. QED BY <1>1, <2>1, <3>1 DEF JobTypes, CheckPcs
  <2>3. Tip' = Tip
    BY <1>1 DEF Tip
  <2>4. CheckTypes'
    BY <1>1, <2>2 DEF CheckInv, CheckTypes
  <2>5. TargetsSound'
    BY <1>1, <1>3, <2>2 DEF CheckInv, TargetsSound, Known
  <2>6. SnapshotSound'
    BY <1>1, <2>1, <2>2, <2>3 DEF CheckInv, SnapshotSound
  <2>7. ASSUME NEW f \in Files \ job'.touched PROVE FileSound(f)'
    BY <1>1, <2>2, <2>3, <2>7 DEF CheckInv, FileSound, Escaped
  <2>. QED BY <2>4, <2>5, <2>6, <2>7 DEF CheckInv
<1>. QED BY <1>2, <1>3

\* The commit of a restore that was found is one of the log.
LEMMA TargetLogged ==
  ASSUME CheckInv, job.pc \in {"found", "checked", "restored"}
  PROVE  job.target \in Trees /\ \E i \in DOMAIN store.log : job.target = store.log[i]
<1>1. \E i \in DOMAIN store.log : job.target = store.log[i]
  BY DEF CheckInv, TargetsSound, Known
<1>. QED BY <1>1 DEF CheckInv, CheckTypes, StoreTypes

\* git checkout brings back every file the commit has.
LEMMA CheckoutKept ==
  ASSUME CheckInv, Checkout
  PROVE  CheckInv'
<1>1. /\ job.pc = "found" /\ queue' = queue /\ work' = Merge(work)
      /\ store' = [store EXCEPT !.index = Merge(@)] /\ job' = [job EXCEPT !.pc = "checked"]
      /\ job.target \in Trees
  BY TargetLogged DEF Checkout
<1>2. ASSUME NEW t \in Trees
      PROVE  Merge(t) \in Trees
             /\ \A f \in Files : Merge(t)[f] = IF job.target[f] # 0 THEN job.target[f] ELSE t[f]
  BY <1>1 DEF Merge, Trees
<1>3. /\ store' \in StoreTypes /\ store'.log = store.log /\ store'.excluded = store.excluded
  <2>1. store.index \in Trees /\ store \in StoreTypes
    BY DEF CheckInv, CheckTypes, StoreTypes
  <2>2. Merge(store.index) \in Trees
    BY <1>2, <2>1
  <2>3. store' = [store EXCEPT !.index = Merge(store.index)]
    BY <1>1
  <2>. QED BY <2>1, <2>2, <2>3 DEF StoreTypes
<1>4. /\ work' \in Trees
      /\ \A f \in Files : work'[f] = IF job.target[f] # 0 THEN job.target[f] ELSE work[f]
  BY <1>1, <1>2 DEF CheckInv, CheckTypes
<1>5. /\ job' \in JobTypes /\ job'.pc = "checked" /\ job'.target = job.target
      /\ job'.touched = job.touched /\ job'.added = job.added /\ job'.missed = job.missed
  BY <1>1 DEF CheckInv, CheckTypes, JobTypes, CheckPcs
<1>6. Tip' = Tip
  BY <1>3 DEF Tip
<1>7. CheckTypes'
  BY <1>1, <1>3, <1>4, <1>5 DEF CheckInv, CheckTypes
<1>8. TargetsSound'
  BY <1>1, <1>3, <1>5 DEF CheckInv, TargetsSound, Known
<1>9. SnapshotSound'
  BY <1>1, <1>5, <1>6 DEF CheckInv, SnapshotSound
<1>10. ASSUME NEW f \in Files \ job'.touched PROVE FileSound(f)'
  <2>1. FileSound(f)
    BY <1>1, <1>5, <1>10 DEF CheckInv
  <2>2. IF job.target[f] # 0 THEN work'[f] = job.target[f]
        ELSE work'[f] = Tip[f] \/ f \in Escaped
    BY <1>1, <1>4, <1>10, <2>1 DEF FileSound
  <2>. QED BY <1>3, <1>5, <1>6, <2>2 DEF FileSound, Escaped
<1>. QED BY <1>7, <1>8, <1>9, <1>10 DEF CheckInv

\* A checkout that fails leaves the folder somewhere between, and the log alone.
LEMMA CheckoutFailsKept ==
  ASSUME CheckInv, CheckoutFails
  PROVE  CheckInv'
<1>1. PICK written \in SUBSET Files, index \in {store.index, Merge(store.index)} :
        /\ work' = [f \in Files |-> IF f \in written THEN Merge(work)[f] ELSE work[f]]
        /\ store' = [store EXCEPT !.index = index]
  BY DEF CheckoutFails
<1>2. job' = NoJob /\ queue' = queue /\ job.target \in Trees
  BY TargetLogged DEF CheckoutFails
<1>3. ASSUME NEW t \in Trees PROVE Merge(t) \in Trees
  BY <1>2 DEF Merge, Trees
<1>4. store \in StoreTypes /\ store.index \in Trees /\ work \in Trees
  BY DEF CheckInv, CheckTypes, StoreTypes
<1>5. index \in Trees /\ Merge(work) \in Trees
  BY <1>3, <1>4
<1>6. work' \in Trees
  BY <1>1, <1>4, <1>5 DEF Trees
<1>7. store' \in StoreTypes /\ store'.log = store.log
  BY <1>1, <1>4, <1>5 DEF StoreTypes
<1>. QED BY <1>2, <1>6, <1>7, JobOver

\* What the snapshot has and the commit has not is removed.
LEMMA RemoveAddedKept ==
  ASSUME CheckInv, RemoveAdded
  PROVE  CheckInv'
<1>1. /\ job.pc = "checked" /\ queue' = queue /\ store' = store
  BY DEF RemoveAdded
<1>7. PICK removed \in SUBSET job.added :
        /\ job' = [job EXCEPT !.pc = "restored", !.missed = @ \cup (job.added \ removed)]
        /\ work' = [f \in Files |-> IF f \in removed THEN 0 ELSE work[f]]
  BY DEF RemoveAdded
<1>2. /\ job' \in JobTypes /\ job'.pc = "restored" /\ job'.target = job.target
      /\ job'.touched = job.touched /\ job'.missed = job.missed \cup (job.added \ removed)
  BY <1>1, <1>7 DEF CheckInv, CheckTypes, JobTypes, CheckPcs
<1>3. work' \in Trees
  BY <1>7, CheckFacts DEF CheckInv, CheckTypes, Trees
<1>4. CheckTypes'
  BY <1>1, <1>2, <1>3 DEF CheckInv, CheckTypes
<1>5. TargetsSound'
  BY <1>1, <1>2 DEF CheckInv, TargetsSound, Known
<1>6. ASSUME NEW f \in Files \ job'.touched PROVE FileSound(f)'
  <2>1. /\ FileSound(f)
        /\ f \in job.added => job.target[f] = 0
        /\ Tip[f] # 0 /\ job.target[f] = 0 => f \in job.added \cup job.missed
    BY <1>1, <1>2, <1>6 DEF CheckInv, SnapshotSound
  <2>2. work'[f] = IF f \in removed THEN 0 ELSE work[f]
    BY <1>7
  <2>3. work'[f] = job.target[f] \/ (job.target[f] = 0 /\ f \in store.excluded \cup job'.missed)
    <3>1. CASE f \in job.added
      BY <1>2, <2>1, <2>2, <3>1
    <3>2. CASE f \notin job.added /\ job.target[f] # 0
      BY <1>1, <1>7, <2>1, <2>2, <3>2 DEF FileSound
    <3>3. CASE f \notin job.added /\ job.target[f] = 0
      <4>1. work'[f] = work[f] /\ (Tip[f] = 0 \/ f \in job.missed)
        BY <1>7, <2>1, <2>2, <3>3
      <4>2. work[f] = Tip[f] \/ f \in Escaped
        BY <1>1, <2>1, <3>3 DEF FileSound
      <4>. QED BY <1>2, <3>3, <4>1, <4>2 DEF Escaped
    <3>. QED BY <3>1, <3>2, <3>3
  <2>. QED BY <1>1, <1>2, <2>3 DEF FileSound, Escaped
<1>. QED BY <1>2, <1>4, <1>5, <1>6 DEF CheckInv, SnapshotSound

LEMMA CheckInvStep == CheckInv /\ [CheckNext]_checkVars => CheckInv'
<1> SUFFICES ASSUME CheckInv, [CheckNext]_checkVars PROVE CheckInv'
  OBVIOUS
<1>1. ASSUME NEW f \in Files, ToolWrites(f) \/ OtherWrites(f) PROVE CheckInv'
  BY <1>1, WriteKept DEF ToolWrites, OtherWrites
<1>2. CASE RestoreEnds
  BY <1>2, JobOver DEF RestoreEnds, CheckInv, CheckTypes
<1>3. CASE UNCHANGED checkVars
  BY <1>3 DEF checkVars, CheckInv, CheckTypes, TargetsSound, SnapshotSound, FileSound,
                Escaped, Tip
<1>. QED
  BY <1>1, <1>2, <1>3, AskRestoreKept, ForgetKept, StageKept, StageFailsKept, UnstageKept,
     CommitKept, FindAddedKept, CheckoutKept, CheckoutFailsKept, RemoveAddedKept DEF CheckNext

\* The inductive invariant of the checkpoints: how far the running job has brought
\* the index and every file that nobody else wrote, but for what is excluded and
\* what a swallowed failure left out, and that what is asked for is in the log.
THEOREM CheckInvHolds == CheckSpec => []CheckInv
BY CheckInvInit, CheckInvStep, PTL DEF CheckSpec

\* The folder, the store, the queue of jobs and the running job keep their types.
THEOREM CheckTyped == CheckSpec => []CheckTypeOK
<1>1. CheckInv => CheckTypeOK
  BY DEF CheckInv, CheckTypes, CheckTypeOK, Trees, Versions, StoreTypes, JobTypes, CheckPcs
<1>. QED BY <1>1, CheckInvHolds, PTL

\* A file that a restore overwrites or removes is in the log as it was.
LEMMA UndoableStep ==
  ASSUME CheckInv, CheckInv', [CheckNext]_checkVars, job.pc \in {"found", "checked"},
         NEW f \in Files \ (job.touched \cup store.excluded \cup job.missed)
  PROVE  \/ work[f] = 0 \/ work'[f] = work[f] \/ f \in job'.touched
         \/ \E i \in DOMAIN store.log : store.log[i][f] = work[f]
<1>1. FileSound(f) /\ SnapshotSound
  BY DEF CheckInv
<1>2. Tip[f] = 0 \/ \E i \in DOMAIN store.log : store.log[i][f] = Tip[f]
  BY TipIs DEF CheckInv
<1>3. \E i \in DOMAIN store.log : store.log[i][f] = job.target[f]
  BY TargetLogged
<1>4. CASE Checkout
  BY <1>1, <1>2, <1>4 DEF Checkout, FileSound, Escaped
<1>8. CASE CheckoutFails
  BY <1>1, <1>2, <1>8 DEF CheckoutFails, FileSound, Escaped
<1>5. CASE RemoveAdded
  <2>1. PICK removed \in SUBSET job.added :
          work' = [d \in Files |-> IF d \in removed THEN 0 ELSE work[d]]
    BY <1>5 DEF RemoveAdded
  <2>2. f \in job.added => job.target[f] = 0
    BY <1>1 DEF SnapshotSound
  <2>3. CASE f \in removed
    BY <1>1, <1>2, <1>5, <2>1, <2>2, <2>3 DEF RemoveAdded, FileSound, Escaped
  <2>4. CASE f \notin removed
    BY <2>1, <2>4 DEF CheckInv, CheckTypes, Trees
  <2>. QED BY <2>3, <2>4
<1>6. ASSUME NEW d \in Files, ToolWrites(d) \/ OtherWrites(d)
      PROVE  work'[f] = work[f] \/ f \in job'.touched
  <2>1. Writes(d)
    BY <1>6 DEF ToolWrites, OtherWrites
  <2>2. job'.touched = job.touched \cup {d}
    BY <2>1 DEF Writes, CheckInv, CheckTypes, JobTypes
  <2>3. d # f => work'[f] = work[f]
    BY <2>1 DEF Writes, CheckInv, CheckTypes, Trees
  <2>. QED BY <2>2, <2>3
<1>7. CASE AskRestore \/ Forget \/ Stage \/ StageFails \/ Unstage \/ Commit \/ FindAdded
           \/ RestoreEnds \/ UNCHANGED checkVars
  BY <1>7 DEF AskRestore, Forget, Stage, StageFails, Unstage, Commit, FindAdded, RestoreEnds, checkVars
<1>. QED BY <1>4, <1>5, <1>6, <1>7, <1>8 DEF CheckNext

\* A restore makes the folder that of the commit, and what it overwrites or removes
\* is in a commit; but for excluded files and what a swallowed failure left out
\* (doCommit, restore).  For every number of files, writes, commits and jobs,
\* whichever git commands fail and however the writes of tools and the user fall
\* between them.
THEOREM RestoresAreUndoable == CheckSpec => RestoreIsExactAndUndoable
<1> DEFINE Step ==
      /\ job'.pc = "restored" =>
           \A f \in Files \ job'.touched :
             \/ work'[f] = job'.target[f]
             \/ job'.target[f] = 0 /\ f \in store'.excluded \cup job'.missed
      /\ job.pc \in {"found", "checked"} =>
           \A f \in Files \ (job.touched \cup store.excluded \cup job.missed) :
             \/ work[f] = 0 \/ work'[f] = work[f] \/ f \in job'.touched
             \/ \E i \in DOMAIN store.log : store.log[i][f] = work[f]
<1>1. CheckInv /\ CheckInv' /\ [CheckNext]_checkVars => Step
  <2> SUFFICES ASSUME CheckInv, CheckInv', [CheckNext]_checkVars PROVE Step
    OBVIOUS
  <2>1. job'.pc = "restored" =>
          \A f \in Files \ job'.touched :
            \/ work'[f] = job'.target[f]
            \/ job'.target[f] = 0 /\ f \in store'.excluded \cup job'.missed
    BY DEF CheckInv, FileSound, Escaped
  <2>. QED BY <2>1, UndoableStep
<1>2. Step => [Step]_checkVars
  OBVIOUS
<1>. QED BY <1>1, CheckInvHolds, PTL DEF CheckSpec, RestoreIsExactAndUndoable, Step
=============================================================================
