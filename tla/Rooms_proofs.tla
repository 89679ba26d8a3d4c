---------------------------- MODULE Rooms_proofs ----------------------------
(***************************************************************************)
(* Safety of Rooms for any rooms, surfaces and bounds: the types, the five *)
(* invariants that the runs check, and that the shared agent loop is, to   *)
(* its users, a conversation per room (PrivateRooms).                      *)
(*                                                                         *)
(* Every action of Rooms is put together from a few operators on the       *)
(* record m.  What each of them keeps is a lemma about one record or two;  *)
(* the inductive invariant and the refinement are then a matter of citing  *)
(* them action by action.                                                  *)
(***************************************************************************)
EXTENDS Rooms, FiniteSetTheorems, WellFoundedInduction, TLAPS

-----------------------------------------------------------------------------
(* Types of the records. *)

Session == [id : Sessions, tag : Rooms, turns : SUBSET Turns]
File    == [tag : Rooms \cup {NoRoom}, turns : SUBSET Turns]
Manager == [current : Rooms, active : [Rooms -> Sessions \cup {NoSession}],
            agent : Session, disk : [Sessions -> File],
            age : [Sessions -> Sessions], fresh : 1..Cardinality(Sessions) + 1]
Config  == [bind : [Surfaces -> Rooms], auto : SUBSET Rooms]
JobType == [n : Turns, by : Surfaces, room : Rooms \cup {NoRoom},
            kind : {"say", "clear", "look", "move", "resume"}]
RunType == [phase : {"idle", "run", "deliver"}, n : Turns \cup {0},
            room : Rooms \cup {NoRoom}, resting : Rooms \cup {NoRoom}]
History == [owner : [Turns -> SUBSET Rooms], done : SUBSET Turns,
            cleared : SUBSET Turns, started : 0..MaxJobs, strayed : BOOLEAN,
            split : SUBSET Rooms, resumed : Sessions \cup {NoSession},
            event : [what : {"start", "restart", "adopt", "say", "clear", "visit",
                              "resume"},
                     room : Rooms \cup {NoRoom}, by : Turns \cup {0}]]
Bounds  == [jobs : 0..MaxJobs, toggles : Nat, restarts : 0..MaxRestarts,
            ioErrors : Nat]

Types ==
  /\ host \in Surfaces /\ cfg \in Config /\ cfgFile \in Config
  /\ m \in Manager /\ queue \in Seq(JobType) /\ run \in RunType
  /\ owed \in BOOLEAN /\ direct = 0 /\ used \in Bounds /\ h \in History

-----------------------------------------------------------------------------
(* The inductive invariant, part by part. *)

\* No two sessions have the same rank, and of any sessions one is the newest.
RanksSound(age) ==
  /\ \A s, t \in Sessions : age[s] = age[t] => s = t
  /\ \A S \in SUBSET Sessions :
       S # {} => \E s \in S : \A t \in S : age[s] <= age[t]

\* The files: every file is of a room that owns its turns; session ids that were
\* not given out yet have none.
FilesSound(disk, age, fresh, owner) ==
  /\ \A s \in Sessions :
       /\ disk[s] = NoFile \/ disk[s].tag \in Rooms
       /\ s >= fresh => disk[s] = NoFile
       /\ \A n \in disk[s].turns : disk[s].tag \in owner[n]
  /\ RanksSound(age)

\* RoomManager: the loaded session is that of the current room and extends its
\* file; the room that is left has its session in a file of its own.
ManagerSound(x, owner, cleared) ==
  /\ FilesSound(x.disk, x.age, x.fresh, owner)
  /\ x.agent.tag = x.current /\ x.active[x.current] = x.agent.id
  /\ x.agent.id < x.fresh
  /\ \A n \in x.agent.turns : x.agent.tag \in owner[n]
  /\ x.disk[x.agent.id].turns \subseteq x.agent.turns \cup cleared
  /\ \A r \in Rooms \ {x.current} :
       x.active[r] # NoSession =>
         x.disk[x.active[r]].tag = r /\ x.active[r] # x.agent.id

\* The file of the loaded session, if there is one, is of the same room.  Not so
\* in the process of a bot that was started with the session of another room,
\* until its first save.
Settled(x) == x.disk[x.agent.id].tag \in {NoRoom, x.agent.tag}

\* Every session given out is charged to an earlier process, a room each, or to a
\* room that this process has opened.
Open(x) == {r \in Rooms : x.active[r] # NoSession}
Charged(x, restarts) == x.fresh <= restarts * Cardinality(Rooms) + Cardinality(Open(x)) + 1

\* The sessions of a room, in files or loaded, are one session.
Single(x, r) ==
  \A s \in Sessions :
    x.disk[s].tag = r =>
      /\ x.agent.tag = r => s = x.agent.id
      /\ \A t \in Sessions : x.disk[t].tag = r => s = t

SplitSound(x, split, auto) == \A r \in Rooms \ split : r \in auto /\ Single(x, r)

\* The job in progress, and the room that it has to bring back.
RunSound ==
  /\ run.phase # "idle" => queue # <<>>
  /\ run.phase = "run" =>
       /\ Job.n = run.n /\ m.current = run.room
       /\ run.n \in m.agent.turns
       /\ run.room \in Rooms /\ run.resting \in Open(m)

\* Jobs are numbered in the order of arrival, those that have not started above
\* the last that has.  Jobs of the REPL are there in a process with a REPL only;
\* what moves or resumes a room is a job of the REPL and names it.
QueueSound(q, hst, jobs, started, idle) ==
  /\ q \in Seq(JobType) /\ started <= jobs
  /\ \A i, j \in 1..Len(q) : i < j => q[i].n < q[j].n
  /\ \A i \in 1..Len(q) :
       /\ q[i].n <= jobs /\ (i > 1 \/ idle => q[i].n > started)
       /\ q[i].by = "repl" => hst = "repl"
       /\ q[i].kind \in {"move", "resume"} => q[i].by = "repl" /\ q[i].room \in Rooms

\* A turn has an owner only once its job has started.
OwnersSound(owner, started) == \A n \in Turns : n > started => owner[n] = {}

\* What is done is in a file of its room.
DoneSound(x, hist) ==
  \A n \in hist.done \ hist.cleared :
    \E s \in Sessions : x.disk[s].tag \in hist.owner[n] /\ n \in x.disk[s].turns

\* Where the agent rests, or is going to rest after the run.
RestSound ==
  LET resting == IF run.phase = "run" THEN run.resting ELSE m.current
  IN  resting # Home(cfg, host) => h.strayed

RoomsInv ==
  /\ Types
  /\ QueueSound(queue, host, used.jobs, h.started, run.phase = "idle")
  /\ OwnersSound(h.owner, h.started)
  /\ ManagerSound(m, h.owner, h.cleared) /\ Charged(m, used.restarts)
  /\ host = "repl" => Settled(m)
  /\ SplitSound(m, h.split, cfg.auto \cap cfgFile.auto)
  /\ RunSound /\ RestSound /\ DoneSound(m, h)

-----------------------------------------------------------------------------
(* Constants, ranks and files. *)

LEMMA ConstantFacts ==
  /\ Cardinality(Rooms) \in Nat /\ Cardinality(Rooms) >= 1
  /\ Cardinality(Sessions) = (MaxRestarts + 1) * Cardinality(Rooms)
  /\ Cardinality(Sessions) \in Nat
  /\ Sessions = 1..Cardinality(Sessions)
  /\ NoSession \notin Sessions /\ NoSession = 0
<1> DEFINE C == Cardinality(Rooms)
<1>1. C \in Nat
  BY RoomsConstants, FS_CardinalityType
<1>2. Rooms # {}
  BY RoomsConstants DEF Surfaces
<1>3. C # 0
  BY <1>2, RoomsConstants, FS_EmptySet
<1>4. (MaxRestarts + 1) * C \in Nat
  BY <1>1, RoomsConstants
<1> DEFINE N == (MaxRestarts + 1) * C
<1>5. Sessions = 1..N
  BY DEF Sessions
<1> HIDE DEF N
<1>6. Cardinality(1..N) = N
  BY <1>4, FS_Interval DEF N
<1>7. QED
  BY <1>1, <1>3, <1>4, <1>5, <1>6 DEF N, NoSession

\* A save leaves ranks ranks: the saved file is the newest, the others keep their
\* order.
LEMMA RanksKept ==
  ASSUME NEW age \in [Sessions -> Sessions], NEW s \in Sessions, RanksSound(age)
  PROVE  Newest(age, s) \in [Sessions -> Sessions] /\ RanksSound(Newest(age, s))
<1> DEFINE N == Cardinality(Sessions)
           new == Newest(age, s)
<1>1. N \in Nat /\ Sessions = 1..N
  BY ConstantFacts
<1> HIDE DEF N
<1>2. \A t \in Sessions :
        new[t] = IF t = s THEN 1 ELSE IF age[t] < age[s] THEN age[t] + 1 ELSE age[t]
  BY DEF Newest
<1>3. \A t \in Sessions : age[t] \in 1..N
  BY <1>1
<1>4. \A t \in Sessions : new[t] \in 1..N /\ (t # s => new[t] > 1)
  <2>1. SUFFICES ASSUME NEW t \in Sessions PROVE new[t] \in 1..N /\ (t # s => new[t] > 1)
    OBVIOUS
  <2>2. age[t] \in 1..N /\ age[s] \in 1..N /\ (t # s => age[t] # age[s])
    BY <1>3 DEF RanksSound
  <2>3. QED
    BY <1>1, <1>2, <2>2
<1>5. new \in [Sessions -> Sessions]
  BY <1>1, <1>4 DEF Newest
<1>6. \A t, u \in Sessions : age[t] <= age[u] /\ t # s /\ u # s => new[t] <= new[u]
  BY <1>2, <1>3
<1>7. \A t, u \in Sessions : new[t] = new[u] => t = u
  BY <1>2, <1>3, <1>4 DEF RanksSound
<1>8. ASSUME NEW S \in SUBSET Sessions, S # {}
      PROVE  \E t \in S : \A u \in S : new[t] <= new[u]
  <2>1. CASE s \in S
    <3>1. \A u \in S : new[s] <= new[u]
      BY <1>1, <1>2, <1>4
    <3>2. QED
      BY <3>1, <2>1
  <2>2. CASE s \notin S
    <3>1. PICK t \in S : \A u \in S : age[t] <= age[u]
      BY <1>8 DEF RanksSound
    <3>2. \A u \in S : new[t] <= new[u]
      BY <3>1, <2>2, <1>6
    <3>3. QED
      BY <3>2
  <2>3. QED
    BY <2>1, <2>2
<1>9. QED
  BY <1>5, <1>7, <1>8 DEF RanksSound

\* The latest session of a room: a file of that room, and none only if there is
\* none.
LEMMA LatestFound ==
  ASSUME NEW disk \in [Sessions -> File], NEW age, NEW fresh, NEW owner,
         FilesSound(disk, age, fresh, owner),
         NEW x, x.disk = disk, x.age = age, NEW r \in Rooms
  PROVE  /\ LatestOf(x, r) \in Sessions \cup {NoSession}
         /\ LatestOf(x, r) # NoSession => disk[LatestOf(x, r)].tag = r
         /\ LatestOf(x, r) = NoSession => \A s \in Sessions : disk[s].tag # r
<1> DEFINE mine == {s \in Sessions : disk[s].tag = r}
           best == CHOOSE s \in mine : \A t \in mine : age[s] <= age[t]
<1>1. LatestOf(x, r) = IF mine = {} THEN NoSession ELSE best
  BY DEF LatestOf
<1>2. ASSUME mine # {} PROVE best \in mine
  <2>1. \E s \in mine : \A t \in mine : age[s] <= age[t]
    BY <1>2 DEF FilesSound, RanksSound
  <2>2. QED
    BY <2>1
<1>3. NoSession \notin Sessions
  BY ConstantFacts
<1>4. QED
  BY <1>1, <1>2, <1>3

-----------------------------------------------------------------------------
(* Saving and entering a room. *)

\* The conversation of a room, as Conversation has it, of any manager.
Conv(x, r) ==
  IF x.current = r THEN x.agent.turns
  ELSE IF x.active[r] = NoSession THEN {} ELSE x.disk[x.active[r]].turns

\* The turns of a room.
TurnsOf(owner, r) == {n \in Turns : r \in owner[n]}

\* No file loses a turn that nobody has cleared.
Keeps(x, y, cleared) ==
  \A s \in Sessions : x.disk[s].turns \subseteq y.disk[s].turns \cup cleared

\* The conversations of x are those of y, but for a room that y has opened.
SameButOpened(x, y, r) ==
  \A q \in Rooms : q # r \/ q \in Open(x) => Conv(y, q) = Conv(x, q)

SameConvsBut(x, y, r) == \A q \in Rooms \ {r} : Conv(y, q) = Conv(x, q)

SameConvs(x, y) == \A q \in Rooms : Conv(y, q) = Conv(x, q)

SameActive(x, y, r) == \A q \in Rooms \ {r} : y.active[q] = x.active[q]

\* None of these rooms gets a second session, and the loaded session does not
\* become one of a room other than its file's.
Steady(x, y, rooms) ==
  /\ \A q \in Rooms \cap rooms : Single(x, q) => Single(y, q)
  /\ Settled(x) => Settled(y)

\* Every room but r can be left: its session is in a file of its own.
OthersSaved(x, r) ==
  \A q \in Rooms \ {r} : x.active[q] # NoSession => x.disk[x.active[q]].tag = q

AllSaved(x) == \A r \in Rooms : x.active[r] # NoSession => x.disk[x.active[r]].tag = r

LEMMA SavedFields ==
  ASSUME NEW x \in Manager
  PROVE  /\ Saved(x).current = x.current /\ Saved(x).active = x.active
         /\ Saved(x).agent = x.agent /\ Saved(x).fresh = x.fresh
         /\ Saved(x).age = Newest(x.age, x.agent.id)
         /\ Saved(x).disk = [x.disk EXCEPT ![x.agent.id] = [tag |-> x.agent.tag,
                                                           turns |-> x.agent.turns]]
         /\ Newest(x.age, x.agent.id) \in [Sessions -> Sessions] => Saved(x) \in Manager
BY DEF Manager, Saved, Session, File

LEMMA SavedKept ==
  ASSUME NEW x \in Manager, NEW owner, NEW cleared, ManagerSound(x, owner, cleared)
  PROVE  /\ Saved(x) \in Manager /\ ManagerSound(Saved(x), owner, cleared)
         /\ AllSaved(Saved(x)) /\ Keeps(x, Saved(x), cleared)
         /\ SameConvs(x, Saved(x)) /\ Steady(x, Saved(x), Rooms) /\ Settled(Saved(x))
<1> DEFINE y == Saved(x)
           id == x.agent.id
           new == [tag |-> x.agent.tag, turns |-> x.agent.turns]
<1>1. /\ x.current \in Rooms /\ x.active \in [Rooms -> Sessions \cup {NoSession}]
      /\ x.agent \in Session /\ id \in Sessions /\ x.agent.tag \in Rooms
      /\ x.agent.turns \subseteq Turns
      /\ x.disk \in [Sessions -> File] /\ x.age \in [Sessions -> Sessions]
      /\ x.fresh \in 1..Cardinality(Sessions) + 1
  BY DEF Manager, Session
<1>2. Newest(x.age, id) \in [Sessions -> Sessions] /\ RanksSound(Newest(x.age, id))
  BY <1>1, RanksKept DEF ManagerSound, FilesSound
<1>3. /\ y \in Manager /\ y.current = x.current /\ y.active = x.active
      /\ y.agent = x.agent /\ y.fresh = x.fresh /\ y.age = Newest(x.age, id)
      /\ y.disk = [x.disk EXCEPT ![id] = new]
  BY <1>2, SavedFields
<1>4. /\ y.disk[id] = new
      /\ \A s \in Sessions : s # id => y.disk[s] = x.disk[s]
  BY <1>1, <1>3
<1> HIDE DEF y
<1>5. ~(id >= x.fresh)
  BY <1>1, ConstantFacts DEF ManagerSound
<1>6. FilesSound(y.disk, y.age, y.fresh, owner)
  BY <1>1, <1>2, <1>3, <1>4, <1>5 DEF FilesSound, ManagerSound
<1>7. Settled(y)
  BY <1>3, <1>4 DEF Settled
<1>8. AllSaved(y)
  BY <1>1, <1>3, <1>4 DEF AllSaved, ManagerSound
<1>9. ManagerSound(y, owner, cleared)
  BY <1>1, <1>3, <1>4, <1>6, <1>8 DEF ManagerSound, AllSaved
<1>10. Keeps(x, y, cleared)
  BY <1>4 DEF Keeps, ManagerSound
<1>11. ASSUME NEW r \in Rooms PROVE Conv(y, r) = Conv(x, r)
  <2>1. CASE x.current = r
    BY <2>1, <1>3 DEF Conv
  <2>2. CASE x.current # r
    <3>1. x.active[r] # NoSession => x.active[r] # id
      BY <2>2 DEF ManagerSound
    <3>2. QED
      BY <2>2, <3>1, <1>1, <1>3, <1>4 DEF Conv
  <2>3. QED
    BY <2>1, <2>2
<1>12. ASSUME NEW r \in Rooms, Single(x, r) PROVE Single(y, r)
  BY <1>12, <1>3, <1>4 DEF Single
<1>13. QED
  BY <1>3, <1>7, <1>8, <1>9, <1>10, <1>11, <1>12 DEF y, SameConvs, Steady

\* While the current room is sound, saving it as the room's session is a save.
LEMMA SaveAsCurrent ==
  ASSUME NEW x \in Manager, NEW owner, NEW cleared, ManagerSound(x, owner, cleared)
  PROVE  SaveAs(x, x.current) = Saved(x)
<1>1. /\ x.current \in Rooms /\ x.active \in [Rooms -> Sessions \cup {NoSession}]
      /\ x.active[x.current] = x.agent.id
  BY DEF ManagerSound, Manager
<1>2. Saved(x) \in Manager /\ Saved(x).active = x.active
  BY SavedKept, SavedFields
<1>3. QED
  BY <1>1, <1>2 DEF SaveAs, Manager

LEMMA Entered ==
  ASSUME NEW x \in Manager, NEW owner, NEW r \in Rooms, NEW agent,
         FilesSound(x.disk, x.age, x.fresh, owner),
         OthersSaved(x, r),
         \/ agent = Blank(x, r) /\ x.fresh <= Cardinality(Sessions)
         \/ \E s \in Sessions : x.disk[s].tag = r /\ agent = Load(x, s)
         \/ /\ \A q \in Rooms : x.active[q] = NoSession
            /\ \E s \in Sessions : x.disk[s] # NoFile /\ agent = Tagged(Load(x, s), r)
            /\ agent.turns \subseteq TurnsOf(owner, r)
  PROVE  LET y == With(x, r, agent)
         IN  /\ y \in Manager /\ ManagerSound(y, owner, {})
             /\ y.current = r /\ y.disk = x.disk /\ y.agent = agent
             /\ y.active[r] = agent.id
             /\ SameActive(x, y, r)
             /\ agent = Blank(x, r) => y.fresh = x.fresh + 1
             /\ agent # Blank(x, r) => y.fresh = x.fresh
             /\ agent.id # NoSession /\ agent.turns \subseteq TurnsOf(owner, r)
             /\ x.disk[agent.id].tag \in {NoRoom, r} => Settled(y)
<1> DEFINE y == With(x, r, agent)
           N == Cardinality(Sessions)
<1>1. /\ x.current \in Rooms /\ x.active \in [Rooms -> Sessions \cup {NoSession}]
      /\ x.disk \in [Sessions -> File] /\ x.age \in [Sessions -> Sessions]
      /\ x.fresh \in 1..N + 1
  BY DEF Manager
<1>2. N \in Nat /\ Sessions = 1..N /\ NoSession = 0
  BY ConstantFacts
<1> HIDE DEF N
<1>3. /\ agent \in Session /\ agent.tag = r /\ agent.id \in Sessions /\ agent.id <= x.fresh
      /\ \A q \in Rooms \ {r} : x.active[q] # NoSession => x.active[q] # agent.id
      /\ x.disk[agent.id].turns \subseteq agent.turns
      /\ agent.id = x.fresh => agent = Blank(x, r)
      /\ agent = Blank(x, r) => agent.id = x.fresh
      /\ \A n \in agent.turns : r \in owner[n]
  <2>1. CASE agent = Blank(x, r) /\ x.fresh <= N
    <3>1. x.fresh \in Sessions /\ x.disk[x.fresh] = NoFile
      BY <2>1, <1>1, <1>2 DEF FilesSound
    <3>2. x.disk[x.fresh].tag \notin Rooms
      BY <3>1, RoomsConstants DEF NoFile
    <3>3. \A q \in Rooms \ {r} : x.active[q] # NoSession => x.active[q] # x.fresh
      BY <3>2 DEF OthersSaved
    <3>4. QED
      BY <2>1, <3>1, <3>3, <1>1, <1>2 DEF Blank, Session, NoFile
  <2>2. CASE \E s \in Sessions : x.disk[s].tag = r /\ agent = Load(x, s)
    <3>1. PICK s \in Sessions : x.disk[s].tag = r /\ agent = Load(x, s)
      BY <2>2
    <3>2. x.disk[s] # NoFile /\ ~(s >= x.fresh) /\ x.disk[s].turns \subseteq Turns
      BY <3>1, <1>1, RoomsConstants DEF FilesSound, NoFile, File
    <3>3. agent = [id |-> s, tag |-> r, turns |-> x.disk[s].turns]
      BY <3>1 DEF Load
    <3>4. \A n \in x.disk[s].turns : r \in owner[n]
      BY <3>1 DEF FilesSound
    <3>5. s \in Nat /\ x.fresh \in Nat
      BY <1>1, <1>2
    <3>6. \A q \in Rooms \ {r} : x.active[q] # NoSession => x.active[q] # s
      BY <3>1 DEF OthersSaved
    <3>7. QED
      BY <3>1, <3>2, <3>3, <3>4, <3>5, <3>6 DEF Session, Blank
  <2>3. CASE /\ \A q \in Rooms : x.active[q] = NoSession
             /\ \E s \in Sessions : x.disk[s] # NoFile /\ agent = Tagged(Load(x, s), r)
             /\ agent.turns \subseteq TurnsOf(owner, r)
    <3>1. PICK s \in Sessions : x.disk[s] # NoFile /\ agent = Tagged(Load(x, s), r)
      BY <2>3
    <3>2. ~(s >= x.fresh) /\ x.disk[s].turns \subseteq Turns
      BY <3>1, <1>1 DEF FilesSound, File
    <3>3. agent = [id |-> s, tag |-> r, turns |-> x.disk[s].turns]
      BY <3>1 DEF Load, Tagged
    <3>4. \A n \in agent.turns : r \in owner[n]
      BY <2>3 DEF TurnsOf
    <3>5. s \in Nat /\ x.fresh \in Nat
      BY <1>1, <1>2
    <3>6. QED
      BY <2>3, <3>1, <3>2, <3>3, <3>4, <3>5 DEF Session, Blank
  <2>4. QED
    BY <2>1, <2>2, <2>3 DEF N
<1>4. agent.id = x.fresh => x.fresh \in 1..N
  BY <1>2, <1>3
<1>5. /\ y \in Manager /\ y.current = r /\ y.disk = x.disk /\ y.age = x.age
      /\ y.agent = agent /\ y.active = [x.active EXCEPT ![r] = agent.id]
      /\ y.fresh = IF agent.id = x.fresh THEN x.fresh + 1 ELSE x.fresh
  <2>1. (IF agent.id = x.fresh THEN x.fresh + 1 ELSE x.fresh) \in 1..N + 1
    BY <1>1, <1>2, <1>4
  <2>2. QED
    BY <2>1, <1>3 DEF With, Manager, N
<1> HIDE DEF y
<1>6. FilesSound(y.disk, y.age, y.fresh, owner)
  <2>1. \A s \in Sessions : s >= y.fresh => s >= x.fresh
    BY <1>1, <1>2, <1>5
  <2>2. QED
    BY <2>1, <1>5 DEF FilesSound
<1>7. agent.id < y.fresh
  BY <1>1, <1>2, <1>3, <1>5
<1>8. ManagerSound(y, owner, {})
  BY <1>1, <1>3, <1>5, <1>6, <1>7 DEF ManagerSound, OthersSaved
<1>9. y.active[r] = agent.id /\ SameActive(x, y, r)
  BY <1>1, <1>5 DEF SameActive
<1>10. agent.turns \subseteq TurnsOf(owner, r)
  BY <1>3 DEF Session, TurnsOf
<1>11. x.disk[agent.id].tag \in {NoRoom, r} => Settled(y)
  BY <1>3, <1>5 DEF Settled
<1>12. QED
  BY <1>2, <1>3, <1>5, <1>8, <1>9, <1>10, <1>11 DEF y

\* The sessions of this process and of the earlier ones are within Sessions.
LEMMA ChargeBound ==
  ASSUME NEW k \in 0..MaxRestarts
  PROVE  /\ k * Cardinality(Rooms) \in Nat
         /\ (k + 1) * Cardinality(Rooms) = k * Cardinality(Rooms) + Cardinality(Rooms)
         /\ k * Cardinality(Rooms) + Cardinality(Rooms) <= Cardinality(Sessions)
<1> DEFINE C == Cardinality(Rooms)
           R == MaxRestarts
<1>1. C \in Nat /\ Cardinality(Sessions) = (R + 1) * C /\ R \in Nat /\ k \in 0..R
  BY ConstantFacts, RoomsConstants
<1> HIDE DEF C, R
<1>2. k * C \in Nat /\ (k + 1) * C = k * C + C
  BY <1>1
<1>3. (k + 1) * C <= (R + 1) * C
  <2>1. PICK d \in Nat : R + 1 = (k + 1) + d
    <3>1. R - k \in Nat /\ R + 1 = (k + 1) + (R - k)
      BY <1>1
    <3>2. QED
      BY <3>1
  <2>2. ((k + 1) + d) * C = (k + 1) * C + d * C /\ d * C \in Nat /\ (k + 1) * C \in Nat
    BY <1>1
  <2>3. QED
    BY <2>1, <2>2
<1>4. QED
  BY <1>1, <1>2, <1>3 DEF C

LEMMA OpenCount ==
  ASSUME NEW x \in Manager, NEW r \in Rooms
  PROVE  /\ Cardinality(Open(x)) \in Nat
         /\ IsFiniteSet(Open(x))
         /\ Cardinality(Open(x)) <= Cardinality(Rooms)
         /\ r \notin Open(x) =>
              /\ Cardinality(Open(x) \cup {r}) = Cardinality(Open(x)) + 1
              /\ Cardinality(Open(x)) + 1 <= Cardinality(Rooms)
<1>1. IsFiniteSet(Rooms) /\ Open(x) \in SUBSET Rooms /\ Open(x) \cup {r} \in SUBSET Rooms
  BY RoomsConstants DEF Open
<1>2. IsFiniteSet(Open(x)) /\ Cardinality(Open(x)) <= Cardinality(Rooms)
  BY <1>1, FS_Subset
<1>3. Cardinality(Open(x)) \in Nat
  BY <1>2, FS_CardinalityType
<1>4. Cardinality(Open(x) \cup {r}) <= Cardinality(Rooms)
  BY <1>1, FS_Subset
<1>5. r \notin Open(x) => Cardinality(Open(x) \cup {r}) = Cardinality(Open(x)) + 1
  BY <1>2, FS_AddElement
<1>6. QED
  BY <1>2, <1>3, <1>4, <1>5

\* What has been cleared may grow.
LEMMA MoreCleared ==
  ASSUME NEW x, NEW owner, NEW some, NEW more, some \subseteq more,
         ManagerSound(x, owner, some)
  PROVE  ManagerSound(x, owner, more)
BY DEF ManagerSound

\* activateRoom: the room is entered with the session it has, and every other
\* room is left as it is.
LEMMA Activated ==
  ASSUME NEW x \in Manager, NEW owner, NEW cleared, ManagerSound(x, owner, cleared),
         NEW r \in Rooms, NEW k \in 0..MaxRestarts, Charged(x, k)
  PROVE  LET y == Activate(x, r)
         IN  /\ y \in Manager /\ ManagerSound(y, owner, cleared)
             /\ y.current = r /\ Open(y) = Open(x) \cup {r} /\ Charged(y, k)
             /\ Keeps(x, y, cleared)
             /\ SameButOpened(x, y, r) /\ Conv(y, r) \subseteq TurnsOf(owner, r)
             /\ Steady(x, y, cfg.auto)
<1> DEFINE y == Activate(x, r)
<1>1. CASE x.current = r
  <2>1. y = x
    BY <1>1 DEF Activate
  <2>2. x.active[r] = x.agent.id /\ x.agent.id # NoSession /\ x.agent.turns \subseteq Turns
    BY <1>1, ConstantFacts DEF ManagerSound, Manager, Session
  <2>3. r \in Open(x)
    BY <2>2 DEF Open
  <2>4. Keeps(x, x, cleared)
    BY DEF Keeps
  <2>5. Conv(x, r) \subseteq TurnsOf(owner, r)
    BY <1>1, <2>2 DEF Conv, ManagerSound, TurnsOf
  <2>6. QED
    BY <1>1, <2>1, <2>3, <2>4, <2>5 DEF SameButOpened, Steady
<1>2. CASE x.current # r
  <2> DEFINE z == Saved(x)
             agent == Resolve(z, r, cfg.auto)
  <2>1. /\ z \in Manager /\ ManagerSound(z, owner, cleared) /\ AllSaved(z)
        /\ Keeps(x, z, cleared)
        /\ \A q \in Rooms : Conv(z, q) = Conv(x, q)
        /\ \A q \in Rooms : Single(x, q) => Single(z, q)
    BY SavedKept DEF SameConvs, Steady
  <2>2. z.current = x.current /\ z.active = x.active /\ z.fresh = x.fresh /\ z.agent = x.agent
    BY SavedFields
  <2>3. y = With(z, r, agent)
    BY <1>2, SaveAsCurrent DEF Activate
  <2> HIDE DEF y, z
  <2>4. /\ z.active \in [Rooms -> Sessions \cup {NoSession}] /\ z.disk \in [Sessions -> File]
        /\ z.agent.id \in Sessions /\ z.fresh \in Nat
    BY <2>1, ConstantFacts DEF Manager, Session
  <2>5. /\ LatestOf(z, r) \in Sessions \cup {NoSession}
        /\ LatestOf(z, r) # NoSession => z.disk[LatestOf(z, r)].tag = r
        /\ LatestOf(z, r) = NoSession => \A s \in Sessions : z.disk[s].tag # r
    BY <2>1, <2>4, LatestFound DEF ManagerSound
  <2>6. z.active[r] # NoSession => z.disk[z.active[r]].tag = r /\ z.disk[z.active[r]] # NoFile
    BY <2>1, RoomsConstants DEF AllSaved, NoFile
  <2>7. \/ z.active[r] # NoSession /\ agent = Load(z, z.active[r])
        \/ /\ z.active[r] = NoSession /\ r \in cfg.auto /\ LatestOf(z, r) # NoSession
           /\ agent = Load(z, LatestOf(z, r))
        \/ /\ z.active[r] = NoSession /\ agent = Blank(z, r)
           /\ r \in cfg.auto => LatestOf(z, r) = NoSession
    BY <2>6 DEF Resolve
  <2> HIDE DEF agent
  <2>8. /\ Open(z) = Open(x) /\ (z.active[r] = NoSession <=> r \notin Open(z))
    BY <2>2 DEF Open
  <2>9. z.active[r] = NoSession => z.fresh <= Cardinality(Sessions)
    <3>1. Charged(z, k)
      BY <2>2, <2>8 DEF Charged
    <3>2. SUFFICES ASSUME r \notin Open(z) PROVE z.fresh <= Cardinality(Sessions)
      BY <2>8
    <3>3. Cardinality(Open(z)) + 1 <= Cardinality(Rooms) /\ Cardinality(Open(z)) \in Nat
      BY <2>1, <3>2, OpenCount
    <3>4. /\ k * Cardinality(Rooms) \in Nat
          /\ k * Cardinality(Rooms) + Cardinality(Rooms) <= Cardinality(Sessions)
      BY ChargeBound
    <3>5. QED
      BY <2>4, <3>1, <3>3, <3>4, ConstantFacts DEF Charged
  <2>10. /\ y \in Manager /\ ManagerSound(y, owner, cleared)
         /\ y.current = r /\ y.disk = z.disk /\ y.agent = agent
         /\ y.active[r] = agent.id
         /\ SameActive(z, y, r)
         /\ agent = Blank(z, r) => y.fresh = z.fresh + 1
         /\ agent # Blank(z, r) => y.fresh = z.fresh
         /\ agent.id # NoSession /\ agent.turns \subseteq TurnsOf(owner, r)
         /\ Settled(y)
    <3>1. \/ agent = Blank(z, r) /\ z.fresh <= Cardinality(Sessions)
          \/ \E s \in Sessions : z.disk[s].tag = r /\ agent = Load(z, s)
      BY <2>4, <2>5, <2>6, <2>7, <2>9
    <3>2. FilesSound(z.disk, z.age, z.fresh, owner)
      BY <2>1 DEF ManagerSound
    <3>3. OthersSaved(z, r)
      BY <2>1 DEF AllSaved, OthersSaved
    <3>4. PICK a : a = agent
      OBVIOUS
    <3>5. z \in Manager
      BY <2>1
    <3>6. \/ a = Blank(z, r) /\ z.fresh <= Cardinality(Sessions)
          \/ \E s \in Sessions : z.disk[s].tag = r /\ a = Load(z, s)
      BY <3>1, <3>4
    <3>7. LET w == With(z, r, a)
          IN  /\ w \in Manager /\ ManagerSound(w, owner, {})
              /\ w.current = r /\ w.disk = z.disk /\ w.agent = a
              /\ w.active[r] = a.id
              /\ SameActive(z, w, r)
              /\ a = Blank(z, r) => w.fresh = z.fresh + 1
              /\ a # Blank(z, r) => w.fresh = z.fresh
              /\ a.id # NoSession /\ a.turns \subseteq TurnsOf(owner, r)
              /\ z.disk[a.id].tag \in {NoRoom, r} => Settled(w)
      BY <3>2, <3>3, <3>5, <3>6, Entered
    <3>8. z.disk[a.id].tag \in {NoRoom, r}
      <4>1. CASE a = Blank(z, r) /\ z.fresh <= Cardinality(Sessions)
        <5>1. z.fresh \in Sessions
          BY <4>1, <2>1, ConstantFacts DEF Manager
        <5>2. z.disk[z.fresh] = NoFile
          BY <5>1, <2>4, <3>2 DEF FilesSound
        <5>3. QED
          BY <4>1, <5>2 DEF Blank, NoFile
      <4>2. QED
        BY <4>1, <3>6 DEF Load
    <3>9. QED
      BY <2>3, <3>4, <3>7, <3>8, MoreCleared
  <2>11. Open(y) = Open(x) \cup {r}
    BY <2>4, <2>8, <2>10 DEF Open, SameActive
  <2>12. Charged(y, k)
    <3>1. CASE r \in Open(x)
      <4>1. agent = Load(z, z.active[r])
        BY <3>1, <2>7, <2>8
      <4>2. agent # Blank(z, r)
        <5>1. z.disk[z.fresh] = NoFile \/ z.fresh \notin Sessions
          BY <2>1, <2>4 DEF ManagerSound, FilesSound
        <5>2. z.active[r] # z.fresh
          BY <3>1, <5>1, <2>4, <2>6, <2>8
        <5>3. QED
          BY <4>1, <5>2 DEF Load, Blank
      <4>3. Open(y) = Open(x)
        BY <3>1, <2>11
      <4>4. QED
        BY <4>2, <4>3, <2>2, <2>10 DEF Charged
    <3>2. CASE r \notin Open(x)
      <4>1. Cardinality(Open(y)) = Cardinality(Open(x)) + 1 /\ Cardinality(Open(x)) \in Nat
        BY <3>2, <2>11, OpenCount
      <4>2. y.fresh <= z.fresh + 1 /\ y.fresh \in Nat
        BY <2>4, <2>10
      <4>3. k * Cardinality(Rooms) \in Nat
        BY ChargeBound
      <4>4. QED
        BY <4>1, <4>2, <4>3, <2>2, <2>4 DEF Charged
    <3>3. QED
      BY <3>1, <3>2
  <2>13. Keeps(x, y, cleared)
    BY <2>1, <2>10 DEF Keeps
  <2>14. ASSUME NEW q \in Rooms, q # r PROVE Conv(y, q) = Conv(x, q)
    <3>1. Conv(y, q) = IF z.active[q] = NoSession THEN {} ELSE z.disk[z.active[q]].turns
      BY <2>14, <2>4, <2>10 DEF Conv, SameActive
    <3>2. CASE z.current # q
      BY <3>1, <3>2, <2>1 DEF Conv
    <3>3. CASE z.current = q
      <4>1. z.active[q] = z.agent.id /\ z.agent.id # NoSession /\ Conv(z, q) = z.agent.turns
        BY <3>3, <2>1, <2>4, ConstantFacts DEF ManagerSound, Conv
      <4>2. z.disk[z.agent.id].turns = z.agent.turns
        <5>1. z.disk = [x.disk EXCEPT ![x.agent.id] = [tag |-> x.agent.tag,
                                                       turns |-> x.agent.turns]]
          BY SavedFields DEF z
        <5>2. x.disk \in [Sessions -> File]
          BY DEF Manager
        <5>3. QED
          BY <5>1, <5>2, <2>2, <2>4
      <4>3. QED
        BY <3>1, <4>1, <4>2, <2>1
    <3>4. QED
      BY <3>2, <3>3
  <2>15. ASSUME r \in Open(x) PROVE Conv(y, r) = Conv(x, r)
    <3>1. z.active[r] # NoSession /\ agent = Load(z, z.active[r])
      BY <2>15, <2>7, <2>8
    <3>2. Conv(y, r) = z.disk[z.active[r]].turns
      BY <3>1, <2>10 DEF Conv, Load
    <3>3. Conv(z, r) = z.disk[z.active[r]].turns
      BY <3>1, <1>2, <2>2 DEF Conv
    <3>4. QED
      BY <3>2, <3>3, <2>1
  <2>16. Conv(y, r) \subseteq TurnsOf(owner, r)
    BY <2>10 DEF Conv
  <2>17. ASSUME NEW q \in Rooms, q \in cfg.auto, Single(x, q) PROVE Single(y, q)
    <3>1. Single(z, q)
      BY <2>17, <2>1
    <3>2. CASE q # r
      <4>1. y.agent.tag # q
        BY <3>2, <2>10 DEF ManagerSound
      <4>2. QED
        BY <3>1, <4>1, <2>10 DEF Single
    <3>3. CASE q = r
      <4>1. \A s \in Sessions : z.disk[s].tag = r => agent.id = s
        BY <3>1, <3>3, <2>4, <2>5, <2>6, <2>7, <2>17 DEF Single, Load
      <4>2. QED
        BY <3>1, <3>3, <4>1, <2>10 DEF Single
    <3>4. QED
      BY <3>2, <3>3
  <2>18. QED
    BY <2>10, <2>11, <2>12, <2>13, <2>14, <2>15, <2>16, <2>17
       DEF y, SameButOpened, Steady
<1>3. QED
  BY <1>1, <1>2

-----------------------------------------------------------------------------
(* The end of a job and the start of a process. *)

LEMMA KeepsTwice ==
  ASSUME NEW x, NEW y, NEW z, NEW cleared, Keeps(x, y, cleared), Keeps(y, z, cleared)
  PROVE  Keeps(x, z, cleared)
BY DEF Keeps

\* The loaded conversation of x is in a file.
Filed(x, y, cleared) == x.agent.turns \subseteq y.disk[x.agent.id].turns \cup cleared

\* The end of runInRoom: nothing is lost and no room shows another conversation,
\* whichever of its saves fail; a saved job is in its room's file.
LEMMA Returned ==
  ASSUME NEW x \in Manager, NEW owner, NEW cleared, ManagerSound(x, owner, cleared),
         NEW room, room = x.current, NEW resting \in Rooms, resting \in Open(x),
         NEW k \in 0..MaxRestarts, Charged(x, k),
         NEW good \in BOOLEAN, NEW saved \in BOOLEAN, NEW back \in BOOLEAN
  PROVE  LET y == Return(x, room, resting, good, saved, back)
         IN  /\ y \in Manager /\ ManagerSound(y, owner, cleared)
             /\ y.current = IF resting # room /\ back THEN resting ELSE room
             /\ Open(y) = Open(x) /\ Charged(y, k) /\ Keeps(x, y, cleared)
             /\ SameConvs(x, y) /\ Steady(x, y, cfg.auto)
             /\ good /\ saved => Filed(x, y, cleared)
<1> DEFINE kept == IF good /\ saved THEN SaveAs(x, room) ELSE x
           y == Return(x, room, resting, good, saved, back)
<1>1. y = IF resting # room /\ back THEN Activate(kept, resting) ELSE kept
  BY DEF Return
<1>2. SaveAs(x, room) = Saved(x)
  BY SaveAsCurrent
<1>3. /\ kept \in Manager /\ ManagerSound(kept, owner, cleared)
      /\ kept.current = room /\ Open(kept) = Open(x) /\ Charged(kept, k)
      /\ Keeps(x, kept, cleared) /\ SameConvs(x, kept) /\ Steady(x, kept, Rooms)
  <2>1. CASE good /\ saved
    <3>1. kept = Saved(x)
      BY <2>1, <1>2
    <3>2. Saved(x).current = x.current /\ Saved(x).active = x.active /\ Saved(x).fresh = x.fresh
      BY SavedFields
    <3>3. Open(Saved(x)) = Open(x) /\ Charged(Saved(x), k)
      BY <3>2 DEF Open, Charged
    <3>4. QED
      BY <3>1, <3>2, <3>3, SavedKept
  <2>2. CASE ~(good /\ saved)
    BY <2>2 DEF Keeps, SameConvs, Steady
  <2>3. QED
    BY <2>1, <2>2
<1>4. good /\ saved => Filed(x, kept, cleared)
  <2>1. x.disk \in [Sessions -> File] /\ x.agent.id \in Sessions
    BY DEF Manager, Session
  <2>2. Saved(x).disk[x.agent.id] = [tag |-> x.agent.tag, turns |-> x.agent.turns]
    BY <2>1, SavedFields
  <2>3. QED
    BY <1>2, <2>2 DEF Filed
<1> HIDE DEF kept, y
<1>5. CASE resting # room /\ back
  <2>1. y = Activate(kept, resting)
    BY <1>1, <1>5
  <2>2. /\ y \in Manager /\ ManagerSound(y, owner, cleared)
        /\ y.current = resting /\ Open(y) = Open(kept) \cup {resting} /\ Charged(y, k)
        /\ Keeps(kept, y, cleared)
        /\ SameButOpened(kept, y, resting) /\ Steady(kept, y, cfg.auto)
    BY <1>3, <2>1, Activated
  <2>3. Open(y) = Open(x)
    BY <1>3, <2>2
  <2>4. Keeps(x, y, cleared)
    BY <1>3, <2>2, KeepsTwice
  <2>5. SameConvs(x, y)
    BY <1>3, <2>2 DEF SameConvs, SameButOpened
  <2>6. Steady(x, y, cfg.auto)
    BY <1>3, <2>2 DEF Steady
  <2>7. ASSUME good, saved PROVE Filed(x, y, cleared)
    <3>1. Filed(x, kept, cleared) /\ x.agent.id \in Sessions
      BY <1>4, <2>7 DEF Manager, Session
    <3>2. QED
      BY <2>2, <3>1 DEF Filed, Keeps
  <2>8. QED
    BY <1>5, <2>2, <2>3, <2>4, <2>5, <2>6, <2>7 DEF y
<1>6. CASE ~(resting # room /\ back)
  <2>1. y = kept
    BY <1>1, <1>6
  <2>2. Steady(x, kept, cfg.auto)
    BY <1>3 DEF Steady
  <2>3. QED
    BY <1>3, <1>4, <1>6, <2>1, <2>2 DEF y
<1>7. QED
  BY <1>5, <1>6

\* No file of the room but one.
FileSingle(x, r) ==
  \A s, t \in Sessions : x.disk[s].tag = r /\ x.disk[t].tag = r => s = t

\* No room gets a second session in a process that resumes it.
BootsSingle(x, y, rooms, fresh) ==
  \A r \in Rooms \cap rooms : FileSingle(x, r) /\ (fresh => r # y.current) => Single(y, r)

\* The turns of the loaded session are the room's as well.
Owners(owner, agent) ==
  [n \in Turns |-> IF n \in agent.turns THEN owner[n] \cup {agent.tag} ELSE owner[n]]

\* The room that a new process has its conversation from: another than its own for
\* a bot that was started with a session of another room.
Source(y) ==
  IF y.disk[y.agent.id].tag \in {NoRoom, y.current} THEN y.current ELSE y.disk[y.agent.id].tag

LEMMA OwnersKept ==
  ASSUME NEW disk \in [Sessions -> File], NEW age, NEW fresh, NEW owner, NEW new,
         FilesSound(disk, age, fresh, owner), \A n \in Turns : owner[n] \subseteq new[n]
  PROVE  FilesSound(disk, age, fresh, new)
<1>1. \A s \in Sessions : disk[s].turns \subseteq Turns
  BY DEF File
<1>2. QED
  BY <1>1 DEF FilesSound

LEMMA Booted ==
  ASSUME NEW x \in Manager, NEW owner, FilesSound(x.disk, x.age, x.fresh, owner),
         x.fresh <= Cardinality(Sessions), NEW c \in Config, NEW hst \in Surfaces,
         NEW resumed \in Sessions \cup {NoSession},
         resumed # NoSession => x.disk[resumed] # NoFile
  PROVE  LET y == Boot(x, c, hst, resumed)
         IN  /\ y \in Manager /\ ManagerSound(y, Owners(owner, y.agent), {})
             /\ Open(y) = {y.current} /\ y.fresh <= x.fresh + 1 /\ y.disk = x.disk
             /\ Source(y) \in Rooms /\ Conv(y, y.current) \subseteq TurnsOf(owner, Source(y))
             /\ hst = "repl" => Settled(y)
             /\ BootsSingle(x, y, c.auto, hst = "repl" /\ resumed = NoSession)
<1> DEFINE home == Home(c, hst)
           latest == LatestOf(x, home)
           loaded == IF resumed # NoSession THEN Load(x, resumed) ELSE Blank(x, home)
           agent == IF hst = "repl" THEN loaded
                    ELSE IF home \in c.auto /\ latest # NoSession THEN Load(x, latest)
                    ELSE Tagged(loaded, home)
           none == [x EXCEPT !.active = [r \in Rooms |-> NoSession]]
           y == Boot(x, c, hst, resumed)
           new == Owners(owner, agent)
<1>1. y = With(none, agent.tag, agent)
  BY DEF Boot
<1>2. /\ x.disk \in [Sessions -> File] /\ x.age \in [Sessions -> Sessions]
      /\ x.fresh \in Nat /\ x.fresh \in Sessions
  BY ConstantFacts DEF Manager
<1>3. /\ none \in Manager /\ none.disk = x.disk /\ none.age = x.age /\ none.fresh = x.fresh
      /\ \A r \in Rooms : none.active[r] = NoSession
  BY DEF Manager
<1>4. home \in Rooms
  BY DEF Home, Config
<1>5. /\ latest \in Sessions \cup {NoSession}
      /\ latest # NoSession => x.disk[latest].tag = home
      /\ latest = NoSession => \A s \in Sessions : x.disk[s].tag # home
  BY <1>2, <1>4, LatestFound
<1>6. Tagged(Blank(x, home), home) = Blank(x, home)
  BY DEF Tagged, Blank
<1> HIDE DEF y, none, home, latest
<1>7. \/ hst = "repl" /\ resumed # NoSession /\ agent = Load(x, resumed)
      \/ hst # "repl" /\ home \in c.auto /\ latest # NoSession /\ agent = Load(x, latest)
      \/ /\ resumed = NoSession /\ agent = Blank(x, home)
         /\ hst # "repl" /\ home \in c.auto => latest = NoSession
      \/ /\ hst # "repl" /\ resumed # NoSession /\ agent = Tagged(Load(x, resumed), home)
         /\ home \in c.auto => latest = NoSession
  BY <1>6
<1> HIDE DEF agent, new
<1>8. PICK r : r = agent.tag
  OBVIOUS
<1>9. /\ \A s : Load(none, s) = Load(x, s)
      /\ \A q : Blank(none, q) = Blank(x, q)
  BY <1>3 DEF Load, Blank
<1>10. /\ r \in Rooms
       /\ \/ agent = Blank(x, r)
          \/ \E s \in Sessions : x.disk[s].tag = r /\ agent = Load(x, s)
          \/ /\ hst # "repl"
             /\ \E s \in Sessions : x.disk[s] # NoFile /\ agent = Tagged(Load(x, s), r)
  <2>1. CASE hst = "repl" /\ resumed # NoSession /\ agent = Load(x, resumed)
    <3>1. agent.tag = x.disk[resumed].tag /\ x.disk[resumed].tag \in Rooms
      BY <2>1 DEF Load, FilesSound
    <3>2. QED
      BY <2>1, <3>1, <1>8
  <2>2. CASE hst # "repl" /\ latest # NoSession /\ agent = Load(x, latest)
    BY <2>2, <1>4, <1>5, <1>8 DEF Load
  <2>3. CASE agent = Blank(x, home)
    BY <2>3, <1>4, <1>8 DEF Blank
  <2>4. CASE hst # "repl" /\ resumed # NoSession /\ agent = Tagged(Load(x, resumed), home)
    <3>1. r = home
      BY <2>4, <1>8 DEF Tagged, Load
    <3>2. QED
      BY <2>4, <3>1, <1>4
  <2>5. QED
    BY <1>7, <2>1, <2>2, <2>3, <2>4
\* The room that the turns come from, by the way the session was found.
<1>11. LET q == IF x.disk[agent.id].tag \in {NoRoom, r} THEN r ELSE x.disk[agent.id].tag
       IN  /\ q \in Rooms /\ agent.turns \subseteq TurnsOf(owner, q)
           /\ hst = "repl" => x.disk[agent.id].tag \in {NoRoom, r}
  <2>1. CASE agent = Blank(x, r)
    <3>1. x.disk[x.fresh] = NoFile
      BY <1>2 DEF FilesSound
    <3>2. QED
      BY <2>1, <3>1, <1>10 DEF Blank, NoFile
  <2>2. CASE \E s \in Sessions : x.disk[s].tag = r /\ agent = Load(x, s)
    <3>1. PICK s \in Sessions : x.disk[s].tag = r /\ agent = Load(x, s)
      BY <2>2
    <3>2. x.disk[s].turns \subseteq Turns /\ \A n \in x.disk[s].turns : r \in owner[n]
      BY <3>1, <1>2 DEF FilesSound, File
    <3>3. QED
      BY <3>1, <3>2, <1>10 DEF Load, TurnsOf
  <2>3. CASE /\ hst # "repl"
             /\ \E s \in Sessions : x.disk[s] # NoFile /\ agent = Tagged(Load(x, s), r)
    <3>1. PICK s \in Sessions : x.disk[s] # NoFile /\ agent = Tagged(Load(x, s), r)
      BY <2>3
    <3>2. /\ x.disk[s].turns \subseteq Turns /\ x.disk[s].tag \in Rooms
          /\ \A n \in x.disk[s].turns : x.disk[s].tag \in owner[n]
      BY <3>1, <1>2 DEF FilesSound, File
    <3>3. agent.id = s /\ agent.turns = x.disk[s].turns
      BY <3>1 DEF Load, Tagged
    <3>4. QED
      BY <2>3, <3>2, <3>3, RoomsConstants DEF TurnsOf
  <2>4. QED
    BY <1>10, <2>1, <2>2, <2>3
<1>12. /\ \A n \in Turns : owner[n] \subseteq new[n]
       /\ agent.turns \subseteq TurnsOf(new, r)
  BY <1>8, <1>11 DEF new, Owners, TurnsOf
<1>13. /\ y \in Manager /\ ManagerSound(y, new, {})
       /\ y.current = r /\ y.disk = x.disk /\ y.agent = agent
       /\ y.active[r] = agent.id /\ SameActive(none, y, r)
       /\ y.fresh <= x.fresh + 1 /\ agent.id # NoSession
       /\ x.disk[agent.id].tag \in {NoRoom, r} => Settled(y)
  <2>1. y = With(none, r, agent)
    BY <1>1, <1>8
  <2>2. FilesSound(none.disk, none.age, none.fresh, new)
    BY <1>2, <1>3, <1>12, OwnersKept
  <2>3. \/ agent = Blank(none, r) /\ none.fresh <= Cardinality(Sessions)
        \/ \E s \in Sessions : none.disk[s].tag = r /\ agent = Load(none, s)
        \/ /\ \A q \in Rooms : none.active[q] = NoSession
           /\ \E s \in Sessions : none.disk[s] # NoFile /\ agent = Tagged(Load(none, s), r)
           /\ agent.turns \subseteq TurnsOf(new, r)
    BY <1>3, <1>9, <1>10, <1>12
  <2>4. PICK a, n, o : a = agent /\ n = none /\ o = new
    OBVIOUS
  <2>5. OthersSaved(n, r)
    BY <1>3, <2>4 DEF OthersSaved
  <2>6. LET w == With(n, r, a)
        IN  /\ w \in Manager /\ ManagerSound(w, o, {})
            /\ w.current = r /\ w.disk = n.disk /\ w.agent = a
            /\ w.active[r] = a.id /\ SameActive(n, w, r)
            /\ a = Blank(n, r) => w.fresh = n.fresh + 1
            /\ a # Blank(n, r) => w.fresh = n.fresh
            /\ a.id # NoSession /\ a.turns \subseteq TurnsOf(o, r)
            /\ n.disk[a.id].tag \in {NoRoom, r} => Settled(w)
    BY <1>3, <1>10, <2>2, <2>3, <2>4, <2>5, Entered
  <2>7. QED
    BY <1>2, <1>3, <2>1, <2>4, <2>6
<1>14. Open(y) = {y.current}
  BY <1>3, <1>10, <1>13 DEF Open, SameActive
<1>15. Source(y) \in Rooms /\ Conv(y, y.current) \subseteq TurnsOf(owner, Source(y))
  BY <1>11, <1>13 DEF Conv, Source
<1>16. hst = "repl" => Settled(y)
  BY <1>11, <1>13
<1>17. ASSUME NEW q \in Rooms, q \in c.auto, FileSingle(x, q),
              hst = "repl" /\ resumed = NoSession => q # y.current
       PROVE  Single(y, q)
  <2>1. CASE q # r
    BY <2>1, <1>13, <1>17 DEF Single, FileSingle, ManagerSound
  <2>2. CASE q = r
    <3>1. ASSUME NEW s \in Sessions, x.disk[s].tag = q PROVE s = agent.id
      <4>1. CASE hst = "repl"
        <5>1. agent = Load(x, resumed) /\ resumed # NoSession
          BY <4>1, <2>2, <1>7, <1>13, <1>17
        <5>2. agent.id = resumed /\ x.disk[resumed].tag = q
          BY <5>1, <2>2, <1>8 DEF Load
        <5>3. QED
          BY <5>1, <5>2, <3>1, <1>17 DEF FileSingle
      <4>2. CASE hst # "repl"
        <5>1. q = home
          BY <4>2, <2>2, <1>5, <1>7, <1>8 DEF Load, Blank, Tagged
        <5>2. latest # NoSession
          BY <5>1, <3>1, <1>5
        <5>3. agent = Load(x, latest)
          BY <4>2, <5>1, <5>2, <1>7, <1>17
        <5>4. QED
          BY <5>1, <5>2, <5>3, <3>1, <1>5, <1>17 DEF FileSingle, Load
      <4>3. QED
        BY <4>1, <4>2
    <3>2. QED
      BY <3>1, <1>13, <1>17 DEF Single, FileSingle
  <2>3. QED
    BY <2>1, <2>2
<1>18. QED
  BY <1>8, <1>13, <1>14, <1>15, <1>16, <1>17 DEF y, new, BootsSingle

-----------------------------------------------------------------------------
(* What a turn, a /clear, a /resume and the queue do. *)

LEMMA OwnerGrows ==
  ASSUME NEW x \in Manager, NEW owner, NEW new, NEW cleared, ManagerSound(x, owner, cleared),
         \A n \in Turns : owner[n] \subseteq new[n]
  PROVE  ManagerSound(x, new, cleared)
<1>1. x.disk \in [Sessions -> File] /\ x.agent.turns \subseteq Turns
  BY DEF Manager, Session
<1>2. FilesSound(x.disk, x.age, x.fresh, new)
  BY <1>1, OwnersKept DEF ManagerSound
<1>3. QED
  BY <1>1, <1>2 DEF ManagerSound

\* A turn joins the loaded conversation.
LEMMA Said ==
  ASSUME NEW x \in Manager, NEW owner, NEW cleared, ManagerSound(x, owner, cleared),
         NEW n \in Turns, x.current \in owner[n]
  PROVE  LET y == [x EXCEPT !.agent.turns = @ \cup {n}]
         IN  /\ y \in Manager /\ ManagerSound(y, owner, cleared) /\ y.current = x.current
             /\ y.fresh = x.fresh /\ y.disk = x.disk /\ y.active = x.active
             /\ y.agent.id = x.agent.id /\ y.agent.tag = x.agent.tag
             /\ y.agent.turns = x.agent.turns \cup {n}
<1> DEFINE y == [x EXCEPT !.agent.turns = @ \cup {n}]
<1>1. /\ y \in Manager /\ y.current = x.current
      /\ y.fresh = x.fresh /\ y.disk = x.disk /\ y.active = x.active /\ y.age = x.age
      /\ y.agent.id = x.agent.id /\ y.agent.tag = x.agent.tag
      /\ y.agent.turns = x.agent.turns \cup {n}
  BY DEF Manager, Session
<1> HIDE DEF y
<1>2. ManagerSound(y, owner, cleared)
  BY <1>1 DEF ManagerSound
<1>3. QED
  BY <1>1, <1>2 DEF y

\* The loaded conversation is emptied.
LEMMA Cleared ==
  ASSUME NEW x \in Manager, NEW owner, NEW cleared, ManagerSound(x, owner, cleared)
  PROVE  LET y == [x EXCEPT !.agent.turns = {}]
         IN  /\ y \in Manager /\ ManagerSound(y, owner, cleared \cup x.agent.turns)
             /\ y.current = x.current
             /\ y.fresh = x.fresh /\ y.disk = x.disk /\ y.active = x.active
             /\ y.agent.id = x.agent.id /\ y.agent.tag = x.agent.tag
             /\ y.agent.turns = {}
<1> DEFINE y == [x EXCEPT !.agent.turns = {}]
<1>1. /\ y \in Manager /\ y.current = x.current
      /\ y.fresh = x.fresh /\ y.disk = x.disk /\ y.active = x.active /\ y.age = x.age
      /\ y.agent.id = x.agent.id /\ y.agent.tag = x.agent.tag
      /\ y.agent.turns = {}
  BY DEF Manager, Session
<1> HIDE DEF y
<1>2. ManagerSound(y, owner, cleared \cup x.agent.turns)
  BY <1>1 DEF ManagerSound
<1>3. QED
  BY <1>1, <1>2 DEF y

\* resumeRoom: a room goes on with its latest session.
Reopened(x, r, s) ==
  [x EXCEPT !.active[r] = s, !.agent = IF x.current = r THEN Load(x, s) ELSE @]

LEMMA Resumed ==
  ASSUME NEW x \in Manager, NEW owner, NEW cleared, ManagerSound(x, owner, cleared),
         Settled(x), NEW r \in Rooms, NEW s \in Sessions, x.disk[s].tag = r
  PROVE  LET y == Reopened(x, r, s)
         IN  /\ y \in Manager /\ ManagerSound(y, owner, cleared) /\ y.current = x.current
             /\ y.fresh = x.fresh /\ y.disk = x.disk
             /\ Open(y) = Open(x) \cup {r}
             /\ SameConvsBut(x, y, r) /\ Conv(y, r) \subseteq TurnsOf(owner, r)
             /\ Steady(x, y, Rooms)
<1> DEFINE y == Reopened(x, r, s)
<1>1. /\ x.active \in [Rooms -> Sessions \cup {NoSession}] /\ x.current \in Rooms
      /\ x.disk \in [Sessions -> File] /\ s # NoSession /\ x.fresh \in Nat /\ s \in Nat
  BY ConstantFacts DEF Manager
<1>2. Load(x, s) = [id |-> s, tag |-> r, turns |-> x.disk[s].turns]
  BY DEF Load
<1>3. Load(x, s) \in Session
  BY <1>1, <1>2 DEF Session, File
<1>4. /\ y \in Manager /\ y.current = x.current
      /\ y.fresh = x.fresh /\ y.disk = x.disk /\ y.age = x.age
      /\ y.active = [x.active EXCEPT ![r] = s]
      /\ y.agent = IF x.current = r THEN Load(x, s) ELSE x.agent
  BY <1>3 DEF Manager, Reopened
<1> HIDE DEF y
<1>5. y.active[r] = s /\ \A q \in Rooms \ {r} : y.active[q] = x.active[q]
  BY <1>1, <1>4
<1>6. x.disk[s] # NoFile /\ s < x.fresh /\ \A n \in x.disk[s].turns : r \in owner[n]
  <2>1. x.disk[s] # NoFile
    BY RoomsConstants DEF NoFile
  <2>2. QED
    BY <2>1, <1>1 DEF ManagerSound, FilesSound
<1>7. ManagerSound(y, owner, cleared)
  <2>1. CASE x.current = r
    BY <2>1, <1>2, <1>4, <1>5, <1>6 DEF ManagerSound
  <2>2. CASE x.current # r
    <3>1. s # x.agent.id
      BY <2>2, RoomsConstants DEF ManagerSound, Settled
    <3>2. QED
      BY <2>2, <3>1, <1>4, <1>5, <1>6 DEF ManagerSound
  <2>3. QED
    BY <2>1, <2>2
<1>8. Open(y) = Open(x) \cup {r}
  BY <1>1, <1>5 DEF Open
<1>9. SameConvsBut(x, y, r)
  BY <1>4, <1>5 DEF SameConvsBut, Conv
<1>10. Conv(y, r) \subseteq TurnsOf(owner, r)
  <2>1. Conv(y, r) = x.disk[s].turns
    BY <1>1, <1>2, <1>4, <1>5 DEF Conv
  <2>2. x.disk[s].turns \subseteq Turns
    BY <1>1 DEF File
  <2>3. QED
    BY <2>1, <2>2, <1>6 DEF TurnsOf
<1>11. Steady(x, y, Rooms)
  <2>1. y.agent.tag = x.agent.tag
    BY <1>2, <1>4 DEF ManagerSound
  <2>2. y.agent.id = x.agent.id \/ (y.agent.id = s /\ x.agent.tag = r)
    BY <1>2, <1>4 DEF ManagerSound
  <2>3. \A q \in Rooms : Single(x, q) => Single(y, q)
    BY <2>1, <2>2, <1>4 DEF Single
  <2>4. Settled(y)
    BY <1>2, <1>4 DEF Settled, ManagerSound
  <2>5. QED
    BY <2>3, <2>4 DEF Steady
<1>12. QED
  BY <1>4, <1>7, <1>8, <1>9, <1>10, <1>11 DEF y

\* The head of the queue starts.
LEMMA HeadStarts ==
  ASSUME NEW q, NEW hst, NEW jobs \in Nat, NEW started \in Nat,
         QueueSound(q, hst, jobs, started, TRUE), q # <<>>
  PROVE  /\ Head(q) \in JobType /\ Head(q).n > started /\ Head(q).n <= jobs
         /\ Head(q).by = "repl" => hst = "repl"
         /\ Head(q).kind \in {"move", "resume"} => Head(q).by = "repl" /\ Head(q).room \in Rooms
         /\ QueueSound(q, hst, jobs, Head(q).n, FALSE)
         /\ QueueSound(Tail(q), hst, jobs, Head(q).n, TRUE)
<1>1. /\ q \in Seq(JobType) /\ Len(q) \in Nat /\ Len(q) >= 1
      /\ Head(q) = q[1] /\ Head(q) \in JobType /\ 1 \in 1..Len(q)
  BY DEF QueueSound
<1>2. /\ q[1].n > started /\ q[1].n <= jobs
      /\ q[1].by = "repl" => hst = "repl"
      /\ q[1].kind \in {"move", "resume"} => q[1].by = "repl" /\ q[1].room \in Rooms
  BY <1>1 DEF QueueSound
<1>3. \A i \in 1..Len(q) : i > 1 => q[i].n > q[1].n
  <2>1. SUFFICES ASSUME NEW i \in 1..Len(q), i > 1 PROVE q[i].n > q[1].n
    OBVIOUS
  <2>2. q[1].n < q[i].n /\ q[1] \in JobType /\ q[i] \in JobType
    BY <1>1, <2>1 DEF QueueSound
  <2>3. q[1].n \in Nat /\ q[i].n \in Nat
    BY <2>2 DEF JobType, Turns
  <2>4. QED
    BY <2>2, <2>3
<1>4. QueueSound(q, hst, jobs, q[1].n, FALSE)
  BY <1>1, <1>2, <1>3 DEF QueueSound
<1>5. /\ Tail(q) \in Seq(JobType) /\ Len(Tail(q)) = Len(q) - 1
      /\ \A i \in 1..Len(Tail(q)) : Tail(q)[i] = q[i + 1] /\ i + 1 \in 1..Len(q) /\ i + 1 > 1
  BY <1>1
<1>6. \A i, j \in 1..Len(Tail(q)) : i < j => Tail(q)[i].n < Tail(q)[j].n
  <2>1. SUFFICES ASSUME NEW i \in 1..Len(Tail(q)), NEW j \in 1..Len(Tail(q)), i < j
        PROVE  Tail(q)[i].n < Tail(q)[j].n
    OBVIOUS
  <2>2. i + 1 < j + 1
    BY <1>1, <1>5, <2>1
  <2>3. QED
    BY <1>5, <2>2 DEF QueueSound
<1>7. QueueSound(Tail(q), hst, jobs, q[1].n, TRUE)
  BY <1>2, <1>3, <1>5, <1>6 DEF QueueSound
<1>8. QED
  BY <1>1, <1>2, <1>4, <1>7

\* The job in progress leaves the queue.
LEMMA HeadLeaves ==
  ASSUME NEW q, NEW hst, NEW jobs \in Nat, NEW started \in Nat,
         QueueSound(q, hst, jobs, started, FALSE), q # <<>>
  PROVE  QueueSound(Tail(q), hst, jobs, started, TRUE)
<1>1. q \in Seq(JobType) /\ Len(q) \in Nat /\ Len(q) >= 1
  BY DEF QueueSound
<1>2. /\ Tail(q) \in Seq(JobType) /\ Len(Tail(q)) = Len(q) - 1
      /\ \A i \in 1..Len(Tail(q)) : Tail(q)[i] = q[i + 1] /\ i + 1 \in 1..Len(q) /\ i + 1 > 1
  BY <1>1
<1>3. \A i, j \in 1..Len(Tail(q)) : i < j => Tail(q)[i].n < Tail(q)[j].n
  <2>1. SUFFICES ASSUME NEW i \in 1..Len(Tail(q)), NEW j \in 1..Len(Tail(q)), i < j
        PROVE  Tail(q)[i].n < Tail(q)[j].n
    OBVIOUS
  <2>2. i + 1 < j + 1
    BY <1>1, <1>2, <2>1
  <2>3. QED
    BY <1>2, <2>2 DEF QueueSound
<1>4. QED
  BY <1>2, <1>3 DEF QueueSound

\* A job arrives.
LEMMA JobArrives ==
  ASSUME NEW q, NEW hst, NEW jobs \in Nat, NEW started \in Nat, NEW idle \in BOOLEAN,
         QueueSound(q, hst, jobs, started, idle), NEW job \in JobType, job.n = jobs + 1,
         job.by = "repl" => hst = "repl",
         job.kind \in {"move", "resume"} => job.by = "repl" /\ job.room \in Rooms
  PROVE  QueueSound(Append(q, job), hst, jobs + 1, started, idle)
<1> DEFINE new == Append(q, job)
<1>1. q \in Seq(JobType) /\ Len(q) \in Nat /\ started <= jobs
  BY DEF QueueSound
<1>2. /\ new \in Seq(JobType) /\ Len(new) = Len(q) + 1 /\ new[Len(q) + 1] = job
      /\ \A i \in 1..Len(q) : new[i] = q[i]
  BY <1>1
<1> HIDE DEF new
<1>3. \A i \in 1..Len(q) : q[i].n <= jobs /\ q[i].n \in Nat
  <2>1. \A i \in 1..Len(q) : q[i] \in JobType /\ q[i].n <= jobs
    BY <1>1 DEF QueueSound
  <2>2. QED
    BY <2>1 DEF JobType, Turns
<1>4. ASSUME NEW i \in 1..Len(new), NEW j \in 1..Len(new), i < j
      PROVE  new[i].n < new[j].n
  <2>1. i \in 1..Len(q) /\ new[i] = q[i]
    BY <1>1, <1>2, <1>4
  <2>2. CASE j = Len(q) + 1
    BY <2>1, <2>2, <1>2, <1>3
  <2>3. CASE j # Len(q) + 1
    <3>1. j \in 1..Len(q) /\ new[j] = q[j]
      BY <2>3, <1>1, <1>2
    <3>2. QED
      BY <2>1, <3>1, <1>4 DEF QueueSound
  <2>4. QED
    BY <2>2, <2>3
<1>5. ASSUME NEW i \in 1..Len(new)
      PROVE  /\ new[i].n <= jobs + 1 /\ (i > 1 \/ idle => new[i].n > started)
             /\ new[i].by = "repl" => hst = "repl"
             /\ new[i].kind \in {"move", "resume"} => new[i].by = "repl" /\ new[i].room \in Rooms
  <2>1. CASE i = Len(q) + 1
    BY <2>1, <1>1, <1>2
  <2>2. CASE i # Len(q) + 1
    <3>1. i \in 1..Len(q) /\ new[i] = q[i]
      BY <2>2, <1>1, <1>2
    <3>2. QED
      BY <3>1, <1>3 DEF QueueSound
  <2>3. QED
    BY <2>1, <2>2
<1>6. QED
  BY <1>1, <1>2, <1>4, <1>5 DEF QueueSound, new

\* What was done stays done.
LEMMA DoneKept ==
  ASSUME NEW x \in Manager, NEW y \in Manager, NEW hist, NEW new, DoneSound(x, hist),
         ManagerSound(y, new.owner, new.cleared), Keeps(x, y, new.cleared),
         new.done = hist.done, hist.cleared \subseteq new.cleared
  PROVE  DoneSound(y, new)
<1> SUFFICES ASSUME NEW n \in new.done \ new.cleared
             PROVE  \E s \in Sessions : y.disk[s].tag \in new.owner[n] /\ n \in y.disk[s].turns
  BY DEF DoneSound
<1>1. PICK s \in Sessions : n \in x.disk[s].turns
  BY DEF DoneSound
<1>2. n \in y.disk[s].turns
  BY <1>1 DEF Keeps
<1>3. QED
  BY <1>2 DEF ManagerSound, FilesSound

-----------------------------------------------------------------------------
(* The inductive invariant: initial states. *)

LEMMA FirstRanks == RanksSound([s \in Sessions |-> s])
<1> DEFINE age == [s \in Sessions |-> s]
<1>1. \A s \in Sessions : s \in Nat /\ age[s] = s
  BY ConstantFacts
<1>2. ASSUME NEW S \in SUBSET Sessions, S # {}
      PROVE  \E s \in S : \A t \in S : age[s] <= age[t]
  <2>1. S \subseteq Nat
    BY <1>1
  <2>2. PICK s \in S : \A t \in S : ~(<<t, s>> \in OpToRel(<, Nat))
    BY <2>1, <1>2, NatLessThanWellFounded, WFMin
  <2>3. \A t \in S : ~(t < s)
    BY <2>1, <2>2 DEF OpToRel
  <2>4. \A t \in S : s <= t
    BY <2>1, <2>3
  <2>5. QED
    BY <1>1, <2>4
<1>3. QED
  BY <1>1, <1>2 DEF RanksSound

\* A process that starts without any file.
LEMMA InitManager ==
  ASSUME RoomsInit
  PROVE  LET home == Home(cfg, host)
         IN  /\ m.current = home /\ home \in Rooms /\ m.active[home] = 1
             /\ \A r \in Rooms \ {home} : m.active[r] = NoSession
             /\ m.agent = [id |-> 1, tag |-> home, turns |-> {}]
             /\ m.disk = [s \in Sessions |-> NoFile]
             /\ m.age = [s \in Sessions |-> s] /\ m.fresh = 2
             /\ m \in Manager /\ cfg \in Config /\ cfgFile = cfg /\ 1 \in Sessions
<1> DEFINE home == Home(cfg, host)
           N == Cardinality(Sessions)
           files == [current |-> NoRoom, active |-> [r \in Rooms |-> NoSession],
                     agent |-> [id |-> NoSession, tag |-> NoRoom, turns |-> {}],
                     disk |-> [s \in Sessions |-> NoFile], age |-> [s \in Sessions |-> s],
                     fresh |-> 1]
           none == [files EXCEPT !.active = [r \in Rooms |-> NoSession]]
           agent == [id |-> 1, tag |-> home, turns |-> {}]
<1>1. cfg = [bind |-> Bindings, auto |-> AutoResume] /\ cfgFile = cfg /\ host \in Surfaces
  BY DEF RoomsInit
<1>2. cfg \in Config /\ home \in Rooms
  BY <1>1, RoomsConstants DEF Config, Home
<1>3. m = Boot(files, cfg, host, NoSession)
  BY DEF RoomsInit
<1>4. NoSession = 0 /\ N \in Nat /\ N >= 1 /\ Sessions = 1..N
  <2>1. N = (MaxRestarts + 1) * Cardinality(Rooms) /\ N \in Nat /\ Sessions = 1..N
    BY ConstantFacts
  <2>2. 0 \in 0..MaxRestarts
    BY RoomsConstants
  <2>3. 0 * Cardinality(Rooms) + Cardinality(Rooms) <= N
    BY <2>2, ChargeBound
  <2>4. QED
    BY <2>1, <2>3, ConstantFacts
<1>5. LatestOf(files, home) = NoSession
  <2>1. {s \in Sessions : files.disk[s].tag = home} = {}
    BY <1>2, RoomsConstants DEF NoFile
  <2>2. QED
    BY <2>1 DEF LatestOf
<1>6. Blank(files, home) = agent /\ Tagged(agent, home) = agent
  BY DEF Blank, Tagged
<1>7. m = With(none, home, agent)
  BY <1>3, <1>5, <1>6 DEF Boot
<1>8. m = [current |-> home, active |-> [[r \in Rooms |-> NoSession] EXCEPT ![home] = 1],
           agent |-> agent, disk |-> [s \in Sessions |-> NoFile],
           age |-> [s \in Sessions |-> s], fresh |-> 2]
  <2>1. none = files
    OBVIOUS
  <2>2. agent.id = 1 /\ files.fresh = 1
    OBVIOUS
  <2>3. With(files, home, agent) =
          [files EXCEPT !.agent = agent, !.current = home, !.active[home] = 1, !.fresh = 2]
    BY <2>2 DEF With
  <2>4. QED
    BY <1>7, <2>1, <2>3
<1> HIDE DEF N
<1>9. agent \in Session /\ NoFile \in File /\ [s \in Sessions |-> s] \in [Sessions -> Sessions]
      /\ 1 \in Sessions /\ 2 \in 1..N + 1
  BY <1>2, <1>4 DEF Session, File, NoFile
<1> HIDE DEF home, agent
<1>10. m \in Manager
  BY <1>2, <1>8, <1>9 DEF Manager, N
<1>11. QED
  BY <1>1, <1>2, <1>8, <1>9, <1>10 DEF home, agent

LEMMA InitInv == RoomsInit => RoomsInv
<1> SUFFICES ASSUME RoomsInit PROVE RoomsInv
  OBVIOUS
<1> DEFINE home == Home(cfg, host)
<1>1. /\ m.current = home /\ home \in Rooms /\ m.active[home] = 1
      /\ \A r \in Rooms \ {home} : m.active[r] = NoSession
      /\ m.agent = [id |-> 1, tag |-> home, turns |-> {}]
      /\ m.disk = [s \in Sessions |-> NoFile]
      /\ m.age = [s \in Sessions |-> s] /\ m.fresh = 2
      /\ m \in Manager /\ cfg \in Config /\ cfgFile = cfg /\ 1 \in Sessions
  BY InitManager
<1>2. /\ host \in Surfaces /\ queue = <<>> /\ run = Idle /\ owed = FALSE /\ direct = 0
      /\ used = [jobs |-> 0, toggles |-> 0, restarts |-> 0, ioErrors |-> 0]
      /\ h = [owner |-> [n \in Turns |-> {}], done |-> {}, cleared |-> {},
              started |-> 0, strayed |-> FALSE, resumed |-> NoSession,
              split |-> (Rooms \ AutoResume)
                        \cup (IF host = "repl" THEN {cfg.bind["repl"]} ELSE {}),
              event |-> Seen("start", NoRoom, 0)]
      /\ cfg = [bind |-> Bindings, auto |-> AutoResume]
  BY DEF RoomsInit
<1>3. Types
  <2>1. h \in History
    <3>1. h.split \in SUBSET Rooms /\ h.owner \in [Turns -> SUBSET Rooms]
      BY <1>1, <1>2 DEF Config, Surfaces
    <3>2. 0 \in 0..MaxJobs
      BY RoomsConstants
    <3>3. QED
      BY <3>1, <3>2, <1>2 DEF History, Seen
  <2>2. run \in RunType
    BY <1>2 DEF Idle, RunType
  <2>3. used \in Bounds
    BY <1>2, RoomsConstants DEF Bounds
  <2>4. queue \in Seq(JobType)
    BY <1>2
  <2>5. QED
    BY <1>1, <1>2, <2>1, <2>2, <2>3, <2>4 DEF Types
<1>4. QueueSound(queue, host, used.jobs, h.started, run.phase = "idle")
  BY <1>2 DEF QueueSound
<1>5. OwnersSound(h.owner, h.started)
  BY <1>2 DEF OwnersSound
<1>6. ManagerSound(m, h.owner, h.cleared)
  <2>1. FilesSound(m.disk, m.age, m.fresh, h.owner)
    BY <1>1, FirstRanks DEF FilesSound, NoFile
  <2>2. QED
    BY <1>1, <2>1, ConstantFacts DEF ManagerSound, NoFile
<1>7. Charged(m, used.restarts)
  <2>1. Open(m) = {home}
    BY <1>1, ConstantFacts DEF Open
  <2>2. Cardinality(Open(m)) = 1
    BY <2>1, FS_Singleton
  <2>3. QED
    BY <1>1, <1>2, <2>2, ConstantFacts DEF Charged
<1>8. SplitSound(m, h.split, cfg.auto \cap cfgFile.auto)
  BY <1>1, <1>2, RoomsConstants DEF SplitSound, Single, NoFile
<1>9. RunSound /\ RestSound /\ DoneSound(m, h)
  BY <1>1, <1>2 DEF RunSound, RestSound, DoneSound, Idle
<1>10. Settled(m)
  BY <1>1 DEF Settled, NoFile
<1>11. QED
  BY <1>3, <1>4, <1>5, <1>6, <1>7, <1>8, <1>9, <1>10 DEF RoomsInv

-----------------------------------------------------------------------------
(* The inductive invariant: steps. *)

LEMMA StartFacts ==
  ASSUME RoomsInv, NEW kinds, Starts(kinds)
  PROVE  /\ queue # <<>> /\ run.phase = "idle" /\ Job.kind \in kinds
         /\ Job \in JobType /\ Job.n \in Turns /\ Job.n \in 0..MaxJobs /\ Job.n > h.started
         /\ h.owner[Job.n] = {} /\ RoomOf(Job) \in Rooms
         /\ Job.by = "repl" => host = "repl"
         /\ Job.kind \in {"move", "resume"} => Job.by = "repl" /\ Job.room \in Rooms
         /\ QueueSound(queue, host, used.jobs, Job.n, FALSE)
         /\ QueueSound(Tail(queue), host, used.jobs, Job.n, TRUE)
         /\ Tail(queue) \in Seq(JobType)
         /\ OwnersSound(h.owner, Job.n)
         /\ m.current \in Open(m) /\ (m.current # Home(cfg, host) => h.strayed)
<1>1. queue # <<>> /\ run.phase = "idle" /\ Job.kind \in kinds
  BY DEF Starts
<1>2. used.jobs \in Nat /\ h.started \in Nat
  BY RoomsConstants DEF RoomsInv, Types, Bounds, History
<1>3. QueueSound(queue, host, used.jobs, h.started, TRUE)
  BY <1>1 DEF RoomsInv
<1>4. /\ Job \in JobType /\ Job.n > h.started
      /\ Job.by = "repl" => host = "repl"
      /\ Job.kind \in {"move", "resume"} => Job.by = "repl" /\ Job.room \in Rooms
      /\ QueueSound(queue, host, used.jobs, Job.n, FALSE)
      /\ QueueSound(Tail(queue), host, used.jobs, Job.n, TRUE)
  BY <1>1, <1>2, <1>3, HeadStarts DEF Job
<1>5. Job.n \in Turns /\ Job.n \in 0..MaxJobs
  BY <1>4, RoomsConstants DEF JobType, Turns
<1>6. h.owner[Job.n] = {} /\ OwnersSound(h.owner, Job.n)
  BY <1>2, <1>4, <1>5 DEF RoomsInv, OwnersSound, Turns
<1>7. RoomOf(Job) \in Rooms
  BY <1>4 DEF RoomOf, JobType, RoomsInv, Types, Config
<1>8. m.current \in Open(m)
  BY ConstantFacts DEF RoomsInv, Types, ManagerSound, Manager, Session, Open
<1>9. m.current # Home(cfg, host) => h.strayed
  BY <1>1 DEF RoomsInv, RestSound
<1>10. QED
  BY <1>1, <1>4, <1>5, <1>6, <1>7, <1>8, <1>9 DEF QueueSound

LEMMA EnqueueStep ==
  ASSUME RoomsInv, NEW by \in Surfaces, NEW room \in Rooms \cup {NoRoom},
         NEW kind \in {"say", "clear", "look", "move", "resume"},
         by = "repl" => host = "repl",
         kind \in {"move", "resume"} => by = "repl" /\ room \in Rooms,
         Enqueue(by, kind, room)
  PROVE  RoomsInv'
<1> DEFINE job == [n |-> used.jobs + 1, by |-> by, kind |-> kind, room |-> room]
<1>1. /\ used.jobs < MaxJobs /\ used' = [used EXCEPT !.jobs = @ + 1]
      /\ queue' = Append(queue, job)
      /\ UNCHANGED <<host, cfg, cfgFile, m, run, owed, direct, h>>
  BY DEF Enqueue
<1>2. /\ used \in Bounds /\ used.jobs \in Nat /\ MaxJobs \in Nat /\ h.started \in Nat
      /\ (run.phase = "idle") \in BOOLEAN
  BY RoomsConstants DEF RoomsInv, Types, Bounds, History
<1>3. used' \in Bounds /\ used'.jobs = used.jobs + 1 /\ used'.restarts = used.restarts
  BY <1>1, <1>2 DEF Bounds
<1>4. job \in JobType /\ job.n = used.jobs + 1 /\ job.by = by /\ job.kind = kind /\ job.room = room
  BY <1>1, <1>2 DEF JobType, Turns
<1> HIDE DEF job
<1>5. QueueSound(queue', host', used'.jobs, h'.started, (run.phase = "idle")')
  <2>1. PICK idle \in BOOLEAN : idle = (run.phase = "idle")
    BY <1>2
  <2>2. QueueSound(queue, host, used.jobs, h.started, idle)
    BY <2>1 DEF RoomsInv
  <2>3. QueueSound(Append(queue, job), host, used.jobs + 1, h.started, idle)
    BY <1>2, <1>4, <2>2, JobArrives
  <2>4. QED
    BY <1>1, <1>3, <2>1, <2>3
<1>6. Types'
  BY <1>1, <1>3, <1>5 DEF RoomsInv, Types, QueueSound
<1>7. RunSound'
  <2>1. queue # <<>> => queue' # <<>> /\ Job' = Job
    BY <1>1 DEF RoomsInv, Types, Job
  <2>2. QED
    BY <1>1, <2>1 DEF RoomsInv, RunSound
<1>8. RestSound' /\ DoneSound(m, h)'
  BY <1>1 DEF RoomsInv, RestSound, Home
<1>9. QED
  BY <1>1, <1>3, <1>5, <1>6, <1>7, <1>8 DEF RoomsInv

LEMMA ArrivalStep ==
  ASSUME RoomsInv, ReplEnqueues \/ \E s \in Remotes : RemoteEnqueues(s)
  PROVE  RoomsInv'
<1>1. "repl" \in Surfaces /\ cfg.bind["repl"] \in Rooms
  BY DEF Surfaces, RoomsInv, Types, Config
<1>2. CASE ReplEnqueues
  <2>1. host = "repl"
    BY <1>2 DEF ReplEnqueues, AtPrompt
  <2>2. CASE Enqueue("repl", "say", NoRoom)
    BY <2>1, <2>2, <1>1, EnqueueStep
  <2>3. CASE Enqueue("repl", "clear", cfg.bind["repl"])
    <3>1. PICK r \in Rooms : r = cfg.bind["repl"]
      BY <1>1
    <3>2. Enqueue("repl", "clear", r)
      BY <2>3, <3>1
    <3>3. QED
      BY <2>1, <3>2, <1>1, EnqueueStep
  <2>4. ASSUME NEW r \in Rooms, NEW kind \in {"move", "resume"}, Enqueue("repl", kind, r)
        PROVE  RoomsInv'
    BY <2>1, <2>4, <1>1, EnqueueStep
  <2>5. QED
    BY <1>2, <2>2, <2>3, <2>4 DEF ReplEnqueues
<1>3. ASSUME NEW s \in Remotes, RemoteEnqueues(s) PROVE RoomsInv'
  <2>1. s \in Surfaces /\ s # "repl"
    BY RoomsConstants DEF Surfaces
  <2>2. PICK kind \in {"say", "clear", "look"} : Enqueue(s, kind, NoRoom)
    BY <1>3 DEF RemoteEnqueues
  <2>3. QED
    BY <2>1, <2>2, EnqueueStep
<1>4. QED
  BY <1>2, <1>3

LEMMA SetAutoResumeStep ==
  ASSUME RoomsInv, NEW r \in Rooms, SetAutoResume(r)
  PROVE  RoomsInv'
<1>1. /\ used' = [used EXCEPT !.toggles = @ + 1]
      /\ cfg' = [cfg EXCEPT !.auto = IF r \in @ THEN @ \ {r} ELSE @ \cup {r}]
      /\ cfgFile' = cfg'
      /\ h' = [h EXCEPT !.split = IF r \in cfg.auto THEN @ \cup {r} ELSE @]
      /\ UNCHANGED <<host, m, queue, run, owed, direct>>
  BY DEF SetAutoResume
<1>2. used \in Bounds /\ cfg \in Config /\ h \in History
  BY DEF RoomsInv, Types
<1>3. used' \in Bounds /\ used'.jobs = used.jobs /\ used'.restarts = used.restarts
  BY <1>1, <1>2 DEF Bounds
<1>4. /\ cfg' \in Config /\ cfg'.bind = cfg.bind
      /\ cfg'.auto = IF r \in cfg.auto THEN cfg.auto \ {r} ELSE cfg.auto \cup {r}
  BY <1>1, <1>2 DEF Config
<1>5. /\ h' \in History /\ h'.owner = h.owner /\ h'.cleared = h.cleared
      /\ h'.done = h.done /\ h'.started = h.started /\ h'.strayed = h.strayed
      /\ h'.split = IF r \in cfg.auto THEN h.split \cup {r} ELSE h.split
  BY <1>1, <1>2 DEF History
<1>6. SplitSound(m', h'.split, cfg'.auto \cap cfgFile'.auto)
  BY <1>1, <1>4, <1>5 DEF RoomsInv, SplitSound
<1>7. RunSound' /\ RestSound'
  BY <1>1, <1>4, <1>5 DEF RoomsInv, RunSound, RestSound, Home, Job
<1>8. DoneSound(m', h')
  BY <1>1, <1>5 DEF RoomsInv, DoneSound
<1>9. Types'
  BY <1>1, <1>3, <1>4, <1>5 DEF RoomsInv, Types
<1>10. QED
  BY <1>1, <1>3, <1>5, <1>6, <1>7, <1>8, <1>9 DEF RoomsInv

LEMMA Failing ==
  ASSUME used \in Bounds, NEW k \in Nat, Fail(k)
  PROVE  used' \in Bounds /\ used'.jobs = used.jobs /\ used'.restarts = used.restarts
BY DEF Fail, Bounds

\* A job that is through leaves the queue, or waits at its head for its answer.
LEMMA Settles ==
  ASSUME Settle \/ Answer, NEW started, queue # <<>>,
         QueueSound(queue, host, used.jobs, started, FALSE),
         QueueSound(Tail(queue), host, used.jobs, started, TRUE)
  PROVE  /\ QueueSound(queue', host, used.jobs, started, run'.phase = "idle")
         /\ queue' \in Seq(JobType) /\ run' \in RunType /\ run'.phase # "run"
         /\ run'.phase # "idle" => queue' # <<>>
<1>1. CASE Settle
  <2>1. queue' = Tail(queue) /\ run' = Idle
    BY <1>1 DEF Settle
  <2>2. Idle \in RunType /\ Idle.phase = "idle"
    BY DEF Idle, RunType
  <2>3. (run'.phase = "idle") = TRUE /\ run'.phase # "run"
    BY <2>1, <2>2
  <2>4. QED
    BY <2>1, <2>2, <2>3 DEF QueueSound
<1>2. CASE ~Settle
  <2>1. queue' = queue /\ run' = [Idle EXCEPT !.phase = "deliver"]
    BY <1>2 DEF Answer
  <2>2. [Idle EXCEPT !.phase = "deliver"] \in RunType
        /\ [Idle EXCEPT !.phase = "deliver"].phase = "deliver"
    BY DEF Idle, RunType
  <2>3. (run'.phase = "idle") = FALSE /\ run'.phase # "run"
    BY <2>1, <2>2
  <2>4. QED
    BY <2>1, <2>2, <2>3 DEF QueueSound
<1>3. QED
  BY <1>1, <1>2

LEMMA EntryFailsStep ==
  ASSUME RoomsInv, EntryFails
  PROVE  RoomsInv'
<1>1. /\ Starts({"say", "clear", "look"}) /\ Fail(1) /\ Settle
      /\ owed' = (Job.by = "repl" /\ Job.kind = "say")
      /\ h' = [h EXCEPT !.started = Job.n]
      /\ UNCHANGED <<host, cfg, cfgFile, m, direct>>
  BY DEF EntryFails
<1>2. /\ queue # <<>> /\ Job.n \in 0..MaxJobs
      /\ QueueSound(queue, host, used.jobs, Job.n, FALSE)
      /\ QueueSound(Tail(queue), host, used.jobs, Job.n, TRUE)
      /\ OwnersSound(h.owner, Job.n)
      /\ m.current # Home(cfg, host) => h.strayed
  BY <1>1, StartFacts
<1>3. used' \in Bounds /\ used'.jobs = used.jobs /\ used'.restarts = used.restarts
  BY <1>1, Failing DEF RoomsInv, Types
<1>4. /\ QueueSound(queue', host, used.jobs, Job.n, run'.phase = "idle")
      /\ queue' \in Seq(JobType) /\ run' \in RunType /\ run'.phase # "run"
      /\ run'.phase # "idle" => queue' # <<>>
  BY <1>1, <1>2, Settles
<1>5. /\ h' \in History /\ h'.owner = h.owner /\ h'.cleared = h.cleared
      /\ h'.done = h.done /\ h'.started = Job.n /\ h'.strayed = h.strayed
      /\ h'.split = h.split
  BY <1>1, <1>2 DEF RoomsInv, Types, History
<1>6. Types'
  BY <1>1, <1>3, <1>4, <1>5 DEF RoomsInv, Types
<1>7. RunSound' /\ RestSound' /\ DoneSound(m', h')
  BY <1>1, <1>2, <1>4, <1>5 DEF RoomsInv, RunSound, RestSound, DoneSound, Home
<1>8. QED
  BY <1>1, <1>2, <1>3, <1>4, <1>5, <1>6, <1>7 DEF RoomsInv

LEMMA DeliverStep ==
  ASSUME RoomsInv, Deliver
  PROVE  RoomsInv'
<1>1. /\ run.phase = "deliver" /\ Settle
      /\ UNCHANGED <<host, cfg, cfgFile, m, owed, direct, used, h>>
  BY DEF Deliver
<1>2. queue # <<>> /\ used.jobs \in Nat /\ h.started \in Nat
  BY <1>1 DEF RoomsInv, RunSound, Types, Bounds, History
<1>3. QueueSound(queue, host, used.jobs, h.started, FALSE)
  BY <1>1 DEF RoomsInv
<1>4. QueueSound(Tail(queue), host, used.jobs, h.started, TRUE)
  BY <1>2, <1>3, HeadLeaves
<1>5. /\ QueueSound(queue', host, used.jobs, h.started, run'.phase = "idle")
      /\ queue' \in Seq(JobType) /\ run' \in RunType /\ run'.phase # "run"
      /\ run'.phase # "idle" => queue' # <<>>
  BY <1>1, <1>2, <1>3, <1>4, Settles
<1>6. Types'
  BY <1>1, <1>5 DEF RoomsInv, Types
<1>7. RunSound' /\ RestSound' /\ DoneSound(m', h')
  BY <1>1, <1>5 DEF RoomsInv, RunSound, RestSound, DoneSound, Home
<1>8. QED
  BY <1>1, <1>5, <1>6, <1>7 DEF RoomsInv

LEMMA SaveTurnStep ==
  ASSUME RoomsInv, SaveTurn
  PROVE  RoomsInv'
<1>1. /\ (m' = Saved(m) /\ UNCHANGED used) \/ (Fail(1) /\ UNCHANGED m)
      /\ owed' = FALSE /\ UNCHANGED <<host, cfg, cfgFile, queue, run, direct, h>>
  BY DEF SaveTurn
<1>2. m \in Manager /\ ManagerSound(m, h.owner, h.cleared) /\ used \in Bounds
  BY DEF RoomsInv, Types
<1>3. used' \in Bounds /\ used'.jobs = used.jobs /\ used'.restarts = used.restarts
  BY <1>1, <1>2, Failing
<1>4. /\ m' \in Manager /\ ManagerSound(m', h.owner, h.cleared)
      /\ Keeps(m, m', h.cleared) /\ Steady(m, m', Rooms)
      /\ m'.current = m.current /\ m'.active = m.active /\ m'.agent = m.agent
      /\ m'.fresh = m.fresh
  <2>1. CASE m' = Saved(m)
    BY <2>1, <1>2, SavedKept, SavedFields
  <2>2. CASE UNCHANGED m
    BY <2>2, <1>2 DEF Keeps, Steady
  <2>3. QED
    BY <1>1, <2>1, <2>2
<1>5. Open(m') = Open(m) /\ Charged(m', used'.restarts)
  BY <1>3, <1>4 DEF RoomsInv, Open, Charged
<1>6. SplitSound(m', h.split, cfg.auto \cap cfgFile.auto)
  BY <1>4 DEF RoomsInv, SplitSound, Steady
<1>7. DoneSound(m', h)
  BY <1>2, <1>4, DoneKept DEF RoomsInv
<1>8. Types'
  BY <1>1, <1>3, <1>4 DEF RoomsInv, Types
<1>9. RunSound' /\ RestSound'
  BY <1>1, <1>4, <1>5 DEF RoomsInv, RunSound, RestSound, Home, Job
<1>10. host' = "repl" => Settled(m')
  BY <1>1, <1>4 DEF RoomsInv, Steady
<1>11. QED
  BY <1>1, <1>3, <1>4, <1>5, <1>6, <1>7, <1>8, <1>9, <1>10 DEF RoomsInv

\* What the turns of a room are before the step, as PrivateRooms has it.
HeldBefore(x, r, owner, before) ==
  before \subseteq TurnsOf(owner, r) /\ (r \in Open(x) => before = Conv(x, r))

LEMMA StartRunFacts ==
  ASSUME RoomsInv, StartRun
  PROVE  \E r \in Rooms, before \in SUBSET Turns :
           /\ r = RoomOf(Job) /\ HeldBefore(m, r, h.owner, before)
           /\ m' \in Manager /\ m'.current = r
           /\ ManagerSound(m', [h.owner EXCEPT ![Job.n] = {r}], h.cleared)
           /\ Open(m') = Open(m) \cup {r} /\ Charged(m', used.restarts)
           /\ Keeps(m, m', h.cleared) /\ Steady(m, m', cfg.auto)
           /\ m'.agent.turns = before \cup {Job.n} /\ SameConvsBut(m, m', r)
           /\ run' = [phase |-> "run", n |-> Job.n, room |-> r, resting |-> m.current]
           /\ h' = [h EXCEPT !.owner[Job.n] = {r}, !.started = Job.n,
                             !.event = Seen("say", r, Job.n)]
<1>1. /\ m \in Manager /\ ManagerSound(m, h.owner, h.cleared) /\ h \in History
      /\ used.restarts \in 0..MaxRestarts /\ Charged(m, used.restarts)
      /\ h.owner \in [Turns -> SUBSET Rooms]
  BY DEF RoomsInv, Types, Bounds, History
<1>2. PICK r, x :
        /\ r = RoomOf(Job) /\ x = Activate(m, r)
        /\ m' = [x EXCEPT !.agent.turns = @ \cup {Job.n}]
        /\ run' = [phase |-> "run", n |-> Job.n, room |-> r, resting |-> m.current]
        /\ h' = [h EXCEPT !.owner[Job.n] = {r}, !.started = Job.n,
                          !.event = Seen("say", r, Job.n)]
  BY DEF StartRun
<1>3. Starts({"say"})
  BY DEF StartRun
<1>4. PICK n : n = Job.n
  OBVIOUS
<1>5. r \in Rooms /\ n \in Turns /\ h.owner[n] = {}
  BY <1>2, <1>3, <1>4, StartFacts
<1>6. /\ x \in Manager /\ ManagerSound(x, h.owner, h.cleared)
      /\ x.current = r /\ Open(x) = Open(m) \cup {r} /\ Charged(x, used.restarts)
      /\ Keeps(m, x, h.cleared)
      /\ SameButOpened(m, x, r) /\ Conv(x, r) \subseteq TurnsOf(h.owner, r)
      /\ Steady(m, x, cfg.auto)
  BY <1>1, <1>2, <1>5, Activated
<1>7. PICK owner : owner = [h.owner EXCEPT ![n] = {r}]
  OBVIOUS
<1>8. ManagerSound(x, owner, h.cleared) /\ r \in owner[n]
  <2>1. \A k \in Turns : h.owner[k] \subseteq owner[k]
    BY <1>1, <1>5, <1>7
  <2>2. ManagerSound(x, owner, h.cleared)
    BY <2>1, <1>6, OwnerGrows
  <2>3. QED
    BY <2>2, <1>1, <1>5, <1>7
<1>9. /\ m' \in Manager /\ ManagerSound(m', owner, h.cleared) /\ m'.current = x.current
      /\ m'.fresh = x.fresh /\ m'.disk = x.disk /\ m'.active = x.active
      /\ m'.agent.id = x.agent.id /\ m'.agent.tag = x.agent.tag
      /\ m'.agent.turns = x.agent.turns \cup {n}
  <2>1. m' = [x EXCEPT !.agent.turns = @ \cup {n}]
    BY <1>2, <1>4
  <2>2. x.current \in owner[n]
    BY <1>6, <1>8
  <2>3. QED
    BY <2>1, <2>2, <1>5, <1>6, <1>8, Said
<1>10. Open(m') = Open(m) \cup {r} /\ Charged(m', used.restarts)
  BY <1>6, <1>9 DEF Open, Charged
<1>11. Keeps(m, m', h.cleared) /\ Steady(m, m', cfg.auto)
  BY <1>6, <1>9 DEF Keeps, Steady, Single, Settled
<1>12. SameConvsBut(m, m', r)
  BY <1>6, <1>9 DEF SameButOpened, SameConvsBut, Conv
<1>13. HeldBefore(m, r, h.owner, x.agent.turns)
  <2>1. Conv(x, r) = x.agent.turns
    BY <1>6 DEF Conv
  <2>2. QED
    BY <2>1, <1>5, <1>6 DEF HeldBefore, SameButOpened
<1>14. x.agent.turns \in SUBSET Turns
  BY <1>6 DEF Manager, Session
<1>15. QED
  BY <1>2, <1>4, <1>5, <1>6, <1>7, <1>9, <1>10, <1>11, <1>12, <1>13, <1>14

LEMMA StartRunStep ==
  ASSUME RoomsInv, StartRun
  PROVE  RoomsInv'
<1>1. PICK r \in Rooms, before \in SUBSET Turns :
        /\ m' \in Manager /\ m'.current = r
        /\ ManagerSound(m', [h.owner EXCEPT ![Job.n] = {r}], h.cleared)
        /\ Open(m') = Open(m) \cup {r} /\ Charged(m', used.restarts)
        /\ Keeps(m, m', h.cleared) /\ Steady(m, m', cfg.auto)
        /\ m'.agent.turns = before \cup {Job.n}
        /\ run' = [phase |-> "run", n |-> Job.n, room |-> r, resting |-> m.current]
        /\ h' = [h EXCEPT !.owner[Job.n] = {r}, !.started = Job.n,
                          !.event = Seen("say", r, Job.n)]
  BY StartRunFacts
<1>2. /\ queue # <<>> /\ Job.n \in Turns /\ Job.n \in 0..MaxJobs
      /\ QueueSound(queue, host, used.jobs, Job.n, FALSE)
      /\ OwnersSound(h.owner, Job.n)
      /\ m.current \in Open(m) /\ (m.current # Home(cfg, host) => h.strayed)
  <2>1. Starts({"say"})
    BY DEF StartRun
  <2>2. QED
    BY <2>1, StartFacts
<1>3. UNCHANGED <<host, cfg, cfgFile, queue, owed, direct, used>>
  BY DEF StartRun
<1>4. m \in Manager /\ ManagerSound(m, h.owner, h.cleared) /\ h \in History
  BY DEF RoomsInv, Types
<1>5. /\ h' \in History /\ h'.owner = [h.owner EXCEPT ![Job.n] = {r}]
      /\ h'.cleared = h.cleared /\ h'.done = h.done /\ h'.started = Job.n
      /\ h'.strayed = h.strayed /\ h'.split = h.split
  BY <1>1, <1>2, <1>4 DEF History, Seen
<1>6. OwnersSound(h'.owner, h'.started)
  BY <1>2, <1>4, <1>5 DEF OwnersSound, Turns, History
<1>7. SplitSound(m', h'.split, cfg.auto \cap cfgFile.auto)
  BY <1>1, <1>5 DEF RoomsInv, SplitSound, Steady
<1>8. DoneSound(m', h')
  <2>1. ManagerSound(m', h'.owner, h'.cleared) /\ Keeps(m, m', h'.cleared) /\ DoneSound(m, h)
    BY <1>1, <1>5 DEF RoomsInv
  <2>2. QED
    BY <2>1, <1>1, <1>4, <1>5, DoneKept
<1>9. /\ run' \in RunType /\ run'.phase = "run" /\ run'.n = Job.n /\ run'.room = r
      /\ run'.resting = m.current /\ (run'.phase = "idle") = FALSE
  <2>1. m.current \in Rooms
    BY <1>4 DEF Manager
  <2>2. QED
    BY <2>1, <1>1, <1>2 DEF RunType
<1>10. RunSound'
  BY <1>1, <1>2, <1>3, <1>9 DEF RunSound, Job
<1>11. RestSound'
  BY <1>2, <1>3, <1>5, <1>9 DEF RestSound, Home
<1>12. Types'
  BY <1>1, <1>3, <1>5, <1>9 DEF RoomsInv, Types
<1>13. QueueSound(queue', host', used'.jobs, h'.started, run'.phase = "idle")
  BY <1>2, <1>3, <1>5, <1>9
<1>14. host' = "repl" => Settled(m')
  BY <1>1, <1>3 DEF RoomsInv, Steady
<1>15. QED
  BY <1>1, <1>3, <1>5, <1>6, <1>7, <1>8, <1>10, <1>11, <1>12, <1>13, <1>14 DEF RoomsInv

LEMMA SavesOf ==
  ASSUME NEW room, NEW resting, NEW good \in BOOLEAN, NEW o \in SavesOfReturn(room, resting, good)
  PROVE  /\ o.saved \in BOOLEAN /\ o.back \in BOOLEAN /\ (room # resting \/ o.back)
         /\ Failures(o) \in Nat
BY DEF SavesOfReturn, Failures

LEMMA EndRunFacts ==
  ASSUME RoomsInv, NEW good \in BOOLEAN, EndRun(good)
  PROVE  \E saved \in BOOLEAN, back \in BOOLEAN :
           /\ m' \in Manager /\ ManagerSound(m', h.owner, h.cleared)
           /\ m'.current = run.resting \/ (~back /\ m'.current = run.room)
           /\ Open(m') = Open(m) /\ Charged(m', used.restarts)
           /\ Keeps(m, m', h.cleared) /\ SameConvs(m, m') /\ Steady(m, m', cfg.auto)
           /\ good /\ saved => Filed(m, m', h.cleared)
           /\ used' \in Bounds /\ used'.jobs = used.jobs /\ used'.restarts = used.restarts
           /\ IF good /\ saved /\ back THEN Answer ELSE Settle
           /\ h' = [h EXCEPT !.done = IF good /\ saved /\ back THEN @ \cup {run.n} ELSE @,
                             !.strayed = Strayed(m', cfg, host, ~back),
                             !.resumed = IF Job.by = "repl" THEN NoSession ELSE @]
<1>1. /\ run.phase = "run" /\ m.current = run.room /\ run.room \in Rooms
      /\ run.resting \in Open(m) /\ run.resting \in Rooms
  BY DEF EndRun, RoomsInv, RunSound, Open
<1>2. PICK o \in SavesOfReturn(run.room, run.resting, good) :
        /\ Fail(Failures(o))
        /\ m' = Return(m, run.room, run.resting, good, o.saved, o.back)
        /\ IF good /\ o.saved /\ o.back THEN Answer ELSE Settle
        /\ h' = [h EXCEPT !.done = IF good /\ o.saved /\ o.back THEN @ \cup {run.n} ELSE @,
                          !.strayed = Strayed(m', cfg, host, ~o.back),
                          !.resumed = IF Job.by = "repl" THEN NoSession ELSE @]
  BY DEF EndRun
<1>3. PICK saved, back : saved = o.saved /\ back = o.back
  OBVIOUS
<1>4. /\ saved \in BOOLEAN /\ back \in BOOLEAN /\ (run.room # run.resting \/ back)
      /\ Failures(o) \in Nat
  BY <1>2, <1>3, SavesOf
<1>5. used' \in Bounds /\ used'.jobs = used.jobs /\ used'.restarts = used.restarts
  BY <1>2, <1>4, Failing DEF RoomsInv, Types
<1>6. /\ m \in Manager /\ ManagerSound(m, h.owner, h.cleared)
      /\ used.restarts \in 0..MaxRestarts /\ Charged(m, used.restarts)
  BY DEF RoomsInv, Types, Bounds
<1>7. m' = Return(m, run.room, run.resting, good, saved, back)
  BY <1>2, <1>3
<1>8. /\ m' \in Manager /\ ManagerSound(m', h.owner, h.cleared)
      /\ m'.current = IF run.resting # run.room /\ back THEN run.resting ELSE run.room
      /\ Open(m') = Open(m) /\ Charged(m', used.restarts) /\ Keeps(m, m', h.cleared)
      /\ SameConvs(m, m') /\ Steady(m, m', cfg.auto)
      /\ good /\ saved => Filed(m, m', h.cleared)
  BY <1>1, <1>4, <1>6, <1>7, Returned
<1>9. m'.current = run.resting \/ (~back /\ m'.current = run.room)
  BY <1>4, <1>8
<1>10. QED
  BY <1>2, <1>3, <1>4, <1>5, <1>8, <1>9

LEMMA EndRunStep ==
  ASSUME RoomsInv, NEW good \in BOOLEAN, EndRun(good)
  PROVE  RoomsInv'
<1>1. PICK saved \in BOOLEAN, back \in BOOLEAN :
        /\ m' \in Manager /\ ManagerSound(m', h.owner, h.cleared)
        /\ m'.current = run.resting \/ (~back /\ m'.current = run.room)
        /\ Open(m') = Open(m) /\ Charged(m', used.restarts)
        /\ Keeps(m, m', h.cleared) /\ Steady(m, m', cfg.auto)
        /\ good /\ saved => Filed(m, m', h.cleared)
        /\ used' \in Bounds /\ used'.jobs = used.jobs /\ used'.restarts = used.restarts
        /\ IF good /\ saved /\ back THEN Answer ELSE Settle
        /\ h' = [h EXCEPT !.done = IF good /\ saved /\ back THEN @ \cup {run.n} ELSE @,
                          !.strayed = Strayed(m', cfg, host, ~back),
                          !.resumed = IF Job.by = "repl" THEN NoSession ELSE @]
  BY EndRunFacts
<1>2. /\ run.phase = "run" /\ owed' = (owed \/ Job.by = "repl")
      /\ UNCHANGED <<host, cfg, cfgFile, direct>>
  BY DEF EndRun
<1>3. /\ queue # <<>> /\ Job.n = run.n /\ m.current = run.room /\ run.n \in m.agent.turns
  BY <1>2 DEF RoomsInv, RunSound
<1>4. /\ m \in Manager /\ ManagerSound(m, h.owner, h.cleared) /\ h \in History
      /\ used.jobs \in Nat /\ h.started \in Nat
  BY DEF RoomsInv, Types, Bounds, History
<1>5. QueueSound(queue, host, used.jobs, h.started, FALSE)
  BY <1>2 DEF RoomsInv
<1>6. QueueSound(Tail(queue), host, used.jobs, h.started, TRUE)
  BY <1>3, <1>4, <1>5, HeadLeaves
<1>7. /\ QueueSound(queue', host, used.jobs, h.started, run'.phase = "idle")
      /\ queue' \in Seq(JobType) /\ run' \in RunType /\ run'.phase # "run"
      /\ run'.phase # "idle" => queue' # <<>>
  <2>1. Settle \/ Answer
    BY <1>1
  <2>2. QED
    BY <2>1, <1>3, <1>5, <1>6, Settles
<1>8. run.n \in Turns /\ m.agent.id \in Sessions
  BY <1>3, <1>4 DEF Manager, Session
<1>9. /\ h' \in History /\ h'.owner = h.owner /\ h'.cleared = h.cleared
      /\ h'.done = IF good /\ saved /\ back THEN h.done \cup {run.n} ELSE h.done
      /\ h'.started = h.started /\ h'.strayed = Strayed(m', cfg, host, ~back)
      /\ h'.split = h.split
  <2>1. Strayed(m', cfg, host, ~back) \in BOOLEAN
    BY DEF Strayed
  <2>2. QED
    BY <1>1, <1>4, <1>8, <2>1 DEF History
<1>10. SplitSound(m', h'.split, cfg.auto \cap cfgFile.auto)
  BY <1>1, <1>9 DEF RoomsInv, SplitSound, Steady
<1>11. DoneSound(m', h')
  <2>1. DoneSound(m', h)
    BY <1>1, <1>4, DoneKept DEF RoomsInv
  <2>2. ASSUME good, saved, run.n \notin h.cleared
        PROVE  m'.disk[m.agent.id].tag \in h.owner[run.n] /\ run.n \in m'.disk[m.agent.id].turns
    <3>1. run.n \in m'.disk[m.agent.id].turns
      BY <1>1, <1>3, <2>2 DEF Filed
    <3>2. QED
      BY <3>1, <1>1, <1>8 DEF ManagerSound, FilesSound
  <2>3. QED
    BY <2>1, <2>2, <1>8, <1>9 DEF DoneSound
<1>12. RestSound'
  <2>1. m'.current # Home(cfg, host) => Strayed(m', cfg, host, ~back)
    <3>1. run.resting # Home(cfg, host) => h.strayed
      BY <1>2 DEF RoomsInv, RestSound
    <3>2. QED
      BY <1>1, <3>1 DEF Strayed
  <2>2. QED
    BY <1>2, <1>7, <1>9, <2>1 DEF RestSound, Home
<1>13. RunSound'
  BY <1>7 DEF RunSound
<1>14. Types'
  <2>1. owed' \in BOOLEAN
    BY <1>2 DEF RoomsInv, Types
  <2>2. QED
    BY <1>1, <1>2, <1>7, <1>9, <2>1 DEF RoomsInv, Types
<1>15. host' = "repl" => Settled(m')
  BY <1>1, <1>2 DEF RoomsInv, Steady
<1>16. QED
  BY <1>1, <1>2, <1>7, <1>9, <1>10, <1>11, <1>12, <1>13, <1>14, <1>15 DEF RoomsInv

\* What a command to room r comes to, as PrivateRooms and the invariant need it.
CommandServed(r, before, cleared, back) ==
  /\ r = RoomOf(Job) /\ HeldBefore(m, r, h.owner, before)
  /\ h.cleared \subseteq cleared /\ cleared \subseteq h.cleared \cup Turns
  /\ m' \in Manager /\ ManagerSound(m', h.owner, cleared)
  /\ m'.current = m.current \/ (~back /\ m'.current = r)
  /\ Open(m') = Open(m) \cup {r} /\ Charged(m', used.restarts)
  /\ Keeps(m, m', cleared) /\ Steady(m, m', cfg.auto)
  /\ Conv(m', r) = IF Job.kind = "clear" THEN {} ELSE before
  /\ SameConvsBut(m, m', r)
  /\ used' \in Bounds /\ used'.jobs = used.jobs /\ used'.restarts = used.restarts
  /\ Settle \/ Answer
  /\ h' = [h EXCEPT !.started = Job.n, !.cleared = cleared,
             !.strayed = Strayed(m', cfg, host, ~back),
             !.event = Seen(IF Job.kind = "clear" THEN "clear" ELSE "visit", r, Job.n)]

LEMMA ServeCommandFacts ==
  ASSUME RoomsInv, ServeCommand
  PROVE  \E r \in Rooms, before \in SUBSET Turns, cleared \in SUBSET Turns, back \in BOOLEAN :
           CommandServed(r, before, cleared, back)
<1>1. /\ m \in Manager /\ ManagerSound(m, h.owner, h.cleared) /\ h \in History
      /\ used.restarts \in 0..MaxRestarts /\ Charged(m, used.restarts)
  BY DEF RoomsInv, Types, Bounds
<1>2. PICK r, x, y, saved, back, k :
        /\ r = RoomOf(Job) /\ x = Activate(m, r)
        /\ y = IF Job.kind = "clear" THEN [x EXCEPT !.agent.turns = {}] ELSE x
        /\ saved \in BOOLEAN /\ back \in BOOLEAN /\ (r # m.current \/ back)
        /\ k \in Nat /\ Fail(k)
        /\ m' = Return(y, r, m.current, TRUE, saved, back)
        /\ Settle \/ Answer
        /\ h' = [h EXCEPT !.started = Job.n,
                   !.cleared = IF Job.kind = "clear" THEN @ \cup x.agent.turns ELSE @,
                   !.strayed = Strayed(m', cfg, host, ~back),
                   !.event = Seen(IF Job.kind = "clear" THEN "clear" ELSE "visit", r, Job.n)]
  <2> DEFINE Served(r, x, y, o) ==
               /\ Fail(Failures(o))
               /\ m' = Return(y, r, m.current, TRUE, o.saved, o.back)
               /\ IF o.saved /\ o.back THEN Answer ELSE Settle
               /\ h' = [h EXCEPT !.started = Job.n,
                          !.cleared = IF Job.kind = "clear" THEN @ \cup x.agent.turns ELSE @,
                          !.strayed = Strayed(m', cfg, host, ~o.back),
                          !.event = Seen(IF Job.kind = "clear" THEN "clear" ELSE "visit",
                                         r, Job.n)]
  <2>1. \E r \in {RoomOf(Job)} : \E x \in {Activate(m, r)} :
        \E y \in {IF Job.kind = "clear" THEN [x EXCEPT !.agent.turns = {}] ELSE x} :
        \E o \in SavesOfReturn(r, m.current, TRUE) : Served(r, x, y, o)
    BY DEF ServeCommand
  <2>2. PICK r, x, y, o :
          /\ r = RoomOf(Job) /\ x = Activate(m, r)
          /\ y = IF Job.kind = "clear" THEN [x EXCEPT !.agent.turns = {}] ELSE x
          /\ o \in SavesOfReturn(r, m.current, TRUE) /\ Served(r, x, y, o)
    <3> HIDE DEF Served
    <3>1. QED
      BY <2>1
  <2>3. /\ o.saved \in BOOLEAN /\ o.back \in BOOLEAN /\ (r # m.current \/ o.back)
        /\ Failures(o) \in Nat
    BY <2>2, SavesOf
  <2>4. PICK k, saved, back : k = Failures(o) /\ saved = o.saved /\ back = o.back
    OBVIOUS
  <2>5. QED
    BY <2>2, <2>3, <2>4, ZenonT(40)
<1>3. Starts({"clear", "look"})
  BY DEF ServeCommand
<1>4. r \in Rooms /\ m.current \in Open(m) /\ m.current \in Rooms
  BY <1>1, <1>2, <1>3, StartFacts DEF Manager
<1>5. used' \in Bounds /\ used'.jobs = used.jobs /\ used'.restarts = used.restarts
  BY <1>2, Failing DEF RoomsInv, Types
<1>6. /\ x \in Manager /\ ManagerSound(x, h.owner, h.cleared)
      /\ x.current = r /\ Open(x) = Open(m) \cup {r} /\ Charged(x, used.restarts)
      /\ Keeps(m, x, h.cleared)
      /\ SameButOpened(m, x, r) /\ Conv(x, r) \subseteq TurnsOf(h.owner, r)
      /\ Steady(m, x, cfg.auto)
  BY <1>1, <1>2, <1>4, Activated
<1>7. PICK before, cleared :
        /\ before = x.agent.turns
        /\ cleared = IF Job.kind = "clear" THEN h.cleared \cup x.agent.turns ELSE h.cleared
  OBVIOUS
<1>8. /\ Conv(x, r) = before /\ HeldBefore(m, r, h.owner, before)
      /\ h.cleared \subseteq cleared /\ cleared \subseteq h.cleared \cup Turns
  <2>1. Conv(x, r) = before
    BY <1>6, <1>7 DEF Conv
  <2>2. before \subseteq Turns
    BY <1>6, <1>7 DEF Manager, Session
  <2>3. QED
    BY <2>1, <2>2, <1>4, <1>6, <1>7 DEF HeldBefore, SameButOpened
<1>9. /\ y \in Manager /\ ManagerSound(y, h.owner, cleared) /\ y.current = r
      /\ y.fresh = x.fresh /\ y.disk = x.disk /\ y.active = x.active
      /\ y.agent.id = x.agent.id /\ y.agent.tag = x.agent.tag
      /\ y.agent.turns = IF Job.kind = "clear" THEN {} ELSE before
  <2>1. CASE Job.kind = "clear"
    <3>1. y = [x EXCEPT !.agent.turns = {}] /\ cleared = h.cleared \cup x.agent.turns
      BY <2>1, <1>2, <1>7
    <3>2. QED
      BY <2>1, <3>1, <1>6, Cleared
  <2>2. CASE Job.kind # "clear"
    BY <2>2, <1>2, <1>6, <1>7
  <2>3. QED
    BY <2>1, <2>2
<1>10. /\ Open(y) = Open(m) \cup {r} /\ Charged(y, used.restarts)
       /\ Keeps(m, y, cleared) /\ Steady(m, y, cfg.auto)
       /\ Conv(y, r) = IF Job.kind = "clear" THEN {} ELSE before
       /\ SameConvsBut(m, y, r)
  <2>1. Open(y) = Open(m) \cup {r} /\ Charged(y, used.restarts)
    BY <1>6, <1>9 DEF Open, Charged
  <2>2. Keeps(m, y, cleared) /\ Steady(m, y, cfg.auto)
    BY <1>6, <1>8, <1>9 DEF Keeps, Steady, Single, Settled
  <2>3. Conv(y, r) = IF Job.kind = "clear" THEN {} ELSE before
    BY <1>9 DEF Conv
  <2>4. SameConvsBut(m, y, r)
    BY <1>6, <1>9 DEF SameButOpened, SameConvsBut, Conv
  <2>5. QED
    BY <2>1, <2>2, <2>3, <2>4
<1>11. /\ m' \in Manager /\ ManagerSound(m', h.owner, cleared)
       /\ m'.current = IF m.current # r /\ back THEN m.current ELSE r
       /\ Open(m') = Open(y) /\ Charged(m', used.restarts) /\ Keeps(y, m', cleared)
       /\ SameConvs(y, m') /\ Steady(y, m', cfg.auto)
  <2>1. PICK good \in BOOLEAN : good = TRUE
    OBVIOUS
  <2>2. m' = Return(y, r, m.current, good, saved, back) /\ m.current \in Open(y)
    BY <2>1, <1>2, <1>4, <1>10
  <2>3. saved \in BOOLEAN /\ back \in BOOLEAN /\ used.restarts \in 0..MaxRestarts
    BY <1>1, <1>2
  <2>4. QED
    BY <2>2, <2>3, <1>4, <1>9, <1>10, Returned
<1>12. Keeps(m, m', cleared)
  BY <1>10, <1>11, KeepsTwice
<1>13. Steady(m, m', cfg.auto) /\ SameConvsBut(m, m', r)
  BY <1>10, <1>11 DEF Steady, SameConvs, SameConvsBut
<1>14. Conv(m', r) = IF Job.kind = "clear" THEN {} ELSE before
  BY <1>4, <1>10, <1>11 DEF SameConvs
<1>15. m'.current = m.current \/ (~back /\ m'.current = r)
  BY <1>2, <1>11
<1>16. h' = [h EXCEPT !.started = Job.n, !.cleared = cleared,
               !.strayed = Strayed(m', cfg, host, ~back),
               !.event = Seen(IF Job.kind = "clear" THEN "clear" ELSE "visit", r, Job.n)]
  BY <1>2, <1>7
<1>17. CommandServed(r, before, cleared, back)
  BY <1>2, <1>5, <1>8, <1>10, <1>11, <1>12, <1>13, <1>14, <1>15, <1>16 DEF CommandServed
<1>18. /\ r \in Rooms /\ back \in BOOLEAN
       /\ before \in SUBSET Turns /\ cleared \in SUBSET Turns
  <2>1. before \in SUBSET Turns /\ h.cleared \in SUBSET Turns
    BY <1>1, <1>6, <1>7 DEF Manager, Session, History
  <2>2. QED
    BY <2>1, <1>2, <1>4, <1>8
<1>19. QED
  BY <1>17, <1>18, Zenon

LEMMA ServeCommandStep ==
  ASSUME RoomsInv, ServeCommand
  PROVE  RoomsInv'
<1>1. PICK r \in Rooms, before \in SUBSET Turns, cleared \in SUBSET Turns, back \in BOOLEAN :
        CommandServed(r, before, cleared, back)
  BY ServeCommandFacts
<1>1a. /\ h.cleared \subseteq cleared /\ cleared \subseteq h.cleared \cup Turns
       /\ m' \in Manager /\ ManagerSound(m', h.owner, cleared)
       /\ m'.current = m.current \/ (~back /\ m'.current = r)
       /\ Charged(m', used.restarts)
       /\ Keeps(m, m', cleared) /\ Steady(m, m', cfg.auto)
       /\ used' \in Bounds /\ used'.jobs = used.jobs /\ used'.restarts = used.restarts
       /\ Settle \/ Answer
       /\ h' = [h EXCEPT !.started = Job.n, !.cleared = cleared,
                  !.strayed = Strayed(m', cfg, host, ~back),
                  !.event = Seen(IF Job.kind = "clear" THEN "clear" ELSE "visit", r, Job.n)]
  BY <1>1 DEF CommandServed
<1>2. UNCHANGED <<host, cfg, cfgFile, owed, direct>> /\ Starts({"clear", "look"})
  BY DEF ServeCommand
<1>3. /\ queue # <<>> /\ Job.n \in Turns /\ Job.n \in 0..MaxJobs
      /\ QueueSound(queue, host, used.jobs, Job.n, FALSE)
      /\ QueueSound(Tail(queue), host, used.jobs, Job.n, TRUE)
      /\ OwnersSound(h.owner, Job.n)
      /\ m.current # Home(cfg, host) => h.strayed
  BY <1>2, StartFacts
<1>4. /\ m \in Manager /\ ManagerSound(m, h.owner, h.cleared) /\ h \in History
  BY DEF RoomsInv, Types
<1>5. /\ QueueSound(queue', host, used.jobs, Job.n, run'.phase = "idle")
      /\ queue' \in Seq(JobType) /\ run' \in RunType /\ run'.phase # "run"
      /\ run'.phase # "idle" => queue' # <<>>
  BY <1>1a, <1>3, Settles
<1>6. /\ h' \in History /\ h'.owner = h.owner /\ h'.cleared = cleared
      /\ h'.done = h.done /\ h'.started = Job.n
      /\ h'.strayed = Strayed(m', cfg, host, ~back) /\ h'.split = h.split
  <2>1. Strayed(m', cfg, host, ~back) \in BOOLEAN
    BY DEF Strayed
  <2>2. cleared \in SUBSET Turns
    BY <1>1a, <1>4 DEF History
  <2>3. Seen(IF Job.kind = "clear" THEN "clear" ELSE "visit", r, Job.n)
          \in [what : {"start", "restart", "adopt", "say", "clear", "visit", "resume"},
               room : Rooms \cup {NoRoom}, by : Turns \cup {0}]
    BY <1>3 DEF Seen
  <2>4. QED
    BY <1>1a, <1>3, <1>4, <2>1, <2>2, <2>3, ZenonT(40) DEF History
<1>7. SplitSound(m', h'.split, cfg.auto \cap cfgFile.auto)
  BY <1>1a, <1>6 DEF RoomsInv, SplitSound, Steady
<1>8. DoneSound(m', h')
  <2>1. ManagerSound(m', h'.owner, h'.cleared)
    BY <1>1a, <1>6
  <2>2. DoneSound(m, h) /\ Keeps(m, m', h'.cleared) /\ h.cleared \subseteq h'.cleared
    BY <1>1a, <1>6 DEF RoomsInv
  <2>3. QED
    BY <2>1, <2>2, <1>1a, <1>4, <1>6, DoneKept
<1>9. RestSound'
  <2>1. m'.current # Home(cfg, host) => Strayed(m', cfg, host, ~back)
    BY <1>1a, <1>3 DEF Strayed
  <2>2. QED
    BY <1>2, <1>5, <1>6, <2>1 DEF RestSound, Home
<1>10. RunSound'
  BY <1>5 DEF RunSound
<1>11. Types'
  BY <1>1a, <1>2, <1>5, <1>6 DEF RoomsInv, Types
<1>12. host' = "repl" => Settled(m')
  BY <1>1a, <1>2 DEF RoomsInv, Steady
<1>13. QED
  BY <1>1a, <1>2, <1>3, <1>5, <1>6, <1>7, <1>8, <1>9, <1>10, <1>11, <1>12 DEF RoomsInv

LEMMA ServeMoveStep ==
  ASSUME RoomsInv, ServeMove
  PROVE  RoomsInv'
<1>1. PICK r, done, k :
        /\ r = Job.room /\ done \in {"nothing", "binding", "all"}
        /\ cfg' = [cfg EXCEPT !.bind["repl"] = r]
        /\ k \in Nat /\ Fail(k)
        /\ cfgFile' = IF done = "nothing" THEN cfgFile ELSE cfg'
        /\ m' = IF done = "all" THEN Activate(m, r) ELSE m
        /\ h' = [h EXCEPT !.started = Job.n, !.resumed = NoSession,
                   !.strayed = Strayed(m', cfg', host, done # "all"),
                   !.event = IF done = "all" THEN Seen("visit", r, Job.n) ELSE @]
  <2>1. PICK done \in {"nothing", "binding", "all"} :
          /\ cfg' = [cfg EXCEPT !.bind["repl"] = Job.room]
          /\ Fail(IF done = "all" THEN 0 ELSE 1)
          /\ cfgFile' = IF done = "nothing" THEN cfgFile ELSE cfg'
          /\ m' = IF done = "all" THEN Activate(m, Job.room) ELSE m
          /\ h' = [h EXCEPT !.started = Job.n, !.resumed = NoSession,
                     !.strayed = Strayed(m', cfg', host, done # "all"),
                     !.event = IF done = "all" THEN Seen("visit", Job.room, Job.n) ELSE @]
    BY DEF ServeMove
  <2>2. PICK k : k = IF done = "all" THEN 0 ELSE 1
    OBVIOUS
  <2>3. k \in Nat
    BY <2>2
  <2>4. QED
    BY <2>1, <2>2, <2>3
<1>2. Starts({"move"}) /\ Settle /\ UNCHANGED <<host, owed, direct>>
  BY DEF ServeMove
<1>3. /\ queue # <<>> /\ run.phase = "idle" /\ Job.n \in Turns /\ Job.n \in 0..MaxJobs
      /\ r \in Rooms /\ host = "repl"
      /\ QueueSound(queue, host, used.jobs, Job.n, FALSE)
      /\ QueueSound(Tail(queue), host, used.jobs, Job.n, TRUE)
      /\ OwnersSound(h.owner, Job.n)
  BY <1>1, <1>2, StartFacts
<1>4. /\ m \in Manager /\ ManagerSound(m, h.owner, h.cleared) /\ h \in History
      /\ used \in Bounds /\ used.restarts \in 0..MaxRestarts /\ Charged(m, used.restarts)
      /\ cfg \in Config /\ cfgFile \in Config
  BY DEF RoomsInv, Types, Bounds
<1>5. used' \in Bounds /\ used'.jobs = used.jobs /\ used'.restarts = used.restarts
  BY <1>1, <1>4, Failing
<1>6. /\ cfg' \in Config /\ cfg'.bind["repl"] = r /\ cfg'.auto = cfg.auto
      /\ cfgFile' \in Config /\ (cfgFile'.auto = cfgFile.auto \/ cfgFile'.auto = cfg.auto)
  BY <1>1, <1>3, <1>4 DEF Config, Surfaces
<1>7. /\ m' \in Manager /\ ManagerSound(m', h.owner, h.cleared)
      /\ done = "all" => m'.current = r
      /\ Charged(m', used.restarts) /\ Keeps(m, m', h.cleared)
      /\ Steady(m, m', cfg.auto)
  <2>1. CASE done = "all"
    <3>1. m' = Activate(m, r)
      BY <2>1, <1>1
    <3>2. QED
      BY <3>1, <1>3, <1>4, Activated
  <2>2. CASE done # "all"
    <3>1. m' = m
      BY <2>2, <1>1
    <3>2. QED
      BY <2>2, <3>1, <1>4 DEF Keeps, Steady
  <2>3. QED
    BY <2>1, <2>2
<1>8. /\ QueueSound(queue', host, used.jobs, Job.n, run'.phase = "idle")
      /\ queue' \in Seq(JobType) /\ run' \in RunType /\ run'.phase # "run"
      /\ run'.phase # "idle" => queue' # <<>>
  BY <1>2, <1>3, Settles
<1>9. /\ h' \in History /\ h'.owner = h.owner /\ h'.cleared = h.cleared
      /\ h'.done = h.done /\ h'.started = Job.n
      /\ h'.strayed = Strayed(m', cfg', host, done # "all") /\ h'.split = h.split
  <2>1. Strayed(m', cfg', host, done # "all") \in BOOLEAN
    BY DEF Strayed
  <2>2. Seen("visit", r, Job.n)
          \in [what : {"start", "restart", "adopt", "say", "clear", "visit", "resume"},
               room : Rooms \cup {NoRoom}, by : Turns \cup {0}]
    BY <1>3 DEF Seen
  <2>3. QED
    BY <1>1, <1>3, <1>4, <2>1, <2>2, ZenonT(40) DEF History
<1>10. SplitSound(m', h'.split, cfg'.auto \cap cfgFile'.auto)
  BY <1>6, <1>7, <1>9 DEF RoomsInv, SplitSound, Steady
<1>11. DoneSound(m', h')
  <2>1. DoneSound(m, h) /\ ManagerSound(m', h'.owner, h'.cleared) /\ Keeps(m, m', h'.cleared)
    BY <1>7, <1>9 DEF RoomsInv
  <2>2. QED
    BY <2>1, <1>4, <1>7, <1>9, DoneKept
<1>12. RestSound'
  <2>1. m'.current # Home(cfg', host) => Strayed(m', cfg', host, done # "all")
    BY <1>3, <1>6, <1>7 DEF Strayed, Home
  <2>2. QED
    BY <1>2, <1>8, <1>9, <2>1 DEF RestSound
<1>13. RunSound'
  BY <1>8 DEF RunSound
<1>14. Types'
  BY <1>2, <1>5, <1>6, <1>7, <1>8, <1>9 DEF RoomsInv, Types
<1>15. Settled(m')
  BY <1>3, <1>7 DEF RoomsInv, Steady
<1>16. QED
  BY <1>2, <1>3, <1>5, <1>7, <1>8, <1>9, <1>10, <1>11, <1>12, <1>13, <1>14, <1>15 DEF RoomsInv

LEMMA ServeResumeFacts ==
  ASSUME RoomsInv, ServeResume
  PROVE  LET r == Job.room
         IN  /\ r \in Rooms /\ m' \in Manager /\ ManagerSound(m', h.owner, h.cleared)
             /\ m'.current = m.current /\ m'.fresh = m.fresh /\ m'.disk = m.disk
             /\ Steady(m, m', Rooms)
             /\ \/ /\ m' = m
                   /\ h' = [h EXCEPT !.started = Job.n, !.resumed = NoSession]
                \/ /\ Open(m') = Open(m) \cup {r} /\ SameConvsBut(m, m', r)
                   /\ Conv(m', r) \subseteq TurnsOf(h.owner, r)
                   /\ h' = [h EXCEPT !.started = Job.n, !.resumed = NoSession,
                                     !.event = Seen("resume", r, Job.n)]
<1> DEFINE latest == LatestOf(m, Job.room)
<1>1. PICK r : r = Job.room
  OBVIOUS
<1>2. r \in Rooms /\ Settled(m)
  <2>1. Starts({"resume"})
    BY DEF ServeResume
  <2>2. r \in Rooms /\ host = "repl"
    BY <2>1, <1>1, StartFacts
  <2>3. QED
    BY <2>2 DEF RoomsInv
<1>3. m \in Manager /\ ManagerSound(m, h.owner, h.cleared) /\ h \in History
  BY DEF RoomsInv, Types
<1>4. latest \in Sessions \cup {NoSession} /\ (latest # NoSession => m.disk[latest].tag = r)
  BY <1>1, <1>2, <1>3, LatestFound DEF ManagerSound, Manager
<1>5. /\ m' = IF latest = NoSession THEN m
              ELSE [m EXCEPT !.active[r] = latest,
                             !.agent = IF m.current = r THEN Load(m, latest) ELSE @]
      /\ h' = [h EXCEPT !.started = Job.n, !.resumed = NoSession,
                 !.event = IF latest = NoSession THEN @ ELSE Seen("resume", r, Job.n)]
  BY <1>1 DEF ServeResume
<1> HIDE DEF latest
<1>6. CASE latest = NoSession
  <2>1. m' = m
    BY <1>5, <1>6
  <2>2. h' = [h EXCEPT !.started = Job.n, !.resumed = NoSession]
    BY <1>3, <1>5, <1>6 DEF History
  <2>3. Steady(m, m', Rooms)
    BY <2>1 DEF Steady
  <2>4. QED
    BY <2>1, <2>2, <2>3, <1>1, <1>2, <1>3
<1>7. CASE latest # NoSession
  <2>1. PICK s \in Sessions : s = latest /\ m.disk[s].tag = r
    BY <1>4, <1>7
  <2>2. m' = Reopened(m, r, s)
    BY <2>1, <1>5, <1>7 DEF Reopened
  <2>3. h' = [h EXCEPT !.started = Job.n, !.resumed = NoSession,
                       !.event = Seen("resume", r, Job.n)]
    BY <1>5, <1>7
  <2>4. /\ m' \in Manager /\ ManagerSound(m', h.owner, h.cleared)
        /\ m'.current = m.current /\ m'.fresh = m.fresh /\ m'.disk = m.disk
        /\ Open(m') = Open(m) \cup {r} /\ SameConvsBut(m, m', r)
        /\ Conv(m', r) \subseteq TurnsOf(h.owner, r) /\ Steady(m, m', Rooms)
    BY <2>1, <2>2, <1>2, <1>3, Resumed
  <2>5. QED
    BY <2>3, <2>4, <1>1, <1>2
<1>8. QED
  BY <1>6, <1>7

LEMMA ServeResumeStep ==
  ASSUME RoomsInv, ServeResume
  PROVE  RoomsInv'
<1>1. PICK r \in Rooms :
        /\ m' \in Manager /\ ManagerSound(m', h.owner, h.cleared)
        /\ m'.current = m.current /\ m'.fresh = m.fresh /\ m'.disk = m.disk
        /\ Steady(m, m', Rooms) /\ (m' = m \/ Open(m') = Open(m) \cup {r})
        /\ \/ h' = [h EXCEPT !.started = Job.n, !.resumed = NoSession]
           \/ h' = [h EXCEPT !.started = Job.n, !.resumed = NoSession,
                             !.event = Seen("resume", r, Job.n)]
  BY ServeResumeFacts
<1>2. /\ Starts({"resume"}) /\ Settle
      /\ UNCHANGED <<host, cfg, cfgFile, owed, direct, used>>
  BY DEF ServeResume
<1>3. /\ queue # <<>> /\ Job.n \in Turns /\ Job.n \in 0..MaxJobs
      /\ QueueSound(queue, host, used.jobs, Job.n, FALSE)
      /\ QueueSound(Tail(queue), host, used.jobs, Job.n, TRUE)
      /\ OwnersSound(h.owner, Job.n)
      /\ m.current # Home(cfg, host) => h.strayed
  BY <1>2, StartFacts
<1>4. /\ m \in Manager /\ ManagerSound(m, h.owner, h.cleared) /\ h \in History
      /\ used.restarts \in 0..MaxRestarts /\ Charged(m, used.restarts)
  BY DEF RoomsInv, Types, Bounds
<1>5. Charged(m', used.restarts)
  <2>1. /\ Cardinality(Open(m)) \in Nat /\ IsFiniteSet(Open(m))
    BY <1>1, <1>4, OpenCount
  <2>2. Cardinality(Open(m')) \in Nat /\ Cardinality(Open(m)) <= Cardinality(Open(m'))
    BY <2>1, <1>1, <1>4, OpenCount
  <2>3. used.restarts * Cardinality(Rooms) \in Nat /\ m.fresh \in Nat
    BY <1>4, ChargeBound, ConstantFacts DEF Manager
  <2>4. QED
    BY <2>1, <2>2, <2>3, <1>1, <1>4 DEF Charged
<1>6. /\ QueueSound(queue', host, used.jobs, Job.n, run'.phase = "idle")
      /\ queue' \in Seq(JobType) /\ run' \in RunType /\ run'.phase # "run"
      /\ run'.phase # "idle" => queue' # <<>>
  BY <1>2, <1>3, Settles
<1>7. /\ h' \in History /\ h'.owner = h.owner /\ h'.cleared = h.cleared
      /\ h'.done = h.done /\ h'.started = Job.n /\ h'.strayed = h.strayed
      /\ h'.split = h.split
  <2>1. Seen("resume", r, Job.n)
          \in [what : {"start", "restart", "adopt", "say", "clear", "visit", "resume"},
               room : Rooms \cup {NoRoom}, by : Turns \cup {0}]
    BY <1>3 DEF Seen
  <2>2. QED
    BY <1>1, <1>3, <1>4, <2>1, ZenonT(40) DEF History
<1>8. SplitSound(m', h'.split, cfg.auto \cap cfgFile.auto)
  BY <1>1, <1>7 DEF RoomsInv, SplitSound, Steady
<1>9. DoneSound(m', h')
  BY <1>1, <1>7 DEF RoomsInv, DoneSound
<1>10. RestSound'
  BY <1>1, <1>2, <1>3, <1>6, <1>7 DEF RestSound, Home
<1>11. RunSound'
  BY <1>6 DEF RunSound
<1>12. Types'
  BY <1>1, <1>2, <1>6, <1>7 DEF RoomsInv, Types
<1>13. host' = "repl" => Settled(m')
  BY <1>1, <1>2 DEF RoomsInv, Steady
<1>14. QED
  BY <1>1, <1>2, <1>3, <1>5, <1>6, <1>7, <1>8, <1>9, <1>10, <1>11, <1>12, <1>13 DEF RoomsInv

\* The rooms that this process resumes, but for the one a REPL has just begun,
\* have one session as before.
StartsSingle(x, y, rooms, fresh) ==
  \A r \in Rooms \cap rooms : Single(x, r) /\ (fresh => r # y.current) => Single(y, r)

LEMMA RestartFacts ==
  ASSUME RoomsInv, NEW hst \in Surfaces, NEW resumed \in Sessions \cup {NoSession},
         NEW rescued \in BOOLEAN, Restart(hst, resumed, rescued)
  PROVE  /\ m' \in Manager /\ ManagerSound(m', Adopted(m'.agent), {}) /\ m'.current \in Rooms
         /\ Open(m') = {m'.current} /\ Charged(m', used.restarts + 1)
         /\ Source(m') \in Rooms /\ Conv(m', m'.current) \subseteq TurnsOf(h.owner, Source(m'))
         /\ Keeps(m, m', h.cleared) /\ (hst = "repl" => Settled(m'))
         /\ StartsSingle(m, m', cfgFile.auto, hst = "repl" /\ resumed = NoSession)
<1>1. PICK x : x = IF rescued THEN Saved(m) ELSE m
  OBVIOUS
<1>2. /\ used.restarts < MaxRestarts
      /\ resumed # NoSession => x.disk[resumed] # NoFile
      /\ m' = Boot(x, cfgFile, hst, resumed)
  BY <1>1 DEF Restart
<1>3. /\ m \in Manager /\ ManagerSound(m, h.owner, h.cleared) /\ cfgFile \in Config
      /\ used.restarts \in 0..MaxRestarts /\ Charged(m, used.restarts)
  BY DEF RoomsInv, Types, Bounds
<1>4. /\ x \in Manager /\ ManagerSound(x, h.owner, h.cleared) /\ x.fresh = m.fresh
      /\ Keeps(m, x, h.cleared) /\ Steady(m, x, Rooms)
  <2>1. CASE rescued
    BY <2>1, <1>1, <1>3, SavedKept, SavedFields
  <2>2. CASE ~rescued
    BY <2>2, <1>1, <1>3 DEF Keeps, Steady
  <2>3. QED
    BY <2>1, <2>2
<1>5. /\ x.fresh \in Nat /\ used.restarts * Cardinality(Rooms) \in Nat
      /\ (used.restarts + 1) * Cardinality(Rooms)
           = used.restarts * Cardinality(Rooms) + Cardinality(Rooms)
      /\ Cardinality(Rooms) \in Nat /\ Cardinality(Rooms) >= 1
      /\ x.fresh <= used.restarts * Cardinality(Rooms) + Cardinality(Rooms) + 1
  <2>1. Cardinality(Open(m)) \in Nat /\ Cardinality(Open(m)) <= Cardinality(Rooms)
    BY <1>3, OpenCount, ConstantFacts, RoomsConstants DEF Manager
  <2>2. x.fresh \in Nat
    BY <1>4, ConstantFacts DEF Manager
  <2>3. QED
    BY <1>3, <1>4, <2>1, <2>2, ChargeBound, ConstantFacts, SMTT(20) DEF Charged
<1>6. x.fresh <= Cardinality(Sessions)
  <2>1. used.restarts + 1 \in 0..MaxRestarts
    BY <1>2, <1>3, RoomsConstants
  <2>2. PICK k \in 0..MaxRestarts : k = used.restarts + 1
    BY <2>1
  <2>3. k * Cardinality(Rooms) + Cardinality(Rooms) <= Cardinality(Sessions)
    BY ChargeBound
  <2>4. k * Cardinality(Rooms) \in Nat /\ Cardinality(Sessions) \in Nat
    BY ChargeBound, ConstantFacts
  <2>5. k * Cardinality(Rooms) = used.restarts * Cardinality(Rooms) + Cardinality(Rooms)
    BY <1>5, <2>2
  <2>6. QED
    BY <1>5, <2>3, <2>4, <2>5
<1>7. /\ m' \in Manager /\ ManagerSound(m', Adopted(m'.agent), {}) /\ Open(m') = {m'.current}
      /\ m'.fresh <= x.fresh + 1 /\ m'.disk = x.disk
      /\ Source(m') \in Rooms /\ Conv(m', m'.current) \subseteq TurnsOf(h.owner, Source(m'))
      /\ hst = "repl" => Settled(m')
      /\ BootsSingle(x, m', cfgFile.auto, hst = "repl" /\ resumed = NoSession)
  <2>1. FilesSound(x.disk, x.age, x.fresh, h.owner)
    BY <1>4 DEF ManagerSound
  <2>2. PICK c \in Config : c = cfgFile
    BY <1>3
  <2>3. m' = Boot(x, c, hst, resumed)
    BY <1>2, <2>2
  <2>4. resumed # NoSession => x.disk[resumed] # NoFile
    BY <1>2
  <2>5. Adopted(m'.agent) = Owners(h.owner, m'.agent)
    BY DEF Adopted, Owners
  <2>6. PICK owner : owner = h.owner
    OBVIOUS
  <2>7. LET y == Boot(x, c, hst, resumed)
        IN  /\ y \in Manager /\ ManagerSound(y, Owners(owner, y.agent), {})
            /\ Open(y) = {y.current} /\ y.fresh <= x.fresh + 1 /\ y.disk = x.disk
            /\ Source(y) \in Rooms /\ Conv(y, y.current) \subseteq TurnsOf(owner, Source(y))
            /\ hst = "repl" => Settled(y)
            /\ BootsSingle(x, y, c.auto, hst = "repl" /\ resumed = NoSession)
    BY <1>4, <1>6, <2>1, <2>2, <2>4, <2>6, Booted
  <2>8. QED
    BY <2>2, <2>3, <2>5, <2>6, <2>7
<1>8. Charged(m', used.restarts + 1)
  <2>1. Cardinality(Open(m')) = 1
    BY <1>7, FS_Singleton
  <2>2. m'.fresh \in Nat
    BY <1>7, ConstantFacts DEF Manager
  <2>3. QED
    BY <1>5, <1>7, <2>1, <2>2 DEF Charged
<1>9. StartsSingle(m, m', cfgFile.auto, hst = "repl" /\ resumed = NoSession)
  BY <1>4, <1>7 DEF StartsSingle, BootsSingle, Steady, Single, FileSingle
<1>10. Keeps(m, m', h.cleared)
  BY <1>4, <1>7 DEF Keeps
<1>11. m'.current \in Rooms
  BY <1>7 DEF Manager
<1>12. QED
  BY <1>7, <1>8, <1>9, <1>10, <1>11

LEMMA RestartStep ==
  ASSUME RoomsInv, NEW hst \in Surfaces, NEW resumed \in Sessions \cup {NoSession},
         NEW rescued \in BOOLEAN, Restart(hst, resumed, rescued)
  PROVE  RoomsInv'
<1>1. /\ m' \in Manager /\ ManagerSound(m', Adopted(m'.agent), {}) /\ m'.current \in Rooms
      /\ Charged(m', used.restarts + 1) /\ Keeps(m, m', h.cleared)
      /\ Source(m') \in Rooms /\ Conv(m', m'.current) \subseteq TurnsOf(h.owner, Source(m'))
      /\ hst = "repl" => Settled(m')
      /\ StartsSingle(m, m', cfgFile.auto, hst = "repl" /\ resumed = NoSession)
  BY RestartFacts
<1>2. /\ used.restarts < MaxRestarts /\ used' = [used EXCEPT !.restarts = @ + 1]
      /\ host' = hst /\ cfg' = cfgFile /\ cfgFile' = cfgFile
      /\ queue' = <<>> /\ run' = Idle /\ owed' = FALSE /\ direct' = 0
      /\ h' = [h EXCEPT !.resumed = IF hst = "repl" THEN resumed ELSE NoSession,
                        !.started = used.jobs, !.owner = Adopted(m'.agent),
                        !.strayed = m'.current # Home(cfg', hst),
                        !.split = IF hst = "repl" /\ resumed = NoSession
                                  THEN @ \cup {m'.current} ELSE @,
                        !.event = Seen(IF m'.disk[m'.agent.id].tag \in {NoRoom, m'.current}
                                       THEN "restart" ELSE "adopt", m'.current, 0)]
  BY DEF Restart
<1>3. /\ m \in Manager /\ ManagerSound(m, h.owner, h.cleared) /\ h \in History
      /\ cfgFile \in Config /\ used \in Bounds
  BY DEF RoomsInv, Types
<1>4. used' \in Bounds /\ used'.jobs = used.jobs /\ used'.restarts = used.restarts + 1
  BY <1>2, <1>3, RoomsConstants DEF Bounds
<1>5. /\ h' \in History /\ h'.owner = Adopted(m'.agent) /\ h'.cleared = h.cleared
      /\ h'.done = h.done /\ h'.started = used.jobs
      /\ h'.strayed = (m'.current # Home(cfg', hst))
      /\ h'.split = IF hst = "repl" /\ resumed = NoSession
                    THEN h.split \cup {m'.current} ELSE h.split
  <2>1. PICK strayed \in BOOLEAN : strayed = (m'.current # Home(cfg', hst))
    OBVIOUS
  <2>2. used.jobs \in 0..MaxJobs
    BY <1>3 DEF Bounds
  <2>3. Seen(IF m'.disk[m'.agent.id].tag \in {NoRoom, m'.current} THEN "restart" ELSE "adopt",
             m'.current, 0)
          \in [what : {"start", "restart", "adopt", "say", "clear", "visit", "resume"},
               room : Rooms \cup {NoRoom}, by : Turns \cup {0}]
    BY <1>1 DEF Seen
  <2>4. Adopted(m'.agent) \in [Turns -> SUBSET Rooms]
    BY <1>1, <1>3 DEF Adopted, History, Manager, Session
  <2>5. (IF hst = "repl" THEN resumed ELSE NoSession) \in Sessions \cup {NoSession}
    OBVIOUS
  <2>6. QED
    BY <1>1, <1>2, <1>3, <2>1, <2>2, <2>3, <2>4, <2>5, ZenonT(40) DEF History
<1>6. QueueSound(<<>>, hst, used.jobs, used.jobs, TRUE)
  BY <1>3 DEF QueueSound, Bounds
<1>7. OwnersSound(h'.owner, used.jobs)
  <2>1. h.started \in Nat /\ used.jobs \in Nat /\ h.started <= used.jobs
    BY <1>3 DEF RoomsInv, QueueSound, History, Bounds
  <2>2. \A n \in Turns : n > used.jobs => h.owner[n] = {}
    BY <2>1 DEF RoomsInv, OwnersSound, Turns
  <2>3. m'.agent.turns \subseteq TurnsOf(h.owner, Source(m'))
    BY <1>1 DEF Conv
  <2>4. \A n \in Turns : n > used.jobs => n \notin m'.agent.turns
    BY <2>2, <2>3 DEF TurnsOf
  <2>5. QED
    BY <2>2, <2>4, <1>5 DEF OwnersSound, Adopted
<1>8. ManagerSound(m', h'.owner, h.cleared)
  BY <1>1, <1>5, MoreCleared
<1>9. SplitSound(m', h'.split, cfg'.auto \cap cfgFile'.auto)
  BY <1>1, <1>2, <1>5 DEF RoomsInv, SplitSound, StartsSingle
<1>10. DoneSound(m', h')
  <2>1. DoneSound(m, h) /\ ManagerSound(m', h'.owner, h'.cleared) /\ Keeps(m, m', h'.cleared)
    BY <1>1, <1>5, <1>8 DEF RoomsInv
  <2>2. QED
    BY <2>1, <1>1, <1>3, <1>5, DoneKept
<1>11. RestSound' /\ RunSound'
  BY <1>2, <1>5 DEF RestSound, RunSound, Idle
<1>12. Types'
  <2>1. Idle \in RunType
    BY DEF Idle, RunType
  <2>2. <<>> \in Seq(JobType)
    BY <1>6 DEF QueueSound
  <2>3. QED
    BY <1>1, <1>2, <1>3, <1>4, <1>5, <2>1, <2>2 DEF Types
<1>13. run'.phase = "idle"
  BY <1>2 DEF Idle
<1>14. QED
  BY <1>1, <1>2, <1>4, <1>5, <1>6, <1>7, <1>8, <1>9, <1>10, <1>11, <1>12, <1>13 DEF RoomsInv

LEMMA NextInv ==
  ASSUME RoomsInv, [RoomsNext]_vars
  PROVE  RoomsInv'
<1>1. CASE Serve
  <2>1. CASE EndRun(TRUE)
    <3>1. PICK good \in BOOLEAN : good = TRUE
      OBVIOUS
    <3>2. QED
      BY <2>1, <3>1, EndRunStep
  <2>2. CASE EndRun(FALSE)
    <3>1. PICK good \in BOOLEAN : good = FALSE
      OBVIOUS
    <3>2. QED
      BY <2>2, <3>1, EndRunStep
  <2>3. QED
    BY <1>1, <2>1, <2>2, StartRunStep, EntryFailsStep, DeliverStep, ServeCommandStep,
       ServeMoveStep, ServeResumeStep, SaveTurnStep DEF Serve
<1>2. CASE ReplEnqueues \/ \E s \in Remotes : RemoteEnqueues(s)
  BY <1>2, ArrivalStep
<1>3. ASSUME NEW r \in Rooms, SetAutoResume(r) PROVE RoomsInv'
  BY <1>3, SetAutoResumeStep
<1>4. ASSUME NEW hst \in Surfaces, NEW s \in Sessions \cup {NoSession},
             NEW rescued \in BOOLEAN, Restart(hst, s, rescued)
      PROVE  RoomsInv'
  BY <1>4, RestartStep
<1>5. CASE UNCHANGED vars
  BY <1>5 DEF vars, RoomsInv, Types, RunSound, RestSound, Home, Job
<1>6. QED
  BY <1>1, <1>2, <1>3, <1>4, <1>5 DEF RoomsNext

\* The inductive invariant holds of every behaviour of the rooms, the queue and the
\* agent.
THEOREM InvHolds == RoomsSpec => []RoomsInv
BY InitInv, NextInv, PTL DEF RoomsSpec

-----------------------------------------------------------------------------
(* The properties that the runs check. *)

\* Every state of the rooms has its type: no session id is given out twice or
\* runs out, and no two files are equally new.
THEOREM RoomsTypesHold == RoomsSpec => []RoomsTypeOK
<1>1. ASSUME RoomsInv PROVE RoomsTypeOK
  <2>1. /\ {cfg, cfgFile} \subseteq Config
        /\ m.current \in Rooms /\ m.agent \in Session
        /\ m.active \in [Rooms -> Sessions \cup {NoSession}]
        /\ m.disk \in [Sessions -> File] /\ m.age \in [Sessions -> Sessions]
        /\ m.fresh \in 1..Cardinality(Sessions) + 1
    BY <1>1 DEF RoomsInv, Types, Manager
  <2>2. \A s, t \in Sessions : m.age[s] = m.age[t] => s = t
    BY <1>1 DEF RoomsInv, ManagerSound, FilesSound, RanksSound
  <2>3. /\ host \in Surfaces /\ queue \in Seq(JobType) /\ run \in RunType
        /\ owed \in BOOLEAN /\ direct \in Turns \cup {0}
    BY <1>1 DEF RoomsInv, Types
  <2>4. QED
    BY <2>1, <2>2, <2>3 DEF RoomsTypeOK, Config, Session, File, JobType, RunType
<1>2. QED
  BY <1>1, InvHolds, PTL

\* Nothing that a restart, a job of another surface, a command or a failing save
\* does moves the agent to another room while a run is in progress.
THEOREM RunsKeepTheirRoom == RoomsSpec => []RunKeepsItsRoom
<1>1. ASSUME RoomsInv PROVE RunKeepsItsRoom
  BY <1>1 DEF RoomsInv, RunSound, ManagerSound, RunKeepsItsRoom
<1>2. QED
  BY <1>1, InvHolds, PTL

\* The turn of a job that succeeded stays in a file of its room, over restarts,
\* failing saves and later jobs; or of the bot that was started with its session
\* (--resume with --background or --slack).
THEOREM DoneStaysOnDisk == RoomsSpec => []DoneIsOnDisk
<1>1. ASSUME RoomsInv PROVE DoneIsOnDisk
  BY <1>1 DEF RoomsInv, DoneSound, DoneIsOnDisk
<1>2. QED
  BY <1>1, InvHolds, PTL

\* Between jobs the agent is at home, but for a failed save or a --resume.
THEOREM AgentRestsAtHome == RoomsSpec => []RestsAtHome
<1>1. ASSUME RoomsInv PROVE RestsAtHome
  BY <1>1 DEF RoomsInv, RestSound, RestsAtHome
<1>2. QED
  BY <1>1, InvHolds, PTL

\* A room that resumes by itself never gets a second conversation.
THEOREM RoomsStayOneConversation == RoomsSpec => []OneConversation
<1>1. ASSUME RoomsInv PROVE OneConversation
  <2> SUFFICES ASSUME NEW r \in Rooms \ h.split
               PROVE  Cardinality({s \in Sessions : m.disk[s].tag = r}
                        \cup (IF m.agent.tag = r THEN {m.agent.id} ELSE {})) <= 1
    BY DEF OneConversation
  <2> DEFINE S == {s \in Sessions : m.disk[s].tag = r}
                    \cup (IF m.agent.tag = r THEN {m.agent.id} ELSE {})
  <2>1. Single(m, r)
    BY <1>1 DEF RoomsInv, SplitSound
  <2>2. \A s, t \in S : s = t
    BY <2>1 DEF Single
  <2> HIDE DEF S
  <2>3. CASE S = {}
    BY <2>3, FS_EmptySet DEF S
  <2>4. CASE S # {}
    <3>1. PICK s : S = {s}
      BY <2>2, <2>4
    <3>2. Cardinality(S) = 1
      BY <3>1, FS_Singleton
    <3>3. QED
      BY <3>2 DEF S
  <2>5. QED
    BY <2>3, <2>4
<1>2. QED
  BY <1>1, InvHolds, PTL

\* Jobs start in the order of their arrival, whichever surface they come from.
THEOREM JobsStartInOrder == RoomsSpec => []ArrivalOrder
<1>1. ASSUME RoomsInv PROVE ArrivalOrder
  <2>1. QueueSound(queue, host, used.jobs, h.started, run.phase = "idle")
    BY <1>1 DEF RoomsInv
  <2>2. DOMAIN queue = 1..Len(queue)
    BY <2>1 DEF QueueSound
  <2>3. QED
    BY <2>1, <2>2 DEF QueueSound, ArrivalOrder
<1>2. QED
  BY <1>1, InvHolds, PTL

-----------------------------------------------------------------------------
(* The refinement: to its users the shared agent loop is a conversation per *)
(* room.                                                                    *)

Convs == [r \in Rooms |-> Conversation(r)]

LEMMA ConvsChange ==
  ASSUME NEW r \in Rooms, NEW turns, SameConvsBut(m, m', r), Conv(m', r) = turns
  PROVE  Convs' = [Convs EXCEPT ![r] = turns]
<1>1. \A q \in Rooms : Convs[q] = Conv(m, q) /\ Convs'[q] = Conv(m', q)
  BY DEF Convs, Conversation, Conv
<1>2. \A q \in Rooms \ {r} : Convs'[q] = Convs[q]
  BY <1>1 DEF SameConvsBut
<1>3. QED
  BY <1>1, <1>2 DEF Convs

LEMMA ConvsStay == SameConvs(m, m') => Convs' = Convs
BY DEF SameConvs, Convs, Conversation, Conv

\* What a room held before a job enters it is what it may hold.
LEMMA HeldMaps ==
  ASSUME NEW r \in Rooms, NEW before \in SUBSET Turns, HeldBefore(m, r, h.owner, before)
  PROVE  before \in Private!Held(r)
BY DEF HeldBefore, Private!Held, Private!Owned, TurnsOf, Conversation, Conv, Open

\* A request is a turn of its room's conversation and of no other.
LEMMA StartRunMaps ==
  ASSUME RoomsInv, StartRun
  PROVE  \E r \in Rooms, n \in Turns : Private!Say(r, n)
<1>1. PICK r \in Rooms, before \in SUBSET Turns :
        /\ HeldBefore(m, r, h.owner, before) /\ m'.current = r
        /\ Open(m') = Open(m) \cup {r}
        /\ m'.agent.turns = before \cup {Job.n} /\ SameConvsBut(m, m', r)
        /\ h' = [h EXCEPT !.owner[Job.n] = {r}, !.started = Job.n,
                          !.event = Seen("say", r, Job.n)]
  BY StartRunFacts
<1>2. Job.n \in Turns /\ h.owner[Job.n] = {}
  BY StartFacts DEF StartRun
<1>3. PICK n \in Turns : n = Job.n
  BY <1>2
<1>4. /\ h'.owner = [h.owner EXCEPT ![n] = {r}]
      /\ h'.event = [what |-> "say", room |-> r, by |-> n]
  BY <1>1, <1>3 DEF RoomsInv, Types, History, Seen
<1>5. Convs' = [Convs EXCEPT ![r] = before \cup {n}]
  <2>1. Conv(m', r) = before \cup {n}
    BY <1>1, <1>3 DEF Conv
  <2>2. QED
    BY <1>1, <2>1, ConvsChange
<1>6. before \in Private!Held(r)
  BY <1>1, HeldMaps
<1>7. Private!Say(r, n)
  BY <1>1, <1>2, <1>3, <1>4, <1>5, <1>6 DEF Private!Say, Private!Shown, Convs, Open
<1>8. QED
  BY <1>7

\* /clear empties the room's conversation, a command that shows a room nothing.
LEMMA ServeCommandMaps ==
  ASSUME RoomsInv, ServeCommand
  PROVE  \E r \in Rooms, n \in Turns : Private!Clear(r, n) \/ Private!Visit(r, n)
<1>1. PICK r \in Rooms, before \in SUBSET Turns, cleared \in SUBSET Turns, back \in BOOLEAN :
        CommandServed(r, before, cleared, back)
  BY ServeCommandFacts
<1>2. Job.n \in Turns
  BY StartFacts DEF ServeCommand
<1>3. PICK n \in Turns : n = Job.n
  BY <1>2
<1>4. PICK what : what = IF Job.kind = "clear" THEN "clear" ELSE "visit"
  OBVIOUS
<1>5. /\ HeldBefore(m, r, h.owner, before)
      /\ Open(m') = Open(m) \cup {r} /\ SameConvsBut(m, m', r)
      /\ Conv(m', r) = IF Job.kind = "clear" THEN {} ELSE before
      /\ h' = [h EXCEPT !.started = Job.n, !.cleared = cleared,
                 !.strayed = Strayed(m', cfg, host, ~back), !.event = Seen(what, r, n)]
  BY <1>1, <1>3, <1>4 DEF CommandServed
<1>6. h'.owner = h.owner /\ h'.event = [what |-> what, room |-> r, by |-> n]
  BY <1>5 DEF RoomsInv, Types, History, Seen
<1>7. CASE Job.kind = "clear"
  <2>1. Convs' = [Convs EXCEPT ![r] = {}]
    BY <1>5, <1>7, ConvsChange
  <2>2. Private!Clear(r, n)
    BY <1>4, <1>5, <1>6, <1>7, <2>1 DEF Private!Clear, Private!Shown, Convs, Open
  <2>3. QED
    BY <2>2
<1>8. CASE Job.kind # "clear"
  <2>1. Convs' = [Convs EXCEPT ![r] = before]
    BY <1>5, <1>8, ConvsChange
  <2>2. before \in Private!Held(r)
    BY <1>5, HeldMaps
  <2>3. Private!Visit(r, n)
    BY <1>4, <1>5, <1>6, <1>8, <2>1, <2>2 DEF Private!Visit, Private!Shown, Convs, Open
  <2>4. QED
    BY <2>3
<1>9. QED
  BY <1>7, <1>8

\* What only a job or the process can tell is a stutter.
Stutters ==
  SameConvs(m, m') /\ Open(m') = Open(m) /\ h'.owner = h.owner /\ h'.event = h.event

LEMMA StutterMaps == Stutters => UNCHANGED Private!private
BY ConvsStay DEF Stutters, Private!private, Convs, Open

\* Moving the REPL to a room shows it, unless a write fails first.
LEMMA ServeMoveMaps ==
  ASSUME RoomsInv, ServeMove
  PROVE  Stutters \/ \E r \in Rooms, n \in Turns : Private!Visit(r, n)
<1>1. PICK done \in {"nothing", "binding", "all"} :
        /\ m' = IF done = "all" THEN Activate(m, Job.room) ELSE m
        /\ h' = [h EXCEPT !.started = Job.n, !.resumed = NoSession,
                   !.strayed = Strayed(m', cfg', host, done # "all"),
                   !.event = IF done = "all" THEN Seen("visit", Job.room, Job.n) ELSE @]
  BY DEF ServeMove
<1>2. Job.n \in Turns /\ Job.room \in Rooms
  <2>1. Starts({"move"})
    BY DEF ServeMove
  <2>2. QED
    BY <2>1, StartFacts
<1>3. PICK n \in Turns, r \in Rooms : n = Job.n /\ r = Job.room
  BY <1>2
<1>4. /\ m \in Manager /\ ManagerSound(m, h.owner, h.cleared) /\ h \in History
      /\ used.restarts \in 0..MaxRestarts /\ Charged(m, used.restarts)
  BY DEF RoomsInv, Types, Bounds
<1>5. CASE done = "all"
  <2>1. m' = Activate(m, r)
    BY <1>1, <1>3, <1>5
  <2>2. /\ m' \in Manager /\ Open(m') = Open(m) \cup {r}
        /\ SameButOpened(m, m', r) /\ Conv(m', r) \subseteq TurnsOf(h.owner, r)
    BY <2>1, <1>4, Activated
  <2>3. PICK before : before = Conv(m', r)
    OBVIOUS
  <2>4. before \in SUBSET Turns /\ HeldBefore(m, r, h.owner, before)
    BY <2>2, <2>3 DEF HeldBefore, SameButOpened, TurnsOf
  <2>5. before \in Private!Held(r)
    BY <2>4, HeldMaps
  <2>6. Convs' = [Convs EXCEPT ![r] = before]
    <3>1. SameConvsBut(m, m', r)
      BY <2>2 DEF SameButOpened, SameConvsBut
    <3>2. QED
      BY <3>1, <2>3, ConvsChange
  <2>7. h'.owner = h.owner /\ h'.event = [what |-> "visit", room |-> r, by |-> n]
    BY <1>1, <1>3, <1>4, <1>5 DEF History, Seen
  <2>8. Private!Visit(r, n)
    BY <2>2, <2>5, <2>6, <2>7 DEF Private!Visit, Private!Shown, Convs, Open
  <2>9. QED
    BY <2>8
<1>6. CASE done # "all"
  <2>1. m' = m
    BY <1>1, <1>6
  <2>2. h'.owner = h.owner /\ h'.event = h.event
    BY <1>1, <1>4, <1>6 DEF History
  <2>3. QED
    BY <2>1, <2>2 DEF Stutters, SameConvs
<1>7. QED
  BY <1>5, <1>6

\* /room resume shows an earlier conversation of the room, if there is one.
LEMMA ServeResumeMaps ==
  ASSUME RoomsInv, ServeResume
  PROVE  Stutters \/ \E r \in Rooms, n \in Turns : Private!Reopen(r, n)
<1>1. Job.n \in Turns
  BY StartFacts DEF ServeResume
<1>2. PICK n \in Turns : n = Job.n
  BY <1>1
<1>3. PICK r \in Rooms :
        \/ /\ m' = m
           /\ h' = [h EXCEPT !.started = n, !.resumed = NoSession]
        \/ /\ Open(m') = Open(m) \cup {r} /\ SameConvsBut(m, m', r)
           /\ Conv(m', r) \subseteq TurnsOf(h.owner, r)
           /\ h' = [h EXCEPT !.started = n, !.resumed = NoSession,
                             !.event = Seen("resume", r, n)]
  BY <1>2, ServeResumeFacts
<1>4. h \in History
  BY DEF RoomsInv, Types
<1>5. CASE m' = m /\ h' = [h EXCEPT !.started = n, !.resumed = NoSession]
  BY <1>4, <1>5 DEF Stutters, SameConvs, History
<1>6. CASE /\ Open(m') = Open(m) \cup {r} /\ SameConvsBut(m, m', r)
           /\ Conv(m', r) \subseteq TurnsOf(h.owner, r)
           /\ h' = [h EXCEPT !.started = n, !.resumed = NoSession,
                             !.event = Seen("resume", r, n)]
  <2>1. PICK turns : turns = Conv(m', r)
    OBVIOUS
  <2>2. turns \in SUBSET Private!Owned(r)
    BY <1>6, <2>1 DEF Private!Owned, TurnsOf
  <2>3. Convs' = [Convs EXCEPT ![r] = turns]
    BY <1>6, <2>1, ConvsChange
  <2>4. h'.owner = h.owner /\ h'.event = [what |-> "resume", room |-> r, by |-> n]
    BY <1>4, <1>6 DEF History, Seen
  <2>5. Private!Reopen(r, n)
    BY <1>6, <2>2, <2>3, <2>4 DEF Private!Reopen, Private!Shown, Convs, Open
  <2>6. QED
    BY <2>5
<1>7. QED
  BY <1>3, <1>5, <1>6

\* A new process shows one room, with some conversation of that room or, for a bot
\* that was started with it, of another.
LEMMA RestartMaps ==
  ASSUME RoomsInv, NEW hst \in Surfaces, NEW resumed \in Sessions \cup {NoSession},
         NEW rescued \in BOOLEAN, Restart(hst, resumed, rescued)
  PROVE  \E r, q \in Rooms : Private!NewProcess(r) \/ Private!Adopt(r, q)
<1>1. PICK r, q \in Rooms : r = m'.current /\ q = Source(m')
  BY RestartFacts
<1>2. /\ m' \in Manager /\ Open(m') = {r} /\ Conv(m', r) \subseteq TurnsOf(h.owner, q)
      /\ m'.agent.tag = r
  BY <1>1, RestartFacts DEF ManagerSound
<1>3. PICK tag : tag = m'.disk[m'.agent.id].tag
  OBVIOUS
<1>4. /\ h'.owner = Adopted(m'.agent)
      /\ h'.event = [what |-> IF tag \in {NoRoom, r} THEN "restart" ELSE "adopt",
                   room |-> r, by |-> 0]
  BY <1>1, <1>3 DEF Restart, RoomsInv, Types, History, Seen
<1>5. PICK turns : turns = Conv(m', r)
  OBVIOUS
<1>6. turns = m'.agent.turns /\ turns \in SUBSET Private!Owned(q)
  BY <1>1, <1>2, <1>5 DEF Private!Owned, TurnsOf, Conv
<1>7. h'.owner = [n \in Turns |-> IF n \in turns THEN h.owner[n] \cup {r} ELSE h.owner[n]]
  BY <1>2, <1>4, <1>6 DEF Adopted
<1>8. Convs' = [s \in Rooms |-> IF s = r THEN turns ELSE {}]
  <2>1. \A s \in Rooms : Convs'[s] = Conv(m', s)
    BY DEF Convs, Conversation, Conv
  <2>2. \A s \in Rooms : s # r => Conv(m', s) = {}
    BY <1>1, <1>2 DEF Conv, Open
  <2>3. QED
    BY <2>1, <2>2, <1>5 DEF Convs
<1>9. CASE tag \in {NoRoom, r}
  <2>1. q = r
    BY <1>1, <1>3, <1>9 DEF Source
  <2>2. h'.owner = h.owner
    BY <2>1, <1>6, <1>7 DEF RoomsInv, Types, History, Private!Owned
  <2>3. Private!NewProcess(r)
    BY <2>1, <2>2, <1>2, <1>4, <1>6, <1>8, <1>9
       DEF Private!NewProcess, Private!Shown, Convs, Open
  <2>4. QED
    BY <2>3
<1>10. CASE tag \notin {NoRoom, r}
  <2>1. Private!Adopt(r, q)
    BY <1>2, <1>4, <1>6, <1>7, <1>8, <1>10 DEF Private!Adopt, Private!Shown, Convs, Open
  <2>2. QED
    BY <2>1
<1>11. QED
  BY <1>9, <1>10

LEMMA QuietSteps ==
  ASSUME RoomsInv,
         \/ EndRun(TRUE) \/ EndRun(FALSE) \/ EntryFails \/ Deliver \/ SaveTurn
         \/ ReplEnqueues \/ (\E s \in Remotes : RemoteEnqueues(s))
         \/ (\E r \in Rooms : SetAutoResume(r)) \/ UNCHANGED vars
  PROVE  Stutters
<1>1. m \in Manager /\ ManagerSound(m, h.owner, h.cleared) /\ h \in History
  BY DEF RoomsInv, Types
<1>2. ASSUME NEW good \in BOOLEAN, EndRun(good) PROVE Stutters
  <2>1. PICK saved, back :
          /\ Open(m') = Open(m) /\ SameConvs(m, m')
          /\ h' = [h EXCEPT !.done = IF good /\ saved /\ back THEN @ \cup {run.n} ELSE @,
                            !.strayed = Strayed(m', cfg, host, ~back),
                            !.resumed = IF Job.by = "repl" THEN NoSession ELSE @]
    BY <1>2, EndRunFacts
  <2>2. QED
    BY <2>1, <1>1 DEF Stutters, History
<1>3. CASE EntryFails
  BY <1>1, <1>3 DEF EntryFails, Stutters, SameConvs, History
<1>4. CASE SaveTurn
  <2>1. h' = h /\ (m' = Saved(m) \/ m' = m)
    BY <1>4 DEF SaveTurn
  <2>2. CASE m' = Saved(m)
    BY <2>1, <2>2, <1>1, SavedKept, SavedFields DEF Stutters, Open
  <2>3. CASE m' = m
    BY <2>1, <2>3 DEF Stutters, SameConvs
  <2>4. QED
    BY <2>1, <2>2, <2>3
<1>5. CASE ReplEnqueues \/ \E s \in Remotes : RemoteEnqueues(s)
  <2>1. m' = m /\ h' = h
    BY <1>5 DEF ReplEnqueues, RemoteEnqueues, Enqueue
  <2>2. QED
    BY <2>1 DEF Stutters, SameConvs
<1>6. CASE \E r \in Rooms : SetAutoResume(r)
  <2>1. PICK r \in Rooms : SetAutoResume(r)
    BY <1>6
  <2>2. QED
    BY <2>1, <1>1 DEF SetAutoResume, Stutters, SameConvs, History
<1>7. CASE Deliver \/ UNCHANGED vars
  BY <1>7 DEF Deliver, vars, Stutters, SameConvs
<1>8. EndRun(TRUE) \/ EndRun(FALSE) => Stutters
  <2>1. PICK yes \in BOOLEAN, no \in BOOLEAN : yes = TRUE /\ no = FALSE
    OBVIOUS
  <2>2. QED
    BY <2>1, <1>2
<1>9. QED
  BY <1>3, <1>4, <1>5, <1>6, <1>7, <1>8

\* Every step of the shared agent loop is, to its users, a step of one private
\* conversation per room, or none: turns reach their own room only, and a room
\* that this process has opened goes on where it was.  Another room gets a
\* conversation only where the user starts a bot with it (Adopt).
THEOREM RoomsImplementPrivateRooms == RoomsSpec => ImplementsPrivateRooms
<1>1. RoomsInit => Private!PrivateInit
  <2> SUFFICES ASSUME RoomsInit PROVE Private!PrivateInit
    OBVIOUS
  <2>1. PICK home \in Rooms : home = Home(cfg, host)
    BY InitManager
  <2>2. /\ m.current = home /\ m.active[home] = 1
        /\ \A r \in Rooms \ {home} : m.active[r] = NoSession
        /\ m.agent = [id |-> 1, tag |-> home, turns |-> {}]
    BY <2>1, InitManager
  <2>3. Convs = [r \in Rooms |-> {}]
    BY <2>2 DEF Convs, Conversation
  <2>4. {r \in Rooms : m.active[r] # NoSession} = {home}
    BY <2>2, ConstantFacts
  <2>5. h.owner = [n \in Turns |-> {}] /\ h.event = [what |-> "start", room |-> NoRoom, by |-> 0]
    BY DEF RoomsInit, Seen
  <2>6. QED
    BY <2>3, <2>4, <2>5 DEF Private!PrivateInit, Convs
<1>2. RoomsInv /\ [RoomsNext]_vars => [Private!PrivateNext]_(Private!private)
  <2> SUFFICES ASSUME RoomsInv, [RoomsNext]_vars
               PROVE  Private!PrivateNext \/ UNCHANGED Private!private
    OBVIOUS
  <2>1. CASE StartRun
    BY <2>1, StartRunMaps DEF Private!PrivateNext
  <2>2. CASE ServeCommand
    BY <2>2, ServeCommandMaps DEF Private!PrivateNext
  <2>3. CASE ServeMove
    BY <2>3, ServeMoveMaps, StutterMaps DEF Private!PrivateNext
  <2>4. CASE ServeResume
    BY <2>4, ServeResumeMaps, StutterMaps DEF Private!PrivateNext
  <2>5. ASSUME NEW hst \in Surfaces, NEW s \in Sessions \cup {NoSession},
               NEW rescued \in BOOLEAN, Restart(hst, s, rescued)
        PROVE  Private!PrivateNext
    BY <2>5, RestartMaps DEF Private!PrivateNext
  <2>6. CASE \/ EndRun(TRUE) \/ EndRun(FALSE) \/ EntryFails \/ Deliver \/ SaveTurn
             \/ ReplEnqueues \/ (\E s \in Remotes : RemoteEnqueues(s))
             \/ (\E r \in Rooms : SetAutoResume(r)) \/ UNCHANGED vars
    BY <2>6, QuietSteps, StutterMaps
  <2>7. QED
    BY <2>1, <2>2, <2>3, <2>4, <2>5, <2>6 DEF RoomsNext, Serve
<1>3. QED
  BY <1>1, <1>2, InvHolds, PTL DEF RoomsSpec, ImplementsPrivateRooms, Private!PrivateSpec
=============================================================================
