------------------------------- MODULE Rooms -------------------------------
(***************************************************************************)
(* The rooms of RoomManager (src/src/agent/room-manager.ts) on one shared  *)
(* AgentLoop, the queue that serialises them (room-run-queue.ts), and who  *)
(* calls them: the REPL, the Discord and the Slack bot.                    *)
(*                                                                         *)
(* A conversation is the set of the turns (requests) in it; the agent's    *)
(* history, todos and goal travel together, so a set stands for them all.  *)
(* A job is suspended at the await of the agent's run ("run") and of the   *)
(* message that answers a remote user ("deliver"); everything else in it   *)
(* happens without yielding and is part of the action.  currentAgentRoom   *)
(* is never null: every way to start calls an init*Surface first.          *)
(*                                                                         *)
(* Abstracted: what a run does (ForegroundRun), schedules, /fork and       *)
(* /resume at the prompt, sessions older than the rooms, and files that    *)
(* other processes or the user change.                                     *)
(***************************************************************************)
EXTENDS Integers, Sequences, FiniteSets

CONSTANTS Rooms,        \* ROOM_IDS
          NoRoom,       \* no room
          Remotes,      \* surfaces other than the REPL
          Bindings,     \* the room each surface is bound to at first
          AutoResume,   \* rooms with autoResume at first
          MaxJobs,      \* bound: jobs enqueued
          MaxToggles,   \* bound: /room autoresume
          MaxRestarts,  \* bound: restarts of the process
          MaxIoErrors   \* bound: saves that throw

Surfaces == Remotes \cup {"repl"}

ASSUME RoomsConstants ==
  /\ IsFiniteSet(Rooms) /\ NoRoom \notin Rooms
  /\ Remotes \subseteq {"discord", "slack"}
  /\ Bindings \in [Surfaces -> Rooms]
  /\ AutoResume \subseteq Rooms
  /\ {MaxJobs, MaxToggles, MaxRestarts, MaxIoErrors} \subseteq Nat

VARIABLES
  host,     \* how the process was started: the REPL, --background, --slack
  cfg,      \* roomConfig in memory: [bind, auto]
  cfgFile,  \* roomConfig in config.json
  m,        \* [current, active, agent, disk, age, fresh], see below
  queue,    \* jobs, the head is the one in progress
  run,      \* the await of the job in progress: [phase, n, room, resting]
  owed,     \* the REPL has still to save the turn that has just ended
  direct,   \* the turn of a run that the REPL started beside the queue, 0 if none
  used,     \* bounds: [jobs, toggles, restarts, ioErrors]
  h         \* history: [owner, done, cleared, started, strayed, split, resumed, event]

vars == <<host, cfg, cfgFile, m, queue, run, owed, direct, used, h>>

Turns     == 1..MaxJobs
NoSession == 0
Sessions  == 1..((MaxRestarts + 1) * Cardinality(Rooms))
NoFile    == [tag |-> NoRoom, turns |-> {}]
Idle      == [phase |-> "idle", n |-> 0, room |-> NoRoom, resting |-> NoRoom]

(***************************************************************************)
(* RoomManager, the agent's session and the session files.  'm' holds the  *)
(* room that is loaded (current) with its session (agent), the session of  *)
(* each room in this process (active), the files (disk), their rank by     *)
(* updatedAt (age, 1 is the newest), and the next new session id.          *)
(***************************************************************************)
Blank(x, r) == [id |-> x.fresh, tag |-> r, turns |-> {}]
Load(x, s)  == [id |-> s, tag |-> x.disk[s].tag, turns |-> x.disk[s].turns]

\* A save makes its file the newest: those that were newer move one rank down.
Newest(age, s) ==
  [t \in Sessions |-> IF t = s THEN 1
                      ELSE IF age[t] < age[s] THEN age[t] + 1 ELSE age[t]]

SavedTied(x) ==
  [x EXCEPT !.disk[x.agent.id] = [tag |-> x.agent.tag, turns |-> x.agent.turns],
            !.age[x.agent.id] = 1]

Saved(x) ==
  [x EXCEPT !.disk[x.agent.id] = [tag |-> x.agent.tag, turns |-> x.agent.turns],
            !.age = Newest(@, x.agent.id)]

LatestOf(x, r) ==
  LET mine == {s \in Sessions : x.disk[s].tag = r}
  IN  IF mine = {} THEN NoSession
      ELSE CHOOSE s \in mine : \A t \in mine : x.age[s] <= x.age[t]

ResolveWithoutResume(x, r, auto) ==
  LET kept == x.active[r]
  IN  IF kept # NoSession /\ x.disk[kept] # NoFile THEN Load(x, kept) ELSE Blank(x, r)

\* The session of a room: the one in use, else the latest on disk if the room
\* resumes by itself, else a new one.
Resolve(x, r, auto) ==
  LET kept == x.active[r]  latest == LatestOf(x, r)
  IN  IF kept # NoSession /\ x.disk[kept] # NoFile THEN Load(x, kept)
      ELSE IF r \in auto /\ latest # NoSession THEN Load(x, latest)
      ELSE Blank(x, r)

With(x, r, agent) ==
  [x EXCEPT !.agent = agent, !.current = r, !.active[r] = agent.id,
            !.fresh = IF agent.id = @ THEN @ + 1 ELSE @]

SaveAs(x, r) == [Saved(x) EXCEPT !.active[r] = x.agent.id]

ActivateUnsaved(x, r) ==
  IF x.current = r THEN x
  ELSE LET left == [x EXCEPT !.active[x.current] = x.agent.id]
       IN  With(left, r, Resolve(left, r, cfg.auto))

\* activateRoom.  Its save throws before anything has changed.
Activate(x, r) ==
  IF x.current = r THEN x
  ELSE LET left == SaveAs(x, x.current)
       IN  With(left, r, Resolve(left, r, cfg.auto))

ReturnUnsaved(x, room, resting, good, saved, back) ==
  IF resting # room /\ back THEN Activate(x, resting) ELSE x

ReturnIfGood(x, room, resting, good, saved, back) ==
  LET kept == IF good /\ saved THEN SaveAs(x, room) ELSE x
  IN  IF good /\ resting # room /\ back THEN Activate(kept, resting) ELSE kept

\* The end of runInRoom: a job that has not thrown is saved, and in any case the
\* resting room comes back.  'saved' and 'back' tell whether the saves succeed.
Return(x, room, resting, good, saved, back) ==
  LET kept == IF good /\ saved THEN SaveAs(x, room) ELSE x
  IN  IF resting # room /\ back THEN Activate(kept, resting) ELSE kept

\* Which results these saves can have: a save that is not made does not fail.
SavesOfReturn(room, resting, good) ==
  {o \in [saved : BOOLEAN, back : BOOLEAN] :
     (good \/ o.saved) /\ (room # resting \/ o.back)}

Failures(o) == (IF o.saved THEN 0 ELSE 1) + (IF o.back THEN 0 ELSE 1)

\* A choice of k failing saves, within the bound.
Fail(k) ==
  /\ used.ioErrors + k <= MaxIoErrors
  /\ used' = [used EXCEPT !.ioErrors = @ + k]

Home(c, hst) == c.bind[hst]

\* The history remembers that the agent was left in a room other than the home
\* of the process by a save that failed or by the session it was started with.
Strayed(x, c, hst, cause) == x.current # Home(c, hst) /\ (h.strayed \/ cause)

Seen(what, r, by) == [what |-> what, room |-> r, by |-> by]

(***************************************************************************)
(* Start of a process, in any of its modes: --resume restores a session    *)
(* before the rooms exist.  initReplSession keeps the room of that         *)
(* session; initBackgroundSurface loads the latest session of the room of  *)
(* its surface instead, or tags whatever is loaded with that room.         *)
(***************************************************************************)
Tagged(agent, r) == [agent EXCEPT !.tag = r]

Boot(x, c, hst, resumed) ==
  LET home   == Home(c, hst)
      latest == LatestOf(x, home)
      loaded == IF resumed # NoSession THEN Load(x, resumed) ELSE Blank(x, home)
      agent  == IF hst = "repl" THEN loaded
                ELSE IF home \in c.auto /\ latest # NoSession THEN Load(x, latest)
                ELSE Tagged(loaded, home)
      none   == [x EXCEPT !.active = [r \in Rooms |-> NoSession]]
  IN  With(none, agent.tag, agent)

RoomsInit ==
  /\ host \in Surfaces
  /\ cfg = [bind |-> Bindings, auto |-> AutoResume]
  /\ cfgFile = cfg
  /\ LET files == [current |-> NoRoom, active |-> [r \in Rooms |-> NoSession],
                   agent |-> [id |-> NoSession, tag |-> NoRoom, turns |-> {}],
                   disk |-> [s \in Sessions |-> NoFile], age |-> [s \in Sessions |-> s],
                   fresh |-> 1]
     IN  m = Boot(files, cfg, host, NoSession)
  /\ queue = <<>> /\ run = Idle /\ owed = FALSE /\ direct = 0
  /\ used = [jobs |-> 0, toggles |-> 0, restarts |-> 0, ioErrors |-> 0]
  /\ h = [owner |-> [n \in Turns |-> {}], done |-> {}, cleared |-> {},
          started |-> 0, strayed |-> FALSE, resumed |-> NoSession,
          split |-> (Rooms \ AutoResume)
                    \cup (IF host = "repl" THEN {cfg.bind["repl"]} ELSE {}),
          event |-> Seen("start", NoRoom, 0)]

\* A turn belongs to the room it is made in, and to the room of a bot that the
\* user starts with the session it is in.
Adopted(agent) ==
  [n \in Turns |-> IF n \in agent.turns THEN h.owner[n] \cup {agent.tag} ELSE h.owner[n]]

\* The process ends, with or without the emergency save, and another starts.
Restart(hst, resumed, rescued) ==
  /\ used.restarts < MaxRestarts
  /\ used' = [used EXCEPT !.restarts = @ + 1]
  /\ LET x == IF rescued THEN Saved(m) ELSE m
     IN  /\ resumed # NoSession => x.disk[resumed] # NoFile
         /\ m' = Boot(x, cfgFile, hst, resumed)
  /\ host' = hst /\ cfg' = cfgFile
  /\ queue' = <<>> /\ run' = Idle /\ owed' = FALSE /\ direct' = 0
  /\ h' = [h EXCEPT !.resumed = IF hst = "repl" THEN resumed ELSE NoSession,
                    !.started = used.jobs, !.owner = Adopted(m'.agent),
                    !.strayed = m'.current # Home(cfg', hst),
                    !.split = IF hst = "repl" /\ resumed = NoSession
                              THEN @ \cup {m'.current} ELSE @,
                    !.event = Seen(IF m'.disk[m'.agent.id].tag \in {NoRoom, m'.current}
                                   THEN "restart" ELSE "adopt", m'.current, 0)]
  /\ UNCHANGED cfgFile

-----------------------------------------------------------------------------
(***************************************************************************)
(* Who enqueues.  The REPL awaits its job before it reads on; the bots     *)
(* enqueue whatever arrives.                                               *)
(***************************************************************************)
AtPrompt ==
  /\ host = "repl" /\ ~owed /\ direct = 0
  /\ \A i \in DOMAIN queue : queue[i].by # "repl"

Listens(s) == host = s \/ (host = "repl" /\ s = "discord")

EnqueueNext(by, kind, room) ==
  /\ used.jobs < MaxJobs
  /\ used' = [used EXCEPT !.jobs = @ + 1]
  /\ LET job == [n |-> used.jobs + 1, by |-> by, kind |-> kind, room |-> room]
     IN  queue' = IF queue = <<>> THEN <<job>> ELSE <<Head(queue), job>> \o Tail(queue)
  /\ UNCHANGED <<host, cfg, cfgFile, m, run, owed, direct, h>>

\* RoomRunQueue.enqueue
Enqueue(by, kind, room) ==
  /\ used.jobs < MaxJobs
  /\ used' = [used EXCEPT !.jobs = @ + 1]
  /\ queue' = Append(queue, [n |-> used.jobs + 1, by |-> by, kind |-> kind, room |-> room])
  /\ UNCHANGED <<host, cfg, cfgFile, m, run, owed, direct, h>>

ReplMovesAtOnce ==
  /\ AtPrompt
  /\ \/ Enqueue("repl", "say", NoRoom)
     \/ \E r \in Rooms :
          /\ m' = Activate(m, r)
          /\ cfg' = [cfg EXCEPT !.bind["repl"] = r] /\ cfgFile' = cfg'
          /\ UNCHANGED <<host, queue, run, owed, direct, used, h>>

\* A prompt of the REPL, /clear, /room <room>, /room resume <room>.
ReplEnqueues ==
  /\ AtPrompt
  /\ \/ Enqueue("repl", "say", NoRoom)
     \/ Enqueue("repl", "clear", cfg.bind["repl"])
     \/ \E r \in Rooms, kind \in {"move", "resume"} : Enqueue("repl", kind, r)

\* A request of a remote user, /clear, and the commands that only show a room.
RemoteEnqueues(s) ==
  /\ Listens(s)
  /\ \E kind \in {"say", "clear", "look"} : Enqueue(s, kind, NoRoom)

\* /room autoresume is not queued.
SetAutoResume(r) ==
  /\ AtPrompt /\ used.toggles < MaxToggles
  /\ used' = [used EXCEPT !.toggles = @ + 1]
  /\ cfg' = [cfg EXCEPT !.auto = IF r \in @ THEN @ \ {r} ELSE @ \cup {r}]
  /\ cfgFile' = cfg'
  /\ h' = [h EXCEPT !.split = IF r \in cfg.auto THEN @ \cup {r} ELSE @]
  /\ UNCHANGED <<host, m, queue, run, owed, direct>>

-----------------------------------------------------------------------------
(***************************************************************************)
(* The job at the head of the queue.                                       *)
(***************************************************************************)
Job == Head(queue)

\* The room runInRoom is called with: bindings are read when the job runs, the
\* room of the REPL's /clear when it is enqueued.
RoomOf(job) == IF job.room = NoRoom THEN cfg.bind[job.by] ELSE job.room

Starts(kinds) == queue # <<>> /\ run.phase = "idle" /\ Job.kind \in kinds

\* The job has settled, or a remote user is still to be answered.
Settle ==
  /\ queue' = Tail(queue)
  /\ run' = Idle

Answer ==
  IF Job.by = "repl" THEN Settle
  ELSE run' = [Idle EXCEPT !.phase = "deliver"] /\ UNCHANGED queue

EntryBreaksChain ==
  /\ Starts({"say", "clear", "look"})
  /\ m.current # RoomOf(Job)
  /\ Fail(1)
  /\ queue' = <<>> /\ run' = Idle
  /\ owed' = (Job.by = "repl" /\ Job.kind = "say")
  /\ h' = [h EXCEPT !.started = Job.n]
  /\ UNCHANGED <<host, cfg, cfgFile, m, direct>>

\* activateRoom throws at the start of runInRoom.
EntryFails ==
  /\ Starts({"say", "clear", "look"})
  /\ m.current # RoomOf(Job)
  /\ Fail(1)
  /\ Settle
  /\ owed' = (Job.by = "repl" /\ Job.kind = "say")
  /\ h' = [h EXCEPT !.started = Job.n]
  /\ UNCHANGED <<host, cfg, cfgFile, m, direct>>

\* runInRoom up to the await of the run.
StartRun ==
  /\ Starts({"say"})
  /\ \E r \in {RoomOf(Job)} : \E x \in {Activate(m, r)} :
         /\ m' = [x EXCEPT !.agent.turns = @ \cup {Job.n}]
         /\ run' = [phase |-> "run", n |-> Job.n, room |-> r, resting |-> m.current]
         /\ h' = [h EXCEPT !.owner[Job.n] = {r}, !.started = Job.n,
                           !.event = Seen("say", r, Job.n)]
  /\ UNCHANGED <<host, cfg, cfgFile, queue, owed, direct, used>>

\* The run returns ('good') or throws, and runInRoom comes to its end.
EndRun(good) ==
  /\ run.phase = "run"
  /\ \E o \in SavesOfReturn(run.room, run.resting, good) :
       LET whole == good /\ o.saved /\ o.back
       IN  /\ Fail(Failures(o))
           /\ m' = Return(m, run.room, run.resting, good, o.saved, o.back)
           /\ IF whole THEN Answer ELSE Settle
           /\ h' = [h EXCEPT !.done = IF whole THEN @ \cup {run.n} ELSE @,
                             !.strayed = Strayed(m', cfg, host, ~o.back),
                             !.resumed = IF Job.by = "repl" THEN NoSession ELSE @]
  /\ owed' = (owed \/ Job.by = "repl")
  /\ UNCHANGED <<host, cfg, cfgFile, direct>>

\* The answer is posted, or posting throws.
Deliver ==
  /\ run.phase = "deliver"
  /\ Settle
  /\ UNCHANGED <<host, cfg, cfgFile, m, owed, direct, used, h>>

\* /clear and the commands that show a room: runInRoom without a wait.
ServeCommand ==
  /\ Starts({"clear", "look"})
  /\ \E r \in {RoomOf(Job)} : \E x \in {Activate(m, r)} :
     \E y \in {IF Job.kind = "clear" THEN [x EXCEPT !.agent.turns = {}] ELSE x} :
         \E o \in SavesOfReturn(r, m.current, TRUE) :
           /\ Fail(Failures(o))
           /\ m' = Return(y, r, m.current, TRUE, o.saved, o.back)
           /\ IF o.saved /\ o.back THEN Answer ELSE Settle
           /\ h' = [h EXCEPT !.started = Job.n,
                      !.cleared = IF Job.kind = "clear" THEN @ \cup x.agent.turns ELSE @,
                      !.strayed = Strayed(m', cfg, host, ~o.back),
                      !.event = Seen(IF Job.kind = "clear" THEN "clear" ELSE "visit", r, Job.n)]
  /\ UNCHANGED <<host, cfg, cfgFile, owed, direct>>

\* moveSurface("repl", room): the binding, config.json, then activateRoom; either
\* write may throw and end it there.
ServeMove ==
  /\ Starts({"move"})
  /\ LET r == Job.room
     IN  /\ cfg' = [cfg EXCEPT !.bind["repl"] = r]
         /\ \E done \in {"nothing", "binding", "all"} :
              /\ done = "binding" => m.current # r
              /\ Fail(IF done = "all" THEN 0 ELSE 1)
              /\ cfgFile' = IF done = "nothing" THEN cfgFile ELSE cfg'
              /\ m' = IF done = "all" THEN Activate(m, r) ELSE m
              /\ h' = [h EXCEPT !.started = Job.n, !.resumed = NoSession,
                         !.strayed = Strayed(m', cfg', host, done # "all"),
                         !.event = IF done = "all" THEN Seen("visit", r, Job.n) ELSE @]
  /\ Settle
  /\ UNCHANGED <<host, owed, direct>>

\* resumeRoom
ServeResume ==
  /\ Starts({"resume"})
  /\ LET r == Job.room  latest == LatestOf(m, r)
     IN  /\ m' = IF latest = NoSession THEN m
                 ELSE [m EXCEPT !.active[r] = latest,
                                !.agent = IF m.current = r THEN Load(m, latest) ELSE @]
         /\ h' = [h EXCEPT !.started = Job.n, !.resumed = NoSession,
                    !.event = IF latest = NoSession THEN @ ELSE Seen("resume", r, Job.n)]
  /\ Settle
  /\ UNCHANGED <<host, cfg, cfgFile, owed, direct, used>>

\* The REPL saves after each turn whatever session is loaded by then.
SaveTurn ==
  /\ owed /\ owed' = FALSE
  /\ \/ m' = Saved(m) /\ UNCHANGED used
     \/ Fail(1) /\ UNCHANGED m
  /\ UNCHANGED <<host, cfg, cfgFile, queue, run, direct, h>>

-----------------------------------------------------------------------------
\* Steps of the queue and of the prompt, which need nobody.
Serve ==
  \/ StartRun \/ EndRun(TRUE) \/ EndRun(FALSE) \/ EntryFails \/ Deliver
  \/ ServeCommand \/ ServeMove \/ ServeResume \/ SaveTurn

RoomsNext ==
  \/ Serve
  \/ ReplEnqueues
  \/ \E s \in Remotes : RemoteEnqueues(s)
  \/ \E r \in Rooms : SetAutoResume(r)
  \/ \E hst \in Surfaces, s \in Sessions \cup {NoSession}, rescued \in BOOLEAN :
       Restart(hst, s, rescued)

RoomsSpec == RoomsInit /\ [][RoomsNext]_vars

\* One thread serves the queue; a run ends by its own timeouts.
FairRoomsSpec == RoomsSpec /\ WF_vars(Serve)

\* /goal-seek, /try and /goal-loop call agent.run from the prompt, beside the
\* queue; only the disagreement about them is checked with these steps.
StartDirect ==
  /\ AtPrompt /\ used.jobs < MaxJobs
  /\ used' = [used EXCEPT !.jobs = @ + 1]
  /\ direct' = used.jobs + 1
  /\ m' = [m EXCEPT !.agent.turns = @ \cup {direct'}]
  /\ h' = [h EXCEPT !.owner[direct'] = {m.agent.tag}]
  /\ UNCHANGED <<host, cfg, cfgFile, queue, run, owed>>

EndDirect ==
  /\ direct # 0 /\ direct' = 0
  /\ UNCHANGED <<host, cfg, cfgFile, m, queue, run, owed, used, h>>

DirectSpec == RoomsInit /\ [][RoomsNext \/ StartDirect \/ EndDirect]_vars

-----------------------------------------------------------------------------
\* Type invariant.
RoomsTypeOK ==
  LET Session == [id : Sessions, tag : Rooms, turns : SUBSET Turns]
  IN  /\ host \in Surfaces
      /\ {cfg, cfgFile} \subseteq [bind : [Surfaces -> Rooms], auto : SUBSET Rooms]
      /\ m.current \in Rooms /\ m.agent \in Session
      /\ m.active \in [Rooms -> Sessions \cup {NoSession}]
      /\ m.disk \in [Sessions -> [tag : Rooms \cup {NoRoom}, turns : SUBSET Turns]]
      /\ m.age \in [Sessions -> Sessions]
      /\ \A s, t \in Sessions : m.age[s] = m.age[t] => s = t
      /\ m.fresh \in 1..Cardinality(Sessions) + 1
      /\ queue \in Seq([n : Turns, by : Surfaces, room : Rooms \cup {NoRoom},
                        kind : {"say", "clear", "look", "move", "resume"}])
      /\ run \in [phase : {"idle", "run", "deliver"}, n : Turns \cup {0},
                  room : Rooms \cup {NoRoom}, resting : Rooms \cup {NoRoom}]
      /\ owed \in BOOLEAN /\ direct \in Turns \cup {0}

\* A queued run works on the session of its own room from its first await to its
\* last: nothing switches the loaded room under it (room-manager.ts:12-15).
RunKeepsItsRoom ==
  run.phase = "run" =>
    /\ m.current = run.room /\ m.agent.tag = run.room
    /\ m.active[run.room] = m.agent.id /\ run.n \in m.agent.turns

\* A turn whose job succeeded is in a file of its room from then on, whatever
\* restarts, failing saves and later jobs do, unless a /clear removed it.  Its
\* room is the one it was made in or, once --resume has been given together with
\* --background or --slack, the one of the bot, which tags that session as its
\* own (room-manager.ts:122); the first room then has that conversation no more.
DoneIsOnDisk ==
  \A n \in h.done \ h.cleared :
    \E s \in Sessions : m.disk[s].tag \in h.owner[n] /\ n \in m.disk[s].turns

\* With no job in progress the agent rests in the room of the REPL (or of the
\* bot the process runs), unless a failing save or a session of another room
\* that the process was started with left it elsewhere (room-manager.ts:15-16).
RestsAtHome == run.phase = "idle" /\ m.current # Home(cfg, host) => h.strayed

\* A room that resumes by itself and in which no REPL was started has one
\* conversation for good: restarts and remote jobs never begin a second one.
OneConversation ==
  \A r \in Rooms \ h.split :
    Cardinality({s \in Sessions : m.disk[s].tag = r}
                \cup (IF m.agent.tag = r THEN {m.agent.id} ELSE {})) <= 1

\* Jobs start in the order in which they were enqueued, by whatever surface
\* (room-run-queue.ts:4-6).
ArrivalOrder ==
  /\ \A i, j \in DOMAIN queue : i < j => queue[i].n < queue[j].n
  /\ \A i \in DOMAIN queue : (i > 1 \/ run.phase = "idle") => queue[i].n > h.started

\* Every job starts and settles, whatever the jobs before it came to; only the
\* end of the process drops it (room-run-queue.ts:12).
JobsAreServed ==
  \A n \in Turns :
    (\E i \in DOMAIN queue : queue[i].n = n)
      ~> (h.started >= n /\ \A i \in DOMAIN queue : queue[i].n # n)

\* To its users the shared agent loop is a conversation per room.
Conversation(r) ==
  IF m.current = r THEN m.agent.turns
  ELSE IF m.active[r] = NoSession THEN {} ELSE m.disk[m.active[r]].turns

Private == INSTANCE PrivateRooms WITH
             conv <- [r \in Rooms |-> Conversation(r)],
             opened <- {r \in Rooms : m.active[r] # NoSession},
             owner <- h.owner, event <- h.event

ImplementsPrivateRooms == Private!PrivateSpec

\* "The agent loop cannot run two requests at once; the queue serialises them,
\* whatever their surface" (room-run-queue.ts:4-7).
OneRunAtATime == ~(direct # 0 /\ run.phase = "run")

\* "Starting silently with a new session would be another conversation than the
\* one the user thinks to have resumed" (index.ts:197-198).
ResumedIsContinued ==
  run.phase = "run" /\ Job.by = "repl" /\ h.resumed # NoSession => m.agent.id = h.resumed
=============================================================================
