---------------------------- MODULE Checkpoints ----------------------------
(***************************************************************************)
(* The checkpoints of the work folder                                      *)
(* (src/src/checkpoint/checkpoint-manager.ts): a hidden git store commits  *)
(* the folder after each write of a tool, and a restore brings a commit    *)
(* back.  Jobs run one after the other; the writes of tools, sub-agents    *)
(* and the user fall between their git commands.  Any git command may      *)
(* fail; some failures end the job and some are swallowed, and then it     *)
(* goes on without what the command was to find or to do.                  *)
(*                                                                         *)
(* A version of a file is a number, 0 when the file is absent, and above   *)
(* MaxWrites when it is too large for a checkpoint.  Abstracted: messages, *)
(* directories, gc, pruning of other sessions, the patterns always         *)
(* excluded, and renames.                                                  *)
(***************************************************************************)
EXTENDS Integers, Sequences

CONSTANTS Files,
          MaxWrites,  \* bound: writes of any file
          MaxLog,     \* bound: commits
          MaxJobs     \* bound: jobs waiting

ASSUME CheckpointConstants == {MaxWrites, MaxLog, MaxJobs} \subseteq Nat \ {0}

VARIABLES
  work,   \* the folder: version of each file
  store,  \* the hidden git: [log, index, excluded, wrote], wrote counts the writes
  queue,   \* jobs waiting: "commit" or the commit to restore
  job     \* job running: [pc, target, added, touched, missed], missed the files that
           \* a swallowed failure left out

checkVars == <<work, store, queue, job>>

Absent   == [f \in Files |-> 0]
Large(v) == v > MaxWrites
NoCommit == [f \in Files |-> -1]
Lost     == [f \in Files |-> -2]
NoJob    == [pc |-> "none", target |-> NoCommit, added |-> {}, touched |-> {}, missed |-> {}]
NoStore  == [log |-> <<>>, index |-> Absent, excluded |-> {}, wrote |-> 0]
Tip    == IF store.log = <<>> THEN Absent ELSE store.log[Len(store.log)]
Staged(index) == {f \in Files : index[f] # Tip[f]}
Restores == job.target # NoCommit

CheckInit == work = Absent /\ store = NoStore /\ queue = <<>> /\ job = NoJob

(***************************************************************************)
(* Writes.                                                                 *)
(***************************************************************************)
Writes(f) ==
  /\ store.wrote < MaxWrites
  /\ \E v \in {0, store.wrote + 1, MaxWrites + store.wrote + 1} :
       work[f] # v /\ work' = [work EXCEPT ![f] = v]
  /\ store' = [store EXCEPT !.wrote = @ + 1]
  /\ job' = [job EXCEPT !.touched = @ \cup {f}]

\* file_write and file_edit are followed by commitForFile; a shell, a hook or
\* the user writes without.
ToolWrites(f) ==
  /\ Len(queue) < MaxJobs
  /\ Writes(f) /\ work'[f] # 0 /\ queue' = Append(queue, NoCommit)
OtherWrites(f) == Writes(f) /\ UNCHANGED queue

\* restore(n): the commit is looked up at once, its job waits in the queue.
AskRestore ==
  /\ Len(queue) < MaxJobs
  /\ \E i \in DOMAIN store.log : queue' = Append(queue, store.log[i])
  /\ UNCHANGED <<work, store, job>>

\* /checkpoint clear, or another session taken up: the rest of a running job
\* fails at its next git command, and a commit still to restore is not found.
Forget ==
  /\ store.log # <<>>
  /\ store' = [NoStore EXCEPT !.wrote = store.wrote]
  /\ job' = NoJob
  /\ queue' = [i \in DOMAIN queue |-> IF queue[i] = NoCommit THEN NoCommit ELSE Lost]
  /\ UNCHANGED work

(***************************************************************************)
(* doCommit.                                                               *)
(***************************************************************************)
\* git add -A: what is tracked, and what is new and not excluded.
Stage ==
  /\ job.pc = "none" /\ queue # <<>>
  /\ store' = [store EXCEPT !.index = [f \in Files |->
                 IF @[f] # 0 \/ f \notin store.excluded THEN work[f] ELSE 0]]
  /\ job' = [NoJob EXCEPT !.pc = "staged", !.target = Head(queue)]
  /\ queue' = Tail(queue)
  /\ UNCHANGED work

\* An add that fails ends the job; the index stays.  So does a store that cannot
\* be made anew after Forget: the commit to restore is lost with the old one.
StageFails ==
  /\ job.pc = "none" /\ queue # <<>>
  /\ queue' = Tail(queue)
  /\ UNCHANGED <<work, store, job>>

\* unstageOversized, by the size the file has now.  A failing list, a name that
\* git quotes, a failing stat or reset is swallowed, and the file stays staged;
\* hit is what the patterns written into info/exclude match, none when the
\* writing fails, and files of the same name in other folders too.
Unstage ==
  /\ job.pc = "staged"
  /\ LET large == {f \in Staged(store.index) : Large(work[f])} IN
     \E unstaged \in SUBSET large :
     \E hit \in IF unstaged = {} THEN {{}} ELSE SUBSET Files :
       /\ store' = [store EXCEPT !.excluded = @ \cup hit,
                      !.index = [f \in Files |-> IF f \in unstaged THEN Tip[f] ELSE @[f]]]
       /\ job' = [job EXCEPT !.pc = "sized", !.missed = @ \cup (unstaged \ hit)]
  /\ UNCHANGED <<work, queue>>

CommitEnds(missed) ==
  IF Restores THEN [job EXCEPT !.pc = "saved", !.missed = @ \cup missed] ELSE NoJob

\* Mutant: a restore goes on over a commit that failed.
CommitOrGoOn ==
  /\ job.pc = "sized"
  /\ \/ Staged(store.index) = {} /\ job' = CommitEnds({}) /\ UNCHANGED store
     \/ /\ Staged(store.index) # {} /\ Len(store.log) < MaxLog
        /\ store' = [store EXCEPT !.log = Append(@, store.index)] /\ job' = CommitEnds({})
     \/ Staged(store.index) # {} /\ job' = CommitEnds({}) /\ UNCHANGED store
  /\ UNCHANGED <<work, queue>>

\* The commit, if anything is staged; one that fails ends the job.  When the list
\* of what is staged fails it counts as empty: a restore goes on, and nothing is
\* committed.
Commit ==
  /\ job.pc = "sized"
  /\ \/ Staged(store.index) = {} /\ job' = CommitEnds({}) /\ UNCHANGED store
     \/ /\ Staged(store.index) # {} /\ Len(store.log) < MaxLog
        /\ store' = [store EXCEPT !.log = Append(@, store.index)] /\ job' = CommitEnds({})
     \/ Staged(store.index) # {} /\ job' = NoJob /\ UNCHANGED store
     \/ Staged(store.index) # {} /\ job' = CommitEnds(Staged(store.index)) /\ UNCHANGED store
  /\ UNCHANGED <<work, queue>>

(***************************************************************************)
(* restore, after its snapshot.                                            *)
(***************************************************************************)
\* What was added since the target: to be removed.  Names that git quotes are
\* not found again, and none is when the diff fails.
FindAdded ==
  /\ job.pc = "saved"
  /\ LET since == {f \in Files : Tip[f] # 0 /\ job.target[f] = 0} IN
     IF job.target = Lost THEN job' = NoJob ELSE
     \E named \in SUBSET since :
       job' = [job EXCEPT !.pc = "found", !.added = named, !.missed = @ \cup (since \ named)]
  /\ UNCHANGED <<work, store, queue>>

Merge(tree) == [f \in Files |-> IF job.target[f] # 0 THEN job.target[f] ELSE tree[f]]

\* git checkout <target> -- . : the files the target has, into index and folder.
\* Without a file it fails.
Checkout ==
  /\ job.pc = "found" /\ \E f \in Files : job.target[f] # 0
  /\ work' = Merge(work) /\ store' = [store EXCEPT !.index = Merge(@)]
  /\ job' = [job EXCEPT !.pc = "checked"]
  /\ UNCHANGED queue

\* A checkout that fails ends the restore, with the files written that it got to.
CheckoutFails ==
  /\ job.pc = "found"
  /\ \E written \in SUBSET Files, index \in {store.index, Merge(store.index)} :
       /\ work' = [f \in Files |-> IF f \in written THEN Merge(work)[f] ELSE work[f]]
       /\ store' = [store EXCEPT !.index = index]
  /\ job' = NoJob
  /\ UNCHANGED queue

\* The removals, each of which may be refused and is then left out.
RemoveAdded ==
  /\ job.pc = "checked"
  /\ \E removed \in SUBSET job.added :
       /\ work' = [f \in Files |-> IF f \in removed THEN 0 ELSE work[f]]
       /\ job' = [job EXCEPT !.pc = "restored", !.missed = @ \cup (job.added \ removed)]
  /\ UNCHANGED <<store, queue>>

RestoreEnds == job.pc = "restored" /\ job' = NoJob /\ UNCHANGED <<work, store, queue>>

CheckNext ==
  \/ \E f \in Files : ToolWrites(f) \/ OtherWrites(f)
  \/ AskRestore \/ Forget \/ Stage \/ StageFails \/ Unstage \/ Commit
  \/ FindAdded \/ Checkout \/ CheckoutFails \/ RemoveAdded \/ RestoreEnds

CheckSpec == CheckInit /\ [][CheckNext]_checkVars

(***************************************************************************)
(* Properties.                                                             *)
(***************************************************************************)
CheckTypeOK ==
  /\ \A f \in Files : work[f] \in 0..2 * MaxWrites
  /\ store.excluded \subseteq Files /\ Len(store.log) <= MaxLog /\ Len(queue) <= MaxJobs
  /\ job.pc \in {"none", "staged", "sized", "saved", "found", "checked", "restored"}

\* A restore makes the folder that of the commit, but for files written while
\* it ran, files no commit holds because they are too large or matched by the
\* pattern of one, and files left out by a failure that was swallowed.  And what
\* it overwrites or removes is in a commit, so a later restore brings it back;
\* but for the same files.  The code promises more: "completely", and nothing
\* lost (checkpoint-manager.ts:328-333, 342); a failing list of what is staged,
\* a failing diff and a quoted name are the exceptions it makes (259-269,
\* 347-362, 366-374).
RestoreIsExactAndUndoable ==
  [][/\ job'.pc = "restored" =>
         \A f \in Files \ job'.touched :
           \/ work'[f] = job'.target[f]
           \/ job'.target[f] = 0 /\ f \in store'.excluded \cup job'.missed
     /\ job.pc \in {"found", "checked"} =>
         \A f \in Files \ (job.touched \cup store.excluded \cup job.missed) :
           \/ work[f] = 0 \/ work'[f] = work[f] \/ f \in job'.touched
           \/ \E i \in DOMAIN store.log : store.log[i][f] = work[f]]_checkVars
=============================================================================
