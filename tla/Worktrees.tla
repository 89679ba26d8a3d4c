----------------------------- MODULE Worktrees -----------------------------
(***************************************************************************)
(* The git worktrees of isolated sub-agents                                *)
(* (src/src/git/worktree-manager.ts): created from a clean main checkout,  *)
(* written to by the agent, finalized at its end, then applied to main or  *)
(* discarded.  Every operation of WorktreeManager is synchronous, so only  *)
(* the end of the process comes between its steps ('busy'); the record on  *)
(* disk is all a later process knows.                                      *)
(*                                                                         *)
(* Work is a set of kinds of files: changes git tracks or would add, and   *)
(* files git ignores, which no diff shows.  Abstracted: the contents, the  *)
(* filters and configuration of git, the identity checks of paths, and a   *)
(* second process of the same repository.                                  *)
(***************************************************************************)
EXTENDS Integers

CONSTANTS TreeAgents,  \* agents with a worktree
          MaxHeads     \* bound: commits of the user in main

ASSUME WorktreeConstants == MaxHeads \in Nat

VARIABLES
  main,   \* main checkout: [head, dirty, has]: dirty names who changed it, has[a] is a's work in it
  tree,   \* worktree of an agent: [there, work, moved, base]
  state,  \* workspaceState in memory, "none" without a record
  file,   \* workspaceState in the record file
  runs,   \* agents whose loop is running
  busy,   \* operation in progress: [op, by]
  h       \* history: [wrote, dropped]

treeVars == <<main, tree, state, file, runs, busy, h>>

Shown    == {"tracked", "untracked"}
Kinds    == Shown \cup {"ignored"}
NoOp     == [op |-> "none", by |-> "none"]
NoTree   == [there |-> FALSE, work |-> {}, moved |-> FALSE, base |-> 0]
Closed   == {"cleaned", "applied", "discarded"}
Recoverable(a) == state[a] \notin Closed \cup {"none"}

Busy(op, a) == busy' = [op |-> op, by |-> a]
Free == busy = NoOp
Clean == main.dirty = {}

TreeInit ==
  /\ main = [head |-> 0, dirty |-> {}, has |-> [a \in TreeAgents |-> {}]]
  /\ tree = [a \in TreeAgents |-> NoTree]
  /\ state = [a \in TreeAgents |-> "none"] /\ file = [a \in TreeAgents |-> "none"]
  /\ runs = {} /\ busy = NoOp
  /\ h = [wrote |-> [a \in TreeAgents |-> {}], dropped |-> [a \in TreeAgents |-> {}]]

\* create(): refused while main has changes.
CreateTree(a) ==
  /\ Free /\ state[a] = "none" /\ ~tree[a].there /\ Clean
  /\ tree' = [tree EXCEPT ![a] = [NoTree EXCEPT !.there = TRUE, !.base = main.head]]
  /\ state' = [state EXCEPT ![a] = "active"]
  /\ Busy("create", a)
  /\ UNCHANGED <<main, file, runs, h>>

\* The record is written and the agent starts; or one of both throws, and the
\* record stays active in memory without an agent.
CreateEnds(a) ==
  /\ busy = [op |-> "create", by |-> a]
  /\ \/ file' = [file EXCEPT ![a] = "active"] /\ runs' = runs \cup {a}
     \/ file' = [file EXCEPT ![a] = "active"] /\ UNCHANGED runs
     \/ UNCHANGED <<file, runs>>
  /\ busy' = NoOp
  /\ UNCHANGED <<main, tree, state, h>>

AgentWrites(a) ==
  /\ Free /\ a \in runs
  /\ \E kind \in Kinds :
       /\ tree' = [tree EXCEPT ![a].work = @ \cup {kind}]
       /\ h' = [h EXCEPT !.wrote[a] = @ \cup {kind}]
  /\ UNCHANGED <<main, state, file, runs, busy>>

AgentCommits(a) ==
  /\ Free /\ a \in runs /\ tree[a].work \cap Shown # {} /\ ~tree[a].moved
  /\ tree' = [tree EXCEPT ![a].moved = TRUE]
  /\ UNCHANGED <<main, state, file, runs, busy, h>>

RemoveTree(a) == tree' = [tree EXCEPT ![a] = NoTree]

FinalizeByDiff(a) ==
  /\ Free /\ a \in runs
  /\ runs' = runs \ {a}
  /\ \/ /\ "tracked" \notin tree[a].work /\ ~tree[a].moved
        /\ RemoveTree(a) /\ state' = [state EXCEPT ![a] = "cleaned"]
     \/ /\ "tracked" \in tree[a].work \/ tree[a].moved
        /\ state' = [state EXCEPT ![a] = "changed"] /\ UNCHANGED tree
  /\ Busy("persist", a)
  /\ UNCHANGED <<main, file, h>>

\* finalize(): a worktree without changes is removed, another one kept; when
\* git fails, or the removal, it is an error to be looked at.
Finalize(a) ==
  /\ Free /\ a \in runs
  /\ runs' = runs \ {a}
  /\ \/ /\ tree[a].work \cap Shown = {} /\ ~tree[a].moved
        /\ RemoveTree(a) /\ state' = [state EXCEPT ![a] = "cleaned"]
     \/ /\ tree[a].work \cap Shown # {} \/ tree[a].moved
        /\ state' = [state EXCEPT ![a] = "changed"] /\ UNCHANGED tree
     \/ state' = [state EXCEPT ![a] = "error"] /\ UNCHANGED tree
  /\ Busy("persist", a)
  /\ UNCHANGED <<main, file, h>>

\* The record is written, or cannot be: finalize then calls it an error and
\* throws, the other operations throw.
Persist(a) ==
  /\ busy = [op |-> "persist", by |-> a]
  /\ \/ file' = [file EXCEPT ![a] = state[a]] /\ UNCHANGED state
     \/ UNCHANGED file /\ state' = [state EXCEPT ![a] =
                                      IF @ \in {"cleaned", "changed"} THEN "error" ELSE @]
  /\ busy' = NoOp
  /\ UNCHANGED <<main, tree, runs, h>>

\* apply(): main clean and still at the base; a patch for tracked changes,
\* then the new files are copied.
ApplyPatch(a) ==
  /\ Free /\ Recoverable(a) /\ state[a] # "active"
  /\ tree[a].there /\ Clean /\ main.head = tree[a].base
  /\ tree[a].work \cap Shown # {}
  /\ main' = [main EXCEPT !.has[a] = tree[a].work \cap {"tracked"}, !.dirty = {a}]
  /\ Busy("copy", a)
  /\ UNCHANGED <<tree, state, file, runs, h>>

\* All copied and compared; or something failed and is taken back, as far as
\* that goes (both rollbacks are best effort).
ApplyCopies(a) ==
  /\ busy = [op |-> "copy", by |-> a]
  /\ \/ /\ main' = [main EXCEPT !.has[a] = tree[a].work \cap Shown]
        /\ Busy("remove", a)
     \/ /\ \E left \in SUBSET (tree[a].work \cap Shown) :
             main' = [main EXCEPT !.has[a] = left, !.dirty = IF left = {} THEN {} ELSE {a}]
        /\ busy' = NoOp
  /\ UNCHANGED <<tree, state, file, runs, h>>

\* The worktree is removed and the record closed; a removal that fails throws.
ApplyRemoves(a) ==
  /\ busy = [op |-> "remove", by |-> a]
  /\ \/ /\ RemoveTree(a)
        /\ state' = [state EXCEPT ![a] = "applied"] /\ Busy("persist", a)
     \/ UNCHANGED <<tree, state>> /\ busy' = NoOp
  /\ UNCHANGED <<main, file, runs, h>>

\* discard(): the user gives the work up.
Discard(a) ==
  /\ Free /\ Recoverable(a) /\ state[a] # "active" /\ tree[a].there
  /\ RemoveTree(a)
  /\ h' = [h EXCEPT !.dropped[a] = @ \cup tree[a].work]
  /\ state' = [state EXCEPT ![a] = "discarded"] /\ Busy("persist", a)
  /\ UNCHANGED <<main, file, runs>>

\* The user edits main, commits what is there, or restores the last commit.
UserEdits ==
  /\ Free /\ Clean
  /\ main' = [main EXCEPT !.dirty = {"user"}]
  /\ UNCHANGED <<tree, state, file, runs, busy, h>>

UserCommits ==
  /\ Free /\ ~Clean /\ main.head < MaxHeads
  /\ main' = [main EXCEPT !.head = @ + 1, !.dirty = {}]
  /\ UNCHANGED <<tree, state, file, runs, busy, h>>

UserRestores ==
  /\ Free /\ ~Clean
  /\ main' = [main EXCEPT !.dirty = {},
                !.has = [a \in TreeAgents |-> IF a \in main.dirty THEN {} ELSE @[a]]]
  /\ h' = [h EXCEPT !.dropped = [a \in TreeAgents |->
                IF a \in main.dirty THEN @[a] \cup main.has[a] ELSE @[a]]]
  /\ UNCHANGED <<tree, state, file, runs, busy>>

\* The process ends at any step; the next one loads the records and calls an
\* active one an error.
Reboot ==
  /\ \E a \in TreeAgents : state[a] # "none"
  /\ state' = [a \in TreeAgents |-> IF file[a] = "active" THEN "error" ELSE file[a]]
  /\ file' = state'
  /\ runs' = {} /\ busy' = NoOp
  /\ UNCHANGED <<main, tree, h>>

TreeNext ==
  \/ \E a \in TreeAgents :
       \/ CreateTree(a) \/ CreateEnds(a) \/ AgentWrites(a) \/ AgentCommits(a)
       \/ Finalize(a) \/ Persist(a) \/ ApplyPatch(a) \/ ApplyCopies(a)
       \/ ApplyRemoves(a) \/ Discard(a)
  \/ UserEdits \/ UserCommits \/ UserRestores \/ Reboot

TreeSpec == TreeInit /\ [][TreeNext]_treeVars

(***************************************************************************)
(* Properties.                                                             *)
(***************************************************************************)
TreeTypeOK ==
  /\ main.head \in 0..MaxHeads
  /\ \A a \in TreeAgents :
       /\ tree[a].work \subseteq Kinds /\ tree[a].base \in 0..MaxHeads
       /\ {state[a], file[a]} \subseteq {"none", "active", "changed", "error"} \cup Closed

\* What an isolated agent wrote is in its worktree or in main until the user
\* gives it up, wherever the process ends; and as long as it is only in the
\* worktree the record is one that task_list shows.  Ignored files are not
\* covered: finalize and apply remove them with the worktree.
WorkIsKept ==
  \A a \in TreeAgents :
    /\ h.wrote[a] \cap Shown \subseteq
         tree[a].work \cup main.has[a] \cup h.dropped[a]
    /\ tree[a].work \cap Shown \subseteq main.has[a] \/ Recoverable(a)
=============================================================================
