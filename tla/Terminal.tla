------------------------------ MODULE Terminal ------------------------------
(***************************************************************************)
(* The terminal of the REPL: who may draw, what is withheld meanwhile, and *)
(* who hears a key.  ScreenManager owns the screen and the raw mode of     *)
(* stdin; the input field (at the prompt, or the composer of a turn in     *)
(* progress), the dialogs of inquirer and the progress line borrow it; the *)
(* InterruptWatcher listens beside them (cli/screen-manager.ts,            *)
(* prompt-gate.ts, interactive-input.ts, interrupt-watcher.ts,             *)
(* progress-indicator.ts, the input side of repl.ts).  Turns come from the *)
(* user, from schedules and from Discord or Slack, and their runs wait in  *)
(* one queue.  What a part prints is an action of its own, Write.  Left    *)
(* out: the editing within a field, scrolling, mouse, spinner frames,      *)
(* multi-line input, /run, /parallel and /quit.                            *)
(***************************************************************************)
EXTENDS Naturals, Sequences, FiniteSets, SequencesExt, Counting

CONSTANTS
  Texts,      \* texts the user may type, each once
  Slashes,    \* commands the user may type, each once
  MaxTurns,   \* bound: turns of the user, of schedules and of other surfaces
  MaxEvents   \* bound: turns and lines of output together

\* 'none' is a field without a text.
ASSUME TerminalConstants ==
  "none" \notin Texts \cup Slashes /\ MaxTurns \in Nat /\ MaxEvents \in Nat

VARIABLES
  screen,  \* ScreenManager: [alt, held, raw, due, owners, made, queue, shown]
  watch,   \* the turn whose InterruptWatcher is active, 0 for none
  shell,   \* REPL: [pc, drains, busy, later], later its pendingInputs
  turns,   \* the turns so far: [from, at]
  line,    \* the turns in the queue of runs
  talk     \* [aborted, steering, taken, entered, deaf]: AgentLoop, aborted that the run in
           \* progress is to end (the next run resets the flag); for the properties
           \* how often each text was taken and by how many fields entered, and the
           \* turns whose watcher was stopped

termVars == <<screen, watch, shell, turns, line, talk>>

Inputs == Texts \cup Slashes

Prompt0 == [kind |-> "prompt", of |-> 0, draft |-> "none"]
Composer(i) == [kind |-> "composer", of |-> i, draft |-> "none"]
Dialog(by) == [kind |-> "dialog", of |-> by, draft |-> "none"]
Progress == [kind |-> "progress", of |-> 0, draft |-> "none"]

OwnersIn(s, kinds) == {e \in ToSet(s.owners) : e.kind \in kinds}
Owners(kinds) == OwnersIn(screen, kinds)
Fields == Owners({"prompt", "composer"})

\* isExclusive
ExclusiveIn(s) == OwnersIn(s, {"dialog"}) # {}
Exclusive == ExclusiveIn(screen)

\* The owners that are not in es, in their order.
Without(owners, es) ==
  LET rest[k \in 0..Len(owners)] ==
        IF k = 0 THEN <<>>
        ELSE IF owners[k] \in es THEN rest[k - 1] ELSE Append(rest[k - 1], owners[k])
  IN  rest[Len(owners)]

Lines(s) == [n \in 1..s.made |-> n]

\* renderNow, renderForPrompt: the whole screen is drawn from the lines.
Drawn(s) == [s EXCEPT !.shown = Lines(s), !.due = FALSE]

\* acquireLive: raw mode is seen to, whoever comes.
Acquired(s, e) ==
  LET t == [s EXCEPT !.owners = Append(@, e), !.raw = s.held]
  IN  CASE ~s.alt -> t
        [] s.alt /\ e.kind = "dialog" -> Drawn(t)
        [] OTHER -> [t EXCEPT !.due = TRUE]

\* Mutant: what was withheld comes out with the first dialog that ends.
ReleasedEarly(s, es) ==
  LET t == [s EXCEPT !.owners = Without(@, es), !.raw = s.held]
  IN  CASE es = {} -> s
        [] es # {} /\ t.alt -> Drawn([t EXCEPT !.queue = <<>>])
        [] OTHER -> [t EXCEPT !.shown = @ \o t.queue, !.queue = <<>>]

\* The release that acquireLive returns, of several owners: raw mode, which
\* inquirer takes away, is put back; what was withheld comes out with the last
\* dialog.
Released(s, es) ==
  LET t == [s EXCEPT !.owners = Without(@, es), !.raw = s.held]
  IN  CASE es = {} -> s
        [] es # {} /\ ExclusiveIn(t) -> t
        [] es # {} /\ ~ExclusiveIn(t) /\ t.alt -> Drawn([t EXCEPT !.queue = <<>>])
        [] OTHER -> [t EXCEPT !.shown = @ \o t.queue, !.queue = <<>>]

\* Mutant: released before inquirer is done with stdin.
DialogOverLate(s, ds) == [Released(s, ds) EXCEPT !.raw = IF ds = {} THEN @ ELSE FALSE]

\* A dialog ends: inquirer leaves stdin cooked before withPrompt releases.
DialogOver(s, ds) == Released([s EXCEPT !.raw = IF ds = {} THEN @ ELSE FALSE], ds)

\* stop: an ordinary terminal again, with all of the output.
ScreenGivenBack(s) ==
  [s EXCEPT !.owners = <<>>, !.held = FALSE, !.raw = FALSE, !.due = FALSE, !.queue = <<>>,
            !.shown = IF s.alt THEN Lines(s) ELSE @ \o s.queue]

\* The fields lose what was typed into them.
Emptied(s) == [s EXCEPT !.owners = [k \in DOMAIN @ |-> [@[k] EXCEPT !.draft = "none"]]]

\* progressIndicator.end
ProgressEnded(s) == Released(s, OwnersIn(s, {"progress"}))

Alive == screen.held
MoreEvents == Len(turns) + screen.made < MaxEvents
InProgress == {i \in DOMAIN turns : turns[i].from # "remote" /\ turns[i].at # "over"}
TurnRuns == line # <<>> /\ turns[Head(line)].at = "runs"
RunIsLocal == TurnRuns /\ turns[Head(line)].from # "remote"

Fresh == [pc |-> "prompt", drains |-> FALSE, busy |-> FALSE, later |-> <<>>]

Silent == [aborted |-> FALSE, steering |-> <<>>, taken |-> [x \in Inputs |-> 0],
           entered |-> [x \in Inputs |-> 0], deaf |-> {}]

TermInit ==
  /\ screen \in {Acquired([alt |-> a, held |-> TRUE, raw |-> TRUE, due |-> FALSE,
                           owners |-> <<>>, made |-> 0, queue |-> <<>>, shown |-> <<>>],
                          Prompt0) : a \in BOOLEAN}
  /\ watch = 0 /\ shell = Fresh /\ turns = <<>> /\ line = <<>> /\ talk = Silent

-----------------------------------------------------------------------------
(* Output. *)

\* write: recorded, and withheld under a dialog.
Write ==
  /\ MoreEvents
  /\ LET n == screen.made + 1
         s == [screen EXCEPT !.made = n]
     IN  screen' = CASE Exclusive -> [s EXCEPT !.queue = Append(@, n)]
                     [] ~Exclusive /\ s.alt -> [s EXCEPT !.due = TRUE]
                     [] OTHER -> [s EXCEPT !.shown = Append(@, n)]
  /\ UNCHANGED <<watch, shell, turns, line, talk>>

\* The timer of scheduleRender; render leaves a dialog alone.
Render ==
  /\ screen.due
  /\ screen' = IF Exclusive THEN [screen EXCEPT !.due = FALSE] ELSE Drawn(screen)
  /\ UNCHANGED <<watch, shell, turns, line, talk>>

-----------------------------------------------------------------------------
(* Turns. *)

\* processInput up to its run, which enters the queue; s is the screen and sh
\* the REPL before it.
StartsTurn(s, sh, from) ==
  LET i == Len(turns) + 1
  IN  /\ i <= MaxTurns /\ MoreEvents
      /\ turns' = Append(turns, [from |-> from, at |-> "waits"])
      /\ line' = Append(line, i)
      /\ watch' = i
      /\ screen' = Acquired(s, Composer(i))
      /\ shell' = [sh EXCEPT !.busy = TRUE, !.pc = IF from = "repl" THEN "turn" ELSE @]

\* handleCommand; some commands run the agent by themselves, with agentBusy but
\* without field, watcher or queue (/try, /goal-loop).
StartsCommand(sh) ==
  \/ shell' = [sh EXCEPT !.pc = "command"]
  \/ shell' = [sh EXCEPT !.pc = "attempt", !.busy = TRUE]

\* runScheduledPrompt: put off only while agentBusy.
ScheduleFires ==
  /\ ~shell.busy
  /\ StartsTurn(screen, shell, "schedule")
  /\ UNCHANGED talk

\* A message from Discord or Slack: a run without field or watcher.
RemoteArrives ==
  /\ Len(turns) < MaxTurns /\ MoreEvents
  /\ turns' = Append(turns, [from |-> "remote", at |-> "waits"])
  /\ line' = Append(line, Len(turns) + 1)
  /\ UNCHANGED <<screen, watch, shell, talk>>

TurnRunStarts ==
  /\ line # <<>> /\ turns[Head(line)].at = "waits"
  /\ turns' = [turns EXCEPT ![Head(line)].at = "runs"]
  /\ UNCHANGED <<screen, watch, shell, line, talk>>

\* applyPendingSteering: the next run at a boundary takes what waits, whoever
\* started it: a command by itself, Discord and Slack too.
RunTakes ==
  /\ (TurnRuns /\ ~talk.aborted) \/ shell.pc = "attempt"
  /\ talk.steering # <<>>
  /\ talk' = [talk EXCEPT !.taken = [x \in Inputs |-> @[x] + Times(x, talk.steering)],
                            !.steering = <<>>]
  /\ UNCHANGED <<screen, watch, shell, turns, line>>

\* The run is over, its dialog and its tool before it; a turn of the REPL still
\* sends its report.
TurnRunEnds ==
  /\ TurnRuns
  /\ Dialog("run") \notin Owners({"dialog"})
  /\ Owners({"progress"}) = {} \/ shell.pc = "attempt"
  /\ turns' = [turns EXCEPT ![Head(line)].at = IF RunIsLocal THEN "reports" ELSE "over"]
  /\ line' = Tail(line)
  /\ talk' = [talk EXCEPT !.aborted = FALSE]
  /\ UNCHANGED <<screen, watch, shell>>

\* Mutant: the texts a run did not take stay with the agent as well.
TurnOverKeeping(i) ==
  /\ turns[i].at = "reports"
  /\ turns' = [turns EXCEPT ![i].at = "over"]
  /\ screen' = ProgressEnded(Released(screen, {e \in Owners({"composer"}) : e.of = i}))
  /\ watch' = 0
  /\ shell' = [shell EXCEPT !.busy = FALSE, !.later = @ \o talk.steering,
                            !.pc = IF turns[i].from = "repl" THEN "drain" ELSE @]
  /\ talk' = [talk EXCEPT !.deaf = InProgress \ {i}]
  /\ UNCHANGED line

\* The finally of processInput.  The watcher is the only one there is: the one
\* it stops may be another turn's.
TurnOver(i) ==
  /\ turns[i].at = "reports"
  /\ turns' = [turns EXCEPT ![i].at = "over"]
  /\ screen' = ProgressEnded(Released(screen, {e \in Owners({"composer"}) : e.of = i}))
  /\ watch' = 0
  /\ shell' = [shell EXCEPT !.busy = FALSE, !.later = @ \o talk.steering,
                            !.pc = IF turns[i].from = "repl" THEN "drain" ELSE @]
  /\ talk' = [talk EXCEPT !.steering = <<>>, !.deaf = InProgress \ {i}]
  /\ UNCHANGED line

\* drainPendingInputs, and the prompt when nothing waits.
Drain ==
  /\ shell.pc = "drain"
  /\ \/ /\ shell.later = <<>>
        /\ screen' = Acquired(screen, Prompt0)
        /\ shell' = [shell EXCEPT !.pc = "prompt", !.drains = FALSE]
        /\ UNCHANGED <<watch, turns, line, talk>>
     \/ /\ shell.later # <<>>
        /\ LET x == Head(shell.later)
               sh == [shell EXCEPT !.later = Tail(@), !.drains = TRUE]
           IN  /\ talk' = [talk EXCEPT !.taken[x] = @ + 1]
               /\ \/ /\ x \in Slashes
                     /\ StartsCommand(sh)
                     /\ UNCHANGED <<screen, watch, turns, line>>
                  \/ x \in Texts /\ StartsTurn(screen, sh, "repl")

\* handleCommand returns; after a command of the prompt nothing is drained.
CommandEnds ==
  /\ shell.pc \in {"command", "attempt"}
  /\ Dialog("command") \notin Owners({"dialog"})
  /\ Owners({"progress"}) = {} \/ TurnRuns \/ shell.pc = "command"
  /\ shell' = [shell EXCEPT !.pc = IF shell.drains THEN "drain" ELSE "prompt",
                            !.busy = shell.pc = "command" /\ @]
  /\ screen' = IF shell.drains THEN screen ELSE Acquired(screen, Prompt0)
  /\ UNCHANGED <<watch, turns, line, talk>>

\* withPrompt: a menu of a command, a permission or a question of a run.
DialogOpens(by) ==
  /\ (by = "command" /\ shell.pc \in {"command", "attempt"}) \/ (by = "run" /\ RunIsLocal)
  /\ Dialog(by) \notin Owners({"dialog"})
  /\ screen' = Acquired(screen, Dialog(by))
  /\ UNCHANGED <<watch, shell, turns, line, talk>>

\* progressIndicator.begin, of a run's or a command's tool.
ProgressBegins ==
  /\ TurnRuns \/ shell.pc = "attempt"
  /\ LET s == ProgressEnded(screen)
     IN  screen' = IF s.owners # <<>> /\ Last(s.owners).kind = "composer"
                   THEN s ELSE Acquired(s, Progress)
  /\ UNCHANGED <<watch, shell, turns, line, talk>>

ProgressEnds ==
  /\ Owners({"progress"}) # {}
  /\ screen' = ProgressEnded(screen)
  /\ UNCHANGED <<watch, shell, turns, line, talk>>

-----------------------------------------------------------------------------
(* Keys: every listener of stdin gets each. *)

\* Fields ignore the keys of a dialog; otherwise all of them take the text.
Type(x) ==
  /\ ~Exclusive /\ Fields # {} /\ \A e \in Fields : e.draft = "none"
  /\ talk.entered[x] = 0
  /\ screen' = [screen EXCEPT !.owners = [k \in DOMAIN @ |->
                  IF @[k].kind \in {"prompt", "composer"} THEN [@[k] EXCEPT !.draft = x]
                  ELSE @[k]]]
  /\ UNCHANGED <<watch, shell, turns, line, talk>>

\* Enter answers the dialogs that take it.
Answer ==
  \E ds \in SUBSET Owners({"dialog"}) \ {{}} :
    /\ screen' = DialogOver(screen, ds)
    /\ UNCHANGED <<watch, shell, turns, line, talk>>

\* queueSteering accepts a text while the latest run to start is one of the CLI,
\* and the runs of a command come and go.
Steers(x) ==
  IF x \notin Texts THEN {FALSE} ELSE IF shell.pc = "attempt" THEN BOOLEAN ELSE {RunIsLocal}

\* Enter in the composers that hold a text, which are asked again: routeTypeAhead.
Routed(sh, t, x, n, steers) ==
  IF steers
  THEN <<sh, [t EXCEPT !.steering = @ \o [k \in 1..n |-> x]]>>
  ELSE <<[sh EXCEPT !.later = @ \o [k \in 1..n |-> x]], t>>

\* Enter finishes every field that holds a text: the prompt starts a turn or a
\* command, a composer hands its text on.
Enter(x) == \E steers \in Steers(x) :
  LET full == {e \in Fields : e.draft = x}
      fromPrompt == Prompt0.kind \in {e.kind : e \in full}
      n == Cardinality({e \in full : e.kind = "composer"})
      r == Routed(shell, [talk EXCEPT !.entered[x] = Cardinality(full)], x, n, steers)
      s == Released(Emptied(screen), IF fromPrompt THEN {Prompt0} ELSE {})
  IN  /\ ~Exclusive /\ full # {}
      /\ talk' = IF fromPrompt THEN [r[2] EXCEPT !.taken[x] = @ + 1] ELSE r[2]
      /\ \/ /\ fromPrompt /\ x \in Texts
            /\ StartsTurn(s, r[1], "repl")
         \/ /\ fromPrompt /\ x \in Slashes
            /\ screen' = s /\ StartsCommand(r[1])
            /\ UNCHANGED <<watch, turns, line>>
         \/ /\ ~fromPrompt
            /\ screen' = s /\ shell' = r[1]
            /\ UNCHANGED <<watch, turns, line>>

\* Esc empties the fields, and the watcher fires, under a dialog too: it stops
\* listening and aborts the run.
EscKey ==
  /\ watch # 0 \/ \E e \in Fields : e.draft # "none"
  /\ LET s == IF Exclusive THEN screen ELSE Emptied(screen)
     IN  screen' = IF watch # 0 THEN ProgressEnded(s) ELSE s
  /\ talk' = IF watch # 0 THEN [talk EXCEPT !.aborted = TurnRuns, !.deaf = InProgress]
             ELSE talk
  /\ watch' = 0
  /\ UNCHANGED <<shell, turns, line>>

\* The end of the process, by Ctrl+C or SIGTERM: the screen is given back, the memory goes.
ProcessEnds ==
  /\ screen' = ScreenGivenBack(screen)
  /\ shell' = [Fresh EXCEPT !.pc = "out"]
  /\ watch' = 0 /\ turns' = <<>> /\ line' = <<>> /\ talk' = Silent

\* Who makes a SIGINT of Ctrl+C: the watcher, or ScreenManager when nobody else
\* reads.
MakesSigint == watch # 0 \/ screen.owners = <<>>

\* Ctrl+C: dialogs give up, fields are asked again, SIGINT aborts what is busy.
\* A second SIGINT within three seconds is ProcessEnds.
CtrlC ==
  /\ screen' = IF Exclusive THEN DialogOver(screen, Owners({"dialog"})) ELSE Emptied(screen)
  /\ talk' = [talk EXCEPT !.aborted = (MakesSigint /\ shell.busy /\ TurnRuns) \/ @]
  /\ UNCHANGED <<watch, shell, turns, line>>

-----------------------------------------------------------------------------
\* Nothing comes between a turn of the REPL and the next text: no key or timer
\* is served there.
TermNext ==
  \/ Drain
  \/ /\ Alive /\ shell.pc # "drain"
     /\ \/ Write \/ Render \/ ScheduleFires \/ RemoteArrives
        \/ TurnRunStarts \/ RunTakes \/ TurnRunEnds \/ CommandEnds
        \/ ProgressBegins \/ ProgressEnds
        \/ Answer \/ EscKey \/ CtrlC \/ ProcessEnds
        \/ \E i \in DOMAIN turns : TurnOver(i)
        \/ \E by \in {"command", "run"} : DialogOpens(by)
        \/ \E x \in Inputs : Type(x) \/ Enter(x)

TermSpec == TermInit /\ [][TermNext]_termVars
-----------------------------------------------------------------------------
TermTypeOK ==
  /\ screen.alt \in BOOLEAN /\ screen.held \in BOOLEAN /\ screen.raw \in BOOLEAN
  /\ screen.due \in BOOLEAN /\ screen.made \in 0..MaxEvents
  /\ \A e \in ToSet(screen.owners) :
       e.kind \in {"prompt", "composer", "dialog", "progress"} /\ e.draft \in Inputs \cup {"none"}
  /\ watch \in 0..Len(turns)
  /\ shell.pc \in {"prompt", "command", "attempt", "turn", "drain", "out"}
  /\ \A i \in DOMAIN turns : turns[i] \in [from : {"repl", "schedule", "remote"},
                                           at : {"waits", "runs", "reports", "over"}]
  /\ ToSet(line) \subseteq DOMAIN turns

\* Every line printed is on the screen, or will be: in inline mode the lines
\* withheld follow those shown, in their order and only under a dialog; on the
\* alternate screen a drawing is due or a dialog is open when one is missing;
\* and an ended process has left all of them.  While dialogs are open and no
\* other opens, nothing else reaches the screen (ScreenManager.write,
\* acquireLive, stop; prompt-gate.ts).
OutputIsKept ==
  [][ /\ IF ~screen'.held THEN screen'.shown = Lines(screen')
         ELSE IF screen'.alt
              THEN screen'.shown = Lines(screen') \/ screen'.due \/ ExclusiveIn(screen')
              ELSE /\ screen'.shown \o screen'.queue = Lines(screen')
                   /\ screen'.queue # <<>> => ExclusiveIn(screen')
      /\ (ExclusiveIn(screen') /\ OwnersIn(screen', {"dialog"}) \subseteq Owners({"dialog"}))
            => screen'.shown = screen.shown
    ]_termVars

\* As long as the process lives stdin is raw, and Ctrl+C reaches somebody who
\* acts on it: a dialog, the prompt, the watcher of a turn, or ScreenManager.
\* It does not while a command works and the progress line of a tool, its own or
\* a remote run's, is the only owner, and in a turn whose watcher Esc or the end
\* of another turn has stopped (acquireLive, InterruptWatcher, sigintFallback).
KeysAreHeard ==
  Alive =>
    /\ screen.raw
    /\ \/ Exclusive \/ Owners({"prompt"}) # {} \/ MakesSigint
       \/ shell.pc \in {"command", "attempt"} /\ Owners({"progress"}) # {}
       \/ shell.pc = "drain"
       \/ talk.deaf \cap InProgress # {}

\* A text that was entered waits as steering or in pendingInputs, or was taken
\* by a turn, a command or a run: once for every field that held it, whichever
\* turns end or are aborted meanwhile; and as steering it waits only while a turn
\* of the terminal is in progress, whose end collects it (routeTypeAhead,
\* takePendingSteering, drainPendingInputs).  Which run takes it is not promised:
\* while that turn still sends its report, or waits for its own run, a run of
\* Discord or Slack does, which the comment at agent-loop.ts:836-837 excludes.
EnteredIsKept ==
  Alive =>
    /\ \A x \in Inputs :
         Times(x, talk.steering) + Times(x, shell.later) + talk.taken[x] = talk.entered[x]
    /\ talk.steering # <<>> => InProgress # {}
=============================================================================
