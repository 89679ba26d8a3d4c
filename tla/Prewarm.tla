------------------------------ MODULE Prewarm ------------------------------
(***************************************************************************)
(* One server slot and everybody who sends to it: the main call of a run,  *)
(* the prewarm that reads the conversation in ahead of time                *)
(* (src/src/agent/prewarm.ts), the summary calls of context reductions     *)
(* (runReductionEvent) and the side calls of sub-agents (side-call.ts).    *)
(*                                                                         *)
(* A prompt is the settings, the source of the run (it decides the tools)  *)
(* and the history.  The history holds the words of the user, the model's  *)
(* replies and what a reduction leaves of a reply (the gist).  Prewarms    *)
(* are numbered in the order they are started; nothing happens between two *)
(* awaits of the code, so a step that awaits nothing is one action.        *)
(*                                                                         *)
(* Abstracted: sizes and thresholds (a reduction may come whenever there   *)
(* is a reply to reduce), status notes in the messages, tools, pausing     *)
(* (ForegroundRun), the switch of rooms (Rooms), providers that are not a  *)
(* server of the user's own, and the display.                              *)
(***************************************************************************)
EXTENDS Integers, Sequences, FiniteSets, SequencesExt

CONSTANTS Sides,        \* background callers of sideCall
          MaxWords,     \* bound: requests
          MaxReplies,   \* bound: replies in a history
          MaxPrewarms,  \* bound: prewarms started
          MaxReductions,\* bound: reductions that rewrite
          MaxChanges,   \* bound: changes of model or sampling, and forks
          AutoValues    \* values of context.prewarm.auto

ASSUME PrewarmConstants ==
  /\ IsFiniteSet(Sides) /\ Sides \cap {"run", "prep", "compact", "main"} = {}
  /\ AutoValues \subseteq BOOLEAN
  /\ {MaxWords, MaxReplies, MaxPrewarms, MaxReductions, MaxChanges} \subseteq Nat

VARIABLES
  auto,     \* context.prewarm.auto
  conf,     \* settings of a main call: how often they were changed
  source,   \* currentSource of the agent loop
  chat,     \* this.history: [id, list]
  jobs,     \* prewarms: [at, cut, sent, behind]
  current,  \* PrewarmRunner.current, 0 if null
  run,      \* the run: [pc, waits]
  red,      \* reductions in progress: [at, waits, id, copy, why, cut, ok]
  prep,     \* prewarmPreparation: "no", "judging"
  aborted,  \* _aborted
  settled,  \* requestEndSettled
  holder,   \* whose call llmAbortController cuts
  side,     \* side calls: [pc, waits]
  used      \* bounds: [words, reductions, changes]

prewarmVars == <<auto, conf, source, chat, jobs, current, run, red, prep,
                 aborted, settled, holder, side, used>>

Reducers == {"run", "prep", "compact"}
NoRed    == [at |-> "no", waits |-> 0, id |-> 0, copy |-> <<>>, why |-> "no",
             cut |-> FALSE, ok |-> FALSE]
Words    == 1..MaxWords
Reply    == 0
Gist     == -1
Resting  == [pc |-> "idle", waits |-> 0]
Over     == [at |-> "done", cut |-> FALSE, sent |-> <<>>, behind |-> 0]

(***************************************************************************)
(* Prompts.  One is a prefix of another when the settings and the tools    *)
(* are the same and the messages begin alike.                              *)
(***************************************************************************)
Prompt == <<conf, source, chat.list>>

IsPromptPrefix(previous, next) ==
  /\ previous[1] = next[1] /\ previous[2] = next[2]
  /\ IsPrefix(previous[3], next[3])

\* What a reduction makes of a history: every reply is forgotten or summarised.
Reduced(list) == [i \in DOMAIN list |-> IF list[i] = Reply THEN Gist ELSE list[i]]

Reducible(list) == \E i \in DOMAIN list : list[i] = Reply

Replies(list) == Cardinality({i \in DOMAIN list : list[i] \notin Words})

(***************************************************************************)
(* PrewarmRunner.  'js' is jobs or jobs as an earlier part of the same     *)
(* step leaves it; cutting never waits for the stream to close.            *)
(***************************************************************************)
Cut(js) == IF current = 0 THEN js ELSE [js EXCEPT ![current].cut = TRUE]

CutIfStale(js, next) ==
  IF current # 0 /\ ~js[current].cut /\ ~IsPromptPrefix(js[current].sent, next)
  THEN Cut(js) ELSE js

StartAtOnce(js, sent) ==
  /\ Len(js) < MaxPrewarms
  /\ jobs' = Append(Cut(js), [at |-> "wire", cut |-> FALSE, sent |-> sent, behind |-> 0])
  /\ current' = Len(js) + 1

\* start(): the previous prewarm is cut, its end is awaited before the send.
Start(js, sent) ==
  /\ Len(js) < MaxPrewarms
  /\ jobs' = Append(Cut(js), [at     |-> IF current = 0 THEN "wire" ELSE "queued",
                              cut    |-> FALSE,
                              sent   |-> sent,
                              behind |-> current])
  /\ current' = Len(js) + 1

\* startPrewarm(): an empty history is not sent.
StartPrewarm(js, sent) ==
  IF sent[3] = <<>> THEN jobs' = js /\ UNCHANGED current ELSE Start(js, sent)

Done(p) == p = 0 \/ jobs[p].at = "done"

JobSendsUncut(p) ==
  /\ jobs[p].at = "queued" /\ Done(jobs[p].behind) /\ ~jobs[p].cut
  /\ jobs' = [jobs EXCEPT ![p].at = "wire", ![p].behind = 0]
  /\ UNCHANGED <<auto, conf, source, chat, current, run, red, prep, aborted,
                 settled, holder, side, used>>

\* The wait of a prewarm for the one it replaced is over.
JobSends(p) ==
  /\ jobs[p].at = "queued" /\ Done(jobs[p].behind)
  /\ jobs' = [jobs EXCEPT ![p] = IF jobs[p].cut THEN Over
                                    ELSE [@ EXCEPT !.at = "wire", !.behind = 0]]
  /\ current' = IF jobs[p].cut /\ current = p THEN 0 ELSE current
  /\ UNCHANGED <<auto, conf, source, chat, run, red, prep, aborted, settled,
                 holder, side, used>>

JobEndsUnnoticed(p) ==
  /\ jobs[p].at = "wire"
  /\ jobs' = [jobs EXCEPT ![p] = Over]
  /\ UNCHANGED <<auto, conf, source, chat, current, run, red, prep, aborted,
                 settled, holder, side, used>>

\* The stream ends, fails, or has closed after a cut.
JobEnds(p) ==
  /\ jobs[p].at = "wire"
  /\ jobs' = [jobs EXCEPT ![p] = Over]
  /\ current' = IF current = p THEN 0 ELSE current
  /\ UNCHANGED <<auto, conf, source, chat, run, red, prep, aborted, settled,
                 holder, side, used>>

\* Esc at the empty prompt cancels the prewarm and nothing else.
CancelPrewarm ==
  /\ current # 0 /\ ~jobs[current].cut
  /\ jobs' = Cut(jobs)
  /\ UNCHANGED <<auto, conf, source, chat, current, run, red, prep, aborted,
                 settled, holder, side, used>>

SideCallsAtOnce(s) ==
  /\ side[s].pc = "idle"
  /\ side' = [side EXCEPT ![s] = [pc |-> "call", waits |-> 0]]
  /\ UNCHANGED <<auto, conf, source, chat, jobs, current, run, red, prep,
                 aborted, settled, holder, used>>

(***************************************************************************)
(* sideCall() of a background caller: beforeSideCall cuts a stale prewarm  *)
(* and awaits the end of the one it found.                                 *)
(***************************************************************************)
SideCalls(s) ==
  /\ side[s].pc = "idle"
  /\ jobs' = CutIfStale(jobs, Prompt)
  /\ side' = [side EXCEPT ![s] = [pc    |-> IF current = 0 THEN "call" ELSE "gate",
                                  waits |-> current]]
  /\ UNCHANGED <<auto, conf, source, chat, current, run, red, prep, aborted,
                 settled, holder, used>>

SideIsSent(s) ==
  /\ side[s].pc = "gate" /\ Done(side[s].waits)
  /\ side' = [side EXCEPT ![s] = [pc |-> "call", waits |-> 0]]
  /\ UNCHANGED <<auto, conf, source, chat, jobs, current, run, red, prep,
                 aborted, settled, holder, used>>

SideEnds(s) ==
  /\ side[s].pc = "call"
  /\ side' = [side EXCEPT ![s] = Resting]
  /\ UNCHANGED <<auto, conf, source, chat, jobs, current, run, red, prep,
                 aborted, settled, holder, used>>

(***************************************************************************)
(* runReductionEvent.  The event works on a copy of the history it found   *)
(* (its 'id': restoring a session makes a new history) and replaces the    *)
(* messages once.  A reduction that needs no summary replaces them in the  *)
(* step that starts it; the summary is a side call and waits at the gate.  *)
(***************************************************************************)
Boundaries == {"new-request", "pending", "request-end", "before-prewarm"}

\* Room for one more prewarm under the bound, the reductions' own included.
Budget ==
  Len(jobs) + Cardinality({a \in Reducers : red[a].at # "no"}) < MaxPrewarms

\* The messages are replaced, the listener cuts what is stale, and the new
\* prompt is prewarmed when the trigger asks for it and nobody pressed Esc.
Replace(a, js, r) ==
  LET list == IF r.id = chat.id THEN Reduced(r.copy) ELSE chat.list
      next == <<conf, source, list>>
      js1  == IF r.id = chat.id THEN CutIfStale(js, next) ELSE js
      send == /\ ~aborted
              /\ \/ r.why = "before-prewarm"
                 \/ auto /\ r.why \in {"request-end", "manual"}
  IN /\ chat' = [chat EXCEPT !.list = list]
     /\ IF send THEN StartPrewarm(js1, next) ELSE jobs' = js1 /\ UNCHANGED current
     /\ settled' = (settled \/ (r.why = "manual" /\ run.pc = "idle"))
     /\ red' = [red EXCEPT ![a] = [NoRed EXCEPT !.at = "done", !.ok = TRUE]]
     /\ holder' = "none"
     /\ used' = [used EXCEPT !.reductions = @ + 1]

\* The reduction that actor a asks for: skipped or failing before it changes
\* anything (a forced or a manual one has cut the prewarm all the same), done
\* by the stages alone, or going on to the summary.
ReductionStarts(a, why) ==
  LET r == [NoRed EXCEPT !.id = chat.id, !.copy = chat.list, !.why = why]
  IN /\ red[a].at = "no"
     /\ \/ /\ red' = [red EXCEPT ![a] = [NoRed EXCEPT !.at = "done"]]
           /\ jobs' = IF why \in Boundaries THEN jobs ELSE Cut(jobs)
           /\ holder' = "none"
           /\ UNCHANGED <<chat, current, settled, used>>
        \/ /\ Reducible(chat.list) /\ used.reductions < MaxReductions /\ Budget
           /\ Replace(a, Cut(jobs), r)
        \/ /\ Reducible(chat.list) /\ used.reductions < MaxReductions /\ Budget
           /\ jobs' = Cut(jobs)
           /\ red' = [red EXCEPT ![a] =
                [r EXCEPT !.at    = IF current = 0 THEN "wire" ELSE "gate",
                          !.waits = current]]
           /\ holder' = a
           /\ UNCHANGED <<chat, current, settled, used>>

SummaryIsSent(a) ==
  /\ red[a].at = "gate" /\ Done(red[a].waits)
  /\ red' = [red EXCEPT ![a].at = "wire", ![a].waits = 0]
  /\ UNCHANGED <<auto, conf, source, chat, jobs, current, run, prep, aborted,
                 settled, holder, side, used>>

\* The summary arrives, or fails and the stages alone go on (summaryFailure).
SummaryEnds(a) ==
  /\ red[a].at = "wire" /\ ~red[a].cut
  /\ Replace(a, jobs, red[a])
  /\ UNCHANGED <<auto, conf, source, run, prep, aborted, side>>

\* A summary cut by Esc always fails the event; another failure may.
SummaryFails(a) ==
  /\ red[a].at = "wire"
  /\ red' = [red EXCEPT ![a] = [NoRed EXCEPT !.at = "done"]]
  /\ holder' = "none"
  /\ UNCHANGED <<auto, conf, source, chat, jobs, current, run, prep, aborted,
                 settled, side, used>>

(***************************************************************************)
(* run(): wait for the preparation of a prewarm, judge the boundary before *)
(* the new request, add the words, then main calls, each behind its        *)
(* boundaries and behind the prewarm, and the judgement of the end.        *)
(***************************************************************************)
At(pc) == run' = [run EXCEPT !.pc = pc]

\* A schedule fires only while the REPL is not busy; other surfaces come any
\* time.  A command in progress at the prompt (/compact) stops neither.
RunStarts(from) ==
  /\ run.pc = "idle" /\ used.words < MaxWords /\ Replies(chat.list) < MaxReplies
  /\ from = "cli" => prep = "no"
  /\ source' = from /\ aborted' = FALSE
  /\ run' = [pc |-> "prepared", waits |-> 0]
  /\ UNCHANGED <<auto, conf, chat, jobs, current, red, prep, settled, holder,
                 side, used>>

JudgeNewRequest ==
  /\ run.pc = "prepared" /\ prep = "no" /\ ~settled
  /\ ReductionStarts("run", "new-request")
  /\ At("newreq")
  /\ UNCHANGED <<auto, conf, source, prep, aborted, side>>

AddWords ==
  /\ chat' = [chat EXCEPT !.list = Append(@, used.words + 1)]
  /\ used' = [used EXCEPT !.words = @ + 1]
  /\ settled' = FALSE /\ At("loop")

\* No boundary to judge: the request before was settled, or P is small.
RunBegins ==
  /\ run.pc = "prepared" /\ prep = "no"
  /\ AddWords
  /\ UNCHANGED <<auto, conf, source, jobs, current, red, prep, aborted, holder,
                 side>>

\* judgePendingBoundary, then enforceForcedLimit.
JudgeBeforeCall(why) ==
  /\ run.pc = "loop"
  /\ ReductionStarts("run", why)
  /\ At(why)
  /\ UNCHANGED <<auto, conf, source, prep, aborted, side>>

\* The request is built and its call controller made; with a prewarm running
\* it is compared and awaited, cut or not.
RunBuilds ==
  /\ run.pc = "loop"
  /\ jobs' = CutIfStale(jobs, Prompt)
  /\ run' = [pc |-> IF current = 0 THEN "call" ELSE "wait", waits |-> current]
  /\ holder' = "run"
  /\ UNCHANGED <<auto, conf, source, chat, current, red, prep, aborted, settled,
                 side, used>>

MainIsSent ==
  /\ run.pc = "wait" /\ Done(run.waits) /\ ~aborted
  /\ run' = [pc |-> "call", waits |-> 0]
  /\ UNCHANGED <<auto, conf, source, chat, jobs, current, red, prep, aborted,
                 settled, holder, side, used>>

\* The mark that the request was not answered; the next one is judged anew.
Stop ==
  /\ chat' = [chat EXCEPT !.list = Append(@, Reply)]
  /\ run' = Resting /\ settled' = FALSE

\* Esc while waiting, calling or in a tool; a call that fails for good.
RunStops ==
  /\ \/ run.pc = "wait" /\ Done(run.waits) /\ aborted
     \/ run.pc = "call"
     \/ run.pc = "tools" /\ aborted
  /\ Stop /\ holder' = "none"
  /\ UNCHANGED <<auto, conf, source, jobs, current, red, prep, aborted, side, used>>

\* A reply with tool calls, which are executed before the next main call.
ToolCalls ==
  /\ run.pc = "call" /\ ~aborted /\ Replies(chat.list) + 1 < MaxReplies
  /\ chat' = [chat EXCEPT !.list = Append(@, Reply)]
  /\ At("tools") /\ holder' = "none"
  /\ UNCHANGED <<auto, conf, source, jobs, current, red, prep, aborted, settled,
                 side, used>>

ToolsEnd ==
  /\ run.pc = "tools" /\ ~aborted
  /\ At("loop")
  /\ UNCHANGED <<auto, conf, source, chat, jobs, current, red, prep, aborted,
                 settled, holder, side, used>>

\* The final reply; open todos or a goal in progress leave the end unjudged.
FinalReply ==
  /\ run.pc = "call" /\ ~aborted
  /\ chat' = [chat EXCEPT !.list = Append(@, Reply)]
  /\ settled' = TRUE /\ holder' = "none"
  /\ \E pc \in {"idle", "final"} : run' = [pc |-> pc, waits |-> 0]
  /\ UNCHANGED <<auto, conf, source, jobs, current, red, prep, aborted, side, used>>

JudgeEnd ==
  /\ run.pc = "final"
  /\ ReductionStarts("run", "request-end")
  /\ At("ending")
  /\ UNCHANGED <<auto, conf, source, prep, aborted, side>>

\* What the run does with the reduction it awaited.
RunGoesOn ==
  /\ red["run"].at = "done"
  /\ red' = [red EXCEPT !["run"] = NoRed]
  /\ \/ run.pc = "newreq" /\ AddWords
     \/ run.pc = "pending" /\ ~aborted /\ At("loop") /\ UNCHANGED <<chat, settled, used>>
     \/ run.pc = "pending" /\ aborted /\ Stop /\ UNCHANGED used
     \/ run.pc = "forced" /\ (red["run"].ok \/ ~aborted) /\ At("loop")
                          /\ UNCHANGED <<chat, settled, used>>
     \/ run.pc = "forced" /\ ~red["run"].ok /\ Stop /\ UNCHANGED used
     \/ run.pc = "ending" /\ run' = Resting /\ UNCHANGED <<chat, settled, used>>
  /\ UNCHANGED <<auto, conf, source, jobs, current, prep, aborted, holder, side>>

(***************************************************************************)
(* Commands at the prompt, which is free unless a run of its own surface   *)
(* or a preparation holds it, and Esc.                                     *)
(***************************************************************************)
PromptFree ==
  /\ prep = "no" /\ red["compact"].at = "no"
  /\ ~(run.pc # "idle" /\ source = "cli")

\* prepareAndPrewarm: the judgement a next request would do, then the prewarm.
Prepare(js, list, before) ==
  /\ aborted' = FALSE
  /\ \/ /\ Len(js) < MaxPrewarms /\ Budget
        /\ settled' = TRUE /\ StartPrewarm(js, <<conf, source, list>>)
        /\ UNCHANGED <<prep, red, holder>>
     \/ /\ Reducible(list) /\ used.reductions < MaxReductions /\ Budget
        /\ prep' = "judging" /\ settled' = before
        /\ red' = [red EXCEPT !["prep"] =
             [NoRed EXCEPT !.at    = IF current = 0 THEN "wire" ELSE "gate",
                           !.waits = current,     !.id  = chat'.id,
                           !.copy  = list,        !.why = "before-prewarm"]]
        /\ jobs' = Cut(js) /\ holder' = "prep"
        /\ UNCHANGED current

\* /prewarm, refused during a run and during a prewarm.
PrewarmNow ==
  /\ PromptFree /\ run.pc = "idle" /\ current = 0 /\ chat.list # <<>>
  /\ UNCHANGED chat
  /\ Prepare(jobs, chat.list, settled)
  /\ UNCHANGED <<auto, conf, source, run, side, used>>

\* /fork and /resume: another history object; a prewarm only when automatic.
Restore(list) ==
  /\ PromptFree /\ used.changes < MaxChanges
  /\ chat' = [id |-> chat.id + 1, list |-> list]
  /\ used' = [used EXCEPT !.changes = @ + 1]
  /\ IF auto THEN Prepare(Cut(jobs), list, FALSE)
     ELSE /\ jobs' = Cut(jobs) /\ settled' = FALSE
          /\ UNCHANGED <<current, prep, aborted, red, holder>>
  /\ UNCHANGED <<auto, conf, source, run, side>>

\* After the judgement: Esc drops the prewarm, else it is sent unless the
\* reduction has sent it already.
PrepGoesOn ==
  /\ red["prep"].at = "done"
  /\ red' = [red EXCEPT !["prep"] = NoRed]
  /\ prep' = "no"
  /\ \/ /\ aborted /\ aborted' = FALSE
        /\ UNCHANGED <<jobs, current, settled>>
     \/ /\ ~aborted /\ settled' = TRUE
        /\ IF red["prep"].ok THEN UNCHANGED <<jobs, current>>
           ELSE StartPrewarm(jobs, Prompt)
        /\ UNCHANGED aborted
  /\ UNCHANGED <<auto, conf, source, chat, run, holder, side, used>>

\* /compact: neither queued behind the runs nor refused during one.
Compact ==
  /\ PromptFree
  /\ ReductionStarts("compact", "manual")
  /\ UNCHANGED <<auto, conf, source, run, prep, aborted, side>>

CompactEnds ==
  /\ red["compact"].at = "done"
  /\ red' = [red EXCEPT !["compact"] = NoRed]
  /\ UNCHANGED <<auto, conf, source, chat, jobs, current, run, prep, aborted,
                 settled, holder, side, used>>

\* /model, /sampling: the settings change, a prewarm of the old ones is cut.
ChangeSettings ==
  /\ PromptFree /\ used.changes < MaxChanges
  /\ conf' = conf + 1
  /\ jobs' = CutIfStale(jobs, <<conf + 1, source, chat.list>>)
  /\ used' = [used EXCEPT !.changes = @ + 1]
  /\ UNCHANGED <<auto, source, chat, current, run, red, prep, aborted, settled,
                 holder, side>>

\* abort(): Esc, Ctrl+C or a stop from a channel during a run or a preparation.
Esc ==
  /\ run.pc # "idle" \/ prep # "no"
  /\ ~aborted
  /\ aborted' = TRUE
  /\ jobs' = Cut(jobs)
  /\ red' = [a \in Reducers |-> IF a = holder THEN [red[a] EXCEPT !.cut = TRUE]
                                              ELSE red[a]]
  /\ UNCHANGED <<auto, conf, source, chat, current, run, prep, settled, holder,
                 side, used>>

(***************************************************************************)
(* The specification.  What awaits something that has ended goes on before *)
(* the next event of the network, the clock or the keyboard is served.     *)
(***************************************************************************)
PrewarmInit ==
  /\ auto \in AutoValues /\ conf = 0 /\ source = "cli"
  /\ chat = [id |-> 0, list |-> <<>>]
  /\ jobs = <<>> /\ current = 0
  /\ run = Resting /\ red = [a \in Reducers |-> NoRed] /\ prep = "no"
  /\ aborted = FALSE /\ settled = FALSE /\ holder = "none"
  /\ side = [s \in Sides |-> Resting]
  /\ used = [words |-> 0, reductions |-> 0, changes |-> 0]

GoesOn ==
  \/ RunGoesOn \/ PrepGoesOn \/ CompactEnds
  \/ JudgeNewRequest \/ RunBegins \/ JudgeEnd
  \/ \E why \in {"pending", "forced"} : JudgeBeforeCall(why)
  \/ RunBuilds \/ MainIsSent \/ (run.pc = "wait" /\ RunStops)
  \/ \E p \in DOMAIN jobs : JobSends(p)
  \/ \E s \in Sides : SideIsSent(s)
  \/ \E a \in Reducers : SummaryIsSent(a)

\* Nothing can go on by itself.
Quiet ==
  /\ ~(run.pc = "prepared" /\ prep = "no") /\ run.pc \notin {"loop", "final"}
  /\ ~(run.pc = "wait" /\ Done(run.waits))
  /\ \A a \in Reducers : red[a].at # "done" /\ ~(red[a].at = "gate" /\ Done(red[a].waits))
  /\ \A s \in Sides : ~(side[s].pc = "gate" /\ Done(side[s].waits))
  /\ \A p \in DOMAIN jobs : ~(jobs[p].at = "queued" /\ Done(jobs[p].behind))

Answers ==
  \/ \E p \in DOMAIN jobs : JobEnds(p)
  \/ \E s \in Sides : SideEnds(s)
  \/ \E a \in Reducers : SummaryEnds(a) \/ SummaryFails(a)
  \/ (run.pc # "wait" /\ RunStops) \/ ToolCalls \/ ToolsEnd \/ FinalReply

Commands ==
  \/ \E from \in {"cli", "chat"} : RunStarts(from)
  \/ \E s \in Sides : SideCalls(s)
  \/ PrewarmNow \/ Compact \/ ChangeSettings \/ Esc \/ CancelPrewarm
  \/ \E list \in {chat.list, <<Reply>>} : Restore(list)

PrewarmNext == GoesOn \/ (Quiet /\ (Answers \/ Commands))

\* What can go on goes on, and a stream ends or closes some time; nobody has
\* to type, to press Esc or to ask for a side call.
PrewarmFairness ==
  /\ WF_prewarmVars(GoesOn)
  /\ \A p \in 1..MaxPrewarms : WF_prewarmVars(p \in DOMAIN jobs /\ JobEnds(p))
  /\ \A a \in Reducers : WF_prewarmVars(SummaryEnds(a) \/ SummaryFails(a))

PrewarmSpec == PrewarmInit /\ [][PrewarmNext]_prewarmVars /\ PrewarmFairness

(***************************************************************************)
(* Properties.                                                             *)
(***************************************************************************)
\* Types; 'current' never names a prewarm that is over, so that nobody waits
\* for a promise nobody settles (prewarm.ts, the finally of start).
PrewarmTypeOK ==
  /\ auto \in BOOLEAN /\ aborted \in BOOLEAN /\ settled \in BOOLEAN
  /\ conf \in 0..MaxChanges /\ source \in {"cli", "chat"}
  /\ chat.id \in 0..MaxChanges /\ \A i \in DOMAIN chat.list : chat.list[i] \in -1..MaxWords
  /\ Len(jobs) <= MaxPrewarms /\ current \in 0..Len(jobs)
  /\ \A p \in DOMAIN jobs : /\ jobs[p].at \in {"queued", "wire", "done"}
                            /\ jobs[p].behind \in 0..p - 1
  /\ run.pc \in {"idle", "prepared", "newreq", "loop", "pending", "forced", "wait",
                 "call", "tools", "final", "ending"}
  /\ \A a \in Reducers : red[a].at \in {"no", "gate", "wire", "done"}
  /\ prep \in {"no", "judging"} /\ holder \in Reducers \cup {"none"}
  /\ \A s \in Sides : side[s].pc \in {"idle", "gate", "call"}
  /\ current # 0 => jobs[current].at # "done"

\* However often prewarms replace each other, the slot reads one of them at a
\* time: each waits for the end of the one before (prewarm.ts, start).  A main
\* call is kept waiting only by a prewarm that it can use: one that was not cut
\* is the beginning of what the call is about to send (waitBeforeMainCall).
SlotReadsWhatIsUsed ==
  /\ \A p, q \in DOMAIN jobs : jobs[p].at = "wire" /\ jobs[q].at = "wire" => p = q
  /\ run.pc = "wait" /\ ~jobs[run.waits].cut /\ jobs[run.waits].at # "done"
       => IsPromptPrefix(jobs[run.waits].sent, Prompt)

\* Everybody who sends to the slot, except the prewarm.
Calls == {s \in Sides : side[s].pc = "call"}
           \cup {a \in Reducers : red[a].at = "wire"}
           \cup (IF run.pc = "call" THEN {"main"} ELSE {})

WaitedFor(c) == IF c \in Sides THEN side[c].waits
                ELSE IF c = "main" THEN run.waits ELSE red[c].waits

PrewarmsOnWire == {p \in DOMAIN jobs : jobs[p].at = "wire"}

\* A call is sent over a prewarm in one case only: the prewarm replaced the
\* one the call had been waiting for (waitFor awaits the prewarm it captured).
OnlyReplacementsAreOvertaken ==
  [][\A c \in Calls' \ Calls : \A p \in PrewarmsOnWire' :
       WaitedFor(c) # 0 /\ p > WaitedFor(c)]_prewarmVars

\* Whoever waits at the gate of the slot gets through, whatever is started,
\* cut and replaced meanwhile.
EveryWaitEnds ==
  /\ \A s \in Sides : (side[s].pc = "gate") ~> (side[s].pc # "gate")
  /\ \A a \in Reducers : (red[a].at = "gate") ~> (red[a].at # "gate")
  /\ (run.pc \in {"prepared", "wait"}) ~> (run.pc \notin {"prepared", "wait"})

\* While a prewarm runs, no other call is sent to the slot
\* (docs/context-reduction-redesign.md section 9.2).
SlotIsPrewarmed ==
  [][\A c \in Calls' \ Calls : PrewarmsOnWire' = {}]_prewarmVars

\* The user's words stay in the history through every reduction
\* (docs/context-reduction-redesign.md sections 5.1 and 5.6): a word once
\* said is still there as long as the history is the same.
WordsStay ==
  [][\A i \in DOMAIN chat.list :
       chat.list[i] \in Words /\ chat'.id = chat.id
         => \E k \in DOMAIN chat'.list : chat'.list[k] = chat.list[i]]_prewarmVars
=============================================================================
