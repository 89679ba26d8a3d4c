--------------------------- MODULE Prewarm_proofs ---------------------------
(***************************************************************************)
(* Proofs about the slot, the prewarms and the calls that wait for them    *)
(* (Prewarm).  The heart of it is the chain of prewarms: those that are    *)
(* not over are the last ones started, each but the first of them queued   *)
(* behind the one before, and all but the last of them cut.                *)
(***************************************************************************)
EXTENDS Prewarm, WellFoundedInduction, TLAPS

Chats   == Seq(-1..MaxWords)
Prompts == {<<>>} \cup Nat \X {"cli", "chat"} \X Chats
WirePcs  == {"queued", "wire", "done"}
Job     == [at : WirePcs, cut : BOOLEAN, sent : Prompts, behind : Nat]

RunPcs  == {"idle", "prepared", "newreq", "loop", "pending", "forced", "wait",
            "call", "tools", "final", "ending"}
Caller  == [pc : RunPcs, waits : Nat]
Whys    == {"no", "new-request", "pending", "forced", "request-end", "manual",
            "before-prewarm"}
Red     == [at : {"no", "gate", "wire", "done"}, waits : Nat, id : Nat, copy : Chats,
            why : Whys, cut : BOOLEAN, ok : BOOLEAN]
SideOf  == [pc : {"idle", "gate", "call"}, waits : Nat]

(***************************************************************************)
(* The chain of prewarms.                                                  *)
(***************************************************************************)
Live(js, p) == js[p].at # "done"

Chain(js, cur) ==
  /\ js \in Seq(Job) /\ cur \in 0..Len(js)
  /\ \A p \in 1..Len(js) : js[p].at = "queued" => p > 1 /\ js[p].behind = p - 1
  /\ \A p \in 1..Len(js) : js[p].at # "queued" => js[p].behind = 0
  /\ \A p, q \in 1..Len(js) : p < q /\ Live(js, p) => js[q].at = "queued"
  /\ cur # 0 => cur = Len(js) /\ Live(js, cur)
  /\ \A p \in 1..Len(js) : Live(js, p) => cur = Len(js) /\ (p = cur \/ js[p].cut)

\* What happens to prewarms: more are started, they are cut, they end.
Kept(js, kt) ==
  /\ Len(js) <= Len(kt)
  /\ \A p \in 1..Len(js) :
       Live(kt, p) => Live(js, p) /\ kt[p].sent = js[p].sent /\ (js[p].cut => kt[p].cut)

\* A prewarm that somebody waits for is of use to him or cut.
OfUse(js, p, next) == Live(js, p) /\ ~js[p].cut => IsPromptPrefix(js[p].sent, next)

LEMMA JobPut ==
  ASSUME NEW js \in Seq(Job), NEW p \in 1..Len(js), NEW j \in Job
  PROVE  LET kt == [js EXCEPT ![p] = j]
         IN  /\ kt \in Seq(Job) /\ Len(kt) = Len(js) /\ kt[p] = j
             /\ \A q \in 1..Len(js) : q # p => kt[q] = js[q]
OBVIOUS

LEMMA KeptRefl == ASSUME NEW js \in Seq(Job) PROVE Kept(js, js)
BY DEF Kept

LEMMA KeptTrans ==
  ASSUME NEW a \in Seq(Job), NEW b \in Seq(Job), NEW c \in Seq(Job), Kept(a, b), Kept(b, c)
  PROVE  Kept(a, c)
BY DEF Kept

\* Only the last prewarm can be uncut and not over.
LEMMA LastIsOfUse ==
  ASSUME NEW js, NEW cur, NEW next, Chain(js, cur), cur = 0 \/ OfUse(js, cur, next),
         NEW p \in 1..Len(js)
  PROVE  OfUse(js, p, next)
BY DEF Chain, OfUse, Live

LEMMA StaysOfUse ==
  ASSUME NEW js, NEW kt, NEW next, Kept(js, kt), NEW p \in 1..Len(js), OfUse(js, p, next)
  PROVE  OfUse(kt, p, next)
BY DEF Kept, OfUse, Live

\* Nothing before a prewarm that is over is left.
LEMMA BeforeIsOver ==
  ASSUME NEW js, NEW cur, Chain(js, cur), NEW p \in 1..Len(js), ~Live(js, p),
         NEW q \in 1..Len(js), Live(js, q)
  PROVE  q > p
<1>1. p \in Int /\ q \in Int
  OBVIOUS
<1>. QED BY <1>1 DEF Chain, Live

LEMMA CutJob ==
  ASSUME NEW js, Chain(js, current)
  PROVE  /\ Chain(Cut(js), current) /\ Kept(js, Cut(js)) /\ Len(Cut(js)) = Len(js)
         /\ current # 0 => Cut(js)[current].cut
<1>1. CASE current = 0
  BY <1>1, KeptRefl DEF Cut, Chain
<1>2. CASE current # 0
  <2>1. js \in Seq(Job) /\ current \in 1..Len(js) /\ js[current] \in Job
    BY <1>2 DEF Chain
  <2>. DEFINE j == [js[current] EXCEPT !.cut = TRUE]
  <2>2. /\ j \in Job /\ j.at = js[current].at /\ j.sent = js[current].sent
        /\ j.cut = TRUE /\ j.behind = js[current].behind
    BY <2>1 DEF Job
  <2>3. Cut(js) = [js EXCEPT ![current] = j]
    BY <1>2, <2>1 DEF Cut
  <2>. HIDE DEF j
  <2>. DEFINE kt == Cut(js)
  <2>4. /\ kt \in Seq(Job) /\ Len(kt) = Len(js) /\ kt[current] = j
        /\ \A q \in 1..Len(js) : q # current => kt[q] = js[q]
    BY <2>1, <2>2, <2>3, JobPut
  <2>. HIDE DEF kt
  <2>5. Kept(js, kt)
    BY <2>1, <2>2, <2>4 DEF Kept, Live
  <2>6. Chain(kt, current)
    BY <1>2, <2>1, <2>2, <2>4 DEF Chain, Live
  <2>. QED BY <2>2, <2>4, <2>5, <2>6 DEF kt
<1>. QED BY <1>1, <1>2

LEMMA CutStale ==
  ASSUME NEW js, NEW next, Chain(js, current)
  PROVE  /\ Chain(CutIfStale(js, next), current) /\ Kept(js, CutIfStale(js, next))
         /\ Len(CutIfStale(js, next)) = Len(js)
         /\ current = 0 \/ OfUse(CutIfStale(js, next), current, next)
<1>1. CASE current # 0 /\ ~js[current].cut /\ ~IsPromptPrefix(js[current].sent, next)
  BY <1>1, CutJob DEF CutIfStale, OfUse
<1>2. CASE ~(current # 0 /\ ~js[current].cut /\ ~IsPromptPrefix(js[current].sent, next))
  <2>1. CutIfStale(js, next) = js
    BY <1>2 DEF CutIfStale
  <2>. QED BY <1>2, <2>1, KeptRefl DEF Chain, OfUse
<1>. QED BY <1>1, <1>2

LEMMA NewJob ==
  ASSUME NEW js, Chain(js, current), NEW sent \in Prompts, Start(js, sent)
  PROVE  Chain(jobs', current') /\ Kept(js, jobs') /\ Len(jobs') <= MaxPrewarms
<1>. DEFINE kt == Cut(js)
            j  == [at |-> IF current = 0 THEN "wire" ELSE "queued", cut |-> FALSE,
                   sent |-> sent, behind |-> current]
<1>1. /\ Chain(kt, current) /\ Kept(js, kt) /\ Len(kt) = Len(js)
      /\ current # 0 => kt[current].cut
  BY CutJob
<1>2. /\ jobs' = Append(kt, j) /\ current' = Len(js) + 1 /\ Len(js) < MaxPrewarms
  BY DEF Start
<1>. HIDE DEF kt
<1>3. /\ j \in Job /\ j.at = (IF current = 0 THEN "wire" ELSE "queued")
      /\ j.cut = FALSE /\ j.behind = current
  BY <1>1 DEF Job, WirePcs, Chain
<1>. HIDE DEF j
<1>4. /\ kt \in Seq(Job) /\ jobs' \in Seq(Job) /\ Len(jobs') = Len(kt) + 1
      /\ jobs'[Len(kt) + 1] = j /\ \A p \in 1..Len(kt) : jobs'[p] = kt[p]
      /\ Len(kt) \in Nat
  BY <1>1, <1>2, <1>3 DEF Chain
<1>5. PICK n \in Nat, ks \in Seq(Job) : n = Len(kt) /\ ks = jobs' /\ Len(ks) = n + 1
  BY <1>4
<1>6. Kept(kt, ks)
  BY <1>4, <1>5 DEF Kept, Live
<1>7. Chain(ks, n + 1)
  <2>1. current = 0 => \A p \in 1..n : ~Live(kt, p)
    BY <1>1, <1>5 DEF Chain
  <2>2. current # 0 => current = n
    BY <1>1, <1>5 DEF Chain
  <2>3. ks[n + 1] = j /\ \A p \in 1..n : ks[p] = kt[p]
    BY <1>4, <1>5
  <2>4. \A p \in 1..n + 1 : /\ ks[p].at = "queued" => p > 1 /\ ks[p].behind = p - 1
                            /\ ks[p].at # "queued" => ks[p].behind = 0
    <3>. TAKE p \in 1..n + 1
    <3>1. CASE p = n + 1
      BY <3>1, <2>2, <2>3, <1>3, <1>1 DEF Chain
    <3>2. CASE p \in 1..n
      BY <3>2, <2>3, <1>1, <1>5 DEF Chain
    <3>. QED BY <3>1, <3>2
  <2>5. \A p, q \in 1..n + 1 : p < q /\ Live(ks, p) => ks[q].at = "queued"
    <3>. SUFFICES ASSUME NEW p \in 1..n + 1, NEW q \in 1..n + 1, p < q, Live(ks, p)
                  PROVE  ks[q].at = "queued"
      OBVIOUS
    <3>1. p \in 1..n /\ Live(kt, p)
      BY <2>3 DEF Live
    <3>2. CASE q = n + 1
      BY <3>1, <3>2, <2>1, <2>3, <1>3
    <3>3. CASE q \in 1..n
      BY <3>1, <3>3, <2>3, <1>1, <1>5 DEF Chain
    <3>. QED BY <3>2, <3>3
  <2>6. Live(ks, n + 1)
    BY <1>3, <2>3 DEF Live
  <2>7. \A p \in 1..n + 1 : Live(ks, p) => p = n + 1 \/ ks[p].cut
    <3>. SUFFICES ASSUME NEW p \in 1..n, Live(ks, p) PROVE ks[p].cut
      OBVIOUS
    <3>1. Live(kt, p)
      BY <2>3 DEF Live
    <3>. QED BY <3>1, <2>3, <1>1, <1>5 DEF Chain
  <2>. QED BY <1>5, <2>4, <2>5, <2>6, <2>7 DEF Chain
<1>8. Kept(js, ks)
  BY <1>1, <1>4, <1>6, KeptTrans DEF Chain
<1>9. n + 1 <= MaxPrewarms
  BY <1>1, <1>2, <1>5, PrewarmConstants DEF Chain
<1>. QED BY <1>1, <1>2, <1>5, <1>7, <1>8, <1>9

LEMMA MaybeNewJob ==
  ASSUME NEW js, Chain(js, current), NEW sent \in Prompts, Len(js) <= MaxPrewarms,
         StartPrewarm(js, sent)
  PROVE  Chain(jobs', current') /\ Kept(js, jobs') /\ Len(jobs') <= MaxPrewarms
<1>1. CASE sent[3] = <<>>
  BY <1>1, KeptRefl DEF StartPrewarm, Chain
<1>2. CASE sent[3] # <<>>
  BY <1>2, NewJob DEF StartPrewarm
<1>. QED BY <1>1, <1>2

\* A prewarm ends when nothing before it is left.
LEMMA JobIsOver ==
  ASSUME Chain(jobs, current), NEW p \in 1..Len(jobs), Live(jobs, p),
         \A q \in 1..Len(jobs) : Live(jobs, q) => q >= p,
         jobs' = [jobs EXCEPT ![p] = Over],
         current' = IF current = p THEN 0 ELSE current
  PROVE  Chain(jobs', current') /\ Kept(jobs, jobs') /\ Len(jobs') = Len(jobs)
<1>. DEFINE j == Over
<1>1. j \in Job /\ j.at = "done" /\ j.behind = 0
  BY DEF Over, Job, WirePcs, Prompts
<1>2. jobs' = [jobs EXCEPT ![p] = j] /\ jobs \in Seq(Job)
  BY DEF Chain
<1>. HIDE DEF j
<1>3. /\ jobs' \in Seq(Job) /\ Len(jobs') = Len(jobs) /\ jobs'[p] = j
      /\ \A q \in 1..Len(jobs) : q # p => jobs'[q] = jobs[q]
  BY <1>1, <1>2, JobPut
<1>4. Kept(jobs, jobs')
  BY <1>1, <1>2, <1>3 DEF Kept, Live
<1>5. \A q \in 1..Len(jobs) : Live(jobs', q) <=> q # p /\ Live(jobs, q)
  BY <1>1, <1>3 DEF Live
<1>6. \A q \in 1..Len(jobs) : Live(jobs', q) => q > p
  BY <1>2, <1>5
<1>7. PICK n \in Nat : n = Len(jobs) /\ p \in 1..n
  BY <1>2
<1>8. current = n /\ current \in 1..n
  BY <1>7 DEF Chain
<1>9. \A q \in 1..n : /\ jobs'[q].at = "queued" => q > 1 /\ jobs'[q].behind = q - 1
                      /\ jobs'[q].at # "queued" => jobs'[q].behind = 0
  <2>. TAKE q \in 1..n
  <2>1. CASE q = p
    BY <2>1, <1>1, <1>3
  <2>2. CASE q # p
    BY <2>2, <1>3, <1>7 DEF Chain
  <2>. QED BY <2>1, <2>2
<1>10. \A q, r \in 1..n : q < r /\ Live(jobs', q) => jobs'[r].at = "queued"
  <2>. SUFFICES ASSUME NEW q \in 1..n, NEW r \in 1..n, q < r, Live(jobs', q)
                PROVE  jobs'[r].at = "queued"
    OBVIOUS
  <2>1. q > p /\ Live(jobs, q)
    BY <1>5, <1>6, <1>7
  <2>3. r # p
    BY <2>1, <1>7
  <2>2. jobs[r].at = "queued"
    BY <2>1, <1>7 DEF Chain
  <2>. QED BY <2>2, <2>3, <1>3, <1>7
<1>11. current' # 0 => current' = n /\ Live(jobs', n)
  <2>. SUFFICES ASSUME current' # 0 PROVE current' = n /\ Live(jobs', n)
    OBVIOUS
  <2>1. n # p /\ current' = n
    BY <1>8
  <2>2. Live(jobs, n)
    BY <1>7, <1>8 DEF Chain
  <2>. QED BY <2>1, <2>2, <1>5, <1>7, <1>8
<1>12. \A q \in 1..n : Live(jobs', q) => current' = n /\ (q = n \/ jobs'[q].cut)
  <2>. SUFFICES ASSUME NEW q \in 1..n, Live(jobs', q)
                PROVE  current' = n /\ (q = n \/ jobs'[q].cut)
    OBVIOUS
  <2>1. q > p /\ Live(jobs, q) /\ jobs'[q] = jobs[q]
    BY <1>3, <1>5, <1>6, <1>7
  <2>. QED BY <2>1, <1>7, <1>8 DEF Chain
<1>13. current' \in 0..n
  BY <1>7, <1>8
<1>. QED BY <1>3, <1>4, <1>7, <1>9, <1>10, <1>11, <1>12, <1>13 DEF Chain

LEMMA JobGoesOut ==
  ASSUME Chain(jobs, current), NEW p \in DOMAIN jobs, JobSends(p)
  PROVE  Chain(jobs', current') /\ Kept(jobs, jobs') /\ Len(jobs') = Len(jobs)
<1>1. /\ jobs \in Seq(Job) /\ p \in 1..Len(jobs) /\ jobs[p] \in Job
      /\ jobs[p].at = "queued" /\ jobs[p].behind = p - 1 /\ p > 1
  BY DEF Chain, JobSends
<1>2. PICK n \in Nat : n = Len(jobs)
  BY <1>1
<1>3. p - 1 \in 1..n /\ jobs[p - 1].at = "done"
  BY <1>1, <1>2 DEF JobSends, Done
<1>4. \A q \in 1..Len(jobs) : Live(jobs, q) => q >= p
  <2>. SUFFICES ASSUME NEW q \in 1..n, Live(jobs, q) PROVE q >= p
    BY <1>2
  <2>1. q > p - 1
    BY <1>2, <1>3, BeforeIsOver DEF Live
  <2>. QED BY <2>1, <1>1, <1>2
<1>5. CASE jobs[p].cut
  <2>1. jobs' = [jobs EXCEPT ![p] = Over]
    BY <1>5 DEF JobSends
  <2>2. current' = IF current = p THEN 0 ELSE current
    BY <1>5 DEF JobSends
  <2>. QED BY <1>1, <1>4, <2>1, <2>2, JobIsOver DEF Live
<1>6. CASE ~jobs[p].cut
  <2>. DEFINE j == [jobs[p] EXCEPT !.at = "wire", !.behind = 0]
  <2>1. j \in Job /\ j.at = "wire" /\ j.behind = 0 /\ j.sent = jobs[p].sent /\ j.cut = jobs[p].cut
    BY <1>1 DEF Job, WirePcs
  <2>2. jobs' = [jobs EXCEPT ![p] = j] /\ current' = current
    BY <1>1, <1>6 DEF JobSends
  <2>. HIDE DEF j
  <2>3. /\ jobs' \in Seq(Job) /\ Len(jobs') = Len(jobs) /\ jobs'[p] = j
        /\ \A q \in 1..Len(jobs) : q # p => jobs'[q] = jobs[q]
    BY <1>1, <2>1, <2>2, JobPut
  <2>4. Kept(jobs, jobs')
    BY <1>1, <2>1, <2>3 DEF Kept, Live
  <2>5. \A q \in 1..n : Live(jobs', q) <=> Live(jobs, q)
    BY <1>1, <1>2, <2>1, <2>3 DEF Live
  <2>6. \A q \in 1..n : /\ jobs'[q].at = "queued" => q > 1 /\ jobs'[q].behind = q - 1
                        /\ jobs'[q].at # "queued" => jobs'[q].behind = 0
    BY <1>2, <2>1, <2>3 DEF Chain
  <2>7. \A q, r \in 1..n : q < r /\ Live(jobs', q) => jobs'[r].at = "queued"
    <3>. SUFFICES ASSUME NEW q \in 1..n, NEW r \in 1..n, q < r, Live(jobs', q)
                  PROVE  jobs'[r].at = "queued"
      OBVIOUS
    <3>1. q >= p /\ Live(jobs, q) /\ r # p
      BY <1>2, <1>4, <2>5
    <3>2. jobs[r].at = "queued"
      BY <3>1, <1>2 DEF Chain
    <3>. QED BY <3>1, <3>2, <2>3, <1>2
  <2>8. current' # 0 => current' = n /\ Live(jobs', current')
    <3>. SUFFICES ASSUME current # 0 PROVE current = n /\ Live(jobs', current)
      BY <2>2
    <3>1. PICK c \in 1..n : c = current /\ c = n /\ Live(jobs, c)
      BY <1>2 DEF Chain
    <3>. QED BY <3>1, <2>5
  <2>9. \A q \in 1..n : Live(jobs', q) => current' = n /\ (q = current' \/ jobs'[q].cut)
    <3>. SUFFICES ASSUME NEW q \in 1..n, Live(jobs', q)
                  PROVE  current' = n /\ (q = current' \/ jobs'[q].cut)
      OBVIOUS
    <3>1. jobs'[q].cut = jobs[q].cut
      BY <1>2, <2>1, <2>3
    <3>. QED BY <3>1, <1>2, <2>2, <2>5 DEF Chain
  <2>10. current' \in 0..n
    BY <1>2, <2>2 DEF Chain
  <2>. QED BY <1>2, <2>3, <2>4, <2>6, <2>7, <2>8, <2>9, <2>10 DEF Chain
<1>. QED BY <1>5, <1>6

LEMMA JobCloses ==
  ASSUME Chain(jobs, current), NEW p \in DOMAIN jobs, JobEnds(p)
  PROVE  Chain(jobs', current') /\ Kept(jobs, jobs') /\ Len(jobs') = Len(jobs)
<1>1. jobs \in Seq(Job) /\ p \in 1..Len(jobs) /\ jobs[p].at = "wire"
  BY DEF Chain, JobEnds
<1>2. \A q \in 1..Len(jobs) : Live(jobs, q) => q >= p
  BY <1>1 DEF Chain, Live
<1>3. jobs' = [jobs EXCEPT ![p] = Over]
  BY DEF JobEnds
<1>4. current' = IF current = p THEN 0 ELSE current
  BY DEF JobEnds
<1>. QED BY <1>1, <1>2, <1>3, <1>4, JobIsOver DEF Live

(***************************************************************************)
(* The inductive invariant: the values, the chain, everybody who waits     *)
(* waits for a prewarm that was started, and the run for one of use to it. *)
(***************************************************************************)
Counts == [words : Nat, reductions : Nat, changes : Nat]

JobKinds ==
  /\ auto \in BOOLEAN /\ aborted \in BOOLEAN /\ settled \in BOOLEAN
  /\ conf \in Nat /\ source \in {"cli", "chat"}
  /\ chat \in [id : Nat, list : Chats] /\ used \in Counts
  /\ run \in Caller /\ red \in [Reducers -> Red] /\ side \in [Sides -> SideOf]
  /\ prep \in {"no", "judging"} /\ holder \in Reducers \cup {"none"}

Bounds ==
  /\ used.words <= MaxWords /\ used.changes <= MaxChanges
  /\ conf <= used.changes /\ chat.id <= used.changes
  /\ run.pc \in {"prepared", "newreq"} => used.words < MaxWords
  /\ Len(jobs) <= MaxPrewarms

RunWaits(r, js)   == r.waits <= Len(js) /\ (r.pc = "wait" => r.waits # 0)
RedWaits(rd, js)  == \A a \in Reducers : rd[a].waits <= Len(js)
                                          /\ (rd[a].at = "gate" => rd[a].waits # 0)
SideWaits(sd, js) == \A s \in Sides : sd[s].waits <= Len(js)
                                       /\ (sd[s].pc = "gate" => sd[s].waits # 0)
AllWait == RunWaits(run, jobs) /\ RedWaits(red, jobs) /\ SideWaits(side, jobs)

RunIsServed == run.pc = "wait" => OfUse(jobs, run.waits, Prompt)

SlotInv == JobKinds /\ Bounds /\ Chain(jobs, current) /\ AllWait /\ RunIsServed

\* What a step does to the prewarms.
JobsGoOn ==
  /\ Chain(jobs', current') /\ Kept(jobs, jobs') /\ Len(jobs') <= MaxPrewarms
  /\ \A w \in 1..Len(jobs) : OfUse(jobs, w, Prompt) => OfUse(jobs', w, Prompt')

LEMMA WaitsKept ==
  ASSUME NEW r \in Caller, NEW rd \in [Reducers -> Red], NEW sd \in [Sides -> SideOf],
         NEW js \in Seq(Job), NEW kt \in Seq(Job), Kept(js, kt)
  PROVE  /\ RunWaits(r, js) => RunWaits(r, kt)
         /\ RedWaits(rd, js) => RedWaits(rd, kt)
         /\ SideWaits(sd, js) => SideWaits(sd, kt)
<1>1. Len(js) \in Nat /\ Len(kt) \in Nat /\ Len(js) <= Len(kt)
  BY DEF Kept
<1>2. r.waits \in Nat
  BY DEF Caller
<1>3. \A a \in Reducers : rd[a].waits \in Nat
  BY DEF Red
<1>4. \A s \in Sides : sd[s].waits \in Nat
  BY DEF SideOf
<1>. QED BY <1>1, <1>2, <1>3, <1>4 DEF RunWaits, RedWaits, SideWaits

\* The run that waits is served after a step that leaves it where it is.
LEMMA RunStaysServed ==
  ASSUME SlotInv, JobsGoOn, run' = run \/ run'.pc # "wait"
  PROVE  RunIsServed'
<1>1. CASE run' = run
  <2>. SUFFICES ASSUME run.pc = "wait" PROVE OfUse(jobs', run.waits, Prompt')
    BY <1>1 DEF RunIsServed
  <2>1. run.waits \in 1..Len(jobs)
    <3>1. run.waits \in Nat /\ Len(jobs) \in Nat
      BY DEF SlotInv, JobKinds, Caller, Chain
    <3>. QED BY <3>1 DEF SlotInv, AllWait, RunWaits
  <2>. QED BY <2>1 DEF SlotInv, RunIsServed, JobsGoOn
<1>2. CASE run'.pc # "wait"
  BY <1>2 DEF RunIsServed
<1>. QED BY <1>1, <1>2

LEMMA ChatValues ==
  /\ <<>> \in Chats /\ <<Reply>> \in Chats
  /\ \A l \in Chats : Append(l, Reply) \in Chats /\ Reduced(l) \in Chats
  /\ \A l \in Chats : \A w \in Nat : w < MaxWords => Append(l, w + 1) \in Chats
<1>1. MaxWords \in Nat
  BY PrewarmConstants
<1>2. Reply \in -1..MaxWords /\ Gist \in -1..MaxWords
  BY <1>1 DEF Reply, Gist
<1>3. ASSUME NEW l \in Chats PROVE Reduced(l) \in Chats
  <2>1. l \in Seq(-1..MaxWords)
    BY DEF Chats
  <2>2. PICK n \in Nat : n = Len(l) /\ DOMAIN l = 1..n
    BY <2>1
  <2>3. \A i \in 1..n : l[i] \in -1..MaxWords
    <3>. DEFINE S == -1..MaxWords
    <3>1. l \in Seq(S)
      BY <2>1
    <3>. HIDE DEF S
    <3>2. \A i \in 1..n : l[i] \in S
      BY <3>1, <2>2
    <3>. QED BY <3>2 DEF S
  <2>4. \A i \in 1..n : (IF l[i] = Reply THEN Gist ELSE l[i]) \in -1..MaxWords
    BY <1>2, <2>3
  <2>5. Reduced(l) \in [1..n -> -1..MaxWords]
    BY <2>2, <2>4 DEF Reduced
  <2>6. Reduced(l) \in Seq(-1..MaxWords)
    <3>. DEFINE S == -1..MaxWords
                q == Reduced(l)
    <3>1. q \in [1..n -> S]
      BY <2>5
    <3>. HIDE DEF S, q
    <3>2. q \in Seq(S)
      BY <3>1
    <3>. QED BY <3>2 DEF S, q
  <2>. QED BY <2>6 DEF Chats
<1>4. ASSUME NEW l \in Chats PROVE Append(l, Reply) \in Chats
  BY <1>2 DEF Chats
<1>5. ASSUME NEW l \in Chats, NEW w \in Nat, w < MaxWords PROVE Append(l, w + 1) \in Chats
  BY <1>1, <1>5 DEF Chats
<1>6. <<>> \in Chats /\ <<Reply>> \in Chats
  BY <1>2 DEF Chats
<1>. QED BY <1>3, <1>4, <1>5, <1>6

LEMMA PromptValues ==
  ASSUME NEW c \in Nat, NEW s \in {"cli", "chat"}, NEW l \in Chats
  PROVE  <<c, s, l>> \in Prompts
BY DEF Prompts

LEMMA RedPut ==
  ASSUME red \in [Reducers -> Red], NEW a \in Reducers, NEW r \in Red,
         NEW js \in Seq(Job), RedWaits(red, js), r.waits <= Len(js), r.at = "gate" => r.waits # 0
  PROVE  LET rd == [red EXCEPT ![a] = r]
         IN rd \in [Reducers -> Red] /\ RedWaits(rd, js)
BY DEF RedWaits

LEMMA NoRedKind ==
  /\ NoRed \in Red /\ [NoRed EXCEPT !.at = "done"] \in Red
  /\ [NoRed EXCEPT !.at = "done", !.ok = TRUE] \in Red
  /\ NoRed.waits = 0 /\ [NoRed EXCEPT !.at = "done"].waits = 0
  /\ [NoRed EXCEPT !.at = "done", !.ok = TRUE].waits = 0
  /\ NoRed.at = "no" /\ [NoRed EXCEPT !.at = "done"].at = "done"
  /\ [NoRed EXCEPT !.at = "done", !.ok = TRUE].at = "done"
BY ChatValues DEF NoRed, Red, Whys

\* The invariant holds of the slot at the start.
THEOREM SlotInit == PrewarmInit => SlotInv
<1>. SUFFICES ASSUME PrewarmInit PROVE SlotInv
  OBVIOUS
<1>1. JobKinds
  BY ChatValues, NoRedKind, PrewarmConstants
  DEF PrewarmInit, JobKinds, Counts, Resting, Caller, RunPcs, SideOf
<1>2. Bounds
  BY PrewarmConstants DEF PrewarmInit, Bounds, Resting
<1>3. Chain(jobs, current)
  BY DEF PrewarmInit, Chain
<1>4. AllWait
  BY NoRedKind DEF PrewarmInit, AllWait, RunWaits, RedWaits, SideWaits, Resting
<1>5. RunIsServed
  BY DEF PrewarmInit, RunIsServed, Resting
<1>. QED BY <1>1, <1>2, <1>3, <1>4, <1>5 DEF SlotInv

\* Steps that only touch the prewarms, and the values that bound nothing.
LEMMA JobsKeepInv ==
  ASSUME SlotInv, JobsGoOn, run' = run, red' = red, side' = side
  PROVE  AllWait' /\ RunIsServed' /\ Chain(jobs, current)' /\ Len(jobs') <= MaxPrewarms
<1>1. /\ jobs \in Seq(Job) /\ jobs' \in Seq(Job) /\ Kept(jobs, jobs')
      /\ run \in Caller /\ red \in [Reducers -> Red] /\ side \in [Sides -> SideOf]
  BY DEF SlotInv, JobKinds, JobsGoOn, Chain
<1>2. AllWait'
  BY <1>1, WaitsKept DEF SlotInv, AllWait
<1>. QED BY <1>2, RunStaysServed DEF JobsGoOn

LEMMA SameJobs ==
  ASSUME SlotInv, jobs' = jobs, current' = current,
         Prompt' = Prompt \/ run.pc # "wait"
  PROVE  Chain(jobs', current') /\ Kept(jobs, jobs') /\ (Prompt' = Prompt => JobsGoOn)
BY KeptRefl DEF SlotInv, JobsGoOn, Bounds, Chain

\* The prewarms go on under an unchanged prompt.
LEMMA SamePrompt ==
  ASSUME SlotInv, Prompt' = Prompt, Chain(jobs', current'), Kept(jobs, jobs'),
         Len(jobs') <= MaxPrewarms
  PROVE  JobsGoOn
BY StaysOfUse DEF JobsGoOn

\* They go on under another prompt once the listener has compared.
LEMMA OtherPrompt ==
  ASSUME SlotInv, NEW js, Chain(js, current), Len(js) = Len(jobs),
         current = 0 \/ OfUse(js, current, Prompt'),
         Chain(jobs', current'), Kept(jobs, js), Kept(js, jobs'), Len(jobs') <= MaxPrewarms
  PROVE  JobsGoOn
<1>1. Kept(jobs, jobs')
  BY KeptTrans DEF SlotInv, Chain
<1>2. ASSUME NEW w \in 1..Len(jobs) PROVE OfUse(jobs', w, Prompt')
  BY LastIsOfUse, StaysOfUse
<1>. QED BY <1>1, <1>2 DEF JobsGoOn

AfterReduction ==
  /\ JobsGoOn
  /\ chat' \in [id : Nat, list : Chats] /\ chat'.id = chat.id /\ settled' \in BOOLEAN
  /\ red' \in [Reducers -> Red] /\ RedWaits(red', jobs')
  /\ holder' \in Reducers \cup {"none"}
  /\ used' \in Counts /\ used'.words = used.words /\ used'.changes = used.changes

LEMMA ReplaceStep ==
  ASSUME SlotInv, NEW a \in Reducers, NEW js, Chain(js, current), Kept(jobs, js),
         Len(js) = Len(jobs), NEW r \in Red, Replace(a, js, r), conf' = conf, source' = source
  PROVE  AfterReduction
<1>. DEFINE list == IF r.id = chat.id THEN Reduced(r.copy) ELSE chat.list
            next == <<conf, source, list>>
            js1  == IF r.id = chat.id THEN CutIfStale(js, next) ELSE js
            send == /\ ~aborted
                    /\ \/ r.why = "before-prewarm"
                       \/ auto /\ r.why \in {"request-end", "manual"}
<1>1. /\ chat \in [id : Nat, list : Chats] /\ conf \in Nat /\ source \in {"cli", "chat"}
      /\ red \in [Reducers -> Red] /\ used \in Counts /\ settled \in BOOLEAN
      /\ Len(jobs) <= MaxPrewarms /\ RedWaits(red, jobs)
      /\ jobs \in Seq(Job) /\ js \in Seq(Job)
  BY DEF SlotInv, JobKinds, Bounds, AllWait, Chain
<1>2. /\ chat' = [chat EXCEPT !.list = list]
      /\ IF send THEN StartPrewarm(js1, next) ELSE jobs' = js1 /\ UNCHANGED current
      /\ settled' = (settled \/ (r.why = "manual" /\ run.pc = "idle"))
      /\ red' = [red EXCEPT ![a] = [NoRed EXCEPT !.at = "done", !.ok = TRUE]]
      /\ holder' = "none"
      /\ used' = [used EXCEPT !.reductions = @ + 1]
  BY DEF Replace
<1>3. list \in Chats
  BY <1>1, ChatValues DEF Red
<1>4. /\ chat' \in [id : Nat, list : Chats] /\ chat'.id = chat.id /\ chat'.list = list
      /\ settled' \in BOOLEAN
  BY <1>1, <1>2, <1>3
<1>5. next = Prompt'
  BY <1>4 DEF Prompt
<1>6. next \in Prompts
  BY <1>1, <1>3, PromptValues
<1>. HIDE DEF list
<1>7. /\ Chain(js1, current) /\ Kept(js, js1) /\ Len(js1) = Len(js)
      /\ r.id = chat.id => current = 0 \/ OfUse(js1, current, next)
  <2>1. CASE r.id = chat.id
    BY <2>1, CutStale
  <2>2. CASE r.id # chat.id
    BY <2>2, KeptRefl, <1>1
  <2>. QED BY <2>1, <2>2
<1>. HIDE DEF js1, next
<1>8. js1 \in Seq(Job) /\ Len(js1) <= MaxPrewarms
  BY <1>1, <1>7 DEF Chain
<1>9. Chain(jobs', current') /\ Kept(js1, jobs') /\ Len(jobs') <= MaxPrewarms
  <2>1. CASE send
    BY <2>1, <1>2, <1>6, <1>7, <1>8, MaybeNewJob
  <2>2. CASE ~send
    BY <2>2, <1>2, <1>7, <1>8, KeptRefl
  <2>. QED BY <2>1, <2>2
<1>10. jobs' \in Seq(Job)
  BY <1>9 DEF Chain
<1>11. Kept(jobs, js1) /\ Kept(jobs, jobs')
  <2>1. Kept(jobs, js1)
    BY <1>1, <1>7, <1>8, KeptTrans
  <2>. QED BY <2>1, <1>1, <1>8, <1>9, <1>10, KeptTrans
<1>12. JobsGoOn
  <2>1. CASE r.id = chat.id
    <3>1. current = 0 \/ OfUse(js1, current, Prompt')
      BY <2>1, <1>5, <1>7
    <3>2. Len(js1) = Len(jobs)
      BY <1>7
    <3>. QED BY <3>1, <3>2, <1>7, <1>9, <1>11, OtherPrompt
  <2>2. CASE r.id # chat.id
    <3>1. Prompt' = Prompt
      BY <2>2, <1>4 DEF Prompt, list
    <3>. QED BY <3>1, <1>9, <1>11, SamePrompt
  <2>. QED BY <2>1, <2>2
<1>13. red' \in [Reducers -> Red] /\ RedWaits(red', jobs')
  <2>1. RedWaits(red, jobs')
    <3>1. PICK rr \in Caller : rr = run
      BY DEF SlotInv, JobKinds
    <3>2. PICK sd \in [Sides -> SideOf] : sd = side
      BY DEF SlotInv, JobKinds
    <3>. QED BY <3>1, <3>2, <1>1, <1>10, <1>11, WaitsKept
  <2>2. PICK d \in Red : d = [NoRed EXCEPT !.at = "done", !.ok = TRUE]
                         /\ d.waits = 0 /\ d.at = "done"
    BY NoRedKind
  <2>3. red' = [red EXCEPT ![a] = d]
    BY <1>2, <2>2
  <2>4. d.waits <= Len(jobs')
    BY <2>2, <1>10
  <2>. QED BY <1>1, <1>10, <2>1, <2>2, <2>3, <2>4, RedPut
<1>14. used' \in Counts /\ used'.words = used.words /\ used'.changes = used.changes
  <2>1. used' = [used EXCEPT !.reductions = used.reductions + 1] /\ used \in Counts
    BY <1>1, <1>2
  <2>. QED BY <2>1 DEF Counts
<1>. QED BY <1>2, <1>4, <1>12, <1>13, <1>14 DEF AfterReduction

\* An actor that is no longer idle, whatever it did at once.
LEMMA ReductionStep ==
  ASSUME SlotInv, NEW a \in Reducers, NEW why \in Whys, ReductionStarts(a, why),
         conf' = conf, source' = source
  PROVE  AfterReduction
<1>. DEFINE r == [NoRed EXCEPT !.id = chat.id, !.copy = chat.list, !.why = why]
<1>1. /\ chat \in [id : Nat, list : Chats] /\ conf \in Nat /\ source \in {"cli", "chat"}
      /\ red \in [Reducers -> Red] /\ used \in Counts /\ settled \in BOOLEAN
      /\ Len(jobs) <= MaxPrewarms /\ RedWaits(red, jobs) /\ Chain(jobs, current)
      /\ jobs \in Seq(Job)
  BY DEF SlotInv, JobKinds, Bounds, AllWait, Chain
<1>2. r \in Red /\ r.waits = 0
  BY <1>1 DEF NoRed, Red
<1>3. PICK d \in Red : d = [NoRed EXCEPT !.at = "done"] /\ d.waits = 0 /\ d.at = "done"
  BY NoRedKind
<1>4. /\ Chain(Cut(jobs), current) /\ Kept(jobs, Cut(jobs)) /\ Len(Cut(jobs)) = Len(jobs)
  BY <1>1, CutJob
<1>5. CASE /\ red' = [red EXCEPT ![a] = [NoRed EXCEPT !.at = "done"]]
           /\ jobs' = IF why \in Boundaries THEN jobs ELSE Cut(jobs)
           /\ holder' = "none"
           /\ UNCHANGED <<chat, current, settled, used>>
  <2>1. Chain(jobs', current') /\ Kept(jobs, jobs') /\ Len(jobs') = Len(jobs)
    <3>1. CASE why \in Boundaries
      BY <3>1, <1>1, <1>5, KeptRefl
    <3>2. CASE why \notin Boundaries
      BY <3>2, <1>4, <1>5
    <3>. QED BY <3>1, <3>2
  <2>2. Prompt' = Prompt
    BY <1>5 DEF Prompt
  <2>3. JobsGoOn
    BY <1>1, <2>1, <2>2, SamePrompt
  <2>4. RedWaits(red, jobs')
    BY <1>1, <2>1 DEF RedWaits
  <2>5. jobs' \in Seq(Job)
    BY <2>1 DEF Chain
  <2>6. red' = [red EXCEPT ![a] = d] /\ d.waits <= Len(jobs')
    BY <1>3, <1>5, <2>5
  <2>7. red' \in [Reducers -> Red] /\ RedWaits(red', jobs')
    BY <1>1, <1>3, <2>4, <2>5, <2>6, RedPut
  <2>. QED BY <1>1, <1>5, <2>3, <2>7 DEF AfterReduction
<1>6. CASE Replace(a, Cut(jobs), r)
  <2>. HIDE DEF r
  <2>. QED BY <1>2, <1>4, <1>6, ReplaceStep
<1>7. CASE /\ jobs' = Cut(jobs)
           /\ red' = [red EXCEPT ![a] =
                [r EXCEPT !.at = IF current = 0 THEN "wire" ELSE "gate", !.waits = current]]
           /\ holder' = a
           /\ UNCHANGED <<chat, current, settled, used>>
  <2>1. Prompt' = Prompt
    BY <1>7 DEF Prompt
  <2>2. JobsGoOn
    BY <1>1, <1>4, <1>7, <2>1, SamePrompt
  <2>3. RedWaits(red, jobs') /\ jobs' \in Seq(Job) /\ current \in 0..Len(jobs')
    BY <1>1, <1>4, <1>7 DEF RedWaits, Chain
  <2>4. PICK n \in Nat : n = current
    BY <2>3
  <2>5. PICK w \in {"wire", "gate"} : w = IF current = 0 THEN "wire" ELSE "gate"
    OBVIOUS
  <2>. DEFINE q == [r EXCEPT !.at = w, !.waits = n]
  <2>6. q \in Red /\ q.at = w /\ q.waits = n
    BY <1>2 DEF Red
  <2>7. red' = [red EXCEPT ![a] = q]
    BY <1>7, <2>4, <2>5
  <2>. HIDE DEF q, r
  <2>8. q.waits <= Len(jobs') /\ (q.at = "gate" => q.waits # 0)
    BY <2>3, <2>4, <2>5, <2>6
  <2>9. red' \in [Reducers -> Red] /\ RedWaits(red', jobs')
    BY <1>1, <2>3, <2>6, <2>7, <2>8, RedPut
  <2>. QED BY <1>1, <1>7, <2>2, <2>9 DEF AfterReduction
<1>. QED BY <1>5, <1>6, <1>7 DEF ReductionStarts

\* A step around a reduction that leaves the rest of the run's world alone.
LEMMA AfterReductionInv ==
  ASSUME SlotInv, AfterReduction, conf' = conf, source' = source, auto' = auto,
         aborted' = aborted, prep' = prep, side' = side,
         run' \in Caller, run'.pc # "wait" \/ run' = run, run'.waits = run.waits,
         run'.pc \in {"prepared", "newreq"} => run.pc \in {"prepared", "newreq"}
  PROVE  SlotInv'
<1>1. JobKinds'
  BY DEF SlotInv, JobKinds, AfterReduction
<1>2. Bounds'
  BY DEF SlotInv, Bounds, AfterReduction, JobsGoOn
<1>3. JobsGoOn /\ Chain(jobs, current)'
  BY DEF AfterReduction, JobsGoOn
<1>4. RunIsServed'
  BY <1>3, RunStaysServed
<1>5. AllWait'
  <2>1. PICK rr \in Caller : rr = run'
    OBVIOUS
  <2>2. PICK sd \in [Sides -> SideOf] : sd = side
    BY DEF SlotInv, JobKinds
  <2>3. PICK rd \in [Reducers -> Red] : rd = red
    BY DEF SlotInv, JobKinds
  <2>4. jobs \in Seq(Job) /\ jobs' \in Seq(Job) /\ Kept(jobs, jobs')
    BY <1>3 DEF SlotInv, Chain, JobsGoOn
  <2>5. RunWaits(rr, jobs) /\ SideWaits(sd, jobs)
    BY <2>1, <2>2 DEF SlotInv, AllWait, RunWaits
  <2>6. RunWaits(rr, jobs') /\ SideWaits(sd, jobs')
    BY <2>3, <2>4, <2>5, WaitsKept
  <2>. QED BY <2>1, <2>2, <2>6 DEF AllWait, AfterReduction
<1>. QED BY <1>1, <1>2, <1>3, <1>4, <1>5 DEF SlotInv

(***************************************************************************)
(* The steps, one by one.                                                  *)
(***************************************************************************)
LEMMA StillJobs ==
  ASSUME SlotInv, jobs' = jobs, current' = current, JobKinds',
         used'.words <= MaxWords, used'.changes = used.changes, conf' = conf, chat'.id = chat.id,
         run'.pc \in {"prepared", "newreq"} => used'.words < MaxWords,
         RunWaits(run', jobs), RedWaits(red', jobs), SideWaits(side', jobs),
         run'.pc # "wait" \/ (run' = run /\ Prompt' = Prompt)
  PROVE  SlotInv'
<1>1. Bounds'
  BY DEF SlotInv, Bounds
<1>2. AllWait' /\ Chain(jobs, current)'
  BY DEF SlotInv, AllWait
<1>3. RunIsServed'
  BY DEF SlotInv, RunIsServed
<1>. QED BY <1>1, <1>2, <1>3 DEF SlotInv

LEMMA OnlyJobs ==
  ASSUME SlotInv, JobsGoOn, JobKinds', run' = run, red' = red, side' = side, used' = used,
         conf' = conf, chat'.id = chat.id
  PROVE  SlotInv'
<1>1. Bounds'
  BY DEF SlotInv, Bounds, JobsGoOn
<1>. QED BY <1>1, JobsKeepInv DEF SlotInv

LEMMA JobStepInv ==
  ASSUME SlotInv, Chain(jobs', current'), Kept(jobs, jobs'), Len(jobs') = Len(jobs),
         UNCHANGED <<auto, conf, source, chat, run, red, prep, aborted, settled, holder,
                     side, used>>
  PROVE  SlotInv'
<1>1. JobsGoOn
  BY SamePrompt DEF Prompt, SlotInv, Bounds
<1>. QED BY <1>1, OnlyJobs DEF SlotInv, JobKinds

LEMMA JobSendsInv == ASSUME SlotInv, NEW p \in DOMAIN jobs, JobSends(p) PROVE SlotInv'
BY JobGoesOut, JobStepInv DEF SlotInv, JobSends

LEMMA JobEndsInv == ASSUME SlotInv, NEW p \in DOMAIN jobs, JobEnds(p) PROVE SlotInv'
BY JobCloses, JobStepInv DEF SlotInv, JobEnds

LEMMA CancelPrewarmInv == ASSUME SlotInv, CancelPrewarm PROVE SlotInv'
BY CutJob, JobStepInv DEF SlotInv, CancelPrewarm

LEMMA ReductionsInv ==
  ASSUME SlotInv,
         \/ JudgeNewRequest \/ JudgeEnd \/ Compact
         \/ \E why \in {"pending", "forced"} : JudgeBeforeCall(why)
         \/ \E a \in Reducers : SummaryEnds(a)
  PROVE  SlotInv'
<1>1. ASSUME JudgeNewRequest \/ JudgeEnd \/ \E why \in {"pending", "forced"} : JudgeBeforeCall(why)
      PROVE  SlotInv'
  <2>1. PICK why \in Whys : ReductionStarts("run", why)
    BY <1>1 DEF JudgeNewRequest, JudgeEnd, JudgeBeforeCall, Whys
  <2>2. /\ conf' = conf /\ source' = source /\ auto' = auto /\ aborted' = aborted
        /\ prep' = prep /\ side' = side
    BY <1>1 DEF JudgeNewRequest, JudgeEnd, JudgeBeforeCall
  <2>3. PICK pc \in RunPcs : /\ run' = [run EXCEPT !.pc = pc] /\ pc # "wait"
                             /\ pc = "newreq" => run.pc = "prepared"
                             /\ pc # "prepared"
    BY <1>1 DEF JudgeNewRequest, JudgeEnd, JudgeBeforeCall, At, RunPcs
  <2>4. run' \in Caller /\ run'.pc = pc /\ run'.waits = run.waits
    BY <2>3 DEF SlotInv, JobKinds, Caller
  <2>5. AfterReduction
    BY <2>1, <2>2, ReductionStep DEF Reducers
  <2>. QED BY <2>2, <2>3, <2>4, <2>5, AfterReductionInv
<1>2. ASSUME Compact PROVE SlotInv'
  <2>1. AfterReduction
    BY <1>2, ReductionStep DEF Compact, Reducers, Whys
  <2>. QED BY <1>2, <2>1, AfterReductionInv DEF Compact, SlotInv, JobKinds
<1>3. ASSUME NEW a \in Reducers, SummaryEnds(a) PROVE SlotInv'
  <2>1. PICK r \in Red : r = red[a]
    BY DEF SlotInv, JobKinds
  <2>2. Replace(a, jobs, r)
    BY <1>3, <2>1 DEF SummaryEnds
  <2>3. Chain(jobs, current) /\ Kept(jobs, jobs)
    BY KeptRefl DEF SlotInv, Chain
  <2>4. AfterReduction
    BY <1>3, <2>2, <2>3, ReplaceStep DEF SummaryEnds
  <2>. QED BY <1>3, <2>4, AfterReductionInv DEF SummaryEnds, SlotInv, JobKinds
<1>. QED BY <1>1, <1>2, <1>3

LEMMA RedStepInv ==
  ASSUME SlotInv, NEW a \in Reducers, NEW r \in Red, r.waits <= Len(jobs), r.at # "gate",
         red' = [red EXCEPT ![a] = r], holder' \in Reducers \cup {"none"},
         UNCHANGED <<auto, conf, source, chat, jobs, current, run, prep, aborted,
                     settled, side, used>>
  PROVE  SlotInv'
<1>1. red' \in [Reducers -> Red] /\ RedWaits(red', jobs)
  BY RedPut DEF SlotInv, JobKinds, Chain, AllWait
<1>2. JobKinds'
  BY <1>1 DEF SlotInv, JobKinds
<1>. QED BY <1>1, <1>2, StillJobs DEF SlotInv, AllWait, Bounds, Prompt

LEMMA NobodyIsBefore == ASSUME SlotInv PROVE 0 <= Len(jobs)
BY DEF SlotInv, Chain

LEMMA SummaryIsSentInv == ASSUME SlotInv, NEW a \in Reducers, SummaryIsSent(a) PROVE SlotInv'
<1>. DEFINE r == [red[a] EXCEPT !.at = "wire", !.waits = 0]
<1>1. r \in Red /\ r.at = "wire" /\ r.waits = 0
  BY DEF SlotInv, JobKinds, Red
<1>2. red' = [red EXCEPT ![a] = r] /\ holder' = holder
  BY DEF SummaryIsSent, SlotInv, JobKinds
<1>. HIDE DEF r
<1>3. /\ holder' \in Reducers \cup {"none"} /\ r.waits <= Len(jobs) /\ r.at # "gate"
      /\ UNCHANGED <<auto, conf, source, chat, jobs, current, run, prep, aborted,
                     settled, side, used>>
  BY <1>1, <1>2, NobodyIsBefore DEF SummaryIsSent, SlotInv, JobKinds
<1>. QED BY <1>1, <1>2, <1>3, RedStepInv

LEMMA SummaryFailsInv == ASSUME SlotInv, NEW a \in Reducers, SummaryFails(a) PROVE SlotInv'
<1>1. PICK d \in Red : d = [NoRed EXCEPT !.at = "done"] /\ d.waits = 0 /\ d.at = "done"
  BY NoRedKind
<1>2. red' = [red EXCEPT ![a] = d] /\ holder' = "none"
  BY <1>1 DEF SummaryFails
<1>3. /\ holder' \in Reducers \cup {"none"} /\ d.waits <= Len(jobs) /\ d.at # "gate"
      /\ UNCHANGED <<auto, conf, source, chat, jobs, current, run, prep, aborted,
                     settled, side, used>>
  BY <1>1, <1>2, NobodyIsBefore DEF SummaryFails
<1>. QED BY <1>1, <1>2, <1>3, RedStepInv

LEMMA CompactEndsInv == ASSUME SlotInv, CompactEnds PROVE SlotInv'
<1>1. PICK d \in Red : d = NoRed /\ d.waits = 0 /\ d.at = "no"
  BY NoRedKind
<1>2. red' = [red EXCEPT !["compact"] = d] /\ holder' = holder
  BY <1>1 DEF CompactEnds
<1>3. "compact" \in Reducers
  BY DEF Reducers
<1>4. /\ holder' \in Reducers \cup {"none"} /\ d.waits <= Len(jobs) /\ d.at # "gate"
      /\ UNCHANGED <<auto, conf, source, chat, jobs, current, run, prep, aborted,
                     settled, side, used>>
  BY <1>1, <1>2, NobodyIsBefore DEF CompactEnds, SlotInv, JobKinds
<1>. QED BY <1>1, <1>2, <1>3, <1>4, RedStepInv

LEMMA SideStepInv ==
  ASSUME SlotInv, NEW s \in Sides, NEW j \in SideOf, j.waits <= Len(jobs),
         j.pc = "gate" => j.waits # 0, side' = [side EXCEPT ![s] = j],
         Chain(jobs', current'), Kept(jobs, jobs'), Len(jobs') = Len(jobs),
         UNCHANGED <<auto, conf, source, chat, run, red, prep, aborted, settled, holder, used>>
  PROVE  SlotInv'
<1>1. JobsGoOn
  BY SamePrompt DEF Prompt, SlotInv, Bounds
<1>2. side' \in [Sides -> SideOf] /\ SideWaits(side', jobs')
  BY DEF SlotInv, JobKinds, AllWait, SideWaits
<1>3. JobKinds'
  BY <1>2 DEF SlotInv, JobKinds
<1>4. Bounds' /\ RunIsServed' /\ Chain(jobs, current)'
  BY <1>1, RunStaysServed DEF SlotInv, Bounds
<1>5. RunWaits(run', jobs') /\ RedWaits(red', jobs')
  BY DEF SlotInv, AllWait, RunWaits, RedWaits
<1>. QED BY <1>2, <1>3, <1>4, <1>5 DEF SlotInv, AllWait

LEMMA SideCallsInv == ASSUME SlotInv, NEW s \in Sides, SideCalls(s) PROVE SlotInv'
<1>1. PICK n \in Nat : n = current /\ n <= Len(jobs)
  BY DEF SlotInv, Chain
<1>2. PICK pc \in {"call", "gate"} : pc = IF n = 0 THEN "call" ELSE "gate"
  OBVIOUS
<1>. DEFINE j == [pc |-> pc, waits |-> n]
<1>3. j \in SideOf /\ j.pc = pc /\ j.waits = n
  BY DEF SideOf
<1>4. side' = [side EXCEPT ![s] = j]
  BY <1>1, <1>2 DEF SideCalls
<1>. HIDE DEF j
<1>5. jobs' = CutIfStale(jobs, Prompt) /\ current' = current
  BY DEF SideCalls
<1>6. Chain(jobs', current') /\ Kept(jobs, jobs') /\ Len(jobs') = Len(jobs)
  BY <1>5, CutStale DEF SlotInv
<1>7. UNCHANGED <<auto, conf, source, chat, run, red, prep, aborted, settled, holder, used>>
  BY DEF SideCalls
<1>8. j.waits <= Len(jobs) /\ (j.pc = "gate" => j.waits # 0)
  BY <1>1, <1>2, <1>3
<1>. QED BY <1>3, <1>4, <1>6, <1>7, <1>8, SideStepInv

LEMMA SideGoesOnInv ==
  ASSUME SlotInv, NEW s \in Sides, SideIsSent(s) \/ SideEnds(s)
  PROVE  SlotInv'
<1>1. PICK j \in SideOf : side' = [side EXCEPT ![s] = j] /\ j.waits = 0 /\ j.pc # "gate"
  <2>1. /\ [pc |-> "call", waits |-> 0] \in SideOf /\ [pc |-> "idle", waits |-> 0] \in SideOf
        /\ [pc |-> "call", waits |-> 0].waits = 0 /\ [pc |-> "idle", waits |-> 0].waits = 0
        /\ [pc |-> "call", waits |-> 0].pc = "call" /\ [pc |-> "idle", waits |-> 0].pc = "idle"
    BY DEF SideOf
  <2>. QED BY <2>1 DEF SideIsSent, SideEnds, Resting
<1>2. UNCHANGED <<auto, conf, source, chat, jobs, current, run, red, prep, aborted,
                  settled, holder, used>>
  BY DEF SideIsSent, SideEnds
<1>3. Chain(jobs', current') /\ Kept(jobs, jobs') /\ Len(jobs') = Len(jobs)
  BY <1>2, SameJobs DEF SlotInv, Prompt
<1>4. j.waits <= Len(jobs) /\ (j.pc = "gate" => j.waits # 0)
  BY <1>1, NobodyIsBefore
<1>. QED BY <1>1, <1>2, <1>3, <1>4, SideStepInv

\* The steps of the run between its calls.
LEMMA RunStepInv ==
  ASSUME SlotInv, jobs' = jobs, current' = current, NEW r \in Caller, run' = r,
         r.pc # "wait", r.waits = run.waits \/ r.waits = 0,
         r.pc \in {"prepared", "newreq"} => used'.words < MaxWords,
         chat' \in [id : Nat, list : Chats], chat'.id = chat.id,
         used' \in Counts, used'.words <= MaxWords, used'.changes = used.changes,
         source' \in {"cli", "chat"}, aborted' \in BOOLEAN, settled' \in BOOLEAN,
         holder' \in Reducers \cup {"none"} ,
         red' \in [Reducers -> Red], RedWaits(red', jobs),
         UNCHANGED <<auto, conf, prep, side>>
  PROVE  SlotInv'
<1>1. JobKinds'
  BY DEF SlotInv, JobKinds
<1>2. RunWaits(run', jobs) /\ SideWaits(side', jobs)
  BY NobodyIsBefore DEF SlotInv, AllWait, RunWaits
<1>. QED BY <1>1, <1>2, StillJobs

LEMMA RunPut ==
  ASSUME SlotInv, NEW pc \in RunPcs
  PROVE  LET r == [run EXCEPT !.pc = pc] IN r \in Caller /\ r.pc = pc /\ r.waits = run.waits
BY DEF SlotInv, JobKinds, Caller

LEMMA RunAnew ==
  ASSUME NEW pc \in RunPcs
  PROVE  LET r == [pc |-> pc, waits |-> 0] IN r \in Caller /\ r.pc = pc /\ r.waits = 0
BY DEF Caller

LEMMA RunStartsInv ==
  ASSUME SlotInv, NEW from \in {"cli", "chat"}, RunStarts(from) PROVE SlotInv'
<1>1. PICK r \in Caller : r = [pc |-> "prepared", waits |-> 0]
  BY DEF Caller, RunPcs
<1>2. run' = r /\ r.pc # "wait" /\ r.waits = 0 /\ used.words < MaxWords
  BY <1>1 DEF RunStarts
<1>. QED BY <1>2, RunStepInv DEF RunStarts, SlotInv, JobKinds, Bounds, AllWait

\* A list that grows by a word or by a reply.
LEMMA ChatGrows ==
  ASSUME SlotInv, NEW x, x = Reply \/ (x = used.words + 1 /\ used.words < MaxWords),
         chat' = [chat EXCEPT !.list = Append(@, x)]
  PROVE  chat' \in [id : Nat, list : Chats] /\ chat'.id = chat.id
<1>1. chat \in [id : Nat, list : Chats] /\ used.words \in Nat
  BY DEF SlotInv, JobKinds, Counts
<1>2. Append(chat.list, x) \in Chats
  BY <1>1, ChatValues
<1>. QED BY <1>1, <1>2

LEMMA WordsCount ==
  ASSUME SlotInv, used.words < MaxWords, used' = [used EXCEPT !.words = @ + 1]
  PROVE  used' \in Counts /\ used'.words <= MaxWords /\ used'.changes = used.changes
<1>1. used \in Counts /\ MaxWords \in Nat
  BY PrewarmConstants DEF SlotInv, JobKinds
<1>2. used' = [used EXCEPT !.words = used.words + 1]
  BY <1>1 DEF Counts
<1>. QED BY <1>1, <1>2 DEF Counts

LEMMA RunBeginsInv == ASSUME SlotInv, RunBegins PROVE SlotInv'
<1>1. PICK r \in Caller : r = [run EXCEPT !.pc = "loop"] /\ r.pc = "loop" /\ r.waits = run.waits
  BY RunPut DEF RunPcs
<1>2. used.words < MaxWords
  BY DEF SlotInv, Bounds, RunBegins
<1>3. chat' \in [id : Nat, list : Chats] /\ chat'.id = chat.id
  BY <1>2, ChatGrows DEF RunBegins, AddWords
<1>4. used' \in Counts /\ used'.words <= MaxWords /\ used'.changes = used.changes
  BY <1>2, WordsCount DEF RunBegins, AddWords
<1>5. run' = r /\ settled' = FALSE
  BY <1>1 DEF RunBegins, AddWords, At
<1>6. UNCHANGED <<auto, conf, source, jobs, current, red, prep, aborted, holder, side>>
  BY DEF RunBegins
<1>. QED BY <1>1, <1>3, <1>4, <1>5, <1>6, RunStepInv DEF SlotInv, JobKinds, AllWait

LEMMA RunGoesOnInv == ASSUME SlotInv, RunGoesOn PROVE SlotInv'
<1>1. "run" \in Reducers
  BY DEF Reducers
<1>2. PICK d \in Red : d = NoRed /\ d.waits = 0 /\ d.at = "no"
  BY NoRedKind
<1>3. red' = [red EXCEPT !["run"] = d]
  BY <1>2 DEF RunGoesOn
<1>4. red' \in [Reducers -> Red] /\ RedWaits(red', jobs)
  BY <1>1, <1>2, <1>3, NobodyIsBefore, RedPut DEF SlotInv, JobKinds, Chain, AllWait
<1>5. UNCHANGED <<auto, conf, source, jobs, current, prep, aborted, holder, side>>
  BY DEF RunGoesOn
<1>6. used \in Counts /\ used.words <= MaxWords /\ run \in Caller /\ chat \in [id : Nat, list : Chats]
  BY DEF SlotInv, JobKinds, Bounds
<1>7. PICK l \in Caller : l = [run EXCEPT !.pc = "loop"] /\ l.pc = "loop" /\ l.waits = run.waits
  BY RunPut DEF RunPcs
<1>8. PICK i \in Caller : i = Resting /\ i.pc = "idle" /\ i.waits = 0
  BY RunAnew DEF RunPcs, Resting
<1>9. CASE run.pc = "newreq" /\ AddWords
  <2>1. used.words < MaxWords
    BY <1>9 DEF SlotInv, Bounds
  <2>2. chat' \in [id : Nat, list : Chats] /\ chat'.id = chat.id
    BY <1>9, <2>1, ChatGrows DEF AddWords
  <2>3. used' \in Counts /\ used'.words <= MaxWords /\ used'.changes = used.changes
    BY <1>9, <2>1, WordsCount DEF AddWords
  <2>4. run' = l /\ settled' = FALSE
    BY <1>7, <1>9 DEF AddWords, At
  <2>. QED BY <1>4, <1>5, <1>7, <2>2, <2>3, <2>4, RunStepInv DEF SlotInv, JobKinds
<1>10. CASE Stop /\ UNCHANGED used
  <2>1. chat' \in [id : Nat, list : Chats] /\ chat'.id = chat.id
    BY <1>10, ChatGrows DEF Stop
  <2>2. run' = i /\ settled' = FALSE /\ used' = used
    BY <1>8, <1>10 DEF Stop
  <2>. QED BY <1>4, <1>5, <1>6, <1>8, <2>1, <2>2, RunStepInv DEF SlotInv, JobKinds
<1>11. CASE (At("loop") \/ run' = Resting) /\ UNCHANGED <<chat, settled, used>>
  <2>1. run' = l \/ run' = i
    BY <1>7, <1>8, <1>11 DEF At
  <2>. QED BY <1>4, <1>5, <1>6, <1>7, <1>8, <1>11, <2>1, RunStepInv DEF SlotInv, JobKinds
<1>. QED BY <1>9, <1>10, <1>11 DEF RunGoesOn

LEMMA RunBuildsInv == ASSUME SlotInv, RunBuilds PROVE SlotInv'
<1>1. PICK n \in Nat : n = current /\ n <= Len(jobs)
  BY DEF SlotInv, Chain
<1>2. PICK pc \in {"call", "wait"} : pc = IF n = 0 THEN "call" ELSE "wait"
  OBVIOUS
<1>. DEFINE r == [pc |-> pc, waits |-> n]
<1>3. r \in Caller /\ r.pc = pc /\ r.waits = n
  BY DEF Caller, RunPcs
<1>4. run' = r /\ jobs' = CutIfStale(jobs, Prompt) /\ current' = current /\ holder' = "run"
  BY <1>1, <1>2 DEF RunBuilds
<1>. HIDE DEF r
<1>5. UNCHANGED <<auto, conf, source, chat, red, prep, aborted, settled, side, used>>
  BY DEF RunBuilds
<1>6. /\ Chain(jobs', current') /\ Kept(jobs, jobs') /\ Len(jobs') = Len(jobs)
      /\ n = 0 \/ OfUse(jobs', n, Prompt)
  BY <1>1, <1>4, CutStale DEF SlotInv
<1>7. JobKinds'
  BY <1>3, <1>4, <1>5 DEF SlotInv, JobKinds, Reducers
<1>8. Bounds'
  BY <1>2, <1>3, <1>4, <1>5, <1>6 DEF SlotInv, Bounds
<1>9. AllWait'
  BY <1>1, <1>2, <1>3, <1>4, <1>5, <1>6 DEF SlotInv, AllWait, RunWaits, RedWaits, SideWaits
<1>10. Prompt' = Prompt
  BY <1>5 DEF Prompt
<1>11. RunIsServed'
  <2>1. SUFFICES ASSUME r.pc = "wait" PROVE OfUse(jobs', r.waits, Prompt')
    BY <1>4 DEF RunIsServed
  <2>. QED BY <2>1, <1>2, <1>3, <1>6, <1>10
<1>. QED BY <1>6, <1>7, <1>8, <1>9, <1>11 DEF SlotInv

\* The run goes from one pc to another; its call may end.
LEMMA RunMovesInv ==
  ASSUME SlotInv, UNCHANGED <<jobs, current>>, NEW r \in Caller, run' = r,
         r.pc \notin {"wait", "prepared", "newreq"}, r.waits = run.waits \/ r.waits = 0,
         chat' = chat \/ chat' = [chat EXCEPT !.list = Append(@, Reply)],
         settled' \in BOOLEAN, holder' \in Reducers \cup {"none"},
         UNCHANGED <<auto, conf, source, red, prep, aborted, side, used>>
  PROVE  SlotInv'
<1>1. chat' \in [id : Nat, list : Chats] /\ chat'.id = chat.id
  BY ChatGrows DEF SlotInv, JobKinds
<1>. QED BY <1>1, RunStepInv DEF SlotInv, JobKinds, Bounds, AllWait

LEMMA RunMoves ==
  ASSUME SlotInv, MainIsSent \/ RunStops \/ ToolCalls \/ ToolsEnd \/ FinalReply
  PROVE  SlotInv'
<1>1. /\ UNCHANGED <<jobs, current, auto, conf, source, red, prep, aborted, side, used>>
      /\ chat' = chat \/ chat' = [chat EXCEPT !.list = Append(@, Reply)]
      /\ settled' \in BOOLEAN /\ holder' \in Reducers \cup {"none"}
  BY DEF SlotInv, JobKinds, MainIsSent, RunStops, Stop, ToolCalls, ToolsEnd, FinalReply
<1>2. PICK pc \in RunPcs : /\ pc \notin {"wait", "prepared", "newreq"}
                           /\ run' = [pc |-> pc, waits |-> 0] \/ run' = [run EXCEPT !.pc = pc]
  BY DEF MainIsSent, RunStops, Stop, ToolCalls, ToolsEnd, FinalReply, At, Resting, RunPcs
<1>3. CASE run' = [pc |-> pc, waits |-> 0]
  <2>1. PICK r \in Caller : r = [pc |-> pc, waits |-> 0] /\ r.pc = pc /\ r.waits = 0
    BY RunAnew
  <2>. QED BY <1>1, <1>2, <1>3, <2>1, RunMovesInv
<1>4. CASE run' = [run EXCEPT !.pc = pc]
  <2>1. PICK r \in Caller : r = [run EXCEPT !.pc = pc] /\ r.pc = pc /\ r.waits = run.waits
    BY RunPut
  <2>. QED BY <1>1, <1>2, <1>4, <2>1, RunMovesInv
<1>. QED BY <1>2, <1>3, <1>4

\* The judgement before a prewarm, over the list that the history has then.
LEMMA PrepareStep ==
  ASSUME SlotInv, NEW js, Chain(js, current), Len(js) = Len(jobs), Kept(jobs, js),
         NEW list \in Chats, NEW before \in BOOLEAN, Prepare(js, list, before),
         conf' = conf, source' = source, chat'.id \in Nat
  PROVE  /\ Chain(jobs', current') /\ Kept(js, jobs') /\ Len(jobs') <= MaxPrewarms
         /\ settled' \in BOOLEAN /\ aborted' \in BOOLEAN /\ prep' \in {"no", "judging"}
         /\ holder' \in Reducers \cup {"none"}
         /\ red' \in [Reducers -> Red] /\ RedWaits(red', jobs')
<1>1. /\ conf \in Nat /\ source \in {"cli", "chat"} /\ Len(jobs) <= MaxPrewarms
      /\ red \in [Reducers -> Red] /\ RedWaits(red, jobs) /\ Chain(jobs, current)
      /\ prep \in {"no", "judging"} /\ holder \in Reducers \cup {"none"}
      /\ jobs \in Seq(Job) /\ js \in Seq(Job)
  BY DEF SlotInv, JobKinds, Bounds, AllWait, Chain
<1>2. PICK rr \in Caller : rr = run
  BY DEF SlotInv, JobKinds
<1>3. PICK sd \in [Sides -> SideOf] : sd = side
  BY DEF SlotInv, JobKinds
<1>4. aborted' = FALSE
  BY DEF Prepare
<1>5. CASE /\ settled' = TRUE /\ StartPrewarm(js, <<conf, source, list>>)
           /\ UNCHANGED <<prep, red, holder>>
  <2>1. <<conf, source, list>> \in Prompts
    BY <1>1, PromptValues
  <2>2. Chain(jobs', current') /\ Kept(js, jobs') /\ Len(jobs') <= MaxPrewarms
    BY <1>1, <1>5, <2>1, MaybeNewJob
  <2>3. jobs' \in Seq(Job)
    BY <2>2 DEF Chain
  <2>4. Kept(jobs, jobs')
    BY <1>1, <2>2, <2>3, KeptTrans
  <2>5. RedWaits(red, jobs')
    BY <1>1, <1>2, <1>3, <2>3, <2>4, WaitsKept
  <2>. QED BY <1>1, <1>4, <1>5, <2>2, <2>5
<1>6. CASE /\ prep' = "judging" /\ settled' = before
           /\ red' = [red EXCEPT !["prep"] =
                [NoRed EXCEPT !.at    = IF current = 0 THEN "wire" ELSE "gate",
                              !.waits = current,     !.id  = chat'.id,
                              !.copy  = list,        !.why = "before-prewarm"]]
           /\ jobs' = Cut(js) /\ holder' = "prep"
           /\ UNCHANGED current
  <2>1. Chain(jobs', current') /\ Kept(js, jobs') /\ Len(jobs') = Len(jobs)
    BY <1>6, CutJob
  <2>2. jobs' \in Seq(Job) /\ current \in 0..Len(jobs')
    BY <1>6, <2>1 DEF Chain
  <2>3. PICK n \in Nat, i \in Nat : n = current /\ i = chat'.id /\ n <= Len(jobs')
    BY <2>2
  <2>4. PICK w \in {"wire", "gate"} : w = IF n = 0 THEN "wire" ELSE "gate"
    OBVIOUS
  <2>. DEFINE q == [NoRed EXCEPT !.at = w, !.waits = n, !.id = i, !.copy = list,
                                 !.why = "before-prewarm"]
  <2>5. q \in Red /\ q.at = w /\ q.waits = n
    BY DEF NoRed, Red, Whys
  <2>6. red' = [red EXCEPT !["prep"] = q]
    BY <1>6, <2>3, <2>4
  <2>. HIDE DEF q
  <2>7. RedWaits(red, jobs')
    BY <1>1, <2>1 DEF RedWaits
  <2>8. q.waits <= Len(jobs') /\ (q.at = "gate" => q.waits # 0) /\ "prep" \in Reducers
    BY <2>3, <2>4, <2>5 DEF Reducers
  <2>9. red' \in [Reducers -> Red] /\ RedWaits(red', jobs')
    BY <1>1, <2>2, <2>5, <2>6, <2>7, <2>8, RedPut
  <2>. QED BY <1>1, <1>4, <1>6, <2>1, <2>8, <2>9
<1>. QED BY <1>5, <1>6 DEF Prepare

\* A command, Esc or a preparation goes on: the run and the side calls rest.
LEMMA CommandStep ==
  ASSUME SlotInv, JobsGoOn, run' = run, side' = side, JobKinds', RedWaits(red', jobs'),
         used'.words = used.words, used'.changes <= MaxChanges,
         conf' <= used'.changes, chat'.id <= used'.changes
  PROVE  SlotInv'
<1>1. Bounds'
  BY DEF SlotInv, Bounds, JobsGoOn
<1>2. RunIsServed'
  BY RunStaysServed
<1>3. RunWaits(run', jobs') /\ SideWaits(side', jobs')
  <2>1. PICK rr \in Caller, sd \in [Sides -> SideOf], rd \in [Reducers -> Red] :
          rr = run /\ sd = side /\ rd = red
    BY DEF SlotInv, JobKinds
  <2>2. jobs \in Seq(Job) /\ jobs' \in Seq(Job) /\ Kept(jobs, jobs')
    BY DEF SlotInv, JobsGoOn, Chain
  <2>3. RunWaits(rr, jobs) /\ SideWaits(sd, jobs)
    BY <2>1 DEF SlotInv, AllWait
  <2>. QED BY <2>1, <2>2, <2>3, WaitsKept
<1>. QED BY <1>1, <1>2, <1>3 DEF SlotInv, AllWait, JobsGoOn

LEMMA PrewarmNowInv == ASSUME SlotInv, PrewarmNow PROVE SlotInv'
<1>1. UNCHANGED <<auto, conf, source, run, side, used, chat>> /\ Prepare(jobs, chat.list, settled)
  BY DEF PrewarmNow
<1>2. PICK l \in Chats, b \in BOOLEAN : l = chat.list /\ b = settled /\ Prepare(jobs, l, b)
  BY <1>1 DEF SlotInv, JobKinds
<1>3. Chain(jobs, current) /\ Kept(jobs, jobs) /\ chat'.id \in Nat
  BY <1>1, KeptRefl DEF SlotInv, Chain, JobKinds
<1>4. /\ Chain(jobs', current') /\ Kept(jobs, jobs') /\ Len(jobs') <= MaxPrewarms
      /\ settled' \in BOOLEAN /\ aborted' \in BOOLEAN /\ prep' \in {"no", "judging"}
      /\ holder' \in Reducers \cup {"none"}
      /\ red' \in [Reducers -> Red] /\ RedWaits(red', jobs')
  BY <1>1, <1>2, <1>3, PrepareStep
<1>5. JobsGoOn
  BY <1>1, <1>4, SamePrompt DEF Prompt
<1>6. JobKinds'
  BY <1>1, <1>4 DEF SlotInv, JobKinds
<1>. QED BY <1>1, <1>4, <1>5, <1>6, CommandStep DEF SlotInv, Bounds

LEMMA RestoreInv == ASSUME SlotInv, NEW list \in Chats, Restore(list) PROVE SlotInv'
<1>1. /\ chat' = [id |-> chat.id + 1, list |-> list] /\ used.changes < MaxChanges
      /\ used' = [used EXCEPT !.changes = @ + 1]
      /\ UNCHANGED <<auto, conf, source, run, side>>
  BY DEF Restore
<1>2. /\ used \in Counts /\ chat.id \in Nat /\ Len(jobs) <= MaxPrewarms /\ red \in [Reducers -> Red]
      /\ Chain(jobs, current) /\ conf \in Nat /\ conf <= used.changes
      /\ chat.id <= used.changes /\ MaxChanges \in Nat
  BY PrewarmConstants DEF SlotInv, JobKinds, Bounds
<1>3. /\ used' \in Counts /\ used'.words = used.words /\ used'.changes = used.changes + 1
  BY <1>1, <1>2 DEF Counts
<1>4. chat' \in [id : Nat, list : Chats] /\ chat'.id = chat.id + 1 /\ chat'.id \in Nat
  BY <1>1, <1>2
<1>5. used.changes \in Nat
  BY <1>2 DEF Counts
<1>6. used'.changes <= MaxChanges /\ conf' <= used'.changes /\ chat'.id <= used'.changes
  BY <1>1, <1>2, <1>3, <1>4, <1>5
<1>. DEFINE js == Cut(jobs)
<1>7. /\ Chain(js, current) /\ Kept(jobs, js) /\ Len(js) = Len(jobs)
      /\ current = 0 \/ OfUse(js, current, Prompt')
  BY <1>2, CutJob DEF OfUse
<1>8. /\ Chain(jobs', current') /\ Kept(js, jobs') /\ Len(jobs') <= MaxPrewarms
      /\ settled' \in BOOLEAN /\ aborted' \in BOOLEAN /\ prep' \in {"no", "judging"}
      /\ holder' \in Reducers \cup {"none"}
      /\ red' \in [Reducers -> Red] /\ RedWaits(red', jobs')
  <2>1. CASE auto
    <3>1. PICK b \in BOOLEAN : b = FALSE
      OBVIOUS
    <3>2. Prepare(js, list, b)
      BY <2>1, <3>1 DEF Restore
    <3>. HIDE DEF js
    <3>. QED BY <1>1, <1>4, <1>7, <3>2, PrepareStep
  <2>2. CASE ~auto
    <3>1. /\ jobs' = js /\ settled' = FALSE
          /\ UNCHANGED <<current, prep, aborted, red, holder>>
      BY <2>2 DEF Restore
    <3>2. js \in Seq(Job) /\ RedWaits(red, js)
      BY <1>7 DEF SlotInv, AllWait, RedWaits, Chain
    <3>. HIDE DEF js
    <3>. QED BY <1>2, <1>7, <3>1, <3>2, KeptRefl DEF SlotInv, JobKinds
  <2>. QED BY <2>1, <2>2
<1>. HIDE DEF js
<1>9. JobsGoOn
  BY <1>7, <1>8, OtherPrompt
<1>10. JobKinds'
  BY <1>1, <1>3, <1>4, <1>8 DEF SlotInv, JobKinds
<1>. QED BY <1>1, <1>3, <1>6, <1>8, <1>9, <1>10, CommandStep

LEMMA PrepGoesOnInv == ASSUME SlotInv, PrepGoesOn PROVE SlotInv'
<1>1. UNCHANGED <<auto, conf, source, chat, run, holder, side, used>> /\ prep' = "no"
  BY DEF PrepGoesOn
<1>2. PICK d \in Red : d = NoRed /\ d.waits = 0 /\ d.at = "no"
  BY NoRedKind
<1>3. red' = [red EXCEPT !["prep"] = d] /\ "prep" \in Reducers
  BY <1>2 DEF PrepGoesOn, Reducers
<1>4. Chain(jobs, current) /\ Len(jobs) <= MaxPrewarms /\ jobs \in Seq(Job)
  BY DEF SlotInv, Bounds, Chain
<1>5. /\ Chain(jobs', current') /\ Kept(jobs, jobs') /\ Len(jobs') <= MaxPrewarms
  <2>1. CASE UNCHANGED <<jobs, current>>
    BY <2>1, <1>4, KeptRefl
  <2>2. CASE StartPrewarm(jobs, Prompt)
    <3>1. Prompt \in Prompts
      BY PromptValues DEF Prompt, SlotInv, JobKinds
    <3>. QED BY <2>2, <3>1, <1>4, MaybeNewJob
  <2>. QED BY <2>1, <2>2 DEF PrepGoesOn
<1>6. settled' \in BOOLEAN /\ aborted' \in BOOLEAN
  BY DEF PrepGoesOn, SlotInv, JobKinds
<1>7. JobsGoOn
  BY <1>1, <1>5, SamePrompt DEF Prompt
<1>8. jobs' \in Seq(Job)
  BY <1>5 DEF Chain
<1>9. RedWaits(red, jobs')
  <2>1. PICK rr \in Caller, sd \in [Sides -> SideOf], rd \in [Reducers -> Red] :
          rr = run /\ sd = side /\ rd = red
    BY DEF SlotInv, JobKinds
  <2>2. RedWaits(rd, jobs)
    BY <2>1 DEF SlotInv, AllWait
  <2>. QED BY <1>4, <1>5, <1>8, <2>1, <2>2, WaitsKept
<1>10. red' \in [Reducers -> Red] /\ RedWaits(red', jobs')
  <2>1. d.waits <= Len(jobs')
    BY <1>2, <1>8
  <2>. QED BY <1>2, <1>3, <1>8, <1>9, <2>1, RedPut DEF SlotInv, JobKinds
<1>11. JobKinds'
  BY <1>1, <1>6, <1>10 DEF SlotInv, JobKinds
<1>. QED BY <1>1, <1>7, <1>10, <1>11, CommandStep DEF SlotInv, Bounds

LEMMA ChangeSettingsInv == ASSUME SlotInv, ChangeSettings PROVE SlotInv'
<1>1. /\ conf' = conf + 1 /\ used.changes < MaxChanges
      /\ used' = [used EXCEPT !.changes = @ + 1]
      /\ jobs' = CutIfStale(jobs, <<conf + 1, source, chat.list>>)
      /\ UNCHANGED <<auto, source, chat, current, run, red, prep, aborted, settled,
                     holder, side>>
  BY DEF ChangeSettings
<1>2. used \in Counts /\ chat \in [id : Nat, list : Chats] /\ conf \in Nat /\ MaxChanges \in Nat
  BY PrewarmConstants DEF SlotInv, JobKinds
<1>3. used' \in Counts /\ used'.words = used.words /\ used'.changes = used.changes + 1
  BY <1>1, <1>2 DEF Counts
<1>4. used.changes \in Nat
  BY <1>2 DEF Counts
<1>5. used'.changes <= MaxChanges /\ conf' <= used'.changes /\ chat'.id <= used'.changes
  BY <1>1, <1>2, <1>3, <1>4 DEF SlotInv, Bounds
<1>6. Prompt' = <<conf + 1, source, chat.list>>
  BY <1>1 DEF Prompt
<1>7. /\ Chain(jobs', current') /\ Kept(jobs, jobs') /\ Len(jobs') = Len(jobs)
      /\ current = 0 \/ OfUse(jobs', current, Prompt')
  BY <1>1, <1>6, CutStale DEF SlotInv
<1>8. JobsGoOn
  <2>1. Chain(jobs', current) /\ Kept(jobs', jobs') /\ Len(jobs') <= MaxPrewarms
    BY <1>1, <1>7, KeptRefl DEF SlotInv, Bounds, Chain
  <2>. QED BY <1>7, <2>1, OtherPrompt
<1>9. JobKinds'
  BY <1>1, <1>2, <1>3 DEF SlotInv, JobKinds
<1>10. RedWaits(red', jobs')
  BY <1>1, <1>7 DEF SlotInv, AllWait, RedWaits
<1>. QED BY <1>1, <1>3, <1>5, <1>8, <1>9, <1>10, CommandStep

LEMMA EscInv == ASSUME SlotInv, Esc PROVE SlotInv'
<1>1. /\ aborted' = TRUE /\ jobs' = Cut(jobs)
      /\ red' = [a \in Reducers |-> IF a = holder THEN [red[a] EXCEPT !.cut = TRUE] ELSE red[a]]
      /\ UNCHANGED <<auto, conf, source, chat, current, run, prep, settled, holder,
                     side, used>>
  BY DEF Esc
<1>2. Chain(jobs', current') /\ Kept(jobs, jobs') /\ Len(jobs') = Len(jobs)
  BY <1>1, CutJob DEF SlotInv
<1>3. JobsGoOn
  BY <1>1, <1>2, SamePrompt DEF Prompt, SlotInv, Bounds
<1>4. \A a \in Reducers : red'[a] \in Red /\ red'[a].at = red[a].at /\ red'[a].waits = red[a].waits
  <2>. TAKE a \in Reducers
  <2>1. red[a] \in Red
    BY DEF SlotInv, JobKinds
  <2>2. LET q == [red[a] EXCEPT !.cut = TRUE]
        IN q \in Red /\ q.at = red[a].at /\ q.waits = red[a].waits
    BY <2>1 DEF Red
  <2>3. red'[a] = IF a = holder THEN [red[a] EXCEPT !.cut = TRUE] ELSE red[a]
    BY <1>1
  <2>. QED BY <2>1, <2>2, <2>3
<1>5. red' \in [Reducers -> Red]
  BY <1>1, <1>4
<1>6. RedWaits(red', jobs')
  BY <1>2, <1>4 DEF SlotInv, AllWait, RedWaits
<1>7. JobKinds'
  BY <1>1, <1>5 DEF SlotInv, JobKinds
<1>. QED BY <1>1, <1>3, <1>6, <1>7, CommandStep DEF SlotInv, Bounds

\* Every step keeps the invariant.
THEOREM SlotInvStep == SlotInv /\ [PrewarmNext]_prewarmVars => SlotInv'
<1>. SUFFICES ASSUME SlotInv, [PrewarmNext]_prewarmVars PROVE SlotInv'
  OBVIOUS
<1>1. CASE GoesOn
  <2>1. CASE \/ RunGoesOn \/ PrepGoesOn \/ CompactEnds \/ RunBegins \/ RunBuilds
    BY <2>1, RunGoesOnInv, PrepGoesOnInv, CompactEndsInv, RunBeginsInv, RunBuildsInv
  <2>2. CASE \/ JudgeNewRequest \/ JudgeEnd
             \/ \E why \in {"pending", "forced"} : JudgeBeforeCall(why)
    BY <2>2, ReductionsInv
  <2>3. CASE MainIsSent \/ (run.pc = "wait" /\ RunStops)
    BY <2>3, RunMoves
  <2>4. CASE \/ \E p \in DOMAIN jobs : JobSends(p)
             \/ \E s \in Sides : SideIsSent(s)
             \/ \E a \in Reducers : SummaryIsSent(a)
    BY <2>4, JobSendsInv, SideGoesOnInv, SummaryIsSentInv
  <2>. QED BY <1>1, <2>1, <2>2, <2>3, <2>4 DEF GoesOn
<1>2. CASE Answers
  <2>1. CASE \/ \E p \in DOMAIN jobs : JobEnds(p)
             \/ \E s \in Sides : SideEnds(s)
    BY <2>1, JobEndsInv, SideGoesOnInv
  <2>2. CASE \E a \in Reducers : SummaryEnds(a) \/ SummaryFails(a)
    BY <2>2, ReductionsInv, SummaryFailsInv
  <2>3. CASE (run.pc # "wait" /\ RunStops) \/ ToolCalls \/ ToolsEnd \/ FinalReply
    BY <2>3, RunMoves
  <2>. QED BY <1>2, <2>1, <2>2, <2>3 DEF Answers
<1>3. CASE Commands
  <2>1. CASE \/ \E from \in {"cli", "chat"} : RunStarts(from)
             \/ \E s \in Sides : SideCalls(s)
    BY <2>1, RunStartsInv, SideCallsInv
  <2>2. CASE PrewarmNow \/ Compact \/ ChangeSettings \/ Esc \/ CancelPrewarm
    BY <2>2, PrewarmNowInv, ReductionsInv, ChangeSettingsInv, EscInv, CancelPrewarmInv
  <2>3. CASE \E list \in {chat.list, <<Reply>>} : Restore(list)
    <3>1. chat.list \in Chats /\ <<Reply>> \in Chats
      BY ChatValues DEF SlotInv, JobKinds
    <3>. QED BY <2>3, <3>1, RestoreInv
  <2>. QED BY <1>3, <2>1, <2>2, <2>3 DEF Commands
<1>4. CASE UNCHANGED prewarmVars
  <2>1. JobsGoOn
    BY <1>4, SameJobs DEF prewarmVars, Prompt
  <2>. QED BY <1>4, <2>1, OnlyJobs DEF prewarmVars, SlotInv, JobKinds
<1>. QED BY <1>1, <1>2, <1>3, <1>4 DEF PrewarmNext

\* The invariant of the slot, the prewarms and those who wait for them.
THEOREM SlotInvHolds == PrewarmSpec => []SlotInv
<1>. QED BY SlotInit, SlotInvStep, PTL DEF PrewarmSpec

(***************************************************************************)
(* What follows for the slot.                                              *)
(***************************************************************************)
LEMMA SlotInvTypes == SlotInv => PrewarmTypeOK
<1>. SUFFICES ASSUME SlotInv PROVE PrewarmTypeOK
  OBVIOUS
<1>1. PICK n \in Nat : n = Len(jobs) /\ DOMAIN jobs = 1..n
  BY DEF SlotInv, Chain
<1>2. \A p \in 1..n : jobs[p] \in Job
  BY <1>1 DEF SlotInv, Chain
<1>3. \A p \in 1..n : jobs[p].at \in WirePcs /\ jobs[p].behind \in 0..p - 1
  <2>. TAKE p \in 1..n
  <2>1. jobs[p].at \in WirePcs
    BY <1>2 DEF Job
  <2>2. CASE jobs[p].at = "queued"
    BY <2>1, <2>2, <1>1 DEF SlotInv, Chain
  <2>3. CASE jobs[p].at # "queued"
    BY <2>1, <2>3, <1>1 DEF SlotInv, Chain
  <2>. QED BY <2>2, <2>3
<1>4. /\ conf \in 0..MaxChanges /\ chat.id \in 0..MaxChanges
  <2>1. conf \in Nat /\ chat.id \in Nat /\ used.changes \in Nat /\ MaxChanges \in Nat
    BY PrewarmConstants DEF SlotInv, JobKinds, Counts
  <2>. QED BY <2>1 DEF SlotInv, Bounds
<1>5. \A i \in DOMAIN chat.list : chat.list[i] \in -1..MaxWords
  <2>. DEFINE S == -1..MaxWords
  <2>1. chat.list \in Seq(S)
    BY DEF SlotInv, JobKinds, Chats
  <2>. HIDE DEF S
  <2>2. \A i \in DOMAIN chat.list : chat.list[i] \in S
    BY <2>1
  <2>. QED BY <2>2 DEF S
<1>6. current \in 0..Len(jobs) /\ (current # 0 => jobs[current].at # "done")
  BY DEF SlotInv, Chain, Live
<1>7. /\ run.pc \in RunPcs /\ \A a \in Reducers : red[a].at \in {"no", "gate", "wire", "done"}
      /\ \A s \in Sides : side[s].pc \in {"idle", "gate", "call"}
  BY DEF SlotInv, JobKinds, Caller, Red, SideOf
<1>8. Len(jobs) <= MaxPrewarms
  BY DEF SlotInv, Bounds
<1>9. /\ auto \in BOOLEAN /\ aborted \in BOOLEAN /\ settled \in BOOLEAN
      /\ source \in {"cli", "chat"} /\ prep \in {"no", "judging"}
      /\ holder \in Reducers \cup {"none"}
  BY DEF SlotInv, JobKinds
<1>. QED BY <1>1, <1>3, <1>4, <1>5, <1>6, <1>7, <1>8, <1>9 DEF PrewarmTypeOK, RunPcs, WirePcs

LEMMA SlotInvServes == SlotInv => SlotReadsWhatIsUsed
<1>. SUFFICES ASSUME SlotInv PROVE SlotReadsWhatIsUsed
  OBVIOUS
<1>1. PICK n \in Nat : n = Len(jobs) /\ DOMAIN jobs = 1..n
  BY DEF SlotInv, Chain
<1>2. ASSUME NEW p \in 1..n, NEW q \in 1..n, jobs[p].at = "wire", jobs[q].at = "wire"
      PROVE  p = q
  <2>1. ~(p < q) /\ ~(q < p)
    BY <1>1, <1>2 DEF SlotInv, Chain, Live
  <2>. QED BY <2>1
<1>3. ASSUME run.pc = "wait", ~jobs[run.waits].cut, jobs[run.waits].at # "done"
      PROVE  IsPromptPrefix(jobs[run.waits].sent, Prompt)
  BY <1>3 DEF SlotInv, RunIsServed, OfUse, Live
<1>. QED BY <1>1, <1>2, <1>3 DEF SlotReadsWhatIsUsed

\* Types of the slot, the prewarms and the calls; 'current' never names a
\* prewarm that is over (prewarm.ts, the finally of start).
THEOREM SlotTypesHold == PrewarmSpec => []PrewarmTypeOK
<1>. QED BY SlotInvHolds, SlotInvTypes, PTL

\* The slot reads one prewarm at a time, and a main call waits only for one that
\* it can use, whatever is changed and replaced meanwhile (prewarm.ts, start and
\* waitBeforeMainCall).
THEOREM SlotIsServed == PrewarmSpec => []SlotReadsWhatIsUsed
<1>. QED BY SlotInvHolds, SlotInvServes, PTL

Overtakes ==
  \A c \in Calls' \ Calls : \A p \in PrewarmsOnWire' : WaitedFor(c) # 0 /\ p > WaitedFor(c)

LEMMA FewerCalls ==
  ASSUME \A s \in Sides : side'[s].pc = "call" => side[s].pc = "call",
         \A a \in Reducers : red'[a].at = "wire" => red[a].at = "wire",
         run'.pc = "call" => run.pc = "call"
  PROVE  Overtakes
<1>1. Calls' \subseteq Calls
  BY DEF Calls
<1>. QED BY <1>1 DEF Overtakes

\* Without a prewarm in progress there is nothing to overtake.
LEMMA FreeSlot ==
  ASSUME SlotInv, current = 0, jobs' = jobs
  PROVE  Overtakes
<1>1. PrewarmsOnWire' = {}
  BY DEF SlotInv, Chain, Live, PrewarmsOnWire
<1>. QED BY <1>1 DEF Overtakes

\* Who waited for a prewarm that is over finds only later ones.
LEMMA LaterPrewarms ==
  ASSUME SlotInv, jobs' = jobs, NEW w \in Nat, w <= Len(jobs), w # 0, Done(w),
         NEW p \in PrewarmsOnWire'
  PROVE  p > w
<1>1. p \in 1..Len(jobs) /\ jobs[p].at = "wire" /\ w \in 1..Len(jobs) /\ jobs[w].at = "done"
  BY DEF SlotInv, Chain, PrewarmsOnWire, Done
<1>. QED BY <1>1, BeforeIsOver DEF SlotInv, Live

LEMMA TurnOpens ==
  ASSUME SlotInv,
         \/ MainIsSent \/ \E s \in Sides : SideIsSent(s)
         \/ \E a \in Reducers : SummaryIsSent(a)
  PROVE  Overtakes
<1>. SUFFICES ASSUME NEW c \in Calls' \ Calls, NEW p \in PrewarmsOnWire'
              PROVE  WaitedFor(c) # 0 /\ p > WaitedFor(c)
  BY DEF Overtakes
<1>1. ASSUME MainIsSent PROVE WaitedFor(c) # 0 /\ p > WaitedFor(c)
  <2>1. c = "main" /\ jobs' = jobs
    BY <1>1 DEF MainIsSent, Calls
  <2>2. WaitedFor(c) = run.waits
    BY <2>1, PrewarmConstants DEF WaitedFor
  <2>3. PICK w \in Nat : w = run.waits /\ w <= Len(jobs) /\ w # 0 /\ Done(w)
    BY <1>1 DEF SlotInv, JobKinds, Caller, AllWait, RunWaits, MainIsSent
  <2>. QED BY <2>1, <2>2, <2>3, LaterPrewarms
<1>2. ASSUME NEW s \in Sides, SideIsSent(s) PROVE WaitedFor(c) # 0 /\ p > WaitedFor(c)
  <2>1. c = s /\ jobs' = jobs
    BY <1>2 DEF SideIsSent, Calls, SlotInv, JobKinds
  <2>2. WaitedFor(c) = side[s].waits
    BY <2>1 DEF WaitedFor
  <2>3. PICK w \in Nat : w = side[s].waits /\ w <= Len(jobs) /\ w # 0 /\ Done(w)
    BY <1>2 DEF SlotInv, JobKinds, SideOf, AllWait, SideWaits, SideIsSent
  <2>. QED BY <2>1, <2>2, <2>3, LaterPrewarms
<1>3. ASSUME NEW a \in Reducers, SummaryIsSent(a) PROVE WaitedFor(c) # 0 /\ p > WaitedFor(c)
  <2>0. red' = [red EXCEPT ![a] = [red[a] EXCEPT !.at = "wire", !.waits = 0]]
    BY <1>3 DEF SummaryIsSent, SlotInv, JobKinds
  <2>1. c = a /\ jobs' = jobs
    BY <1>3, <2>0 DEF SummaryIsSent, Calls, SlotInv, JobKinds
  <2>2. WaitedFor(c) = red[a].waits
    BY <2>1, PrewarmConstants DEF WaitedFor, Reducers
  <2>3. PICK w \in Nat : w = red[a].waits /\ w <= Len(jobs) /\ w # 0 /\ Done(w)
    BY <1>3 DEF SlotInv, JobKinds, Red, AllWait, RedWaits, SummaryIsSent
  <2>. QED BY <2>1, <2>2, <2>3, LaterPrewarms
<1>. QED BY <1>1, <1>2, <1>3

\* A reduction starts with its summary on the wire only when the slot is free.
LEMMA ReductionOvertakes ==
  ASSUME SlotInv, NEW a \in Reducers, NEW why \in Whys, ReductionStarts(a, why), side' = side,
         run'.pc = "call" => run.pc = "call"
  PROVE  Overtakes
<1>. DEFINE r == [NoRed EXCEPT !.id = chat.id, !.copy = chat.list, !.why = why]
<1>1. red \in [Reducers -> Red] /\ r \in Red
  BY DEF SlotInv, JobKinds, NoRed, Red
<1>2. CASE \E d : red' = [red EXCEPT ![a] = d] /\ d.at # "wire"
  BY <1>1, <1>2, FewerCalls
<1>3. CASE /\ red' = [red EXCEPT ![a] = [NoRed EXCEPT !.at = "done"]]
  BY <1>2, <1>3, NoRedKind
<1>4. CASE Replace(a, Cut(jobs), r)
  BY <1>2, <1>4, NoRedKind DEF Replace
<1>5. CASE /\ jobs' = Cut(jobs)
           /\ red' = [red EXCEPT ![a] =
                [r EXCEPT !.at = IF current = 0 THEN "wire" ELSE "gate", !.waits = current]]
  <2>1. CASE current = 0
    BY <1>5, <2>1, FreeSlot DEF Cut
  <2>2. CASE current # 0
    <3>1. [r EXCEPT !.at = "gate", !.waits = current].at = "gate"
      BY <1>1 DEF Red
    <3>. QED BY <1>2, <1>5, <2>2, <3>1
  <2>. QED BY <2>1, <2>2
<1>. QED BY <1>3, <1>4, <1>5 DEF ReductionStarts

LEMMA PrepareOvertakes ==
  ASSUME SlotInv, NEW js, js = jobs \/ js = Cut(jobs), NEW list, NEW before, Prepare(js, list, before),
         side' = side, run' = run
  PROVE  Overtakes
<1>0. red \in [Reducers -> Red]
  BY DEF SlotInv, JobKinds
<1>1. CASE UNCHANGED <<prep, red, holder>>
  BY <1>1, FewerCalls
<1>2. CASE current = 0 /\ jobs' = Cut(js)
  BY <1>2, FreeSlot DEF Cut
<1>3. CASE /\ current # 0
           /\ red' = [red EXCEPT !["prep"] =
                [NoRed EXCEPT !.at    = IF current = 0 THEN "wire" ELSE "gate",
                              !.waits = current,     !.id  = chat'.id,
                              !.copy  = list,        !.why = "before-prewarm"]]
  <2>. DEFINE q == [NoRed EXCEPT !.at = "gate", !.waits = current, !.id = chat'.id,
                                 !.copy = list, !.why = "before-prewarm"]
  <2>1. q.at = "gate"
    BY DEF NoRed
  <2>2. red' = [red EXCEPT !["prep"] = q]
    BY <1>3
  <2>. HIDE DEF q
  <2>. QED BY <1>0, <2>1, <2>2, FewerCalls
<1>. QED BY <1>1, <1>2, <1>3 DEF Prepare

LEMMA OvertakesStep ==
  ASSUME SlotInv, PrewarmNext
  PROVE  Overtakes
<1>0. /\ red \in [Reducers -> Red] /\ side \in [Sides -> SideOf] /\ run \in Caller
      /\ NoRed.at = "no" /\ [NoRed EXCEPT !.at = "done"].at = "done"
      /\ [NoRed EXCEPT !.at = "done", !.ok = TRUE].at = "done"
  BY NoRedKind DEF SlotInv, JobKinds
<1>1. CASE GoesOn
  <2>1. CASE RunGoesOn
    BY <1>0, <2>1, FewerCalls DEF RunGoesOn, AddWords, Stop, At, Resting, Caller
  <2>2. CASE PrepGoesOn \/ CompactEnds
    BY <1>0, <2>2, FewerCalls DEF PrepGoesOn, CompactEnds
  <2>3. CASE RunBegins
    BY <1>0, <2>3, FewerCalls DEF RunBegins, AddWords, At, Caller
  <2>4. CASE RunBuilds
    <3>1. CASE current = 0
      <4>1. jobs' = jobs
        BY <2>4, <3>1 DEF RunBuilds, CutIfStale
      <4>. QED BY <3>1, <4>1, FreeSlot
    <3>2. CASE current # 0
      BY <2>4, <3>2, FewerCalls DEF RunBuilds
    <3>. QED BY <3>1, <3>2
  <2>5. CASE \/ JudgeNewRequest \/ JudgeEnd
             \/ \E why \in {"pending", "forced"} : JudgeBeforeCall(why)
    <3>1. PICK why \in Whys : ReductionStarts("run", why)
      BY <2>5 DEF JudgeNewRequest, JudgeEnd, JudgeBeforeCall, Whys
    <3>2. side' = side /\ (run'.pc = "call" => run.pc = "call")
      BY <2>5, <1>0 DEF JudgeNewRequest, JudgeEnd, JudgeBeforeCall, At, Caller
    <3>. QED BY <3>1, <3>2, ReductionOvertakes DEF Reducers
  <2>6. CASE run.pc = "wait" /\ RunStops
    BY <1>0, <2>6, FewerCalls DEF RunStops, Stop, Resting
  <2>7. CASE \/ MainIsSent \/ \E s \in Sides : SideIsSent(s)
             \/ \E a \in Reducers : SummaryIsSent(a)
    BY <2>7, TurnOpens
  <2>8. CASE \E p \in DOMAIN jobs : JobSends(p)
    BY <2>8, FewerCalls DEF JobSends
  <2>. QED BY <1>1, <2>1, <2>2, <2>3, <2>4, <2>5, <2>6, <2>7, <2>8 DEF GoesOn
<1>2. CASE Answers
  <2>1. CASE \E p \in DOMAIN jobs : JobEnds(p)
    BY <2>1, FewerCalls DEF JobEnds
  <2>2. CASE \E s \in Sides : SideEnds(s)
    BY <1>0, <2>2, FewerCalls DEF SideEnds, Resting
  <2>3. CASE \E a \in Reducers : SummaryEnds(a)
    BY <1>0, <2>3, FewerCalls DEF SummaryEnds, Replace
  <2>4. CASE \E a \in Reducers : SummaryFails(a)
    BY <1>0, <2>4, FewerCalls DEF SummaryFails
  <2>5. CASE RunStops \/ ToolCalls \/ ToolsEnd \/ FinalReply
    BY <1>0, <2>5, FewerCalls
    DEF RunStops, Stop, ToolCalls, ToolsEnd, FinalReply, At, Resting, Caller
  <2>. QED BY <1>2, <2>1, <2>2, <2>3, <2>4, <2>5 DEF Answers
<1>3. CASE Commands
  <2>1. CASE \E from \in {"cli", "chat"} : RunStarts(from)
    BY <2>1, FewerCalls DEF RunStarts
  <2>2. CASE \E s \in Sides : SideCalls(s)
    <3>1. CASE current = 0
      <4>1. jobs' = jobs
        BY <2>2, <3>1 DEF SideCalls, CutIfStale
      <4>. QED BY <3>1, <4>1, FreeSlot
    <3>2. CASE current # 0
      BY <1>0, <2>2, <3>2, FewerCalls DEF SideCalls
    <3>. QED BY <3>1, <3>2
  <2>3. CASE Compact
    BY <2>3, ReductionOvertakes DEF Compact, Reducers, Whys
  <2>4. CASE PrewarmNow
    BY <2>4, PrepareOvertakes DEF PrewarmNow
  <2>5. CASE \E list \in {chat.list, <<Reply>>} : Restore(list)
    <3>1. PICK list : Restore(list)
      BY <2>5
    <3>2. CASE auto
      BY <3>1, <3>2, PrepareOvertakes DEF Restore
    <3>3. CASE ~auto
      BY <3>1, <3>3, FewerCalls DEF Restore
    <3>. QED BY <3>2, <3>3
  <2>6. CASE ChangeSettings \/ CancelPrewarm
    BY <2>6, FewerCalls DEF ChangeSettings, CancelPrewarm
  <2>7. CASE Esc
    <3>1. \A a \in Reducers : red'[a].at = red[a].at
      BY <1>0, <2>7 DEF Esc, Red
    <3>. QED BY <2>7, <3>1, FewerCalls DEF Esc
  <2>. QED BY <1>3, <2>1, <2>2, <2>3, <2>4, <2>5, <2>6, <2>7 DEF Commands
<1>. QED BY <1>1, <1>2, <1>3 DEF PrewarmNext

\* A call is sent over a prewarm only when that one replaced the one the call
\* had been waiting for (waitFor awaits the prewarm it captured).
THEOREM OnlyReplacementsOvertake == PrewarmSpec => OnlyReplacementsAreOvertaken
<1>1. SlotInv /\ [PrewarmNext]_prewarmVars => [Overtakes]_prewarmVars
  BY OvertakesStep
<1>2. [Overtakes]_prewarmVars <=>
        [\A c \in Calls' \ Calls : \A p \in PrewarmsOnWire' :
           WaitedFor(c) # 0 /\ p > WaitedFor(c)]_prewarmVars
  BY DEF Overtakes
<1>. QED BY <1>1, <1>2, SlotInvHolds, PTL DEF PrewarmSpec, OnlyReplacementsAreOvertaken
(***************************************************************************)
(* Nobody waits in vain.  What a waiting call, event or run waits for is   *)
(* over, or it can end by itself: the safety half of EveryWaitEnds, to     *)
(* which the fairness of the streams adds the end.                         *)
(***************************************************************************)
Judging == {"newreq", "pending", "forced", "ending"}

\* The run, or the preparation, awaits an event as long as there is one.
EventsAwaited ==
  /\ run.pc \in Judging <=> red["run"].at # "no"
  /\ prep = "judging" <=> red["prep"].at # "no"

LEMMA ReductionBegins ==
  ASSUME red \in [Reducers -> Red], NEW a \in Reducers, NEW why, ReductionStarts(a, why)
  PROVE  red[a].at = "no" /\ red'[a].at # "no" /\ \A b \in Reducers : b # a => red'[b] = red[b]
<1>. DEFINE r == [NoRed EXCEPT !.id = chat.id, !.copy = chat.list, !.why = why]
<1>1. red[a].at = "no"
  BY DEF ReductionStarts
<1>2. \/ red' = [red EXCEPT ![a] = [NoRed EXCEPT !.at = "done"]]
      \/ red' = [red EXCEPT ![a] = [NoRed EXCEPT !.at = "done", !.ok = TRUE]]
      \/ red' = [red EXCEPT ![a] = [r EXCEPT !.at = IF current = 0 THEN "wire" ELSE "gate",
                                             !.waits = current]]
  BY DEF ReductionStarts, Replace
<1>3. /\ [NoRed EXCEPT !.at = "done"].at # "no"
      /\ [NoRed EXCEPT !.at = "done", !.ok = TRUE].at # "no"
      /\ [r EXCEPT !.at = IF current = 0 THEN "wire" ELSE "gate", !.waits = current].at # "no"
  BY DEF NoRed
<1>. HIDE DEF r
<1>. QED BY <1>1, <1>2, <1>3

LEMMA PreparationBegins ==
  ASSUME red \in [Reducers -> Red], NEW js, NEW list, NEW before, Prepare(js, list, before),
         prep = "no", EventsAwaited
  PROVE  (prep' = "judging" <=> red'["prep"].at # "no") /\ red'["run"] = red["run"]
<1>1. CASE UNCHANGED <<prep, red>>
  BY <1>1 DEF EventsAwaited
<1>2. CASE prep' = "judging" /\ ~UNCHANGED <<prep, red>>
  <2>1. PICK r : /\ red' = [red EXCEPT !["prep"] = r]
                 /\ r = [NoRed EXCEPT !.at    = IF current = 0 THEN "wire" ELSE "gate",
                                      !.waits = current,     !.id  = chat'.id,
                                      !.copy  = list,        !.why = "before-prewarm"]
    BY <1>2 DEF Prepare
  <2>2. r.at # "no"
    BY <2>1 DEF NoRed
  <2>. QED BY <1>2, <2>1, <2>2 DEF Reducers
<1>. QED BY <1>1, <1>2 DEF Prepare

LEMMA EventsAwaitedStep ==
  SlotInv /\ EventsAwaited /\ [PrewarmNext]_prewarmVars => EventsAwaited'
<1>. SUFFICES ASSUME SlotInv, EventsAwaited, [PrewarmNext]_prewarmVars PROVE EventsAwaited'
  OBVIOUS
<1>1. /\ red \in [Reducers -> Red] /\ run \in Caller /\ prep \in {"no", "judging"}
      /\ Reducers = {"run", "prep", "compact"} /\ NoRed.at = "no"
  BY DEF SlotInv, JobKinds, Reducers, NoRed
<1>2. CASE \/ JudgeNewRequest \/ JudgeEnd
           \/ \E why \in {"pending", "forced"} : JudgeBeforeCall(why)
  <2>1. PICK why \in {"new-request", "request-end", "pending", "forced"} :
          ReductionStarts("run", why)
    BY <1>2 DEF JudgeNewRequest, JudgeEnd, JudgeBeforeCall
  <2>2. run'.pc \in Judging /\ prep' = prep
    BY <1>1, <1>2 DEF JudgeNewRequest, JudgeEnd, JudgeBeforeCall, At, Judging, Caller
  <2>. QED BY <1>1, <2>1, <2>2, ReductionBegins DEF EventsAwaited
<1>3. CASE Compact
  <2>1. run' = run /\ prep' = prep
    BY <1>3 DEF Compact
  <2>. QED BY <1>1, <1>3, <2>1, ReductionBegins DEF EventsAwaited, Compact
<1>4. CASE RunGoesOn
  <2>1. red' = [red EXCEPT !["run"] = NoRed] /\ prep' = prep
    BY <1>4 DEF RunGoesOn
  <2>2. run'.pc \in {"loop", "idle"}
    BY <1>1, <1>4 DEF RunGoesOn, AddWords, At, Stop, Resting, Caller
  <2>. QED BY <1>1, <2>1, <2>2 DEF EventsAwaited, Judging
<1>5. CASE PrepGoesOn
  <2>1. red' = [red EXCEPT !["prep"] = NoRed] /\ prep' = "no" /\ run' = run
    BY <1>5 DEF PrepGoesOn
  <2>. QED BY <1>1, <2>1 DEF EventsAwaited
<1>6. CASE CompactEnds
  <2>1. red' = [red EXCEPT !["compact"] = NoRed] /\ prep' = prep /\ run' = run
    BY <1>6 DEF CompactEnds
  <2>. QED BY <1>1, <2>1 DEF EventsAwaited
<1>7. CASE \E a \in Reducers : SummaryIsSent(a) \/ SummaryEnds(a) \/ SummaryFails(a)
  <2>1. PICK a \in Reducers : SummaryIsSent(a) \/ SummaryEnds(a) \/ SummaryFails(a)
    BY <1>7
  <2>2. PICK r : red' = [red EXCEPT ![a] = r] /\ r.at # "no"
    <3>1. CASE SummaryIsSent(a)
      <4>1. red' = [red EXCEPT ![a] = [red[a] EXCEPT !.at = "wire", !.waits = 0]]
        BY <1>1, <3>1 DEF SummaryIsSent
      <4>2. [red[a] EXCEPT !.at = "wire", !.waits = 0].at # "no"
        BY <1>1 DEF Red
      <4>. QED BY <4>1, <4>2
    <3>2. CASE SummaryEnds(a)
      <4>1. red' = [red EXCEPT ![a] = [NoRed EXCEPT !.at = "done", !.ok = TRUE]]
        BY <3>2 DEF SummaryEnds, Replace
      <4>2. [NoRed EXCEPT !.at = "done", !.ok = TRUE].at # "no"
        BY DEF NoRed
      <4>. QED BY <4>1, <4>2
    <3>3. CASE SummaryFails(a)
      <4>1. red' = [red EXCEPT ![a] = [NoRed EXCEPT !.at = "done"]]
        BY <3>3 DEF SummaryFails
      <4>2. [NoRed EXCEPT !.at = "done"].at # "no"
        BY DEF NoRed
      <4>. QED BY <4>1, <4>2
    <3>. QED BY <2>1, <3>1, <3>2, <3>3
  <2>3. red[a].at # "no" /\ run' = run /\ prep' = prep
    BY <2>1 DEF SummaryIsSent, SummaryEnds, SummaryFails
  <2>. QED BY <1>1, <2>2, <2>3 DEF EventsAwaited
<1>8. CASE PrewarmNow
  <2>1. prep = "no" /\ run' = run /\ Prepare(jobs, chat.list, settled)
    BY <1>8 DEF PrewarmNow, PromptFree
  <2>. QED BY <1>1, <2>1, PreparationBegins DEF EventsAwaited
<1>9. CASE \E list \in {chat.list, <<Reply>>} : Restore(list)
  <2>1. PICK list : Restore(list)
    BY <1>9
  <2>2. prep = "no" /\ run' = run
    BY <2>1 DEF Restore, PromptFree
  <2>3. CASE auto
    <3>1. Prepare(Cut(jobs), list, FALSE)
      BY <2>1, <2>3 DEF Restore
    <3>. QED BY <1>1, <2>2, <3>1, PreparationBegins DEF EventsAwaited
  <2>4. CASE ~auto
    BY <2>1, <2>2, <2>4 DEF Restore, EventsAwaited
  <2>. QED BY <2>3, <2>4
<1>10. CASE Esc
  <2>1. /\ red' = [a \in Reducers |-> IF a = holder THEN [red[a] EXCEPT !.cut = TRUE] ELSE red[a]]
        /\ run' = run /\ prep' = prep
    BY <1>10 DEF Esc
  <2>2. \A a \in Reducers : red'[a].at = red[a].at
    BY <1>1, <2>1 DEF Red
  <2>. QED BY <1>1, <2>1, <2>2 DEF EventsAwaited
<1>11. ASSUME red' = red, prep' = prep, run.pc \notin Judging, run'.pc \notin Judging
       PROVE  EventsAwaited'
  BY <1>11 DEF EventsAwaited
<1>12. CASE \/ \E from \in {"cli", "chat"} : RunStarts(from)
            \/ RunBegins \/ RunBuilds \/ MainIsSent \/ RunStops \/ ToolCalls \/ ToolsEnd \/ FinalReply
  <2>1. red' = red /\ prep' = prep
    BY <1>12 DEF RunStarts, RunBegins, RunBuilds, MainIsSent, RunStops, ToolCalls, ToolsEnd, FinalReply
  <2>2. run.pc \notin Judging
    BY <1>12 DEF RunStarts, RunBegins, RunBuilds, MainIsSent, RunStops, ToolCalls, ToolsEnd,
                 FinalReply, Judging
  <2>3. run'.pc \notin Judging
    BY <1>1, <1>12 DEF RunStarts, RunBegins, RunBuilds, MainIsSent, RunStops, ToolCalls, ToolsEnd,
                 FinalReply, Judging, AddWords, At, Stop, Resting, Caller
  <2>. QED BY <1>11, <2>1, <2>2, <2>3
<1>13. CASE \/ \E p \in DOMAIN jobs : JobSends(p) \/ JobEnds(p)
            \/ \E s \in Sides : SideIsSent(s) \/ SideEnds(s) \/ SideCalls(s)
            \/ ChangeSettings \/ CancelPrewarm \/ UNCHANGED prewarmVars
  <2>1. UNCHANGED <<run, red, prep>>
    BY <1>13 DEF JobSends, JobEnds, SideIsSent, SideEnds, SideCalls, ChangeSettings, CancelPrewarm,
                 prewarmVars
  <2>. QED BY <2>1 DEF EventsAwaited
<1>. QED
  BY <1>2, <1>3, <1>4, <1>5, <1>6, <1>7, <1>8, <1>9, <1>10, <1>12, <1>13
  DEF PrewarmNext, GoesOn, Answers, Commands

\* Prewarm p is over, or its stream is open, or it may send now; or that is so
\* of an earlier one, and p comes after it.
CanEnd(p) ==
  \/ Done(p)
  \/ \E q \in 1..p : \/ jobs[q].at = "wire"
                     \/ jobs[q].at = "queued" /\ Done(jobs[q].behind)

\* Of the prewarms that are not over the first one can go on.
LEMMA FirstCanEnd == ASSUME SlotInv, NEW p \in Nat, p <= Len(jobs) PROVE CanEnd(p)
<1>. SUFFICES ASSUME ~Done(p) PROVE CanEnd(p)
  BY DEF CanEnd
<1>1. p \in 1..Len(jobs) /\ Len(jobs) \in Nat /\ Live(jobs, p)
  BY DEF Done, Live, SlotInv, Chain
<1>. DEFINE Alive == {q \in 1..p : Live(jobs, q)}
<1>2. Alive \subseteq Nat /\ Alive # {}
  BY <1>1
<1>3. PICK q \in Alive : \A z \in Alive : <<z, q>> \notin OpToRel(<, Nat)
  BY <1>2, NatLessThanWellFounded, WFMin
<1>4. q \in 1..p /\ Live(jobs, q) /\ \A z \in 1..p : Live(jobs, z) => ~(z < q)
  BY <1>2, <1>3 DEF OpToRel
<1>5. jobs[q] \in Job
  BY <1>1, <1>4 DEF SlotInv, Chain
<1>6. CASE jobs[q].at = "wire"
  BY <1>4, <1>6 DEF CanEnd
<1>7. CASE jobs[q].at = "queued"
  <2>1. q > 1 /\ jobs[q].behind = q - 1
    BY <1>1, <1>4, <1>7 DEF SlotInv, Chain
  <2>2. q - 1 \in 1..p /\ q - 1 < q
    BY <1>4, <2>1
  <2>3. ~Live(jobs, q - 1)
    BY <1>4, <2>2
  <2>. QED BY <1>4, <1>7, <2>1, <2>3 DEF CanEnd, Done, Live
<1>. QED BY <1>4, <1>5, <1>6, <1>7 DEF Job, WirePcs, Live

\* Nobody waits in vain, in whatever order prewarms are started, replaced and cut,
\* and whoever changes the settings or restores a session meanwhile: what a main
\* call, a side call and a summary wait for is over or some stream before it can
\* end, a run that judges a boundary and a preparation have an event that is on
\* its way or over, and a run that waits for the preparation has one (waitFor,
\* beforeSideCall, prewarmPrepared).
NobodyWaitsInVain ==
  /\ run.pc = "wait" => CanEnd(run.waits)
  /\ \A s \in Sides : side[s].pc = "gate" => CanEnd(side[s].waits)
  /\ \A a \in Reducers : red[a].at = "gate" => CanEnd(red[a].waits)
  /\ run.pc \in Judging => red["run"].at \in {"gate", "wire", "done"}
  /\ prep # "no" => red["prep"].at \in {"gate", "wire", "done"}

THEOREM WaitsCanEnd == PrewarmSpec => []NobodyWaitsInVain
<1>1. PrewarmInit => EventsAwaited
  BY DEF PrewarmInit, EventsAwaited, Resting, NoRed, Reducers, Judging
<1>2. SlotInv /\ EventsAwaited => NobodyWaitsInVain
  <2>. SUFFICES ASSUME SlotInv, EventsAwaited PROVE NobodyWaitsInVain
    OBVIOUS
  <2>1. /\ run \in Caller /\ red \in [Reducers -> Red] /\ side \in [Sides -> SideOf]
        /\ prep \in {"no", "judging"} /\ "run" \in Reducers /\ "prep" \in Reducers
    BY DEF SlotInv, JobKinds, Reducers
  <2>2. run.pc = "wait" => CanEnd(run.waits)
    BY <2>1, FirstCanEnd DEF SlotInv, AllWait, RunWaits, Caller
  <2>3. ASSUME NEW s \in Sides PROVE CanEnd(side[s].waits)
    BY <2>1, FirstCanEnd DEF SlotInv, AllWait, SideWaits, SideOf
  <2>4. ASSUME NEW a \in Reducers PROVE CanEnd(red[a].waits)
    BY <2>1, FirstCanEnd DEF SlotInv, AllWait, RedWaits, Red
  <2>5. \A a \in Reducers : red[a].at # "no" => red[a].at \in {"gate", "wire", "done"}
    BY <2>1 DEF Red
  <2>. QED BY <2>1, <2>2, <2>3, <2>4, <2>5 DEF NobodyWaitsInVain, EventsAwaited
<1>. QED BY <1>1, <1>2, EventsAwaitedStep, SlotInvHolds, PTL DEF PrewarmSpec
=============================================================================
