--------------------------- MODULE Terminal_proofs ---------------------------
(***************************************************************************)
(* Proofs about the terminal (Terminal): all output reaches the screen,    *)
(* every text that was entered is taken once for each field that held it,  *)
(* and stdin is raw and heard as long as the process lives.                *)
(***************************************************************************)
EXTENDS Terminal, Counting_proofs, FunctionTheorems, FiniteSetTheorems, WellFoundedInduction,
        TLAPS

(***************************************************************************)
(* Sequences.  A recursive function on 0..Len(s) is what its equations     *)
(* say, by the least number for which it would not be.                     *)
(***************************************************************************)
LEMMA Least ==
  ASSUME NEW T \in SUBSET Nat, T # {}
  PROVE  \E m \in T : \A k \in T : m <= k
<1>1. \E x \in T : \A y \in T : ~ (<<y, x>> \in OpToRel(<, Nat))
  BY NatLessThanWellFounded, WFMin
<1>2. PICK x \in T : \A y \in T : ~ (<<y, x>> \in OpToRel(<, Nat))
  BY <1>1
<1>3. \A y \in T : ~(y < x)
  BY <1>2 DEF OpToRel
<1>. QED BY <1>3

LEMMA WithoutDef ==
  ASSUME NEW S, NEW s \in Seq(S), NEW es
  PROVE  \E f : /\ f[0] = <<>>
                /\ \A k \in 1..Len(s) :
                     f[k] = IF s[k] \in es THEN f[k - 1] ELSE Append(f[k - 1], s[k])
                /\ Without(s, es) = f[Len(s)]
<1>. DEFINE Body(f, k) == IF k = 0 THEN <<>>
                          ELSE IF s[k] \in es THEN f[k - 1] ELSE Append(f[k - 1], s[k])
            Good(m) == \E f : f = [k \in 0..m |-> Body(f, k)]
            rest == CHOOSE f : f = [k \in 0..Len(s) |-> Body(f, k)]
<1>1. PICK n \in Nat : n = Len(s)
  OBVIOUS
<1>2. Good(0)
  <2>1. PICK z \in Nat : z = 0
    OBVIOUS
  <2>. DEFINE f == [k \in 0..z |-> <<>>]
  <2>2. \A k \in 0..z : f[k] = Body(f, k)
    BY <2>1
  <2>. HIDE DEF Body
  <2>3. f = [k \in 0..z |-> Body(f, k)]
    <3>. HIDE DEF f
    <3>1. f = [k \in 0..z |-> f[k]]
      BY DEF f
    <3>. QED BY <2>2, <3>1
  <2>. HIDE DEF f
  <2>4. Good(z)
    BY <2>3
  <2>. QED BY <2>1, <2>4
<1>3. ASSUME NEW m \in Nat, Good(m) PROVE Good(m + 1)
  <2>1. PICK g : g = [k \in 0..m |-> Body(g, k)]
    BY <1>3
  <2>. DEFINE f == [k \in 0..m + 1 |-> IF k = m + 1 THEN Body(g, k) ELSE g[k]]
  <2>2. \A k \in 0..m : f[k] = g[k] /\ g[k] = Body(g, k)
    <3>. HIDE DEF Body
    <3>1. \A k \in 0..m : g[k] = Body(g, k)
      BY <2>1
    <3>2. \A k \in 0..m : k \in 0..m + 1 /\ k # m + 1
      OBVIOUS
    <3>3. \A k \in 0..m : f[k] = g[k]
      BY <3>2
    <3>. QED BY <3>1, <3>3
  <2>3. \A k \in 0..m + 1 : f[k] = Body(f, k)
    <3>. TAKE k \in 0..m + 1
    <3>1. k # 0 => k - 1 \in 0..m /\ f[k - 1] = g[k - 1]
      BY <2>2
    <3>2. Body(f, k) = Body(g, k)
      BY <3>1
    <3>3. CASE k = m + 1
      BY <3>2, <3>3
    <3>4. CASE k # m + 1
      <4>1. k \in 0..m
        BY <3>4
      <4>. QED BY <2>2, <3>2, <4>1
    <3>. QED BY <3>3, <3>4
  <2>. HIDE DEF Body
  <2>4. f = [k \in 0..m + 1 |-> Body(f, k)]
    <3>. HIDE DEF f
    <3>1. f = [k \in 0..m + 1 |-> f[k]]
      BY DEF f
    <3>. QED BY <2>3, <3>1
  <2>. QED BY <2>4
<1>. HIDE DEF Good
<1>4. Good(n)
  <2>. SUFFICES ASSUME ~Good(n) PROVE FALSE
    OBVIOUS
  <2>. DEFINE T == {m \in Nat : ~Good(m)}
  <2>1. PICK m \in T : \A k \in T : m <= k
    <3>1. n \in T
      OBVIOUS
    <3>. HIDE DEF T
    <3>2. T \in SUBSET Nat
      BY DEF T
    <3>. QED BY <3>1, <3>2, Least
  <2>2. m # 0
    BY <1>2, <2>1
  <2>3. m - 1 \in Nat /\ Good(m - 1)
    BY <2>1, <2>2
  <2>4. Good((m - 1) + 1)
    BY <1>3, <2>3
  <2>. QED BY <2>1, <2>4
<1>5. rest = [k \in 0..n |-> Body(rest, k)]
  <2>1. \E f : f = [k \in 0..n |-> Body(f, k)]
    BY <1>4 DEF Good
  <2>. QED BY <1>1, <2>1
<1>6. Without(s, es) = rest[n]
  BY <1>1 DEF Without
<1>. HIDE DEF rest
<1>7. \A k \in 0..n : rest[k] = Body(rest, k)
  <2>. HIDE DEF Body
  <2>. QED BY <1>5
<1>8. rest[0] = <<>> /\ \A k \in 1..n : rest[k] = Body(rest, k)
  BY <1>7
<1>. QED BY <1>1, <1>6, <1>8

LEMMA WithoutIs ==
  ASSUME NEW S, NEW s \in Seq(S), NEW es
  PROVE  /\ Without(s, es) \in Seq(S)
         /\ ToSet(Without(s, es)) = ToSet(s) \ es
<1>1. PICK f : /\ f[0] = <<>>
               /\ \A k \in 1..Len(s) :
                    f[k] = IF s[k] \in es THEN f[k - 1] ELSE Append(f[k - 1], s[k])
               /\ Without(s, es) = f[Len(s)]
  BY WithoutDef
<1>2. PICK n \in Nat : n = Len(s)
  OBVIOUS
<1>. DEFINE Good(k) == f[k] \in Seq(S) /\ ToSet(f[k]) = {s[j] : j \in 1..k} \ es
<1>3. Good(0)
  BY <1>1 DEF ToSet
<1>4. ASSUME NEW k \in 1..n, Good(k - 1) PROVE Good(k)
  <2>. DEFINE q == f[k - 1]
  <2>1. q \in Seq(S) /\ s[k] \in S /\ ToSet(q) = {s[j] : j \in 1..k - 1} \ es
    BY <1>2, <1>4
  <2>2. f[k] = IF s[k] \in es THEN q ELSE Append(q, s[k])
    BY <1>1, <1>2
  <2>3. {s[j] : j \in 1..k} = {s[j] : j \in 1..k - 1} \cup {s[k]}
    <3>1. 1..k = 1..k - 1 \cup {k}
      OBVIOUS
    <3>. QED BY <3>1
  <2>. HIDE DEF q
  <2>4. CASE s[k] \in es
    BY <2>1, <2>2, <2>3, <2>4
  <2>5. CASE s[k] \notin es
    <3>1. f[k] = Append(q, s[k])
      BY <2>2, <2>5
    <3>2. ToSet(Append(q, s[k])) = ToSet(q) \cup {s[k]}
      <4>1. PICK m \in Nat : m = Len(q)
        BY <2>1
      <4>0. PICK x \in S : x = s[k]
        BY <2>1
      <4>5. Append(q, x) \in Seq(S)
        BY <2>1
      <4>2. PICK p \in Seq(S) : p = Append(q, x)
        BY <4>5
      <4>3. DOMAIN q = 1..m /\ DOMAIN p = 1..m + 1 /\ p[m + 1] = s[k] /\ \A i \in 1..m : p[i] = q[i]
        BY <2>1, <4>0, <4>1, <4>2
      <4>4. 1..m + 1 = 1..m \cup {m + 1}
        OBVIOUS
      <4>. QED BY <4>0, <4>2, <4>3, <4>4 DEF ToSet
    <3>. QED BY <2>1, <2>3, <2>5, <3>1, <3>2
  <2>. QED BY <2>4, <2>5
<1>5. Good(n)
  <2>. SUFFICES ASSUME ~Good(n) PROVE FALSE
    OBVIOUS
  <2>. HIDE DEF Good
  <2>. DEFINE T == {m \in 0..n : ~Good(m)}
  <2>1. PICK m \in T : \A k \in T : m <= k
    <3>1. n \in T
      OBVIOUS
    <3>. HIDE DEF T
    <3>2. T \in SUBSET Nat
      BY DEF T
    <3>. QED BY <3>1, <3>2, Least
  <2>2. m # 0 /\ m \in 1..n /\ m - 1 \in 0..n
    BY <1>3, <2>1
  <2>3. Good(m - 1)
    BY <2>1, <2>2
  <2>. QED BY <1>4, <2>1, <2>2, <2>3
<1>6. ToSet(s) = {s[j] : j \in 1..n}
  BY <1>2 DEF ToSet
<1>. QED BY <1>1, <1>2, <1>5, <1>6

(***************************************************************************)
(* Screens and their owners.                                               *)
(***************************************************************************)
OwnerKinds == {"prompt", "composer", "dialog", "progress"}
Owner      == [kind : OwnerKinds, of : Nat \cup {"command", "run"}, draft : Inputs \cup {"none"}]
OwnerSeqs  == Seq(Owner)
Numbers    == Seq(Nat)
Screens    == [alt : BOOLEAN, held : BOOLEAN, raw : BOOLEAN, due : BOOLEAN, owners : OwnerSeqs,
               made : Nat, queue : Numbers, shown : Numbers]

\* Nothing is typed into a dialog or a progress line, and there is one prompt.
OwnerSound(e) ==
  /\ e.draft # "none" => e.kind \in {"prompt", "composer"}
  /\ e.kind = "prompt" => e.of = 0
OwnersSound(s) == \A e \in ToSet(s.owners) : OwnerSound(e)

\* No line is missing for good.
ScreenSound(s) ==
  IF ~s.held THEN s.shown = Lines(s)
  ELSE IF s.alt THEN s.shown = Lines(s) \/ s.due \/ ExclusiveIn(s)
  ELSE /\ s.shown \o s.queue = Lines(s) /\ ~s.due
       /\ s.queue # <<>> => ExclusiveIn(s)

\* No dialog opens, and while one is open the screen rests.
Calm(s, t) ==
  /\ OwnersIn(t, {"dialog"}) \subseteq OwnersIn(s, {"dialog"})
  /\ ExclusiveIn(t) => t.shown = s.shown

Steady(s, t) == t.held = s.held /\ t.made = s.made /\ t.alt = s.alt

LEMMA CalmTrans ==
  ASSUME NEW s, NEW t, NEW u, Calm(s, t), Calm(t, u)
  PROVE  Calm(s, u)
BY DEF Calm, ExclusiveIn

LEMMA LinesIs == ASSUME NEW s \in Screens PROVE Lines(s) \in Numbers
<1>1. PICK n \in Nat : n = s.made
  BY DEF Screens
<1>2. [k \in 1..n |-> k] \in Seq(Nat)
  <2>1. \A k \in 1..n : k \in Nat
    OBVIOUS
  <2>. QED BY <2>1
<1>. QED BY <1>1, <1>2 DEF Lines, Numbers

LEMMA DialogOwners ==
  ASSUME NEW s, NEW t, ToSet(t.owners) = ToSet(s.owners)
  PROVE  \A kinds : OwnersIn(t, kinds) = OwnersIn(s, kinds)
BY DEF OwnersIn

LEMMA DrawnIs ==
  ASSUME NEW s \in Screens
  PROVE  /\ Drawn(s) \in Screens /\ Drawn(s).owners = s.owners /\ Steady(s, Drawn(s))
         /\ Drawn(s).raw = s.raw /\ Drawn(s).shown = Lines(Drawn(s)) /\ ~Drawn(s).due
         /\ Drawn(s).queue = s.queue
<1>1. PICK q \in Numbers : q = Lines(s)
  BY LinesIs
<1>. DEFINE t == [s EXCEPT !.shown = q, !.due = FALSE]
<1>2. /\ t \in Screens /\ t.owners = s.owners /\ t.held = s.held /\ t.made = s.made
      /\ t.alt = s.alt /\ t.raw = s.raw /\ t.shown = q /\ t.due = FALSE /\ t.queue = s.queue
  BY DEF Screens
<1>3. Drawn(s) = t
  BY <1>1 DEF Drawn
<1>. HIDE DEF t
<1>4. Lines(t) = q
  BY <1>1, <1>2 DEF Lines
<1>. QED BY <1>2, <1>3, <1>4 DEF Steady

LEMMA AppendSet ==
  ASSUME NEW os \in OwnerSeqs, NEW e \in Owner
  PROVE  /\ Append(os, e) \in OwnerSeqs /\ ToSet(Append(os, e)) = ToSet(os) \cup {e}
         /\ Append(os, e) # <<>>
<1>1. PICK m \in Nat : m = Len(os) /\ DOMAIN os = 1..m
  BY DEF OwnerSeqs
<1>2. Append(os, e) \in Seq(Owner)
  BY DEF OwnerSeqs
<1>3. PICK p \in Seq(Owner) : p = Append(os, e)
  BY <1>2
<1>4. DOMAIN p = 1..m + 1 /\ p[m + 1] = e /\ (\A i \in 1..m : p[i] = os[i]) /\ p # <<>>
  BY <1>1, <1>3 DEF OwnerSeqs
<1>5. 1..m + 1 = 1..m \cup {m + 1}
  OBVIOUS
<1>6. ToSet(p) = ToSet(os) \cup {e}
  BY <1>1, <1>4, <1>5 DEF ToSet
<1>. QED BY <1>2, <1>3, <1>4, <1>6 DEF OwnerSeqs

\* acquireLive adds an owner and loses no line.
LEMMA AcquiredIs ==
  ASSUME NEW s \in Screens, NEW e \in Owner, s.held, ScreenSound(s)
  PROVE  LET t == Acquired(s, e)
         IN  /\ t \in Screens /\ ToSet(t.owners) = ToSet(s.owners) \cup {e} /\ Steady(s, t)
             /\ t.owners # <<>> /\ t.raw = t.held /\ ScreenSound(t)
             /\ e.kind # "dialog" => Calm(s, t)
<1>1. PICK os \in OwnerSeqs : os = Append(s.owners, e) /\ os # <<>>
                               /\ ToSet(os) = ToSet(s.owners) \cup {e}
  <2>1. s.owners \in OwnerSeqs
    BY DEF Screens
  <2>. QED BY <2>1, AppendSet
<1>. DEFINE u == [s EXCEPT !.owners = os, !.raw = s.held]
<1>2. /\ u \in Screens /\ u.owners = os /\ u.raw = s.held /\ u.held = s.held /\ u.made = s.made
      /\ u.alt = s.alt /\ u.shown = s.shown /\ u.due = s.due /\ u.queue = s.queue
  BY DEF Screens
<1>. DEFINE w == [u EXCEPT !.due = TRUE]
<1>3. /\ w \in Screens /\ w.owners = os /\ w.raw = s.held /\ w.held = s.held /\ w.made = s.made
      /\ w.alt = s.alt /\ w.shown = s.shown /\ w.due = TRUE /\ w.queue = s.queue
  BY <1>2 DEF Screens
<1>4. Acquired(s, e) = CASE ~s.alt -> u [] s.alt /\ e.kind = "dialog" -> Drawn(u) [] OTHER -> w
  BY <1>1 DEF Acquired
<1>. HIDE DEF w, u
<1>5. ExclusiveIn(s) => \A t : t.owners = os => ExclusiveIn(t)
  BY <1>1 DEF ExclusiveIn, OwnersIn
<1>6. e.kind # "dialog" => \A t : t.owners = os => OwnersIn(t, {"dialog"}) = OwnersIn(s, {"dialog"})
  BY <1>1 DEF OwnersIn
<1>7. CASE ~s.alt
  <2>1. Acquired(s, e) = u
    BY <1>4, <1>7
  <2>2. ScreenSound(u)
    BY <1>2, <1>5, <1>7 DEF ScreenSound, Lines
  <2>3. e.kind # "dialog" => Calm(s, u)
    BY <1>2, <1>6 DEF Calm
  <2>. QED BY <1>1, <1>2, <2>1, <2>2, <2>3 DEF Steady
<1>8. CASE s.alt /\ e.kind = "dialog"
  <2>1. Acquired(s, e) = Drawn(u)
    BY <1>4, <1>8
  <2>2. PICK d \in Screens : d = Drawn(u) /\ d.owners = os /\ Steady(u, d) /\ d.raw = u.raw
                             /\ d.shown = Lines(d)
    BY <1>2, DrawnIs
  <2>3. d.alt = s.alt /\ d.held = s.held
    BY <1>2, <2>2 DEF Steady
  <2>4. ScreenSound(d)
    BY <1>8, <2>2, <2>3 DEF ScreenSound
  <2>. QED BY <1>1, <1>2, <1>8, <2>1, <2>2, <2>4 DEF Steady
<1>9. CASE s.alt /\ e.kind # "dialog"
  <2>1. Acquired(s, e) = w
    BY <1>4, <1>9
  <2>2. ScreenSound(w)
    BY <1>3, <1>9 DEF ScreenSound
  <2>3. Calm(s, w)
    BY <1>3, <1>6, <1>9 DEF Calm
  <2>. QED BY <1>1, <1>3, <2>1, <2>2, <2>3 DEF Steady
<1>. QED BY <1>7, <1>8, <1>9

\* The release takes the owners away and loses no line.
LEMMA ReleasedIs ==
  ASSUME NEW s \in Screens, NEW es, s.held, ScreenSound(s)
  PROVE  LET t == Released(s, es)
         IN  /\ t \in Screens /\ ToSet(t.owners) = ToSet(s.owners) \ es /\ Steady(s, t)
             /\ (es # {} \/ s.raw = s.held) => t.raw = t.held
             /\ ScreenSound(t) /\ Calm(s, t)
<1>1. PICK os \in OwnerSeqs : os = Without(s.owners, es) /\ ToSet(os) = ToSet(s.owners) \ es
  <2>1. s.owners \in Seq(Owner)
    BY DEF Screens, OwnerSeqs
  <2>. QED BY <2>1, WithoutIs DEF OwnerSeqs
<1>. DEFINE u == [s EXCEPT !.owners = os, !.raw = s.held]
            w == [u EXCEPT !.queue = <<>>]
<1>2. /\ u \in Screens /\ u.owners = os /\ u.raw = s.held /\ u.held = s.held /\ u.made = s.made
      /\ u.alt = s.alt /\ u.shown = s.shown /\ u.due = s.due /\ u.queue = s.queue
  BY DEF Screens
<1>3. <<>> \in Numbers /\ s.shown \in Numbers /\ s.queue \in Numbers
  BY DEF Screens, Numbers
<1>4. /\ w \in Screens /\ w.owners = os /\ w.raw = s.held /\ w.held = s.held /\ w.made = s.made
      /\ w.alt = s.alt /\ w.shown = s.shown /\ w.due = s.due /\ w.queue = <<>>
  BY <1>2, <1>3 DEF Screens
<1>5. PICK q \in Numbers : q = s.shown \o s.queue
  <2>1. s.shown \o s.queue \in Numbers
    BY <1>3 DEF Numbers
  <2>. QED BY <2>1
<1>. DEFINE x == [u EXCEPT !.shown = q, !.queue = <<>>]
<1>6. /\ x \in Screens /\ x.owners = os /\ x.raw = s.held /\ x.held = s.held /\ x.made = s.made
      /\ x.alt = s.alt /\ x.shown = q /\ x.due = s.due /\ x.queue = <<>>
  BY <1>2, <1>3 DEF Screens
<1>7. Released(s, es) = CASE es = {} -> s
                          [] es # {} /\ ExclusiveIn(u) -> u
                          [] es # {} /\ ~ExclusiveIn(u) /\ u.alt -> Drawn(w)
                          [] OTHER -> x
  <2>1. u = [s EXCEPT !.owners = Without(@, es), !.raw = s.held]
    BY <1>1
  <2>2. x = [u EXCEPT !.shown = @ \o u.queue, !.queue = <<>>]
    BY <1>2, <1>5
  <2>. HIDE DEF x, u
  <2>. QED BY <2>1, <2>2 DEF Released
<1>. HIDE DEF u, w, x
<1>8. \A t : t.owners = os => OwnersIn(t, {"dialog"}) \subseteq OwnersIn(s, {"dialog"})
  BY <1>1 DEF OwnersIn
<1>9. \A t : t.owners = os => (ExclusiveIn(t) <=> ExclusiveIn(u))
  BY <1>2 DEF ExclusiveIn, OwnersIn
<1>10. CASE es = {}
  <2>1. Released(s, es) = s
    BY <1>7, <1>10
  <2>. QED BY <1>10, <2>1 DEF Steady, Calm
<1>11. CASE es # {} /\ ExclusiveIn(u)
  <2>1. Released(s, es) = u
    BY <1>7, <1>11
  <2>2. ScreenSound(u)
    BY <1>2, <1>11 DEF ScreenSound, Lines
  <2>3. Calm(s, u)
    BY <1>2, <1>8 DEF Calm
  <2>. QED BY <1>1, <1>2, <2>1, <2>2, <2>3 DEF Steady
<1>12. CASE es # {} /\ ~ExclusiveIn(u) /\ s.alt
  <2>1. Released(s, es) = Drawn(w)
    BY <1>2, <1>7, <1>12
  <2>2. PICK d \in Screens : d = Drawn(w) /\ d.owners = os /\ Steady(w, d) /\ d.raw = w.raw
                             /\ d.shown = Lines(d)
    BY <1>4, DrawnIs
  <2>3. d.alt = s.alt /\ d.held = s.held /\ d.made = s.made
    BY <1>4, <2>2 DEF Steady
  <2>4. ScreenSound(d)
    BY <1>12, <2>2, <2>3 DEF ScreenSound
  <2>5. Calm(s, d)
    BY <1>8, <1>9, <1>12, <2>2 DEF Calm
  <2>. QED BY <1>1, <1>4, <2>1, <2>2, <2>3, <2>4, <2>5 DEF Steady
<1>13. CASE es # {} /\ ~ExclusiveIn(u) /\ ~s.alt
  <2>1. Released(s, es) = x
    BY <1>2, <1>7, <1>13
  <2>2. q = Lines(x) /\ ~x.due
    BY <1>5, <1>6, <1>13 DEF ScreenSound, Lines
  <2>3. q \o <<>> = q
    BY DEF Numbers
  <2>4. ScreenSound(x)
    BY <1>6, <1>13, <2>2, <2>3 DEF ScreenSound
  <2>5. Calm(s, x)
    BY <1>6, <1>8, <1>9, <1>13 DEF Calm
  <2>. QED BY <1>1, <1>6, <2>1, <2>4, <2>5 DEF Steady
<1>. QED BY <1>10, <1>11, <1>12, <1>13

Blank(e) == [e EXCEPT !.draft = "none"]

LEMMA BlankIs ==
  ASSUME NEW e \in Owner
  PROVE  /\ Blank(e) \in Owner /\ Blank(e).kind = e.kind /\ Blank(e).of = e.of
         /\ Blank(e).draft = "none" /\ (e.draft = "none" => Blank(e) = e)
BY DEF Owner, Blank

LEMMA EmptiedIs ==
  ASSUME NEW s \in Screens, s.held, ScreenSound(s), OwnersSound(s)
  PROVE  LET t == Emptied(s)
         IN  /\ t \in Screens /\ ToSet(t.owners) = {Blank(e) : e \in ToSet(s.owners)}
             /\ Steady(s, t) /\ t.raw = s.raw /\ ScreenSound(t) /\ Calm(s, t)
<1>1. PICK m \in Nat : m = Len(s.owners) /\ s.owners \in Seq(Owner) /\ DOMAIN s.owners = 1..m
  BY DEF Screens, OwnerSeqs
<1>2. \A k \in 1..m : s.owners[k] \in Owner
  BY <1>1
<1>. DEFINE os == [k \in 1..m |-> Blank(s.owners[k])]
<1>3. os \in OwnerSeqs
  <2>1. \A k \in 1..m : Blank(s.owners[k]) \in Owner
    BY <1>2, BlankIs
  <2>2. os \in [1..m -> Owner]
    BY <2>1
  <2>. HIDE DEF os
  <2>. QED BY <2>2 DEF OwnerSeqs
<1>4. ToSet(os) = {Blank(e) : e \in ToSet(s.owners)}
  BY <1>1 DEF ToSet
<1>5. os = [k \in DOMAIN s.owners |-> [s.owners[k] EXCEPT !.draft = "none"]]
  BY <1>1 DEF Blank
<1>. HIDE DEF os
<1>. DEFINE u == [s EXCEPT !.owners = os]
<1>6. /\ u \in Screens /\ u.owners = os /\ u.raw = s.raw /\ u.held = s.held /\ u.made = s.made
      /\ u.alt = s.alt /\ u.shown = s.shown /\ u.due = s.due /\ u.queue = s.queue
  BY <1>3 DEF Screens
<1>7. Emptied(s) = u
  BY <1>5 DEF Emptied
<1>. HIDE DEF u
<1>8. ToSet(s.owners) \subseteq Owner
  BY <1>1, <1>2 DEF ToSet
<1>9. OwnersIn(u, {"dialog"}) = OwnersIn(s, {"dialog"})
  <2>1. \A e \in ToSet(s.owners) : e.kind = "dialog" => Blank(e) = e
    BY <1>8, BlankIs DEF OwnersSound, OwnerSound
  <2>. QED BY <1>4, <1>6, <1>8, <2>1, BlankIs DEF OwnersIn
<1>10. ScreenSound(u)
  BY <1>6, <1>9 DEF ScreenSound, Lines, ExclusiveIn
<1>11. Calm(s, u)
  BY <1>6, <1>9 DEF Calm
<1>. QED BY <1>4, <1>6, <1>7, <1>10, <1>11 DEF Steady

LEMMA DialogOverIs ==
  ASSUME NEW s \in Screens, NEW ds, s.held, s.raw = s.held, ScreenSound(s)
  PROVE  LET t == DialogOver(s, ds)
         IN  /\ t \in Screens /\ ToSet(t.owners) = ToSet(s.owners) \ ds /\ Steady(s, t)
             /\ t.raw = t.held /\ ScreenSound(t) /\ Calm(s, t)
<1>1. PICK b \in BOOLEAN : b = IF ds = {} THEN s.raw ELSE FALSE
  BY DEF Screens
<1>. DEFINE u == [s EXCEPT !.raw = b]
<1>2. /\ u \in Screens /\ u.owners = s.owners /\ u.raw = b /\ u.held = s.held /\ u.made = s.made
      /\ u.alt = s.alt /\ u.shown = s.shown /\ u.due = s.due /\ u.queue = s.queue
  BY DEF Screens
<1>3. DialogOver(s, ds) = Released(u, ds)
  BY <1>1 DEF DialogOver
<1>. HIDE DEF u
<1>4. ScreenSound(u)
  BY <1>2 DEF ScreenSound, Lines, ExclusiveIn, OwnersIn
<1>5. PICK t \in Screens : /\ t = Released(u, ds) /\ ToSet(t.owners) = ToSet(u.owners) \ ds
                           /\ Steady(u, t) /\ (ds # {} \/ u.raw = u.held => t.raw = t.held)
                           /\ ScreenSound(t) /\ Calm(u, t)
  BY <1>2, <1>4, ReleasedIs
<1>6. t.raw = t.held
  BY <1>1, <1>2, <1>5
<1>7. Calm(s, t) /\ Steady(s, t)
  BY <1>2, <1>5 DEF Calm, Steady, OwnersIn
<1>. QED BY <1>2, <1>3, <1>5, <1>6, <1>7

LEMMA GivenBackIs ==
  ASSUME NEW s \in Screens, s.held, ScreenSound(s)
  PROVE  LET t == ScreenGivenBack(s)
         IN  /\ t \in Screens /\ t.owners = <<>> /\ ~t.held /\ t.made = s.made
             /\ ScreenSound(t) /\ Calm(s, t)
<1>1. PICK q \in Numbers : q = IF s.alt THEN Lines(s) ELSE s.shown \o s.queue
  <2>1. s.shown \in Numbers /\ s.queue \in Numbers
    BY DEF Screens
  <2>2. s.shown \o s.queue \in Numbers
    BY <2>1 DEF Numbers
  <2>. QED BY <2>2, LinesIs
<1>2. q = Lines(s) \/ s.alt
  BY <1>1 DEF ScreenSound
<1>3. <<>> \in Numbers /\ <<>> \in OwnerSeqs
  BY DEF Numbers, OwnerSeqs
<1>. DEFINE u == [s EXCEPT !.owners = <<>>, !.held = FALSE, !.raw = FALSE, !.due = FALSE,
                           !.queue = <<>>, !.shown = q]
<1>4. /\ u \in Screens /\ u.owners = <<>> /\ u.held = FALSE /\ u.made = s.made /\ u.shown = q
  BY <1>3 DEF Screens
<1>5. ScreenGivenBack(s) = u
  BY <1>1 DEF ScreenGivenBack
<1>. HIDE DEF u
<1>6. u.shown = Lines(u)
  BY <1>1, <1>2, <1>4 DEF Lines
<1>7. ScreenSound(u)
  BY <1>4, <1>6 DEF ScreenSound
<1>8. Calm(s, u)
  BY <1>4 DEF Calm, ExclusiveIn, OwnersIn, ToSet
<1>. QED BY <1>4, <1>5, <1>7, <1>8

(***************************************************************************)
(* The inductive invariant.                                                *)
(***************************************************************************)
ShellPcs     == {"prompt", "command", "attempt", "turn", "drain", "out"}
Waiting == Seq(Inputs)
Shells  == [pc : ShellPcs, drains : BOOLEAN, busy : BOOLEAN, later : Waiting]
Turn    == [from : {"repl", "schedule", "remote"}, at : {"waits", "runs", "reports", "over"}]
TurnSeqs == Seq(Turn)
Tallies == [Inputs -> Nat]
Talks   == [aborted : BOOLEAN, steering : Waiting, taken : Tallies, entered : Tallies,
            deaf : SUBSET Nat]

\* InProgress of some turns.
Going(ts) == {i \in DOMAIN ts : ts[i].from # "remote" /\ ts[i].at # "over"}

TermTypes ==
  /\ screen \in Screens /\ screen.made <= MaxEvents
  /\ turns \in TurnSeqs /\ line \in Numbers /\ ToSet(line) \subseteq DOMAIN turns
  /\ watch \in 0..Len(turns)
  /\ shell \in Shells /\ talk \in Talks

\* Who is there to hear a key.
Present(s, sh, ts, w, tk) ==
  /\ s.held <=> sh.pc # "out"
  /\ s.held => s.raw
  /\ sh.pc = "prompt" => OwnersIn(s, {"prompt"}) # {}
  /\ sh.pc = "turn" => \E i \in Going(ts) : ts[i].from = "repl"
  /\ \A e \in OwnersIn(s, {"composer"}) : e.of \in Going(ts)
  /\ Going(ts) # {} => w # 0 \/ tk.deaf \cap Going(ts) # {}
  /\ tk.steering # <<>> => Going(ts) # {}

\* A text is counted where it is.
Counted(sh, tk) ==
  \A x \in Inputs : Times(x, tk.steering) + Times(x, sh.later) + tk.taken[x] = tk.entered[x]

\* A text that is being typed was not entered yet.
Drafted(s, tk) ==
  \A e \in ToSet(s.owners) : e.draft # "none" => tk.entered[e.draft] = 0

TermInv ==
  /\ TermTypes /\ OwnersSound(screen) /\ ScreenSound(screen)
  /\ Present(screen, shell, turns, watch, talk) /\ Counted(shell, talk) /\ Drafted(screen, talk)

\* While dialogs are open and no other opens, the screen rests.
Rests(s, t) ==
  ExclusiveIn(t) /\ OwnersIn(t, {"dialog"}) \subseteq OwnersIn(s, {"dialog"})
    => t.shown = s.shown

LEMMA CalmRests == ASSUME NEW s, NEW t, Calm(s, t) PROVE Rests(s, t)
BY DEF Calm, Rests

LEMMA GoingIs == InProgress = Going(turns)
BY DEF InProgress, Going

\* The owners of a screen are well formed and finitely many.
LEMMA OwnersAre ==
  ASSUME NEW s \in Screens
  PROVE  /\ ToSet(s.owners) \subseteq Owner /\ IsFiniteSet(ToSet(s.owners))
         /\ s.owners # <<>> => ToSet(s.owners) # {}
<1>1. PICK m \in Nat : m = Len(s.owners) /\ s.owners \in Seq(Owner) /\ DOMAIN s.owners = 1..m
  BY DEF Screens, OwnerSeqs
<1>2. PICK os : os = s.owners
  OBVIOUS
<1>3. ToSet(os) = {os[k] : k \in 1..m} /\ \A k \in 1..m : os[k] \in Owner
  BY <1>1, <1>2 DEF ToSet
<1>4. IsFiniteSet({os[k] : k \in 1..m})
  <2>1. IsFiniteSet(1..m)
    BY FS_Interval
  <2>2. PICK f : f = [k \in 1..m |-> os[k]]
    OBVIOUS
  <2>3. f \in Surjection(1..m, {os[k] : k \in 1..m})
    <3>1. f \in [1..m -> {os[k] : k \in 1..m}]
      BY <2>2
    <3>2. \A y \in {os[k] : k \in 1..m} : \E k \in 1..m : f[k] = y
      BY <2>2
    <3>. QED BY <3>1, <3>2, Fun_IsSurj
  <2>. QED BY <2>1, <2>3, FS_Surjection
<1>5. os # <<>> => m # 0
  BY <1>1, <1>2
<1>. QED BY <1>2, <1>3, <1>4, <1>5

\* A turn joins the turns, and its run the queue.
LEMMA TurnJoins ==
  ASSUME TermTypes, NEW tn \in Turn, turns' = Append(turns, tn), line' = Append(line, Len(turns) + 1)
  PROVE  LET i == Len(turns) + 1
         IN  /\ turns' \in TurnSeqs /\ Len(turns') = i /\ i \in DOMAIN turns' /\ turns'[i] = tn
             /\ \A j \in DOMAIN turns : j \in DOMAIN turns' /\ turns'[j] = turns[j]
             /\ Going(turns') = Going(turns) \cup
                                (IF tn.from # "remote" /\ tn.at # "over" THEN {i} ELSE {})
             /\ line' \in Numbers /\ ToSet(line') \subseteq DOMAIN turns'
             /\ i \in Nat /\ i # 0 /\ \A w \in 0..Len(turns) : w \in 0..i
<1>1. PICK n \in Nat : n = Len(turns) /\ turns \in Seq(Turn) /\ DOMAIN turns = 1..n
  BY DEF TermTypes, TurnSeqs
<1>. DEFINE i == n + 1
<1>2. PICK ts \in Seq(Turn) : ts = Append(turns, tn)
  <2>1. Append(turns, tn) \in Seq(Turn)
    BY <1>1
  <2>. QED BY <2>1
<1>3. /\ Len(ts) = i /\ DOMAIN ts = 1..i /\ ts[i] = tn /\ \A j \in 1..n : ts[j] = turns[j]
  BY <1>1, <1>2
<1>4. Going(ts) = Going(turns) \cup (IF tn.from # "remote" /\ tn.at # "over" THEN {i} ELSE {})
  <2>1. 1..i = 1..n \cup {i}
    OBVIOUS
  <2>. QED BY <1>1, <1>3, <2>1 DEF Going
<1>5. line' \in Numbers /\ ToSet(line') \subseteq 1..i
  <2>1. PICK ln \in Seq(Nat), m \in Nat : ln = line /\ m = Len(ln) /\ DOMAIN ln = 1..m
    BY DEF TermTypes, Numbers
  <2>2. \A k \in 1..m : ln[k] \in 1..n
    BY <1>1, <2>1 DEF TermTypes, ToSet
  <2>3. Append(ln, i) \in Seq(Nat)
    BY <2>1
  <2>4. PICK p \in Seq(Nat) : p = Append(ln, i)
    BY <2>3
  <2>5. DOMAIN p = 1..m + 1 /\ p[m + 1] = i /\ \A k \in 1..m : p[k] = ln[k]
    BY <2>1, <2>4
  <2>6. \A k \in 1..m + 1 : p[k] \in 1..i
    <3>1. \A k \in 1..m : p[k] \in 1..i
      <4>1. \A j \in 1..n : j \in 1..i
        OBVIOUS
      <4>. QED BY <2>2, <2>5, <4>1
    <3>2. p[m + 1] \in 1..i
      BY <2>5
    <3>3. \A k \in 1..m + 1 : k \in 1..m \/ k = m + 1
      OBVIOUS
    <3>. QED BY <3>1, <3>2, <3>3
  <2>. QED BY <1>1, <2>1, <2>4, <2>5, <2>6 DEF Numbers, ToSet
<1>6. i \in 1..i /\ \A j \in 1..n : j \in 1..i
  OBVIOUS
<1>. QED BY <1>1, <1>2, <1>3, <1>4, <1>5, <1>6 DEF TurnSeqs

\* A turn starts: its composer, its watcher, its place in the queue.
LEMMA Started ==
  ASSUME TermTypes, NEW s \in Screens, s.held, ScreenSound(s), NEW sh \in Shells,
         NEW from \in {"repl", "schedule"}, StartsTurn(s, sh, from)
  PROVE  LET i == Len(turns) + 1
         IN  /\ screen' \in Screens /\ Steady(s, screen') /\ screen'.raw = screen'.held
             /\ ScreenSound(screen') /\ Calm(s, screen')
             /\ ToSet(screen'.owners) = ToSet(s.owners) \cup {Composer(i)}
             /\ turns' \in TurnSeqs /\ Going(turns') = Going(turns) \cup {i}
             /\ i \in DOMAIN turns' /\ turns'[i].from = from
             /\ \A j \in DOMAIN turns : j \in DOMAIN turns' /\ turns'[j] = turns[j]
             /\ line' \in Numbers /\ ToSet(line') \subseteq DOMAIN turns'
             /\ watch' = i /\ i \in Nat /\ i # 0 /\ watch' \in 0..Len(turns')
             /\ shell' \in Shells /\ shell'.later = sh.later
             /\ shell'.pc = IF from = "repl" THEN "turn" ELSE sh.pc
<1>1. PICK i \in Nat : i = Len(turns) + 1
  <2>1. Len(turns) \in Nat
    BY DEF TermTypes, TurnSeqs
  <2>. QED BY <2>1
<1>2. PICK tn \in Turn : tn = [from |-> from, at |-> "waits"]
  BY DEF Turn
<1>3. /\ turns' = Append(turns, tn) /\ line' = Append(line, Len(turns) + 1) /\ watch' = i
      /\ screen' = Acquired(s, Composer(i))
  BY <1>1, <1>2 DEF StartsTurn
<1>4. /\ turns' \in TurnSeqs /\ Len(turns') = i /\ i \in DOMAIN turns' /\ turns'[i] = tn
      /\ \A j \in DOMAIN turns : j \in DOMAIN turns' /\ turns'[j] = turns[j]
      /\ Going(turns') = Going(turns) \cup (IF tn.from # "remote" /\ tn.at # "over" THEN {i} ELSE {})
      /\ line' \in Numbers /\ ToSet(line') \subseteq DOMAIN turns'
      /\ i # 0
  BY <1>1, <1>3, TurnJoins
<1>5. Going(turns') = Going(turns) \cup {i} /\ turns'[i].from = from
  BY <1>2, <1>4
<1>7. PICK e \in Owner : e = Composer(i) /\ e.kind = "composer"
  <2>1. i \in Nat \cup {"command", "run"} /\ "none" \in Inputs \cup {"none"} /\ "composer" \in OwnerKinds
    BY DEF OwnerKinds
  <2>2. Composer(i) \in Owner
    BY <2>1 DEF Composer, Owner
  <2>. QED BY <2>2 DEF Composer
<1>8. PICK t \in Screens : /\ t = Acquired(s, e) /\ ToSet(t.owners) = ToSet(s.owners) \cup {e}
                           /\ Steady(s, t) /\ t.raw = t.held /\ ScreenSound(t)
                           /\ (e.kind # "dialog" => Calm(s, t))
  BY AcquiredIs
<1>9. shell' \in Shells /\ shell'.later = sh.later
       /\ shell'.pc = IF from = "repl" THEN "turn" ELSE sh.pc
  <2>1. PICK pc \in ShellPcs : pc = IF from = "repl" THEN "turn" ELSE sh.pc
    BY DEF Shells, ShellPcs
  <2>2. shell' = [sh EXCEPT !.busy = TRUE, !.pc = pc]
    BY <2>1 DEF StartsTurn
  <2>. QED BY <2>1, <2>2 DEF Shells
<1>10. watch' \in 0..Len(turns')
  BY <1>3, <1>4
<1>. QED BY <1>1, <1>3, <1>4, <1>5, <1>7, <1>8, <1>9, <1>10

\* What the invariant says of one owner.
OwnerFits(e, ts, tk) ==
  /\ OwnerSound(e)
  /\ e.kind = "composer" => e.of \in Going(ts)
  /\ e.draft # "none" => tk.entered[e.draft] = 0

LEMMA Fits ==
  ASSUME TermInv
  PROVE  \A e \in ToSet(screen.owners) : e \in Owner /\ OwnerFits(e, turns, talk)
<1>1. ToSet(screen.owners) \subseteq Owner
  BY OwnersAre DEF TermInv, TermTypes
<1>. QED BY <1>1 DEF TermInv, OwnersSound, Present, Drafted, OwnerFits, OwnersIn

\* A step of the screen alone.
LEMMA OnlyScreen ==
  ASSUME TermInv, NEW t \in Screens, screen' = t, UNCHANGED <<watch, shell, turns, line, talk>>,
         t.made <= MaxEvents, t.held = screen.held, t.held => t.raw,
         ScreenSound(t), Rests(screen, t),
         \A e \in ToSet(t.owners) : OwnerFits(e, turns, talk),
         OwnersIn(screen, {"prompt"}) # {} => OwnersIn(t, {"prompt"}) # {}
  PROVE  TermInv' /\ Rests(screen, screen')
<1>1. TermTypes'
  BY DEF TermInv, TermTypes
<1>2. OwnersSound(t) /\ Drafted(t, talk)
  BY DEF OwnersSound, Drafted, OwnerFits
<1>3. Present(t, shell, turns, watch, talk)
  <2>1. \A e \in OwnersIn(t, {"composer"}) : e.of \in Going(turns)
    BY DEF OwnersIn, OwnerFits
  <2>. QED BY <2>1 DEF TermInv, Present
<1>. QED BY <1>1, <1>2, <1>3 DEF TermInv

\* The release of owners other than the prompt.
LEMMA OnlyRelease ==
  ASSUME TermInv, NEW t \in Screens, screen' = t, UNCHANGED <<watch, shell, turns, line, talk>>,
         Steady(screen, t), t.held => t.raw, ScreenSound(t), Calm(screen, t),
         ToSet(t.owners) \subseteq ToSet(screen.owners),
         \A e \in ToSet(screen.owners) : e.kind = "prompt" => e \in ToSet(t.owners)
  PROVE  TermInv' /\ Rests(screen, screen')
<1>1. \A e \in ToSet(t.owners) : OwnerFits(e, turns, talk)
  BY Fits
<1>2. OwnersIn(screen, {"prompt"}) # {} => OwnersIn(t, {"prompt"}) # {}
  BY DEF OwnersIn
<1>3. t.made <= MaxEvents /\ t.held = screen.held
  BY DEF Steady, TermInv, TermTypes
<1>. QED BY <1>1, <1>2, <1>3, CalmRests, OnlyScreen

LEMMA LinesGrow ==
  ASSUME NEW s \in Screens, NEW t \in Screens, t.made = s.made + 1
  PROVE  Lines(t) = Append(Lines(s), t.made)
<1>1. PICK n \in Nat : n = s.made
  BY DEF Screens
<1>2. Append([k \in 1..n |-> k], n + 1) = [k \in 1..n + 1 |-> k]
  OBVIOUS
<1>. QED BY <1>1, <1>2 DEF Lines

LEMMA WriteStep == ASSUME TermInv, Alive, Write PROVE TermInv' /\ Rests(screen, screen')
<1>1. PICK s \in Screens : s = screen /\ s.held /\ ScreenSound(s) /\ s.made \in Nat /\ s.raw
                           /\ s.shown \in Seq(Nat) /\ s.queue \in Seq(Nat)
  BY DEF TermInv, TermTypes, Alive, Present, Screens, Numbers
<1>2. PICK n \in Nat : n = s.made + 1 /\ n <= MaxEvents
  <2>1. PICK l \in Nat : l = Len(turns)
    BY DEF TermInv, TermTypes, TurnSeqs
  <2>. QED BY <1>1, <2>1, TerminalConstants DEF Write, MoreEvents
<1>3. PICK sn \in Seq(Nat), qn \in Seq(Nat) : sn = Append(s.shown, n) /\ qn = Append(s.queue, n)
  <2>1. Append(s.shown, n) \in Seq(Nat) /\ Append(s.queue, n) \in Seq(Nat)
    BY <1>1
  <2>. QED BY <2>1
<1>. DEFINE a == [s EXCEPT !.made = n, !.queue = qn]
            b == [s EXCEPT !.made = n, !.due = TRUE]
            c == [s EXCEPT !.made = n, !.shown = sn]
<1>4. /\ a \in Screens /\ a.made = n /\ a.queue = qn /\ a.shown = s.shown /\ a.due = s.due
      /\ a.owners = s.owners /\ a.held = s.held /\ a.raw = s.raw /\ a.alt = s.alt
  BY <1>3 DEF Screens, Numbers
<1>5. /\ b \in Screens /\ b.made = n /\ b.queue = s.queue /\ b.shown = s.shown /\ b.due = TRUE
      /\ b.owners = s.owners /\ b.held = s.held /\ b.raw = s.raw /\ b.alt = s.alt
  BY DEF Screens
<1>6. /\ c \in Screens /\ c.made = n /\ c.queue = s.queue /\ c.shown = sn /\ c.due = s.due
      /\ c.owners = s.owners /\ c.held = s.held /\ c.raw = s.raw /\ c.alt = s.alt
  BY <1>3 DEF Screens, Numbers
<1>7. screen' = CASE ExclusiveIn(s) -> a [] ~ExclusiveIn(s) /\ s.alt -> b [] OTHER -> c
  <2>1. a = [[s EXCEPT !.made = n] EXCEPT !.queue = Append(@, n)]
    BY <1>3 DEF Screens
  <2>2. b = [[s EXCEPT !.made = n] EXCEPT !.due = TRUE]
    OBVIOUS
  <2>3. c = [[s EXCEPT !.made = n] EXCEPT !.shown = Append(@, n)]
    BY <1>3 DEF Screens
  <2>4. [s EXCEPT !.made = n].alt = s.alt
    BY DEF Screens
  <2>. HIDE DEF a, b, c
  <2>. QED BY <1>1, <1>2, <2>1, <2>2, <2>3, <2>4 DEF Write, Exclusive
<1>. HIDE DEF a, b, c
<1>8. \A t : t.owners = s.owners => /\ (ExclusiveIn(t) <=> ExclusiveIn(s))
                                    /\ OwnersIn(t, {"prompt"}) = OwnersIn(s, {"prompt"})
  BY DEF ExclusiveIn, OwnersIn
<1>9. \A t : t.made = n /\ t \in Screens => Lines(t) = Append(Lines(s), n)
  BY <1>2, LinesGrow
<1>10. UNCHANGED <<watch, shell, turns, line, talk>>
  BY DEF Write
<1>11. \A t : t.owners = s.owners => \A e \in ToSet(t.owners) : OwnerFits(e, turns, talk)
  BY <1>1, Fits
<1>12. CASE ExclusiveIn(s)
  <2>1. screen' = a
    BY <1>7, <1>12
  <2>2. ScreenSound(a)
    <3>1. CASE s.alt
      BY <1>1, <1>4, <1>8, <1>12, <3>1 DEF ScreenSound
    <3>2. CASE ~s.alt
      <4>1. s.shown \o s.queue = Lines(s) /\ ~s.due
        BY <1>1, <3>2 DEF ScreenSound
      <4>2. s.shown \o qn = Append(s.shown \o s.queue, n)
        <5>1. PICK x \in Seq(Nat), y \in Seq(Nat) : x = s.shown /\ y = s.queue
          BY <1>1
        <5>2. x \o Append(y, n) = Append(x \o y, n)
          OBVIOUS
        <5>. QED BY <1>3, <5>1, <5>2
      <4>. QED BY <1>1, <1>4, <1>8, <1>9, <1>12, <3>2, <4>1, <4>2 DEF ScreenSound
    <3>. QED BY <3>1, <3>2
  <2>3. Rests(s, a)
    BY <1>4 DEF Rests
  <2>. QED BY <1>1, <1>2, <1>4, <1>8, <1>10, <1>11, <2>1, <2>2, <2>3, OnlyScreen
<1>13. CASE ~ExclusiveIn(s) /\ s.alt
  <2>1. screen' = b
    BY <1>7, <1>13
  <2>2. ScreenSound(b)
    BY <1>1, <1>5, <1>13 DEF ScreenSound
  <2>3. Rests(s, b)
    BY <1>5 DEF Rests
  <2>. QED BY <1>1, <1>2, <1>5, <1>8, <1>10, <1>11, <2>1, <2>2, <2>3, OnlyScreen
<1>14. CASE ~ExclusiveIn(s) /\ ~s.alt
  <2>1. screen' = c
    BY <1>7, <1>14
  <2>2. ScreenSound(c)
    <3>1. s.shown \o s.queue = Lines(s) /\ ~s.due /\ s.queue = <<>>
      BY <1>1, <1>14 DEF ScreenSound
    <3>2. s.shown \o <<>> = s.shown /\ sn \o <<>> = sn
      BY <1>1, <1>3
    <3>3. sn = Append(Lines(s), n)
      BY <1>3, <3>1, <3>2
    <3>. QED BY <1>1, <1>6, <1>9, <1>14, <3>1, <3>2, <3>3 DEF ScreenSound
  <2>3. Rests(s, c)
    BY <1>6, <1>8, <1>14 DEF Rests
  <2>. QED BY <1>1, <1>2, <1>6, <1>8, <1>10, <1>11, <2>1, <2>2, <2>3, OnlyScreen
<1>. QED BY <1>12, <1>13, <1>14

\* The facts about the screen of a process that lives.
LEMMA LiveScreen ==
  ASSUME TermInv, Alive
  PROVE  /\ screen \in Screens /\ screen.held = TRUE /\ screen.raw = TRUE /\ ScreenSound(screen)
         /\ OwnersSound(screen) /\ screen.made <= MaxEvents /\ screen.made \in Nat
BY DEF TermInv, TermTypes, Alive, Present, Screens

LEMMA RenderStep == ASSUME TermInv, Alive, Render PROVE TermInv' /\ Rests(screen, screen')
<1>1. PICK s \in Screens : s = screen /\ s.held /\ ScreenSound(s) /\ s.raw
  BY LiveScreen
<1>2. UNCHANGED <<watch, shell, turns, line, talk>> /\ s.due
      /\ screen' = IF ExclusiveIn(s) THEN [s EXCEPT !.due = FALSE] ELSE Drawn(s)
  BY <1>1 DEF Render, Exclusive
<1>3. CASE ExclusiveIn(s)
  <2>. DEFINE t == [s EXCEPT !.due = FALSE]
  <2>1. /\ t \in Screens /\ t.made = s.made /\ t.queue = s.queue /\ t.shown = s.shown
        /\ t.owners = s.owners /\ t.held = s.held /\ t.raw = s.raw /\ t.alt = s.alt /\ t.due = FALSE
    BY DEF Screens
  <2>2. screen' = t
    BY <1>2, <1>3
  <2>. HIDE DEF t
  <2>3. ExclusiveIn(t) /\ OwnersIn(t, {"dialog"}) = OwnersIn(s, {"dialog"})
    BY <1>3, <2>1 DEF ExclusiveIn, OwnersIn
  <2>4. ScreenSound(t)
    BY <1>1, <2>1, <2>3 DEF ScreenSound, Lines
  <2>5. Calm(s, t) /\ Steady(s, t)
    BY <2>1, <2>3 DEF Calm, Steady
  <2>. QED BY <1>1, <1>2, <2>1, <2>2, <2>4, <2>5, OnlyRelease
<1>4. CASE ~ExclusiveIn(s)
  <2>1. PICK t \in Screens : /\ t = Drawn(s) /\ t.owners = s.owners /\ Steady(s, t) /\ t.raw = s.raw
                             /\ t.shown = Lines(t) /\ ~t.due /\ t.queue = s.queue
    BY <1>1, DrawnIs
  <2>2. ~ExclusiveIn(t) /\ OwnersIn(t, {"dialog"}) = OwnersIn(s, {"dialog"})
    BY <1>4, <2>1 DEF ExclusiveIn, OwnersIn
  <2>3. s.alt
    BY <1>1, <1>2 DEF ScreenSound
  <2>4. ScreenSound(t)
    BY <1>1, <2>1, <2>3 DEF ScreenSound, Steady
  <2>5. Calm(s, t)
    BY <2>2 DEF Calm
  <2>. QED BY <1>1, <1>2, <1>4, <2>1, <2>4, <2>5, OnlyRelease
<1>. QED BY <1>3, <1>4

\* progressIndicator.end loses no line and takes no other owner.
LEMMA ProgressEndedIs ==
  ASSUME NEW s \in Screens, s.held, ScreenSound(s)
  PROVE  LET t == ProgressEnded(s)
         IN  /\ t \in Screens /\ ToSet(t.owners) = {e \in ToSet(s.owners) : e.kind # "progress"}
             /\ Steady(s, t) /\ (s.raw => t.raw) /\ ScreenSound(t) /\ Calm(s, t)
<1>1. PICK es : es = OwnersIn(s, {"progress"})
  OBVIOUS
<1>2. PICK t \in Screens : /\ t = Released(s, es) /\ ToSet(t.owners) = ToSet(s.owners) \ es
                           /\ Steady(s, t) /\ (es # {} \/ s.raw = s.held => t.raw = t.held)
                           /\ ScreenSound(t) /\ Calm(s, t)
  BY ReleasedIs
<1>3. ToSet(t.owners) = {e \in ToSet(s.owners) : e.kind # "progress"}
  BY <1>1, <1>2 DEF OwnersIn
<1>4. s.raw => t.raw
  BY <1>2 DEF Screens, Steady
<1>. QED BY <1>1, <1>2, <1>3, <1>4 DEF ProgressEnded

LEMMA ProgressEndsStep ==
  ASSUME TermInv, Alive, ProgressEnds PROVE TermInv' /\ Rests(screen, screen')
<1>1. PICK s \in Screens : s = screen /\ s.held /\ ScreenSound(s) /\ s.raw
  BY LiveScreen
<1>2. PICK t \in Screens :
        /\ t = ProgressEnded(s) /\ ToSet(t.owners) = {e \in ToSet(s.owners) : e.kind # "progress"}
        /\ Steady(s, t) /\ (s.raw => t.raw) /\ ScreenSound(t) /\ Calm(s, t)
  BY <1>1, ProgressEndedIs
<1>. QED BY <1>1, <1>2, OnlyRelease DEF ProgressEnds

\* An owner without a text that is neither the prompt nor a composer.
LEMMA Joins ==
  ASSUME TermInv, Alive, NEW s \in Screens, s.held, ScreenSound(s), s.made <= MaxEvents,
         s.held = screen.held, Calm(screen, s),
         ToSet(s.owners) \subseteq ToSet(screen.owners),
         \A o \in ToSet(screen.owners) : o.kind = "prompt" => o \in ToSet(s.owners),
         NEW e \in Owner, e.kind \in {"dialog", "progress"}, e.draft = "none",
         e.kind = "dialog" => e \notin ToSet(screen.owners) /\ s = screen,
         screen' = Acquired(s, e), UNCHANGED <<watch, shell, turns, line, talk>>
  PROVE  TermInv' /\ Rests(screen, screen')
<1>1. PICK t \in Screens :
        /\ t = Acquired(s, e) /\ ToSet(t.owners) = ToSet(s.owners) \cup {e} /\ Steady(s, t)
        /\ t.raw = t.held /\ ScreenSound(t) /\ (e.kind # "dialog" => Calm(s, t))
  BY AcquiredIs
<1>2. Rests(screen, t)
  <2>1. CASE e.kind = "dialog"
    BY <1>1, <2>1 DEF Rests, OwnersIn
  <2>2. CASE e.kind # "dialog"
    BY <1>1, <2>2, CalmTrans, CalmRests
  <2>. QED BY <2>1, <2>2
<1>3. \A o \in ToSet(t.owners) : OwnerFits(o, turns, talk)
  <2>1. OwnerFits(e, turns, talk)
    BY DEF OwnerFits, OwnerSound
  <2>. QED BY <1>1, <2>1, Fits
<1>4. OwnersIn(screen, {"prompt"}) # {} => OwnersIn(t, {"prompt"}) # {}
  BY <1>1 DEF OwnersIn
<1>. QED BY <1>1, <1>2, <1>3, <1>4, OnlyScreen DEF Steady

LEMMA DialogIs ==
  ASSUME NEW by \in {"command", "run"}
  PROVE  Dialog(by) \in Owner /\ Dialog(by).kind = "dialog" /\ Dialog(by).draft = "none"
<1>1. by \in Nat \cup {"command", "run"} /\ "none" \in Inputs \cup {"none"} /\ "dialog" \in OwnerKinds
  BY DEF OwnerKinds
<1>. QED BY <1>1 DEF Dialog, Owner

LEMMA DialogOpensStep ==
  ASSUME TermInv, Alive, NEW by \in {"command", "run"}, DialogOpens(by)
  PROVE  TermInv' /\ Rests(screen, screen')
<1>1. PICK s \in Screens : s = screen /\ s.held /\ ScreenSound(s) /\ s.made <= MaxEvents
  BY LiveScreen
<1>2. PICK e \in Owner : e = Dialog(by) /\ e.kind = "dialog" /\ e.draft = "none"
  BY DialogIs
<1>3. e \notin ToSet(screen.owners)
  BY <1>2 DEF DialogOpens, Owners, OwnersIn
<1>4. Calm(s, s)
  BY DEF Calm
<1>5. screen' = Acquired(s, e) /\ UNCHANGED <<watch, shell, turns, line, talk>>
  BY <1>1, <1>2 DEF DialogOpens
<1>. QED BY <1>1, <1>2, <1>3, <1>4, <1>5, Joins

LEMMA ProgressBeginsStep ==
  ASSUME TermInv, Alive, ProgressBegins
  PROVE  TermInv' /\ Rests(screen, screen')
<1>1. PICK s \in Screens : s = screen /\ s.held /\ ScreenSound(s) /\ s.raw /\ s.made <= MaxEvents
  BY LiveScreen
<1>2. PICK t \in Screens :
        /\ t = ProgressEnded(s) /\ ToSet(t.owners) = {e \in ToSet(s.owners) : e.kind # "progress"}
        /\ Steady(s, t) /\ (s.raw => t.raw) /\ ScreenSound(t) /\ Calm(s, t)
  BY <1>1, ProgressEndedIs
<1>3. UNCHANGED <<watch, shell, turns, line, talk>>
      /\ screen' = IF t.owners # <<>> /\ Last(t.owners).kind = "composer" THEN t
                   ELSE Acquired(t, Progress)
  BY <1>1, <1>2 DEF ProgressBegins
<1>4. CASE screen' = t
  BY <1>1, <1>2, <1>3, <1>4, OnlyRelease
<1>5. CASE screen' = Acquired(t, Progress)
  <2>1. PICK e \in Owner : e = Progress /\ e.kind = "progress" /\ e.draft = "none"
    <3>1. 0 \in Nat \cup {"command", "run"} /\ "none" \in Inputs \cup {"none"} /\ "progress" \in OwnerKinds
      BY DEF OwnerKinds
    <3>2. Progress \in Owner
      BY <3>1 DEF Progress, Owner
    <3>. QED BY <3>2 DEF Progress
  <2>2. t.made <= MaxEvents /\ t.held /\ t.held = screen.held
    BY <1>1, <1>2 DEF Steady
  <2>3. \A o \in ToSet(screen.owners) : o.kind = "prompt" => o \in ToSet(t.owners)
    BY <1>1, <1>2
  <2>. QED BY <1>1, <1>2, <1>3, <1>5, <2>1, <2>2, <2>3, Joins
<1>. QED BY <1>3, <1>4, <1>5

LEMMA AnswerStep == ASSUME TermInv, Alive, Answer PROVE TermInv' /\ Rests(screen, screen')
<1>1. PICK s \in Screens : s = screen /\ s.held = TRUE /\ ScreenSound(s) /\ s.raw = TRUE
  BY LiveScreen
<1>2. PICK ds \in SUBSET Owners({"dialog"}) \ {{}} :
        screen' = DialogOver(screen, ds) /\ UNCHANGED <<watch, shell, turns, line, talk>>
  BY DEF Answer
<1>3. PICK t \in Screens : /\ t = DialogOver(s, ds) /\ ToSet(t.owners) = ToSet(s.owners) \ ds
                           /\ Steady(s, t) /\ t.raw = t.held /\ ScreenSound(t) /\ Calm(s, t)
  BY <1>1, DialogOverIs
<1>4. \A e \in ds : e.kind = "dialog"
  BY <1>2 DEF Owners, OwnersIn
<1>. QED BY <1>1, <1>2, <1>3, <1>4, OnlyRelease

\* Fields that take a text.
LEMMA TypeStep ==
  ASSUME TermInv, Alive, NEW x \in Inputs, Type(x)
  PROVE  TermInv' /\ Rests(screen, screen')
<1>1. PICK s \in Screens : s = screen /\ s.held /\ ScreenSound(s) /\ s.raw /\ s.made <= MaxEvents
  BY LiveScreen
<1>. DEFINE With(e) == IF e.kind \in {"prompt", "composer"} THEN [e EXCEPT !.draft = x] ELSE e
<1>2. PICK m \in Nat : m = Len(s.owners) /\ s.owners \in Seq(Owner) /\ DOMAIN s.owners = 1..m
  BY DEF Screens, OwnerSeqs
<1>3. \A e \in Owner : /\ With(e) \in Owner /\ With(e).kind = e.kind /\ With(e).of = e.of
                       /\ With(e).draft = IF e.kind \in {"prompt", "composer"} THEN x ELSE e.draft
                       /\ e.kind \notin {"prompt", "composer"} => With(e) = e
  BY DEF Owner
<1>4. \A k \in 1..m : s.owners[k] \in Owner
  BY <1>2
<1>. DEFINE os == [k \in 1..m |-> With(s.owners[k])]
<1>5. os \in OwnerSeqs
  <2>. HIDE DEF With
  <2>1. os \in [1..m -> Owner]
    BY <1>3, <1>4
  <2>. HIDE DEF os
  <2>. QED BY <2>1 DEF OwnerSeqs
<1>6. ToSet(os) = {With(e) : e \in ToSet(s.owners)}
  <2>. HIDE DEF With
  <2>. QED BY <1>2 DEF ToSet
<1>7. os = [k \in DOMAIN s.owners |-> IF s.owners[k].kind \in {"prompt", "composer"}
                                      THEN [s.owners[k] EXCEPT !.draft = x] ELSE s.owners[k]]
  BY <1>2
<1>. HIDE DEF os
<1>. DEFINE t == [s EXCEPT !.owners = os]
<1>8. /\ t \in Screens /\ t.owners = os /\ t.raw = s.raw /\ t.held = s.held /\ t.made = s.made
      /\ t.alt = s.alt /\ t.shown = s.shown /\ t.due = s.due /\ t.queue = s.queue
  BY <1>5 DEF Screens
<1>9. screen' = t /\ UNCHANGED <<watch, shell, turns, line, talk>> /\ talk.entered[x] = 0
      /\ ~ExclusiveIn(s)
  BY <1>1, <1>7 DEF Type, Exclusive
<1>. HIDE DEF t, With
<1>10. ToSet(s.owners) \subseteq Owner
  BY OwnersAre
<1>11. /\ OwnersIn(t, {"dialog"}) = OwnersIn(s, {"dialog"})
       /\ OwnersIn(s, {"prompt"}) # {} => OwnersIn(t, {"prompt"}) # {}
  <2>1. \A e \in ToSet(s.owners) : e.kind = "dialog" => With(e) = e
    BY <1>3, <1>10
  <2>. QED BY <1>3, <1>6, <1>8, <1>10, <2>1 DEF OwnersIn
<1>12. ScreenSound(t) /\ Rests(s, t)
  BY <1>1, <1>8, <1>11 DEF ScreenSound, Lines, ExclusiveIn, Rests
<1>13. \A e \in ToSet(t.owners) : OwnerFits(e, turns, talk)
  <2>. SUFFICES ASSUME NEW e \in ToSet(s.owners) PROVE OwnerFits(With(e), turns, talk)
    BY <1>6, <1>8
  <2>1. e \in Owner /\ OwnerFits(e, turns, talk)
    BY <1>1, Fits
  <2>. QED BY <1>3, <1>9, <2>1 DEF OwnerFits, OwnerSound
<1>. QED BY <1>1, <1>8, <1>9, <1>11, <1>12, <1>13, OnlyScreen

\* The fields of a live screen are emptied, or its dialogs end.
LEMMA CtrlCStep == ASSUME TermInv, Alive, CtrlC PROVE TermInv' /\ Rests(screen, screen')
<1>1. PICK s \in Screens : s = screen /\ s.held = TRUE /\ ScreenSound(s) /\ s.raw = TRUE
                           /\ s.made <= MaxEvents /\ OwnersSound(s)
  BY LiveScreen
<1>2. PICK t \in Screens : /\ t = screen' /\ Steady(s, t) /\ t.raw = TRUE /\ ScreenSound(t) /\ Calm(s, t)
                           /\ \A e \in ToSet(t.owners) : OwnerFits(e, turns, talk)
                           /\ OwnersIn(s, {"prompt"}) # {} => OwnersIn(t, {"prompt"}) # {}
  <2>1. CASE Exclusive
    <3>1. PICK ds : ds = Owners({"dialog"})
      OBVIOUS
    <3>2. PICK t \in Screens : /\ t = DialogOver(s, ds) /\ ToSet(t.owners) = ToSet(s.owners) \ ds
                               /\ Steady(s, t) /\ t.raw = t.held /\ ScreenSound(t) /\ Calm(s, t)
      BY <1>1, DialogOverIs
    <3>3. t = screen'
      BY <1>1, <2>1, <3>1, <3>2 DEF CtrlC
    <3>4. \A e \in ToSet(t.owners) : OwnerFits(e, turns, talk)
      BY <1>1, <3>2, Fits
    <3>5. OwnersIn(s, {"prompt"}) # {} => OwnersIn(t, {"prompt"}) # {}
      BY <1>1, <3>1, <3>2 DEF OwnersIn, Owners
    <3>6. t.raw = TRUE
      BY <1>1, <3>2 DEF Steady
    <3>. QED BY <3>2, <3>3, <3>4, <3>5, <3>6
  <2>2. CASE ~Exclusive
    <3>1. PICK t \in Screens : /\ t = Emptied(s) /\ ToSet(t.owners) = {Blank(e) : e \in ToSet(s.owners)}
                               /\ Steady(s, t) /\ t.raw = s.raw /\ ScreenSound(t) /\ Calm(s, t)
      BY <1>1, EmptiedIs
    <3>2. t = screen'
      BY <1>1, <2>2, <3>1 DEF CtrlC
    <3>3. \A e \in ToSet(t.owners) : OwnerFits(e, turns, talk)
      BY <1>1, <3>1, Fits, BlankIs DEF OwnerFits, OwnerSound
    <3>4. OwnersIn(s, {"prompt"}) # {} => OwnersIn(t, {"prompt"}) # {}
      BY <1>1, <3>1, Fits, BlankIs DEF OwnersIn
    <3>. QED BY <1>1, <3>1, <3>2, <3>3, <3>4
  <2>. QED BY <2>1, <2>2
<1>3. PICK b \in BOOLEAN : talk' = [talk EXCEPT !.aborted = b]
  <2>1. \E b \in BOOLEAN : b = ((MakesSigint /\ shell.busy /\ TurnRuns) \/ talk.aborted)
    BY DEF TermInv, TermTypes, Talks
  <2>. QED BY <2>1 DEF CtrlC
<1>4. /\ talk' \in Talks /\ talk'.steering = talk.steering /\ talk'.taken = talk.taken
      /\ talk'.entered = talk.entered /\ talk'.deaf = talk.deaf
  BY <1>3 DEF TermInv, TermTypes, Talks
<1>5. UNCHANGED <<watch, shell, turns, line>>
  BY DEF CtrlC
<1>6. TermTypes'
  BY <1>1, <1>2, <1>4, <1>5 DEF TermInv, TermTypes, Steady
<1>7. OwnersSound(screen') /\ Drafted(screen', talk')
  BY <1>2, <1>4 DEF OwnersSound, Drafted, OwnerFits
<1>8. Present(screen', shell', turns', watch', talk')
  <2>1. \A e \in OwnersIn(t, {"composer"}) : e.of \in Going(turns)
    BY <1>2 DEF OwnersIn, OwnerFits
  <2>. QED BY <1>1, <1>2, <1>4, <1>5, <2>1 DEF TermInv, Present, Steady
<1>9. Counted(shell', talk')
  BY <1>4, <1>5 DEF TermInv, Counted
<1>. QED BY <1>1, <1>2, <1>6, <1>7, <1>8, <1>9, CalmRests DEF TermInv

\* The invariant after a turn has started from a screen and a REPL of which it holds.
LEMMA StartedInv ==
  ASSUME TermInv, NEW s \in Screens, s.held = TRUE, ScreenSound(s), s.made <= MaxEvents,
         Calm(screen, s), NEW sh \in Shells, sh.pc # "out",
         NEW from \in {"repl", "schedule"}, StartsTurn(s, sh, from),
         NEW tk \in Talks, talk' = tk, Counted(sh, tk),
         \A e \in ToSet(s.owners) : OwnerFits(e, turns, tk),
         from = "schedule" => s = screen /\ sh = shell
  PROVE  TermInv' /\ Rests(screen, screen')
<1>1. TermTypes
  BY DEF TermInv
<1>2. PICK i \in Nat : i = Len(turns) + 1
  <2>1. Len(turns) \in Nat
    BY <1>1 DEF TermTypes, TurnSeqs
  <2>. QED BY <2>1
<1>3. /\ screen' \in Screens /\ Steady(s, screen') /\ screen'.raw = screen'.held
      /\ ScreenSound(screen') /\ Calm(s, screen')
      /\ ToSet(screen'.owners) = ToSet(s.owners) \cup {Composer(i)}
      /\ turns' \in TurnSeqs /\ Going(turns') = Going(turns) \cup {i}
      /\ i \in DOMAIN turns' /\ turns'[i].from = from
      /\ \A j \in DOMAIN turns : j \in DOMAIN turns' /\ turns'[j] = turns[j]
      /\ line' \in Numbers /\ ToSet(line') \subseteq DOMAIN turns'
      /\ watch' = i /\ i # 0 /\ watch' \in 0..Len(turns')
      /\ shell' \in Shells /\ shell'.later = sh.later
      /\ shell'.pc = IF from = "repl" THEN "turn" ELSE sh.pc
  BY <1>1, <1>2, Started
<1>4. TermTypes'
  BY <1>3 DEF TermTypes, Steady
<1>5. \A e \in ToSet(screen'.owners) : OwnerFits(e, turns', tk)
  <2>1. OwnerFits(Composer(i), turns', tk)
    BY <1>3 DEF OwnerFits, OwnerSound, Composer
  <2>. QED BY <1>3, <2>1 DEF OwnerFits
<1>6. OwnersSound(screen') /\ Drafted(screen', tk)
  BY <1>5 DEF OwnersSound, Drafted, OwnerFits
<1>7. Present(screen', shell', turns', watch', tk)
  <2>1. screen'.held = TRUE /\ screen'.raw = TRUE /\ shell'.pc # "out"
    BY <1>3 DEF Steady
  <2>2. shell'.pc = "prompt" => OwnersIn(screen', {"prompt"}) # {}
    BY <1>3 DEF TermInv, Present, OwnersIn
  <2>3. shell'.pc = "turn" => \E j \in Going(turns') : turns'[j].from = "repl"
    <3>1. CASE from = "repl"
      BY <1>3, <3>1
    <3>2. CASE from = "schedule" /\ shell'.pc = "turn"
      <4>1. PICK j \in Going(turns) : turns[j].from = "repl"
        BY <1>3, <3>2 DEF TermInv, Present
      <4>2. j \in DOMAIN turns
        BY DEF Going
      <4>. QED BY <1>3, <4>1, <4>2
    <3>. QED BY <3>1, <3>2
  <2>4. \A e \in OwnersIn(screen', {"composer"}) : e.of \in Going(turns')
    BY <1>5 DEF OwnersIn, OwnerFits
  <2>. QED BY <1>3, <2>1, <2>2, <2>3, <2>4 DEF Present
<1>8. Counted(shell', tk)
  BY <1>3 DEF Counted
<1>9. Rests(screen, screen')
  BY <1>3, CalmTrans, CalmRests
<1>. QED BY <1>3, <1>4, <1>6, <1>7, <1>8, <1>9 DEF TermInv

LEMMA ScheduleFiresStep ==
  ASSUME TermInv, Alive, ScheduleFires
  PROVE  TermInv' /\ Rests(screen, screen')
<1>1. PICK s \in Screens : s = screen /\ s.held = TRUE /\ ScreenSound(s) /\ s.made <= MaxEvents
  BY LiveScreen
<1>2. PICK sh \in Shells, tk \in Talks : sh = shell /\ tk = talk /\ sh.pc # "out" /\ Counted(sh, tk)
  BY <1>1 DEF TermInv, TermTypes, Present
<1>3. Calm(screen, s)
  BY <1>1 DEF Calm
<1>4. StartsTurn(s, sh, "schedule") /\ talk' = tk
  BY <1>1, <1>2 DEF ScheduleFires
<1>5. \A e \in ToSet(s.owners) : OwnerFits(e, turns, tk)
  BY <1>1, <1>2, Fits
<1>. QED BY <1>1, <1>2, <1>3, <1>4, <1>5, StartedInv

\* A step that leaves the screen, the REPL and the turns in progress alone.
LEMMA SameScreen ==
  ASSUME TermInv, TermTypes', UNCHANGED <<screen, watch>>, Going(turns') = Going(turns),
         \A i \in Going(turns) : turns'[i].from = turns[i].from,
         shell'.pc = shell.pc,
         Counted(shell', talk'), talk'.entered = talk.entered, talk'.deaf = talk.deaf,
         talk'.steering \in {talk.steering, <<>>}
  PROVE  TermInv' /\ Rests(screen, screen')
<1>1. Present(screen', shell', turns', watch', talk')
  BY DEF TermInv, Present
<1>2. Drafted(screen', talk') /\ OwnersSound(screen') /\ ScreenSound(screen')
  BY DEF TermInv, Drafted
<1>3. Rests(screen, screen')
  BY DEF Rests
<1>. QED BY <1>1, <1>2, <1>3 DEF TermInv

LEMMA RemoteArrivesStep ==
  ASSUME TermInv, Alive, RemoteArrives
  PROVE  TermInv' /\ Rests(screen, screen')
<1>1. PICK tn \in Turn : tn = [from |-> "remote", at |-> "waits"]
  BY DEF Turn
<1>2. TermTypes /\ turns' = Append(turns, tn) /\ line' = Append(line, Len(turns) + 1)
      /\ UNCHANGED <<screen, watch, shell, talk>>
  BY <1>1 DEF RemoteArrives, TermInv
<1>3. PICK i \in Nat : i = Len(turns) + 1
  <2>1. Len(turns) \in Nat
    BY <1>2 DEF TermTypes, TurnSeqs
  <2>. QED BY <2>1
<1>4. /\ turns' \in TurnSeqs /\ Len(turns') = i
      /\ \A j \in DOMAIN turns : j \in DOMAIN turns' /\ turns'[j] = turns[j]
      /\ Going(turns') = Going(turns) \cup (IF tn.from # "remote" /\ tn.at # "over" THEN {i} ELSE {})
      /\ line' \in Numbers /\ ToSet(line') \subseteq DOMAIN turns'
      /\ \A w \in 0..Len(turns) : w \in 0..i
  BY <1>2, <1>3, TurnJoins
<1>5. Going(turns') = Going(turns)
  BY <1>1, <1>4
<1>6. \A j \in Going(turns) : turns'[j].from = turns[j].from
  BY <1>4 DEF Going
<1>7. TermTypes'
  BY <1>2, <1>4 DEF TermTypes
<1>8. Counted(shell', talk')
  BY <1>2 DEF TermInv, Counted
<1>. QED BY <1>2, <1>5, <1>6, <1>7, <1>8, SameScreen

\* A turn moves on.
LEMMA TurnChanges ==
  ASSUME TermTypes, NEW h \in DOMAIN turns, NEW at \in {"waits", "runs", "reports", "over"},
         turns' = [turns EXCEPT ![h].at = at]
  PROVE  /\ turns' \in TurnSeqs /\ DOMAIN turns' = DOMAIN turns /\ Len(turns') = Len(turns)
         /\ \A j \in DOMAIN turns : /\ turns'[j].from = turns[j].from
                                    /\ turns'[j].at = IF j = h THEN at ELSE turns[j].at
         /\ Going(turns') = IF at = "over" THEN Going(turns) \ {h}
                            ELSE IF turns[h].from # "remote" THEN Going(turns) \cup {h}
                            ELSE Going(turns)
<1>1. PICK n \in Nat : n = Len(turns) /\ turns \in Seq(Turn) /\ DOMAIN turns = 1..n
  BY DEF TermTypes, TurnSeqs
<1>2. turns[h] \in Turn
  BY <1>1
<1>3. PICK tn \in Turn : tn = [turns[h] EXCEPT !.at = at] /\ tn.from = turns[h].from /\ tn.at = at
  <2>1. [turns[h] EXCEPT !.at = at] \in Turn
    BY <1>2 DEF Turn
  <2>. QED BY <1>2, <2>1 DEF Turn
<1>4. turns' = [turns EXCEPT ![h] = tn]
  BY <1>3
<1>5. turns' \in Seq(Turn) /\ Len(turns') = n /\ DOMAIN turns' = 1..n
      /\ \A j \in 1..n : turns'[j] = IF j = h THEN tn ELSE turns[j]
  BY <1>1, <1>4
<1>6. \A j \in 1..n : /\ turns'[j].from = turns[j].from
                      /\ turns'[j].at = IF j = h THEN at ELSE turns[j].at
  BY <1>3, <1>5
<1>7. Going(turns') = IF at = "over" THEN Going(turns) \ {h}
                      ELSE IF turns[h].from # "remote" THEN Going(turns) \cup {h}
                      ELSE Going(turns)
  BY <1>1, <1>5, <1>6 DEF Going
<1>. QED BY <1>1, <1>5, <1>6, <1>7 DEF TurnSeqs

LEMMA HeadIs ==
  ASSUME TermTypes, line # <<>>
  PROVE  Head(line) \in DOMAIN turns /\ Tail(line) \in Numbers /\ ToSet(Tail(line)) \subseteq DOMAIN turns
<1>1. PICK ln \in Seq(Nat), m \in Nat : ln = line /\ m = Len(ln) /\ DOMAIN ln = 1..m /\ m # 0
  BY DEF TermTypes, Numbers
<1>2. \A k \in 1..m : ln[k] \in DOMAIN turns
  BY <1>1 DEF TermTypes, ToSet
<1>3. PICK tl \in Seq(Nat) : tl = Tail(ln)
  <2>1. Tail(ln) \in Seq(Nat)
    BY <1>1
  <2>. QED BY <2>1
<1>4. DOMAIN tl = 1..m - 1 /\ (\A k \in 1..m - 1 : tl[k] = ln[k + 1]) /\ Head(ln) = ln[1]
  BY <1>1, <1>3
<1>5. \A k \in 1..m - 1 : k + 1 \in 1..m
  BY <1>1
<1>. QED BY <1>1, <1>2, <1>3, <1>4, <1>5 DEF Numbers, ToSet

LEMMA TurnRunStartsStep ==
  ASSUME TermInv, Alive, TurnRunStarts
  PROVE  TermInv' /\ Rests(screen, screen')
<1>1. PICK h \in DOMAIN turns : /\ h = Head(line) /\ turns[h].at = "waits"
                                /\ turns' = [turns EXCEPT ![h].at = "runs"]
  BY HeadIs DEF TurnRunStarts, TermInv
<1>2. TermTypes /\ UNCHANGED <<screen, watch, shell, line, talk>>
  BY DEF TurnRunStarts, TermInv
<1>3. /\ turns' \in TurnSeqs /\ DOMAIN turns' = DOMAIN turns /\ Len(turns') = Len(turns)
      /\ \A j \in DOMAIN turns : turns'[j].from = turns[j].from
      /\ Going(turns') = IF turns[h].from # "remote" THEN Going(turns) \cup {h} ELSE Going(turns)
  BY <1>1, <1>2, TurnChanges
<1>4. Going(turns') = Going(turns)
  BY <1>1, <1>3 DEF Going
<1>5. TermTypes'
  BY <1>2, <1>3 DEF TermTypes
<1>6. Counted(shell', talk')
  BY <1>2 DEF TermInv, Counted
<1>7. \A j \in Going(turns) : turns'[j].from = turns[j].from
  BY <1>3 DEF Going
<1>. QED BY <1>2, <1>4, <1>5, <1>6, <1>7, SameScreen

LEMMA TurnRunEndsStep ==
  ASSUME TermInv, Alive, TurnRunEnds
  PROVE  TermInv' /\ Rests(screen, screen')
<1>1. PICK h \in DOMAIN turns : h = Head(line) /\ turns[h].at = "runs"
  BY HeadIs DEF TurnRunEnds, TurnRuns, TermInv
<1>2. PICK at \in {"waits", "runs", "reports", "over"} :
        at = (IF turns[h].from # "remote" THEN "reports" ELSE "over")
        /\ turns' = [turns EXCEPT ![h].at = at]
  BY <1>1 DEF TurnRunEnds, RunIsLocal
<1>3. TermTypes /\ UNCHANGED <<screen, watch, shell>> /\ line' = Tail(line) /\ line # <<>>
      /\ talk' = [talk EXCEPT !.aborted = FALSE]
  BY DEF TurnRunEnds, TurnRuns, TermInv
<1>4. /\ turns' \in TurnSeqs /\ DOMAIN turns' = DOMAIN turns /\ Len(turns') = Len(turns)
      /\ \A j \in DOMAIN turns : turns'[j].from = turns[j].from
      /\ Going(turns') = IF at = "over" THEN Going(turns) \ {h}
                         ELSE IF turns[h].from # "remote" THEN Going(turns) \cup {h} ELSE Going(turns)
  BY <1>1, <1>2, <1>3, TurnChanges
<1>5. Going(turns') = Going(turns)
  BY <1>1, <1>2, <1>4 DEF Going
<1>6. /\ talk' \in Talks /\ talk'.steering = talk.steering /\ talk'.taken = talk.taken
      /\ talk'.entered = talk.entered /\ talk'.deaf = talk.deaf
  BY <1>3 DEF TermTypes, Talks
<1>7. TermTypes'
  BY <1>3, <1>4, <1>6, HeadIs DEF TermTypes
<1>8. Counted(shell', talk')
  BY <1>3, <1>6 DEF TermInv, Counted
<1>9. \A j \in Going(turns) : turns'[j].from = turns[j].from
  BY <1>4 DEF Going
<1>. QED BY <1>3, <1>5, <1>6, <1>7, <1>8, <1>9, SameScreen

LEMMA RunTakesStep ==
  ASSUME TermInv, Alive, RunTakes
  PROVE  TermInv' /\ Rests(screen, screen')
<1>1. PICK tk \in Talks : tk = talk /\ tk.steering \in Seq(Inputs) /\ tk.taken \in [Inputs -> Nat]
                          /\ tk.entered \in [Inputs -> Nat]
  BY DEF TermInv, TermTypes, Talks, Waiting, Tallies
<1>2. PICK took \in Tallies : took = [x \in Inputs |-> tk.taken[x] + Times(x, tk.steering)]
  <2>1. \A x \in Inputs : tk.taken[x] + Times(x, tk.steering) \in Nat
    BY <1>1, TimesType
  <2>. QED BY <2>1 DEF Tallies
<1>3. talk' = [tk EXCEPT !.taken = took, !.steering = <<>>] /\ <<>> \in Waiting
  BY <1>1, <1>2 DEF RunTakes, Waiting
<1>4. talk' \in Talks /\ talk'.steering = <<>> /\ talk'.taken = took /\ talk'.entered = tk.entered
      /\ talk'.deaf = tk.deaf
  BY <1>2, <1>3 DEF Talks
<1>5. UNCHANGED <<screen, watch, shell, turns, line>>
  BY DEF RunTakes
<1>6. TermTypes'
  BY <1>4, <1>5 DEF TermInv, TermTypes
<1>7. Counted(shell', talk')
  <2>. SUFFICES ASSUME NEW x \in Inputs
                PROVE  Times(x, talk'.steering) + Times(x, shell.later) + took[x] = tk.entered[x]
    BY <1>4, <1>5 DEF Counted
  <2>1. PICK a \in Nat, b \in Nat, c \in Nat :
          a = Times(x, tk.steering) /\ b = Times(x, shell.later) /\ c = tk.taken[x]
    <3>1. shell.later \in Seq(Inputs)
      BY DEF TermInv, TermTypes, Shells, Waiting
    <3>2. Times(x, tk.steering) \in Nat /\ Times(x, shell.later) \in Nat
      BY <1>1, <3>1, TimesType
    <3>. QED BY <1>1, <3>2
  <2>2. a + b + c = tk.entered[x]
    BY <1>1, <2>1 DEF TermInv, Counted
  <2>3. Times(x, talk'.steering) = 0 /\ took[x] = c + a
    BY <1>2, <1>4, <2>1, TimesOne
  <2>. QED BY <2>1, <2>2, <2>3
<1>. QED BY <1>1, <1>4, <1>5, <1>6, <1>7, SameScreen

\* The texts of two sequences, counted together.
LEMMA LaterIs ==
  ASSUME NEW s \in Waiting, NEW t \in Waiting
  PROVE  s \o t \in Waiting /\ \A x : Times(x, s \o t) = Times(x, s) + Times(x, t)
<1>1. s \in Seq(Inputs) /\ t \in Seq(Inputs)
  BY DEF Waiting
<1>2. s \o t \in Seq(Inputs)
  BY <1>1
<1>. QED BY <1>1, <1>2, TimesCat DEF Waiting

LEMMA TimesNat == ASSUME NEW s \in Waiting, NEW x PROVE Times(x, s) \in Nat
BY TimesType DEF Waiting

LEMMA TurnOverStep ==
  ASSUME TermInv, Alive, NEW i \in DOMAIN turns, TurnOver(i)
  PROVE  TermInv' /\ Rests(screen, screen')
<1>1. PICK s \in Screens : s = screen /\ s.held = TRUE /\ ScreenSound(s) /\ s.raw = TRUE
                           /\ s.made <= MaxEvents
  BY LiveScreen
<1>2. PICK es : es = {e \in OwnersIn(s, {"composer"}) : e.of = i}
  OBVIOUS
<1>3. PICK t \in Screens : /\ t = Released(s, es) /\ ToSet(t.owners) = ToSet(s.owners) \ es
                           /\ Steady(s, t) /\ (es # {} \/ s.raw = s.held => t.raw = t.held)
                           /\ ScreenSound(t) /\ Calm(s, t)
  BY <1>1, ReleasedIs
<1>4. t.held = TRUE /\ t.raw = TRUE /\ t.held /\ ScreenSound(t) /\ t \in Screens
  BY <1>1, <1>3 DEF Steady
<1>5. PICK u \in Screens :
        /\ u = ProgressEnded(t) /\ ToSet(u.owners) = {e \in ToSet(t.owners) : e.kind # "progress"}
        /\ Steady(t, u) /\ (t.raw => u.raw) /\ ScreenSound(u) /\ Calm(t, u)
  BY <1>4, ProgressEndedIs
<1>6. screen' = u /\ turns[i].at = "reports" /\ watch' = 0 /\ line' = line
      /\ turns' = [turns EXCEPT ![i].at = "over"]
      /\ shell' = [shell EXCEPT !.busy = FALSE, !.later = @ \o talk.steering,
                                !.pc = IF turns[i].from = "repl" THEN "drain" ELSE @]
      /\ talk' = [talk EXCEPT !.steering = <<>>, !.deaf = Going(turns) \ {i}]
  BY <1>1, <1>2, <1>3, <1>5, GoingIs DEF TurnOver, Owners
<1>7. TermTypes
  BY DEF TermInv
<1>8. /\ turns' \in TurnSeqs /\ DOMAIN turns' = DOMAIN turns /\ Len(turns') = Len(turns)
      /\ \A j \in DOMAIN turns : turns'[j].from = turns[j].from
      /\ Going(turns') = Going(turns) \ {i}
  BY <1>6, <1>7, TurnChanges
<1>9. PICK sh \in Shells, tk \in Talks :
        /\ sh = shell /\ tk = talk /\ tk.steering \in Waiting /\ sh.later \in Waiting
        /\ sh.pc \in ShellPcs /\ sh.pc # "out" /\ tk.entered \in Tallies /\ tk.taken \in Tallies
  BY <1>1 DEF TermInv, TermTypes, Shells, Talks, Present
<1>10. PICK l \in Waiting : l = sh.later \o tk.steering
  BY <1>9, LaterIs
<1>11. PICK pc \in ShellPcs : pc = IF turns[i].from = "repl" THEN "drain" ELSE sh.pc
  BY <1>9 DEF ShellPcs
<1>12. shell' \in Shells /\ shell'.later = l /\ shell'.pc = pc
  <2>1. shell' = [sh EXCEPT !.busy = FALSE, !.later = l, !.pc = pc]
    BY <1>6, <1>9, <1>10, <1>11
  <2>. QED BY <2>1 DEF Shells
<1>13. talk' \in Talks /\ talk'.steering = <<>> /\ talk'.taken = tk.taken
       /\ talk'.entered = tk.entered /\ talk'.deaf = Going(turns) \ {i}
  <2>1. <<>> \in Waiting
    BY DEF Waiting
  <2>2. Going(turns) \ {i} \in SUBSET Nat
    BY <1>7 DEF TermTypes, TurnSeqs, Going
  <2>3. talk' = [tk EXCEPT !.steering = <<>>, !.deaf = Going(turns) \ {i}]
    BY <1>6, <1>9
  <2>. QED BY <2>1, <2>2, <2>3 DEF Talks
<1>14. TermTypes'
  <2>1. watch' \in 0..Len(turns')
    BY <1>6, <1>7, <1>8 DEF TermTypes, TurnSeqs
  <2>2. u.made <= MaxEvents
    BY <1>1, <1>3, <1>5 DEF Steady
  <2>. QED BY <1>6, <1>7, <1>8, <1>12, <1>13, <2>1, <2>2 DEF TermTypes
<1>15. \A e \in ToSet(u.owners) : OwnerFits(e, turns', talk')
  <2>. SUFFICES ASSUME NEW e \in ToSet(u.owners) PROVE OwnerFits(e, turns', talk')
    OBVIOUS
  <2>1. e \in ToSet(s.owners) /\ e \notin es
    BY <1>3, <1>5
  <2>2. OwnerFits(e, turns, tk)
    BY <1>1, <1>9, <2>1, Fits
  <2>3. e.kind = "composer" => e.of # i
    BY <1>2, <2>1 DEF OwnersIn
  <2>. QED BY <1>8, <1>13, <2>2, <2>3 DEF OwnerFits
<1>16. OwnersSound(u) /\ Drafted(u, talk')
  BY <1>15 DEF OwnersSound, Drafted, OwnerFits
<1>17. Present(u, shell', turns', watch', talk')
  <2>1. u.held = TRUE /\ u.raw = TRUE
    BY <1>4, <1>5 DEF Steady
  <2>2. pc = "prompt" => OwnersIn(u, {"prompt"}) # {}
    <3>. SUFFICES ASSUME pc = "prompt" PROVE OwnersIn(u, {"prompt"}) # {}
      OBVIOUS
    <3>1. PICK e \in ToSet(s.owners) : e.kind = "prompt"
      BY <1>1, <1>9, <1>11 DEF TermInv, Present, OwnersIn
    <3>2. e \in ToSet(u.owners)
      BY <1>2, <1>3, <1>5, <3>1 DEF OwnersIn
    <3>. QED BY <3>1, <3>2 DEF OwnersIn
  <2>3. pc = "turn" => \E j \in Going(turns') : turns'[j].from = "repl"
    <3>. SUFFICES ASSUME pc = "turn" PROVE \E j \in Going(turns') : turns'[j].from = "repl"
      OBVIOUS
    <3>1. PICK j \in Going(turns) : turns[j].from = "repl"
      BY <1>9, <1>11 DEF TermInv, Present
    <3>2. j # i /\ j \in DOMAIN turns
      BY <1>11, <3>1 DEF Going
    <3>. QED BY <1>8, <3>1, <3>2
  <2>4. \A e \in OwnersIn(u, {"composer"}) : e.of \in Going(turns')
    BY <1>15 DEF OwnersIn, OwnerFits
  <2>5. pc # "out"
    BY <1>9, <1>11
  <2>6. Going(turns') # {} => talk'.deaf \cap Going(turns') # {}
    BY <1>8, <1>13
  <2>. QED BY <1>12, <1>13, <2>1, <2>2, <2>3, <2>4, <2>5, <2>6 DEF Present
<1>18. Counted(shell', talk')
  <2>. SUFFICES ASSUME NEW x \in Inputs
                PROVE  Times(x, <<>>) + Times(x, l) + tk.taken[x] = tk.entered[x]
    BY <1>12, <1>13 DEF Counted
  <2>1. PICK a \in Nat, b \in Nat, c \in Nat :
          a = Times(x, tk.steering) /\ b = Times(x, sh.later) /\ c = tk.taken[x]
    BY <1>9, TimesNat DEF Tallies
  <2>2. a + b + c = tk.entered[x]
    BY <1>9, <2>1 DEF TermInv, Counted
  <2>3. Times(x, <<>>) = 0
    BY TimesOne
  <2>4. Times(x, l) = b + a
    BY <1>9, <1>10, <2>1, LaterIs
  <2>. QED BY <2>1, <2>2, <2>3, <2>4
<1>19. Rests(screen, screen')
  BY <1>1, <1>3, <1>5, <1>6, CalmTrans, CalmRests
<1>. QED BY <1>5, <1>6, <1>14, <1>16, <1>17, <1>18, <1>19 DEF TermInv

\* The prompt is asked: it joins the owners, and the REPL is at the prompt.
LEMMA PromptIs ==
  /\ Prompt0 \in Owner /\ Prompt0.kind = "prompt" /\ Prompt0.of = 0 /\ Prompt0.draft = "none"
  /\ \A ts, tk : OwnerFits(Prompt0, ts, tk)
<1>1. 0 \in Nat \cup {"command", "run"} /\ "none" \in Inputs \cup {"none"} /\ "prompt" \in OwnerKinds
  BY DEF OwnerKinds
<1>2. Prompt0 \in Owner
  BY <1>1 DEF Prompt0, Owner
<1>. QED BY <1>2 DEF Prompt0, OwnerFits, OwnerSound

LEMMA Asked ==
  ASSUME TermInv, screen.held = TRUE, screen' = Acquired(screen, Prompt0),
         NEW sh \in Shells, shell' = sh, sh.pc = "prompt", sh.later = shell.later,
         UNCHANGED <<watch, turns, line, talk>>
  PROVE  TermInv' /\ Rests(screen, screen')
<1>1. PICK s \in Screens : s = screen /\ s.held = TRUE /\ ScreenSound(s) /\ s.made <= MaxEvents
  BY DEF TermInv, TermTypes
<1>2. PICK e \in Owner : e = Prompt0 /\ e.kind = "prompt" /\ \A ts, tk : OwnerFits(e, ts, tk)
  BY PromptIs
<1>3. PICK t \in Screens :
        /\ t = Acquired(s, e) /\ ToSet(t.owners) = ToSet(s.owners) \cup {e} /\ Steady(s, t)
        /\ t.raw = t.held /\ ScreenSound(t) /\ (e.kind # "dialog" => Calm(s, t))
  BY <1>1, AcquiredIs
<1>4. screen' = t
  BY <1>1, <1>2, <1>3
<1>5. \A o \in ToSet(t.owners) : OwnerFits(o, turns, talk)
  BY <1>1, <1>2, <1>3, Fits
<1>6. TermTypes'
  BY <1>1, <1>3, <1>4 DEF TermInv, TermTypes, Steady
<1>7. OwnersSound(t) /\ Drafted(t, talk)
  BY <1>5 DEF OwnersSound, Drafted, OwnerFits
<1>8. Present(t, sh, turns, watch, talk)
  <2>1. t.held = TRUE /\ t.raw = TRUE
    BY <1>1, <1>3 DEF Steady
  <2>2. OwnersIn(t, {"prompt"}) # {}
    BY <1>2, <1>3 DEF OwnersIn
  <2>3. \A o \in OwnersIn(t, {"composer"}) : o.of \in Going(turns)
    BY <1>5 DEF OwnersIn, OwnerFits
  <2>. QED BY <2>1, <2>2, <2>3 DEF TermInv, Present
<1>9. Counted(sh, talk)
  BY DEF TermInv, Counted
<1>10. Rests(screen, screen')
  BY <1>1, <1>2, <1>3, <1>4, CalmRests
<1>. QED BY <1>3, <1>4, <1>6, <1>7, <1>8, <1>9, <1>10 DEF TermInv

LEMMA CommandEndsStep ==
  ASSUME TermInv, Alive, CommandEnds
  PROVE  TermInv' /\ Rests(screen, screen')
<1>1. PICK sh \in Shells : sh = shell /\ sh.pc \in {"command", "attempt"}
  BY DEF TermInv, TermTypes, CommandEnds
<1>2. PICK busy \in BOOLEAN : busy = (sh.pc = "command" /\ sh.busy)
  OBVIOUS
<1>3. PICK pc \in ShellPcs : pc = IF sh.drains THEN "drain" ELSE "prompt"
  BY DEF ShellPcs
<1>4. PICK w \in Shells : w = shell' /\ w.pc = pc /\ w.later = sh.later
  <2>1. shell' = [sh EXCEPT !.pc = pc, !.busy = busy]
    BY <1>1, <1>2, <1>3 DEF CommandEnds
  <2>2. [sh EXCEPT !.pc = pc, !.busy = busy] \in Shells
    BY DEF Shells
  <2>. QED BY <2>1, <2>2 DEF Shells
<1>5. UNCHANGED <<watch, turns, line, talk>> /\ screen' = IF sh.drains THEN screen ELSE Acquired(screen, Prompt0)
  BY <1>1 DEF CommandEnds
<1>6. screen.held = TRUE
  BY LiveScreen
<1>7. CASE sh.drains
  <2>1. screen' = screen /\ pc = "drain"
    BY <1>3, <1>5, <1>7
  <2>2. TermTypes'
    BY <1>4, <1>5, <2>1 DEF TermInv, TermTypes
  <2>3. Present(screen', shell', turns', watch', talk')
    BY <1>4, <1>5, <1>6, <2>1 DEF TermInv, Present
  <2>4. Counted(shell', talk') /\ Drafted(screen', talk')
    BY <1>1, <1>4, <1>5, <2>1 DEF TermInv, Counted, Drafted
  <2>. QED BY <2>1, <2>2, <2>3, <2>4 DEF TermInv, Rests
<1>8. CASE ~sh.drains
  <2>1. screen' = Acquired(screen, Prompt0) /\ pc = "prompt"
    BY <1>3, <1>5, <1>8
  <2>. QED BY <1>1, <1>4, <1>5, <1>6, <2>1, Asked
<1>. QED BY <1>7, <1>8

LEMMA BlankFits ==
  ASSUME TermInv, NEW e \in ToSet(screen.owners), NEW ts, NEW tk, Going(ts) = Going(turns)
  PROVE  OwnerFits(Blank(e), ts, tk)
<1>1. e \in Owner /\ OwnerFits(e, turns, talk)
  BY Fits
<1>. QED BY <1>1, BlankIs DEF OwnerFits, OwnerSound

LEMMA EscKeyStep ==
  ASSUME TermInv, Alive, EscKey
  PROVE  TermInv' /\ Rests(screen, screen')
<1>1. PICK s \in Screens : /\ s = screen /\ s.held = TRUE /\ s.held /\ ScreenSound(s) /\ s.raw = TRUE
                           /\ s.made <= MaxEvents /\ OwnersSound(s)
  BY LiveScreen
<1>2. PICK t \in Screens : /\ t = (IF Exclusive THEN screen ELSE Emptied(screen))
                           /\ Steady(s, t) /\ t.raw = TRUE /\ ScreenSound(t) /\ Calm(s, t)
                           /\ \A e \in ToSet(t.owners) : OwnerFits(e, turns, talk)
                           /\ OwnersIn(s, {"prompt"}) # {} => OwnersIn(t, {"prompt"}) # {}
  <2>1. CASE Exclusive
    BY <1>1, <2>1, Fits DEF Steady, Calm
  <2>2. CASE ~Exclusive
    <3>1. PICK t \in Screens : /\ t = Emptied(s) /\ ToSet(t.owners) = {Blank(e) : e \in ToSet(s.owners)}
                               /\ Steady(s, t) /\ t.raw = s.raw /\ ScreenSound(t) /\ Calm(s, t)
      BY <1>1, EmptiedIs
    <3>2. \A e \in ToSet(t.owners) : OwnerFits(e, turns, talk)
      BY <1>1, <3>1, BlankFits
    <3>3. OwnersIn(s, {"prompt"}) # {} => OwnersIn(t, {"prompt"}) # {}
      BY <1>1, <3>1, Fits, BlankIs DEF OwnersIn
    <3>. QED BY <1>1, <2>2, <3>1, <3>2, <3>3
  <2>. QED BY <2>1, <2>2
<1>3. t.held = TRUE /\ t.held
  BY <1>1, <1>2 DEF Steady
<1>4. PICK u \in Screens : /\ u = screen' /\ Steady(s, u) /\ u.raw = TRUE /\ ScreenSound(u) /\ Calm(s, u)
                           /\ ToSet(u.owners) \subseteq ToSet(t.owners)
                           /\ OwnersIn(t, {"prompt"}) # {} => OwnersIn(u, {"prompt"}) # {}
  <2>1. CASE watch # 0
    <3>1. PICK u \in Screens :
            /\ u = ProgressEnded(t) /\ ToSet(u.owners) = {e \in ToSet(t.owners) : e.kind # "progress"}
            /\ Steady(t, u) /\ (t.raw => u.raw) /\ ScreenSound(u) /\ Calm(t, u)
      BY <1>2, <1>3, ProgressEndedIs
    <3>2. u = screen' /\ u.raw = TRUE /\ Steady(s, u) /\ Calm(s, u)
      BY <1>2, <2>1, <3>1, CalmTrans DEF EscKey, Steady, Screens
    <3>. QED BY <3>1, <3>2 DEF OwnersIn
  <2>2. CASE watch = 0
    BY <1>2, <2>2 DEF EscKey
  <2>. QED BY <2>1, <2>2
<1>5. UNCHANGED <<shell, turns, line>> /\ watch' = 0
  BY DEF EscKey
<1>6. /\ talk' \in Talks /\ talk'.steering = talk.steering /\ talk'.taken = talk.taken
      /\ talk'.entered = talk.entered
      /\ talk'.deaf = IF watch # 0 THEN Going(turns) ELSE talk.deaf
  <2>1. PICK b \in BOOLEAN : b = TurnRuns
    BY DEF TurnRuns
  <2>2. Going(turns) \in SUBSET Nat
    BY DEF TermInv, TermTypes, TurnSeqs, Going
  <2>3. talk' = IF watch # 0 THEN [talk EXCEPT !.aborted = b, !.deaf = Going(turns)] ELSE talk
    BY <2>1, GoingIs DEF EscKey
  <2>. QED BY <2>2, <2>3 DEF TermInv, TermTypes, Talks
<1>7. TermTypes'
  <2>1. watch' \in 0..Len(turns')
    BY <1>5 DEF TermInv, TermTypes, TurnSeqs
  <2>. QED BY <1>1, <1>4, <1>5, <1>6, <2>1 DEF TermInv, TermTypes, Steady
<1>8. \A e \in ToSet(u.owners) : OwnerFits(e, turns, talk')
  BY <1>2, <1>4, <1>6 DEF OwnerFits
<1>9. OwnersSound(u) /\ Drafted(u, talk')
  BY <1>8 DEF OwnersSound, Drafted, OwnerFits
<1>10. Present(u, shell, turns, 0, talk')
  <2>1. u.held = TRUE
    BY <1>1, <1>4 DEF Steady
  <2>2. \A e \in OwnersIn(u, {"composer"}) : e.of \in Going(turns)
    BY <1>8 DEF OwnersIn, OwnerFits
  <2>3. Going(turns) # {} => talk'.deaf \cap Going(turns) # {}
    BY <1>6 DEF TermInv, Present
  <2>. QED BY <1>1, <1>6, <1>2, <1>4, <2>1, <2>2, <2>3 DEF TermInv, Present
<1>11. Counted(shell, talk')
  BY <1>6 DEF TermInv, Counted
<1>. QED BY <1>1, <1>4, <1>5, <1>7, <1>9, <1>10, <1>11, CalmRests DEF TermInv

LEMMA ProcessEndsStep ==
  ASSUME TermInv, Alive, ProcessEnds
  PROVE  TermInv' /\ Rests(screen, screen')
<1>1. PICK s \in Screens : s = screen /\ s.held /\ ScreenSound(s) /\ s.made <= MaxEvents
  BY LiveScreen
<1>2. PICK t \in Screens : /\ t = ScreenGivenBack(s) /\ t.owners = <<>> /\ ~t.held /\ t.made = s.made
                           /\ ScreenSound(t) /\ Calm(s, t)
  BY <1>1, GivenBackIs
<1>3. PICK sh \in Shells : sh = shell' /\ sh.pc = "out" /\ sh.later = <<>>
  <2>1. <<>> \in Waiting
    BY DEF Waiting
  <2>2. [pc |-> "out", drains |-> FALSE, busy |-> FALSE, later |-> <<>>] \in Shells
    BY <2>1 DEF Shells, ShellPcs
  <2>3. shell' = [pc |-> "out", drains |-> FALSE, busy |-> FALSE, later |-> <<>>]
    BY DEF ProcessEnds, Fresh
  <2>. QED BY <2>2, <2>3
<1>4. PICK tk \in Talks : /\ tk = talk' /\ tk.steering = <<>>
                          /\ \A x \in Inputs : tk.taken[x] = 0 /\ tk.entered[x] = 0
  <2>1. <<>> \in Waiting /\ [x \in Inputs |-> 0] \in Tallies
    BY DEF Waiting, Tallies
  <2>2. Silent \in Talks
    BY <2>1 DEF Talks, Silent
  <2>3. talk' = Silent
    BY DEF ProcessEnds
  <2>. QED BY <2>2, <2>3 DEF Silent
<1>5. screen' = t /\ watch' = 0 /\ turns' = <<>> /\ line' = <<>>
  BY <1>1, <1>2 DEF ProcessEnds
<1>6. ToSet(<<>>) = {} /\ <<>> \in Seq(Turn) /\ <<>> \in Seq(Nat) /\ 0 \in 0..Len(<<>>)
  BY DEF ToSet
<1>7. Going(turns') = {}
  BY <1>5 DEF Going
<1>8. TermTypes'
  BY <1>1, <1>2, <1>3, <1>4, <1>5, <1>6 DEF TermTypes, TurnSeqs, Numbers
<1>9. Present(t, sh, turns', 0, tk)
  BY <1>2, <1>3, <1>4, <1>6, <1>7 DEF Present, OwnersIn
<1>10. Counted(sh, tk)
  <2>1. \A x : Times(x, <<>>) = 0
    BY TimesOne
  <2>. QED BY <1>3, <1>4, <2>1 DEF Counted
<1>11. OwnersSound(t) /\ Drafted(t, tk)
  BY <1>2, <1>6 DEF OwnersSound, Drafted
<1>. QED BY <1>1, <1>2, <1>3, <1>4, <1>5, <1>8, <1>9, <1>10, <1>11, CalmRests DEF TermInv

\* The invariant after a command has started.
LEMMA CommandStarted ==
  ASSUME TermInv, NEW s \in Screens, s.held = TRUE, s.raw = TRUE, ScreenSound(s), s.made <= MaxEvents,
         Calm(screen, s), screen' = s, NEW sh \in Shells, StartsCommand(sh),
         NEW tk \in Talks, talk' = tk, tk.deaf = talk.deaf, Counted(sh, tk),
         \A e \in ToSet(s.owners) : OwnerFits(e, turns, tk), UNCHANGED <<watch, turns, line>>,
         tk.steering # <<>> => Going(turns) # {}
  PROVE  TermInv' /\ Rests(screen, screen')
<1>1. PICK w \in Shells : w = shell' /\ w.pc \in {"command", "attempt"} /\ w.later = sh.later
  <2>1. "command" \in ShellPcs /\ "attempt" \in ShellPcs
    BY DEF ShellPcs
  <2>2. CASE shell' = [sh EXCEPT !.pc = "command"]
    BY <2>1, <2>2 DEF Shells
  <2>3. CASE shell' = [sh EXCEPT !.pc = "attempt", !.busy = TRUE]
    <3>1. [sh EXCEPT !.pc = "attempt", !.busy = TRUE] \in Shells
      BY <2>1 DEF Shells
    <3>2. /\ [sh EXCEPT !.pc = "attempt", !.busy = TRUE].pc = "attempt"
          /\ [sh EXCEPT !.pc = "attempt", !.busy = TRUE].later = sh.later
      BY DEF Shells
    <3>. QED BY <2>3, <3>1, <3>2
  <2>. QED BY <2>2, <2>3 DEF StartsCommand
<1>2. TermTypes'
  BY <1>1 DEF TermInv, TermTypes
<1>3. OwnersSound(s) /\ Drafted(s, tk)
  BY DEF OwnersSound, Drafted, OwnerFits
<1>4. Present(s, w, turns, watch, tk)
  <2>1. \A e \in OwnersIn(s, {"composer"}) : e.of \in Going(turns)
    BY DEF OwnersIn, OwnerFits
  <2>. QED BY <1>1, <2>1 DEF TermInv, Present
<1>5. Counted(w, tk)
  BY <1>1 DEF Counted
<1>. QED BY <1>1, <1>2, <1>3, <1>4, <1>5, CalmRests DEF TermInv

\* A text is taken once more.
LEMMA Takes ==
  ASSUME NEW tk \in Talks, NEW x \in Inputs
  PROVE  LET u == [tk EXCEPT !.taken[x] = @ + 1]
         IN  /\ u \in Talks /\ u.steering = tk.steering /\ u.entered = tk.entered /\ u.deaf = tk.deaf
             /\ \A y \in Inputs : u.taken[y] = tk.taken[y] + (IF y = x THEN 1 ELSE 0)
<1>1. PICK f \in Tallies : f = [tk.taken EXCEPT ![x] = @ + 1]
                           /\ \A y \in Inputs : f[y] = tk.taken[y] + (IF y = x THEN 1 ELSE 0)
  <2>1. tk.taken \in [Inputs -> Nat]
    BY DEF Talks, Tallies
  <2>2. [tk.taken EXCEPT ![x] = @ + 1] \in [Inputs -> Nat]
    BY <2>1
  <2>3. \A y \in Inputs : [tk.taken EXCEPT ![x] = @ + 1][y]
                            = tk.taken[y] + (IF y = x THEN 1 ELSE 0)
    BY <2>1
  <2>. QED BY <2>2, <2>3 DEF Tallies
<1>2. [tk EXCEPT !.taken[x] = @ + 1] = [tk EXCEPT !.taken = f]
  BY <1>1 DEF Talks
<1>3. [tk EXCEPT !.taken = f] \in Talks
  BY DEF Talks
<1>. QED BY <1>1, <1>2, <1>3 DEF Talks

LEMMA DrainStep == ASSUME TermInv, Drain PROVE TermInv' /\ Rests(screen, screen')
<1>1. PICK s \in Screens : /\ s = screen /\ s.held = TRUE /\ ScreenSound(s) /\ s.raw = TRUE
                           /\ s.made <= MaxEvents
  BY DEF TermInv, TermTypes, Drain, Present, Screens
<1>2. PICK sh0 \in Shells, tk0 \in Talks : /\ sh0 = shell /\ tk0 = talk /\ sh0.pc = "drain"
                                           /\ sh0.later \in Waiting
  BY DEF TermInv, TermTypes, Drain, Shells
<1>3. CASE shell.later = <<>>
  <2>1. screen' = Acquired(screen, Prompt0) /\ UNCHANGED <<watch, turns, line, talk>>
    BY <1>3 DEF Drain
  <2>2. PICK sh \in Shells : sh = shell' /\ sh.pc = "prompt" /\ sh.later = shell.later
    <3>1. shell' = [sh0 EXCEPT !.pc = "prompt", !.drains = FALSE]
      BY <1>2, <1>3 DEF Drain
    <3>2. [sh0 EXCEPT !.pc = "prompt", !.drains = FALSE] \in Shells
      BY DEF Shells, ShellPcs
    <3>. QED BY <1>2, <3>1, <3>2 DEF Shells
  <2>. QED BY <1>1, <2>1, <2>2, Asked
<1>4. CASE shell.later # <<>>
  <2>1. PICK x \in Inputs : x = Head(sh0.later)
    BY <1>2, <1>4 DEF Waiting
  <2>2. PICK l \in Waiting : /\ l = Tail(sh0.later)
                             /\ \A y : Times(y, sh0.later) = Times(y, l) + (IF y = x THEN 1 ELSE 0)
    <3>1. sh0.later \in Seq(Inputs) /\ sh0.later # <<>>
      BY <1>2, <1>4 DEF Waiting
    <3>2. Tail(sh0.later) \in Waiting
      BY <3>1 DEF Waiting
    <3>. QED BY <2>1, <3>1, <3>2, TimesTail
  <2>3. PICK sh \in Shells : /\ sh = [shell EXCEPT !.later = Tail(@), !.drains = TRUE]
                             /\ sh.later = l /\ sh.pc = "drain"
    <3>1. [sh0 EXCEPT !.later = l, !.drains = TRUE] \in Shells
      BY DEF Shells
    <3>2. [sh0 EXCEPT !.later = l, !.drains = TRUE] = [shell EXCEPT !.later = Tail(@), !.drains = TRUE]
      BY <1>2, <2>2
    <3>. QED BY <1>2, <3>1, <3>2 DEF Shells
  <2>4. PICK tk \in Talks : /\ tk = [talk EXCEPT !.taken[x] = @ + 1]
                            /\ tk.steering = tk0.steering /\ tk.entered = tk0.entered
                            /\ tk.deaf = tk0.deaf
                            /\ \A y \in Inputs : tk.taken[y] = tk0.taken[y] + (IF y = x THEN 1 ELSE 0)
    BY <1>2, Takes
  <2>5. talk' = tk
    BY <1>2, <1>4, <2>1, <2>4 DEF Drain
  <2>6. Counted(sh, tk)
    <3>. SUFFICES ASSUME NEW y \in Inputs
                  PROVE  Times(y, tk.steering) + Times(y, sh.later) + tk.taken[y] = tk.entered[y]
      BY DEF Counted
    <3>1. tk0.steering \in Waiting /\ tk0.taken \in [Inputs -> Nat]
      BY DEF Talks, Tallies
    <3>2. PICK a \in Nat, b \in Nat, c \in Nat :
            a = Times(y, tk0.steering) /\ b = Times(y, l) /\ c = tk0.taken[y]
      BY <3>1, TimesNat
    <3>3. a + Times(y, sh0.later) + c = tk0.entered[y]
      BY <1>2, <3>2 DEF TermInv, Counted
    <3>4. Times(y, sh0.later) = b + (IF y = x THEN 1 ELSE 0)
      BY <2>2, <3>2
    <3>5. tk.taken[y] = c + (IF y = x THEN 1 ELSE 0)
      BY <2>4, <3>2
    <3>6. Times(y, tk.steering) = a /\ Times(y, sh.later) = b /\ tk.entered[y] = tk0.entered[y]
      BY <2>3, <2>4, <3>2
    <3>7. CASE y = x
      BY <3>2, <3>3, <3>4, <3>5, <3>6, <3>7
    <3>8. CASE y # x
      BY <3>2, <3>3, <3>4, <3>5, <3>6, <3>8
    <3>. QED BY <3>7, <3>8
  <2>7. \A e \in ToSet(s.owners) : OwnerFits(e, turns, tk)
    BY <1>1, <1>2, <2>4, Fits DEF OwnerFits
  <2>8. Calm(screen, s)
    BY <1>1 DEF Calm
  <2>9. CASE StartsCommand(sh) /\ UNCHANGED <<screen, watch, turns, line>>
    <3>1. tk.steering # <<>> => Going(turns) # {}
      BY <1>2, <2>4 DEF TermInv, Present
    <3>. QED BY <1>1, <1>2, <2>3, <2>4, <2>5, <2>6, <2>7, <2>8, <2>9, <3>1, CommandStarted
  <2>10. CASE StartsTurn(screen, sh, "repl")
    BY <1>1, <2>3, <2>5, <2>6, <2>7, <2>8, <2>10, StartedInv
  <2>11. \/ StartsCommand(sh) /\ UNCHANGED <<screen, watch, turns, line>>
         \/ StartsTurn(screen, sh, "repl")
    BY <1>4, <2>3 DEF Drain
  <2>. QED BY <2>9, <2>10, <2>11
<1>. QED BY <1>3, <1>4

\* Where the text goes that n composers held: n times more it waits.
WaitsMore(sr, tr, sh, tk, x, n) ==
  \A y : Times(y, tr.steering) + Times(y, sr.later)
          = Times(y, tk.steering) + Times(y, sh.later) + (IF y = x THEN n ELSE 0)

LEMMA RoutedIs ==
  ASSUME NEW sh \in Shells, NEW tk \in Talks, NEW x \in Inputs, NEW n \in Nat,
         NEW steers \in BOOLEAN
  PROVE  \E sr \in Shells, tr \in Talks :
           /\ Routed(sh, tk, x, n, steers) = <<sr, tr>> /\ sr.pc = sh.pc
           /\ tr.taken = tk.taken /\ tr.entered = tk.entered /\ tr.deaf = tk.deaf
           /\ tr.steering # <<>> => tk.steering # <<>> \/ n # 0
           /\ WaitsMore(sr, tr, sh, tk, x, n)
<1>1. PICK xs \in Waiting : xs = [k \in 1..n |-> x]
                            /\ \A y : Times(y, xs) = IF y = x THEN n ELSE 0
  <2>1. PICK xs : xs = [k \in 1..n |-> x]
    OBVIOUS
  <2>2. xs \in Seq(Inputs) /\ Len(xs) = n /\ \A k \in DOMAIN xs : xs[k] = x
    BY <2>1
  <2>3. \A y : Times(y, xs) = IF y = x THEN n ELSE 0
    BY <2>2, TimesSame
  <2>. QED BY <2>1, <2>2, <2>3 DEF Waiting
<1>2. sh.later \in Waiting /\ tk.steering \in Waiting
  BY DEF Shells, Talks
<1>3. PICK l \in Waiting, st \in Waiting : l = sh.later \o xs /\ st = tk.steering \o xs
  BY <1>2, LaterIs
<1>. DEFINE u == [tk EXCEPT !.steering = st]
            w == [sh EXCEPT !.later = l]
<1>4. /\ u \in Talks /\ u.taken = tk.taken /\ u.entered = tk.entered /\ u.deaf = tk.deaf
      /\ u.steering = st
  BY DEF Talks
<1>5. w \in Shells /\ w.pc = sh.pc /\ w.later = l
  BY DEF Shells
<1>6. Routed(sh, tk, x, n, steers) = IF steers THEN <<sh, u>> ELSE <<w, tk>>
  BY <1>1, <1>3 DEF Routed
<1>10. st # <<>> => tk.steering # <<>> \/ n # 0
  <2>1. ASSUME n = 0, tk.steering = <<>> PROVE st = <<>>
    <3>1. xs = <<>>
      BY <1>1, <2>1
    <3>. QED BY <1>3, <2>1, <3>1
  <2>. QED BY <2>1
<1>. HIDE DEF u, w
<1>7. ASSUME NEW y
      PROVE  /\ Times(y, st) + Times(y, sh.later)
                  = Times(y, tk.steering) + Times(y, sh.later) + (IF y = x THEN n ELSE 0)
             /\ Times(y, tk.steering) + Times(y, l)
                  = Times(y, tk.steering) + Times(y, sh.later) + (IF y = x THEN n ELSE 0)
  <2>1. PICK a \in Nat, b \in Nat, c \in Nat :
          a = Times(y, tk.steering) /\ b = Times(y, sh.later) /\ c = IF y = x THEN n ELSE 0
    BY <1>2, TimesNat
  <2>2. Times(y, st) = a + c
    <3>1. Times(y, tk.steering \o xs) = Times(y, tk.steering) + Times(y, xs)
      BY <1>2, LaterIs
    <3>. QED BY <1>1, <1>3, <2>1, <3>1
  <2>3. Times(y, l) = b + c
    <3>1. Times(y, sh.later \o xs) = Times(y, sh.later) + Times(y, xs)
      BY <1>2, LaterIs
    <3>. QED BY <1>1, <1>3, <2>1, <3>1
  <2>. QED BY <2>1, <2>2, <2>3
<1>8. CASE steers
  <2>1. Routed(sh, tk, x, n, steers) = <<sh, u>>
    BY <1>6, <1>8
  <2>2. WaitsMore(sh, u, sh, tk, x, n)
    BY <1>4, <1>7 DEF WaitsMore
  <2>. QED BY <1>4, <1>10, <2>1, <2>2
<1>9. CASE ~steers
  <2>1. Routed(sh, tk, x, n, steers) = <<w, tk>>
    BY <1>6, <1>9
  <2>2. WaitsMore(w, tk, sh, tk, x, n)
    BY <1>5, <1>7 DEF WaitsMore
  <2>. QED BY <1>5, <2>1, <2>2
<1>. QED BY <1>8, <1>9

\* The fields that hold x: composers, and the prompt if it is among them.
LEMMA FullIs ==
  ASSUME TermInv, NEW x \in Inputs, "none" \notin Inputs
  PROVE  LET full == {e \in Fields : e.draft = x}
             n    == Cardinality({e \in full : e.kind = "composer"})
             one  == IF "prompt" \in {e.kind : e \in full} THEN 1 ELSE 0
         IN  n \in Nat /\ Cardinality(full) = n + one
<1>1. PICK os : os = ToSet(screen.owners) /\ os \subseteq Owner /\ IsFiniteSet(os)
  BY OwnersAre DEF TermInv, TermTypes
<1>. DEFINE full == {e \in Fields : e.draft = x}
            A == {e \in full : e.kind = "composer"}
            p == [kind |-> "prompt", of |-> 0, draft |-> x]
            B == IF "prompt" \in {e.kind : e \in full} THEN {p} ELSE {}
<1>2. full \subseteq os /\ \A e \in full : e.kind = "composer" \/ e.kind = "prompt"
  BY <1>1 DEF Fields, Owners, OwnersIn
<1>3. \A e \in full : e.kind = "prompt" => e = p
  <2>. SUFFICES ASSUME NEW e \in full, e.kind = "prompt" PROVE e = p
    OBVIOUS
  <2>1. e \in Owner /\ e.draft = x
    BY <1>1, <1>2
  <2>2. e.of = 0
    BY <1>1, <1>2 DEF TermInv, OwnersSound, OwnerSound
  <2>. QED BY <2>1, <2>2 DEF Owner
<1>. HIDE DEF full
<1>4. full = A \cup B /\ A \cap B = {}
  <2>1. "prompt" \in {e.kind : e \in full} => p \in full
    BY <1>3
  <2>2. p.kind # "composer"
    OBVIOUS
  <2>. HIDE DEF p
  <2>. QED BY <1>2, <1>3, <2>1, <2>2
<1>5. IsFiniteSet(A) /\ IsFiniteSet(B)
  <2>1. A \subseteq os
    BY <1>2
  <2>2. IsFiniteSet(A)
    <3>. HIDE DEF A
    <3>. QED BY <1>1, <2>1, FS_Subset
  <2>3. IsFiniteSet(B)
    BY FS_Singleton, FS_EmptySet
  <2>. QED BY <2>2, <2>3
<1>6. PICK n \in Nat, one \in Nat : n = Cardinality(A) /\ one = Cardinality(B)
  <2>. HIDE DEF A, B
  <2>. QED BY <1>5, FS_CardinalityType
<1>7. Cardinality(full) = n + one
  <2>. HIDE DEF A, B
  <2>1. Cardinality(A \cup B) = Cardinality(A) + Cardinality(B) - Cardinality(A \cap B)
    BY <1>5, FS_Union
  <2>2. Cardinality(A \cap B) = 0
    BY <1>4, FS_EmptySet
  <2>. QED BY <1>4, <1>6, <2>1, <2>2
<1>8. one = IF "prompt" \in {e.kind : e \in full} THEN 1 ELSE 0
  BY <1>6, FS_Singleton, FS_EmptySet
<1>9. n = Cardinality({e \in full : e.kind = "composer"})
  BY <1>6
<1>. QED BY <1>6, <1>7, <1>8, <1>9 DEF full

LEMMA EnterStep ==
  ASSUME TermInv, Alive, NEW x \in Inputs, Enter(x)
  PROVE  TermInv' /\ Rests(screen, screen')
<1>. DEFINE full == {e \in Fields : e.draft = x}
            from == "prompt" \in {e.kind : e \in full}
            comps == {e \in full : e.kind = "composer"}
<1>1. PICK s \in Screens : /\ s = screen /\ s.held = TRUE /\ s.held /\ ScreenSound(s) /\ s.raw = TRUE
                           /\ s.made <= MaxEvents /\ OwnersSound(s)
  BY LiveScreen
<1>2. PICK sh \in Shells, tk \in Talks :
        /\ sh = shell /\ tk = talk /\ sh.pc # "out" /\ Counted(sh, tk)
        /\ sh.later \in Waiting /\ tk.steering \in Waiting
        /\ tk.taken \in [Inputs -> Nat] /\ tk.entered \in [Inputs -> Nat]
  BY <1>1 DEF TermInv, TermTypes, Present, Shells, Talks, Tallies
<1>3. PICK n \in Nat, c \in Nat, fp \in BOOLEAN :
        /\ n = Cardinality(comps) /\ c = Cardinality(full) /\ (fp <=> from)
        /\ c = n + (IF fp THEN 1 ELSE 0)
  <2>1. PICK fp \in BOOLEAN : fp <=> from
    <3>. HIDE DEF from
    <3>. QED OBVIOUS
  <2>2. "none" \notin Inputs
    BY TerminalConstants DEF Inputs
  <2>3. Cardinality(comps) \in Nat
        /\ Cardinality(full) = Cardinality(comps) + (IF from THEN 1 ELSE 0)
    BY <2>2, FullIs
  <2>. HIDE DEF full, from, comps
  <2>4. PICK n \in Nat : n = Cardinality(comps)
    BY <2>3
  <2>5. PICK c \in Nat : c = Cardinality(full) /\ c = n + (IF fp THEN 1 ELSE 0)
    BY <2>1, <2>3, <2>4
  <2>. QED BY <2>1, <2>4, <2>5
<1>4. PICK steers \in BOOLEAN :
        /\ ~Exclusive /\ full # {}
        /\ LET r == Routed(sh, [tk EXCEPT !.entered[x] = c], x, n, steers)
               t == Released(Emptied(s), IF fp THEN {Prompt0} ELSE {})
           IN  /\ talk' = IF fp THEN [r[2] EXCEPT !.taken[x] = @ + 1] ELSE r[2]
               /\ \/ fp /\ x \in Texts /\ StartsTurn(t, r[1], "repl")
                  \/ fp /\ screen' = t /\ StartsCommand(r[1]) /\ UNCHANGED <<watch, turns, line>>
                  \/ ~fp /\ screen' = t /\ shell' = r[1] /\ UNCHANGED <<watch, turns, line>>
  <2>1. Prompt0.kind = "prompt"
    BY DEF Prompt0
  <2>2. Steers(x) \subseteq BOOLEAN
    BY DEF Steers, RunIsLocal, TurnRuns
  <2>. HIDE DEF full, comps
  <2>. QED BY <1>1, <1>2, <1>3, <2>1, <2>2 DEF Enter, full, comps
<1>5. PICK e0 \in full : e0.draft = x /\ e0 \in ToSet(screen.owners)
  BY <1>4 DEF Fields, Owners, OwnersIn
<1>6. tk.entered[x] = 0
  <2>1. x # "none"
    BY TerminalConstants DEF Inputs
  <2>. QED BY <1>2, <1>5, <2>1, Fits DEF OwnerFits
<1>. HIDE DEF full, from, comps
<1>7. PICK t0 \in Talks :
        /\ t0 = [tk EXCEPT !.entered[x] = c] /\ t0.steering = tk.steering /\ t0.taken = tk.taken
        /\ t0.deaf = tk.deaf /\ \A y \in Inputs : t0.entered[y] = IF y = x THEN c ELSE tk.entered[y]
  <2>1. PICK f \in Tallies : f = [tk.entered EXCEPT ![x] = c]
                             /\ \A y \in Inputs : f[y] = IF y = x THEN c ELSE tk.entered[y]
    <3>1. [tk.entered EXCEPT ![x] = c] \in Tallies
      BY <1>2 DEF Tallies
    <3>. QED BY <1>2, <3>1
  <2>2. [tk EXCEPT !.entered = f] \in Talks
    BY DEF Talks
  <2>3. [tk EXCEPT !.entered[x] = c] = [tk EXCEPT !.entered = f]
    BY <2>1 DEF Talks
  <2>. QED BY <2>1, <2>2, <2>3 DEF Talks
<1>8. PICK sr \in Shells, tr \in Talks :
        /\ Routed(sh, t0, x, n, steers) = <<sr, tr>> /\ sr.pc = sh.pc
        /\ tr.taken = t0.taken /\ tr.entered = t0.entered /\ tr.deaf = t0.deaf
        /\ tr.steering # <<>> => t0.steering # <<>> \/ n # 0
        /\ WaitsMore(sr, tr, sh, t0, x, n)
  BY RoutedIs
<1>9. PICK tt \in Talks :
        /\ tt = (IF fp THEN [tr EXCEPT !.taken[x] = @ + 1] ELSE tr)
        /\ tt.steering = tr.steering /\ tt.entered = tr.entered /\ tt.deaf = tr.deaf
        /\ \A y \in Inputs : tt.taken[y] = tr.taken[y] + (IF y = x /\ fp THEN 1 ELSE 0)
  <2>1. CASE fp
    <3>1. PICK u \in Talks :
            /\ u = [tr EXCEPT !.taken[x] = @ + 1]
            /\ u.steering = tr.steering /\ u.entered = tr.entered /\ u.deaf = tr.deaf
            /\ \A y \in Inputs : u.taken[y] = tr.taken[y] + (IF y = x THEN 1 ELSE 0)
      BY Takes
    <3>. QED BY <2>1, <3>1
  <2>2. CASE ~fp
    <3>1. \A y \in Inputs : tr.taken[y] \in Nat
      BY DEF Talks, Tallies
    <3>. QED BY <2>2, <3>1
  <2>. QED BY <2>1, <2>2
<1>10. Counted(sr, tt)
  <2>. SUFFICES ASSUME NEW y \in Inputs
                PROVE  Times(y, tt.steering) + Times(y, sr.later) + tt.taken[y] = tt.entered[y]
    BY DEF Counted
  <2>1. PICK a \in Nat, b \in Nat, d \in Nat, k \in Nat :
          /\ a = Times(y, tk.steering) /\ b = Times(y, sh.later) /\ d = tk.taken[y]
          /\ k = tk.entered[y]
    BY <1>2, TimesNat
  <2>2. a + b + d = k
    BY <1>2, <2>1 DEF Counted
  <2>3. PICK p \in Nat, q \in Nat : p = Times(y, tr.steering) /\ q = Times(y, sr.later)
    <3>1. tr.steering \in Waiting /\ sr.later \in Waiting
      BY DEF Talks, Shells
    <3>. QED BY <3>1, TimesNat
  <2>4. p + q = a + b + (IF y = x THEN n ELSE 0)
    <3>1. Times(y, tr.steering) + Times(y, sr.later)
            = Times(y, t0.steering) + Times(y, sh.later) + (IF y = x THEN n ELSE 0)
      BY <1>8 DEF WaitsMore
    <3>. QED BY <1>7, <2>1, <2>3, <3>1
  <2>5. tt.taken[y] = d + (IF y = x /\ fp THEN 1 ELSE 0)
    <3>1. tt.taken[y] = tr.taken[y] + (IF y = x /\ fp THEN 1 ELSE 0)
      BY <1>9
    <3>2. tr.taken[y] = d
      BY <1>7, <1>8, <2>1
    <3>. QED BY <3>1, <3>2
  <2>6. tt.entered[y] = IF y = x THEN c ELSE k
    <3>1. tt.entered = t0.entered
      BY <1>8, <1>9
    <3>. QED BY <1>7, <2>1, <3>1
  <2>7. Times(y, tt.steering) = p
    BY <1>9, <2>3
  <2>8. CASE y # x
    <3>1. p + q = a + b
      BY <2>4, <2>8
    <3>2. tt.taken[y] = d /\ tt.entered[y] = k
      BY <2>5, <2>6, <2>8
    <3>3. p + q + d = k
      BY <2>2, <3>1
    <3>. QED BY <2>3, <2>7, <3>2, <3>3
  <2>9. CASE y = x
    <3>1. a = 0 /\ b = 0 /\ d = 0
      BY <1>6, <2>1, <2>2, <2>9
    <3>2. p + q = n /\ tt.taken[y] = (IF fp THEN 1 ELSE 0) /\ tt.entered[y] = c
      BY <2>4, <2>5, <2>6, <2>9, <3>1
    <3>. QED BY <1>3, <2>3, <2>7, <3>2
  <2>. QED BY <2>8, <2>9
<1>11. PICK t1 \in Screens : /\ t1 = Emptied(s) /\ ToSet(t1.owners) = {Blank(e) : e \in ToSet(s.owners)}
                             /\ Steady(s, t1) /\ t1.raw = s.raw /\ ScreenSound(t1) /\ Calm(s, t1)
  BY <1>1, EmptiedIs
<1>12. PICK es : es = IF fp THEN {Prompt0} ELSE {}
  OBVIOUS
<1>13. PICK t \in Screens : /\ t = Released(t1, es) /\ ToSet(t.owners) = ToSet(t1.owners) \ es
                            /\ Steady(t1, t) /\ (es # {} \/ t1.raw = t1.held => t.raw = t.held)
                            /\ ScreenSound(t) /\ Calm(t1, t)
  <2>1. t1.held
    BY <1>1, <1>11 DEF Steady
  <2>. QED BY <1>11, <2>1, ReleasedIs
<1>14. t.held = TRUE /\ t.raw = TRUE /\ t.made <= MaxEvents /\ Calm(screen, t)
  BY <1>1, <1>11, <1>13, CalmTrans DEF Steady
<1>15. \A e \in ToSet(t.owners) : OwnerFits(e, turns, tt)
  BY <1>1, <1>11, <1>13, BlankFits
<1>16. /\ talk' = tt
       /\ \/ fp /\ StartsTurn(t, sr, "repl")
          \/ fp /\ screen' = t /\ StartsCommand(sr) /\ UNCHANGED <<watch, turns, line>>
          \/ ~fp /\ screen' = t /\ shell' = sr /\ UNCHANGED <<watch, turns, line>>
  BY <1>4, <1>7, <1>8, <1>9, <1>11, <1>12, <1>13
<1>17. sr.pc # "out" /\ tt.deaf = talk.deaf
  BY <1>2, <1>7, <1>8, <1>9
<1>21. tt.steering # <<>> => Going(turns) # {}
  <2>1. CASE tk.steering # <<>>
    BY <1>2, <2>1 DEF TermInv, Present
  <2>2. CASE n # 0
    <3>1. comps # {}
      <4>. HIDE DEF comps
      <4>. QED BY <1>3, <2>2, FS_EmptySet
    <3>2. PICK e \in ToSet(s.owners) : e.kind = "composer"
      BY <1>1, <3>1 DEF comps, full, Fields, Owners, OwnersIn
    <3>. QED BY <1>1, <3>2 DEF TermInv, Present, OwnersIn
  <2>. QED BY <1>7, <1>8, <1>9, <2>1, <2>2
<1>18. CASE StartsTurn(t, sr, "repl")
  BY <1>10, <1>13, <1>14, <1>15, <1>16, <1>17, <1>18, StartedInv
<1>19. CASE screen' = t /\ StartsCommand(sr) /\ UNCHANGED <<watch, turns, line>>
  BY <1>10, <1>13, <1>14, <1>15, <1>16, <1>17, <1>19, <1>21, CommandStarted
<1>20. CASE ~fp /\ screen' = t /\ shell' = sr /\ UNCHANGED <<watch, turns, line>>
  <2>1. TermTypes'
    BY <1>14, <1>16, <1>20 DEF TermInv, TermTypes
  <2>2. OwnersSound(t) /\ Drafted(t, tt)
    BY <1>15 DEF OwnersSound, Drafted, OwnerFits
  <2>3. Present(t, sr, turns, watch, tt)
    <3>1. \A e \in OwnersIn(t, {"composer"}) : e.of \in Going(turns)
      BY <1>15 DEF OwnersIn, OwnerFits
    <3>2. sr.pc = "prompt" => OwnersIn(t, {"prompt"}) # {}
      <4>. SUFFICES ASSUME sr.pc = "prompt" PROVE OwnersIn(t, {"prompt"}) # {}
        OBVIOUS
      <4>1. PICK e \in ToSet(s.owners) : e.kind = "prompt"
        BY <1>1, <1>2, <1>8 DEF TermInv, Present, OwnersIn
      <4>2. Blank(e) \in ToSet(t.owners) /\ Blank(e).kind = "prompt"
        BY <1>1, <1>11, <1>12, <1>13, <1>20, <4>1, Fits, BlankIs
      <4>. QED BY <4>2 DEF OwnersIn
    <3>. QED BY <1>2, <1>8, <1>14, <1>17, <1>21, <3>1, <3>2 DEF TermInv, Present
  <2>. QED BY <1>10, <1>13, <1>14, <1>16, <1>20, <2>1, <2>2, <2>3, CalmRests DEF TermInv
<1>. QED BY <1>16, <1>18, <1>19, <1>20

LEMMA TermInvInit == TermInit => TermInv
<1>. SUFFICES ASSUME TermInit PROVE TermInv
  OBVIOUS
<1>1. PICK a \in BOOLEAN :
        screen = Acquired([alt |-> a, held |-> TRUE, raw |-> TRUE, due |-> FALSE, owners |-> <<>>,
                           made |-> 0, queue |-> <<>>, shown |-> <<>>], Prompt0)
  BY DEF TermInit
<1>2. <<>> \in OwnerSeqs /\ <<>> \in Numbers /\ <<>> \in Waiting /\ <<>> \in TurnSeqs /\ ToSet(<<>>) = {}
  BY DEF OwnerSeqs, Numbers, Waiting, TurnSeqs, ToSet
<1>3. PICK s \in Screens :
        /\ s = [alt |-> a, held |-> TRUE, raw |-> TRUE, due |-> FALSE, owners |-> <<>>,
                made |-> 0, queue |-> <<>>, shown |-> <<>>]
        /\ s.held /\ s.held = TRUE /\ s.made = 0 /\ s.owners = <<>> /\ ~s.due /\ s.shown = <<>>
        /\ s.queue = <<>>
  <2>1. [alt |-> a, held |-> TRUE, raw |-> TRUE, due |-> FALSE, owners |-> <<>>,
         made |-> 0, queue |-> <<>>, shown |-> <<>>] \in Screens
    BY <1>2 DEF Screens
  <2>. QED BY <2>1
<1>4. ScreenSound(s)
  <2>1. Lines(s) = <<>> /\ <<>> \o <<>> = <<>>
    BY <1>3 DEF Lines
  <2>. QED BY <1>3, <2>1 DEF ScreenSound
<1>5. PICK e \in Owner : e = Prompt0 /\ e.kind = "prompt" /\ \A ts, tk : OwnerFits(e, ts, tk)
  BY PromptIs
<1>6. PICK t \in Screens :
        /\ t = Acquired(s, e) /\ ToSet(t.owners) = ToSet(s.owners) \cup {e} /\ Steady(s, t)
        /\ t.raw = t.held /\ ScreenSound(t)
  BY <1>3, <1>4, AcquiredIs
<1>7. screen = t
  BY <1>1, <1>3, <1>5, <1>6
<1>8. ToSet(t.owners) = {e}
  BY <1>2, <1>3, <1>6
<1>9. watch = 0 /\ turns = <<>> /\ line = <<>> /\ shell = Fresh /\ talk = Silent
  BY DEF TermInit
<1>10. shell \in Shells /\ shell.pc = "prompt" /\ shell.later = <<>>
  BY <1>2, <1>9 DEF Fresh, Shells, ShellPcs
<1>11. talk \in Talks /\ talk.steering = <<>>
       /\ \A x \in Inputs : talk.taken[x] = 0 /\ talk.entered[x] = 0
  <2>1. [x \in Inputs |-> 0] \in Tallies
    BY DEF Tallies
  <2>. QED BY <1>2, <1>9, <2>1 DEF Silent, Talks
<1>12. Going(turns) = {}
  BY <1>9 DEF Going
<1>13. TermTypes
  <2>1. 0 \in 0..Len(<<>>) /\ 0 <= MaxEvents
    BY TerminalConstants
  <2>. QED BY <1>2, <1>3, <1>6, <1>7, <1>9, <1>10, <1>11, <2>1 DEF TermTypes, Steady
<1>14. Present(t, shell, turns, watch, talk)
  <2>1. t.held = TRUE /\ t.raw = TRUE
    BY <1>3, <1>6 DEF Steady
  <2>. QED BY <1>5, <1>8, <1>10, <1>11, <1>12, <2>1 DEF Present, OwnersIn
<1>15. Counted(shell, talk)
  <2>1. \A x : Times(x, <<>>) = 0
    BY TimesOne
  <2>. QED BY <1>10, <1>11, <2>1 DEF Counted
<1>16. OwnersSound(t) /\ Drafted(t, talk)
  BY <1>5, <1>8 DEF OwnersSound, Drafted, OwnerFits
<1>. QED BY <1>6, <1>7, <1>13, <1>14, <1>15, <1>16 DEF TermInv

LEMMA TermInvStep ==
  ASSUME TermInv, [TermNext]_termVars PROVE TermInv' /\ Rests(screen, screen')
<1>1. CASE Drain
  BY <1>1, DrainStep
<1>2. CASE Alive /\ shell.pc # "drain" /\ \/ Write \/ Render \/ ScheduleFires \/ RemoteArrives
                                          \/ TurnRunStarts \/ RunTakes \/ TurnRunEnds \/ CommandEnds
  BY <1>2, WriteStep, RenderStep, ScheduleFiresStep, RemoteArrivesStep, TurnRunStartsStep,
     RunTakesStep, TurnRunEndsStep, CommandEndsStep
<1>3. CASE Alive /\ shell.pc # "drain" /\ \/ ProgressBegins \/ ProgressEnds \/ Answer \/ EscKey
                                          \/ CtrlC \/ ProcessEnds
  BY <1>3, ProgressBeginsStep, ProgressEndsStep, AnswerStep, EscKeyStep, CtrlCStep, ProcessEndsStep
<1>4. CASE Alive /\ \/ \E i \in DOMAIN turns : TurnOver(i)
                    \/ \E by \in {"command", "run"} : DialogOpens(by)
                    \/ \E x \in Inputs : Type(x) \/ Enter(x)
  BY <1>4, TurnOverStep, DialogOpensStep, TypeStep, EnterStep
<1>5. CASE UNCHANGED termVars
  <2>1. TermInv'
    BY <1>5 DEF termVars, TermInv, TermTypes, OwnersSound, ScreenSound, Present, Counted, Drafted,
                ExclusiveIn, OwnersIn, Lines
  <2>. QED BY <1>5, <2>1 DEF Rests, termVars
<1>. QED BY <1>1, <1>2, <1>3, <1>4, <1>5 DEF TermNext

\* The inductive invariant holds of every behaviour of the terminal.
THEOREM TermInvHolds == TermSpec => []TermInv
<1>1. TermInit => TermInv
  BY TermInvInit
<1>2. TermInv /\ [TermNext]_termVars => TermInv'
  BY TermInvStep
<1>. QED BY <1>1, <1>2, PTL DEF TermSpec

\* The variables of ScreenManager, the REPL, the watcher and the queue of runs
\* keep their types, and a turn that is named exists.
THEOREM TermTypesHold == TermSpec => []TermTypeOK
<1>1. TermInv => TermTypeOK
  <2>. SUFFICES ASSUME TermInv PROVE TermTypeOK
    OBVIOUS
  <2>1. PICK n \in Nat : n = Len(turns) /\ DOMAIN turns = 1..n /\ \A i \in 1..n : turns[i] \in Turn
    BY DEF TermInv, TermTypes, TurnSeqs
  <2>2. /\ screen.alt \in BOOLEAN /\ screen.held \in BOOLEAN /\ screen.raw \in BOOLEAN
        /\ screen.due \in BOOLEAN /\ screen.made \in 0..MaxEvents
    BY TerminalConstants DEF TermInv, TermTypes, Screens
  <2>3. \A e \in ToSet(screen.owners) :
          e.kind \in {"prompt", "composer", "dialog", "progress"} /\ e.draft \in Inputs \cup {"none"}
    BY Fits DEF Owner, OwnerKinds
  <2>4. shell.pc \in {"prompt", "command", "attempt", "turn", "drain", "out"}
    BY DEF TermInv, TermTypes, Shells, ShellPcs
  <2>. QED BY <2>1, <2>2, <2>3, <2>4 DEF TermInv, TermTypes, TermTypeOK, Turn
<1>. QED BY <1>1, TermInvHolds, PTL

\* As long as the process lives stdin is raw and Ctrl+C reaches somebody who
\* acts on it, but for the named windows (acquireLive, InterruptWatcher).
THEOREM SomebodyHears == TermSpec => []KeysAreHeard
<1>1. TermInv => KeysAreHeard
  <2>. SUFFICES ASSUME TermInv, Alive PROVE KeysAreHeard
    BY DEF KeysAreHeard
  <2>1. screen.raw /\ shell.pc # "out" /\ shell.pc \in ShellPcs
    BY DEF TermInv, TermTypes, Present, Alive, Shells
  <2>2. CASE Exclusive \/ Owners({"prompt"}) # {} \/ MakesSigint \/ shell.pc = "drain"
    BY <2>1, <2>2 DEF KeysAreHeard
  <2>3. CASE ~Exclusive /\ Owners({"prompt"}) = {} /\ ~MakesSigint /\ shell.pc # "drain"
    <3>1. watch = 0 /\ screen.owners # <<>>
      BY <2>3 DEF MakesSigint
    <3>2. CASE Going(turns) # {}
      <4>1. talk.deaf \cap InProgress # {}
        BY <3>1, <3>2, GoingIs DEF TermInv, Present
      <4>. QED BY <2>1, <4>1 DEF KeysAreHeard
    <3>3. CASE Going(turns) = {}
      <4>1. shell.pc \in {"command", "attempt"}
        BY <2>1, <2>3, <3>3 DEF TermInv, Present, Owners, ShellPcs
      <4>2. PICK e \in ToSet(screen.owners) : e \in Owner
        BY <3>1, OwnersAre DEF TermInv, TermTypes
      <4>3. e.kind = "progress"
        BY <2>3, <3>3, <4>2 DEF TermInv, Present, Owner, OwnerKinds, Owners, OwnersIn, Exclusive,
                                ExclusiveIn
      <4>4. Owners({"progress"}) # {}
        BY <4>2, <4>3 DEF Owners, OwnersIn
      <4>. QED BY <2>1, <4>1, <4>4 DEF KeysAreHeard
    <3>. QED BY <3>2, <3>3
  <2>. QED BY <2>2, <2>3
<1>. QED BY <1>1, TermInvHolds, PTL

\* A text that was entered waits or was taken, once for every field that held it
\* and by whichever run came to a boundary, one of another surface included; as
\* steering it waits only while a turn of the terminal is in progress, whose end
\* collects it (routeTypeAhead, takePendingSteering, drainPendingInputs).
THEOREM EnteredTextsAreKept == TermSpec => []EnteredIsKept
<1>1. TermInv => EnteredIsKept
  BY GoingIs DEF TermInv, Counted, Present, EnteredIsKept
<1>. QED BY <1>1, TermInvHolds, PTL

\* Every line printed is on the screen or will be, and nothing is drawn under a
\* dialog (ScreenManager.write, acquireLive, stop; prompt-gate.ts).
THEOREM NoOutputIsLost == TermSpec => OutputIsKept
<1>. DEFINE Kept ==
       /\ IF ~screen'.held THEN screen'.shown = Lines(screen')
          ELSE IF screen'.alt
               THEN screen'.shown = Lines(screen') \/ screen'.due \/ ExclusiveIn(screen')
               ELSE /\ screen'.shown \o screen'.queue = Lines(screen')
                    /\ screen'.queue # <<>> => ExclusiveIn(screen')
       /\ (ExclusiveIn(screen') /\ OwnersIn(screen', {"dialog"}) \subseteq Owners({"dialog"}))
             => screen'.shown = screen.shown
<1>1. TermInv /\ [TermNext]_termVars => [Kept]_termVars
  <2>. SUFFICES ASSUME TermInv, [TermNext]_termVars PROVE Kept
    OBVIOUS
  <2>1. ScreenSound(screen') /\ Rests(screen, screen')
    BY TermInvStep DEF TermInv
  <2>. QED BY <2>1 DEF ScreenSound, Rests, Owners
<1>. QED BY <1>1, TermInvHolds, PTL DEF TermSpec, OutputIsKept
=============================================================================
