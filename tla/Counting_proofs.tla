--------------------------- MODULE Counting_proofs ---------------------------
(***************************************************************************)
(* What Times counts in the sequences the models build.                    *)
(***************************************************************************)
EXTENDS Counting, FunctionTheorems, FiniteSetTheorems, TLAPS

Places(x, s) == {k \in DOMAIN s : s[k] = x}

LEMMA TimesType ==
  ASSUME NEW S, NEW s \in Seq(S), NEW x
  PROVE  IsFiniteSet(Places(x, s)) /\ Times(x, s) = Cardinality(Places(x, s)) /\ Times(x, s) \in Nat
<1>1. PICK n \in Nat : n = Len(s) /\ DOMAIN s = 1..n
  OBVIOUS
<1>2. IsFiniteSet(1..n)
  BY FS_Interval
<1>3. Places(x, s) \in SUBSET (1..n)
  BY <1>1 DEF Places
<1>4. IsFiniteSet(Places(x, s))
  BY <1>2, <1>3, FS_Subset
<1>. QED BY <1>4, FS_CardinalityType DEF Times, Places

LEMMA TimesCat ==
  ASSUME NEW S, NEW s \in Seq(S), NEW t \in Seq(S), NEW x
  PROVE  Times(x, s \o t) = Times(x, s) + Times(x, t)
<1>1. PICK m \in Nat, n \in Nat : m = Len(s) /\ n = Len(t)
  OBVIOUS
<1>0. s \o t \in Seq(S)
  OBVIOUS
<1>2. PICK u \in Seq(S) : u = s \o t
  BY <1>0
<1>3. /\ DOMAIN s = 1..m /\ DOMAIN t = 1..n /\ DOMAIN u = 1..m + n
      /\ \A k \in 1..m : u[k] = s[k]
      /\ \A k \in 1..n : u[m + k] = t[k]
  BY <1>1, <1>2
<1>. DEFINE B == {k \in m + 1..m + n : u[k] = x}
            f == [k \in Places(x, t) |-> m + k]
<1>4. Places(x, u) = Places(x, s) \cup B /\ Places(x, s) \cap B = {}
  BY <1>3 DEF Places
<1>5. f \in Bijection(Places(x, t), B)
  <2>1. \A k \in Places(x, t) : k \in 1..n /\ f[k] = m + k /\ f[k] \in B
    BY <1>3 DEF Places
  <2>2. \A k, l \in Places(x, t) : f[k] = f[l] => k = l
    BY <2>1
  <2>3. \A b \in B : \E k \in Places(x, t) : f[k] = b
    <3>. TAKE b \in B
    <3>1. b - m \in 1..n /\ u[m + (b - m)] = x
      OBVIOUS
    <3>2. b - m \in Places(x, t)
      BY <1>3, <3>1 DEF Places
    <3>. QED BY <2>1, <3>2
  <2>4. f \in [Places(x, t) -> B]
    BY <2>1
  <2>. HIDE DEF f, B
  <2>. QED BY <2>2, <2>3, <2>4, Fun_IsBij
<1>6. ExistsBijection(Places(x, t), B)
  BY <1>5 DEF ExistsBijection
<1>7. IsFiniteSet(Places(x, s)) /\ IsFiniteSet(Places(x, t))
  BY TimesType
<1>. HIDE DEF B
<1>8. IsFiniteSet(B) /\ Cardinality(B) = Cardinality(Places(x, t))
  BY <1>6, <1>7, FS_Bijection
<1>9. Cardinality(Places(x, u)) = Cardinality(Places(x, s)) + Cardinality(B) - Cardinality({})
  BY <1>4, <1>7, <1>8, FS_Union
<1>10. Cardinality(Places(x, u)) = Cardinality(Places(x, s)) + Cardinality(Places(x, t))
  <2>1. PICK a \in Nat, b \in Nat : a = Cardinality(Places(x, s)) /\ b = Cardinality(Places(x, t))
    BY TimesType
  <2>. QED BY <1>8, <1>9, <2>1, FS_EmptySet
<1>. QED BY <1>2, <1>10, TimesType

LEMMA TimesOne ==
  ASSUME NEW x, NEW y
  PROVE  Times(x, <<>>) = 0 /\ Times(x, <<y>>) = IF x = y THEN 1 ELSE 0
<1>1. Places(x, <<>>) = {} /\ Places(x, <<y>>) = IF x = y THEN {1} ELSE {}
  BY DEF Places
<1>. QED BY <1>1, FS_EmptySet, FS_Singleton DEF Times, Places

LEMMA TimesTail ==
  ASSUME NEW S, NEW s \in Seq(S), s # <<>>, NEW x
  PROVE  Times(x, s) = Times(x, Tail(s)) + (IF x = Head(s) THEN 1 ELSE 0)
<1>1. s = <<Head(s)>> \o Tail(s) /\ Tail(s) \in Seq(S) /\ <<Head(s)>> \in Seq(S)
  OBVIOUS
<1>2. Times(x, s) = Times(x, <<Head(s)>>) + Times(x, Tail(s))
  BY <1>1, TimesCat
<1>3. Times(x, <<Head(s)>>) = IF x = Head(s) THEN 1 ELSE 0
  BY TimesOne
<1>4. PICK a \in Nat : a = Times(x, Tail(s))
  BY <1>1, TimesType
<1>. QED BY <1>2, <1>3, <1>4

LEMMA TimesSame ==
  ASSUME NEW S, NEW s \in Seq(S), NEW y, \A k \in DOMAIN s : s[k] = y
  PROVE  \A x : Times(x, s) = IF x = y THEN Len(s) ELSE 0
<1>1. PICK n \in Nat : n = Len(s) /\ DOMAIN s = 1..n
  OBVIOUS
<1>2. \A x : Places(x, s) = IF x = y THEN 1..n ELSE {}
  BY <1>1 DEF Places
<1>3. Cardinality(1..n) = n
  BY FS_Interval
<1>. QED BY <1>1, <1>2, <1>3, FS_EmptySet DEF Times, Places

LEMMA TimesAppend ==
  ASSUME NEW S, NEW s \in Seq(S), NEW y \in S, NEW x
  PROVE  Times(x, Append(s, y)) = Times(x, s) + (IF x = y THEN 1 ELSE 0)
<1>1. Append(s, y) = s \o <<y>> /\ <<y>> \in Seq(S)
  OBVIOUS
<1>2. Times(x, s \o <<y>>) = Times(x, s) + Times(x, <<y>>)
  BY <1>1, TimesCat
<1>3. Times(x, <<y>>) = IF x = y THEN 1 ELSE 0
  BY TimesOne
<1>. QED BY <1>1, <1>2, <1>3

LEMMA TimesIn ==
  ASSUME NEW S, NEW s \in Seq(S), NEW x
  PROVE  Times(x, s) = 0 <=> x \notin {s[k] : k \in DOMAIN s}
<1>1. Places(x, s) = {} <=> x \notin {s[k] : k \in DOMAIN s}
  BY DEF Places
<1>. QED BY <1>1, TimesType, FS_EmptySet
=============================================================================
