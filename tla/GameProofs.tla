------------------------------ MODULE GameProofs ------------------------------
(***************************************************************************)
(* Proofs about GameApp and the stack of runners it is built on, for every *)
(* bound on the number of runners.                                         *)
(***************************************************************************)
EXTENDS GameApp, SequenceTheorems, FiniteSetTheorems, FunctionTheorems,
        WellFoundedInduction, TLAPS

-------------------------------------------------------------------------------
(* Numbers: a set of them has a least one, a bounded one a largest; and    *)
(* induction over a set.                                                   *)

Before == {p \in Nat \X Nat : p[1] < p[2]}

LEMMA BeforeIs ==
  ASSUME NEW x \in Nat, NEW y \in Nat
  PROVE  <<y, x>> \in Before <=> y < x
<1> DEFINE p == <<y, x>>
<1>1. p \in Nat \X Nat /\ p[1] = y /\ p[2] = x
  OBVIOUS
<1> HIDE DEF p
<1>2. p \in Before <=> y < x
  BY <1>1 DEF Before
<1> QED BY <1>2 DEF p

LEMMA Least ==
  ASSUME NEW I \in SUBSET Nat, I # {}
  PROVE  \E x \in I : \A y \in I : x <= y
<1>1. IsWellFoundedOn(Before, Nat)
  BY NatLessThanWellFounded DEF OpToRel, Before
<1>2. PICK x \in I : \A y \in I : <<y, x>> \notin Before
  BY <1>1, WFMin
<1>3. ASSUME NEW y \in I PROVE x <= y
  <2>1. ~ (y < x)
    BY <1>2, BeforeIs
  <2>2. x \in Nat /\ y \in Nat
    OBVIOUS
  <2> QED BY <2>1, <2>2
<1> QED BY <1>3

LEMMA MinIs ==
  ASSUME NEW I \in SUBSET Nat, I # {}
  PROVE  Min(I) \in I /\ \A y \in I : Min(I) <= y
<1>1. \E x \in I : \A y \in I : x =< y
  BY Least
<1> QED BY <1>1 DEF Min

LEMMA MaxIs ==
  ASSUME NEW n \in Nat, NEW I \in SUBSET (1 .. n), I # {}
  PROVE  Max(I) \in I /\ \A y \in I : y <= Max(I)
<1> DEFINE J == {n - i : i \in I}
<1>1. J \in SUBSET Nat /\ J # {}
  <2>1. ASSUME NEW i \in I PROVE n - i \in Nat
    BY i \in 1 .. n
  <2> QED BY <2>1
<1>2. \E x \in J : \A y \in J : x <= y
  <2> HIDE DEF J
  <2> QED BY <1>1, Least
<1>3. PICK i \in I : \A y \in J : n - i <= y
  BY <1>2
<1>4. ASSUME NEW k \in I PROVE i >= k
  <2>1. n - k \in J
    OBVIOUS
  <2>2. n - i <= n - k
    BY <1>3, <2>1
  <2> QED BY <2>2
<1>5. \E x \in I : \A y \in I : x >= y
  BY <1>4
<1>6. Max(I) \in I /\ \A y \in I : Max(I) >= y
  BY <1>5 DEF Max
<1> QED BY <1>6

LEMMA Induction ==
  ASSUME NEW n \in Nat, NEW I, 0 \in I,
         \A i \in 0 .. n : i \in I /\ i < n => i + 1 \in I
  PROVE  \A i \in 0 .. n : i \in I
<1> DEFINE J == {i \in 0 .. n : i \notin I}
<1>1. SUFFICES ASSUME J # {} PROVE FALSE
  OBVIOUS
<1>2. J \in SUBSET Nat
  OBVIOUS
<1>3. PICK x \in J : \A y \in J : x <= y
  <2> HIDE DEF J
  <2> QED BY <1>1, <1>2, Least
<1>4. x \in 0 .. n /\ x # 0 /\ x \notin I
  OBVIOUS
<1>5. x - 1 \in 0 .. n /\ x - 1 < n /\ (x - 1) + 1 = x /\ ~ (x <= x - 1)
  BY <1>4
<1>6. x - 1 \in I
  BY <1>3, <1>5
<1> QED BY <1>4, <1>5, <1>6

-------------------------------------------------------------------------------
(* Sequences without repetition, as vec and del are.                       *)

Injective(s) == \A i, j \in 1 .. Len(s) : s[i] = s[j] => i = j

LEMMA Elements ==
  ASSUME NEW S, NEW s \in Seq(S)
  PROVE  /\ Len(s) \in Nat /\ DOMAIN s = 1 .. Len(s)
         /\ ToSet(s) = {s[i] : i \in 1 .. Len(s)}
         /\ \A i \in 1 .. Len(s) : s[i] \in S /\ s[i] \in ToSet(s)
         /\ \A x \in ToSet(s) : x \in S /\ \E i \in 1 .. Len(s) : s[i] = x
<1>1. Len(s) \in Nat /\ DOMAIN s = 1 .. Len(s)
  OBVIOUS
<1>2. \A i \in 1 .. Len(s) : s[i] \in S
  BY ElementOfSeq
<1> QED BY <1>1, <1>2 DEF ToSet

LEMMA Retyped ==
  ASSUME NEW S, NEW s \in Seq(S), NEW T, \A i \in 1 .. Len(s) : s[i] \in T
  PROVE  s \in Seq(T)
<1>1. Len(s) \in Nat /\ s \in [1 .. Len(s) -> S]
  OBVIOUS
<1>2. s \in [1 .. Len(s) -> T]
  BY <1>1
<1> QED BY <1>1, <1>2

(* The two parts of a sequence.                                            *)
LEMMA UpTo ==
  ASSUME NEW S, NEW s \in Seq(S), NEW n \in 0 .. Len(s)
  PROVE  /\ SubSeq(s, 1, n) \in Seq(S)
         /\ Len(SubSeq(s, 1, n)) = n
         /\ \A i \in 1 .. n : SubSeq(s, 1, n)[i] = s[i]
<1> DEFINE u == SubSeq(s, 1, n)
<1>1. \A i \in 1 .. n : s[i] \in S
  BY ElementOfSeq
<1>2. n \in Int /\ n >= 0
  OBVIOUS
<1>3. /\ u \in Seq(S)
      /\ Len(u) = IF 1 <= n THEN n - 1 + 1 ELSE 0
      /\ \A i \in 1 .. n - 1 + 1 : u[i] = s[1 + i - 1]
  BY <1>1, <1>2, SubSeqProperties
<1> HIDE DEF u
<1>4. u \in Seq(S) /\ Len(u) = n /\ \A i \in 1 .. n : u[i] = s[i]
  BY <1>2, <1>3
<1> QED BY <1>4 DEF u

LEMMA From ==
  ASSUME NEW S, NEW s \in Seq(S), NEW n \in 0 .. Len(s)
  PROVE  /\ SubSeq(s, n + 1, Len(s)) \in Seq(S)
         /\ Len(SubSeq(s, n + 1, Len(s))) = Len(s) - n
         /\ \A i \in 1 .. Len(s) - n : SubSeq(s, n + 1, Len(s))[i] = s[n + i]
<1> DEFINE u == SubSeq(s, n + 1, Len(s))
           l == Len(s)
           m == n + 1
<1>1. l \in Nat /\ n \in Nat /\ n <= l /\ m \in Int /\ l \in Int
  OBVIOUS
<1>2. \A i \in m .. l : s[i] \in S
  BY <1>1, ElementOfSeq
<1>3. /\ u \in Seq(S)
      /\ Len(u) = IF m <= l THEN l - m + 1 ELSE 0
      /\ \A i \in 1 .. l - m + 1 : u[i] = s[m + i - 1]
  BY <1>1, <1>2, SubSeqProperties
<1> HIDE DEF u, l
<1>4. Len(u) = l - n
  BY <1>1, <1>3
<1>5. ASSUME NEW i \in 1 .. l - n PROVE u[i] = s[n + i]
  <2>1. i \in 1 .. l - m + 1 /\ m + i - 1 = n + i
    BY <1>1
  <2> QED BY <1>3, <2>1
<1> QED BY <1>3, <1>4, <1>5 DEF u, l

(* t is s without what was at p.                                           *)
Without(s, p, t) ==
  /\ Len(t) = Len(s) - 1
  /\ \A i \in 1 .. Len(s) - 1 : t[i] = IF i < p THEN s[i] ELSE s[i + 1]

LEMMA RemoveAtIs ==
  ASSUME NEW S, NEW s \in Seq(S), NEW p \in 1 .. Len(s)
  PROVE  RemoveAt(s, p) \in Seq(S) /\ Without(s, p, RemoveAt(s, p))
<1> DEFINE a == SubSeq(s, 1, p - 1)
           b == SubSeq(s, p + 1, Len(s))
           l == Len(s)
           t == a \o b
<1>1. l \in Nat /\ p \in 1 .. l
  BY ElementOfSeq
<1>5. /\ a \in Seq(S) /\ Len(a) = p - 1 /\ \A i \in 1 .. p - 1 : a[i] = s[i]
  <2>1. p - 1 \in 0 .. Len(s)
    BY <1>1
  <2> QED BY <2>1, UpTo
<1>6. /\ b \in Seq(S) /\ Len(b) = l - p /\ \A i \in 1 .. l - p : b[i] = s[p + i]
  <2>1. p \in 0 .. Len(s)
    BY <1>1
  <2> QED BY <2>1, From
<1> HIDE DEF a, b
<1>7. /\ t \in Seq(S) /\ Len(t) = Len(a) + Len(b)
      /\ \A i \in 1 .. Len(a) + Len(b) :
           t[i] = IF i <= Len(a) THEN a[i] ELSE b[i - Len(a)]
  BY <1>5, <1>6, ConcatProperties
<1> HIDE DEF t, l
<1>8. Len(t) = l - 1
  BY <1>1, <1>5, <1>6, <1>7
<1>9. ASSUME NEW i \in 1 .. l - 1 PROVE t[i] = IF i < p THEN s[i] ELSE s[i + 1]
  <2>1. CASE i < p
    <3>1. i \in 1 .. Len(a) + Len(b) /\ i <= Len(a) /\ i \in 1 .. p - 1
      BY <1>1, <1>5, <1>6, <2>1
    <3> QED BY <1>5, <1>7, <2>1, <3>1
  <2>2. CASE ~ (i < p)
    <3> DEFINE j == i - (p - 1)
    <3>1. i \in 1 .. Len(a) + Len(b) /\ ~ (i <= Len(a)) /\ i - Len(a) = j
      BY <1>1, <1>5, <1>6, <2>2
    <3>2. j \in 1 .. l - p /\ p + j = i + 1
      BY <1>1, <2>2
    <3> HIDE DEF j
    <3>3. t[i] = b[j]
      BY <1>7, <3>1
    <3>4. b[j] = s[i + 1]
      BY <1>6, <3>2
    <3> QED BY <2>2, <3>3, <3>4
  <2> QED BY <2>1, <2>2
<1>10. RemoveAt(s, p) = t
  BY DEF RemoveAt, t, a, b
<1> QED BY <1>7, <1>8, <1>9, <1>10 DEF Without, l

(* t is s with e after the first p.                                        *)
With(s, p, e, t) ==
  /\ Len(t) = Len(s) + 1
  /\ \A i \in 1 .. Len(s) + 1 :
       t[i] = IF i <= p THEN s[i] ELSE IF i = p + 1 THEN e ELSE s[i - 1]

LEMMA InsertAtIs ==
  ASSUME NEW S, NEW s \in Seq(S), NEW p \in 0 .. Len(s), NEW e \in S
  PROVE  InsertAt(s, p + 1, e) \in Seq(S) /\ With(s, p, e, InsertAt(s, p + 1, e))
<1> DEFINE a == SubSeq(s, 1, p)
           o == << e >>
           b == SubSeq(s, p + 1, Len(s))
           l == Len(s)
           ao == a \o o
           t == ao \o b
<1>1. l \in Nat /\ p \in 0 .. l
  OBVIOUS
<1>2. a \in Seq(S) /\ Len(a) = p /\ \A i \in 1 .. p : a[i] = s[i]
  BY UpTo
<1>3. b \in Seq(S) /\ Len(b) = l - p /\ \A i \in 1 .. l - p : b[i] = s[p + i]
  BY From
<1>4. o \in Seq(S) /\ Len(o) = 1 /\ o[1] = e
  OBVIOUS
<1> HIDE DEF a, o, b
<1>5. /\ ao \in Seq(S) /\ Len(ao) = Len(a) + Len(o)
      /\ \A i \in 1 .. Len(a) + Len(o) :
           ao[i] = IF i <= Len(a) THEN a[i] ELSE o[i - Len(a)]
  BY <1>2, <1>4, ConcatProperties
<1> HIDE DEF ao
<1>6. /\ t \in Seq(S) /\ Len(t) = Len(ao) + Len(b)
      /\ \A i \in 1 .. Len(ao) + Len(b) :
           t[i] = IF i <= Len(ao) THEN ao[i] ELSE b[i - Len(ao)]
  <2>1. ao \in Seq(S) /\ b \in Seq(S)
    BY <1>3, <1>5
  <2> QED BY <2>1, ConcatProperties
<1> HIDE DEF t, l
<1>7. Len(ao) = p + 1 /\ Len(t) = l + 1
  BY <1>1, <1>2, <1>3, <1>4, <1>5, <1>6
<1>8. ASSUME NEW i \in 1 .. l + 1
      PROVE t[i] = IF i <= p THEN s[i] ELSE IF i = p + 1 THEN e ELSE s[i - 1]
  <2>1. CASE i <= p
    <3>1. /\ i \in 1 .. Len(ao) + Len(b) /\ i <= Len(ao) /\ i \in 1 .. p
          /\ i \in 1 .. Len(a) + Len(o) /\ i <= Len(a)
      BY <1>1, <1>2, <1>3, <1>4, <1>7, <2>1
    <3> QED BY <1>2, <1>5, <1>6, <2>1, <3>1
  <2>2. CASE i = p + 1
    <3>1. /\ i \in 1 .. Len(ao) + Len(b) /\ i <= Len(ao)
          /\ i \in 1 .. Len(a) + Len(o) /\ ~ (i <= Len(a)) /\ i - Len(a) = 1
          /\ ~ (i <= p)
      BY <1>1, <1>2, <1>3, <1>4, <1>7, <2>2
    <3>2. ao[i] = o[i - Len(a)]
      BY <1>5, <3>1
    <3> QED BY <1>4, <1>6, <2>2, <3>1, <3>2
  <2>3. CASE i > p + 1
    <3> DEFINE j == i - (p + 1)
    <3>1. /\ i \in 1 .. Len(ao) + Len(b) /\ ~ (i <= Len(ao)) /\ i - Len(ao) = j
          /\ ~ (i <= p) /\ i # p + 1 /\ j \in 1 .. l - p /\ p + j = i - 1
      BY <1>1, <1>2, <1>3, <1>4, <1>7, <2>3
    <3> HIDE DEF j
    <3>2. t[i] = b[j]
      BY <1>6, <3>1
    <3>3. b[j] = s[i - 1]
      BY <1>3, <3>1
    <3> QED BY <3>1, <3>2, <3>3
  <2> QED BY <1>1, <2>1, <2>2, <2>3
<1>9. InsertAt(s, p + 1, e) = t
  <2> DEFINE q == p + 1
  <2>1. q - 1 = p
    BY <1>1
  <2> HIDE DEF q
  <2>2. InsertAt(s, q, e) = SubSeq(s, 1, p) \o << e >> \o SubSeq(s, q, Len(s))
    BY <2>1 DEF InsertAt
  <2> QED BY <2>2 DEF t, ao, a, o, b, q
<1> QED BY <1>6, <1>7, <1>8, <1>9 DEF With, l

LEMMA RemoveFirstIs ==
  ASSUME NEW S, NEW s \in Seq(S), NEW e
  PROVE  LET t == RemoveFirst(s, e)
         IN  /\ t \in Seq(S)
             /\ \/ e \notin ToSet(s) /\ t = s
                \/ \E p \in 1 .. Len(s) : s[p] = e /\ Without(s, p, t)
<1> DEFINE I == {i \in 1 .. Len(s) : s[i] = e}
<1>1. CASE I = {}
  <2>1. RemoveFirst(s, e) = s
    BY <1>1 DEF RemoveFirst
  <2>2. e \notin ToSet(s)
    BY <1>1, Elements
  <2> QED BY <2>1, <2>2
<1>2. CASE I # {}
  <2>1. SelectInSeq(s, LAMBDA v : v = e) = Min(I)
    BY <1>2 DEF SelectInSeq
  <2>2. RemoveFirst(s, e) = RemoveAt(s, Min(I))
    BY <1>2, <2>1 DEF RemoveFirst
  <2>3. I \in SUBSET Nat
    OBVIOUS
  <2>4. Min(I) \in I
    <3> HIDE DEF I
    <3> QED BY <1>2, <2>3, MinIs
  <2>5. Min(I) \in 1 .. Len(s) /\ s[Min(I)] = e
    BY <2>4
  <2> HIDE DEF I
  <2> QED BY <2>2, <2>5, RemoveAtIs
<1> QED BY <1>1, <1>2

(* What taking e out of s leaves, and where.                               *)
TakenOut(s, e, t) ==
  /\ Injective(t) /\ ToSet(t) = ToSet(s) \ {e}
  /\ \A k \in 0 .. Len(s) :
       (\A i \in 1 .. k : s[i] # e) => k <= Len(t) /\ \A i \in 1 .. k : t[i] = s[i]
  /\ \A d : (\A i \in 1 .. Len(s) - 1 : s[i] # d)
              => \A i \in 1 .. Len(t) - 1 : t[i] # d

LEMMA TakingOut ==
  ASSUME NEW S, NEW s \in Seq(S), Injective(s), NEW e
  PROVE  RemoveFirst(s, e) \in Seq(S) /\ TakenOut(s, e, RemoveFirst(s, e))
<1> DEFINE t == RemoveFirst(s, e)
<1>1. /\ t \in Seq(S)
      /\ \/ e \notin ToSet(s) /\ t = s
         \/ \E p \in 1 .. Len(s) : s[p] = e /\ Without(s, p, t)
  BY RemoveFirstIs
<1> HIDE DEF t
<1>2. CASE e \notin ToSet(s) /\ t = s
  <2>1. ToSet(t) = ToSet(s) \ {e}
    BY <1>2
  <2> QED BY <1>1, <1>2, <2>1 DEF TakenOut, t
<1>3. ASSUME NEW p \in 1 .. Len(s), s[p] = e, Without(s, p, t)
      PROVE  TakenOut(s, e, t)
  <2> DEFINE l == Len(s)
  <2>1. l \in Nat /\ Len(t) = l - 1 /\ p \in 1 .. l
    BY <1>3 DEF Without
  <2>2. \A i \in 1 .. l - 1 : t[i] = IF i < p THEN s[i] ELSE s[i + 1]
    BY <1>3 DEF Without
  <2>3. \A i, j \in 1 .. l : s[i] = s[j] => i = j
    BY DEF Injective
  <2> HIDE DEF l
  <2>4. Injective(t)
    BY <2>1, <2>2, <2>3 DEF Injective
  <2>5. ToSet(t) = ToSet(s) \ {e}
    <3>1. /\ ToSet(t) = {t[i] : i \in 1 .. l - 1}
          /\ ToSet(s) = {s[i] : i \in 1 .. l}
      BY <1>1, <2>1, Elements DEF l
    <3>2. ASSUME NEW i \in 1 .. l - 1 PROVE t[i] \in ToSet(s) \ {e}
      <4>1. CASE i < p
        <5>1. i \in 1 .. l /\ i # p
          BY <2>1, <4>1
        <5>2. t[i] = s[i] /\ s[i] # s[p]
          BY <2>1, <2>2, <2>3, <4>1, <5>1
        <5> QED BY <1>3, <3>1, <5>1, <5>2
      <4>2. CASE ~ (i < p)
        <5>1. i + 1 \in 1 .. l /\ i + 1 # p
          BY <2>1, <4>2
        <5>2. t[i] = s[i + 1] /\ s[i + 1] # s[p]
          BY <2>1, <2>2, <2>3, <4>2, <5>1
        <5> QED BY <1>3, <3>1, <5>1, <5>2
      <4> QED BY <4>1, <4>2
    <3>3. ASSUME NEW i \in 1 .. l, s[i] # e PROVE s[i] \in ToSet(t)
      <4>1. i # p
        BY <1>3, <3>3
      <4>2. CASE i < p
        <5>1. i \in 1 .. l - 1 /\ t[i] = s[i]
          BY <2>1, <2>2, <4>2
        <5> QED BY <3>1, <5>1
      <4>3. CASE i > p
        <5> DEFINE j == i - 1
        <5>1. j \in 1 .. l - 1 /\ ~ (j < p) /\ j + 1 = i
          BY <2>1, <4>3
        <5> HIDE DEF j
        <5>2. t[j] = s[i]
          BY <2>2, <5>1
        <5> QED BY <3>1, <5>1, <5>2
      <4> QED BY <2>1, <4>1, <4>2, <4>3
    <3> QED BY <3>1, <3>2, <3>3
  <2>6. ASSUME NEW k \in 0 .. l, \A i \in 1 .. k : s[i] # e
        PROVE  k <= Len(t) /\ \A i \in 1 .. k : t[i] = s[i]
    <3>1. k < p
      <4>1. p \notin 1 .. k
        BY <1>3, <2>6
      <4> QED BY <2>1, <4>1
    <3> QED BY <2>1, <2>2, <3>1
  <2>7. ASSUME NEW d, \A i \in 1 .. l - 1 : s[i] # d,
               NEW i \in 1 .. Len(t) - 1
        PROVE  t[i] # d
    <3>1. i \in 1 .. l - 1 /\ i + 1 \in 1 .. l - 1
      BY <2>1
    <3> QED BY <2>2, <2>7, <3>1
  <2> QED BY <2>4, <2>5, <2>6, <2>7 DEF TakenOut, l
<1>4. TakenOut(s, e, t)
  BY <1>1, <1>2, <1>3 DEF t
<1> QED BY <1>1, <1>4 DEF t

(* What putting e in after the first p of s gives.                         *)
PutIn(s, p, e, t) ==
  /\ Injective(t) /\ ToSet(t) = ToSet(s) \cup {e} /\ Len(t) = Len(s) + 1
  /\ \A i \in 1 .. p : t[i] = s[i]

LEMMA PuttingIn ==
  ASSUME NEW S, NEW s \in Seq(S), Injective(s), NEW p \in 0 .. Len(s),
         NEW e, e \notin ToSet(s), NEW t \in Seq(S), With(s, p, e, t)
  PROVE  PutIn(s, p, e, t)
<1> DEFINE l == Len(s)
<1>1. l \in Nat /\ Len(t) = l + 1 /\ p \in 0 .. l
  BY DEF With
<1>2. \A i \in 1 .. l + 1 :
        t[i] = IF i <= p THEN s[i] ELSE IF i = p + 1 THEN e ELSE s[i - 1]
  BY DEF With
<1>3. \A i, j \in 1 .. l : s[i] = s[j] => i = j
  BY DEF Injective
<1>4. /\ ToSet(t) = {t[i] : i \in 1 .. l + 1}
      /\ ToSet(s) = {s[i] : i \in 1 .. l} /\ \A i \in 1 .. l : s[i] # e
  BY <1>1, Elements
<1> HIDE DEF l
<1>5. Injective(t)
  <2>1. ASSUME NEW i \in 1 .. l + 1, NEW j \in 1 .. l + 1, i < j
        PROVE t[i] # t[j]
    <3>1. CASE j <= p
      BY <1>1, <1>2, <1>3, <2>1, <3>1
    <3>2. CASE j = p + 1
      <4>1. i \in 1 .. l /\ i <= p /\ ~ (j <= p)
        BY <1>1, <2>1, <3>2
      <4> QED BY <1>2, <1>4, <3>2, <4>1
    <3>3. CASE j > p + 1
      <4>1. j - 1 \in 1 .. l /\ ~ (j <= p) /\ j # p + 1
        BY <1>1, <3>3
      <4>2. t[j] = s[j - 1]
        BY <1>2, <4>1
      <4>3. CASE i <= p
        <5>1. i \in 1 .. l /\ i # j - 1
          BY <1>1, <3>3, <4>3
        <5>2. t[i] = s[i]
          BY <1>2, <4>3
        <5> QED BY <1>3, <4>1, <4>2, <5>1, <5>2
      <4>4. CASE i = p + 1
        <5>1. t[i] = e
          BY <1>1, <1>2, <4>4
        <5> QED BY <1>4, <4>1, <4>2, <5>1
      <4>5. CASE i > p + 1
        <5> DEFINE a == i - 1
                   b == j - 1
        <5>1. a \in 1 .. l /\ b \in 1 .. l /\ a # b /\ ~ (i <= p) /\ i # p + 1
          BY <1>1, <2>1, <4>1, <4>5
        <5>2. t[i] = s[a]
          BY <1>2, <5>1
        <5> HIDE DEF a
        <5>3. t[j] = s[b]
          BY <4>2
        <5> HIDE DEF b
        <5> QED BY <1>3, <5>1, <5>2, <5>3
      <4> QED BY <1>1, <4>3, <4>4, <4>5
    <3> QED BY <1>1, <3>1, <3>2, <3>3
  <2>2. \A i, j \in 1 .. l + 1 : i = j \/ i < j \/ j < i
    BY <1>1
  <2> QED BY <1>1, <2>1, <2>2 DEF Injective
<1>6. ToSet(t) = ToSet(s) \cup {e}
  <2>1. ASSUME NEW i \in 1 .. l + 1 PROVE t[i] \in ToSet(s) \cup {e}
    <3>1. CASE i <= p
      <4>1. i \in 1 .. l
        BY <1>1, <3>1
      <4> QED BY <1>2, <1>4, <3>1, <4>1
    <3>2. CASE i = p + 1
      BY <1>1, <1>2, <3>2
    <3>3. CASE i > p + 1
      <4>1. i - 1 \in 1 .. l /\ ~ (i <= p) /\ i # p + 1
        BY <1>1, <3>3
      <4>2. t[i] = s[i - 1]
        BY <1>2, <4>1
      <4> QED BY <1>4, <4>1, <4>2
    <3> QED BY <1>1, <3>1, <3>2, <3>3
  <2>2. ASSUME NEW i \in 1 .. l PROVE s[i] \in ToSet(t)
    <3>1. CASE i <= p
      <4>1. i \in 1 .. l + 1 /\ t[i] = s[i]
        BY <1>1, <1>2, <3>1
      <4> QED BY <1>4, <4>1
    <3>2. CASE i > p
      <4> DEFINE j == i + 1
      <4>1. j \in 1 .. l + 1 /\ ~ (j <= p) /\ j # p + 1 /\ j - 1 = i
        BY <1>1, <3>2
      <4> HIDE DEF j
      <4>2. t[j] = s[i]
        BY <1>2, <4>1
      <4> QED BY <1>4, <4>1, <4>2
    <3> QED BY <1>1, <3>1, <3>2
  <2>3. p + 1 \in 1 .. l + 1 /\ t[p + 1] = e
    BY <1>1, <1>2
  <2> QED BY <1>4, <2>1, <2>2, <2>3
<1>7. \A i \in 1 .. p : t[i] = s[i]
  BY <1>1, <1>2
<1> QED BY <1>1, <1>5, <1>6, <1>7 DEF PutIn, l

(* A stack of different runners is no longer than there are runners.       *)
LEMMA NotLonger ==
  ASSUME NEW n \in Nat, NEW s \in Seq(1 .. n), Injective(s)
  PROVE  Len(s) <= n
<1>1. Len(s) \in Nat /\ s \in [1 .. Len(s) -> 1 .. n]
  OBVIOUS
<1>2. s \in Injection(1 .. Len(s), 1 .. n)
  BY <1>1 DEF Injection, IsInjective, Injective
<1> QED BY <1>1, <1>2, Fun_NatInjLeq DEF ExistsInjection

-------------------------------------------------------------------------------
(* The router's fields, and what its methods make of them.                 *)

RunnerRec == [kind : Kind, type : Type, part : Nat, conn : Nat, closes : Nat]
ConnRec == [cl : Nat, open : BOOLEAN]
App == [cookie : BOOLEAN, parted : BOOLEAN, runners : Seq(RunnerRec),
        conns : Seq(ConnRec), vec : Seq(Nat), del : Seq(Nat), dirty : BOOLEAN,
        currentInput : Nat, running : BOOLEAN]

(* Runners are what their kind says; the debug runner is the only overlay. *)
Objects(g) ==
  /\ Len(g.runners) >= 3
  /\ \A r \in 1 .. Len(g.runners) :
       /\ g.runners[r].type = TypeOfKind(g.runners[r].kind)
       /\ g.runners[r].kind = "Debug" <=> r = debugRunner
       /\ g.runners[r].part \in 0 .. Len(g.runners)
       /\ g.runners[r].part # debugRunner

(* A runner is on the stack or on the list, once; the debug runner is on   *)
(* top of the stack, when it is there.                                     *)
Stack(g) ==
  /\ ToSet(g.vec) \subseteq 1 .. Len(g.runners) /\ Injective(g.vec)
  /\ ToSet(g.del) \subseteq 1 .. Len(g.runners) /\ Injective(g.del)
  /\ ToSet(g.vec) \cap ToSet(g.del) = {}
  /\ \A i \in 1 .. Len(g.vec) - 1 : g.vec[i] # debugRunner

(* What the methods of the stack leave alone.                              *)
SameRest(g, h) ==
  /\ h \in App
  /\ h.cookie = g.cookie /\ h.parted = g.parted /\ h.runners = g.runners
  /\ h.conns = g.conns /\ h.currentInput = g.currentInput
  /\ h.running = g.running

LEMMA TypeIs ==
  ASSUME NEW kind \in Kind
  PROVE  /\ TypeOfKind(kind) \in Type
         /\ TypeOfKind(kind) = "Overlay" <=> kind = "Debug"
  BY DEF Kind, TypeOfKind, Type

LEMMA Fields ==
  ASSUME NEW g \in App
  PROVE  /\ g.cookie \in BOOLEAN /\ g.parted \in BOOLEAN
         /\ g.runners \in Seq(RunnerRec) /\ Len(g.runners) \in Nat
         /\ DOMAIN g.runners = 1 .. Len(g.runners)
         /\ g.conns \in Seq(ConnRec) /\ Len(g.conns) \in Nat
         /\ DOMAIN g.conns = 1 .. Len(g.conns)
         /\ g.vec \in Seq(Nat) /\ Len(g.vec) \in Nat
         /\ g.del \in Seq(Nat) /\ Len(g.del) \in Nat
         /\ g.dirty \in BOOLEAN /\ g.currentInput \in Nat /\ g.running \in BOOLEAN
  BY DEF App

LEMMA RunnerFields ==
  ASSUME NEW g \in App, NEW r \in 1 .. Len(g.runners)
  PROVE  /\ g.runners[r] \in RunnerRec
         /\ g.runners[r].kind \in Kind /\ g.runners[r].type \in Type
         /\ g.runners[r].part \in Nat /\ g.runners[r].conn \in Nat
         /\ g.runners[r].closes \in Nat
<1>1. g.runners[r] \in RunnerRec
  BY Fields, ElementOfSeq
<1> QED BY <1>1 DEF RunnerRec

LEMMA ConnFields ==
  ASSUME NEW g \in App, NEW c \in 1 .. Len(g.conns)
  PROVE  g.conns[c] \in ConnRec /\ g.conns[c].cl \in Nat /\ g.conns[c].open \in BOOLEAN
<1>1. g.conns[c] \in ConnRec
  BY Fields, ElementOfSeq
<1> QED BY <1>1 DEF ConnRec

LEMMA RemoveRunnerIs ==
  ASSUME NEW g \in App, Injective(g.vec), NEW r
  PROVE  LET h == RemoveRunner(g, r)
         IN  /\ SameRest(g, h) /\ h.del = g.del /\ h.dirty
             /\ h.vec = RemoveFirst(g.vec, r) /\ TakenOut(g.vec, r, h.vec)
<1> DEFINE v == RemoveFirst(g.vec, r)
           h == RemoveRunner(g, r)
<1>1. v \in Seq(Nat) /\ TakenOut(g.vec, r, v)
  BY Fields, TakingOut
<1> HIDE DEF v
<1>2. h = [g EXCEPT !.vec = v, !.dirty = TRUE]
  BY DEF RemoveRunner, v
<1> HIDE DEF h
<1>3. h \in App
  BY <1>1, <1>2 DEF App
<1>4. /\ h.cookie = g.cookie /\ h.parted = g.parted /\ h.runners = g.runners
      /\ h.conns = g.conns /\ h.currentInput = g.currentInput
      /\ h.running = g.running /\ h.del = g.del
  BY <1>2 DEF App
<1>5. h.vec = v /\ h.dirty = TRUE
  BY <1>2 DEF App
<1> QED BY <1>1, <1>3, <1>4, <1>5 DEF SameRest, h, v

LEMMA DeleteMeIs ==
  ASSUME NEW g \in App, Injective(g.vec), NEW r \in Nat, r # NoRunner
  PROVE  LET h == DeleteMe(g, r)
         IN  /\ SameRest(g, h) /\ h.dirty /\ TakenOut(g.vec, r, h.vec)
             /\ h.del = IF r \in ToSet(g.del) THEN g.del ELSE Append(g.del, r)
<1> DEFINE k == RemoveRunner(g, r)
           h == DeleteMe(g, r)
<1>1. /\ SameRest(g, k) /\ k.del = g.del /\ k.dirty /\ TakenOut(g.vec, r, k.vec)
  BY RemoveRunnerIs
<1>2. h = IF r \in ToSet(k.del) THEN k ELSE [k EXCEPT !.del = Append(k.del, r)]
  BY DEF DeleteMe
<1> HIDE DEF h, k
<1>3. CASE r \in ToSet(g.del)
  BY <1>1, <1>2, <1>3 DEF h
<1>4. CASE r \notin ToSet(g.del)
  <2> DEFINE d == Append(g.del, r)
  <2>1. d \in Seq(Nat)
    BY Fields, AppendProperties
  <2>2. h = [k EXCEPT !.del = d] /\ k \in App
    BY <1>1, <1>2, <1>4 DEF SameRest
  <2> HIDE DEF d
  <2>3. h \in App /\ h.del = d
    BY <2>1, <2>2 DEF App
  <2>4. /\ h.cookie = k.cookie /\ h.parted = k.parted /\ h.runners = k.runners
        /\ h.conns = k.conns /\ h.currentInput = k.currentInput
        /\ h.running = k.running /\ h.vec = k.vec /\ h.dirty = k.dirty
    BY <2>2 DEF App
  <2> QED BY <1>1, <1>4, <2>3, <2>4 DEF SameRest, d, h
<1> QED BY <1>3, <1>4

(* The last runner that is not on top of all, the debug runner apart.      *)
LEMMA TopIs ==
  ASSUME NEW g \in App, Objects(g), Stack(g)
  PROVE  /\ Top(g) \in 0 .. Len(g.vec)
         /\ \A i \in 1 .. Top(g) : g.vec[i] # debugRunner
         /\ \A i \in Top(g) + 1 .. Len(g.vec) : g.vec[i] = debugRunner
<1> DEFINE I == {i \in 1 .. Len(g.vec) : ~ AlwaysOnTop(g, g.vec[i])}
           top == Top(g)
           l == Len(g.vec)
<1>1. l \in Nat /\ I \in SUBSET (1 .. l)
  BY Fields
<1>2. \A i \in 1 .. l : AlwaysOnTop(g, g.vec[i]) <=> g.vec[i] = debugRunner
  <2>1. ASSUME NEW i \in 1 .. l
        PROVE AlwaysOnTop(g, g.vec[i]) <=> g.vec[i] = debugRunner
    <3>1. g.vec[i] \in 1 .. Len(g.runners)
      BY Fields, Elements DEF Stack
    <3>2. /\ g.runners[g.vec[i]].type = TypeOfKind(g.runners[g.vec[i]].kind)
          /\ g.runners[g.vec[i]].kind = "Debug" <=> g.vec[i] = debugRunner
      BY <3>1 DEF Objects
    <3>3. g.runners[g.vec[i]].kind \in Kind
      BY <3>1, RunnerFields
    <3> QED BY <3>2, <3>3, TypeIs DEF AlwaysOnTop
  <2> QED BY <2>1
<1>3. \A i \in 1 .. l - 1 : g.vec[i] # debugRunner
  BY DEF Stack
<1>4. \A i \in 1 .. l : i \in I <=> g.vec[i] # debugRunner
  BY <1>2
<1>5. top = IF I # {} THEN Max(I) ELSE 0
  BY DEF Top, SelectLastInSeq
<1>6. I # {} => Max(I) \in I /\ \A y \in I : y <= Max(I)
  <2> HIDE DEF I, l
  <2> QED BY <1>1, MaxIs
<1> HIDE DEF top, I
<1>7. CASE I = {}
  <2>1. top = 0
    BY <1>5, <1>7
  <2> QED BY <1>1, <1>4, <1>7, <2>1 DEF top, l
<1>8. CASE I # {}
  <2>1. top \in I /\ \A y \in I : y <= top
    BY <1>5, <1>6, <1>8
  <2>2. top \in 1 .. l /\ g.vec[top] # debugRunner
    BY <1>1, <1>4, <2>1
  <2>3. \A i \in 1 .. top : g.vec[i] # debugRunner
    <3>1. \A i \in 1 .. top : i = top \/ i \in 1 .. l - 1
      BY <1>1, <2>2
    <3> QED BY <1>3, <2>2, <3>1
  <2>4. \A i \in top + 1 .. l : g.vec[i] = debugRunner
    <3>1. \A i \in top + 1 .. l : i \in 1 .. l /\ ~ (i <= top)
      BY <1>1, <2>2
    <3> QED BY <1>4, <2>1, <3>1
  <2> QED BY <1>1, <2>2, <2>3, <2>4 DEF top, l
<1> QED BY <1>7, <1>8

(* A runner that is pushed lands above the ones that are there, the debug  *)
(* runner apart.                                                           *)
PushedOn(g, r, h) ==
  /\ Injective(h.vec) /\ ToSet(h.vec) = ToSet(g.vec) \cup {r}
  /\ \A k \in 0 .. Len(g.vec) :
       (\A i \in 1 .. k : g.vec[i] # debugRunner) =>
         k <= Len(h.vec) /\ \A i \in 1 .. k : h.vec[i] = g.vec[i]
  /\ \A i \in 1 .. Len(h.vec) - 1 : h.vec[i] # debugRunner

LEMMA PushIs ==
  ASSUME NEW g \in App, Objects(g), Stack(g), NEW r \in 1 .. Len(g.runners),
         r \notin ToSet(g.vec)
  PROVE  LET h == Push(g, r)
         IN  SameRest(g, h) /\ h.del = g.del /\ h.dirty /\ PushedOn(g, r, h)
<1> DEFINE k == RemoveRunner(g, r)
           h == Push(g, r)
           top == Top(k)
           v == IF AlwaysOnTop(k, r) THEN Append(k.vec, r)
                ELSE InsertAt(k.vec, top + 1, r)
           l == Len(g.vec)
<1>1. h = [k EXCEPT !.vec = v]
  BY DEF Push
<1>2. SameRest(g, k) /\ k.del = g.del /\ k.dirty /\ k.vec = g.vec
  <2>1. /\ SameRest(g, k) /\ k.del = g.del /\ k.dirty
        /\ k.vec = RemoveFirst(g.vec, r)
    BY RemoveRunnerIs DEF Stack
  <2>2. RemoveFirst(g.vec, r) = g.vec
    <3>1. ~ \E i \in 1 .. Len(g.vec) : g.vec[i] = r
      BY Fields, Elements
    <3> QED BY <3>1 DEF RemoveFirst
  <2> QED BY <2>1, <2>2
<1>3. k \in App /\ Objects(k) /\ Stack(k)
  BY <1>2 DEF SameRest, Objects, Stack
<1>4. /\ top \in 0 .. Len(k.vec)
      /\ \A i \in 1 .. top : k.vec[i] # debugRunner
      /\ \A i \in top + 1 .. Len(k.vec) : k.vec[i] = debugRunner
  <2> HIDE DEF k
  <2> QED BY <1>3, TopIs
<1>5. AlwaysOnTop(k, r) <=> r = debugRunner
  <2>1. k.runners = g.runners
    BY <1>2 DEF SameRest
  <2>2. /\ g.runners[r].type = TypeOfKind(g.runners[r].kind)
        /\ g.runners[r].kind = "Debug" <=> r = debugRunner
        /\ g.runners[r].kind \in Kind
    BY RunnerFields DEF Objects
  <2> QED BY <2>1, <2>2, TypeIs DEF AlwaysOnTop
<1> HIDE DEF k, h, top
<1>6. g.vec \in Seq(Nat) /\ l \in Nat /\ r \in Nat /\ Injective(g.vec)
  BY Fields DEF Stack
<1>7. /\ v \in Seq(Nat) /\ Injective(v) /\ ToSet(v) = ToSet(g.vec) \cup {r}
      /\ Len(v) = l + 1
      /\ \A j \in 0 .. l :
           (\A i \in 1 .. j : g.vec[i] # debugRunner) =>
             \A i \in 1 .. j : v[i] = g.vec[i]
      /\ \A i \in 1 .. l : v[i] # debugRunner
  <2>1. CASE r = debugRunner
    <3>1. v = Append(g.vec, r)
      BY <1>2, <1>5, <2>1
    <3> HIDE DEF v
    <3>2. /\ v \in Seq(Nat) /\ Len(v) = l + 1 /\ v[l + 1] = r
          /\ \A i \in 1 .. l : v[i] = g.vec[i]
      BY <1>6, <3>1, AppendProperties
    <3>3. With(g.vec, l, r, v)
      BY <1>6, <3>2 DEF With
    <3>4. l \in 0 .. Len(g.vec)
      BY <1>6
    <3>5. PutIn(g.vec, l, r, v)
      BY <1>6, <3>2, <3>3, <3>4, PuttingIn
    <3>6. \A i \in 1 .. l : v[i] # debugRunner
      <4>1. \A i \in 1 .. l : g.vec[i] \in ToSet(g.vec)
        BY <1>6, Elements
      <4> QED BY <2>1, <3>2, <4>1
    <3>7. \A j \in 0 .. l : \A i \in 1 .. j : v[i] = g.vec[i]
      BY <1>6, <3>2
    <3> QED BY <3>2, <3>5, <3>6, <3>7 DEF PutIn
  <2>2. CASE r # debugRunner
    <3>1. v = InsertAt(g.vec, top + 1, r)
      BY <1>2, <1>5, <2>2
    <3>2. top \in 0 .. l
      BY <1>2, <1>4
    <3>3. v \in Seq(Nat) /\ With(g.vec, top, r, v)
      BY <1>6, <3>1, <3>2, InsertAtIs
    <3> HIDE DEF v
    <3>4. PutIn(g.vec, top, r, v)
      BY <1>6, <3>2, <3>3, PuttingIn
    <3>5. \A j \in 0 .. l :
            (\A i \in 1 .. j : g.vec[i] # debugRunner) =>
              \A i \in 1 .. j : v[i] = g.vec[i]
      <4>1. ASSUME NEW j \in 0 .. l, \A i \in 1 .. j : g.vec[i] # debugRunner,
                   NEW i \in 1 .. j
            PROVE  v[i] = g.vec[i]
        <5>1. j <= top
          <6>1. CASE top = l
            BY <1>6, <6>1
          <6>2. CASE top < l
            <7>1. top + 1 \in top + 1 .. l
              BY <1>6, <3>2, <6>2
            <7>2. g.vec[top + 1] = debugRunner
              BY <1>2, <1>4, <7>1
            <7>3. top + 1 \notin 1 .. j
              BY <4>1, <7>2
            <7> QED BY <1>6, <3>2, <7>3
          <6> QED BY <1>6, <3>2, <6>1, <6>2
        <5>2. i \in 1 .. top
          BY <1>6, <3>2, <5>1
        <5> QED BY <3>4, <5>2 DEF PutIn
      <4> QED BY <4>1
    <3>6. \A i \in 1 .. l : v[i] # debugRunner
      <4>1. ASSUME NEW i \in 1 .. l PROVE v[i] # debugRunner
        <5>1. v[i] = IF i <= top THEN g.vec[i] ELSE IF i = top + 1 THEN r
                     ELSE g.vec[i - 1]
          BY <1>6, <3>3 DEF With
        <5>2. CASE i <= top
          BY <1>2, <1>4, <3>2, <5>1, <5>2
        <5>3. CASE i = top + 1
          BY <2>2, <3>2, <5>1, <5>3
        <5>4. CASE i > top + 1
          <6>1. i - 1 \in 1 .. l - 1
            BY <1>6, <3>2, <5>4
          <6>2. g.vec[i - 1] # debugRunner
            BY <6>1 DEF Stack
          <6> QED BY <1>6, <3>2, <5>1, <5>4, <6>2
        <5> QED BY <1>6, <3>2, <5>2, <5>3, <5>4
      <4> QED BY <4>1
    <3> QED BY <3>3, <3>4, <3>5, <3>6 DEF PutIn
  <2> QED BY <2>1, <2>2
<1> HIDE DEF v
<1>8. h \in App /\ h.vec = v
  BY <1>1, <1>3, <1>7 DEF App
<1>9. /\ h.cookie = k.cookie /\ h.parted = k.parted /\ h.runners = k.runners
      /\ h.conns = k.conns /\ h.currentInput = k.currentInput
      /\ h.running = k.running /\ h.del = k.del /\ h.dirty = k.dirty
  BY <1>1, <1>3 DEF App
<1>10. SameRest(g, h) /\ h.del = g.del /\ h.dirty
  BY <1>2, <1>8, <1>9 DEF SameRest
<1>11. PushedOn(g, r, h)
  <2>1. \A j \in 0 .. l : j <= Len(v)
    BY <1>6, <1>7
  <2>2. Len(v) - 1 = l
    BY <1>6, <1>7
  <2> QED BY <1>7, <1>8, <2>1, <2>2 DEF PushedOn
<1> QED BY <1>10, <1>11 DEF h

(* A runner that is closed is on neither and holds nothing, unless a pause *)
(* menu has deleted it again; one that is not closed is on one of them.    *)
Ends(g) ==
  \A r \in 1 .. Len(g.runners) :
    /\ g.runners[r].closes > 0 =>
         r \notin ToSet(g.vec) /\ g.runners[r].conn = NoConn
    /\ g.runners[r].closes > 0 /\ ~ g.parted =>
         g.runners[r].closes = 1 /\ r \notin ToSet(g.del)
    /\ r # debugRunner /\ g.runners[r].closes = 0 =>
         r \in ToSet(g.vec) \cup ToSet(g.del)

(* Who has the input is not closed, and is right when nothing is to be     *)
(* managed.                                                                *)
Control(g) ==
  /\ g.currentInput # NoRunner =>
       /\ g.currentInput \in 1 .. Len(g.runners) /\ g.currentInput # debugRunner
       /\ g.runners[g.currentInput].closes = 0
  /\ ~ g.dirty =>
       /\ g.currentInput = InputTaker(g)
       /\ g.currentInput = NoRunner => ~ g.running

Sound(g) == g \in App /\ Objects(g) /\ Stack(g) /\ Ends(g) /\ Control(g)

(* The debug runner is deleted by the game, when it closes.                *)
DebugKept(g) ==
  g.runners[debugRunner].closes = 0 /\ debugRunner \notin ToSet(g.del)

(* Who holds a connection listens to it, and who listens to an open one    *)
(* holds it.                                                               *)
Conns(g) ==
  /\ \A r \in 1 .. Len(g.runners) :
       g.runners[r].conn # NoConn =>
         /\ g.runners[r].conn \in 1 .. Len(g.conns)
         /\ g.conns[g.runners[r].conn].cl = r
  /\ \A c \in 1 .. Len(g.conns) :
       /\ g.conns[c].cl \in 1 .. Len(g.runners) /\ g.conns[c].cl # debugRunner
       /\ g.conns[c].open => g.runners[g.conns[c].cl].conn = c

LEMMA InputTakerIs ==
  ASSUME NEW g \in App
  PROVE  InputTaker(g) # NoRunner =>
           /\ InputTaker(g) \in ToSet(g.vec)
           /\ g.runners[InputTaker(g)].type \in {"Game", "Menu"}
<1> DEFINE I == {i \in 1 .. Len(g.vec) : TakesInput(g, g.vec[i])}
           t == IF I # {} THEN Max(I) ELSE 0
<1>1. InputTaker(g) = IF t = 0 THEN NoRunner ELSE g.vec[t]
  BY DEF InputTaker, SelectLastInSeq
<1>2. Len(g.vec) \in Nat /\ I \in SUBSET (1 .. Len(g.vec))
  BY Fields
<1>3. I # {} => Max(I) \in I
  <2> HIDE DEF I
  <2> QED BY <1>2, MaxIs
<1> HIDE DEF I, t
<1>4. CASE t = 0
  BY <1>1, <1>4
<1>5. CASE t # 0
  <2>1. t \in I /\ InputTaker(g) = g.vec[t]
    BY <1>1, <1>3, <1>5 DEF t
  <2>2. t \in 1 .. Len(g.vec) /\ TakesInput(g, g.vec[t])
    BY <2>1 DEF I
  <2>3. g.vec[t] \in ToSet(g.vec)
    BY <2>2, Fields, Elements
  <2> QED BY <2>1, <2>2, <2>3 DEF TakesInput
<1> QED BY <1>4, <1>5

(* It is a matter of the stack and the types of what is on it.             *)
LEMMA SameTaker ==
  ASSUME NEW g \in App, Stack(g), NEW h, h.vec = g.vec,
         \A r \in 1 .. Len(g.runners) : h.runners[r].type = g.runners[r].type
  PROVE  InputTaker(h) = InputTaker(g)
<1> DEFINE I(k) == {i \in 1 .. Len(k.vec) : TakesInput(k, k.vec[i])}
           t(k) == IF I(k) # {} THEN Max(I(k)) ELSE 0
<1>1. /\ InputTaker(g) = IF t(g) = 0 THEN NoRunner ELSE g.vec[t(g)]
      /\ InputTaker(h) = IF t(h) = 0 THEN NoRunner ELSE h.vec[t(h)]
  BY DEF InputTaker, SelectLastInSeq
<1>2. \A i \in 1 .. Len(g.vec) : g.vec[i] \in 1 .. Len(g.runners)
  BY Fields, Elements DEF Stack
<1>3. I(h) = I(g)
  BY <1>2 DEF TakesInput
<1>4. t(h) = t(g)
  <2> HIDE DEF I
  <2> QED BY <1>3
<1> HIDE DEF I, t
<1> QED BY <1>1, <1>4

(* A method that leaves the stack alone.                                   *)
SameStack(g, h) ==
  /\ h \in App
  /\ h.vec = g.vec /\ h.del = g.del /\ h.dirty = g.dirty
  /\ h.currentInput = g.currentInput
  /\ Len(h.runners) = Len(g.runners) /\ Len(g.conns) <= Len(h.conns)
  /\ \A r \in 1 .. Len(g.runners) :
       /\ h.runners[r].kind = g.runners[r].kind
       /\ h.runners[r].type = g.runners[r].type
       /\ h.runners[r].part = g.runners[r].part
       /\ h.runners[r].closes = g.runners[r].closes
       /\ h.runners[r].conn \in {NoConn, g.runners[r].conn}
  /\ g.parted => h.parted
  /\ h.running => g.running

LEMMA SameSound ==
  ASSUME NEW g, Sound(g), NEW h, SameStack(g, h)
  PROVE  Sound(h)
<1> g \in App /\ Objects(g) /\ Stack(g)
  BY DEF Sound
<1>1. h \in App /\ Objects(h) /\ Stack(h)
  <2>1. Objects(h)
    BY DEF SameStack, Objects
  <2>2. Stack(h)
    BY DEF SameStack, Stack
  <2> QED BY <2>1, <2>2 DEF SameStack
<1>2. Ends(h)
  BY DEF Sound, SameStack, Ends
<1>3. InputTaker(h) = InputTaker(g)
  BY SameTaker DEF Sound, SameStack
<1>4. Control(h)
  BY <1>3 DEF Sound, SameStack, Control
<1> QED BY <1>1, <1>2, <1>4 DEF Sound

LEMMA DeleteSound ==
  ASSUME NEW g, Sound(g), NEW r \in 1 .. Len(g.runners),
         g.parted \/ g.runners[r].closes = 0
  PROVE  LET h == DeleteMe(g, r)
         IN  /\ Sound(h) /\ SameRest(g, h) /\ h.dirty
             /\ TakenOut(g.vec, r, h.vec)
             /\ ToSet(h.del) = ToSet(g.del) \cup {r}
<1> DEFINE h == DeleteMe(g, r)
<1>1. g \in App /\ Objects(g) /\ Stack(g) /\ Ends(g) /\ Control(g)
  BY DEF Sound
<1>2. r \in Nat /\ r # NoRunner
  BY <1>1, Fields DEF NoRunner
<1>3. /\ SameRest(g, h) /\ h.dirty /\ TakenOut(g.vec, r, h.vec)
      /\ h.del = IF r \in ToSet(g.del) THEN g.del ELSE Append(g.del, r)
  BY <1>1, <1>2, DeleteMeIs DEF Stack
<1> HIDE DEF h
<1>4. ToSet(h.del) = ToSet(g.del) \cup {r} /\ Injective(h.del)
  <2>1. CASE r \in ToSet(g.del)
    BY <1>1, <1>3, <2>1 DEF Stack
  <2>2. CASE r \notin ToSet(g.del)
    <3> DEFINE l == Len(g.del)
    <3>1. g.del \in Seq(Nat) /\ l \in Nat /\ Injective(g.del) /\ h.del = Append(g.del, r)
      BY <1>1, <1>3, <2>2, Fields DEF Stack
    <3>2. /\ h.del \in Seq(Nat) /\ Len(h.del) = l + 1 /\ h.del[l + 1] = r
          /\ \A i \in 1 .. l : h.del[i] = g.del[i]
      BY <1>2, <3>1, AppendProperties
    <3>3. With(g.del, l, r, h.del)
      BY <3>1, <3>2 DEF With
    <3>4. l \in 0 .. Len(g.del)
      BY <3>1
    <3>5. PutIn(g.del, l, r, h.del)
      BY <2>2, <3>1, <3>2, <3>3, <3>4, PuttingIn
    <3> QED BY <3>5 DEF PutIn
  <2> QED BY <2>1, <2>2
<1>5. /\ Injective(h.vec) /\ ToSet(h.vec) = ToSet(g.vec) \ {r}
      /\ \A i \in 1 .. Len(h.vec) - 1 : h.vec[i] # debugRunner
  BY <1>1, <1>3 DEF TakenOut, Stack
<1>6. Stack(h)
  BY <1>1, <1>3, <1>4, <1>5 DEF Stack, SameRest
<1>7. Objects(h)
  BY <1>1, <1>3 DEF Objects, SameRest
<1>8. Ends(h)
  BY <1>1, <1>3, <1>4, <1>5 DEF Ends, SameRest
<1>9. Control(h)
  BY <1>1, <1>3 DEF Control, SameRest
<1>10. Sound(h)
  BY <1>3, <1>6, <1>7, <1>8, <1>9 DEF Sound, SameRest
<1> QED BY <1>3, <1>4, <1>10 DEF h

LEMMA PushSound ==
  ASSUME NEW g, g \in App, Objects(g), Stack(g), Control(g),
         NEW r \in 1 .. Len(g.runners), r \notin ToSet(g.vec) \cup ToSet(g.del),
         g.runners[r].closes = 0,
         \A o \in 1 .. Len(g.runners) :
           /\ g.runners[o].closes > 0 =>
                o \notin ToSet(g.vec) /\ g.runners[o].conn = NoConn
           /\ g.runners[o].closes > 0 /\ ~ g.parted =>
                g.runners[o].closes = 1 /\ o \notin ToSet(g.del)
           /\ o # debugRunner /\ g.runners[o].closes = 0 =>
                o \in ToSet(g.vec) \cup ToSet(g.del) \cup {r}
  PROVE  LET h == Push(g, r)
         IN  Sound(h) /\ SameRest(g, h) /\ h.del = g.del /\ h.dirty /\ PushedOn(g, r, h)
<1> DEFINE h == Push(g, r)
<1>1. SameRest(g, h) /\ h.del = g.del /\ h.dirty /\ PushedOn(g, r, h)
  BY PushIs
<1> HIDE DEF h
<1>2. /\ Injective(h.vec) /\ ToSet(h.vec) = ToSet(g.vec) \cup {r}
      /\ \A i \in 1 .. Len(h.vec) - 1 : h.vec[i] # debugRunner
  BY <1>1 DEF PushedOn
<1>3. Objects(h)
  BY <1>1 DEF Objects, SameRest
<1>4. Stack(h)
  BY <1>1, <1>2 DEF Stack, SameRest
<1>5. Control(h)
  BY <1>1 DEF Control, SameRest
<1>6. g.runners[r].closes \in Nat
  BY RunnerFields
<1>7. Ends(h)
  BY <1>1, <1>2, <1>6 DEF Ends, SameRest
<1> QED BY <1>1, <1>3, <1>4, <1>5, <1>7 DEF Sound, SameRest, h

(* A runner that is made goes on the stack.                                *)
LEMMA MakeSound ==
  ASSUME NEW g, Sound(g), NEW kind \in Kind, kind # "Debug",
         NEW part \in 0 .. Len(g.runners), part # debugRunner, NEW conn \in Nat
  PROVE  LET h == Make(g, kind, part, conn)
             n == Len(g.runners) + 1
         IN  /\ Sound(h) /\ h.dirty /\ h.del = g.del
             /\ h.cookie = g.cookie /\ h.parted = g.parted
             /\ h.running = g.running /\ h.conns = g.conns
             /\ Len(h.runners) = n
             /\ \A r \in 1 .. Len(g.runners) : h.runners[r] = g.runners[r]
             /\ h.runners[n] = NewRunner(kind, part, conn)
             /\ PushedOn(g, n, h)
<1> DEFINE new == NewRunner(kind, part, conn)
           rs == Append(g.runners, new)
           k == [g EXCEPT !.runners = rs]
           n == Len(g.runners) + 1
           h == Push(k, n)
<1>1. g \in App /\ Objects(g) /\ Stack(g) /\ Ends(g) /\ Control(g)
  BY DEF Sound
<1>2. g.runners \in Seq(RunnerRec) /\ Len(g.runners) \in Nat
  BY <1>1, Fields
<1>3. /\ new \in RunnerRec /\ new.kind = kind /\ new.type = TypeOfKind(kind)
      /\ new.part = part /\ new.conn = conn /\ new.closes = 0
  BY <1>2, TypeIs DEF NewRunner, RunnerRec
<1> HIDE DEF new
<1>4. /\ rs \in Seq(RunnerRec) /\ Len(rs) = n /\ rs[n] = new
      /\ \A r \in 1 .. Len(g.runners) : rs[r] = g.runners[r]
  BY <1>2, <1>3, AppendProperties
<1> HIDE DEF rs
<1>5. k \in App /\ k.runners = rs
  BY <1>1, <1>4 DEF App
<1>6. /\ k.cookie = g.cookie /\ k.parted = g.parted /\ k.conns = g.conns
      /\ k.vec = g.vec /\ k.del = g.del /\ k.dirty = g.dirty
      /\ k.currentInput = g.currentInput /\ k.running = g.running
  BY <1>1 DEF App
<1> HIDE DEF k
<1>7. n \in 1 .. Len(k.runners) /\ n \notin 1 .. Len(g.runners) /\ n # debugRunner
      /\ Len(k.runners) = n
  BY <1>1, <1>2, <1>4, <1>5 DEF Objects, debugRunner
<1>8. \A r \in 1 .. n : r = n \/ r \in 1 .. Len(g.runners)
  BY <1>2
<1>9. \A r \in 1 .. Len(g.runners) : r \in 1 .. n /\ r # n
  BY <1>2
<1>10. Objects(k)
  <2>1. ASSUME NEW r \in 1 .. n
        PROVE /\ rs[r].type = TypeOfKind(rs[r].kind)
              /\ rs[r].kind = "Debug" <=> r = debugRunner
              /\ rs[r].part \in 0 .. n
              /\ rs[r].part # debugRunner
    <3>1. CASE r = n
      <4>1. part \in 0 .. n
        BY <1>2
      <4> QED BY <1>3, <1>4, <1>7, <3>1, <4>1
    <3>2. CASE r \in 1 .. Len(g.runners)
      <4>1. /\ g.runners[r].type = TypeOfKind(g.runners[r].kind)
            /\ g.runners[r].kind = "Debug" <=> r = debugRunner
            /\ g.runners[r].part \in 0 .. Len(g.runners)
            /\ g.runners[r].part # debugRunner
        BY <1>1, <3>2 DEF Objects
      <4>2. g.runners[r].part \in 0 .. n
        BY <1>2, <4>1
      <4> QED BY <1>4, <3>2, <4>1, <4>2
    <3> QED BY <1>8, <3>1, <3>2
  <2>2. Len(g.runners) >= 3
    BY <1>1 DEF Objects
  <2> QED BY <1>2, <1>4, <1>5, <2>1, <2>2 DEF Objects
<1>11. Stack(k)
  BY <1>1, <1>5, <1>6, <1>7, <1>9 DEF Stack
<1>12. Control(k)
  <2>1. InputTaker(k) = InputTaker(g)
    BY <1>1, <1>4, <1>5, <1>6, SameTaker
  <2>2. g.currentInput # NoRunner => g.currentInput \in 1 .. Len(g.runners)
    BY <1>1 DEF Control
  <2>3. g.currentInput # NoRunner =>
          /\ k.currentInput \in 1 .. Len(k.runners)
          /\ k.runners[k.currentInput].closes = g.runners[g.currentInput].closes
    BY <1>4, <1>5, <1>6, <1>7, <1>9, <2>2
  <2> QED BY <1>1, <1>6, <2>1, <2>3 DEF Control
<1>13. n \notin ToSet(k.vec) \cup ToSet(k.del)
  BY <1>1, <1>6, <1>7 DEF Stack
<1>14. k.runners[n].closes = 0
  BY <1>3, <1>4, <1>5
<1>15. \A o \in 1 .. Len(k.runners) :
         /\ k.runners[o].closes > 0 =>
              o \notin ToSet(k.vec) /\ k.runners[o].conn = NoConn
         /\ k.runners[o].closes > 0 /\ ~ k.parted =>
              k.runners[o].closes = 1 /\ o \notin ToSet(k.del)
         /\ o # debugRunner /\ k.runners[o].closes = 0 =>
              o \in ToSet(k.vec) \cup ToSet(k.del) \cup {n}
  <2>1. ASSUME NEW o \in 1 .. Len(g.runners)
        PROVE  /\ k.runners[o].closes > 0 =>
                    o \notin ToSet(k.vec) /\ k.runners[o].conn = NoConn
               /\ k.runners[o].closes > 0 /\ ~ k.parted =>
                    k.runners[o].closes = 1 /\ o \notin ToSet(k.del)
               /\ o # debugRunner /\ k.runners[o].closes = 0 =>
                    o \in ToSet(k.vec) \cup ToSet(k.del)
    BY <1>1, <1>4, <1>5, <1>6 DEF Ends
  <2>2. ~ (k.runners[n].closes > 0)
    BY <1>14
  <2> QED BY <1>7, <1>8, <2>1, <2>2
<1>16. /\ Sound(h) /\ SameRest(k, h) /\ h.del = k.del /\ h.dirty /\ PushedOn(k, n, h)
  <2> HIDE DEF n
  <2> QED BY <1>5, <1>7, <1>10, <1>11, <1>12, <1>13, <1>14, <1>15, PushSound
<1>17. Make(g, kind, part, conn) = h
  BY DEF Make, h, k, rs, new, n
<1> HIDE DEF h
<1>18. PushedOn(g, n, h)
  BY <1>6, <1>16 DEF PushedOn
<1>19. h.runners = rs
  BY <1>5, <1>16 DEF SameRest
<1> HIDE DEF n
<1> QED BY <1>4, <1>6, <1>16, <1>17, <1>18, <1>19 DEF SameRest, n, new

-------------------------------------------------------------------------------
(* What a handler makes of the router: how h came from g.                  *)

Since(g, h) ==
  /\ Sound(h)
  /\ Len(g.runners) <= Len(h.runners) /\ Len(g.conns) <= Len(h.conns)
  /\ \A r \in 1 .. Len(g.runners) : h.runners[r].closes = g.runners[r].closes
  /\ \A r \in Len(g.runners) + 1 .. Len(h.runners) : h.runners[r].closes = 0
  /\ ToSet(g.del) \subseteq ToSet(h.del)
  /\ ToSet(h.del) \subseteq 1 .. Len(g.runners)
  /\ debugRunner \in ToSet(h.del) => debugRunner \in ToSet(g.del)
  /\ g.parted => h.parted

(* The first k of the stack stay where they are, and who comes is new.     *)
Turn(g, k, h) ==
  /\ k <= Len(h.vec) /\ \A i \in 1 .. k : h.vec[i] = g.vec[i]
  /\ ToSet(h.vec) \subseteq
       ToSet(g.vec) \cup (Len(g.runners) + 1 .. Len(h.runners))

LEMMA SinceSelf ==
  ASSUME NEW g, Sound(g)
  PROVE  Since(g, g)
<1>1. Len(g.runners) \in Nat /\ Len(g.conns) \in Nat
  BY Fields DEF Sound
<1> QED BY <1>1 DEF Since, Sound, Stack

LEMMA SinceDelete ==
  ASSUME NEW g, Sound(g), NEW h, Since(g, h), NEW r \in 1 .. Len(g.runners),
         r # debugRunner, h.parted \/ g.runners[r].closes = 0
  PROVE  Since(g, DeleteMe(h, r)) /\ SameRest(h, DeleteMe(h, r))
<1> DEFINE d == DeleteMe(h, r)
<1>1. Sound(h) /\ Len(g.runners) <= Len(h.runners)
  BY DEF Since
<1>2. Len(g.runners) \in Nat /\ Len(h.runners) \in Nat
  BY <1>1, Fields DEF Sound
<1>3. r \in 1 .. Len(h.runners) /\ (h.parted \/ h.runners[r].closes = 0)
  BY <1>1, <1>2 DEF Since
<1>4. /\ Sound(d) /\ SameRest(h, d) /\ ToSet(d.del) = ToSet(h.del) \cup {r}
  BY <1>1, <1>3, DeleteSound
<1> HIDE DEF d
<1>5. Since(g, d)
  BY <1>4 DEF Since, SameRest
<1> QED BY <1>4, <1>5 DEF d

LEMMA TurnDelete ==
  ASSUME NEW g, Sound(g), NEW h, Since(g, h), NEW r \in 1 .. Len(g.runners),
         h.parted \/ g.runners[r].closes = 0,
         NEW k \in Nat, Turn(g, k, h), \A i \in 1 .. k : g.vec[i] # r
  PROVE  Turn(g, k, DeleteMe(h, r))
<1> DEFINE d == DeleteMe(h, r)
<1>1. Sound(h) /\ Len(g.runners) <= Len(h.runners)
  BY DEF Since
<1>2. Len(g.runners) \in Nat /\ Len(h.runners) \in Nat /\ Len(h.vec) \in Nat
  BY <1>1, Fields DEF Sound
<1>3. r \in 1 .. Len(h.runners) /\ (h.parted \/ h.runners[r].closes = 0)
  BY <1>1, <1>2 DEF Since
<1>4. SameRest(h, d) /\ TakenOut(h.vec, r, d.vec)
  BY <1>1, <1>3, DeleteSound
<1> HIDE DEF d
<1>5. k \in 0 .. Len(h.vec) /\ \A i \in 1 .. k : h.vec[i] # r
  BY <1>2 DEF Turn
<1>6. k <= Len(d.vec) /\ \A i \in 1 .. k : d.vec[i] = h.vec[i]
  BY <1>4, <1>5 DEF TakenOut
<1>7. Turn(g, k, d)
  BY <1>4, <1>6 DEF Turn, TakenOut, SameRest
<1> QED BY <1>7 DEF d

LEMMA SinceMake ==
  ASSUME NEW g, Sound(g), NEW h, Since(g, h), NEW kind \in Kind, kind # "Debug",
         NEW part \in 0 .. Len(h.runners), part # debugRunner, NEW conn \in Nat
  PROVE  Since(g, Make(h, kind, part, conn))
<1> DEFINE m == Make(h, kind, part, conn)
           n == Len(h.runners) + 1
<1>1. Sound(h)
  BY DEF Since
<1>2. /\ Sound(m) /\ m.del = h.del /\ m.parted = h.parted /\ m.conns = h.conns
      /\ Len(m.runners) = n
      /\ \A r \in 1 .. Len(h.runners) : m.runners[r] = h.runners[r]
      /\ m.runners[n] = NewRunner(kind, part, conn)
  BY <1>1, MakeSound
<1> HIDE DEF m
<1>3. m.runners[n].closes = 0
  BY <1>2 DEF NewRunner
<1>4. Len(g.runners) \in Nat /\ Len(h.runners) \in Nat /\ Len(g.runners) <= Len(h.runners)
  BY <1>1, Fields DEF Sound, Since
<1>5. ASSUME NEW r \in 1 .. Len(g.runners)
      PROVE m.runners[r].closes = g.runners[r].closes
  <2>1. r \in 1 .. Len(h.runners)
    BY <1>4
  <2> QED BY <1>2, <2>1 DEF Since
<1>6. ASSUME NEW r \in Len(g.runners) + 1 .. n
      PROVE m.runners[r].closes = 0
  <2>1. \/ r = n
        \/ r \in 1 .. Len(h.runners) /\ r \in Len(g.runners) + 1 .. Len(h.runners)
    BY <1>4
  <2> QED BY <1>2, <1>3, <2>1 DEF Since
<1>7. Len(g.runners) <= n
  BY <1>4
<1>8. Since(g, m)
  <2> HIDE DEF n
  <2> QED BY <1>2, <1>5, <1>6, <1>7 DEF Since
<1> QED BY <1>8 DEF m

LEMMA TurnMake ==
  ASSUME NEW g, Sound(g), NEW h, Since(g, h), NEW kind \in Kind, kind # "Debug",
         NEW part \in 0 .. Len(h.runners), part # debugRunner, NEW conn \in Nat,
         NEW k \in Nat, Turn(g, k, h), \A i \in 1 .. k : g.vec[i] # debugRunner
  PROVE  Turn(g, k, Make(h, kind, part, conn))
<1> DEFINE m == Make(h, kind, part, conn)
           n == Len(h.runners) + 1
<1>1. Sound(h)
  BY DEF Since
<1>2. Len(m.runners) = n /\ PushedOn(h, n, m)
  BY <1>1, MakeSound
<1> HIDE DEF m
<1>3. /\ Len(g.runners) \in Nat /\ Len(h.runners) \in Nat
      /\ Len(g.runners) <= Len(h.runners) /\ Len(h.vec) \in Nat
  BY <1>1, Fields DEF Sound, Since
<1>4. k \in 0 .. Len(h.vec) /\ \A i \in 1 .. k : h.vec[i] # debugRunner
  BY <1>3 DEF Turn
<1>5. k <= Len(m.vec) /\ \A i \in 1 .. k : m.vec[i] = h.vec[i]
  BY <1>2, <1>4 DEF PushedOn
<1>6. n \in Len(g.runners) + 1 .. n /\ \A r \in Len(g.runners) + 1 .. Len(h.runners) :
        r \in Len(g.runners) + 1 .. n
  BY <1>3
<1>7. ToSet(m.vec) \subseteq ToSet(g.vec) \cup (Len(g.runners) + 1 .. n)
  BY <1>2, <1>6 DEF Turn, PushedOn
<1>8. Turn(g, k, m)
  BY <1>2, <1>5, <1>7 DEF Turn
<1> QED BY <1>8 DEF m

LEMMA SinceSame ==
  ASSUME NEW g, Since(g, g), NEW h, Since(g, h), NEW k, SameStack(h, k)
  PROVE  Since(g, k)
<1>1. Sound(h) /\ Sound(k)
  BY SameSound DEF Since
<1>2. /\ Len(g.runners) \in Nat /\ Len(h.runners) \in Nat
      /\ Len(g.conns) \in Nat /\ Len(h.conns) \in Nat /\ Len(k.conns) \in Nat
      /\ Len(g.runners) <= Len(h.runners) /\ Len(g.conns) <= Len(h.conns)
      /\ Len(h.conns) <= Len(k.conns) /\ Len(k.runners) = Len(h.runners)
  BY <1>1, Fields DEF Sound, Since, SameStack
<1>3. \A r \in 1 .. Len(g.runners) : k.runners[r].closes = g.runners[r].closes
  <2>1. \A r \in 1 .. Len(g.runners) : r \in 1 .. Len(h.runners)
    BY <1>2
  <2> QED BY <2>1 DEF Since, SameStack
<1>4. \A r \in Len(g.runners) + 1 .. Len(k.runners) : k.runners[r].closes = 0
  <2>1. \A r \in Len(g.runners) + 1 .. Len(k.runners) :
          r \in 1 .. Len(h.runners) /\ r \in Len(g.runners) + 1 .. Len(h.runners)
    BY <1>2
  <2> QED BY <2>1 DEF Since, SameStack
<1>5. Len(g.conns) <= Len(k.conns) /\ Len(g.runners) <= Len(k.runners)
  BY <1>2
<1> QED BY <1>1, <1>3, <1>4, <1>5 DEF Since, SameStack

LEMMA TurnSame ==
  ASSUME NEW g, NEW h, NEW n \in Nat, Turn(g, n, h), NEW k, SameStack(h, k)
  PROVE  Turn(g, n, k)
  BY DEF Turn, SameStack

-------------------------------------------------------------------------------
(* The steps a handler is made of, on the connections.                     *)

LEMMA ConnsRest ==
  ASSUME NEW g, Conns(g), NEW h, SameRest(g, h)
  PROVE  Conns(h)
  BY DEF Conns, SameRest

LEMMA DisplayConns ==
  ASSUME NEW g, Sound(g), Conns(g), NEW kind \in Kind, kind # "Debug",
         NEW part \in 0 .. Len(g.runners), part # debugRunner
  PROVE  Conns(Make(g, kind, part, NoConn))
<1> DEFINE m == Make(g, kind, part, NoConn)
           n == Len(g.runners) + 1
<1>1. NoConn \in Nat
  BY DEF NoConn
<1>2. /\ m.conns = g.conns /\ Len(m.runners) = n
      /\ \A r \in 1 .. Len(g.runners) : m.runners[r] = g.runners[r]
      /\ m.runners[n] = NewRunner(kind, part, NoConn)
  BY <1>1, MakeSound
<1> HIDE DEF m
<1>3. m.runners[n].conn = NoConn
  BY <1>2 DEF NewRunner
<1>4. Len(g.runners) \in Nat
  BY Fields DEF Sound
<1>5. /\ \A r \in 1 .. n : r = n \/ r \in 1 .. Len(g.runners)
      /\ \A r \in 1 .. Len(g.runners) : r \in 1 .. n
  BY <1>4
<1>6. Conns(m)
  <2> HIDE DEF n
  <2>1. ASSUME NEW r \in 1 .. n, m.runners[r].conn # NoConn
        PROVE  /\ m.runners[r].conn \in 1 .. Len(m.conns)
               /\ m.conns[m.runners[r].conn].cl = r
    BY <1>2, <1>3, <1>5, <2>1 DEF Conns
  <2>2. ASSUME NEW x \in 1 .. Len(m.conns)
        PROVE  /\ m.conns[x].cl \in 1 .. n /\ m.conns[x].cl # debugRunner
               /\ m.conns[x].open => m.runners[m.conns[x].cl].conn = x
    <3>1. /\ g.conns[x].cl \in 1 .. Len(g.runners) /\ g.conns[x].cl # debugRunner
          /\ g.conns[x].open => g.runners[g.conns[x].cl].conn = x
      BY <1>2 DEF Conns
    <3>2. /\ m.conns[x] = g.conns[x] /\ g.conns[x].cl \in 1 .. n
          /\ m.runners[g.conns[x].cl] = g.runners[g.conns[x].cl]
      BY <1>2, <1>5, <3>1
    <3> QED BY <3>1, <3>2
  <2> QED BY <1>2, <2>1, <2>2 DEF Conns
<1> QED BY <1>6 DEF m

(* A runner that takes over a connection nobody else holds.                *)
HeldBy(h, c, n) ==
  /\ \A r \in 1 .. Len(h.runners) :
       h.runners[r].conn # NoConn =>
         /\ h.runners[r].conn \in 1 .. Len(h.conns)
         /\ h.conns[h.runners[r].conn].cl = r
         /\ h.runners[r].conn # c
  /\ \A x \in 1 .. Len(h.conns) :
       x # c => /\ h.conns[x].cl \in 1 .. Len(h.runners)
                /\ h.conns[x].cl # debugRunner
                /\ h.conns[x].open => h.runners[h.conns[x].cl].conn = x
  /\ h.conns[c].cl = n

LEMMA TakeOverConns ==
  ASSUME NEW h, Sound(h), NEW c \in 1 .. Len(h.conns),
         HeldBy(h, c, Len(h.runners) + 1), NEW kind \in Kind, kind # "Debug"
  PROVE  Conns(Make(h, kind, NoRunner, c))
<1> DEFINE m == Make(h, kind, NoRunner, c)
           n == Len(h.runners) + 1
<1>1. Len(h.runners) \in Nat /\ Len(h.conns) \in Nat /\ Len(h.runners) >= 3
  BY Fields DEF Sound, Objects
<1>2. NoRunner \in 0 .. Len(h.runners) /\ NoRunner # debugRunner /\ c \in Nat
  BY <1>1 DEF NoRunner, debugRunner
<1>3. /\ m.conns = h.conns /\ Len(m.runners) = n
      /\ \A r \in 1 .. Len(h.runners) : m.runners[r] = h.runners[r]
      /\ m.runners[n] = NewRunner(kind, NoRunner, c)
  BY <1>2, MakeSound
<1> HIDE DEF m
<1>4. m.runners[n].conn = c
  BY <1>3 DEF NewRunner
<1>5. /\ \A r \in 1 .. n : r = n \/ r \in 1 .. Len(h.runners)
      /\ \A r \in 1 .. Len(h.runners) : r \in 1 .. n
      /\ n \in 1 .. n /\ n # debugRunner
  BY <1>1 DEF debugRunner
<1>6. HeldBy(h, c, n)
  OBVIOUS
<1> HIDE DEF n
<1>7. ASSUME NEW r \in 1 .. n, m.runners[r].conn # NoConn
      PROVE  /\ m.runners[r].conn \in 1 .. Len(m.conns)
             /\ m.conns[m.runners[r].conn].cl = r
  BY <1>3, <1>4, <1>5, <1>6, <1>7 DEF HeldBy
<1>8. ASSUME NEW x \in 1 .. Len(m.conns)
      PROVE  /\ m.conns[x].cl \in 1 .. n /\ m.conns[x].cl # debugRunner
             /\ m.conns[x].open => m.runners[m.conns[x].cl].conn = x
  <2>1. CASE x = c
    BY <1>3, <1>4, <1>5, <1>6, <2>1 DEF HeldBy
  <2>2. CASE x # c
    <3>1. /\ h.conns[x].cl \in 1 .. Len(h.runners) /\ h.conns[x].cl # debugRunner
          /\ h.conns[x].open => h.runners[h.conns[x].cl].conn = x
      BY <1>3, <1>6, <2>2 DEF HeldBy
    <3>2. /\ m.conns[x] = h.conns[x] /\ h.conns[x].cl \in 1 .. n
          /\ m.runners[h.conns[x].cl] = h.runners[h.conns[x].cl]
      BY <1>3, <1>5, <3>1
    <3> QED BY <3>1, <3>2
  <2> QED BY <2>1, <2>2
<1>9. Conns(m)
  BY <1>3, <1>7, <1>8 DEF Conns
<1> QED BY <1>9 DEF m

(* Whoever hands a connection on lets go of it first.                      *)
Freed(g, r) == [g EXCEPT !.runners[r].conn = NoConn]

LEMMA FreedIs ==
  ASSUME NEW g, Sound(g), NEW r \in 1 .. Len(g.runners)
  PROVE  LET h == Freed(g, r)
         IN  /\ SameStack(g, h) /\ h.conns = g.conns /\ h.runners[r].conn = NoConn
             /\ h.cookie = g.cookie
             /\ \A o \in 1 .. Len(g.runners) :
                  o # r => h.runners[o] = g.runners[o]
<1> DEFINE h == Freed(g, r)
           x == [g.runners[r] EXCEPT !.conn = NoConn]
           rs == [g.runners EXCEPT ![r] = x]
<1>1. g \in App /\ g.runners \in Seq(RunnerRec) /\ g.runners[r] \in RunnerRec
      /\ Len(g.conns) \in Nat
  BY Fields, RunnerFields DEF Sound
<1>2. /\ x \in RunnerRec /\ x.conn = NoConn
      /\ x.kind = g.runners[r].kind /\ x.type = g.runners[r].type
      /\ x.part = g.runners[r].part /\ x.closes = g.runners[r].closes
  BY <1>1 DEF RunnerRec, NoConn
<1>3. h = [g EXCEPT !.runners = rs]
  BY DEF Freed
<1> HIDE DEF x
<1>4. /\ rs \in Seq(RunnerRec) /\ Len(rs) = Len(g.runners) /\ rs[r] = x
      /\ \A o \in 1 .. Len(g.runners) : o # r => rs[o] = g.runners[o]
  BY <1>1, <1>2, ExceptSeq
<1> HIDE DEF h, rs
<1>5. h \in App /\ h.runners = rs
  BY <1>1, <1>3, <1>4 DEF App
<1>6. /\ h.cookie = g.cookie /\ h.parted = g.parted /\ h.conns = g.conns
      /\ h.vec = g.vec /\ h.del = g.del /\ h.dirty = g.dirty
      /\ h.currentInput = g.currentInput /\ h.running = g.running
  BY <1>1, <1>3 DEF App
<1>7. ASSUME NEW o \in 1 .. Len(g.runners)
      PROVE /\ rs[o].kind = g.runners[o].kind
            /\ rs[o].type = g.runners[o].type
            /\ rs[o].part = g.runners[o].part
            /\ rs[o].closes = g.runners[o].closes
            /\ rs[o].conn \in {NoConn, g.runners[o].conn}
  BY <1>2, <1>4
<1>8. SameStack(g, h)
  BY <1>1, <1>4, <1>5, <1>6, <1>7 DEF SameStack
<1> QED BY <1>2, <1>4, <1>5, <1>6, <1>8 DEF h

(* A connection gets another listener.                                     *)
Listened(h, c, n) == [h EXCEPT !.conns[c].cl = n]

LEMMA ListenedIs ==
  ASSUME NEW h, Sound(h), NEW c \in 1 .. Len(h.conns), NEW n \in Nat
  PROVE  LET k == Listened(h, c, n)
         IN  /\ SameStack(h, k) /\ k.runners = h.runners
             /\ Len(k.conns) = Len(h.conns)
             /\ k.conns[c].cl = n /\ k.conns[c].open = h.conns[c].open
             /\ \A x \in 1 .. Len(h.conns) : x # c => k.conns[x] = h.conns[x]
<1> DEFINE k == Listened(h, c, n)
           y == [h.conns[c] EXCEPT !.cl = n]
           cs == [h.conns EXCEPT ![c] = y]
<1>1. h \in App /\ h.conns \in Seq(ConnRec) /\ h.conns[c] \in ConnRec
      /\ Len(h.conns) \in Nat /\ Len(h.runners) \in Nat
  BY Fields, ConnFields DEF Sound
<1>2. y \in ConnRec /\ y.cl = n /\ y.open = h.conns[c].open
  BY <1>1 DEF ConnRec
<1>3. k = [h EXCEPT !.conns = cs]
  BY DEF Listened
<1> HIDE DEF y
<1>4. /\ cs \in Seq(ConnRec) /\ Len(cs) = Len(h.conns) /\ cs[c] = y
      /\ \A x \in 1 .. Len(h.conns) : x # c => cs[x] = h.conns[x]
  BY <1>1, <1>2, ExceptSeq
<1> HIDE DEF k, cs
<1>5. k \in App /\ k.conns = cs
  BY <1>1, <1>3, <1>4 DEF App
<1>6. /\ k.cookie = h.cookie /\ k.parted = h.parted /\ k.runners = h.runners
      /\ k.vec = h.vec /\ k.del = h.del /\ k.dirty = h.dirty
      /\ k.currentInput = h.currentInput /\ k.running = h.running
  BY <1>1, <1>3 DEF App
<1>7. SameStack(h, k)
  BY <1>1, <1>4, <1>5, <1>6 DEF SameStack
<1> QED BY <1>2, <1>4, <1>5, <1>6, <1>7 DEF k

(* A new connection.                                                       *)
Opened(g, n) == [g EXCEPT !.conns = Append(@, [cl |-> n, open |-> FALSE])]

LEMMA OpenedIs ==
  ASSUME NEW g, Sound(g), NEW n \in Nat
  PROVE  LET k == Opened(g, n)
             c == Len(g.conns) + 1
         IN  /\ SameStack(g, k) /\ k.runners = g.runners
             /\ Len(k.conns) = c /\ k.conns[c].cl = n
             /\ \A x \in 1 .. Len(g.conns) : k.conns[x] = g.conns[x]
<1> DEFINE k == Opened(g, n)
           y == [cl |-> n, open |-> FALSE]
           cs == Append(g.conns, y)
           l == Len(g.conns)
<1>1. g \in App /\ g.conns \in Seq(ConnRec) /\ l \in Nat /\ Len(g.runners) \in Nat
  BY Fields DEF Sound
<1>2. y \in ConnRec /\ y.cl = n
  BY DEF ConnRec
<1>3. k = [g EXCEPT !.conns = cs]
  BY DEF Opened
<1> HIDE DEF y
<1>4. /\ cs \in Seq(ConnRec) /\ Len(cs) = l + 1 /\ cs[l + 1] = y
      /\ \A x \in 1 .. l : cs[x] = g.conns[x]
  BY <1>1, <1>2, AppendProperties
<1> HIDE DEF k, cs
<1>5. k \in App /\ k.conns = cs
  BY <1>1, <1>3, <1>4 DEF App
<1>6. /\ k.cookie = g.cookie /\ k.parted = g.parted /\ k.runners = g.runners
      /\ k.vec = g.vec /\ k.del = g.del /\ k.dirty = g.dirty
      /\ k.currentInput = g.currentInput /\ k.running = g.running
  BY <1>1, <1>3 DEF App
<1>7. l <= l + 1
  BY <1>1
<1>8. SameStack(g, k)
  BY <1>1, <1>4, <1>5, <1>6, <1>7 DEF SameStack
<1> QED BY <1>2, <1>4, <1>5, <1>6, <1>8 DEF k, l

LEMMA QuitIs ==
  ASSUME NEW g, Sound(g)
  PROVE  LET h == Quit(g)
         IN  SameStack(g, h) /\ h.runners = g.runners /\ h.conns = g.conns
<1> DEFINE h == Quit(g)
<1>1. g \in App /\ Len(g.conns) \in Nat
  BY Fields DEF Sound
<1>2. h = [g EXCEPT !.running = FALSE]
  BY DEF Quit
<1> HIDE DEF h
<1>3. h \in App /\ h.running = FALSE
  BY <1>1, <1>2 DEF App
<1>4. /\ h.cookie = g.cookie /\ h.parted = g.parted /\ h.runners = g.runners
      /\ h.conns = g.conns /\ h.vec = g.vec /\ h.del = g.del /\ h.dirty = g.dirty
      /\ h.currentInput = g.currentInput
  BY <1>1, <1>2 DEF App
<1> QED BY <1>1, <1>3, <1>4 DEF SameStack, h

Parted(g, gone) == [g EXCEPT !.parted = @ \/ gone]

LEMMA PartedIs ==
  ASSUME NEW g, Sound(g), NEW gone \in BOOLEAN
  PROVE  LET h == Parted(g, gone)
         IN  /\ SameStack(g, h) /\ h.runners = g.runners /\ h.conns = g.conns
             /\ gone => h.parted
<1> DEFINE h == Parted(g, gone)
           p == g.parted \/ gone
<1>1. g \in App /\ Len(g.conns) \in Nat /\ g.parted \in BOOLEAN
  BY Fields DEF Sound
<1>2. h = [g EXCEPT !.parted = p] /\ p \in BOOLEAN
  BY DEF Parted
<1> HIDE DEF h, p
<1>3. h \in App /\ h.parted = p
  BY <1>1, <1>2 DEF App
<1>4. /\ h.cookie = g.cookie /\ h.running = g.running /\ h.runners = g.runners
      /\ h.conns = g.conns /\ h.vec = g.vec /\ h.del = g.del /\ h.dirty = g.dirty
      /\ h.currentInput = g.currentInput
  BY <1>1, <1>2 DEF App
<1>5. (g.parted => h.parted) /\ (gone => h.parted)
  BY <1>3 DEF p
<1> QED BY <1>1, <1>3, <1>4, <1>5 DEF SameStack, h

-------------------------------------------------------------------------------
(* The handlers.  k is how much of the stack has its turn still to come.   *)

Waits(g, k) == k \in 0 .. Len(g.vec) /\ \A i \in 1 .. k : g.vec[i] # debugRunner

(* What holds of the router after a handler.                               *)
Handled(g, k, h) == Since(g, h) /\ Conns(h) /\ Turn(g, k, h)

LEMMA TurnSelf ==
  ASSUME NEW g, Sound(g), NEW k, Waits(g, k)
  PROVE  Turn(g, k, g) /\ k \in Nat
<1>1. Len(g.vec) \in Nat
  BY Fields DEF Sound
<1> QED BY <1>1 DEF Turn, Waits

LEMMA HandledSelf ==
  ASSUME NEW g, Sound(g), Conns(g), NEW k, Waits(g, k)
  PROVE  Handled(g, k, g)
  BY SinceSelf, TurnSelf DEF Handled

LEMMA NothingIs ==
  ASSUME NEW g, Sound(g)
  PROVE  NoRunner \in 0 .. Len(g.runners) /\ NoRunner # debugRunner /\ NoConn \in Nat
<1>1. Len(g.runners) \in Nat
  BY Fields DEF Sound
<1> QED BY <1>1 DEF NoRunner, NoConn, debugRunner

LEMMA DisplayIs ==
  ASSUME NEW g, Sound(g), NEW k, Waits(g, k), NEW h, Handled(g, k, h),
         NEW kind \in Kind, kind # "Debug",
         NEW part \in 0 .. Len(h.runners), part # debugRunner
  PROVE  /\ Handled(g, k, Make(h, kind, part, NoConn))
         /\ Make(h, kind, part, NoConn).parted = h.parted
         /\ Make(h, kind, part, NoConn).conns = h.conns
<1> DEFINE m == Make(h, kind, part, NoConn)
<1>1. Since(g, h) /\ Conns(h) /\ Turn(g, k, h) /\ Sound(h) /\ k \in Nat
  BY TurnSelf DEF Handled, Since
<1>2. NoConn \in Nat
  BY DEF NoConn
<1>3. Since(g, m)
  BY <1>1, <1>2, SinceMake
<1>4. Turn(g, k, m)
  BY <1>1, <1>2, TurnMake DEF Waits
<1>5. Conns(m)
  BY <1>1, DisplayConns
<1>6. m.parted = h.parted /\ m.conns = h.conns
  BY <1>1, <1>2, MakeSound
<1> QED BY <1>3, <1>4, <1>5, <1>6 DEF Handled

LEMMA DeleteIs ==
  ASSUME NEW g, Sound(g), NEW k, Waits(g, k), NEW h, Handled(g, k, h),
         NEW r \in 1 .. Len(g.runners), r # debugRunner,
         h.parted \/ g.runners[r].closes = 0, \A i \in 1 .. k : g.vec[i] # r
  PROVE  Handled(g, k, DeleteMe(h, r)) /\ SameRest(h, DeleteMe(h, r))
<1> DEFINE d == DeleteMe(h, r)
<1>1. Since(g, h) /\ Conns(h) /\ Turn(g, k, h) /\ k \in Nat
  BY TurnSelf DEF Handled
<1>2. Since(g, d) /\ SameRest(h, d)
  BY <1>1, SinceDelete
<1>3. Turn(g, k, d)
  BY <1>1, TurnDelete
<1>4. Conns(d)
  BY <1>1, <1>2, ConnsRest
<1> QED BY <1>2, <1>3, <1>4 DEF Handled

(* A change of the fields that leaves stack and connections alone.         *)
LEMMA AsideIs ==
  ASSUME NEW g, Sound(g), NEW k, Waits(g, k), NEW h, Handled(g, k, h),
         NEW a, SameStack(h, a), a.runners = h.runners, a.conns = h.conns
  PROVE  Handled(g, k, a)
<1>1. Since(g, h) /\ Conns(h) /\ Turn(g, k, h) /\ k \in Nat
  BY TurnSelf DEF Handled
<1>2. Since(g, a)
  BY <1>1, SinceSelf, SinceSame
<1>3. Turn(g, k, a)
  BY <1>1, TurnSame
<1>4. Conns(a)
  BY <1>1 DEF Conns
<1> QED BY <1>2, <1>3, <1>4 DEF Handled

(* A runner that has a connection is not closed.                           *)
LEMMA HolderLives ==
  ASSUME NEW g, Sound(g), NEW r \in 1 .. Len(g.runners),
         g.runners[r].conn # NoConn
  PROVE  g.runners[r].closes = 0
<1>1. g.runners[r].closes \in Nat
  BY RunnerFields DEF Sound
<1>2. ~ (g.runners[r].closes > 0)
  BY DEF Sound, Ends
<1> QED BY <1>1, <1>2

LEMMA StackedLives ==
  ASSUME NEW g, Sound(g), NEW r \in ToSet(g.vec)
  PROVE  r \in 1 .. Len(g.runners) /\ g.runners[r].closes = 0
<1>1. r \in 1 .. Len(g.runners)
  BY DEF Sound, Stack
<1>2. g.runners[r].closes \in Nat
  BY <1>1, RunnerFields DEF Sound
<1>3. ~ (g.runners[r].closes > 0)
  BY <1>1 DEF Sound, Ends
<1> QED BY <1>1, <1>2, <1>3

LEMMA ConnectIs ==
  ASSUME NEW g, Sound(g), Conns(g), NEW k, Waits(g, k)
  PROVE  Handled(g, k, ConnectToClassic(g))
<1> DEFINE n == Len(g.runners) + 1
           c == Len(g.conns) + 1
           o == Opened(g, n)
           m == Make(o, "Connecting", NoRunner, c)
<1>1. Len(g.runners) \in Nat /\ Len(g.conns) \in Nat /\ n \in Nat /\ c \in Nat
  BY Fields DEF Sound
<1>2. /\ SameStack(g, o) /\ o.runners = g.runners
      /\ Len(o.conns) = c /\ o.conns[c].cl = n
      /\ \A x \in 1 .. Len(g.conns) : o.conns[x] = g.conns[x]
  BY <1>1, OpenedIs
<1>3. ConnectToClassic(g) = m
  BY DEF ConnectToClassic, Opened
<1> HIDE DEF o
<1>4. Sound(o) /\ Since(g, o) /\ Turn(g, k, o) /\ k \in Nat
  BY <1>2, SameSound, SinceSelf, SinceSame, TurnSelf, TurnSame
<1>5. "Connecting" \in Kind /\ "Connecting" # "Debug"
  BY DEF Kind
<1>6. NoRunner \in 0 .. Len(o.runners) /\ NoRunner # debugRunner
  BY <1>4, NothingIs
<1>7. Since(g, m) /\ Turn(g, k, m)
  BY <1>1, <1>4, <1>5, <1>6, SinceMake, TurnMake DEF Waits
<1>8. c \in 1 .. Len(o.conns)
  BY <1>1, <1>2
<1>9. HeldBy(o, c, Len(o.runners) + 1)
  <2>1. ASSUME NEW r \in 1 .. Len(o.runners), o.runners[r].conn # NoConn
        PROVE  /\ o.runners[r].conn \in 1 .. Len(o.conns)
               /\ o.conns[o.runners[r].conn].cl = r
               /\ o.runners[r].conn # c
    <3>1. /\ g.runners[r].conn \in 1 .. Len(g.conns)
          /\ g.conns[g.runners[r].conn].cl = r
      BY <1>2, <2>1 DEF Conns
    <3>2. g.runners[r].conn \in 1 .. c /\ g.runners[r].conn # c
      BY <1>1, <3>1
    <3> QED BY <1>2, <3>1, <3>2
  <2>2. ASSUME NEW x \in 1 .. Len(o.conns), x # c
        PROVE  /\ o.conns[x].cl \in 1 .. Len(o.runners)
               /\ o.conns[x].cl # debugRunner
               /\ o.conns[x].open => o.runners[o.conns[x].cl].conn = x
    <3>1. x \in 1 .. Len(g.conns)
      BY <1>1, <1>2, <2>2
    <3> QED BY <1>2, <3>1 DEF Conns
  <2> QED BY <1>2, <2>1, <2>2 DEF HeldBy
<1>10. Conns(m)
  <2> HIDE DEF c
  <2> QED BY <1>4, <1>5, <1>8, <1>9, TakeOverConns
<1> QED BY <1>3, <1>7, <1>10 DEF Handled

(* Nobody holds c: its listener has let go of it.                          *)
Loose(h, c) ==
  /\ \A r \in 1 .. Len(h.runners) :
       h.runners[r].conn # NoConn =>
         /\ h.runners[r].conn \in 1 .. Len(h.conns)
         /\ h.conns[h.runners[r].conn].cl = r
         /\ h.runners[r].conn # c
  /\ \A x \in 1 .. Len(h.conns) :
       x # c => /\ h.conns[x].cl \in 1 .. Len(h.runners)
                /\ h.conns[x].cl # debugRunner
                /\ h.conns[x].open => h.runners[h.conns[x].cl].conn = x

LEMMA FreedLoose ==
  ASSUME NEW g, Sound(g), Conns(g), NEW c \in 1 .. Len(g.conns), g.conns[c].open
  PROVE  Loose(Freed(g, g.conns[c].cl), c)
<1> DEFINE r == g.conns[c].cl
           h == Freed(g, r)
<1>1. r \in 1 .. Len(g.runners) /\ g.runners[r].conn = c
  BY DEF Conns
<1> HIDE DEF r
<1>2. /\ SameStack(g, h) /\ h.conns = g.conns /\ h.runners[r].conn = NoConn
      /\ \A o \in 1 .. Len(g.runners) : o # r => h.runners[o] = g.runners[o]
  BY <1>1, FreedIs
<1> HIDE DEF h
<1>3. Len(h.runners) = Len(g.runners)
  BY <1>2 DEF SameStack
<1>4. ASSUME NEW o \in 1 .. Len(h.runners), h.runners[o].conn # NoConn
      PROVE  /\ h.runners[o].conn \in 1 .. Len(h.conns)
             /\ h.conns[h.runners[o].conn].cl = o
             /\ h.runners[o].conn # c
  <2>1. o # r /\ h.runners[o] = g.runners[o]
    BY <1>2, <1>3, <1>4
  <2> QED BY <1>2, <1>3, <1>4, <2>1 DEF Conns, r
<1>5. ASSUME NEW x \in 1 .. Len(h.conns), x # c
      PROVE  /\ h.conns[x].cl \in 1 .. Len(h.runners)
             /\ h.conns[x].cl # debugRunner
             /\ h.conns[x].open => h.runners[h.conns[x].cl].conn = x
  <2>1. /\ g.conns[x].cl \in 1 .. Len(g.runners) /\ g.conns[x].cl # debugRunner
        /\ g.conns[x].open => g.runners[g.conns[x].cl].conn = x
    BY <1>2 DEF Conns
  <2>2. g.conns[x].open => g.conns[x].cl # r
    BY <1>1, <1>5, <2>1
  <2> QED BY <1>2, <1>3, <2>1, <2>2
<1> QED BY <1>4, <1>5 DEF Loose, h, r

LEMMA HandOverIs ==
  ASSUME NEW g, Sound(g), NEW k, Waits(g, k),
         NEW h, Since(g, h), Turn(g, k, h),
         NEW c \in 1 .. Len(h.conns), Loose(h, c),
         NEW kind \in Kind, kind # "Debug"
  PROVE  LET m == HandOver(h, kind, c)
         IN  /\ Handled(g, k, m) /\ m.parted = h.parted
             /\ m.conns[c].open = h.conns[c].open
             /\ m.conns[c].cl = Len(h.runners) + 1
<1> DEFINE n == Len(h.runners) + 1
           o == Listened(h, c, n)
           m == Make(o, kind, NoRunner, c)
<1>1. Sound(h) /\ Len(h.runners) \in Nat /\ n \in Nat /\ c \in Nat /\ k \in Nat
  BY Fields, TurnSelf DEF Sound, Since
<1>2. /\ SameStack(h, o) /\ o.runners = h.runners
      /\ Len(o.conns) = Len(h.conns)
      /\ o.conns[c].cl = n /\ o.conns[c].open = h.conns[c].open
      /\ \A x \in 1 .. Len(h.conns) : x # c => o.conns[x] = h.conns[x]
  BY <1>1, ListenedIs
<1>3. HandOver(h, kind, c) = m
  BY DEF HandOver, Listened
<1> HIDE DEF o
<1>4. Sound(o) /\ Since(g, o) /\ Turn(g, k, o)
  BY <1>1, <1>2, SameSound, SinceSelf, SinceSame, TurnSame
<1>5. NoRunner \in 0 .. Len(o.runners) /\ NoRunner # debugRunner
  BY <1>4, NothingIs
<1>6. Since(g, m) /\ Turn(g, k, m)
  BY <1>1, <1>4, <1>5, SinceMake, TurnMake DEF Waits
<1>7. HeldBy(o, c, Len(o.runners) + 1)
  <2>1. ASSUME NEW r \in 1 .. Len(h.runners), h.runners[r].conn # NoConn
        PROVE  /\ h.runners[r].conn \in 1 .. Len(o.conns)
               /\ o.conns[h.runners[r].conn].cl = r
               /\ h.runners[r].conn # c
    BY <1>2, <2>1 DEF Loose
  <2>2. ASSUME NEW x \in 1 .. Len(o.conns), x # c
        PROVE  /\ o.conns[x].cl \in 1 .. Len(h.runners)
               /\ o.conns[x].cl # debugRunner
               /\ o.conns[x].open => h.runners[o.conns[x].cl].conn = x
    BY <1>2, <2>2 DEF Loose
  <2>3. o.conns[c].cl = Len(o.runners) + 1
    BY <1>2
  <2> QED BY <1>2, <2>1, <2>2, <2>3 DEF HeldBy
<1>8. Conns(m)
  BY <1>2, <1>4, <1>7, TakeOverConns
<1>9. m.conns = o.conns /\ m.parted = o.parted
  BY <1>1, <1>4, <1>5, MakeSound
<1>10. m.parted = h.parted
  BY <1>9 DEF o, Listened
<1> QED BY <1>2, <1>3, <1>6, <1>8, <1>9, <1>10 DEF Handled

(* The menu gives way to what it opened.                                   *)
LEMMA ReplaceIs ==
  ASSUME NEW g, Sound(g), Conns(g), NEW k, Waits(g, k),
         NEW kind \in Kind, kind # "Debug",
         NEW r \in 1 .. Len(g.runners), r # debugRunner,
         g.runners[r].closes = 0, \A i \in 1 .. k : g.vec[i] # r
  PROVE  /\ Handled(g, k, DeleteMe(Display(g, kind), r))
         /\ DeleteMe(Display(g, kind), r).conns = g.conns
<1> DEFINE m == Display(g, kind)
<1>1. m = Make(g, kind, NoRunner, NoConn)
  BY DEF Display
<1>2. Handled(g, k, m) /\ m.conns = g.conns
  BY <1>1, HandledSelf, NothingIs, DisplayIs
<1> HIDE DEF m
<1>3. Handled(g, k, DeleteMe(m, r)) /\ SameRest(m, DeleteMe(m, r))
  BY <1>2, DeleteIs
<1> QED BY <1>2, <1>3 DEF SameRest, m

(* The user's events, when no runner waits for its turn.                   *)
LEMMA NoneWaits ==
  ASSUME NEW g, Sound(g)
  PROVE  Waits(g, 0) /\ \A r : \A i \in 1 .. 0 : g.vec[i] # r
<1>1. Len(g.vec) \in Nat
  BY Fields DEF Sound
<1> QED BY <1>1 DEF Waits

InHand(g, r) ==
  /\ Sound(g) /\ Conns(g)
  /\ r \in 1 .. Len(g.runners) /\ r # debugRunner /\ g.runners[r].closes = 0

LEMMA LeaveIs ==
  ASSUME NEW g, NEW r, InHand(g, r)
  PROVE  /\ Handled(g, 0, Quit(g)) /\ Handled(g, 0, DeleteMe(g, r))
         /\ Handled(g, 0, DeleteMe(Quit(g), r))
         /\ \A kind \in Kind \ {"Debug"} :
              Handled(g, 0, DeleteMe(Display(g, kind), r))
<1>1. /\ Sound(g) /\ Conns(g) /\ r \in 1 .. Len(g.runners) /\ r # debugRunner
      /\ g.runners[r].closes = 0
  BY DEF InHand
<1>2. Waits(g, 0) /\ \A i \in 1 .. 0 : g.vec[i] # r
  BY <1>1, NoneWaits
<1>3. Handled(g, 0, g)
  BY <1>1, <1>2, HandledSelf
<1>4. SameStack(g, Quit(g)) /\ Quit(g).runners = g.runners /\ Quit(g).conns = g.conns
  BY <1>1, QuitIs
<1>5. Handled(g, 0, Quit(g))
  BY <1>1, <1>2, <1>3, <1>4, AsideIs
<1>6. Handled(g, 0, DeleteMe(g, r))
  BY <1>1, <1>2, <1>3, DeleteIs
<1>7. Handled(g, 0, DeleteMe(Quit(g), r))
  BY <1>1, <1>2, <1>5, DeleteIs
<1>8. ASSUME NEW kind \in Kind \ {"Debug"}
      PROVE Handled(g, 0, DeleteMe(Display(g, kind), r))
  BY <1>1, <1>2, ReplaceIs
<1> QED BY <1>5, <1>6, <1>7, <1>8

LEMMA PauseOtherIs ==
  ASSUME NEW g, NEW r, InHand(g, r)
  PROVE  Handled(g, 0, PauseOther(g, r))
<1> DEFINE part == g.runners[r].part
           gone == part # NoRunner /\ g.runners[part].closes > 0
           p == Parted(g, gone)
           d == DeleteMe(p, part)
           h == IF part = NoRunner THEN g ELSE Display(d, "WebList")
<1>1. /\ Sound(g) /\ Conns(g) /\ r \in 1 .. Len(g.runners) /\ r # debugRunner
      /\ g.runners[r].closes = 0
  BY DEF InHand
<1>2. Waits(g, 0) /\ \A o : \A i \in 1 .. 0 : g.vec[i] # o
  BY <1>1, NoneWaits
<1>3. Handled(g, 0, g)
  BY <1>1, <1>2, HandledSelf
<1>4. PauseOther(g, r) = DeleteMe(h, r)
  BY DEF PauseOther, Parted
<1>5. part \in 0 .. Len(g.runners) /\ part # debugRunner
  BY <1>1 DEF Sound, Objects
<1> HIDE DEF part, p, d
<1>6. CASE part = NoRunner
  BY <1>1, <1>2, <1>3, <1>4, <1>6, DeleteIs
<1>7. CASE part # NoRunner
  <2>1. part \in 1 .. Len(g.runners) /\ Len(g.runners) \in Nat
    BY <1>1, <1>5, <1>7, Fields DEF Sound, NoRunner
  <2>2. g.runners[part].closes \in Nat
    BY <1>1, <2>1, RunnerFields DEF Sound
  <2>3. gone <=> g.runners[part].closes > 0
    BY <1>7
  <2>4. gone \in BOOLEAN
    OBVIOUS
  <2> HIDE DEF gone
  <2>5. /\ SameStack(g, p) /\ p.runners = g.runners /\ p.conns = g.conns
        /\ gone => p.parted
    BY <1>1, <2>4, PartedIs DEF p
  <2>6. Handled(g, 0, p)
    BY <1>1, <1>2, <1>3, <2>5, AsideIs
  <2>7. p.parted \/ g.runners[part].closes = 0
    BY <2>2, <2>3, <2>5
  <2>8. Handled(g, 0, d)
    BY <1>1, <1>2, <1>5, <2>1, <2>6, <2>7, DeleteIs DEF d
  <2>9. "WebList" \in Kind /\ "WebList" # "Debug"
    BY DEF Kind
  <2>10. NoRunner \in 0 .. Len(d.runners) /\ NoRunner # debugRunner
    BY <2>8, NothingIs DEF Handled, Since
  <2>11. Handled(g, 0, Display(d, "WebList"))
    BY <1>1, <1>2, <2>8, <2>9, <2>10, DisplayIs DEF Display
  <2>12. h = Display(d, "WebList")
    BY <1>7
  <2> HIDE DEF h
  <2> QED BY <1>1, <1>2, <1>4, <2>11, <2>12, DeleteIs
<1> QED BY <1>6, <1>7

(* F3 takes the debug runner off the stack or puts it on.                  *)
LEMMA ToggleIs ==
  ASSUME NEW g, Sound(g), Conns(g), DebugKept(g)
  PROVE  Since(g, ToggleDebug(g)) /\ Conns(ToggleDebug(g))
<1> DEFINE d == debugRunner
<1>1. /\ g \in App /\ Objects(g) /\ Stack(g) /\ Ends(g) /\ Control(g)
      /\ Len(g.runners) \in Nat /\ Len(g.runners) >= 3
  BY Fields DEF Sound, Objects
<1>2. /\ d \in 1 .. Len(g.runners) /\ g.runners[d].closes = 0
      /\ d \notin ToSet(g.del)
  BY <1>1 DEF DebugKept, debugRunner
<1>3. Since(g, g)
  BY SinceSelf
<1>4. ASSUME NEW h, SameRest(g, h), Sound(h), h.del = g.del PROVE Since(g, h) /\ Conns(h)
  <2>1. Since(g, h)
    BY <1>3, <1>4 DEF Since, SameRest
  <2> QED BY <1>4, <2>1, ConnsRest
<1>5. CASE d \in ToSet(g.vec)
  <2> DEFINE h == RemoveRunner(g, d)
  <2>1. SameRest(g, h) /\ h.del = g.del /\ h.dirty /\ TakenOut(g.vec, d, h.vec)
    BY <1>1, RemoveRunnerIs DEF Stack
  <2> HIDE DEF h
  <2>2. Stack(h)
    BY <1>1, <2>1 DEF Stack, TakenOut, SameRest
  <2>3. Objects(h)
    BY <1>1, <2>1 DEF Objects, SameRest
  <2>4. Ends(h)
    BY <1>1, <2>1 DEF Ends, TakenOut, SameRest
  <2>5. Control(h)
    BY <1>1, <2>1 DEF Control, SameRest
  <2>6. Sound(h)
    BY <2>1, <2>2, <2>3, <2>4, <2>5 DEF Sound, SameRest
  <2> QED BY <1>4, <1>5, <2>1, <2>6 DEF ToggleDebug, h
<1>6. CASE d \notin ToSet(g.vec)
  <2> DEFINE h == Push(g, d)
  <2>1. Sound(h) /\ SameRest(g, h) /\ h.del = g.del
    BY <1>1, <1>2, <1>6, PushSound DEF Ends
  <2> QED BY <1>4, <1>6, <2>1 DEF ToggleDebug
<1> QED BY <1>5, <1>6

LEMMA ConnectingButtonIs ==
  ASSUME NEW g, NEW r, InHand(g, r)
  PROVE  Handled(g, 0, ConnectingButton(g, r))
<1>1. CASE g.cookie
  BY <1>1, LeaveIs DEF ConnectingButton, Kind
<1>2. CASE ~ g.cookie
  BY <1>2, LeaveIs DEF ConnectingButton
<1> QED BY <1>1, <1>2

LEMMA WorldKeyIs ==
  ASSUME NEW g, NEW r, InHand(g, r), DebugKept(g), NEW h \in WorldKey(g, r)
  PROVE  Since(g, h) /\ Conns(h)
<1>1. /\ Sound(g) /\ Conns(g) /\ r \in 1 .. Len(g.runners) /\ r # debugRunner
  BY DEF InHand
<1>2. Waits(g, 0) /\ Handled(g, 0, g)
  BY <1>1, NoneWaits, HandledSelf
<1>3. \A part \in {NoRunner, r} : part \in 0 .. Len(g.runners) /\ part # debugRunner
  BY <1>1, NothingIs
<1>4. CASE h = WorldPause(g, r)
  <2> DEFINE part == IF g.cookie /\ g.runners[r].conn # NoConn THEN r ELSE NoRunner
  <2>1. part \in {NoRunner, r} /\ "Pause" \in Kind /\ "Pause" # "Debug"
    BY DEF Kind
  <2>2. h = Make(g, "Pause", part, NoConn)
    BY <1>4 DEF WorldPause
  <2> HIDE DEF part
  <2> QED BY <1>1, <1>2, <1>3, <2>1, <2>2, DisplayIs DEF Handled
<1>5. CASE h = Make(g, "Blocks", r, NoConn)
  <2>1. "Blocks" \in Kind /\ "Blocks" # "Debug"
    BY DEF Kind
  <2> QED BY <1>1, <1>2, <1>3, <1>5, <2>1, DisplayIs DEF Handled
<1>6. CASE h = ToggleDebug(g)
  BY <1>1, <1>6, ToggleIs
<1> QED BY <1>4, <1>5, <1>6 DEF WorldKey

LEMMA PressedIs ==
  ASSUME NEW g, NEW r, InHand(g, r), NEW h \in Pressed(g, r)
  PROVE  Handled(g, 0, h)
<1> DEFINE kind == g.runners[r].kind
<1>1. kind \in Kind
  BY RunnerFields DEF InHand, Sound
<1>2. /\ Handled(g, 0, Quit(g)) /\ Handled(g, 0, DeleteMe(g, r))
      /\ Handled(g, 0, DeleteMe(Quit(g), r))
      /\ \A other \in Kind \ {"Debug"} :
           Handled(g, 0, DeleteMe(Display(g, other), r))
  BY LeaveIs
<1>3. \A other \in {"World", "Error", "Info", "Pause", "Main", "Web"} :
        Handled(g, 0, DeleteMe(Display(g, other), r))
  BY <1>2 DEF Kind
<1> HIDE DEF kind
<1>4. CASE kind = "Main"
  BY <1>2, <1>3, <1>4 DEF Pressed, MainButtons, kind
<1>5. CASE kind = "Pause"
  BY <1>2, <1>3, <1>5, PauseOtherIs DEF Pressed, PauseButtons, kind
<1>6. CASE kind \in {"Info", "Error", "Panic"}
  <2>1. h \in InfoButton(g, r)
    BY <1>6 DEF Pressed, kind
  <2>2. CASE kind = "Info"
    BY <1>3, <2>1, <2>2 DEF InfoButton, kind
  <2>3. CASE kind = "Error"
    BY <1>3, <2>1, <2>3 DEF InfoButton, kind
  <2>4. CASE kind = "Panic"
    BY <1>2, <2>1, <2>4 DEF InfoButton, kind
  <2> QED BY <1>6, <2>2, <2>3, <2>4
<1>7. CASE kind = "Blocks"
  BY <1>2, <1>7 DEF Pressed, kind
<1>8. CASE kind \in {"Web", "WebList"}
  BY <1>2, <1>8 DEF Pressed, kind
<1>9. CASE kind = "List"
  BY <1>2, <1>3, <1>9 DEF Pressed, ListButtons, kind
<1>10. CASE kind = "Connecting"
  BY <1>10, ConnectingButtonIs DEF Pressed, kind
<1>11. CASE kind \in {"Background", "Debug", "Startup", "World"}
  BY <1>11 DEF Pressed, kind
<1> QED BY <1>1, <1>4, <1>5, <1>6, <1>7, <1>8, <1>9, <1>10, <1>11 DEF Kind

LEMMA EventIs ==
  ASSUME NEW g, NEW r, InHand(g, r), DebugKept(g), NEW h \in Event(g, r)
  PROVE  Since(g, h) /\ Conns(h)
<1>1. CASE g.runners[r].kind = "World"
  BY <1>1, WorldKeyIs DEF Event
<1>2. CASE g.runners[r].kind # "World"
  <2>1. Handled(g, 0, Escape(g, r))
    BY LeaveIs DEF Escape
  <2> QED BY <1>2, <2>1, PressedIs DEF Event, Handled
<1> QED BY <1>1, <1>2

(* The connection's packets.  What listens afterwards is what listened     *)
(* before, or new.                                                         *)
Heard(g, c, h) ==
  /\ h.conns[c].open = g.conns[c].open
  /\ h.conns[c].cl \in {g.conns[c].cl, Len(g.runners) + 1}

LEMMA DisconnectIs ==
  ASSUME NEW g, Sound(g), Conns(g), NEW k, Waits(g, k),
         NEW c \in 1 .. Len(g.conns),
         g.runners[g.conns[c].cl].closes = 0,
         \A i \in 1 .. k : g.vec[i] # g.conns[c].cl
  PROVE  Handled(g, k, Disconnect(g, c)) /\ Heard(g, c, Disconnect(g, c))
<1> DEFINE r == g.conns[c].cl
<1>1. r \in 1 .. Len(g.runners) /\ r # debugRunner
  BY DEF Conns
<1>2. "Error" \in Kind /\ "Error" # "Debug"
  BY DEF Kind
<1>3. g.runners[r].closes = 0 /\ \A i \in 1 .. k : g.vec[i] # r
  OBVIOUS
<1> HIDE DEF r
<1>4. /\ Handled(g, k, DeleteMe(Display(g, "Error"), r))
      /\ DeleteMe(Display(g, "Error"), r).conns = g.conns
  BY <1>1, <1>2, <1>3, ReplaceIs
<1> QED BY <1>4 DEF Disconnect, Heard, r

LEMMA LevelInitializeIs ==
  ASSUME NEW g, Sound(g), Conns(g), NEW k, Waits(g, k),
         NEW c \in 1 .. Len(g.conns), g.conns[c].open,
         \A i \in 1 .. k : g.vec[i] # g.conns[c].cl,
         g.runners[g.conns[c].cl].kind = "World"
  PROVE  Handled(g, k, LevelInitialize(g, c)) /\ Heard(g, c, LevelInitialize(g, c))
<1> DEFINE r == g.conns[c].cl
           h == Freed(g, r)
           d == DeleteMe(h, r)
           m == HandOver(d, "Connecting", c)
<1>1. LevelInitialize(g, c) = m
  BY DEF LevelInitialize, Freed
<1>2. r \in 1 .. Len(g.runners) /\ r # debugRunner /\ g.runners[r].conn = c /\ c # NoConn
  BY DEF Conns, NoConn
<1>3. g.runners[r].closes = 0
  BY <1>2, HolderLives
<1>4. Loose(h, c)
  BY FreedLoose
<1>5. \A i \in 1 .. k : g.vec[i] # r
  OBVIOUS
<1> HIDE DEF r
<1>6. SameStack(g, h) /\ h.conns = g.conns
  BY <1>2, FreedIs
<1>7. Since(g, g) /\ Turn(g, k, g) /\ k \in Nat
  BY SinceSelf, TurnSelf
<1> HIDE DEF h
<1>8. Since(g, h) /\ Turn(g, k, h)
  BY <1>6, <1>7, SinceSame, TurnSame
<1>9. Since(g, d) /\ SameRest(h, d) /\ Turn(g, k, d)
  BY <1>2, <1>3, <1>5, <1>7, <1>8, SinceDelete, TurnDelete
<1> HIDE DEF d
<1>10. Loose(d, c) /\ Len(d.runners) = Len(g.runners) /\ d.conns = g.conns
  BY <1>4, <1>6, <1>9 DEF Loose, SameRest, SameStack
<1>11. "Connecting" \in Kind /\ "Connecting" # "Debug" /\ c \in 1 .. Len(d.conns)
  BY <1>10 DEF Kind
<1>12. /\ Handled(g, k, m) /\ m.conns[c].open = d.conns[c].open
       /\ m.conns[c].cl = Len(d.runners) + 1
  BY <1>9, <1>10, <1>11, HandOverIs
<1> HIDE DEF m
<1> QED BY <1>1, <1>10, <1>12 DEF Heard

LEMMA LevelFinalizeIs ==
  ASSUME NEW g, Sound(g), Conns(g), NEW k, Waits(g, k),
         NEW c \in 1 .. Len(g.conns), g.conns[c].open,
         \A i \in 1 .. k : g.vec[i] # g.conns[c].cl,
         g.runners[g.conns[c].cl].kind = "Connecting"
  PROVE  Handled(g, k, LevelFinalize(g, c)) /\ Heard(g, c, LevelFinalize(g, c))
<1> DEFINE r == g.conns[c].cl
           h == Freed(g, r)
           m == HandOver(h, "World", c)
           d == DeleteMe(m, r)
<1>1. LevelFinalize(g, c) = d
  BY DEF LevelFinalize, Freed
<1>2. r \in 1 .. Len(g.runners) /\ r # debugRunner /\ g.runners[r].conn = c /\ c # NoConn
  BY DEF Conns, NoConn
<1>3. g.runners[r].closes = 0
  BY <1>2, HolderLives
<1>4. Loose(h, c)
  BY FreedLoose
<1>5. \A i \in 1 .. k : g.vec[i] # r
  OBVIOUS
<1> HIDE DEF r
<1>6. SameStack(g, h) /\ h.conns = g.conns
  BY <1>2, FreedIs
<1>7. Since(g, g) /\ Turn(g, k, g) /\ k \in Nat
  BY SinceSelf, TurnSelf
<1> HIDE DEF h
<1>8. Since(g, h) /\ Turn(g, k, h)
  BY <1>6, <1>7, SinceSame, TurnSame
<1>9. "World" \in Kind /\ "World" # "Debug" /\ c \in 1 .. Len(h.conns)
  BY <1>6 DEF Kind
<1>10. /\ Handled(g, k, m) /\ m.conns[c].open = h.conns[c].open
       /\ m.conns[c].cl = Len(h.runners) + 1
  BY <1>4, <1>8, <1>9, HandOverIs
<1> HIDE DEF m
<1>11. Handled(g, k, d) /\ SameRest(m, d)
  BY <1>2, <1>3, <1>5, <1>10, DeleteIs
<1> HIDE DEF d
<1>12. Len(h.runners) = Len(g.runners)
  BY <1>6 DEF SameStack
<1> QED BY <1>1, <1>6, <1>10, <1>11, <1>12 DEF Heard, SameRest

LEMMA PacketIs ==
  ASSUME NEW g, Sound(g), Conns(g), NEW k, Waits(g, k),
         NEW c \in 1 .. Len(g.conns), g.conns[c].open,
         \A i \in 1 .. k : g.vec[i] # g.conns[c].cl,
         NEW h \in {LevelInitialize(g, c), LevelFinalize(g, c), Disconnect(g, c)}
  PROVE  Handled(g, k, h) /\ Heard(g, c, h)
<1>1. Handled(g, k, g) /\ Heard(g, c, g)
  BY HandledSelf DEF Heard
<1>2. g.runners[g.conns[c].cl].closes = 0
  <2>1. g.conns[c].cl \in 1 .. Len(g.runners) /\ g.runners[g.conns[c].cl].conn # NoConn
    BY DEF Conns, NoConn
  <2> QED BY <2>1, HolderLives
<1>3. CASE h = LevelInitialize(g, c)
  <2>1. CASE g.runners[g.conns[c].cl].kind = "World"
    BY <1>3, <2>1, LevelInitializeIs
  <2>2. CASE g.runners[g.conns[c].cl].kind # "World"
    BY <1>1, <1>3, <2>2 DEF LevelInitialize
  <2> QED BY <2>1, <2>2
<1>4. CASE h = LevelFinalize(g, c)
  <2>1. CASE g.runners[g.conns[c].cl].kind = "Connecting"
    BY <1>4, <2>1, LevelFinalizeIs
  <2>2. CASE g.runners[g.conns[c].cl].kind # "Connecting"
    BY <1>1, <1>4, <2>2 DEF LevelFinalize
  <2> QED BY <2>1, <2>2
<1>5. CASE h = Disconnect(g, c)
  BY <1>2, <1>5, DisconnectIs
<1> QED BY <1>3, <1>4, <1>5

(* The end of a web page's connection, and of the startup.                 *)
LEMMA WebDoneIs ==
  ASSUME NEW g, Sound(g), Conns(g), NEW k, Waits(g, k),
         NEW r \in 1 .. Len(g.runners), r # debugRunner,
         g.runners[r].closes = 0, \A i \in 1 .. k : g.vec[i] # r,
         NEW h \in WebDone(g, r)
  PROVE  Handled(g, k, h)
<1>1. \A kind \in {"List", "Error"} : kind \in Kind /\ kind # "Debug"
  BY DEF Kind
<1>2. \A kind \in {"List", "Error"} : Handled(g, k, DeleteMe(Display(g, kind), r))
  BY <1>1, ReplaceIs
<1>3. Handled(g, k, DeleteMe(ConnectToClassic(g), r))
  BY ConnectIs, DeleteIs
<1> QED BY <1>2, <1>3 DEF WebDone

LEMMA StartedIs ==
  ASSUME NEW g, Sound(g), Conns(g), startupRunner \in ToSet(g.vec),
         NEW h \in Started(g)
  PROVE  Handled(g, 0, DeleteMe(h, startupRunner))
<1> DEFINE r == startupRunner
<1>1. r \in 1 .. Len(g.runners) /\ g.runners[r].closes = 0
  BY StackedLives
<1>2. r # debugRunner
  BY DEF startupRunner, debugRunner
<1>3. Waits(g, 0) /\ \A i \in 1 .. 0 : g.vec[i] # r
  BY NoneWaits
<1>4. CASE h = ConnectToClassic(g)
  BY <1>1, <1>2, <1>3, <1>4, ConnectIs, DeleteIs
<1>5. ASSUME NEW kind \in {"Main", "World", "List", "Web", "Error", "Panic"},
             h = Display(g, kind)
      PROVE  Handled(g, 0, DeleteMe(h, r))
  <2>1. kind \in Kind /\ kind # "Debug"
    BY DEF Kind
  <2> QED BY <1>1, <1>2, <1>3, <1>5, <2>1, ReplaceIs
<1> QED BY <1>4, <1>5 DEF Started

-------------------------------------------------------------------------------
(* manageRunners: the runners on the list are closed, with what they hold. *)

Managed(g, h) ==
  /\ h \in App
  /\ h.cookie = g.cookie /\ h.parted = g.parted
  /\ h.vec = g.vec /\ h.del = << >> /\ h.dirty = FALSE
  /\ h.currentInput = InputTaker(g)
  /\ h.running <=> g.running /\ InputTaker(g) # NoRunner
  /\ Len(h.runners) = Len(g.runners) /\ Len(h.conns) = Len(g.conns)
  /\ \A r \in 1 .. Len(g.runners) :
       /\ h.runners[r].kind = g.runners[r].kind
       /\ h.runners[r].type = g.runners[r].type
       /\ h.runners[r].part = g.runners[r].part
       /\ r \in ToSet(g.del) =>
            h.runners[r].closes = g.runners[r].closes + 1
            /\ h.runners[r].conn = NoConn
       /\ r \notin ToSet(g.del) => h.runners[r] = g.runners[r]
  /\ \A c \in 1 .. Len(g.conns) :
       /\ h.conns[c].cl = g.conns[c].cl
       /\ h.conns[c].open =>
            /\ g.conns[c].open
            /\ \A r \in ToSet(g.del) : g.runners[r].conn # c

LEMMA ManageIs ==
  ASSUME NEW g, Sound(g), g.dirty
  PROVE  Managed(g, ManageRunners(g))
<1> DEFINE doomed == ToSet(g.del)
           held == {g.runners[r].conn : r \in doomed}
           times(r) == Cardinality({i \in DOMAIN g.del : g.del[i] = r})
           closed(r) == CloseRunner(g, r)
           rs == [r \in DOMAIN g.runners |->
                    IF r \in doomed THEN closed(r) ELSE g.runners[r]]
           shut(c) == [g.conns[c] EXCEPT !.open = FALSE]
           cs == [c \in DOMAIN g.conns |->
                    IF c \in held THEN shut(c) ELSE g.conns[c]]
           taker == InputTaker(g)
           run == g.running /\ taker # NoRunner
           h == ManageRunners(g)
<1>1. /\ g \in App /\ Objects(g) /\ Stack(g) /\ Ends(g) /\ Control(g)
      /\ g.runners \in Seq(RunnerRec) /\ Len(g.runners) \in Nat
      /\ DOMAIN g.runners = 1 .. Len(g.runners)
      /\ g.conns \in Seq(ConnRec) /\ Len(g.conns) \in Nat
      /\ DOMAIN g.conns = 1 .. Len(g.conns)
      /\ g.del \in Seq(Nat) /\ Len(g.del) \in Nat
      /\ DOMAIN g.del = 1 .. Len(g.del)
  BY Fields DEF Sound
<1>2. h = [g EXCEPT !.dirty = FALSE, !.running = run, !.currentInput = taker,
                    !.del = << >>, !.runners = rs, !.conns = cs]
  BY DEF ManageRunners
<1>3. ASSUME NEW r \in doomed PROVE times(r) = 1
  <2>1. PICK p \in 1 .. Len(g.del) : g.del[p] = r
    BY <1>1, Elements
  <2>2. {i \in DOMAIN g.del : g.del[i] = r} = {p}
    BY <1>1, <2>1 DEF Stack, Injective
  <2> QED BY <2>2, FS_Singleton
<1>4. ASSUME NEW r \in 1 .. Len(g.runners), r \in doomed
      PROVE /\ closed(r) \in RunnerRec
            /\ closed(r).closes = g.runners[r].closes + 1
            /\ closed(r).conn = NoConn
            /\ closed(r).kind = g.runners[r].kind
            /\ closed(r).type = g.runners[r].type
            /\ closed(r).part = g.runners[r].part
  <2> DEFINE x == g.runners[r]
             n == x.closes + times(r)
             y == [x EXCEPT !.closes = n, !.conn = NoConn]
  <2>1. x \in RunnerRec /\ times(r) = 1
    BY <1>1, <1>3, <1>4, RunnerFields
  <2>2. closed(r) = y
    BY DEF CloseRunner
  <2> HIDE DEF x
  <2>3. n \in Nat /\ n = x.closes + 1
    BY <2>1 DEF RunnerRec
  <2> HIDE DEF n
  <2>4. y \in RunnerRec
    BY <2>1, <2>3 DEF RunnerRec, NoConn
  <2>5. y.closes = n /\ y.conn = NoConn
    BY <2>1 DEF RunnerRec
  <2>6. y.kind = x.kind /\ y.type = x.type /\ y.part = x.part
    BY <2>1 DEF RunnerRec
  <2> QED BY <2>2, <2>3, <2>4, <2>5, <2>6 DEF x
<1> HIDE DEF closed, times
<1>5. ASSUME NEW c \in 1 .. Len(g.conns)
      PROVE  /\ shut(c) \in ConnRec /\ shut(c).cl = g.conns[c].cl
             /\ ~ shut(c).open
  <2>1. g.conns[c] \in ConnRec
    BY <1>1, ConnFields
  <2> QED BY <2>1 DEF ConnRec
<1> HIDE DEF shut
<1> HIDE DEF held, doomed
<1>6. /\ rs \in Seq(RunnerRec) /\ Len(rs) = Len(g.runners)
      /\ \A r \in 1 .. Len(g.runners) :
           rs[r] = IF r \in doomed THEN closed(r) ELSE g.runners[r]
  <2>1. \A r \in 1 .. Len(g.runners) : g.runners[r] \in RunnerRec
    BY <1>1, RunnerFields
  <2>2. rs \in [1 .. Len(g.runners) -> RunnerRec]
    BY <1>1, <1>4, <2>1
  <2> QED BY <1>1, <2>2
<1>7. /\ cs \in Seq(ConnRec) /\ Len(cs) = Len(g.conns)
      /\ \A c \in 1 .. Len(g.conns) :
           cs[c] = IF c \in held THEN shut(c) ELSE g.conns[c]
  <2>1. \A c \in 1 .. Len(g.conns) : g.conns[c] \in ConnRec
    BY <1>1, ConnFields
  <2>2. cs \in [1 .. Len(g.conns) -> ConnRec]
    BY <1>1, <1>5, <2>1
  <2> QED BY <1>1, <2>2
<1>8. taker \in Nat /\ run \in BOOLEAN
  <2>1. NoRunner \in Nat
    BY DEF NoRunner
  <2>2. \A r \in ToSet(g.vec) : r \in Nat
    BY <1>1, Fields, Elements
  <2> QED BY <1>1, <2>1, <2>2, InputTakerIs
<1>9. << >> \in Seq(Nat)
  OBVIOUS
<1> HIDE DEF rs, cs, run, h
<1> DEFINE t == taker
<1> HIDE DEF t
<1>10. h = [g EXCEPT !.dirty = FALSE, !.running = run, !.currentInput = t,
                     !.del = << >>, !.runners = rs, !.conns = cs]
  BY <1>2 DEF t
<1>11. t \in Nat
  BY <1>8 DEF t
<1>12. h \in App
  BY <1>1, <1>6, <1>7, <1>8, <1>9, <1>10, <1>11 DEF App
<1>13. h.runners = rs /\ h.conns = cs /\ h.running = run
  BY <1>1, <1>10 DEF App
<1>14. h.dirty = FALSE /\ h.currentInput = t /\ h.del = << >>
  BY <1>1, <1>10 DEF App
<1>15. h.cookie = g.cookie /\ h.parted = g.parted /\ h.vec = g.vec
  BY <1>1, <1>10 DEF App
<1>16. ASSUME NEW r \in 1 .. Len(g.runners)
       PROVE  /\ rs[r].kind = g.runners[r].kind
              /\ rs[r].type = g.runners[r].type
              /\ rs[r].part = g.runners[r].part
              /\ r \in doomed => rs[r].closes = g.runners[r].closes + 1
                                 /\ rs[r].conn = NoConn
              /\ r \notin doomed => rs[r] = g.runners[r]
  BY <1>4, <1>6
<1>17. ASSUME NEW c \in 1 .. Len(g.conns)
       PROVE  /\ cs[c].cl = g.conns[c].cl
              /\ cs[c].open => /\ g.conns[c].open
                               /\ \A r \in doomed : g.runners[r].conn # c
  BY <1>5, <1>7 DEF held
<1> QED BY <1>6, <1>7, <1>12, <1>13, <1>14, <1>15, <1>16, <1>17
        DEF Managed, h, run, t, doomed

LEMMA ManagedSound ==
  ASSUME NEW g, Sound(g), Conns(g), NEW h, Managed(g, h)
  PROVE  Sound(h) /\ Conns(h)
<1>1. /\ g \in App /\ Objects(g) /\ Stack(g) /\ Ends(g) /\ Control(g)
      /\ Len(g.runners) \in Nat /\ Len(g.conns) \in Nat
  BY Fields DEF Sound
<1>2. ToSet(h.del) = {} /\ Injective(h.del)
  BY DEF Managed, Injective, ToSet
<1>3. \A r \in 1 .. Len(g.runners) : g.runners[r].closes \in Nat
  BY <1>1, RunnerFields
<1>4. Objects(h)
  BY <1>1 DEF Objects, Managed
<1>5. Stack(h)
  BY <1>1, <1>2 DEF Stack, Managed
<1>6. Ends(h)
  <2>1. ASSUME NEW r \in 1 .. Len(g.runners)
        PROVE  /\ h.runners[r].closes > 0 =>
                    r \notin ToSet(g.vec) /\ h.runners[r].conn = NoConn
               /\ h.runners[r].closes > 0 /\ ~ g.parted =>
                    h.runners[r].closes = 1
               /\ r # debugRunner /\ h.runners[r].closes = 0 => r \in ToSet(g.vec)
    <3>1. CASE r \in ToSet(g.del)
      <4>1. h.runners[r].closes = g.runners[r].closes + 1 /\ h.runners[r].conn = NoConn
        BY <3>1 DEF Managed
      <4>2. r \notin ToSet(g.vec)
        BY <1>1, <3>1 DEF Stack
      <4>3. ~ g.parted => g.runners[r].closes = 0
        BY <1>1, <1>3, <3>1 DEF Ends
      <4> QED BY <1>3, <4>1, <4>2, <4>3
    <3>2. CASE r \notin ToSet(g.del)
      <4>1. h.runners[r] = g.runners[r]
        BY <3>2 DEF Managed
      <4> QED BY <1>1, <3>2, <4>1 DEF Ends
    <3> QED BY <3>1, <3>2
  <2> QED BY <1>2, <2>1 DEF Ends, Managed
<1>7. Control(h)
  <2>1. InputTaker(h) = InputTaker(g)
    BY <1>1, SameTaker DEF Managed
  <2>2. ASSUME InputTaker(g) # NoRunner
        PROVE  /\ InputTaker(g) \in 1 .. Len(g.runners)
               /\ InputTaker(g) # debugRunner
               /\ h.runners[InputTaker(g)].closes = 0
    <3> DEFINE r == InputTaker(g)
    <3>1. r \in ToSet(g.vec) /\ g.runners[r].type \in {"Game", "Menu"}
      BY <1>1, <2>2, InputTakerIs
    <3> HIDE DEF r
    <3>2. r \in 1 .. Len(g.runners) /\ g.runners[r].closes = 0
      BY <3>1, StackedLives
    <3>3. r # debugRunner
      BY <1>1, <3>1, <3>2 DEF Objects, TypeOfKind
    <3>4. r \notin ToSet(g.del)
      BY <1>1, <3>1 DEF Stack
    <3>5. h.runners[r] = g.runners[r]
      BY <3>2, <3>4 DEF Managed
    <3> QED BY <3>2, <3>3, <3>5 DEF r
  <2> QED BY <2>1, <2>2 DEF Control, Managed
<1>8. Conns(h)
  <2>1. ASSUME NEW r \in 1 .. Len(g.runners), h.runners[r].conn # NoConn
        PROVE  /\ h.runners[r].conn \in 1 .. Len(h.conns)
               /\ h.conns[h.runners[r].conn].cl = r
    <3>1. r \notin ToSet(g.del)
      BY <2>1 DEF Managed
    <3>2. h.runners[r] = g.runners[r]
      BY <3>1 DEF Managed
    <3>3. /\ g.runners[r].conn \in 1 .. Len(g.conns)
          /\ g.conns[g.runners[r].conn].cl = r
      BY <2>1, <3>2 DEF Conns
    <3> QED BY <3>2, <3>3 DEF Managed
  <2>2. ASSUME NEW c \in 1 .. Len(g.conns)
        PROVE  /\ h.conns[c].cl \in 1 .. Len(g.runners)
               /\ h.conns[c].cl # debugRunner
               /\ h.conns[c].open => h.runners[h.conns[c].cl].conn = c
    <3>1. h.conns[c].cl = g.conns[c].cl
      BY DEF Managed
    <3>2. /\ g.conns[c].cl \in 1 .. Len(g.runners) /\ g.conns[c].cl # debugRunner
          /\ g.conns[c].open => g.runners[g.conns[c].cl].conn = c
      BY DEF Conns
    <3>3. ASSUME h.conns[c].open PROVE h.runners[g.conns[c].cl].conn = c
      <4>1. g.conns[c].open /\ \A r \in ToSet(g.del) : g.runners[r].conn # c
        BY <3>3 DEF Managed
      <4>2. g.conns[c].cl \notin ToSet(g.del)
        BY <3>2, <4>1
      <4>3. h.runners[g.conns[c].cl] = g.runners[g.conns[c].cl]
        BY <3>2, <4>2 DEF Managed
      <4> QED BY <3>2, <4>1, <4>3
    <3> QED BY <3>1, <3>2, <3>3
  <2> QED BY <2>1, <2>2 DEF Conns, Managed
<1> QED BY <1>4, <1>5, <1>6, <1>7, <1>8 DEF Sound, Managed

-------------------------------------------------------------------------------
(* deleteAll: one runner of the stack after the other.                     *)

Deletes(g, n, f) ==
  f = [i \in 0 .. n |-> IF i = 0 THEN g ELSE DeleteMe(f[i - 1], g.vec[i])]

LEMMA DeletesExist ==
  ASSUME NEW g, NEW l \in Nat
  PROVE  \E f : Deletes(g, l, f)
<1> DEFINE I == {n \in 0 .. l : \E f : Deletes(g, n, f)}
<1>1. 0 \in I
  <2> DEFINE f == [i \in 0 .. 0 |-> g]
  <2>1. \A i \in 0 .. 0 : i = 0
    OBVIOUS
  <2>2. Deletes(g, 0, f)
    BY <2>1 DEF Deletes
  <2> QED BY <2>2
<1>2. ASSUME NEW n \in 0 .. l, n \in I, n < l PROVE n + 1 \in I
  <2>1. PICK f : Deletes(g, n, f)
    BY <1>2
  <2> DEFINE m == n + 1
             e == [i \in 0 .. m |-> IF i = m THEN DeleteMe(f[n], g.vec[m]) ELSE f[i]]
             e2 == [i \in 0 .. m |->
                      IF i = 0 THEN g ELSE DeleteMe(e[i - 1], g.vec[i])]
  <2>2. \A i \in 0 .. n : f[i] = IF i = 0 THEN g ELSE DeleteMe(f[i - 1], g.vec[i])
    BY <2>1 DEF Deletes
  <2>3. ASSUME NEW i \in 0 .. m
        PROVE  e[i] = IF i = 0 THEN g ELSE DeleteMe(e[i - 1], g.vec[i])
    <3>1. CASE i = m
      <4>1. i # 0 /\ i - 1 = n /\ n \in 0 .. m /\ n # m
        BY <3>1
      <4>2. e[n] = f[n] /\ e[i] = DeleteMe(f[n], g.vec[i])
        BY <3>1, <4>1
      <4> HIDE DEF e
      <4> QED BY <4>1, <4>2
    <3>2. CASE i = 0
      <4>1. i # m /\ i \in 0 .. n
        BY <3>2
      <4>2. e[i] = f[i]
        BY <4>1
      <4> HIDE DEF e
      <4> QED BY <2>2, <3>2, <4>1, <4>2
    <3>3. CASE i # m /\ i # 0
      <4>1. i \in 0 .. n /\ i - 1 \in 0 .. m /\ i - 1 # m
        BY <3>3
      <4>2. e[i] = f[i] /\ e[i - 1] = f[i - 1]
        BY <3>3, <4>1
      <4> HIDE DEF e
      <4> QED BY <2>2, <3>3, <4>1, <4>2
    <3> QED BY <3>1, <3>2, <3>3
  <2>4. e = e2
    <3>1. /\ e = [i \in 0 .. m |-> e[i]]
      OBVIOUS
    <3> HIDE DEF e
    <3> QED BY <2>3, <3>1
  <2>5. Deletes(g, m, e)
    <3> HIDE DEF e
    <3> QED BY <2>4 DEF Deletes
  <2>6. m \in 0 .. l
    BY <1>2
  <2> HIDE DEF e, m
  <2>7. m \in I
    BY <2>5, <2>6
  <2> QED BY <2>7 DEF m
<1>3. \A i \in 0 .. l : i \in I
  <2> HIDE DEF I
  <2> QED BY <1>1, <1>2, Induction
<1>4. l \in I
  BY <1>3
<1> QED BY <1>4

LEMMA DeleteAllIs ==
  ASSUME NEW g, Sound(g)
  PROVE  \E f : Deletes(g, Len(g.vec), f) /\ DeleteAll(g) = f[Len(g.vec)]
<1> DEFINE f == CHOOSE f : Deletes(g, Len(g.vec), f)
<1>1. Len(g.vec) \in Nat
  BY Fields DEF Sound
<1>2. Deletes(g, Len(g.vec), f)
  BY <1>1, DeletesExist
<1>3. DeleteAll(g) = f[Len(g.vec)]
  BY DEF DeleteAll, Deletes
<1> QED BY <1>2, <1>3

(* What is left of the stack is what was not deleted yet.                  *)
Deleted(g, h, n) ==
  /\ Sound(h) /\ SameRest(g, h) /\ (g.dirty => h.dirty)
  /\ ToSet(h.vec) = ToSet(g.vec) \ {g.vec[i] : i \in 1 .. n}
  /\ ToSet(h.del) = ToSet(g.del) \cup {g.vec[i] : i \in 1 .. n}

LEMMA AllDeleted ==
  ASSUME NEW g, Sound(g)
  PROVE  Deleted(g, DeleteAll(g), Len(g.vec))
<1> DEFINE l == Len(g.vec)
<1>1. l \in Nat /\ g \in App
  BY Fields DEF Sound
<1>2. PICK f : Deletes(g, l, f) /\ DeleteAll(g) = f[l]
  BY DeleteAllIs
<1>3. \A i \in 0 .. l : f[i] = IF i = 0 THEN g ELSE DeleteMe(f[i - 1], g.vec[i])
  BY <1>2 DEF Deletes
<1> DEFINE I == {n \in 0 .. l : Deleted(g, f[n], n)}
<1>4. 0 \in I
  <2>1. f[0] = g /\ 0 \in 0 .. l
    BY <1>1, <1>3
  <2>2. SameRest(g, g)
    BY <1>1 DEF SameRest
  <2>3. {g.vec[i] : i \in 1 .. 0} = {}
    OBVIOUS
  <2>4. Deleted(g, g, 0)
    BY <2>2, <2>3 DEF Deleted
  <2> QED BY <2>1, <2>4
<1>5. ASSUME NEW n \in 0 .. l, n \in I, n < l PROVE n + 1 \in I
  <2> DEFINE m == n + 1
             r == g.vec[m]
             h == f[n]
             d == DeleteMe(h, r)
  <2>1. m \in 0 .. l /\ m \in 1 .. l /\ m # 0 /\ m - 1 = n
    BY <1>1, <1>5
  <2>2. f[m] = d
    BY <1>3, <2>1
  <2>3. Deleted(g, h, n)
    BY <1>5
  <2>4. {g.vec[i] : i \in 1 .. m} = {g.vec[i] : i \in 1 .. n} \cup {r}
    <3>1. \A i : i \in 1 .. m <=> i \in 1 .. n \/ i = m
      BY <2>1
    <3> QED BY <3>1
  <2>5. r \in ToSet(g.vec)
    BY <1>1, <2>1, Fields, Elements
  <2> HIDE DEF m, r, h
  <2>6. r \in 1 .. Len(g.runners) /\ g.runners[r].closes = 0
    BY <2>5, StackedLives
  <2>7. r \in 1 .. Len(h.runners) /\ h.runners[r].closes = 0 /\ Sound(h)
    BY <2>3, <2>6 DEF Deleted, SameRest
  <2>8. /\ Sound(d) /\ SameRest(h, d) /\ d.dirty
        /\ TakenOut(h.vec, r, d.vec)
        /\ ToSet(d.del) = ToSet(h.del) \cup {r}
    BY <2>7, DeleteSound
  <2> HIDE DEF d
  <2>9. Deleted(g, d, m)
    BY <2>3, <2>4, <2>8 DEF Deleted, SameRest, TakenOut
  <2>10. m \in I
    BY <2>1, <2>2, <2>9
  <2> HIDE DEF I
  <2> QED BY <2>10 DEF m
<1>6. \A i \in 0 .. l : i \in I
  <2> HIDE DEF I
  <2> QED BY <1>1, <1>4, <1>5, Induction
<1>7. l \in I
  BY <1>1, <1>6
<1> QED BY <1>2, <1>7

(* The program closes: nobody and nothing is left.                         *)
Gone(g) ==
  /\ g.vec = << >> /\ g.del = << >> /\ g.currentInput = NoRunner
  /\ \A r \in 1 .. Len(g.runners) :
       g.runners[r].closes > 0 /\ g.runners[r].conn = NoConn
  /\ \A c \in 1 .. Len(g.conns) : ~ g.conns[c].open

LEMMA CloseAllIs ==
  ASSUME NEW g, Sound(g), Conns(g), DebugKept(g)
  PROVE  LET h == CloseAll(g)
         IN  /\ Sound(h) /\ Conns(h) /\ Gone(h)
             /\ Len(h.runners) = Len(g.runners) /\ Len(h.conns) = Len(g.conns)
<1> DEFINE d == DeleteMe(g, debugRunner)
           a == DeleteAll(d)
           h == ManageRunners(a)
<1>1. debugRunner \in 1 .. Len(g.runners) /\ g.runners[debugRunner].closes = 0
  <2>1. Len(g.runners) \in Nat /\ Len(g.runners) >= 3
    BY Fields DEF Sound, Objects
  <2> QED BY <2>1 DEF debugRunner, DebugKept
<1>2. /\ Sound(d) /\ SameRest(g, d) /\ d.dirty
      /\ ToSet(d.del) = ToSet(g.del) \cup {debugRunner}
  BY <1>1, DeleteSound
<1>3. CloseAll(g) = h
  BY DEF CloseAll
<1> HIDE DEF d
<1>4. Deleted(d, a, Len(d.vec))
  BY <1>2, AllDeleted
<1> HIDE DEF a
<1>5. /\ Sound(a) /\ SameRest(d, a) /\ a.dirty
      /\ ToSet(a.vec) = {} /\ ToSet(a.del) = ToSet(d.del) \cup ToSet(d.vec)
  <2>1. ToSet(d.vec) = {d.vec[i] : i \in 1 .. Len(d.vec)}
    <3>1. d \in App
      BY <1>2 DEF Sound
    <3>2. d.vec \in Seq(Nat)
      BY <3>1, Fields
    <3> QED BY <3>2, Elements
  <2> QED BY <1>2, <1>4, <2>1 DEF Deleted
<1>6. Conns(a)
  BY <1>2, <1>5, ConnsRest
<1>7. Managed(a, h)
  BY <1>5, ManageIs
<1> HIDE DEF h
<1>8. Sound(h) /\ Conns(h)
  BY <1>5, <1>6, <1>7, ManagedSound
<1>9. a.vec = << >>
  <2>1. a.vec \in Seq(Nat) /\ Len(a.vec) \in Nat
    BY <1>5, Fields DEF Sound
  <2>2. \A i \in 1 .. Len(a.vec) : a.vec[i] \in ToSet(a.vec)
    BY <2>1, Elements
  <2>3. Len(a.vec) = 0
    <3>1. Len(a.vec) > 0 => 1 \in 1 .. Len(a.vec)
      BY <2>1
    <3> QED BY <1>5, <2>1, <2>2, <3>1
  <2> QED BY <2>1, <2>3, EmptySeq
<1>10. InputTaker(a) = NoRunner
  BY <1>5, InputTakerIs DEF Sound
<1>11. ASSUME NEW r \in 1 .. Len(h.runners)
       PROVE  h.runners[r].closes > 0 /\ h.runners[r].conn = NoConn
  <2>1. r \in 1 .. Len(a.runners)
    BY <1>7 DEF Managed
  <2>2. a.runners[r].closes \in Nat
    BY <1>5, <2>1, RunnerFields DEF Sound
  <2>3. CASE r \in ToSet(a.del)
    <3>1. h.runners[r].closes = a.runners[r].closes + 1 /\ h.runners[r].conn = NoConn
      BY <1>7, <2>1, <2>3 DEF Managed
    <3> QED BY <2>2, <3>1
  <2>4. CASE r \notin ToSet(a.del)
    <3>1. h.runners[r] = a.runners[r]
      BY <1>7, <2>1, <2>4 DEF Managed
    <3>2. r # debugRunner
      BY <1>2, <1>5, <2>4
    <3>3. a.runners[r].closes # 0
      BY <1>5, <2>1, <2>4, <3>2 DEF Sound, Ends
    <3>4. a.runners[r].closes > 0
      BY <2>2, <3>3
    <3> QED BY <1>5, <2>1, <3>1, <3>4 DEF Sound, Ends
  <2> QED BY <2>3, <2>4
<1>12. ASSUME NEW c \in 1 .. Len(h.conns), h.conns[c].open PROVE FALSE
  <2>1. h.conns[c].cl \in 1 .. Len(h.runners) /\ h.runners[h.conns[c].cl].conn = c
    BY <1>8, <1>12 DEF Conns
  <2>2. c # NoConn
    BY DEF NoConn
  <2> QED BY <1>11, <2>1, <2>2
<1>13. Gone(h)
  BY <1>7, <1>9, <1>10, <1>11, <1>12 DEF Gone, Managed
<1>14. Len(h.runners) = Len(g.runners) /\ Len(h.conns) = Len(g.conns)
  BY <1>2, <1>5, <1>7 DEF SameRest, Managed
<1> QED BY <1>3, <1>8, <1>13, <1>14

-------------------------------------------------------------------------------
(* The program.                                                            *)

Router(g) == Sound(g) /\ Conns(g) /\ Len(g.runners) <= MaxRunners

(* The first k of the stack are those of d that are still on it.           *)
Due(g, k, d) ==
  k \in 0 .. Len(g.vec) /\ {g.vec[i] : i \in 1 .. k} = d \cap ToSet(g.vec)

LoopTypes ==
  /\ phase \in {"input", "logic", "packets", "idle", "closed"}
  /\ cursor \in 0 .. MaxRunners
  /\ reading \in [runner : 0 .. MaxRunners, conn : 0 .. Len(app.conns)]
  /\ due \subseteq 1 .. Len(app.runners)

Owed == phase = "logic" /\ cursor > 0 => Due(app, cursor, due)

(* While a connection is read, who listens to it has had its turn.         *)
Left ==
  phase = "packets" =>
    /\ cursor > 0 /\ Waits(app, cursor - 1) /\ Due(app, cursor - 1, due)
    /\ reading.conn \in 1 .. Len(app.conns) /\ app.conns[reading.conn].open
    /\ app.conns[reading.conn].cl \notin due

GameInv ==
  /\ Router(app) /\ LoopTypes /\ Owed /\ Left
  /\ phase # "closed" => DebugKept(app)
  /\ phase = "closed" => Gone(app)

LEMMA GameStarts == Init => GameInv
<1> SUFFICES ASSUME Init PROVE GameInv
  OBVIOUS
<1> DEFINE b == NewRunner("Background", NoRunner, NoConn)
           d == NewRunner("Debug", NoRunner, NoConn)
           s == NewRunner("Startup", NoRunner, NoConn)
<1>1. /\ app.runners = << b, d, s >> /\ app.conns = << >>
      /\ app.vec = <<1, 3>> /\ app.del = << >> /\ ~ app.dirty
      /\ app.currentInput = 3 /\ app.running
      /\ app \in [cookie : BOOLEAN, parted : BOOLEAN, runners : {<< b, d, s >>},
                  conns : {<< >>}, vec : {<<1, 3>>}, del : {<< >>},
                  dirty : BOOLEAN, currentInput : {3}, running : BOOLEAN]
  BY GameAssumption DEF Init
<1>2. phase = "input" /\ cursor = 0 /\ reading = NoReading /\ due = {}
  BY DEF Init
<1>3. /\ b.type = "Background" /\ b.kind = "Background"
      /\ b.part = 0 /\ b.conn = 0 /\ b.closes = 0 /\ b \in RunnerRec
  BY DEF NewRunner, TypeOfKind, NoRunner, NoConn, RunnerRec, Kind, Type
<1>4. /\ d.type = "Overlay" /\ d.kind = "Debug"
      /\ d.part = 0 /\ d.conn = 0 /\ d.closes = 0 /\ d \in RunnerRec
  BY DEF NewRunner, TypeOfKind, NoRunner, NoConn, RunnerRec, Kind, Type
<1>5. /\ s.type = "Menu" /\ s.kind = "Startup"
      /\ s.part = 0 /\ s.conn = 0 /\ s.closes = 0 /\ s \in RunnerRec
  BY DEF NewRunner, TypeOfKind, NoRunner, NoConn, RunnerRec, Kind, Type
<1> HIDE DEF b, d, s
<1>6. /\ Len(app.runners) = 3 /\ app.runners[1] = b /\ app.runners[2] = d
      /\ app.runners[3] = s /\ \A r \in 1 .. 3 : r = 1 \/ r = 2 \/ r = 3
  BY <1>1
<1>7. /\ Len(app.vec) = 2 /\ app.vec[1] = 1 /\ app.vec[2] = 3
      /\ \A i \in 1 .. 2 : i = 1 \/ i = 2
      /\ app.vec \in Seq(Nat)
  BY <1>1
<1>8. ToSet(app.vec) = {1, 3}
  <2>1. ToSet(app.vec) = {app.vec[i] : i \in 1 .. 2}
    BY <1>7, Elements
  <2> QED BY <1>7, <2>1
<1>9. ToSet(app.del) = {} /\ Injective(app.del)
  BY <1>1 DEF ToSet, Injective
<1>10. app \in App
  <2> DEFINE rs == << b, d, s >>
             v == <<1, 3>>
  <2>1. rs \in Seq(RunnerRec) /\ v \in Seq(Nat)
    BY <1>3, <1>4, <1>5
  <2>2. << >> \in Seq(ConnRec) /\ << >> \in Seq(Nat) /\ 3 \in Nat
    OBVIOUS
  <2>3. app \in [cookie : BOOLEAN, parted : BOOLEAN, runners : {rs},
                 conns : {<< >>}, vec : {v}, del : {<< >>},
                 dirty : BOOLEAN, currentInput : {3}, running : BOOLEAN]
    BY <1>1
  <2> HIDE DEF rs, v
  <2> QED BY <2>1, <2>2, <2>3 DEF App
<1>11. Objects(app)
  BY <1>3, <1>4, <1>5, <1>6 DEF Objects, TypeOfKind, debugRunner
<1>12. Stack(app)
  BY <1>6, <1>7, <1>8, <1>9 DEF Stack, Injective, debugRunner
<1>13. Ends(app)
  BY <1>3, <1>4, <1>5, <1>6, <1>8 DEF Ends, debugRunner, NoConn
<1>14. InputTaker(app) = 3
  <2> DEFINE I == {i \in 1 .. Len(app.vec) : TakesInput(app, app.vec[i])}
             t == IF I # {} THEN Max(I) ELSE 0
  <2>1. InputTaker(app) = IF t = 0 THEN NoRunner ELSE app.vec[t]
    BY DEF InputTaker, SelectLastInSeq
  <2>2. I = {2}
    BY <1>3, <1>5, <1>6, <1>7 DEF TakesInput
  <2>3. Max({2}) = 2
    <3>1. {2} \in SUBSET (1 .. 2) /\ 2 \in Nat /\ {2} # {}
      OBVIOUS
    <3>2. Max({2}) \in {2}
      BY <3>1, MaxIs
    <3> QED BY <3>2
  <2>4. t = 2
    BY <2>2, <2>3
  <2> HIDE DEF t
  <2> QED BY <1>7, <2>1, <2>4
<1>15. Control(app)
  BY <1>1, <1>5, <1>6, <1>14 DEF Control, NoRunner, debugRunner
<1>16. Conns(app)
  <2>1. \A r \in 1 .. Len(app.runners) : app.runners[r].conn = NoConn
    BY <1>3, <1>4, <1>5, <1>6 DEF NoConn
  <2>2. Len(app.conns) = 0
    BY <1>1
  <2>3. ~ \E c \in 1 .. Len(app.conns) : TRUE
    BY <2>2
  <2> QED BY <2>1, <2>3 DEF Conns
<1>17. Router(app)
  BY <1>6, <1>10, <1>11, <1>12, <1>13, <1>15, <1>16, GameAssumption DEF Router, Sound
<1>18. LoopTypes
  <2>1. Len(app.conns) = 0
    BY <1>1
  <2>2. reading \in [runner : 0 .. MaxRunners, conn : 0 .. Len(app.conns)]
    BY <1>2, <2>1, GameAssumption DEF NoReading, NoRunner, NoConn
  <2> QED BY <1>2, <2>2, GameAssumption DEF LoopTypes
<1>19. DebugKept(app)
  BY <1>4, <1>6, <1>9 DEF DebugKept, debugRunner
<1> QED BY <1>2, <1>17, <1>18, <1>19 DEF GameInv, Owed, Left

(* After a handler.                                                        *)
LEMMA AfterHandler ==
  ASSUME GameInv, phase # "closed", NEW h, Since(app, h), Conns(h), Bounded(h)
  PROVE  /\ Router(h) /\ DebugKept(h)
         /\ reading \in [runner : 0 .. MaxRunners, conn : 0 .. Len(h.conns)]
         /\ due \subseteq 1 .. Len(h.runners)
<1>1. Router(h)
  BY DEF Router, Since, Bounded
<1>2. /\ Len(app.runners) \in Nat /\ Len(app.conns) \in Nat
      /\ Len(h.runners) \in Nat /\ Len(h.conns) \in Nat
      /\ Len(app.runners) <= Len(h.runners) /\ Len(app.conns) <= Len(h.conns)
      /\ Len(app.runners) >= 3
  BY <1>1, Fields DEF GameInv, Router, Sound, Since, Objects
<1>3. DebugKept(h)
  <2>1. debugRunner \in 1 .. Len(app.runners)
    BY <1>2 DEF debugRunner
  <2> QED BY <2>1 DEF GameInv, DebugKept, Since
<1>4. due \subseteq 1 .. Len(h.runners)
  BY <1>2 DEF GameInv, LoopTypes
<1>5. reading \in [runner : 0 .. MaxRunners, conn : 0 .. Len(h.conns)]
  <2>1. \A c \in 0 .. Len(app.conns) : c \in 0 .. Len(h.conns)
    BY <1>2
  <2> QED BY <2>1 DEF GameInv, LoopTypes
<1> QED BY <1>1, <1>3, <1>4, <1>5

(* The runners that wait keep their turn through a handler.                *)
LEMMA StillDue ==
  ASSUME NEW g, Sound(g), NEW h, Sound(h), NEW k, Waits(g, k), Turn(g, k, h),
         NEW d \in SUBSET (1 .. Len(g.runners)), Due(g, k, d)
  PROVE  Waits(h, k) /\ Due(h, k, d)
<1>1. /\ Len(g.vec) \in Nat /\ Len(h.vec) \in Nat /\ h.vec \in Seq(Nat)
      /\ Len(g.runners) \in Nat
  BY Fields DEF Sound
<1>2. k \in 0 .. Len(h.vec) /\ \A i \in 1 .. k : h.vec[i] = g.vec[i]
  BY <1>1 DEF Turn, Waits
<1>3. Waits(h, k)
  BY <1>2 DEF Waits
<1>4. {h.vec[i] : i \in 1 .. k} = {g.vec[i] : i \in 1 .. k}
  BY <1>2
<1>5. \A i \in 1 .. k : h.vec[i] \in ToSet(h.vec)
  <2>1. \A i \in 1 .. k : i \in 1 .. Len(h.vec)
    BY <1>1, <1>2
  <2> QED BY <1>1, <2>1, Elements
<1>6. \A x \in d : x \notin Len(g.runners) + 1 .. Len(h.runners)
  BY <1>1
<1>7. d \cap ToSet(h.vec) \subseteq ToSet(g.vec)
  BY <1>6 DEF Turn
<1>8. {h.vec[i] : i \in 1 .. k} = d \cap ToSet(h.vec)
  <2>1. {g.vec[i] : i \in 1 .. k} = d \cap ToSet(g.vec)
    BY DEF Due
  <2>2. {h.vec[i] : i \in 1 .. k} \subseteq ToSet(h.vec)
    BY <1>5
  <2> QED BY <1>4, <1>7, <2>1, <2>2
<1> QED BY <1>2, <1>3, <1>8 DEF Due

(* The runner whose turn it is.                                            *)
LEMMA TheTurn ==
  ASSUME NEW g, Sound(g), NEW k \in Nat, k > 0,
         NEW d \in SUBSET (1 .. Len(g.runners)), Due(g, k, d)
  PROVE  LET r == g.vec[k]
         IN  /\ r \in ToSet(g.vec) /\ r \in 1 .. Len(g.runners)
             /\ g.runners[r].closes = 0
             /\ k - 1 \in Nat /\ Waits(g, k - 1) /\ Due(g, k - 1, d \ {r})
             /\ \A i \in 1 .. k - 1 : g.vec[i] # r
<1> DEFINE r == g.vec[k]
           n == k - 1
<1>1. /\ Len(g.vec) \in Nat /\ g.vec \in Seq(Nat) /\ k \in 1 .. Len(g.vec)
  BY Fields DEF Sound, Due
<1>2. n \in Nat /\ n \in 0 .. Len(g.vec) /\ \A i \in 1 .. n :
        i \in 1 .. Len(g.vec) - 1 /\ i \in 1 .. Len(g.vec) /\ i # k
  BY <1>1
<1>3. r \in ToSet(g.vec)
  BY <1>1, Elements
<1>4. \A i \in 1 .. n : g.vec[i] # r
  BY <1>1, <1>2 DEF Sound, Stack, Injective
<1>5. Waits(g, n)
  BY <1>2 DEF Waits, Sound, Stack
<1>6. {g.vec[i] : i \in 1 .. n} = (d \ {r}) \cap ToSet(g.vec)
  <2>1. {g.vec[i] : i \in 1 .. k} = d \cap ToSet(g.vec)
    BY DEF Due
  <2>2. \A i : i \in 1 .. k <=> i \in 1 .. n \/ i = k
    BY <1>1
  <2>3. {g.vec[i] : i \in 1 .. k} = {g.vec[i] : i \in 1 .. n} \cup {r}
    BY <2>2
  <2>4. r \notin {g.vec[i] : i \in 1 .. n}
    BY <1>4
  <2> QED BY <2>1, <2>3, <2>4
<1>7. Due(g, n, d \ {r})
  BY <1>2, <1>6 DEF Due
<1>8. r \in 1 .. Len(g.runners) /\ g.runners[r].closes = 0
  BY <1>3, StackedLives
<1> QED BY <1>2, <1>3, <1>4, <1>5, <1>7, <1>8

-------------------------------------------------------------------------------
(* The steps of the program preserve the invariant; all but manageRunners  *)
(* and the close are handlers.                                             *)

LEMMA InputStep ==
  ASSUME GameInv, Input
  PROVE  GameInv' /\ Since(app, app')
<1>1. /\ phase = "input" /\ app.currentInput # NoRunner
      /\ app' \in Event(app, app.currentInput) /\ Bounded(app')
      /\ phase' = phase /\ cursor' = cursor /\ reading' = reading /\ due' = due
  BY DEF Input
<1>2. InHand(app, app.currentInput) /\ DebugKept(app)
  BY <1>1 DEF GameInv, Router, Sound, Control, InHand
<1>3. Since(app, app') /\ Conns(app')
  BY <1>1, <1>2, EventIs
<1>4. /\ Router(app') /\ DebugKept(app')
      /\ reading \in [runner : 0 .. MaxRunners, conn : 0 .. Len(app'.conns)]
      /\ due \subseteq 1 .. Len(app'.runners)
  BY <1>1, <1>3, AfterHandler
<1>5. GameInv'
  BY <1>1, <1>4 DEF GameInv, LoopTypes, Owed, Left
<1> QED BY <1>3, <1>5

LEMMA CloseWindowStep ==
  ASSUME GameInv, CloseWindow
  PROVE  GameInv' /\ Since(app, app')
<1>1. /\ phase = "input" /\ app' = Quit(app)
      /\ phase' = phase /\ cursor' = cursor /\ reading' = reading /\ due' = due
  BY DEF CloseWindow
<1>2. Sound(app) /\ Conns(app) /\ Len(app.runners) <= MaxRunners
  BY DEF GameInv, Router
<1>3. SameStack(app, app') /\ app'.runners = app.runners /\ app'.conns = app.conns
  BY <1>1, <1>2, QuitIs
<1>4. Since(app, app') /\ Conns(app') /\ Bounded(app')
  <2>1. Since(app, app')
    BY <1>2, <1>3, SinceSelf, SinceSame
  <2> QED BY <1>2, <1>3, <2>1 DEF Conns, Bounded
<1>5. /\ Router(app') /\ DebugKept(app')
      /\ reading \in [runner : 0 .. MaxRunners, conn : 0 .. Len(app'.conns)]
      /\ due \subseteq 1 .. Len(app'.runners)
  BY <1>1, <1>4, AfterHandler
<1>6. GameInv'
  BY <1>1, <1>5 DEF GameInv, LoopTypes, Owed, Left
<1> QED BY <1>4, <1>6

LEMMA StackFits ==
  ASSUME NEW g, Router(g)
  PROVE  Len(g.vec) \in 0 .. MaxRunners
<1> DEFINE n == Len(g.runners)
           v == g.vec
<1>1. /\ v \in Seq(Nat) /\ Len(v) \in Nat /\ n \in Nat /\ n <= MaxRunners
      /\ ToSet(v) \subseteq 1 .. n /\ Injective(v)
  BY Fields DEF Router, Sound, Stack
<1> HIDE DEF n, v
<1>2. \A i \in 1 .. Len(v) : v[i] \in 1 .. n
  BY <1>1, Elements
<1>3. v \in Seq(1 .. n)
  BY <1>1, <1>2, Retyped
<1>4. Len(v) <= n
  BY <1>1, <1>3, NotLonger
<1> QED BY <1>1, <1>4, GameAssumption DEF v

LEMMA StartLogicStep ==
  ASSUME GameInv, StartLogic
  PROVE  /\ GameInv'
         /\ app.dirty => Managed(app, app')
         /\ ~ app.dirty => app' = app
<1>1. /\ phase = "input" /\ app' = ManageRunners(app) /\ phase' = "logic"
      /\ cursor' = Len(app'.vec) /\ due' = ToSet(app'.vec) /\ reading' = reading
  BY DEF StartLogic
<1>2. /\ Sound(app) /\ Conns(app) /\ Len(app.runners) <= MaxRunners
      /\ DebugKept(app) /\ LoopTypes
  BY <1>1 DEF GameInv, Router
<1>3. ~ app.dirty => app' = app
  BY <1>1 DEF ManageRunners
<1>4. app.dirty => Managed(app, app')
  BY <1>1, <1>2, ManageIs
<1>5. debugRunner \in 1 .. Len(app.runners)
  <2>1. Len(app.runners) \in Nat /\ Len(app.runners) >= 3
    BY <1>2, Fields DEF Sound, Objects
  <2> QED BY <2>1 DEF debugRunner
<1>6. /\ Router(app') /\ DebugKept(app')
      /\ Len(app'.runners) = Len(app.runners) /\ Len(app'.conns) = Len(app.conns)
  <2>1. CASE app.dirty
    <3>1. Managed(app, app') /\ Sound(app') /\ Conns(app')
      BY <1>2, <1>4, <2>1, ManagedSound
    <3>2. ToSet(app'.del) = {}
      BY <3>1 DEF Managed, ToSet
    <3>3. app'.runners[debugRunner] = app.runners[debugRunner]
      BY <1>2, <1>5, <3>1 DEF Managed, DebugKept
    <3> QED BY <1>2, <3>1, <3>2, <3>3 DEF Router, DebugKept, Managed
  <2>2. CASE ~ app.dirty
    <3>1. app' = app
      BY <1>3, <2>2
    <3> QED BY <1>2, <3>1 DEF Router
  <2> QED BY <2>1, <2>2
<1>7. cursor' \in 0 .. MaxRunners
  BY <1>1, <1>6, StackFits
<1>8. due' \subseteq 1 .. Len(app'.runners)
  BY <1>1, <1>6 DEF Router, Sound, Stack
<1>9. LoopTypes'
  BY <1>1, <1>2, <1>6, <1>7, <1>8 DEF LoopTypes
<1>10. Due(app', cursor', due')
  <2>1. app'.vec \in Seq(Nat) /\ Len(app'.vec) \in Nat
    BY <1>6, Fields DEF Router, Sound
  <2>2. ToSet(app'.vec) = {app'.vec[i] : i \in 1 .. Len(app'.vec)}
    BY <2>1, Elements
  <2> QED BY <1>1, <2>1, <2>2 DEF Due
<1>11. GameInv'
  BY <1>1, <1>6, <1>9, <1>10 DEF GameInv, Owed, Left
<1> QED BY <1>3, <1>4, <1>11

(* On to the next runner down.                                             *)
LEMMA BelowStep ==
  ASSUME GameInv, phase # "closed", cursor > 0, NEW r, Below(r),
         Since(app, app'), Conns(app'), Bounded(app'),
         due' \subseteq due, Due(app', cursor - 1, due')
  PROVE  GameInv'
<1>1. /\ phase' = "logic" /\ cursor' \in {0, cursor - 1} /\ reading' = NoReading
  BY DEF Below
<1>2. /\ Router(app') /\ DebugKept(app') /\ due \subseteq 1 .. Len(app'.runners)
  BY AfterHandler
<1>3. cursor \in 0 .. MaxRunners /\ Len(app'.conns) \in Nat
  BY <1>2, Fields DEF GameInv, LoopTypes, Router, Sound
<1>4. cursor' \in 0 .. MaxRunners
  BY <1>1, <1>3, GameAssumption
<1>5. reading' \in [runner : 0 .. MaxRunners, conn : 0 .. Len(app'.conns)]
  BY <1>1, <1>3, GameAssumption DEF NoReading, NoRunner, NoConn
<1>6. LoopTypes'
  BY <1>1, <1>2, <1>4, <1>5 DEF LoopTypes
<1>7. Owed'
  <2>1. cursor' > 0 => cursor' = cursor - 1
    BY <1>1
  <2> QED BY <2>1 DEF Owed
<1> QED BY <1>1, <1>2, <1>6, <1>7 DEF GameInv, Left

(* doConnect.                                                              *)
Connected(g, c) == [g EXCEPT !.conns[c].open = TRUE]

LEMMA ConnectedIs ==
  ASSUME NEW g, Sound(g), Conns(g), NEW r \in 1 .. Len(g.runners),
         NEW c, c = g.runners[r].conn, c # NoConn
  PROVE  LET h == Connected(g, c)
         IN  /\ SameStack(g, h) /\ Conns(h) /\ Len(h.runners) = Len(g.runners)
             /\ c \in 1 .. Len(h.conns) /\ h.conns[c].open /\ h.conns[c].cl = r
<1> DEFINE h == Connected(g, c)
           y == [g.conns[c] EXCEPT !.open = TRUE]
           cs == [g.conns EXCEPT ![c] = y]
<1>1. c \in 1 .. Len(g.conns) /\ g.conns[c].cl = r
  BY DEF Conns
<1>2. g \in App /\ g.conns \in Seq(ConnRec) /\ g.conns[c] \in ConnRec
      /\ Len(g.conns) \in Nat /\ Len(g.runners) \in Nat
  BY <1>1, Fields, ConnFields DEF Sound
<1>3. y \in ConnRec /\ y.cl = r /\ y.open
  BY <1>1, <1>2 DEF ConnRec
<1>4. h = [g EXCEPT !.conns = cs]
  BY DEF Connected
<1> HIDE DEF y
<1>5. /\ cs \in Seq(ConnRec) /\ Len(cs) = Len(g.conns) /\ cs[c] = y
      /\ \A x \in 1 .. Len(g.conns) : x # c => cs[x] = g.conns[x]
  BY <1>1, <1>2, <1>3, ExceptSeq
<1> HIDE DEF h, cs
<1>6. h \in App /\ h.conns = cs
  BY <1>2, <1>4, <1>5 DEF App
<1>7. /\ h.cookie = g.cookie /\ h.parted = g.parted /\ h.runners = g.runners
      /\ h.vec = g.vec /\ h.del = g.del /\ h.dirty = g.dirty
      /\ h.currentInput = g.currentInput /\ h.running = g.running
  BY <1>2, <1>4 DEF App
<1>8. SameStack(g, h)
  BY <1>2, <1>5, <1>6, <1>7 DEF SameStack
<1>9. ASSUME NEW x \in 1 .. Len(g.conns)
      PROVE  /\ cs[x].cl = g.conns[x].cl
             /\ cs[x].open => g.runners[g.conns[x].cl].conn = x
  <2>1. CASE x = c
    BY <1>1, <1>3, <1>5, <2>1
  <2>2. CASE x # c
    BY <1>5, <2>2 DEF Conns
  <2> QED BY <2>1, <2>2
<1>10. Conns(h)
  <2>1. ASSUME NEW o \in 1 .. Len(h.runners), h.runners[o].conn # NoConn
        PROVE  /\ h.runners[o].conn \in 1 .. Len(h.conns)
               /\ h.conns[h.runners[o].conn].cl = o
    <3>1. /\ g.runners[o].conn \in 1 .. Len(g.conns)
          /\ g.conns[g.runners[o].conn].cl = o
      BY <1>7, <2>1 DEF Conns
    <3> QED BY <1>5, <1>6, <1>7, <1>9, <3>1
  <2>2. ASSUME NEW x \in 1 .. Len(h.conns)
        PROVE  /\ h.conns[x].cl \in 1 .. Len(h.runners)
               /\ h.conns[x].cl # debugRunner
               /\ h.conns[x].open => h.runners[h.conns[x].cl].conn = x
    <3>1. x \in 1 .. Len(g.conns)
      BY <1>5, <1>6
    <3>2. g.conns[x].cl \in 1 .. Len(g.runners) /\ g.conns[x].cl # debugRunner
      BY <3>1 DEF Conns
    <3> QED BY <1>6, <1>7, <1>9, <3>1, <3>2
  <2> QED BY <2>1, <2>2 DEF Conns
<1> QED BY <1>1, <1>3, <1>5, <1>6, <1>7, <1>8, <1>10 DEF h

LEMMA RunLogicStep ==
  ASSUME GameInv, RunLogic
  PROVE  GameInv' /\ Since(app, app')
<1> DEFINE r == app.vec[cursor]
           c == app.runners[r].conn
           k == cursor - 1
<1>1. /\ phase = "logic" /\ cursor > 0 /\ due' = due \ {r}
      /\ \/ c = NoConn /\ UNCHANGED app /\ Below(r)
         \/ /\ app.runners[r].kind \in {"Web", "WebList"}
            /\ \E g \in WebDone(app, r) : Bounded(g) /\ app' = g
            /\ Below(r)
         \/ /\ c # NoConn /\ app' = Connected(app, c)
            /\ phase' = "packets" /\ reading' = [runner |-> r, conn |-> c]
            /\ UNCHANGED cursor
         \/ /\ c # NoConn /\ app' = Disconnect(app, c) /\ Bounded(app')
            /\ Below(r)
  BY DEF RunLogic, Connected
<1>2. /\ Sound(app) /\ Conns(app) /\ Len(app.runners) <= MaxRunners
      /\ LoopTypes /\ Due(app, cursor, due) /\ DebugKept(app)
  BY <1>1 DEF GameInv, Router, Owed
<1>3. /\ cursor \in Nat /\ due \in SUBSET (1 .. Len(app.runners))
      /\ cursor \in 0 .. MaxRunners
  BY <1>2, GameAssumption DEF LoopTypes
<1>4. /\ r \in ToSet(app.vec) /\ r \in 1 .. Len(app.runners)
      /\ app.runners[r].closes = 0
      /\ k \in Nat /\ Waits(app, k) /\ Due(app, k, due \ {r})
      /\ \A i \in 1 .. k : app.vec[i] # r
  BY <1>1, <1>2, <1>3, TheTurn
<1>5. /\ c # NoConn => c \in 1 .. Len(app.conns) /\ app.conns[c].cl = r
      /\ due' \subseteq due /\ due' \in SUBSET (1 .. Len(app.runners))
  BY <1>1, <1>2, <1>3, <1>4 DEF Conns
<1> HIDE DEF r, c, k
<1>6. ASSUME Since(app, app'), Conns(app'), Bounded(app'), Turn(app, k, app'),
             Below(r)
      PROVE  GameInv' /\ Since(app, app')
  <2>1. Due(app', cursor - 1, due')
    BY <1>1, <1>2, <1>4, <1>5, <1>6, StillDue DEF k, Since
  <2> QED BY <1>1, <1>5, <1>6, <2>1, BelowStep
<1>7. CASE c = NoConn /\ UNCHANGED app /\ Below(r)
  <2>1. app' = app
    BY <1>7
  <2>2. Since(app, app) /\ Turn(app, k, app)
    BY <1>2, <1>4, SinceSelf, TurnSelf
  <2> QED BY <1>2, <1>6, <1>7, <2>1, <2>2 DEF Bounded
<1>8. CASE /\ app.runners[r].kind \in {"Web", "WebList"}
           /\ \E g \in WebDone(app, r) : Bounded(g) /\ app' = g
           /\ Below(r)
  <2>1. r # debugRunner
    BY <1>2, <1>4, <1>8 DEF Sound, Objects
  <2>2. app' \in WebDone(app, r) /\ Bounded(app')
    BY <1>8
  <2>3. Handled(app, k, app')
    BY <1>2, <1>4, <2>1, <2>2, WebDoneIs
  <2> QED BY <1>6, <1>8, <2>2, <2>3 DEF Handled
<1>9. CASE /\ c # NoConn /\ app' = Connected(app, c)
           /\ phase' = "packets" /\ reading' = [runner |-> r, conn |-> c]
           /\ UNCHANGED cursor
  <2>1. /\ SameStack(app, app') /\ Conns(app')
        /\ Len(app'.runners) = Len(app.runners)
        /\ c \in 1 .. Len(app'.conns) /\ app'.conns[c].open
        /\ app'.conns[c].cl = r
    BY <1>2, <1>4, <1>9, ConnectedIs DEF c
  <2>2. Since(app, app') /\ Turn(app, k, app')
    BY <1>2, <1>4, <2>1, SinceSelf, SinceSame, TurnSelf, TurnSame
  <2>3. Bounded(app')
    BY <1>2, <2>1 DEF Bounded
  <2>4. Router(app') /\ DebugKept(app')
    BY <1>1, <2>1, <2>2, <2>3, AfterHandler
  <2>5. Waits(app', k) /\ Due(app', k, due')
    BY <1>1, <1>2, <1>4, <1>5, <2>2, StillDue DEF Since
  <2>6. /\ reading'.conn = c /\ reading'.runner = r /\ cursor' = cursor
        /\ reading' \in [runner : 0 .. MaxRunners, conn : 0 .. Len(app'.conns)]
    <3>1. Len(app.runners) \in Nat /\ r \in 0 .. MaxRunners
      BY <1>2, <1>4, GameAssumption, Fields DEF Sound
    <3>2. c \in 0 .. Len(app'.conns)
      BY <2>1
    <3> QED BY <1>9, <3>1, <3>2
  <2>7. LoopTypes'
    BY <1>3, <1>5, <1>9, <2>1, <2>6 DEF LoopTypes
  <2>8. Left'
    BY <1>1, <2>1, <2>5, <2>6 DEF Left, k
  <2>9. GameInv'
    BY <1>9, <2>4, <2>7, <2>8 DEF GameInv, Owed
  <2> QED BY <2>2, <2>9
<1>10. CASE /\ c # NoConn /\ app' = Disconnect(app, c) /\ Bounded(app')
            /\ Below(r)
  <2>1. Handled(app, k, app')
    BY <1>2, <1>4, <1>5, <1>10, DisconnectIs
  <2> QED BY <1>6, <1>10, <2>1 DEF Handled
<1> QED BY <1>1, <1>7, <1>8, <1>9, <1>10

LEMMA PacketStep ==
  ASSUME GameInv, Packet
  PROVE  GameInv' /\ Since(app, app')
<1> DEFINE c == reading.conn
           k == cursor - 1
<1>1. /\ phase = "packets" /\ Bounded(app')
      /\ app' \in { LevelInitialize(app, c), LevelFinalize(app, c),
                    Disconnect(app, c) }
      /\ phase' = phase /\ cursor' = cursor /\ reading' = reading /\ due' = due
  BY DEF Packet
<1>2. /\ Sound(app) /\ Conns(app) /\ LoopTypes /\ Left
  BY DEF GameInv, Router
<1>3. /\ cursor > 0 /\ Waits(app, k) /\ Due(app, k, due)
      /\ c \in 1 .. Len(app.conns) /\ app.conns[c].open
      /\ app.conns[c].cl \notin due
  BY <1>1, <1>2 DEF Left
<1> HIDE DEF c, k
<1>4. \A i \in 1 .. k : app.vec[i] # app.conns[c].cl
  BY <1>3 DEF Due
<1>5. Handled(app, k, app') /\ Heard(app, c, app')
  BY <1>1, <1>2, <1>3, <1>4, PacketIs
<1>6. Since(app, app') /\ Conns(app') /\ Turn(app, k, app')
  BY <1>5 DEF Handled
<1>7. /\ Router(app') /\ DebugKept(app')
      /\ reading \in [runner : 0 .. MaxRunners, conn : 0 .. Len(app'.conns)]
      /\ due \subseteq 1 .. Len(app'.runners)
  BY <1>1, <1>6, AfterHandler
<1>8. Waits(app', k) /\ Due(app', k, due)
  BY <1>2, <1>3, <1>6, StillDue DEF LoopTypes, Since
<1>9. c \in 1 .. Len(app'.conns)
  <2>1. Len(app.conns) \in Nat /\ Len(app'.conns) \in Nat /\ Len(app.conns) <= Len(app'.conns)
    BY <1>2, <1>6, <1>7, Fields DEF Since, Router, Sound
  <2> QED BY <1>3, <2>1
<1>10. app'.conns[c].open /\ app'.conns[c].cl \notin due
  <2>1. Len(app.runners) + 1 \notin due
    <3>1. Len(app.runners) \in Nat
      BY <1>2, Fields DEF Sound
    <3>2. Len(app.runners) + 1 \notin 1 .. Len(app.runners)
      BY <3>1
    <3> QED BY <1>2, <3>2 DEF LoopTypes
  <2> QED BY <1>3, <1>5, <2>1 DEF Heard
<1>11. LoopTypes'
  BY <1>1, <1>2, <1>7 DEF LoopTypes
<1>12. Left'
  BY <1>1, <1>3, <1>8, <1>9, <1>10 DEF Left, c, k
<1>13. GameInv'
  BY <1>1, <1>7, <1>11, <1>12 DEF GameInv, Owed
<1> QED BY <1>6, <1>13

LEMMA NoMorePacketsStep ==
  ASSUME GameInv, NoMorePackets
  PROVE  GameInv' /\ Since(app, app')
<1>1. /\ phase = "packets" /\ Below(reading.runner) /\ app' = app /\ due' = due
  BY DEF NoMorePackets
<1>2. /\ Sound(app) /\ Conns(app) /\ Bounded(app) /\ cursor > 0
      /\ Due(app, cursor - 1, due)
  BY <1>1 DEF GameInv, Router, Bounded, Left
<1>3. Since(app, app)
  BY <1>2, SinceSelf
<1> QED BY <1>1, <1>2, <1>3, BelowStep

(* The router waits while the loop goes on.                                *)
LEMMA LoopStep ==
  ASSUME GameInv, EndLogic \/ SkipLogic \/ NextFrame \/ UNCHANGED vars
  PROVE  GameInv' /\ app' = app /\ (phase' = "closed" <=> phase = "closed")
<1>1. CASE EndLogic
  <2>1. app' = app /\ phase = "logic" /\ phase' \in {"input", "idle"}
        /\ due' = {} /\ cursor' = cursor /\ reading' = reading
    BY <1>1 DEF EndLogic
  <2> QED BY <2>1 DEF GameInv, LoopTypes, Owed, Left
<1>2. CASE SkipLogic
  BY <1>2 DEF SkipLogic, GameInv, LoopTypes, Owed, Left
<1>3. CASE NextFrame
  BY <1>3 DEF NextFrame, GameInv, LoopTypes, Owed, Left
<1>4. CASE UNCHANGED vars
  BY <1>4 DEF vars, GameInv, LoopTypes, Owed, Left
<1> QED BY <1>1, <1>2, <1>3, <1>4

LEMMA StartupDoneStep ==
  ASSUME GameInv, StartupDone
  PROVE  GameInv' /\ Since(app, app')
<1>1. /\ phase = "idle" /\ startupRunner \in ToSet(app.vec)
      /\ phase' = phase /\ cursor' = cursor /\ reading' = reading /\ due' = due
  BY DEF StartupDone
<1>2. PICK g \in Started(app) :
        Bounded(g) /\ app' = DeleteMe(g, startupRunner)
  BY DEF StartupDone
<1>3. Sound(app) /\ Conns(app)
  BY DEF GameInv, Router
<1>4. Handled(app, 0, app')
  BY <1>1, <1>2, <1>3, StartedIs
<1>5. Since(app, app') /\ Conns(app')
  BY <1>4 DEF Handled
<1>6. Bounded(app')
  <2>1. Len(app'.runners) = Len(g.runners)
    BY <1>2 DEF DeleteMe, RemoveRunner
  <2> QED BY <1>2, <2>1 DEF Bounded
<1>7. /\ Router(app') /\ DebugKept(app')
      /\ reading \in [runner : 0 .. MaxRunners, conn : 0 .. Len(app'.conns)]
      /\ due \subseteq 1 .. Len(app'.runners)
  BY <1>1, <1>5, <1>6, AfterHandler
<1>8. GameInv'
  BY <1>1, <1>7 DEF GameInv, LoopTypes, Owed, Left
<1> QED BY <1>5, <1>8

LEMMA CloseAppStep ==
  ASSUME GameInv, CloseApp
  PROVE  GameInv' /\ Len(app'.runners) = Len(app.runners)
<1>1. /\ phase = "idle" /\ app' = CloseAll(app) /\ phase' = "closed"
      /\ cursor' = cursor /\ reading' = reading /\ due' = due
  BY DEF CloseApp
<1>2. /\ Sound(app) /\ Conns(app) /\ Len(app.runners) <= MaxRunners
      /\ LoopTypes /\ DebugKept(app)
  BY <1>1 DEF GameInv, Router
<1>3. /\ Sound(app') /\ Conns(app') /\ Gone(app')
      /\ Len(app'.runners) = Len(app.runners) /\ Len(app'.conns) = Len(app.conns)
  BY <1>1, <1>2, CloseAllIs
<1>4. LoopTypes'
  BY <1>1, <1>2, <1>3 DEF LoopTypes
<1>5. GameInv'
  BY <1>1, <1>2, <1>3, <1>4 DEF GameInv, Router, Owed, Left
<1> QED BY <1>3, <1>5

-------------------------------------------------------------------------------
(* The theorems.                                                           *)

LEMMA GameStep == GameInv /\ [Next]_vars => GameInv'
<1> SUFFICES ASSUME GameInv, [Next]_vars PROVE GameInv'
  OBVIOUS
<1>1. CASE Input
  BY <1>1, InputStep
<1>2. CASE CloseWindow
  BY <1>2, CloseWindowStep
<1>3. CASE StartLogic
  BY <1>3, StartLogicStep
<1>4. CASE RunLogic
  BY <1>4, RunLogicStep
<1>5. CASE Packet
  BY <1>5, PacketStep
<1>6. CASE NoMorePackets
  BY <1>6, NoMorePacketsStep
<1>7. CASE EndLogic \/ SkipLogic \/ NextFrame \/ UNCHANGED vars
  BY <1>7, LoopStep
<1>8. CASE StartupDone
  BY <1>8, StartupDoneStep
<1>9. CASE CloseApp
  BY <1>9, CloseAppStep
<1> QED BY <1>1, <1>2, <1>3, <1>4, <1>5, <1>6, <1>7, <1>8, <1>9 DEF Next

(* The router and its runners are what the handlers take them for, in      *)
(* every state of the program.                                             *)
THEOREM GameInvariant == Spec => []GameInv
<1>1. Init => GameInv
  BY GameStarts
<1>2. GameInv /\ [Next]_vars => GameInv'
  BY GameStep
<1> QED BY <1>1, <1>2, PTL DEF Spec

LEMMA TypesHold == GameInv => TypeOK
<1> SUFFICES ASSUME GameInv PROVE TypeOK
  OBVIOUS
<1> DEFINE n == Len(app.runners)
           l == Len(app.conns)
           R == [kind : Kind, type : Type, part : 0 .. MaxRunners,
                 conn : Nat, closes : Nat]
           C == [cl : 1 .. MaxRunners, open : BOOLEAN]
<1>1. /\ app \in App /\ Objects(app) /\ Stack(app) /\ Control(app) /\ Conns(app)
      /\ n <= MaxRunners /\ LoopTypes
  BY DEF GameInv, Router, Sound
<1>2. /\ app.runners \in Seq(RunnerRec) /\ n \in Nat /\ DOMAIN app.runners = 1 .. n
      /\ app.conns \in Seq(ConnRec) /\ l \in Nat /\ DOMAIN app.conns = 1 .. l
      /\ app.vec \in Seq(Nat) /\ app.del \in Seq(Nat)
      /\ app.dirty \in BOOLEAN /\ app.running \in BOOLEAN
  BY <1>1, Fields
<1>3. \A r \in 1 .. n : r \in 1 .. MaxRunners
  BY <1>1, <1>2, GameAssumption
<1>4. app.runners \in Seq(R)
  <2>1. ASSUME NEW r \in 1 .. n PROVE app.runners[r] \in R
    <3>1. app.runners[r] \in RunnerRec
      BY <1>1, RunnerFields
    <3>2. app.runners[r].part \in 0 .. n
      BY <1>1 DEF Objects
    <3>3. app.runners[r].part \in 0 .. MaxRunners
      BY <1>1, <1>2, <3>2, GameAssumption
    <3> QED BY <3>1, <3>3 DEF RunnerRec
  <2> HIDE DEF R
  <2> QED BY <1>2, <2>1, Retyped
<1>5. app.conns \in Seq(C)
  <2>1. ASSUME NEW c \in 1 .. l PROVE app.conns[c] \in C
    <3>1. app.conns[c] \in ConnRec
      BY <1>1, ConnFields
    <3>2. app.conns[c].cl \in 1 .. MaxRunners
      BY <1>1, <1>3 DEF Conns
    <3> QED BY <3>1, <3>2 DEF ConnRec
  <2> HIDE DEF C
  <2> QED BY <1>2, <2>1, Retyped
<1>6. app.vec \in Seq(1 .. n) /\ app.del \in Seq(1 .. n)
  <2>1. ASSUME NEW s \in Seq(Nat), ToSet(s) \subseteq 1 .. n PROVE s \in Seq(1 .. n)
    BY <2>1, Elements, Retyped
  <2> QED BY <1>1, <1>2, <2>1 DEF Stack
<1>7. app.currentInput \in {NoRunner} \cup 1 .. n
  BY <1>1 DEF Control
<1> QED BY <1>1, <1>2, <1>4, <1>5, <1>6, <1>7 DEF TypeOK, LoopTypes

(* The fields, the main loop's variables and the objects are of their      *)
(* types, and what vec and del name are objects that were made.            *)
THEOREM GameTypes == Spec => []TypeOK
BY GameInvariant, TypesHold, PTL

(* No runner is deleted twice, and none that is gone is on the stack or    *)
(* gets the events, until a pause menu parts from a world that has ended:  *)
(* whatever the user, the server and the main loop do in whatever order.   *)
THEOREM DeletesOnce == Spec => []OnlyPartDeletesTwice
<1>1. GameInv => OnlyPartDeletesTwice
  <2> SUFFICES ASSUME GameInv, ~ app.parted, NEW r \in DOMAIN app.runners, Closed(r)
               PROVE  /\ app.runners[r].closes = 1
                      /\ r \notin ToSet(app.vec) \cup ToSet(app.del) \cup {app.currentInput}
    BY DEF OnlyPartDeletesTwice, DeletedOnce
  <2>1. /\ app \in App /\ Ends(app) /\ Control(app) /\ r \in 1 .. Len(app.runners)
    BY Fields DEF GameInv, Router, Sound
  <2>2. app.runners[r].closes > 0 /\ r # NoRunner
    BY <2>1 DEF Closed, NoRunner
  <2>3. r # app.currentInput
    BY <2>1, <2>2 DEF Control
  <2> QED BY <2>1, <2>2, <2>3 DEF Ends
<1> QED BY <1>1, GameInvariant, PTL

(* An open connection is held by one runner, which listens to it.          *)
THEOREM ConnectionsHaveOneOwner == Spec => []OneOwner
<1>1. GameInv => OneOwner
  <2> SUFFICES ASSUME GameInv, NEW c \in DOMAIN app.conns, app.conns[c].open
               PROVE  {r \in DOMAIN app.runners :
                         app.runners[r].conn = c /\ ~ Closed(r)}
                        = {app.conns[c].cl}
    BY DEF OneOwner
  <2> DEFINE o == app.conns[c].cl
  <2>1. /\ Sound(app) /\ Conns(app) /\ c \in 1 .. Len(app.conns)
        /\ DOMAIN app.runners = 1 .. Len(app.runners)
    BY Fields DEF GameInv, Router, Sound
  <2>2. o \in 1 .. Len(app.runners) /\ app.runners[o].conn = c /\ c # NoConn
    BY <2>1 DEF Conns, NoConn
  <2>3. ~ Closed(o)
    <3>1. app.runners[o].closes = 0
      BY <2>1, <2>2, HolderLives
    <3> QED BY <3>1 DEF Closed
  <2>4. \A r \in 1 .. Len(app.runners) : app.runners[r].conn = c => r = o
    BY <2>1, <2>2 DEF Conns
  <2> QED BY <2>1, <2>2, <2>3, <2>4
<1> QED BY <1>1, GameInvariant, PTL

(* A runner that was made is on the stack or on its way out until it is    *)
(* closed.                                                                 *)
THEOREM RunnersAreKept == Spec => []NoneForgotten
<1>1. GameInv => NoneForgotten
  <2> SUFFICES ASSUME GameInv, NEW r \in DOMAIN app.runners, r # debugRunner,
                      ~ Closed(r)
               PROVE  r \in ToSet(app.vec) \cup ToSet(app.del)
    BY DEF NoneForgotten
  <2>1. app \in App /\ Ends(app) /\ r \in 1 .. Len(app.runners)
    BY Fields DEF GameInv, Router, Sound
  <2>2. app.runners[r].closes \in Nat /\ ~ (app.runners[r].closes > 0)
    BY <2>1, RunnerFields DEF Closed
  <2>3. app.runners[r].closes = 0
    BY <2>2
  <2> QED BY <2>1, <2>3 DEF Ends
<1> QED BY <1>1, GameInvariant, PTL

(* When nothing is to be managed the events go to the topmost runner that  *)
(* takes them.                                                             *)
THEOREM TopTakesInput == Spec => []InputGoesToTop
<1>1. GameInv => InputGoesToTop
  BY DEF GameInv, Router, Sound, Control, InputGoesToTop
<1> QED BY <1>1, GameInvariant, PTL

(* What is below the index of RouterApp.logic's loop is what was on the    *)
(* stack when the pass began and has not had its turn, whatever the        *)
(* runners above it and the server's packets did to the stack meanwhile.   *)
THEOREM TurnsAreFair == Spec => []OneTurnEach
<1>1. GameInv => OneTurnEach
  <2> SUFFICES ASSUME GameInv, phase = "logic", cursor > 0
               PROVE  /\ cursor <= Len(app.vec)
                      /\ {app.vec[i] : i \in 1 .. cursor} = due \cap ToSet(app.vec)
    BY DEF OneTurnEach
  <2>1. Due(app, cursor, due)
    BY DEF GameInv, Owed
  <2> QED BY <2>1 DEF Due
<1> QED BY <1>1, GameInvariant, PTL

(* The assertions of ~RouterApp and of the runners' destructors hold when  *)
(* the program has closed: every runner and every connection is.           *)
THEOREM EverythingIsClosed == Spec => []NothingLeft
<1>1. GameInv => NothingLeft
  <2> SUFFICES ASSUME GameInv, phase = "closed"
               PROVE  /\ app.vec = << >> /\ app.del = << >>
                      /\ app.currentInput = NoRunner
                      /\ \A r \in DOMAIN app.runners :
                           Closed(r) /\ app.runners[r].conn = NoConn
                      /\ \A c \in DOMAIN app.conns : ~ app.conns[c].open
    BY DEF NothingLeft
  <2>1. /\ Gone(app) /\ DOMAIN app.runners = 1 .. Len(app.runners)
        /\ DOMAIN app.conns = 1 .. Len(app.conns)
    BY Fields DEF GameInv, Router, Sound
  <2> QED BY <2>1 DEF Gone, Closed
<1> QED BY <1>1, GameInvariant, PTL

-------------------------------------------------------------------------------
(* The lives of the runners.                                               *)

(* Life(r), of any state of the router.                                    *)
LifeIn(g, r) ==
  IF r \notin DOMAIN g.runners THEN "unmade"
  ELSE IF g.runners[r].closes > 1 /\ ~ g.parted THEN "closed twice"
  ELSE IF g.runners[r].closes > 0 THEN "closed"
  ELSE IF r \in ToSet(g.del) THEN "doomed" ELSE "live"

LEMMA LifeIs ==
  ASSUME NEW g, Sound(g), NEW r
  PROVE  LifeIn(g, r) =
           IF r \notin 1 .. Len(g.runners) THEN "unmade"
           ELSE IF g.runners[r].closes > 0 THEN "closed"
           ELSE IF r \in ToSet(g.del) THEN "doomed" ELSE "live"
<1>1. DOMAIN g.runners = 1 .. Len(g.runners)
  BY Fields DEF Sound
<1>2. CASE r \notin 1 .. Len(g.runners)
  BY <1>1, <1>2 DEF LifeIn
<1>3. CASE r \in 1 .. Len(g.runners)
  <2>1. g.runners[r].closes \in Nat
    BY <1>3, RunnerFields DEF Sound
  <2>2. ~ (g.runners[r].closes > 1 /\ ~ g.parted)
    BY <1>3, <2>1 DEF Sound, Ends
  <2> QED BY <1>1, <1>3, <2>2 DEF LifeIn
<1> QED BY <1>2, <1>3

LEMMA HandlersMove ==
  ASSUME NEW g, Sound(g), NEW h, Since(g, h), NEW r \in Nat
  PROVE  /\ LifeIn(h, r) \in {"unmade", "live", "doomed", "closed"}
         /\ <<LifeIn(g, r), LifeIn(h, r)>> \in
              {<<"unmade", "unmade">>, <<"unmade", "live">>, <<"live", "live">>,
               <<"live", "doomed">>, <<"doomed", "doomed">>, <<"closed", "closed">>}
<1>1. Sound(h)
  BY DEF Since
<1>2. /\ Len(g.runners) \in Nat /\ Len(h.runners) \in Nat
      /\ Len(g.runners) <= Len(h.runners)
  BY <1>1, Fields DEF Since, Sound
<1>3. /\ LifeIn(g, r) =
           IF r \notin 1 .. Len(g.runners) THEN "unmade"
           ELSE IF g.runners[r].closes > 0 THEN "closed"
           ELSE IF r \in ToSet(g.del) THEN "doomed" ELSE "live"
      /\ LifeIn(h, r) =
           IF r \notin 1 .. Len(h.runners) THEN "unmade"
           ELSE IF h.runners[r].closes > 0 THEN "closed"
           ELSE IF r \in ToSet(h.del) THEN "doomed" ELSE "live"
  BY <1>1, LifeIs
<1>4. CASE r \in 1 .. Len(g.runners)
  <2>1. r \in 1 .. Len(h.runners)
    BY <1>2, <1>4
  <2>2. h.runners[r].closes = g.runners[r].closes
    BY <1>4 DEF Since
  <2>3. r \in ToSet(g.del) => r \in ToSet(h.del)
    BY DEF Since
  <2> QED BY <1>3, <1>4, <2>1, <2>2, <2>3
<1>5. CASE r \notin 1 .. Len(g.runners)
  <2>1. LifeIn(g, r) = "unmade"
    BY <1>3, <1>5
  <2>2. CASE r \in 1 .. Len(h.runners)
    <3>1. r \in Len(g.runners) + 1 .. Len(h.runners)
      BY <1>2, <1>5, <2>2
    <3>2. h.runners[r].closes = 0 /\ r \notin ToSet(h.del)
      BY <1>5, <3>1 DEF Since
    <3>3. LifeIn(h, r) = "live"
      BY <1>3, <2>2, <3>2
    <3> QED BY <2>1, <3>3
  <2>3. CASE r \notin 1 .. Len(h.runners)
    BY <1>3, <2>1, <2>3
  <2> QED BY <2>2, <2>3
<1> QED BY <1>4, <1>5

LEMMA ManagingReaps ==
  ASSUME NEW g, Sound(g), NEW h, Sound(h), Managed(g, h), NEW r
  PROVE  LifeIn(h, r) = IF LifeIn(g, r) = "doomed" THEN "closed" ELSE LifeIn(g, r)
<1>1. Len(h.runners) = Len(g.runners) /\ ToSet(h.del) = {}
  BY DEF Managed, ToSet
<1>2. /\ LifeIn(g, r) =
           IF r \notin 1 .. Len(g.runners) THEN "unmade"
           ELSE IF g.runners[r].closes > 0 THEN "closed"
           ELSE IF r \in ToSet(g.del) THEN "doomed" ELSE "live"
      /\ LifeIn(h, r) =
           IF r \notin 1 .. Len(h.runners) THEN "unmade"
           ELSE IF h.runners[r].closes > 0 THEN "closed"
           ELSE IF r \in ToSet(h.del) THEN "doomed" ELSE "live"
  BY LifeIs
<1>3. CASE r \in 1 .. Len(g.runners) /\ r \in ToSet(g.del)
  <2>1. g.runners[r].closes \in Nat /\ h.runners[r].closes = g.runners[r].closes + 1
    BY <1>3, RunnerFields DEF Managed, Sound
  <2>2. h.runners[r].closes > 0
    BY <2>1
  <2> QED BY <1>1, <1>2, <1>3, <2>2
<1>4. CASE r \in 1 .. Len(g.runners) /\ r \notin ToSet(g.del)
  <2>1. h.runners[r] = g.runners[r]
    BY <1>4 DEF Managed
  <2> QED BY <1>1, <1>2, <1>4, <2>1
<1>5. CASE r \notin 1 .. Len(g.runners)
  BY <1>1, <1>2, <1>5
<1> QED BY <1>3, <1>4, <1>5

(* A runner is made, asks or is asked to be deleted and is closed, in this *)
(* order and once, and the end closes all there are.                       *)
THEOREM RunnersLiveOnce == Spec => RunnersLive
<1> DEFINE lives == [r \in 1 .. MaxRunners |-> Life(r)]
<1>1. /\ \A r : Life(r) = LifeIn(app, r) /\ (Life(r) = LifeIn(app, r))'
  BY DEF Life, LifeIn, Closed
<1>2. Init => RunnerLives!Init
  <2> SUFFICES ASSUME Init PROVE RunnerLives!Init
    OBVIOUS
  <2>1. Sound(app) /\ phase = "input"
    BY GameStarts DEF GameInv, Router, Init
  <2>2. ASSUME NEW r \in 1 .. MaxRunners PROVE Life(r) \in {"unmade", "live"}
    <3>1. ToSet(app.del) = {}
      BY DEF Init, ToSet
    <3>2. \A o \in 1 .. Len(app.runners) : app.runners[o].closes = 0
      <4>1. app.runners = << NewRunner("Background", NoRunner, NoConn),
                             NewRunner("Debug", NoRunner, NoConn),
                             NewRunner("Startup", NoRunner, NoConn) >>
        BY DEF Init
      <4>2. Len(app.runners) = 3 /\ \A o \in 1 .. 3 : o = 1 \/ o = 2 \/ o = 3
        BY <4>1
      <4> QED BY <4>1, <4>2 DEF NewRunner
    <3> QED BY <1>1, <2>1, <3>1, <3>2, LifeIs
  <2> QED BY <2>1, <2>2 DEF RunnerLives!Init
<1>3. GameInv /\ [Next]_vars =>
        [RunnerLives!Handle \/ RunnerLives!Reap \/ RunnerLives!End]_<<lives, phase = "closed">>
  <2> SUFFICES ASSUME GameInv, [Next]_vars
               PROVE  \/ RunnerLives!Handle \/ RunnerLives!Reap \/ RunnerLives!End
                      \/ lives' = lives /\ (phase = "closed")' = (phase = "closed")
    OBVIOUS
  <2>1. Sound(app) /\ GameInv' /\ Sound(app')
    BY GameStep DEF GameInv, Router
  <2>2. ASSUME Since(app, app'), phase # "closed", phase' # "closed"
        PROVE  RunnerLives!Handle
    <3>1. ASSUME NEW r \in 1 .. MaxRunners
          PROVE  /\ Life(r)' \in {"unmade", "live", "doomed", "closed"}
                 /\ <<Life(r), Life(r)'>> \in
                      {<<"unmade", "unmade">>, <<"unmade", "live">>,
                       <<"live", "live">>, <<"live", "doomed">>,
                       <<"doomed", "doomed">>, <<"closed", "closed">>}
      <4>1. r \in Nat
        BY GameAssumption
      <4> QED BY <1>1, <2>1, <2>2, <4>1, HandlersMove
    <3> QED BY <2>2, <3>1 DEF RunnerLives!Handle
  <2>3. ASSUME app' = app PROVE lives' = lives
    BY <1>1, <2>3
  <2>4. CASE Input \/ CloseWindow \/ Packet \/ StartupDone
    <3>1. Since(app, app')
      BY <2>4, InputStep, CloseWindowStep, PacketStep, StartupDoneStep
    <3>2. phase # "closed" /\ phase' # "closed"
      BY <2>4 DEF Input, CloseWindow, Packet, StartupDone
    <3> QED BY <2>2, <3>1, <3>2
  <2>5. CASE RunLogic \/ NoMorePackets
    <3>1. Since(app, app')
      BY <2>5, RunLogicStep, NoMorePacketsStep
    <3>2. phase # "closed" /\ phase' # "closed"
      BY <2>5 DEF RunLogic, NoMorePackets, Below
    <3> QED BY <2>2, <3>1, <3>2
  <2>6. CASE EndLogic \/ SkipLogic \/ NextFrame \/ UNCHANGED vars
    BY <2>3, <2>6, LoopStep
  <2>7. CASE StartLogic
    <3>1. phase # "closed" /\ phase' # "closed"
      BY <2>7 DEF StartLogic
    <3>2. CASE app.dirty
      <4>1. Managed(app, app')
        BY <2>7, <3>2, StartLogicStep
      <4>2. \A r : Life(r)' = IF Life(r) = "doomed" THEN "closed" ELSE Life(r)
        BY <1>1, <2>1, <4>1, ManagingReaps
      <4>3. RunnerLives!Reap
        BY <3>1, <4>2 DEF RunnerLives!Reap
      <4> QED BY <4>3
    <3>3. CASE ~ app.dirty
      BY <2>3, <2>7, <3>1, <3>3, StartLogicStep
    <3> QED BY <3>2, <3>3
  <2>8. CASE CloseApp
    <3>1. phase # "closed" /\ phase' = "closed"
      BY <2>8 DEF CloseApp
    <3>2. Gone(app') /\ Len(app'.runners) = Len(app.runners)
      BY <2>8, <3>1, CloseAppStep DEF GameInv
    <3>3. \A r : Life(r)' = IF Life(r) = "unmade" THEN "unmade" ELSE "closed"
      BY <1>1, <2>1, <3>2, LifeIs DEF Gone
    <3>4. RunnerLives!End
      BY <3>1, <3>3 DEF RunnerLives!End
    <3> QED BY <3>4
  <2> QED BY <2>4, <2>5, <2>6, <2>7, <2>8 DEF Next
<1> QED BY <1>2, <1>3, GameInvariant, PTL DEF Spec, RunnersLive, RunnerLives!Spec
===============================================================================
