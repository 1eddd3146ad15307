------------------------- MODULE SkinDownloaderProofs -------------------------
(***************************************************************************)
(* Proofs about SkinDownloader, for every set of players and every bound   *)
(* on the length of a body.                                                *)
(***************************************************************************)
EXTENDS SkinDownloader, SequenceTheorems, WellFoundedInduction, TLAPS

-------------------------------------------------------------------------------
(* Numbers and sequences.                                                  *)

Before == {p \in Nat \X Nat : p[1] < p[2]}

LEMMA BeforeIs ==
  ASSUME NEW x \in Nat, NEW y \in Nat
  PROVE  <<y, x>> \in Before <=> y < x
<1> DEFINE p == <<y, x>>
<1>1. p \in Nat \X Nat /\ p[1] = y /\ p[2] = x
  OBVIOUS
<1> HIDE DEF p
<1>2. p \in Before <=> y < x
  BY <1>1 DEF Before
<1> QED BY <1>2 DEF p

(* A set of numbers has a least one.                                       *)
LEMMA Least ==
  ASSUME NEW I \in SUBSET Nat, I # {}
  PROVE  \E x \in I : \A y \in I : x <= y
<1>1. IsWellFoundedOn(Before, Nat)
  BY NatLessThanWellFounded DEF OpToRel, Before
<1>2. PICK x \in I : \A y \in I : <<y, x>> \notin Before
  BY <1>1, WFMin
<1>3. ASSUME NEW y \in I PROVE x <= y
  <2>1. ~ (y < x)
    BY <1>2, BeforeIs
  <2>2. x \in Nat /\ y \in Nat
    OBVIOUS
  <2> QED BY <2>1, <2>2
<1> QED BY <1>3

(* The two parts of a sequence.                                            *)
LEMMA UpTo ==
  ASSUME NEW S, NEW s \in Seq(S), NEW n \in 0 .. Len(s)
  PROVE  /\ SubSeq(s, 1, n) \in Seq(S)
         /\ Len(SubSeq(s, 1, n)) = n
         /\ \A i \in 1 .. n : SubSeq(s, 1, n)[i] = s[i]
<1> DEFINE u == SubSeq(s, 1, n)
<1>1. \A i \in 1 .. n : s[i] \in S
  BY ElementOfSeq
<1>2. n \in Int /\ n >= 0
  OBVIOUS
<1>3. /\ u \in Seq(S)
      /\ Len(u) = IF 1 <= n THEN n - 1 + 1 ELSE 0
      /\ \A i \in 1 .. n - 1 + 1 : u[i] = s[1 + i - 1]
  BY <1>1, <1>2, SubSeqProperties
<1> HIDE DEF u
<1>4. u \in Seq(S) /\ Len(u) = n /\ \A i \in 1 .. n : u[i] = s[i]
  BY <1>2, <1>3
<1> QED BY <1>4 DEF u

LEMMA From ==
  ASSUME NEW S, NEW s \in Seq(S), NEW n \in 0 .. Len(s)
  PROVE  /\ SubSeq(s, n + 1, Len(s)) \in Seq(S)
         /\ Len(SubSeq(s, n + 1, Len(s))) = Len(s) - n
         /\ \A i \in 1 .. Len(s) - n : SubSeq(s, n + 1, Len(s))[i] = s[n + i]
<1> DEFINE u == SubSeq(s, n + 1, Len(s))
           l == Len(s)
           m == n + 1
<1>1. l \in Nat /\ n \in Nat /\ n <= l /\ m \in Int /\ l \in Int
  OBVIOUS
<1>2. \A i \in m .. l : s[i] \in S
  BY <1>1, ElementOfSeq
<1>3. /\ u \in Seq(S)
      /\ Len(u) = IF m <= l THEN l - m + 1 ELSE 0
      /\ \A i \in 1 .. l - m + 1 : u[i] = s[m + i - 1]
  BY <1>1, <1>2, SubSeqProperties
<1> HIDE DEF u, l
<1>4. Len(u) = l - n
  BY <1>1, <1>3
<1>5. ASSUME NEW i \in 1 .. l - n PROVE u[i] = s[n + i]
  <2>1. i \in 1 .. l - m + 1 /\ m + i - 1 = n + i
    BY <1>1
  <2> QED BY <1>3, <2>1
<1> QED BY <1>3, <1>4, <1>5 DEF u, l

LEMMA LastFront ==
  ASSUME NEW S, NEW s \in Seq(S), s # << >>, IsInjective(s)
  PROVE  /\ Last(s) \in S /\ Last(s) \in Range(s)
         /\ Front(s) \in Seq(S) /\ IsInjective(Front(s))
         /\ Range(Front(s)) = Range(s) \ {Last(s)}
<1> DEFINE n == Len(s) - 1
           f == SubSeq(s, 1, n)
<1>1. Len(s) \in Nat \ {0} /\ n \in 0 .. Len(s) /\ n \in Nat
  BY EmptySeq
<1>2. DOMAIN s = 1 .. Len(s)
  OBVIOUS
<1>3. f \in Seq(S) /\ Len(f) = n /\ \A i \in 1 .. n : f[i] = s[i]
  BY <1>1, UpTo
<1>4. DOMAIN f = 1 .. n
  BY <1>3, LenProperties
<1>5. Front(s) = f /\ Last(s) = s[Len(s)]
  BY DEF Front, Last
<1> HIDE DEF f
<1>6. Last(s) \in S /\ Last(s) \in Range(s)
  BY <1>1, <1>2, <1>5, ElementOfSeq DEF Range
<1>7. IsInjective(f)
  BY <1>1, <1>2, <1>3, <1>4 DEF IsInjective
<1>8. Range(f) = Range(s) \ {Last(s)}
  <2>1. ASSUME NEW x \in Range(f) PROVE x \in Range(s) \ {Last(s)}
    <3>1. PICK i \in 1 .. n : x = f[i]
      BY <1>4 DEF Range
    <3>2. i \in 1 .. Len(s) /\ i # Len(s) /\ x = s[i]
      BY <1>1, <1>3, <3>1
    <3>3. \A a, b \in 1 .. Len(s) : s[a] = s[b] => a = b
      BY <1>2 DEF IsInjective
    <3>4. s[i] # s[Len(s)]
      <4>1. Len(s) \in 1 .. Len(s)
        BY <1>1
      <4> QED BY <3>2, <3>3, <4>1
    <3> QED BY <1>2, <1>5, <3>2, <3>4 DEF Range
  <2>2. ASSUME NEW x \in Range(s) \ {Last(s)} PROVE x \in Range(f)
    <3>1. PICK i \in 1 .. Len(s) : x = s[i]
      BY <1>2 DEF Range
    <3>2. i \in 1 .. n
      BY <1>1, <1>5, <3>1
    <3> QED BY <1>3, <1>4, <3>1, <3>2 DEF Range
  <2> QED BY <2>1, <2>2
<1> QED BY <1>3, <1>5, <1>6, <1>7, <1>8

LEMMA AppendOnce ==
  ASSUME NEW S, NEW s \in Seq(S), IsInjective(s), NEW q, q \notin S
  PROVE  /\ Append(s, q) \in Seq(S \cup {q}) /\ IsInjective(Append(s, q))
         /\ Range(Append(s, q)) = Range(s) \cup {q}
<1> DEFINE T == S \cup {q}
           a == Append(s, q)
<1>1. s \in Seq(T)
  BY SeqMonotonic
<1>2. /\ a \in Seq(T) /\ Len(a) = Len(s) + 1
      /\ \A i \in 1 .. Len(s) : a[i] = s[i]
      /\ a[Len(s) + 1] = q
  BY <1>1, AppendProperties
<1>3. DOMAIN a = 1 .. Len(s) + 1 /\ DOMAIN s = 1 .. Len(s) /\ Len(s) \in Nat
  BY <1>2, LenProperties
<1>4. \A i \in 1 .. Len(s) : s[i] \in S
  BY ElementOfSeq
<1> HIDE DEF a, T
<1>5. IsInjective(a)
  BY <1>2, <1>3, <1>4 DEF IsInjective
<1>6. Range(a) = Range(s) \cup {q}
  <2>1. ASSUME NEW x \in Range(a) PROVE x \in Range(s) \cup {q}
    <3>1. PICK i \in 1 .. Len(s) + 1 : x = a[i]
      BY <1>3 DEF Range
    <3> QED BY <1>2, <1>3, <3>1 DEF Range
  <2>2. ASSUME NEW x \in Range(s) PROVE x \in Range(a)
    <3>1. PICK i \in 1 .. Len(s) : x = s[i]
      BY <1>3 DEF Range
    <3> QED BY <1>2, <1>3, <3>1 DEF Range
  <2>3. q \in Range(a)
    BY <1>2, <1>3 DEF Range
  <2> QED BY <2>1, <2>2, <2>3
<1> QED BY <1>2, <1>5, <1>6 DEF a, T

-------------------------------------------------------------------------------
(* What the server sends, unit by unit.                                    *)

PartAt(n, i) ==
  IF i = 1 THEN "top"
  ELSE IF i = 2 THEN (IF n = NoLength THEN "line" ELSE "length")
  ELSE IF i = 3 THEN "end" ELSE "body"

UnitAt(q, n, i) == [of |-> q, part |-> PartAt(n, i), length |-> n]

(* The answer for q, of that length, as far as it goes.                    *)
ShapedFor(a, q, n) == \A i \in 1 .. Len(a) : a[i] = UnitAt(q, n, i)

Shaped(a, q) == \E n \in NoLength .. MaxBody : ShapedFor(a, q, n)

LEMMA UnitType ==
  ASSUME NEW q \in Request, NEW n \in NoLength .. MaxBody, NEW i
  PROVE  UnitAt(q, n, i) \in Unit
  BY DEF UnitAt, PartAt, Unit, Part, NoLength

LEMMA FullIs ==
  ASSUME NEW q \in Request, NEW n \in NoLength .. MaxBody
  PROVE  /\ Full(q, n) \in Seq(Unit)
         /\ Len(Full(q, n)) = IF n <= 0 THEN 3 ELSE 3 + n
         /\ ShapedFor(Full(q, n), q, n)
<1> DEFINE t == UnitAt(q, n, 1)
           c == UnitAt(q, n, 2)
           e == UnitAt(q, n, 3)
           b == UnitAt(q, n, 4)
           m == IF n <= 0 THEN 0 ELSE n
           head == << t, c, e >>
           body == [i \in 1 .. n |-> b]
           full == head \o body
<1>1. t \in Unit /\ c \in Unit /\ e \in Unit /\ b \in Unit
  BY UnitType
<1>2. n \in Int /\ m \in Nat /\ 1 .. n = 1 .. m
  BY MaxBodyAssumption DEF NoLength
<1>3. Full(q, n) = full
  BY DEF Full, UnitAt, PartAt
<1> HIDE DEF t, c, e, b, m
<1>4. /\ head \in Seq(Unit) /\ Len(head) = 3
      /\ head[1] = t /\ head[2] = c /\ head[3] = e
  BY <1>1
<1>5. body \in Seq(Unit) /\ Len(body) = m /\ \A i \in 1 .. m : body[i] = b
  <2>1. body = [i \in 1 .. m |-> b]
    BY <1>2
  <2>2. body \in [1 .. m -> Unit]
    BY <1>1, <2>1
  <2>3. body \in Seq(Unit)
    BY <1>2, <2>2, SeqDef
  <2>4. DOMAIN body = 1 .. m /\ DOMAIN body = 1 .. Len(body) /\ Len(body) \in Nat
    BY <2>1, <2>3, LenProperties
  <2>5. Len(body) = m
    <3> HIDE DEF body
    <3> QED BY <1>2, <2>4
  <2> QED BY <2>1, <2>3, <2>5
<1> HIDE DEF head, body
<1>6. /\ full \in Seq(Unit) /\ Len(full) = 3 + m
      /\ \A i \in 1 .. 3 + m : full[i] = IF i <= 3 THEN head[i] ELSE body[i - 3]
  <2>1. /\ full \in Seq(Unit) /\ Len(full) = Len(head) + Len(body)
        /\ \A i \in 1 .. Len(head) + Len(body) :
             full[i] = IF i <= Len(head) THEN head[i] ELSE body[i - Len(head)]
    BY <1>4, <1>5, ConcatProperties
  <2> HIDE DEF full
  <2> QED BY <1>4, <1>5, <2>1
<1> HIDE DEF full
<1>7. ASSUME NEW i \in 1 .. Len(full) PROVE full[i] = UnitAt(q, n, i)
  <2>1. CASE i = 1
    BY <1>2, <1>4, <1>6, <2>1 DEF t
  <2>2. CASE i = 2
    BY <1>2, <1>4, <1>6, <2>2 DEF c
  <2>3. CASE i = 3
    BY <1>2, <1>4, <1>6, <2>3 DEF e
  <2>4. CASE i > 3
    <3>1. i - 3 \in 1 .. m
      BY <1>2, <1>6, <2>4
    <3>2. full[i] = b
      BY <1>2, <1>5, <1>6, <2>4, <3>1
    <3>3. b = UnitAt(q, n, i)
      BY <2>4 DEF b, UnitAt, PartAt
    <3> QED BY <3>2, <3>3
  <2> QED BY <1>2, <1>6, <2>1, <2>2, <2>3, <2>4
<1> QED BY <1>2, <1>3, <1>6, <1>7 DEF ShapedFor, m

LEMMA AnswersAre ==
  ASSUME NEW q \in Request, NEW a \in Answers(q)
  PROVE  a \in Seq(Unit) /\ Shaped(a, q)
<1>1. PICK n \in NoLength .. MaxBody :
        \/ \E i \in 0 .. Len(Full(q, n)) : a = SubSeq(Full(q, n), 1, i)
        \/ a = Append(Full(q, n), [of |-> q, part |-> "body", length |-> n])
  BY DEF Answers
<1> DEFINE full == Full(q, n)
<1>2. /\ full \in Seq(Unit) /\ Len(full) >= 3 /\ Len(full) \in Nat
      /\ ShapedFor(full, q, n)
  <2>1. n \in Int
    BY MaxBodyAssumption DEF NoLength
  <2>2. /\ full \in Seq(Unit) /\ Len(full) = IF n <= 0 THEN 3 ELSE 3 + n
        /\ ShapedFor(full, q, n)
    BY FullIs
  <2> HIDE DEF full
  <2> QED BY <2>1, <2>2
<1> HIDE DEF full
<1>3. CASE \E i \in 0 .. Len(full) : a = SubSeq(full, 1, i)
  <2>1. PICK i \in 0 .. Len(full) : a = SubSeq(full, 1, i)
    BY <1>3
  <2>2. a \in Seq(Unit) /\ Len(a) = i /\ \A j \in 1 .. i : a[j] = full[j]
    BY <1>2, <2>1, UpTo
  <2>3. ShapedFor(a, q, n)
    BY <1>2, <2>2 DEF ShapedFor
  <2> QED BY <2>2, <2>3 DEF Shaped
<1>4. CASE a = Append(full, [of |-> q, part |-> "body", length |-> n])
  <2> DEFINE u == [of |-> q, part |-> "body", length |-> n]
  <2>1. u = UnitAt(q, n, Len(full) + 1)
    BY <1>2 DEF UnitAt, PartAt
  <2>2. u \in Unit
    BY <2>1, UnitType
  <2> HIDE DEF u
  <2>3. /\ a \in Seq(Unit) /\ Len(a) = Len(full) + 1
        /\ \A i \in 1 .. Len(full) : a[i] = full[i]
        /\ a[Len(full) + 1] = u
    BY <1>2, <1>4, <2>2, AppendProperties DEF u
  <2>4. ShapedFor(a, q, n)
    BY <1>2, <2>1, <2>3 DEF ShapedFor
  <2> QED BY <2>3, <2>4 DEF Shaped
<1> QED BY <1>1, <1>3, <1>4 DEF full

(* A body is what follows the header.                                      *)
LEMMA BodyIs ==
  ASSUME NEW q \in Request, NEW n \in 1 .. MaxBody
  PROVE  /\ Body(q, n) \in Seq(Unit) /\ Len(Body(q, n)) = n
         /\ \A i \in 1 .. n : Body(q, n)[i] = UnitAt(q, n, 3 + i)
<1> DEFINE full == Full(q, n)
<1>1. n \in NoLength .. MaxBody /\ n \in Nat \ {0}
  BY MaxBodyAssumption DEF NoLength
<1>2. full \in Seq(Unit) /\ Len(full) = 3 + n /\ ShapedFor(full, q, n)
  BY <1>1, FullIs
<1>3. Body(q, n) = SubSeq(full, 3 + 1, Len(full))
  BY <1>2 DEF Body
<1> HIDE DEF full
<1>4. 3 \in 0 .. Len(full) /\ Len(full) - 3 = n
  BY <1>1, <1>2
<1>5. /\ Body(q, n) \in Seq(Unit) /\ Len(Body(q, n)) = n
      /\ \A i \in 1 .. n : Body(q, n)[i] = full[3 + i]
  BY <1>2, <1>3, <1>4, From
<1>6. \A i \in 1 .. n : 3 + i \in 1 .. Len(full)
  BY <1>1, <1>2
<1> QED BY <1>2, <1>5, <1>6 DEF ShapedFor

-------------------------------------------------------------------------------
(* What the connection makes of a read.                                    *)

HttpOK(h) ==
  /\ h \in [open : BOOLEAN, connecting : BOOLEAN, data : Seq(Unit), start : Nat,
            length : -1 .. MaxBody]
  /\ h.start <= Len(h.data)

(* Where a header ends, the first there is.                                *)
Ends(data, s) ==
  /\ s \in 1 .. Len(data) /\ data[s].part = "end"
  /\ \A i \in 1 .. s - 1 : data[i].part # "end"

(* What a header that ends there says of the body: its first length.       *)
Says(data, s, l) ==
  \/ l = NoLength /\ \A i \in 1 .. s : data[i].part # "length"
  \/ \E j \in 1 .. s : /\ data[j].part = "length" /\ data[j].length = l
                       /\ \A i \in 1 .. j - 1 : data[i].part # "length"

Headed(data, s, l) == Ends(data, s) /\ Says(data, s, l)

(* What is left in the buffer is not a whole answer.                       *)
Buffer(h) ==
  /\ h.length = NoLength =>
       \A i \in 1 .. Len(h.data) : h.data[i].part # "end"
  /\ h.length # NoLength =>
       Headed(h.data, h.start, h.length) /\ Len(h.data) # h.start + h.length

LEMMA UnitFields ==
  ASSUME NEW u \in Unit
  PROVE  /\ u.of \in Request /\ u.part \in Part
         /\ u.length \in -1 .. MaxBody /\ u.length \in Int
  BY MaxBodyAssumption DEF Unit

(* A part is found where it is first.                                      *)
LEMMA FindIs ==
  ASSUME NEW d \in Seq(Unit), NEW part
  PROVE  LET f == Find(d, part)
         IN  /\ f \in 0 .. Len(d)
             /\ f = 0 => \A i \in 1 .. Len(d) : d[i].part # part
             /\ f # 0 => /\ f \in 1 .. Len(d) /\ d[f].part = part
                         /\ \A i \in 1 .. f - 1 : d[i].part # part
<1> DEFINE at == {i \in 1 .. Len(d) : d[i].part = part}
           f == Find(d, part)
<1>1. Len(d) \in Nat
  OBVIOUS
<1>2. CASE at = {}
  BY <1>1, <1>2 DEF Find
<1>3. CASE at # {}
  <2>1. at \in SUBSET Nat
    BY <1>1
  <2>2. \E x \in at : \A y \in at : x <= y
    <3> HIDE DEF at
    <3> QED BY <1>3, <2>1, Least
  <2>3. f = CHOOSE i \in at : \A j \in at : i <= j
    BY <1>3 DEF Find
  <2> HIDE DEF f
  <2>4. f \in at /\ \A j \in at : f <= j
    BY <2>2, <2>3
  <2>5. f \in 1 .. Len(d) /\ d[f].part = part /\ f # 0
    BY <1>1, <2>4
  <2>6. ASSUME NEW i \in 1 .. f - 1 PROVE d[i].part # part
    <3>1. i \in 1 .. Len(d) /\ ~ (f <= i)
      BY <1>1, <2>5
    <3> QED BY <2>4, <3>1
  <2> QED BY <1>1, <2>5, <2>6 DEF f
<1> QED BY <1>2, <1>3

(* The length that is taken from a header.                                 *)
LEMMA LengthIs ==
  ASSUME NEW d \in Seq(Unit), NEW s \in 1 .. Len(d)
  PROVE  LET l == ContentLength(SubSeq(d, 1, s))
         IN  l \in -1 .. MaxBody /\ Says(d, s, l)
<1> DEFINE header == SubSeq(d, 1, s)
           f == Find(header, "length")
           l == ContentLength(header)
<1>1. s \in 0 .. Len(d) /\ s \in Nat
  OBVIOUS
<1>2. /\ header \in Seq(Unit) /\ Len(header) = s
      /\ \A i \in 1 .. s : header[i] = d[i]
  BY <1>1, UpTo
<1> HIDE DEF header
<1>3. /\ f \in 0 .. s
      /\ f = 0 => \A i \in 1 .. s : header[i].part # "length"
      /\ f # 0 => /\ f \in 1 .. s /\ header[f].part = "length"
                  /\ \A i \in 1 .. f - 1 : header[i].part # "length"
  BY <1>2, FindIs
<1>4. l = IF f = 0 THEN NoLength ELSE header[f].length
  BY DEF ContentLength
<1> HIDE DEF f, l
<1>5. CASE f = 0
  <2>1. l = NoLength /\ \A i \in 1 .. s : d[i].part # "length"
    BY <1>2, <1>3, <1>4, <1>5
  <2>2. l \in -1 .. MaxBody
    BY <2>1, MaxBodyAssumption DEF NoLength
  <2> QED BY <2>1, <2>2 DEF Says, l, header
<1>6. CASE f # 0
  <2>1. f \in 1 .. s /\ l = d[f].length /\ d[f].part = "length"
    BY <1>2, <1>3, <1>4, <1>6
  <2>2. \A i \in 1 .. f - 1 : i \in 1 .. s
    BY <1>1, <2>1
  <2>3. \A i \in 1 .. f - 1 : d[i].part # "length"
    BY <1>2, <1>3, <1>6, <2>2
  <2>4. l \in -1 .. MaxBody
    <3>1. f \in 1 .. Len(d)
      BY <1>1, <2>1
    <3> QED BY <2>1, <3>1, ElementOfSeq, UnitFields
  <2> QED BY <2>1, <2>3, <2>4 DEF Says, l, header
<1> QED BY <1>5, <1>6

(* What is added to a buffer does not change its header.                   *)
LEMMA HeadedOn ==
  ASSUME NEW e \in Seq(Unit), NEW d \in Seq(Unit), Len(e) <= Len(d),
         \A i \in 1 .. Len(e) : d[i] = e[i], NEW s, NEW l, Headed(e, s, l)
  PROVE  Headed(d, s, l)
<1>1. Len(e) \in Nat /\ Len(d) \in Nat /\ s \in 1 .. Len(e)
  BY DEF Headed, Ends
<1>2. s \in 1 .. Len(d) /\ \A i \in 1 .. s : d[i] = e[i]
  BY <1>1
<1>3. Ends(d, s)
  <2>1. s \in 1 .. s /\ \A i \in 1 .. s - 1 : i \in 1 .. s
    BY <1>1
  <2> QED BY <1>2, <2>1 DEF Headed, Ends
<1>4. Says(d, s, l)
  <2>1. CASE l = NoLength /\ \A i \in 1 .. s : e[i].part # "length"
    BY <1>2, <2>1 DEF Says
  <2>2. CASE \E j \in 1 .. s : /\ e[j].part = "length" /\ e[j].length = l
                              /\ \A i \in 1 .. j - 1 : e[i].part # "length"
    <3>1. PICK j \in 1 .. s : /\ e[j].part = "length" /\ e[j].length = l
                              /\ \A i \in 1 .. j - 1 : e[i].part # "length"
      BY <2>2
    <3>2. \A i \in 1 .. j - 1 : i \in 1 .. s
      BY <1>1
    <3>3. /\ d[j].part = "length" /\ d[j].length = l
          /\ \A i \in 1 .. j - 1 : d[i].part # "length"
      BY <1>2, <3>1, <3>2
    <3> QED BY <3>3 DEF Says
  <2> QED BY <2>1, <2>2 DEF Headed, Says
<1> QED BY <1>3, <1>4 DEF Headed

(* Each way a read can go.                                                 *)
Received(h, d, readable, out) ==
  /\ out.handler \in {"none", "update", "response", "error"}
  /\ HttpOK(out.http) /\ Buffer(out.http)
  /\ out.http.open = h.open /\ out.http.connecting = h.connecting
  /\ out.handler \in {"none", "update"} => out.http.data = d
  /\ out.handler = "response" =>
       /\ Clean(out.http)
       /\ \E s \in 1 .. Len(d), l \in -1 .. MaxBody :
            /\ Headed(d, s, l) /\ l # NoLength
            /\ Len(d) = s + l
            /\ out.body = SubSeq(d, s + 1, Len(d))
  /\ out.handler = "error" =>
       /\ Clean(out.http)
       /\ \/ ~ readable
          \/ \E s \in 1 .. Len(d), l \in -1 .. MaxBody :
               /\ Headed(d, s, l)
               /\ l = NoLength \/ Len(d) > s + l

LEMMA ResetIs ==
  ASSUME NEW h, HttpOK(h)
  PROVE  /\ HttpOK(ResetOffsets(h)) /\ Buffer(ResetOffsets(h))
         /\ Clean(ResetOffsets(h))
         /\ ResetOffsets(h).open = h.open
         /\ ResetOffsets(h).connecting = h.connecting
<1> DEFINE r == ResetOffsets(h)
<1>1. -1 \in -1 .. MaxBody /\ << >> \in Seq(Unit) /\ 0 \in Nat
  BY MaxBodyAssumption
<1>2. h \in [open : BOOLEAN, connecting : BOOLEAN, data : Seq(Unit),
             start : Nat, length : -1 .. MaxBody]
  BY DEF HttpOK
<1>3. r = [h EXCEPT !.data = << >>, !.start = 0, !.length = -1]
  BY DEF ResetOffsets, NoLength
<1> HIDE DEF r
<1>4. /\ r.data = << >> /\ r.start = 0 /\ r.length = -1
      /\ r.open = h.open /\ r.connecting = h.connecting
  BY <1>2, <1>3
<1>5. r \in [open : BOOLEAN, connecting : BOOLEAN, data : Seq(Unit),
             start : Nat, length : -1 .. MaxBody]
  BY <1>1, <1>2, <1>3
<1>6. Len(<< >>) = 0
  OBVIOUS
<1>7. HttpOK(r) /\ Buffer(r) /\ Clean(r) /\ r.open = h.open
      /\ r.connecting = h.connecting
  BY <1>4, <1>5, <1>6 DEF HttpOK, Buffer, Clean, NoLength
<1> QED BY <1>7 DEF r

LEMMA ResponseIs ==
  ASSUME NEW h, HttpOK(h), h.length # NoLength,
         Headed(h.data, h.start, h.length), Len(h.data) = h.start + h.length,
         NEW readable
  PROVE  Received(h, h.data, readable, DoHandleResponse(h))
<1>1. DoHandleResponse(h) =
        [http |-> ResetOffsets(h), handler |-> "response",
         body |-> SubSeq(h.data, h.start + 1, Len(h.data))]
  BY DEF DoHandleResponse, Outcome
<1>2. h.start \in 1 .. Len(h.data) /\ h.length \in -1 .. MaxBody
  BY DEF Headed, Ends, HttpOK
<1>3. /\ HttpOK(ResetOffsets(h)) /\ Buffer(ResetOffsets(h))
      /\ Clean(ResetOffsets(h))
      /\ ResetOffsets(h).open = h.open
      /\ ResetOffsets(h).connecting = h.connecting
  BY ResetIs
<1> DEFINE out == DoHandleResponse(h)
           d == h.data
<1>4. /\ out.http = ResetOffsets(h) /\ out.handler = "response"
      /\ out.body = SubSeq(d, h.start + 1, Len(d))
  <2> DEFINE b == SubSeq(d, h.start + 1, Len(d))
             r == ResetOffsets(h)
  <2>1. out = [http |-> r, handler |-> "response", body |-> b]
    BY <1>1
  <2> HIDE DEF out, b, r
  <2>2. out.http = r /\ out.handler = "response" /\ out.body = b
    BY <2>1
  <2> QED BY <2>2 DEF b, r
<1> HIDE DEF out
<1>5. \E s \in 1 .. Len(d), l \in -1 .. MaxBody :
        /\ Headed(d, s, l) /\ l # NoLength
        /\ Len(d) = s + l
        /\ out.body = SubSeq(d, s + 1, Len(d))
  BY <1>2, <1>4
<1>6. Received(h, d, readable, out)
  BY <1>3, <1>4, <1>5 DEF Received
<1> QED BY <1>6 DEF out

LEMMA ErrorIs ==
  ASSUME NEW h, HttpOK(h), NEW readable,
         \/ ~ readable
         \/ /\ Headed(h.data, h.start, h.length)
            /\ h.length = NoLength \/ Len(h.data) > h.start + h.length
  PROVE  Received(h, h.data, readable, Outcome(ResetOffsets(h), "error", << >>))
<1> DEFINE d == h.data
<1>1. \/ ~ readable
      \/ \E s \in 1 .. Len(d), l \in -1 .. MaxBody :
           /\ Headed(d, s, l)
           /\ l = NoLength \/ Len(d) > s + l
  BY DEF Headed, Ends, HttpOK
<1>3. /\ HttpOK(ResetOffsets(h)) /\ Buffer(ResetOffsets(h))
      /\ Clean(ResetOffsets(h))
      /\ ResetOffsets(h).open = h.open
      /\ ResetOffsets(h).connecting = h.connecting
  BY ResetIs
<1> QED BY <1>1, <1>3 DEF Received, Outcome

LEMMA KeptIs ==
  ASSUME NEW h, HttpOK(h), Buffer(h), NEW handler \in {"none", "update"},
         NEW readable
  PROVE  Received(h, h.data, readable, Outcome(h, handler, << >>))
  BY DEF Received, Outcome

LEMMA ReceiveIs ==
  ASSUME NEW h, HttpOK(h), Buffer(h), NEW units \in Seq(Unit),
         NEW readable \in BOOLEAN
  PROVE  Received(h, h.data \o units, readable, Receive(h, units, readable))
<1> DEFINE d == h.data \o units
           read == [h EXCEPT !.data = h.data \o units]
<1>1. /\ h.data \in Seq(Unit) /\ h.start \in Nat /\ h.length \in -1 .. MaxBody
      /\ h.start <= Len(h.data)
  BY DEF HttpOK
<1>2. /\ d \in Seq(Unit) /\ Len(d) = Len(h.data) + Len(units)
      /\ Len(h.data) \in Nat /\ Len(units) \in Nat
      /\ \A i \in 1 .. Len(h.data) : d[i] = h.data[i]
  BY <1>1, ConcatProperties
<1> SUFFICES Received(h, d, readable, Receive(h, units, readable))
  OBVIOUS
<1> HIDE DEF d
<1>3. /\ read.data = d /\ read.start = h.start /\ read.length = h.length
      /\ read.open = h.open /\ read.connecting = h.connecting
      /\ HttpOK(read)
  <2>1. h \in [open : BOOLEAN, connecting : BOOLEAN, data : Seq(Unit),
               start : Nat, length : -1 .. MaxBody]
    BY DEF HttpOK
  <2>2. read = [h EXCEPT !.data = d]
    BY DEF d
  <2> HIDE DEF read
  <2>3. /\ read.data = d /\ read.start = h.start /\ read.length = h.length
        /\ read.open = h.open /\ read.connecting = h.connecting
    BY <2>1, <2>2
  <2>4. read \in [open : BOOLEAN, connecting : BOOLEAN, data : Seq(Unit),
                  start : Nat, length : -1 .. MaxBody]
    BY <1>2, <2>1, <2>2
  <2>5. read.start <= Len(read.data)
    BY <1>1, <1>2, <2>3
  <2> QED BY <2>3, <2>4, <2>5 DEF HttpOK
<1>4. ASSUME NEW g, NEW out, g.open = h.open, g.connecting = h.connecting,
             g.data = d, Received(g, g.data, readable, out)
      PROVE  Received(h, d, readable, out)
  BY <1>4 DEF Received
<1>5. CASE h.length = NoLength
  <2> DEFINE end == Find(read.data, "end")
             says == ContentLength(SubSeq(read.data, 1, end))
             got == [read EXCEPT !.start = end, !.length = says]
             invalid == ~ readable \/ got.length = NoLength
  <2>1. Receive(h, units, readable) =
          CASE end = 0 -> Outcome(read, "none", << >>)
            [] end > 0 /\ invalid -> Outcome(ResetOffsets(got), "error", << >>)
            [] end > 0 /\ ~ invalid /\ Len(got.data) = end + got.length ->
                 DoHandleResponse(got)
            [] OTHER -> Outcome(got, "update", << >>)
    BY <1>5 DEF Receive, GetHeader
  <2>2. /\ end = 0 => \A i \in 1 .. Len(d) : d[i].part # "end"
        /\ end # 0 => Ends(d, end)
        /\ end \in 0 .. Len(d)
    <3>1. end = Find(d, "end")
      BY <1>3
    <3> HIDE DEF end
    <3>2. /\ end \in 0 .. Len(d)
          /\ end = 0 => \A i \in 1 .. Len(d) : d[i].part # "end"
          /\ end # 0 => /\ end \in 1 .. Len(d) /\ d[end].part = "end"
                        /\ \A i \in 1 .. end - 1 : d[i].part # "end"
      BY <1>2, <3>1, FindIs
    <3> QED BY <3>2 DEF Ends
  <2> HIDE DEF read, end
  <2>3. CASE end = 0
    <3>1. Buffer(read)
      BY <1>3, <1>5, <2>2, <2>3 DEF Buffer
    <3>2. Receive(h, units, readable) = Outcome(read, "none", << >>)
      BY <2>1, <2>3
    <3> QED BY <1>3, <1>4, <3>1, <3>2, KeptIs
  <2>4. CASE end # 0
    <3>1. end \in 1 .. Len(d) /\ end \in Nat /\ end > 0
      BY <1>2, <2>2, <2>4
    <3>2. says \in -1 .. MaxBody /\ Says(d, end, says)
      BY <1>2, <1>3, <3>1, LengthIs
    <3> HIDE DEF says
    <3>3. /\ got.data = d /\ got.start = end /\ got.length = says
          /\ got.open = h.open /\ got.connecting = h.connecting
          /\ got \in [open : BOOLEAN, connecting : BOOLEAN, data : Seq(Unit),
                      start : Nat, length : -1 .. MaxBody]
      BY <1>3, <3>1, <3>2 DEF HttpOK
    <3> HIDE DEF got
    <3>4. HttpOK(got) /\ Headed(got.data, got.start, got.length)
      BY <1>2, <2>2, <2>4, <3>1, <3>2, <3>3 DEF HttpOK, Headed
    <3>5. CASE invalid
      <4>1. Receive(h, units, readable) = Outcome(ResetOffsets(got), "error", << >>)
        BY <2>1, <3>1, <3>5
      <4> QED BY <1>4, <3>3, <3>4, <3>5, <4>1, ErrorIs
    <3>6. CASE ~ invalid /\ Len(got.data) = end + got.length
      <4>1. Receive(h, units, readable) = DoHandleResponse(got)
        BY <2>1, <3>1, <3>6
      <4> QED BY <1>4, <3>3, <3>4, <3>6, <4>1, ResponseIs
    <3>7. CASE ~ invalid /\ Len(got.data) # end + got.length
      <4>1. Receive(h, units, readable) = Outcome(got, "update", << >>)
        BY <2>1, <3>1, <3>7
      <4>2. Buffer(got)
        BY <3>3, <3>4, <3>7 DEF Buffer
      <4> QED BY <1>4, <3>3, <3>4, <4>1, <4>2, KeptIs
    <3> QED BY <3>5, <3>6, <3>7
  <2> QED BY <2>3, <2>4
<1>6. CASE h.length # NoLength
  <2> DEFINE end == read.start + read.length
  <2>1. Receive(h, units, readable) =
          CASE Len(read.data) < end -> Outcome(read, "update", << >>)
            [] Len(read.data) = end -> DoHandleResponse(read)
            [] Len(read.data) > end -> Outcome(ResetOffsets(read), "error", << >>)
    BY <1>3, <1>6 DEF Receive, GetBody
  <2> HIDE DEF read
  <2>2. Headed(d, h.start, h.length)
    <3>1. Headed(h.data, h.start, h.length)
      BY <1>6 DEF Buffer
    <3>2. Len(h.data) <= Len(d)
      BY <1>2
    <3> QED BY <1>1, <1>2, <3>1, <3>2, HeadedOn
  <2>3. Headed(read.data, read.start, read.length)
    BY <1>3, <2>2
  <2>4. end \in Int /\ Len(read.data) \in Int
    BY <1>1, <1>2, <1>3, MaxBodyAssumption
  <2>5. CASE Len(read.data) < end
    <3>1. Receive(h, units, readable) = Outcome(read, "update", << >>)
      BY <2>1, <2>4, <2>5
    <3>2. Buffer(read)
      BY <1>3, <1>6, <2>3, <2>4, <2>5 DEF Buffer
    <3> QED BY <1>3, <1>4, <3>1, <3>2, KeptIs
  <2>6. CASE Len(read.data) = end
    <3>1. Receive(h, units, readable) = DoHandleResponse(read)
      BY <2>1, <2>4, <2>6
    <3> QED BY <1>3, <1>4, <1>6, <2>3, <2>6, <3>1, ResponseIs
  <2>7. CASE Len(read.data) > end
    <3>1. Receive(h, units, readable) = Outcome(ResetOffsets(read), "error", << >>)
      BY <2>1, <2>4, <2>7
    <3> QED BY <1>3, <1>4, <2>3, <2>7, <3>1, ErrorIs
  <2> QED BY <2>4, <2>5, <2>6, <2>7
<1> QED BY <1>5, <1>6 DEF d

-------------------------------------------------------------------------------
(* The types, which say also that what waits was asked for, once.          *)

LEMMA HttpIs ==
  ASSUME TypeOK
  PROVE  HttpOK(http)
<1>1. Len(http.data) \in Nat
  BY DEF TypeOK
<1>2. http.start \in 0 .. Len(http.data)
  BY DEF TypeOK
<1>3. http.start \in Nat /\ http.start <= Len(http.data)
  BY <1>1, <1>2
<1> QED BY <1>3 DEF TypeOK, HttpOK

LEMMA HttpBack ==
  ASSUME NEW h, HttpOK(h)
  PROVE  h \in [open : BOOLEAN, connecting : BOOLEAN, data : Seq(Unit),
                start : 0 .. Len(h.data), length : -1 .. MaxBody]
<1>1. Len(h.data) \in Nat /\ h.start \in Nat /\ h.start <= Len(h.data)
  BY DEF HttpOK
<1>2. h.start \in 0 .. Len(h.data)
  BY <1>1
<1> QED BY <1>2 DEF HttpOK

(* The connection after a step of its own life: only the two flags change. *)
LEMMA FlagsIs ==
  ASSUME NEW h, HttpOK(h), NEW g,
         g \in {Close(h), Connected(h), DoConnect(h), Close(DoConnect(h))}
  PROVE  /\ HttpOK(g)
         /\ g.data = h.data /\ g.start = h.start /\ g.length = h.length
         /\ g = Close(h) => ~ g.open /\ g.connecting = h.connecting
         /\ g = Connected(h) => ~ g.connecting /\ g.open = h.open
         /\ g = DoConnect(h) => g.open /\ g.connecting
         /\ g = Close(DoConnect(h)) => ~ g.open
  BY DEF HttpOK, Close, Connected, DoConnect

(* What doTick takes up, and what is left to do.                           *)
LEMMA TakenIs ==
  ASSUME TypeOK, TakeSkin
  PROVE  /\ Skin \in store /\ Skin \in Request /\ Skin # NoSkin
         /\ nextSkin' \in Seq(store) /\ IsInjective(nextSkin')
         /\ Skin \notin Range(nextSkin') /\ NoSkin \notin Range(nextSkin')
         /\ Range(nextSkin') \subseteq store
<1>1. /\ nextSkin \in Seq(store) /\ IsInjective(nextSkin)
      /\ curSkin \in store \cup {NoSkin} /\ curSkin \notin Range(nextSkin)
      /\ store \subseteq Request /\ NoSkin \notin store
  BY NoSkinAssumption DEF TypeOK
<1>2. Range(nextSkin) \subseteq store
  <2>1. DOMAIN nextSkin = 1 .. Len(nextSkin)
    BY <1>1
  <2>2. \A i \in 1 .. Len(nextSkin) : nextSkin[i] \in store
    BY <1>1, ElementOfSeq
  <2> QED BY <2>1, <2>2 DEF Range
<1>3. CASE curSkin = NoSkin
  <2>1. nextSkin # << >> /\ nextSkin' = Front(nextSkin) /\ Skin = Last(nextSkin)
    BY <1>3 DEF TakeSkin, Work, Skin
  <2>2. /\ Last(nextSkin) \in store
        /\ Front(nextSkin) \in Seq(store) /\ IsInjective(Front(nextSkin))
        /\ Range(Front(nextSkin)) = Range(nextSkin) \ {Last(nextSkin)}
    BY <1>1, <2>1, LastFront
  <2> QED BY <1>1, <1>2, <2>1, <2>2
<1>4. CASE curSkin # NoSkin
  <2>1. nextSkin' = nextSkin /\ Skin = curSkin
    BY <1>4 DEF TakeSkin, Skin
  <2> QED BY <1>1, <1>2, <1>4, <2>1
<1> QED BY <1>3, <1>4

(* What a step that takes a skin leaves of the types to be shown.          *)
LEMMA TakenTypes ==
  ASSUME TypeOK, TakeSkin, HttpOK(http'), wire' \in Seq(Unit),
         answer' \in Seq(Unit), curSkin' \in {Skin, NoSkin}, store' = store,
         asked' \subseteq store \cup {Skin}, failed' \subseteq store \cup {Skin},
         shown' \in [Request -> Seq(Unit)], torn' \in 0 .. 2
  PROVE  TypeOK'
<1>1. /\ Skin \in store /\ Skin # NoSkin
      /\ nextSkin' \in Seq(store) /\ IsInjective(nextSkin')
      /\ Skin \notin Range(nextSkin') /\ NoSkin \notin Range(nextSkin')
  BY TakenIs
<1>2. http' \in [open : BOOLEAN, connecting : BOOLEAN, data : Seq(Unit),
                 start : 0 .. Len(http'.data), length : -1 .. MaxBody]
  BY HttpBack
<1>3. store \subseteq Request
  BY DEF TypeOK
<1>4. curSkin' \in store' \cup {NoSkin} /\ curSkin' \notin Range(nextSkin')
  BY <1>1
<1>5. asked' \subseteq store' /\ failed' \subseteq store'
  BY <1>1
<1> QED BY <1>1, <1>2, <1>3, <1>4, <1>5 DEF TypeOK

(* What has been read by the next read, and what the picture is then.      *)
Pieces(n) == http.data \o SubSeq(wire, 1, n)

(* The three ways it is handled.                                           *)
Handled(out) ==
  \/ /\ out.handler = "response"
     /\ http' = Close(out.http) /\ curSkin' = NoSkin
     /\ shown' = IF Picture(out.body) # << >>
                 THEN [shown EXCEPT ![Skin] = Picture(out.body)] ELSE shown
  \/ /\ out.handler = "error"
     /\ http' = Close(out.http) /\ curSkin' = NoSkin
     /\ shown' = shown
  \/ /\ out.handler \notin {"response", "error"}
     /\ http' = out.http /\ curSkin' = Skin /\ shown' = shown

LEMMA ReadIs ==
  ASSUME TypeOK, Buffer(http), NEW n \in 1 .. Len(wire), Read(n)
  PROVE  /\ n \in 0 .. Len(wire) /\ n \in Nat /\ n > 0 /\ Len(wire) \in Nat
         /\ Pieces(n) \in Seq(Unit)
         /\ wire' \in Seq(Unit) /\ answer' \in Seq(Unit)
         /\ HttpOK(http')
         /\ \E readable \in BOOLEAN : \E out :
              /\ readable \/ torn > 0
              /\ Received(http, Pieces(n), readable, out)
              /\ Handled(out)
<1> DEFINE units == SubSeq(wire, 1, n)
<1>1. wire \in Seq(Unit) /\ Len(wire) \in Nat /\ answer \in Seq(Unit)
  BY DEF TypeOK
<1>2. n \in 0 .. Len(wire) /\ n \in Nat /\ n > 0
  BY <1>1
<1>3. units \in Seq(Unit)
  BY <1>1, <1>2, UpTo
<1>4. HttpOK(http)
  BY HttpIs
<1>5. PICK readable \in BOOLEAN : /\ readable \/ torn > 0
                                 /\ Handle(Receive(http, units, readable))
  BY DEF Read
<1> DEFINE out == Receive(http, units, readable)
<1>6. Received(http, http.data \o units, readable, out)
  <2> HIDE DEF units
  <2> QED BY <1>3, <1>4, ReceiveIs
<1>7. SubSeq(wire, n + 1, Len(wire)) \in Seq(Unit) /\ << >> \in Seq(Unit)
  BY <1>1, <1>2, From
<1>8. wire' \in Seq(Unit) /\ answer' \in Seq(Unit)
  BY <1>1, <1>7 DEF Read
<1>9. http.data \o units \in Seq(Unit)
  <2> HIDE DEF units
  <2> QED BY <1>3, <1>4, ConcatProperties DEF HttpOK
<1> HIDE DEF out
<1>10. Handled(out)
  <2>1. Handle(out)
    BY <1>5 DEF out
  <2> QED BY <2>1 DEF Handle, Handled
<1>11. HttpOK(out.http)
  BY <1>6 DEF Received
<1>12. HttpOK(http')
  BY <1>10, <1>11, FlagsIs DEF Handled
<1> QED BY <1>1, <1>2, <1>5, <1>6, <1>8, <1>9, <1>10, <1>12 DEF Pieces

(* A picture is the beginning of the body, all of one unit.                *)
LEMMA PictureIs ==
  ASSUME NEW b \in Seq(Unit), Picture(b) # << >>
  PROVE  /\ b # << >> /\ Len(b) \in Nat \ {0} /\ b[1].part = "body"
         /\ b[1].length \in 1 .. MaxBody /\ b[1].length <= Len(b)
         /\ \A i \in 1 .. b[1].length : b[i] = b[1]
         /\ Picture(b) \in Seq(Unit) /\ Len(Picture(b)) = b[1].length
         /\ \A i \in 1 .. b[1].length : Picture(b)[i] = b[1]
<1> DEFINE l == b[1].length
           pic == SubSeq(b, 1, l)
<1>1. /\ b # << >> /\ b[1].part = "body" /\ l <= Len(b)
      /\ \A i \in 1 .. l : b[i] = b[1]
      /\ Picture(b) = pic
  BY DEF Picture
<1>2. Len(b) \in Nat \ {0}
  BY <1>1, EmptySeq
<1>3. 1 \in 1 .. Len(b)
  BY <1>2
<1>4. b[1] \in Unit
  BY <1>3, ElementOfSeq
<1>5. l \in -1 .. MaxBody /\ l \in Int
  BY <1>4, UnitFields
<1> HIDE DEF l
<1>6. l >= 1
  <2>1. SUFFICES ASSUME l < 1 PROVE FALSE
    BY <1>5
  <2>2. \A i \in 1 .. l : b[i] \in Unit
    BY <1>5, <2>1
  <2>3. pic \in Seq(Unit) /\ Len(pic) = 0
    BY <1>5, <2>1, <2>2, SubSeqProperties
  <2> QED BY <1>1, <2>3, EmptySeq
<1>7. l \in 1 .. MaxBody /\ l \in 0 .. Len(b)
  BY <1>1, <1>2, <1>5, <1>6, MaxBodyAssumption
<1>8. pic \in Seq(Unit) /\ Len(pic) = l /\ \A i \in 1 .. l : pic[i] = b[i]
  BY <1>7, UpTo
<1> QED BY <1>1, <1>2, <1>7, <1>8 DEF l

(* The picture of a response is typed.                                     *)
LEMMA ShownTypes ==
  ASSUME TypeOK, Buffer(http), NEW n \in 1 .. Len(wire), Read(n)
  PROVE  shown' \in [Request -> Seq(Unit)]
<1> DEFINE d == Pieces(n)
<1>1. d \in Seq(Unit)
  BY ReadIs
<1>2. PICK readable \in BOOLEAN : \E o : Received(http, d, readable, o) /\ Handled(o)
  BY ReadIs
<1>3. PICK out : Received(http, d, readable, out) /\ Handled(out)
  BY <1>2
<1>4. shown \in [Request -> Seq(Unit)]
  BY DEF TypeOK
<1>5. Skin \in Request
  BY TakenIs DEF Read
<1>6. \/ shown' = shown
      \/ /\ out.handler = "response" /\ Picture(out.body) # << >>
         /\ shown' = [shown EXCEPT ![Skin] = Picture(out.body)]
  BY <1>3 DEF Handled
<1> HIDE DEF d
<1>7. CASE /\ out.handler = "response" /\ Picture(out.body) # << >>
           /\ shown' = [shown EXCEPT ![Skin] = Picture(out.body)]
  <2>1. PICK s \in 1 .. Len(d) : out.body = SubSeq(d, s + 1, Len(d))
    BY <1>3, <1>7 DEF Received
  <2>2. s \in 0 .. Len(d)
    BY <1>1
  <2>3. out.body \in Seq(Unit)
    BY <1>1, <2>1, <2>2, From
  <2>4. Picture(out.body) \in Seq(Unit)
    BY <1>7, <2>3, PictureIs
  <2> QED BY <1>4, <1>5, <1>7, <2>4
<1> QED BY <1>4, <1>6, <1>7

(* What a read leaves in the buffer.                                       *)
LEMMA ReadBuffer ==
  ASSUME TypeOK, Buffer(http), NEW n \in 1 .. Len(wire), Read(n)
  PROVE  Buffer(http')
<1>1. PICK readable \in BOOLEAN :
        \E o : Received(http, Pieces(n), readable, o) /\ Handled(o)
  BY ReadIs
<1>2. PICK out : Received(http, Pieces(n), readable, out) /\ Handled(out)
  BY <1>1
<1>3. http' = Close(out.http) \/ http' = out.http
  BY <1>2 DEF Handled
<1>4. HttpOK(out.http) /\ Buffer(out.http)
  BY <1>2 DEF Received
<1>5. /\ http'.data = out.http.data /\ http'.start = out.http.start
      /\ http'.length = out.http.length
  BY <1>3, <1>4, FlagsIs
<1> QED BY <1>4, <1>5 DEF Buffer

(* Types hold from one step to the next, with what a buffer can hold.      *)
TypedInv == TypeOK /\ Buffer(http)

LEMMA BufferKept ==
  ASSUME Buffer(http), NEW h, h.data = http.data, h.start = http.start,
         h.length = http.length
  PROVE  Buffer(h)
  BY DEF Buffer

LEMMA TypedInit ==
  ASSUME Init
  PROVE  TypedInv
<1>1. /\ http.open = FALSE /\ http.connecting = FALSE /\ http.data = << >>
      /\ http.start = 0 /\ http.length = -1
  BY DEF Init, NewHttp, NoLength
<1>2. Len(<< >>) = 0 /\ -1 \in -1 .. MaxBody /\ << >> \in Seq(Unit)
  BY MaxBodyAssumption
<1>3. http = [open |-> FALSE, connecting |-> FALSE, data |-> << >>, start |-> 0,
              length |-> -1]
  BY DEF Init, NewHttp, NoLength
<1>4. http \in [open : BOOLEAN, connecting : BOOLEAN, data : Seq(Unit),
                start : 0 .. Len(http.data), length : -1 .. MaxBody]
  <2>1. 0 \in 0 .. Len(http.data)
    BY <1>1, <1>2
  <2> DEFINE R == 0 .. Len(http.data)
  <2>2. 0 \in R
    BY <2>1
  <2> HIDE DEF R
  <2>3. http \in [open : BOOLEAN, connecting : BOOLEAN, data : Seq(Unit),
                  start : R, length : -1 .. MaxBody]
    BY <1>2, <1>3, <2>2
  <2> QED BY <2>3 DEF R
<1>5. Buffer(http)
  BY <1>1, <1>2 DEF Buffer, NoLength
<1>6. wire \in Seq(Unit) /\ answer \in Seq(Unit) /\ shown \in [Request -> Seq(Unit)]
  BY <1>2 DEF Init
<1>7. nextSkin = << >> /\ IsInjective(nextSkin) /\ Range(nextSkin) = {}
      /\ nextSkin \in Seq(store)
  BY DEF Init, IsInjective, Range
<1> QED BY <1>4, <1>5, <1>6, <1>7 DEF Init, TypedInv, TypeOK

LEMMA TypedNext ==
  ASSUME TypedInv, [Next]_vars
  PROVE  TypedInv'
<1> USE DEF TypedInv
<1>1. CASE UNCHANGED vars
  BY <1>1 DEF vars, TypeOK, Buffer, Headed, Ends, Says
<1>2. ASSUME NEW q \in Request, GetSkin(q) PROVE TypedInv'
  <2>1. /\ nextSkin \in Seq(store) /\ IsInjective(nextSkin) /\ q \notin store
        /\ nextSkin' = Append(nextSkin, q) /\ store' = store \cup {q}
    BY <1>2 DEF TypeOK, GetSkin
  <2>2. /\ nextSkin' \in Seq(store') /\ IsInjective(nextSkin')
        /\ Range(nextSkin') = Range(nextSkin) \cup {q}
    BY <2>1, AppendOnce
  <2>3. q # NoSkin
    BY NoSkinAssumption
  <2> QED BY <1>2, <2>1, <2>2, <2>3 DEF GetSkin, TypeOK, Buffer, Headed, Ends, Says
<1> HttpOK(http)
  BY HttpIs
<1>3. CASE ConnectFails
  <2>1. HttpOK(http') /\ Buffer(http')
    BY <1>3, FlagsIs, BufferKept DEF ConnectFails
  <2>2. TypeOK'
    BY <1>3, <2>1, TakenTypes DEF ConnectFails, TypeOK
  <2> QED BY <2>1, <2>2
<1>4. CASE Connect
  <2>1. HttpOK(http') /\ Buffer(http')
    BY <1>4, FlagsIs, BufferKept DEF Connect
  <2>2. TypeOK'
    BY <1>4, <2>1, TakenTypes DEF Connect, TypeOK
  <2> QED BY <2>1, <2>2
<1>5. CASE HandleConnected
  <2>1. HttpOK(http') /\ Buffer(http')
    BY <1>5, FlagsIs, BufferKept DEF HandleConnected
  <2>2. wire' \in Seq(Unit) /\ answer' \in Seq(Unit)
    BY <1>5, TakenIs, AnswersAre DEF HandleConnected
  <2>3. TypeOK'
    BY <1>5, <2>1, <2>2, TakenTypes DEF HandleConnected, TypeOK
  <2> QED BY <2>1, <2>3
<1>6. ASSUME NEW n \in 1 .. Len(wire), Read(n) PROVE TypedInv'
  <2>1. /\ HttpOK(http') /\ wire' \in Seq(Unit) /\ answer' \in Seq(Unit)
        /\ Buffer(http')
    BY <1>6, ReadIs, ReadBuffer
  <2>2. shown' \in [Request -> Seq(Unit)]
    BY <1>6, ShownTypes
  <2>3. curSkin' \in {Skin, NoSkin} /\ TakeSkin
    BY <1>6, ReadIs DEF Handled, Read
  <2>4. torn' \in 0 .. 2 /\ store' = store /\ asked' = asked /\ failed' = failed
    BY <1>6 DEF Read, TypeOK
  <2>5. asked \subseteq store /\ failed \subseteq store
    BY DEF TypeOK
  <2>6. TypeOK'
    BY <2>1, <2>2, <2>3, <2>4, <2>5, TakenTypes
  <2> QED BY <2>1, <2>6
<1>7. CASE HandleDisconnect
  <2>1. HttpOK(http') /\ Buffer(http')
    BY <1>7 DEF HandleDisconnect
  <2>2. TypeOK'
    BY <1>7, <2>1, TakenTypes DEF HandleDisconnect, TypeOK
  <2> QED BY <2>1, <2>2
<1>8. CASE SelectFails
  <2>1. HttpOK(http') /\ Buffer(http')
    BY <1>8, FlagsIs, BufferKept DEF SelectFails
  <2>2. << >> \in Seq(Unit) /\ torn' \in 0 .. 2
    BY <1>8 DEF SelectFails, TypeOK
  <2>3. TypeOK'
    BY <1>8, <2>1, <2>2, TakenTypes DEF SelectFails, TypeOK
  <2> QED BY <2>1, <2>3
<1> QED
  BY <1>1, <1>2, <1>3, <1>4, <1>5, <1>6, <1>7, <1>8 DEF Next, Tick, Progress

(* Types, in every behaviour: a name is waiting once, and not while it is  *)
(* the one that is worked on.                                              *)
THEOREM SkinTypes == Spec => []TypeOK
<1>1. Spec => []TypedInv
  BY TypedInit, TypedNext, PTL DEF Spec
<1> QED BY <1>1, PTL DEF TypedInv

-------------------------------------------------------------------------------
(* Where the stream is: how much of the answer has been read, and how much  *)
(* of another was in the buffer before it.                                 *)

Got == Len(answer) - Len(wire)
Old == Len(http.data) - Got

(* The beginning of one answer.                                            *)
Remnant(data, m) ==
  \E q \in Request, k \in NoLength .. MaxBody :
    \A i \in 1 .. m : data[i] = UnitAt(q, k, i)

OnTheWay ==
  /\ Got >= 0 /\ Old >= 0
  /\ \A i \in 1 .. Len(wire) : wire[i] = answer[Got + i]
  /\ \A i \in 1 .. Got : http.data[Old + i] = answer[i]
  /\ wire # << >> => curSkin # NoSkin
  /\ curSkin # NoSkin => Shaped(answer, curSkin)
  /\ \E q \in Request : Shaped(answer, q)
  /\ torn = 0 => Old = 0
  /\ torn = 1 => Remnant(http.data, Old)

(* What the next answer will find in the buffer.                           *)
AtRest ==
  /\ wire = << >> /\ answer = << >>
  /\ torn = 0 => Clean(http)
  /\ torn = 1 => Remnant(http.data, Len(http.data))

StreamInv ==
  /\ TypedInv
  /\ http.open /\ http.connecting => curSkin # NoSkin
  /\ ~ http.open \/ http.connecting => AtRest
  /\ http.open /\ ~ http.connecting => OnTheWay

(* What a read has in front of it, when it has taken n units more.         *)
LEMMA PiecesAre ==
  ASSUME StreamInv, NEW n \in 1 .. Len(wire), Read(n)
  PROVE  /\ Len(Pieces(n)) = Old + Got + n /\ Got + n <= Len(answer)
         /\ Got \in Nat /\ Old \in Nat
         /\ \A i \in 1 .. Got + n : Pieces(n)[Old + i] = answer[i]
         /\ \A i \in 1 .. Old : Pieces(n)[i] = http.data[i]
<1> DEFINE units == SubSeq(wire, 1, n)
           g == Got
           o == Old
           data == http.data
<1>1. /\ wire \in Seq(Unit) /\ answer \in Seq(Unit) /\ data \in Seq(Unit)
  BY DEF StreamInv, TypedInv, TypeOK
<1>2. /\ Len(wire) \in Nat /\ Len(answer) \in Nat /\ Len(data) \in Nat
      /\ n \in 0 .. Len(wire) /\ n \in Nat
  BY <1>1
<1>3. OnTheWay
  BY DEF StreamInv, Read
<1>4. g = Len(answer) - Len(wire) /\ o = Len(data) - g
  BY DEF Got, Old
<1>5. /\ \A i \in 1 .. Len(wire) : wire[i] = answer[g + i]
      /\ \A i \in 1 .. g : data[o + i] = answer[i]
      /\ g >= 0 /\ o >= 0
  BY <1>3 DEF OnTheWay
<1>6. units \in Seq(Unit) /\ Len(units) = n /\ \A i \in 1 .. n : units[i] = wire[i]
  BY <1>1, <1>2, UpTo
<1> HIDE DEF units, g, o, data
<1> DEFINE d == data \o units
<1>7. /\ Len(d) = Len(data) + Len(units)
      /\ \A i \in 1 .. Len(data) + Len(units) :
           d[i] = IF i <= Len(data) THEN data[i] ELSE units[i - Len(data)]
  BY <1>1, <1>6, ConcatProperties
<1> HIDE DEF d
<1>8. g \in Nat /\ o \in Nat /\ Len(data) = o + g /\ g + n <= Len(answer)
  BY <1>2, <1>4, <1>5
<1>9. ASSUME NEW i \in 1 .. g + n PROVE d[o + i] = answer[i]
  <2>1. CASE i <= g
    <3>1. o + i \in 1 .. Len(data) + Len(units) /\ o + i <= Len(data) /\ i \in 1 .. g
      BY <1>6, <1>8, <2>1
    <3> QED BY <1>5, <1>7, <3>1
  <2>2. CASE i > g
    <3>1. /\ o + i \in 1 .. Len(data) + Len(units) /\ ~ (o + i <= Len(data))
          /\ o + i - Len(data) = i - g /\ i - g \in 1 .. n
          /\ i - g \in 1 .. Len(wire) /\ g + (i - g) = i
      BY <1>2, <1>6, <1>8, <2>2
    <3>2. d[o + i] = units[i - g]
      <4> DEFINE j == o + i
      <4>1. j \in 1 .. Len(data) + Len(units) /\ ~ (j <= Len(data))
        BY <3>1
      <4> HIDE DEF j
      <4>2. d[j] = units[j - Len(data)]
        BY <1>7, <4>1
      <4>3. j - Len(data) = i - g
        BY <1>8, <3>1 DEF j
      <4> QED BY <4>2, <4>3 DEF j
    <3>3. units[i - g] = wire[i - g]
      BY <1>6, <3>1
    <3>4. wire[i - g] = answer[g + (i - g)]
      BY <1>5, <3>1
    <3> QED BY <3>1, <3>2, <3>3, <3>4
  <2> QED BY <1>8, <2>1, <2>2
<1>10. ASSUME NEW i \in 1 .. o PROVE d[i] = data[i]
  <2>1. i \in 1 .. Len(data) + Len(units) /\ i <= Len(data)
    BY <1>6, <1>8
  <2> QED BY <1>7, <2>1
<1> QED BY <1>6, <1>7, <1>8, <1>9, <1>10 DEF d, units, g, o, data, Pieces

LEMMA StreamInit ==
  ASSUME Init
  PROVE  StreamInv
<1>1. /\ http.open = FALSE /\ http.connecting = FALSE /\ http.data = << >>
      /\ http.length = NoLength
  BY DEF Init, NewHttp
<1>2. wire = << >> /\ answer = << >> /\ torn = 0
  BY DEF Init
<1> QED BY <1>1, <1>2, TypedInit DEF StreamInv, AtRest, Clean

(* A read that is not the last one leaves the stream where it was.         *)
LEMMA ReadKeeps ==
  ASSUME StreamInv, NEW n \in 1 .. Len(wire), Read(n), TypedInv'
  PROVE  StreamInv'
<1> DEFINE d == Pieces(n)
<1>1. /\ TypeOK /\ Buffer(http) /\ http.open /\ ~ http.connecting /\ OnTheWay
      /\ TakeSkin
      /\ wire' = IF http'.open THEN SubSeq(wire, n + 1, Len(wire)) ELSE << >>
      /\ answer' = IF http'.open THEN answer ELSE << >>
      /\ torn' = IF Clean(http') THEN 0 ELSE torn
  BY DEF StreamInv, TypedInv, Read
<1>0. PICK readable \in BOOLEAN :
        \E o : Received(http, d, readable, o) /\ Handled(o)
  BY <1>1, ReadIs
<1>2. PICK out : Received(http, d, readable, out) /\ Handled(out)
  BY <1>0
<1>3. \/ out.handler = "response" /\ http' = Close(out.http)
      \/ out.handler = "error" /\ http' = Close(out.http)
      \/ /\ out.handler \notin {"response", "error"}
         /\ http' = out.http /\ curSkin' = Skin
  BY <1>2 DEF Handled
<1>4. /\ Len(d) = Old + Got + n /\ Got + n <= Len(answer) /\ Got \in Nat /\ Old \in Nat
      /\ \A i \in 1 .. Got + n : d[Old + i] = answer[i]
      /\ \A i \in 1 .. Old : d[i] = http.data[i]
      /\ n \in Nat /\ n > 0 /\ d \in Seq(Unit)
  BY <1>1, PiecesAre, ReadIs
<1> HIDE DEF d
<1>5. CASE out.handler \in {"response", "error"}
  <2>1. HttpOK(out.http) /\ Clean(out.http) /\ http' = Close(out.http)
    BY <1>2, <1>3, <1>5 DEF Received
  <2>2. /\ ~ http'.open /\ http'.data = out.http.data
        /\ http'.length = out.http.length
    BY <2>1, FlagsIs
  <2>3. Clean(http')
    BY <2>1, <2>2 DEF Clean
  <2>4. wire' = << >> /\ answer' = << >> /\ torn' = 0
    BY <1>1, <2>2, <2>3
  <2> QED BY <2>2, <2>3, <2>4 DEF StreamInv, AtRest
<1>6. CASE out.handler \notin {"response", "error"}
  <2>1. http' = out.http /\ curSkin' = Skin
    BY <1>3, <1>6
  <2>2. /\ http'.data = d /\ http'.open /\ ~ http'.connecting
    BY <1>1, <1>2, <1>6, <2>1 DEF Received
  <2>0. ~ Clean(http')
    <3>1. Len(d) # 0
      BY <1>4
    <3>2. d # << >>
      BY <1>4, <3>1, EmptySeq
    <3> QED BY <2>2, <3>2 DEF Clean
  <2>16. /\ wire' = SubSeq(wire, n + 1, Len(wire)) /\ answer' = answer
         /\ torn' = torn
    BY <1>1, <2>0, <2>2
  <2>3. Skin # NoSkin
    BY <1>1, TakenIs
  <2>4. wire \in Seq(Unit) /\ Len(wire) \in Nat /\ n \in 0 .. Len(wire)
    BY <1>1, ReadIs DEF TypeOK
  <2>5. /\ Len(wire') = Len(wire) - n
        /\ \A i \in 1 .. Len(wire) - n : wire'[i] = wire[n + i]
    BY <2>4, <2>16, From
  <2>6. answer \in Seq(Unit) /\ Len(answer) \in Nat
    BY <1>1 DEF TypeOK
  <2>7. Got' = Got + n /\ Old' = Old
    <3>1. Got' = Got + n
      <4> DEFINE la == Len(answer)
                 lw == Len(wire)
      <4>1. la \in Nat /\ lw \in Nat /\ n \in Nat /\ Got = la - lw
        BY <1>4, <2>4, <2>6 DEF Got
      <4>2. Len(wire') = lw - n /\ Len(answer') = la
        BY <2>5, <2>16
      <4>3. Got' = Len(answer') - Len(wire')
        BY DEF Got
      <4> HIDE DEF la, lw
      <4> QED BY <4>1, <4>2, <4>3
    <3>2. Old' = Len(d) - Got'
      BY <2>2 DEF Old
    <3> QED BY <1>4, <3>1, <3>2
  <2>8. wire # << >> /\ curSkin # NoSkin /\ Skin = curSkin
    <3>1. wire # << >>
      BY <1>4, <2>4
    <3> QED BY <1>1, <3>1 DEF OnTheWay, Skin
  <2>9. Shaped(answer, curSkin)
    BY <1>1, <2>8 DEF OnTheWay
  <2>10. ASSUME NEW i \in 1 .. Len(wire') PROVE wire'[i] = answer'[Got' + i]
    <3>1. n + i \in 1 .. Len(wire) /\ i \in 1 .. Len(wire) - n
      BY <1>4, <2>4, <2>5
    <3>2. wire'[i] = wire[n + i] /\ wire[n + i] = answer[Got + (n + i)]
      BY <1>1, <2>5, <3>1 DEF OnTheWay
    <3>3. Got' + i = Got + (n + i)
      BY <1>4, <2>7
    <3> QED BY <2>16, <3>2, <3>3
  <2>11. \A i \in 1 .. Got' : http'.data[Old' + i] = answer'[i]
    BY <1>4, <2>2, <2>7, <2>16
  <2>12. Got' >= 0 /\ Old' >= 0
    BY <1>4, <2>7
  <2>13. curSkin' # NoSkin /\ Shaped(answer', curSkin')
    BY <2>1, <2>3, <2>8, <2>9, <2>16
  <2>14. \E q \in Request : Shaped(answer', q)
    BY <1>1, <2>16 DEF OnTheWay
  <2>15. torn' = 0 => Old' = 0
    BY <1>1, <2>7, <2>16 DEF OnTheWay
  <2>17. torn' = 1 => Remnant(http'.data, Old')
    <3>1. SUFFICES ASSUME torn = 1 PROVE Remnant(d, Old)
      BY <2>2, <2>7, <2>16
    <3>2. PICK q \in Request, k \in NoLength .. MaxBody :
            \A i \in 1 .. Old : http.data[i] = UnitAt(q, k, i)
      BY <1>1, <3>1 DEF OnTheWay, Remnant
    <3>3. \A i \in 1 .. Old : d[i] = UnitAt(q, k, i)
      BY <1>4, <3>2
    <3> QED BY <3>3 DEF Remnant
  <2>18. OnTheWay'
    BY <2>10, <2>11, <2>12, <2>13, <2>14, <2>15, <2>17 DEF OnTheWay
  <2> QED BY <2>2, <2>18 DEF StreamInv
<1> QED BY <1>3, <1>5, <1>6

(* The answer begins where the buffer ends.                                *)
LEMMA ConnectedKeeps ==
  ASSUME StreamInv, HandleConnected, TypedInv'
  PROVE  StreamInv'
<1>1. /\ TypeOK /\ TakeSkin /\ http.open /\ http.connecting
      /\ http' = Connected(http) /\ torn' = torn /\ curSkin' = Skin
      /\ HttpOK(http)
  BY HttpIs DEF StreamInv, TypedInv, HandleConnected
<1>2. PICK a \in Answers(Skin) : wire' = a /\ answer' = a
  BY DEF HandleConnected
<1>3. Skin # NoSkin /\ Skin \in Request
  BY <1>1, TakenIs
<1>4. a \in Seq(Unit) /\ Shaped(a, Skin) /\ Len(a) \in Nat
  BY <1>3, AnswersAre
<1>5. http'.open /\ ~ http'.connecting /\ http'.data = http.data
  BY <1>1, FlagsIs
<1>6. Len(http.data) \in Nat
  BY <1>1 DEF HttpOK
<1>7. Got' = 0 /\ Old' = Len(http.data)
  BY <1>2, <1>4, <1>5, <1>6 DEF Got, Old
<1>8. AtRest
  BY <1>1 DEF StreamInv
<1>9. torn' = 0 => Old' = 0
  <2>1. torn = 0 => http.data = << >>
    BY <1>8 DEF AtRest, Clean
  <2> QED BY <1>1, <1>7, <2>1
<1>10. torn' = 1 => Remnant(http'.data, Old')
  BY <1>1, <1>5, <1>7, <1>8 DEF AtRest
<1>11. \A i \in 1 .. Len(wire') : wire'[i] = answer'[Got' + i]
  BY <1>2, <1>4, <1>7
<1>12. OnTheWay'
  BY <1>1, <1>2, <1>3, <1>4, <1>6, <1>7, <1>9, <1>10, <1>11 DEF OnTheWay
<1> QED BY <1>5, <1>12 DEF StreamInv

LEMMA StreamNext ==
  ASSUME StreamInv, [Next]_vars
  PROVE  StreamInv'
<1> TypedInv /\ TypedInv' /\ TypeOK /\ HttpOK(http)
  BY TypedNext, HttpIs DEF StreamInv, TypedInv
<1>1. CASE UNCHANGED vars
  BY <1>1 DEF StreamInv, vars, OnTheWay, AtRest, Got, Old, Clean, Remnant
<1>2. ASSUME NEW q \in Request, GetSkin(q) PROVE StreamInv'
  BY <1>2 DEF GetSkin, StreamInv, OnTheWay, AtRest, Got, Old, Clean, Remnant
<1>3. CASE ConnectFails
  <2>1. ~ http'.open /\ http'.data = http.data /\ http'.length = http.length
    BY <1>3, FlagsIs DEF ConnectFails
  <2>2. ~ http.open /\ torn' = torn /\ wire' = wire /\ answer' = answer
    BY <1>3 DEF ConnectFails
  <2> QED BY <2>1, <2>2 DEF StreamInv, AtRest, Clean
<1>4. CASE Connect
  <2>1. /\ http'.open /\ http'.connecting
        /\ http'.data = http.data /\ http'.length = http.length
    BY <1>4, FlagsIs DEF Connect
  <2>2. /\ ~ http.open /\ torn' = torn /\ wire' = wire /\ answer' = answer
        /\ curSkin' = Skin /\ TakeSkin
    BY <1>4 DEF Connect
  <2>3. Skin # NoSkin
    BY <2>2, TakenIs
  <2> QED BY <2>1, <2>2, <2>3 DEF StreamInv, AtRest, Clean
<1>5. CASE HandleConnected
  BY <1>5, ConnectedKeeps
<1>6. ASSUME NEW n \in 1 .. Len(wire), Read(n) PROVE StreamInv'
  BY <1>6, ReadKeeps
<1>7. CASE HandleDisconnect
  <2>1. /\ http.open /\ ~ http.connecting /\ wire = << >> /\ curSkin' = NoSkin
        /\ http' = http /\ wire' = wire /\ answer' = answer /\ torn' = torn
    BY <1>7 DEF HandleDisconnect
  <2>2. OnTheWay
    BY <2>1 DEF StreamInv
  <2>3. Got' = Got /\ Old' = Old
    BY <2>1 DEF Got, Old
  <2>4. OnTheWay'
    BY <2>1, <2>2, <2>3 DEF OnTheWay
  <2> QED BY <2>1, <2>4 DEF StreamInv
<1>8. CASE SelectFails
  <2>1. /\ ~ http'.open /\ http'.data = http.data /\ http'.length = http.length
        /\ http.open /\ wire' = << >> /\ answer' = << >>
        /\ torn' = IF wire = answer THEN torn ELSE IF torn = 0 THEN 1 ELSE 2
    BY <1>8, FlagsIs DEF SelectFails
  <2>2. CASE http.connecting
    <3>1. AtRest
      BY <2>2 DEF StreamInv
    <3>2. torn' = torn
      BY <2>1, <3>1 DEF AtRest
    <3> QED BY <2>1, <3>1, <3>2 DEF StreamInv, AtRest, Clean
  <2>3. CASE ~ http.connecting
    <3> DEFINE g == Got
               o == Old
               data == http.data
               m == Len(data)
    <3>1. OnTheWay
      BY <2>1, <2>3 DEF StreamInv
    <3>2. /\ m \in Nat /\ Len(wire) \in Nat /\ Len(answer) \in Nat
          /\ g = Len(answer) - Len(wire) /\ o = m - g
      BY DEF Got, Old, TypeOK
    <3>3. /\ torn = 0 => o = 0
          /\ torn = 1 => Remnant(data, o)
          /\ g >= 0 /\ o >= 0
          /\ \A i \in 1 .. g : data[o + i] = answer[i]
      BY <3>1 DEF OnTheWay
    <3> HIDE DEF g, o, m, data
    <3>4. CASE wire = answer
      <4>1. torn' = torn /\ m = o
        BY <2>1, <3>2, <3>4
      <4>2. torn = 0 => Clean(http)
        <5>1. SUFFICES ASSUME torn = 0 PROVE Clean(http)
          OBVIOUS
        <5>2. m = 0 /\ http.data \in Seq(Unit)
          BY <3>3, <4>1, <5>1 DEF HttpOK
        <5>3. http.data = << >>
          BY <5>2, EmptySeq DEF m, data
        <5>4. http.length = NoLength
          <6>1. http.length # NoLength => http.start \in 1 .. m
            BY DEF TypedInv, Buffer, Headed, Ends, m, data
          <6> QED BY <5>2, <6>1
        <5> QED BY <5>3, <5>4 DEF Clean
      <4>3. torn = 1 => Remnant(http.data, Len(http.data))
        BY <3>3, <4>1 DEF m, data
      <4> QED BY <2>1, <4>1, <4>2, <4>3 DEF StreamInv, AtRest, Clean
    <3>5. CASE wire # answer
      <4>1. torn' # 0 /\ (torn' = 1 => torn = 0)
        BY <2>1, <3>5
      <4>2. ASSUME torn' = 1 PROVE Remnant(data, m)
        <5>1. o = 0 /\ m = g
          BY <3>2, <3>3, <4>1, <4>2
        <5>2. PICK q \in Request : Shaped(answer, q)
          BY <3>1 DEF OnTheWay
        <5>3. PICK k \in NoLength .. MaxBody : ShapedFor(answer, q, k)
          BY <5>2 DEF Shaped
        <5>4. ASSUME NEW i \in 1 .. m PROVE data[i] = UnitAt(q, k, i)
          <6>1. i \in 1 .. g /\ i \in 1 .. Len(answer) /\ o + i = i
            BY <3>2, <5>1
          <6>2. data[i] = answer[i]
            BY <3>3, <6>1
          <6> QED BY <5>3, <6>1, <6>2 DEF ShapedFor
        <5> QED BY <5>4 DEF Remnant
      <4>3. torn' = 1 => Remnant(http'.data, Len(http'.data))
        BY <2>1, <4>2 DEF m, data
      <4> QED BY <2>1, <4>1, <4>3 DEF StreamInv, AtRest
    <3> QED BY <3>4, <3>5
  <2> QED BY <2>2, <2>3
<1> QED
  BY <1>1, <1>2, <1>3, <1>4, <1>5, <1>6, <1>7, <1>8 DEF Next, Tick, Progress

(* Every behaviour stays where the stream makes sense.                     *)
THEOREM SkinStream == Spec => []StreamInv
  BY StreamInit, StreamNext, PTL DEF Spec

(* Between two requests doTick finds the offsets back where they began,    *)
(* unless an interrupted select has left a part of a transfer behind.      *)
THEOREM SkinFresh == Spec => []FreshBetween
<1>1. StreamInv => FreshBetween
  BY DEF StreamInv, AtRest, FreshBetween
<1> QED BY <1>1, SkinStream, PTL

(* A header that ends in what is left of another answer ends in its third   *)
(* unit and has its length; a picture would go past it, into this answer.  *)
LEMMA NoneFromBefore ==
  ASSUME NEW d \in Seq(Unit), NEW o \in Nat, Remnant(d, o), o < Len(d),
         d[o + 1].part = "top",
         NEW s \in 1 .. o, NEW l \in -1 .. MaxBody, Headed(d, s, l),
         l # NoLength, Len(d) = s + l,
         NEW b \in Seq(Unit), Len(b) = l, \A i \in 1 .. l : b[i] = d[s + i],
         Picture(b) # << >>
  PROVE  FALSE
<1>1. PICK q \in Request, k \in NoLength .. MaxBody :
        \A i \in 1 .. o : d[i] = UnitAt(q, k, i)
  BY DEF Remnant
<1>2. \A i \in 1 .. o : d[i].part = PartAt(k, i) /\ d[i].length = k
  <2>1. ASSUME NEW i \in 1 .. o PROVE d[i].part = PartAt(k, i) /\ d[i].length = k
    <3>1. UnitAt(q, k, i).part = PartAt(k, i) /\ UnitAt(q, k, i).length = k
      BY DEF UnitAt
    <3> QED BY <1>1, <3>1
  <2> QED BY <2>1
<1>3. s = 3
  <2>1. PartAt(k, s) = "end"
    BY <1>2 DEF Headed, Ends
  <2> QED BY <2>1 DEF PartAt
<1>4. l = k
  <2>1. PICK j \in 1 .. s : d[j].part = "length" /\ d[j].length = l
    BY DEF Headed, Says
  <2>2. j \in 1 .. o
    OBVIOUS
  <2> QED BY <1>2, <2>1, <2>2
<1>5. /\ Len(b) \in Nat \ {0} /\ b[1].part = "body"
      /\ \A i \in 1 .. b[1].length : b[i] = b[1]
  BY PictureIs
<1>6. l \in Nat \ {0} /\ Len(d) = 3 + l /\ b[1] = d[4]
  <2>1. 1 \in 1 .. l /\ s + 1 = 4
    BY <1>3, <1>5
  <2> QED BY <1>3, <1>5, <2>1
<1>7. o # 3
  BY <1>5, <1>6
<1>8. 4 \in 1 .. o
  BY <1>3, <1>7
<1>9. b[1].length = l
  BY <1>2, <1>4, <1>6, <1>8
<1> DEFINE j == o - 2
<1>10. j \in 1 .. l /\ s + j = o + 1
  BY <1>3, <1>6, <1>8
<1> HIDE DEF j
<1>11. b[j].part = "body" /\ b[j] = d[o + 1]
  BY <1>5, <1>9, <1>10
<1> QED BY <1>11

(* A response that has a picture has that of the answer it ends with, where *)
(* the buffer began with a part of one other answer at most.               *)
LEMMA WholeIs ==
  ASSUME StreamInv, torn < 2, NEW n \in 1 .. Len(wire), Read(n),
         NEW s \in 1 .. Len(Pieces(n)), NEW l \in -1 .. MaxBody,
         Headed(Pieces(n), s, l), l # NoLength, Len(Pieces(n)) = s + l,
         Picture(SubSeq(Pieces(n), s + 1, Len(Pieces(n)))) # << >>
  PROVE  /\ Skin = curSkin
         /\ \E m \in 1 .. MaxBody :
              Picture(SubSeq(Pieces(n), s + 1, Len(Pieces(n)))) = Body(curSkin, m)
<1> DEFINE d == Pieces(n)
           b == SubSeq(d, s + 1, Len(d))
           g == Got
           o == Old
<1>1. /\ TypeOK /\ Buffer(http) /\ OnTheWay /\ TakeSkin
      /\ d \in Seq(Unit) /\ n \in Nat /\ n > 0
  <2>1. TypeOK /\ Buffer(http) /\ OnTheWay /\ TakeSkin
    BY DEF StreamInv, TypedInv, Read
  <2> QED BY <2>1, ReadIs
<1>2. wire # << >> /\ curSkin # NoSkin /\ Skin = curSkin
  <2>1. wire # << >>
    BY <1>1
  <2> QED BY <1>1, <2>1 DEF OnTheWay, Skin
<1>3. curSkin \in Request /\ Shaped(answer, curSkin)
  BY <1>1, <1>2 DEF TypeOK, OnTheWay
<1>4. PICK k \in NoLength .. MaxBody : ShapedFor(answer, curSkin, k)
  BY <1>3 DEF Shaped
<1>5. /\ Len(d) = o + g + n /\ g + n <= Len(answer)
      /\ g \in Nat /\ o \in Nat
      /\ \A i \in 1 .. g + n : d[o + i] = answer[i]
      /\ \A i \in 1 .. o : d[i] = http.data[i]
  BY PiecesAre
<1>6. answer \in Seq(Unit) /\ Len(answer) \in Nat /\ torn \in {0, 1}
  BY <1>1 DEF TypeOK
<1>7. o > 0 => Remnant(http.data, o)
  BY <1>1, <1>6 DEF OnTheWay
<1>8. s \in 1 .. Len(d) /\ Headed(d, s, l) /\ Len(d) = s + l /\ Picture(b) # << >>
  OBVIOUS
<1> HIDE DEF d, g, o
<1>9. o > 0 => Remnant(d, o)
  BY <1>5, <1>7 DEF Remnant
<1>10. \A i \in 1 .. g + n : d[o + i] = UnitAt(curSkin, k, i)
  <2>1. \A i \in 1 .. g + n : i \in 1 .. Len(answer)
    BY <1>1, <1>5, <1>6
  <2> QED BY <1>4, <1>5, <2>1 DEF ShapedFor
<1>11. s \in 0 .. Len(d) /\ Len(d) \in Nat /\ l \in Int
  BY <1>1, <1>8, MaxBodyAssumption
<1>12. /\ b \in Seq(Unit) /\ Len(b) = Len(d) - s
       /\ \A i \in 1 .. Len(d) - s : b[i] = d[s + i]
  BY <1>1, <1>11, From
<1> HIDE DEF b
<1>13. /\ Len(b) \in Nat \ {0} /\ b[1].length \in 1 .. MaxBody
       /\ Picture(b) \in Seq(Unit) /\ Len(Picture(b)) = b[1].length
       /\ \A i \in 1 .. b[1].length : Picture(b)[i] = b[1]
  BY <1>8, <1>12, PictureIs
<1>14. s > o
  <2>1. SUFFICES ASSUME s <= o PROVE FALSE
    BY <1>5, <1>11
  <2>2. s \in 1 .. o /\ o > 0 /\ o < Len(d)
    BY <1>1, <1>5, <1>8, <2>1
  <2>3. d[o + 1].part = "top"
    <3>1. 1 \in 1 .. g + n
      BY <1>1, <1>5
    <3>2. d[o + 1] = UnitAt(curSkin, k, 1)
      BY <1>10, <3>1
    <3> QED BY <3>2 DEF UnitAt, PartAt
  <2>4. Len(b) = l /\ \A i \in 1 .. l : b[i] = d[s + i]
    BY <1>8, <1>11, <1>12
  <2>5. Remnant(d, o)
    BY <1>9, <2>2
  <2> QED BY <1>1, <1>5, <1>8, <1>12, <2>2, <2>3, <2>4, <2>5, NoneFromBefore
<1>15. s = o + 3
  <2> DEFINE i == s - o
  <2>1. i \in 1 .. g + n /\ o + i = s
    BY <1>1, <1>5, <1>8, <1>14
  <2> HIDE DEF i
  <2>2. d[s] = UnitAt(curSkin, k, i)
    BY <1>10, <2>1
  <2>3. d[s].part = "end"
    BY <1>8 DEF Headed, Ends
  <2>4. PartAt(k, i) = "end"
    BY <2>2, <2>3 DEF UnitAt
  <2>5. i = 3
    BY <2>4 DEF PartAt
  <2> QED BY <2>1, <2>5
<1>16. b[1] = UnitAt(curSkin, k, 4)
  <2>1. 1 \in 1 .. Len(d) - s /\ 4 \in 1 .. g + n /\ s + 1 = o + 4
    BY <1>1, <1>5, <1>11, <1>12, <1>13, <1>15
  <2>2. b[1] = d[o + 4]
    <3>1. b[1] = d[s + 1]
      BY <1>12, <2>1
    <3> QED BY <2>1, <3>1
  <2> QED BY <1>10, <2>1, <2>2
<1>17. b[1].length = k /\ k \in 1 .. MaxBody
  BY <1>13, <1>16 DEF UnitAt
<1>18. Picture(b) = Body(curSkin, k)
  <2>1. /\ Body(curSkin, k) \in Seq(Unit) /\ Len(Body(curSkin, k)) = k
        /\ \A i \in 1 .. k : Body(curSkin, k)[i] = UnitAt(curSkin, k, 3 + i)
    BY <1>3, <1>17, BodyIs
  <2>2. ASSUME NEW i \in 1 .. k PROVE Picture(b)[i] = Body(curSkin, k)[i]
    <3>1. Picture(b)[i] = UnitAt(curSkin, k, 4)
      BY <1>13, <1>16, <1>17
    <3>2. UnitAt(curSkin, k, 3 + i) = UnitAt(curSkin, k, 4)
      BY <1>17 DEF UnitAt, PartAt
    <3> QED BY <2>1, <3>1, <3>2
  <2> QED BY <1>13, <1>17, <2>1, <2>2, SeqEqual
<1>19. b = SubSeq(Pieces(n), s + 1, Len(Pieces(n)))
  BY DEF b, d
<1> QED BY <1>2, <1>17, <1>18, <1>19

(* A picture that comes to be shown is the whole body of the answer for that *)
(* player, also when the buffer began with a part of another answer and the *)
(* length was taken from there.                                            *)
THEOREM SkinWhole == Spec => ShownIsWhole
<1>1. ASSUME StreamInv, [Next]_vars, NEW q \in Request,
             shown'[q] # shown[q], torn < 2
      PROVE  \E m \in 1 .. MaxBody : shown'[q] = Body(q, m)
  <2>1. PICK n \in 1 .. Len(wire) : Read(n)
    BY <1>1 DEF Next, Tick, Progress, vars, GetSkin, ConnectFails, Connect,
                HandleConnected, HandleDisconnect, SelectFails
  <2> DEFINE d == Pieces(n)
  <2>2. TypeOK /\ Buffer(http) /\ shown \in [Request -> Seq(Unit)]
    BY <1>1 DEF StreamInv, TypedInv, TypeOK
  <2>3. PICK readable \in BOOLEAN :
          \E out : Received(http, d, readable, out) /\ Handled(out)
    BY <2>1, <2>2, ReadIs
  <2>4. PICK out : Received(http, d, readable, out) /\ Handled(out)
    BY <2>3
  <2>5. /\ out.handler = "response" /\ Picture(out.body) # << >>
        /\ shown' = [shown EXCEPT ![Skin] = Picture(out.body)]
    BY <1>1, <2>4 DEF Handled
  <2>6. PICK s \in 1 .. Len(d), l \in -1 .. MaxBody :
          /\ Headed(d, s, l) /\ l # NoLength /\ Len(d) = s + l
          /\ out.body = SubSeq(d, s + 1, Len(d))
    BY <2>4, <2>5 DEF Received
  <2>7. /\ Skin = curSkin
        /\ \E m \in 1 .. MaxBody :
             Picture(SubSeq(d, s + 1, Len(d))) = Body(curSkin, m)
    BY <1>1, <2>1, <2>5, <2>6, WholeIs
  <2>8. q = Skin
    BY <1>1, <2>2, <2>5
  <2> QED BY <2>2, <2>5, <2>6, <2>7, <2>8
<1>2. StreamInv /\ [Next]_vars =>
        [\A q \in Request :
           shown'[q] # shown[q] /\ torn < 2 =>
             \E n \in 1 .. MaxBody : shown'[q] = Body(q, n)]_vars
  BY <1>1
<1> QED BY <1>2, SkinStream, PTL DEF Spec, ShownIsWhole

(* A full answer, from the first unit, has no other header than its own.   *)
LEMMA FullHeaded ==
  ASSUME NEW q \in Request, NEW l \in 1 .. MaxBody, NEW d \in Seq(Unit),
         Len(d) <= 3 + l, ShapedFor(d, q, l), NEW s, NEW m, Headed(d, s, m)
  PROVE  s = 3 /\ m = l /\ l \in Nat \ {0}
<1>1. l \in Nat \ {0} /\ Len(d) \in Nat /\ l # NoLength
  BY MaxBodyAssumption DEF NoLength
<1>2. s \in 1 .. Len(d) /\ d[s].part = "end"
  BY DEF Headed, Ends
<1>3. \A i \in 1 .. Len(d) : d[i].part = PartAt(l, i) /\ d[i].length = l
  <2>1. ASSUME NEW i \in 1 .. Len(d)
        PROVE  d[i].part = PartAt(l, i) /\ d[i].length = l
    <3>1. d[i] = UnitAt(q, l, i)
      BY DEF ShapedFor
    <3>2. UnitAt(q, l, i).part = PartAt(l, i) /\ UnitAt(q, l, i).length = l
      BY DEF UnitAt
    <3> QED BY <3>1, <3>2
  <2> QED BY <2>1
<1>4. s = 3
  <2>1. PartAt(l, s) = "end"
    BY <1>2, <1>3
  <2> QED BY <2>1 DEF PartAt
<1>5. m = l
  <2>1. 2 \in 1 .. s /\ 2 \in 1 .. Len(d)
    BY <1>1, <1>2, <1>4
  <2>2. d[2].part = "length"
    <3>1. d[2].part = PartAt(l, 2)
      BY <1>3, <2>1
    <3> QED BY <1>1, <3>1 DEF PartAt
  <2>3. PICK j \in 1 .. s : d[j].part = "length" /\ d[j].length = m
    BY <2>1, <2>2 DEF Headed, Says
  <2>4. j \in 1 .. Len(d)
    BY <1>1, <1>2
  <2> QED BY <1>3, <2>3, <2>4
<1> QED BY <1>1, <1>4, <1>5

(* A skin whose answer comes whole, on a socket that found the offsets      *)
(* clean, is not given up before it is shown, unless the connection fails. *)
LEMMA CompleteStep ==
  ASSUME StreamInv, TypedInv', [Next]_vars, NEW q \in Request,
         curSkin = q, curSkin' = NoSkin, torn = 0,
         NEW l \in 1 .. MaxBody, answer = Full(q, l)
  PROVE  shown'[q] # << >> \/ q \in failed'
<1>1. TypeOK /\ Buffer(http) /\ q # NoSkin /\ Skin = q
  BY NoSkinAssumption DEF StreamInv, TypedInv, Skin
<1>2. l \in Nat \ {0} /\ l \in NoLength .. MaxBody
  BY MaxBodyAssumption DEF NoLength
<1>3. /\ answer \in Seq(Unit) /\ Len(answer) = 3 + l /\ ShapedFor(answer, q, l)
  BY <1>2, FullIs
<1>4. CASE ConnectFails \/ SelectFails
  BY <1>1, <1>4 DEF ConnectFails, SelectFails
<1>5. CASE Connect \/ HandleConnected
  BY <1>1, <1>5 DEF Connect, HandleConnected
<1>6. ASSUME NEW n \in 1 .. Len(wire), Read(n)
      PROVE  shown'[q] # << >>
  <2> DEFINE d == Pieces(n)
  <2>0. n \in Nat /\ d \in Seq(Unit)
    BY <1>1, <1>6, ReadIs
  <2>1. PICK readable \in BOOLEAN : \E o :
          /\ readable \/ torn > 0
          /\ Received(http, d, readable, o)
          /\ Handled(o)
    BY <1>1, <1>6, ReadIs
  <2>18. PICK out : Received(http, d, readable, out) /\ Handled(out)
    BY <2>1
  <2>19. readable
    BY <2>1
  <2>2. /\ Len(d) = Old + Got + n /\ Got + n <= Len(answer)
        /\ Got \in Nat /\ Old \in Nat
        /\ \A i \in 1 .. Got + n : d[Old + i] = answer[i]
    BY <1>6, PiecesAre
  <2>3. Old = 0
    BY <1>6 DEF StreamInv, OnTheWay, Read
  <2>4. \/ /\ out.handler = "response"
           /\ shown' = IF Picture(out.body) # << >>
                       THEN [shown EXCEPT ![Skin] = Picture(out.body)] ELSE shown
        \/ out.handler = "error"
    BY <1>1, <2>18, TakenIs DEF Handled
  <2>5. shown \in [Request -> Seq(Unit)]
    BY <1>1 DEF TypeOK
  <2> HIDE DEF d
  <2>6. Len(d) = Got + n /\ Len(d) <= 3 + l /\ \A i \in 1 .. Len(d) : d[i] = answer[i]
    BY <1>2, <1>3, <2>0, <2>2, <2>3
  <2>7. ShapedFor(d, q, l)
    <3>1. \A i \in 1 .. Len(d) : i \in 1 .. Len(answer)
      BY <1>2, <1>3, <2>0, <2>2, <2>6
    <3> QED BY <1>3, <2>6, <3>1 DEF ShapedFor
  <2>8. ASSUME NEW s, NEW m, Headed(d, s, m)
        PROVE  s = 3 /\ m = l
    BY <2>0, <2>6, <2>7, <2>8, FullHeaded
  <2>9. out.handler # "error"
    <3>1. SUFFICES ASSUME out.handler = "error" PROVE FALSE
      OBVIOUS
    <3>2. PICK s \in 1 .. Len(d), m \in -1 .. MaxBody :
            /\ Headed(d, s, m)
            /\ m = NoLength \/ Len(d) > s + m
      BY <2>18, <2>19, <3>1 DEF Received
    <3>3. s = 3 /\ m = l
      BY <2>8, <3>2
    <3> QED BY <1>2, <2>6, <3>2, <3>3 DEF NoLength
  <2>10. out.handler = "response"
    BY <2>4, <2>9
  <2>11. PICK s \in 1 .. Len(d), m \in -1 .. MaxBody :
           /\ Headed(d, s, m) /\ Len(d) = s + m
           /\ out.body = SubSeq(d, s + 1, Len(d))
    BY <2>10, <2>18 DEF Received
  <2>12. s = 3 /\ m = l /\ Len(d) = 3 + l
    BY <2>8, <2>11
  <2>13. 3 \in 0 .. Len(d)
    BY <1>2, <2>12
  <2>14. /\ out.body \in Seq(Unit) /\ Len(out.body) = l
         /\ \A i \in 1 .. l : out.body[i] = d[3 + i]
    <3>1. /\ SubSeq(d, 3 + 1, Len(d)) \in Seq(Unit)
          /\ Len(SubSeq(d, 3 + 1, Len(d))) = Len(d) - 3
          /\ \A i \in 1 .. Len(d) - 3 : SubSeq(d, 3 + 1, Len(d))[i] = d[3 + i]
      BY <2>0, <2>13, From
    <3>2. Len(d) - 3 = l
      BY <1>2, <2>12
    <3> QED BY <2>11, <2>12, <3>1, <3>2
  <2>15. out.body # << >>
    BY <1>2, <2>14, EmptySeq
  <2>16. Picture(out.body) # << >>
    <3> DEFINE body == out.body
               u == UnitAt(q, l, 4)
    <3>1. ASSUME NEW i \in 1 .. l PROVE body[i] = u
      <4>1. 3 + i \in 1 .. Len(d)
        BY <1>2, <2>12
      <4>2. body[i] = UnitAt(q, l, 3 + i)
        BY <2>7, <2>14, <4>1 DEF ShapedFor
      <4>3. UnitAt(q, l, 3 + i) = u
        BY <1>2 DEF UnitAt, PartAt
      <4> QED BY <4>2, <4>3
    <3>2. body[1] = u /\ u.part = "body" /\ u.length = l
      <4>1. 1 \in 1 .. l
        BY <1>2
      <4>2. body[1] = u
        BY <3>1, <4>1
      <4> QED BY <4>2 DEF UnitAt, PartAt
    <3>3. body \in Seq(Unit) /\ Len(body) = l /\ body # << >>
      BY <2>14, <2>15
    <3> HIDE DEF body, u
    <3>4. Picture(body) = SubSeq(body, 1, l)
      BY <1>2, <3>1, <3>2, <3>3 DEF Picture
    <3>5. l \in 0 .. Len(body)
      BY <1>2, <3>3
    <3>6. SubSeq(body, 1, l) \in Seq(Unit) /\ Len(SubSeq(body, 1, l)) = l
      BY <3>3, <3>5, UpTo
    <3>7. Picture(body) # << >>
      BY <1>2, <3>4, <3>6, EmptySeq
    <3> QED BY <3>7 DEF body
  <2>17. shown' = [shown EXCEPT ![q] = Picture(out.body)]
    BY <1>1, <2>4, <2>10, <2>16
  <2> QED BY <1>1, <2>5, <2>16, <2>17
<1>7. CASE HandleDisconnect
  <2>1. http.open /\ ~ http.connecting /\ wire = << >>
    BY <1>7 DEF HandleDisconnect
  <2>2. OnTheWay /\ http.data \in Seq(Unit) /\ http.length \in -1 .. MaxBody
    BY <1>1, <2>1 DEF StreamInv, TypeOK
  <2>3. Len(wire) = 0 /\ Len(http.data) \in Nat
    BY <2>1, <2>2
  <2>4. Got = 3 + l /\ Old = 0 /\ Len(http.data) = 3 + l
    <3>1. Got = 3 + l
      BY <1>2, <1>3, <2>3 DEF Got
    <3>2. Old = 0
      BY <2>2 DEF OnTheWay
    <3>3. Old = Len(http.data) - Got
      BY DEF Old
    <3> QED BY <1>2, <2>3, <3>1, <3>2, <3>3
  <2>5. \A i \in 1 .. 3 + l : http.data[i] = answer[i]
    BY <2>2, <2>4 DEF OnTheWay
  <2>6. ShapedFor(http.data, q, l)
    BY <1>3, <2>4, <2>5 DEF ShapedFor
  <2>7. http.length # NoLength
    <3>1. 3 \in 1 .. Len(http.data)
      BY <1>2, <2>4
    <3>2. http.data[3] = UnitAt(q, l, 3)
      BY <2>6, <3>1 DEF ShapedFor
    <3>3. http.data[3].part = "end"
      BY <3>2 DEF UnitAt, PartAt
    <3> QED BY <1>1, <3>1, <3>3 DEF Buffer
  <2>8. /\ Headed(http.data, http.start, http.length)
        /\ Len(http.data) # http.start + http.length
    BY <1>1, <2>7 DEF Buffer
  <2>9. http.start = 3 /\ http.length = l
    <3>1. Len(http.data) <= 3 + l
      BY <1>2, <2>4
    <3> QED BY <2>2, <2>6, <2>8, <3>1, FullHeaded
  <2> QED BY <2>4, <2>8, <2>9
<1>8. ASSUME NEW p \in Request, GetSkin(p) PROVE FALSE
  BY <1>1, <1>8 DEF GetSkin
<1>9. CASE UNCHANGED vars
  BY <1>1, <1>9 DEF vars
<1> QED BY <1>4, <1>5, <1>6, <1>7, <1>8, <1>9 DEF Next, Tick, Progress

(* The same of every step of every behaviour.                              *)
THEOREM SkinComplete == Spec => CompleteIsShown
<1>1. ASSUME StreamInv, StreamInv', [Next]_vars
      PROVE  [\A q \in Request :
                /\ curSkin = q /\ curSkin' = NoSkin
                /\ torn = 0
                /\ \E n \in 1 .. MaxBody : answer = Full(q, n)
                => shown'[q] # << >> \/ q \in failed']_vars
  BY <1>1, CompleteStep DEF StreamInv
<1> QED BY <1>1, SkinStream, PTL DEF Spec, CompleteIsShown
===============================================================================
