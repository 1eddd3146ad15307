------------------------- MODULE FiniteTerrainProofs -------------------------
(***************************************************************************)
(* Proofs about FiniteTerrain, for every size of the level and of its      *)
(* chunks, and every change and movement.  That is also the size at which  *)
(* the copy of a chunk leaves the workspace: there no mesh is built from   *)
(* it, since the program ends.                                             *)
(*                                                                         *)
(* The first part is arithmetic along one axis: the division used by       *)
(* markVolumeDirty rounds down on both sides of zero (ChunkOfFloor), so    *)
(* the chunks it marks are all those that depend on the block              *)
(* (MarkedCovers), and a copy that fits the workspace is the chunk and the *)
(* blocks next to it (CopyRight).  The second part is the invariant.       *)
(***************************************************************************)
EXTENDS FiniteTerrain, TLAPS

(* A quotient of naturals rounds down. *)
LEMMA DivFloor ==
  ASSUME NEW m \in Nat, NEW d \in Nat \ {0}
  PROVE  /\ m \div d \in Nat
         /\ (m \div d) * d <= m
         /\ m < (m \div d) * d + d
BY SMT

(* Products with the same factor compare as what they multiply. *)
LEMMA MulOrder ==
  ASSUME NEW x \in Int, NEW y \in Int, NEW d \in Nat \ {0},
         x * d < y * d + d
  PROVE  x <= y
<1> SUFFICES ASSUME x >= y + 1
             PROVE  FALSE
  OBVIOUS
<1> DEFINE k == x - y - 1
<1>1. k \in Nat /\ x = y + 1 + k
  OBVIOUS
<1>2. k * d \in Nat
  BY <1>1
<1> HIDE DEF k
<1>3. x * d = y * d + d + k * d
  BY <1>1
<1>4. x * d \in Int /\ y * d \in Int
  OBVIOUS
<1>5. QED
  BY <1>2, <1>3, <1>4

LEMMA BuildType ==
  ASSUME NEW a \in Axis
  PROVE  Build[a] \in Nat \ {0}
BY SizeAssumption

LEMMA AxisType ==
  ASSUME size \in Sizes, NEW a \in Axis
  PROVE  Build[a] \in Nat \ {0} /\ size[a] \in Nat \ {0}
BY SizeAssumption

(* The chunks cover the level, and the last one begins in it. *)
LEMMA ChunksCover ==
  ASSUME size \in Sizes, NEW a \in Axis
  PROVE  /\ NumChunks(a) \in Nat \ {0}
         /\ (NumChunks(a) - 1) * Build[a] < size[a]
<1> DEFINE B == Build[a]
           S == size[a]
           n == S \div B
<1>1. B \in Nat \ {0} /\ S \in Nat \ {0}
  BY AxisType
<1>2. n \in Nat /\ n * B <= S /\ S < n * B + B
  BY <1>1, DivFloor
<1>3. NumChunks(a) = IF n * B < S THEN n + 1 ELSE n
  BY DEF NumChunks
<1> HIDE DEF n, B, S
<1>4. CASE n * B < S
  <2>1. NumChunks(a) = n + 1
    BY <1>3, <1>4
  <2>2. NumChunks(a) - 1 = n
    BY <1>2, <2>1
  <2>3. QED
    BY <1>2, <1>4, <2>1, <2>2 DEF B, S
<1>5. CASE ~(n * B < S)
  <2>1. NumChunks(a) = n
    BY <1>3, <1>5
  <2>2. n # 0
    BY <1>1, <1>5
  <2>3. (n - 1) * B = n * B - B
    BY <1>1, <1>2
  <2>4. n * B \in Nat
    BY <1>1, <1>2
  <2>5. (n - 1) * B < S
    BY <1>1, <1>2, <2>3, <2>4
  <2>6. QED
    BY <1>2, <2>1, <2>2, <2>5 DEF B, S
<1>6. QED
  BY <1>4, <1>5

-----------------------------------------------------------------------------
(* markVolumeDirty *)

(* The division with its correction below zero rounds down. *)
LEMMA ChunkOfFloor ==
  ASSUME NEW a \in Axis, NEW n \in Int
  PROVE  /\ ChunkOf(a, n) \in Int
         /\ ChunkOf(a, n) * Build[a] <= n
         /\ n < ChunkOf(a, n) * Build[a] + Build[a]
<1> DEFINE B == Build[a]
<1>1. B \in Nat \ {0}
  BY BuildType
<1>2. CASE n >= 0
  <2>1. ChunkOf(a, n) = n \div B
    BY <1>2 DEF ChunkOf, Quotient
  <2>2. QED
    BY <1>1, <1>2, <2>1, DivFloor
<1>3. CASE n < 0
  <2> DEFINE m == -(n - B + 1)
             q == m \div B
  <2>1. m \in Nat /\ n - B + 1 < 0 /\ m = B - 1 - n
    BY <1>1, <1>3
  <2>2. ChunkOf(a, n) = -q
    BY <1>3, <2>1 DEF ChunkOf, Quotient
  <2>3. q \in Nat /\ q * B <= m /\ m < q * B + B
    BY <1>1, <2>1, DivFloor
  <2> HIDE DEF q, m, B
  <2>4. (-q) * B = -(q * B) /\ q * B \in Nat
    BY <1>1, <2>3
  <2>5. -q \in Int /\ (-q) * B <= n /\ n < (-q) * B + B
    BY <1>1, <1>3, <2>1, <2>3, <2>4
  <2>6. QED
    BY <2>2, <2>5 DEF B
<1>4. QED
  BY <1>2, <1>3

LEMMA MarkedAlong ==
  ASSUME size \in Sizes, NEW a \in Axis, NEW n \in Int, NEW c \in 0 .. NumChunks(a) - 1,
         n \in Around(a, c)
  PROVE  Start(a, n) <= c /\ c < Stop(a, n)
<1> DEFINE B == Build[a]
           low == ChunkOf(a, n - 1)
           high == ChunkOf(a, (n - 1) + (1 + 2))
<1>1. B \in Nat \ {0} /\ NumChunks(a) \in Nat \ {0}
  BY AxisType, ChunksCover
<1>2. c * B \in Int /\ c * B - 1 <= n /\ n <= c * B + B
  BY <1>1 DEF Around
<1>3. low \in Int /\ low * B <= n - 1
  BY ChunkOfFloor
<1>4. high \in Int /\ n + 2 < high * B + B
  <2>1. (n - 1) + (1 + 2) = n + 2
    OBVIOUS
  <2>2. QED
    BY <2>1, ChunkOfFloor
<1> HIDE DEF low, high, B
<1>5. low <= c
  <2>1. low * B \in Int /\ low * B < c * B + B
    BY <1>1, <1>2, <1>3
  <2>2. QED
    BY <1>1, <1>3, <2>1, MulOrder
<1>6. c <= high
  <2>1. high * B \in Int /\ c * B < high * B + B
    BY <1>1, <1>2, <1>4
  <2>2. QED
    BY <1>1, <1>4, <2>1, MulOrder
<1>7. Start(a, n) = IF low < 0 THEN 0 ELSE low
  BY DEF Start, low
<1>8. Stop(a, n) = IF high + 1 < 0 \/ high + 1 > NumChunks(a)
                   THEN NumChunks(a) ELSE high + 1
  BY DEF Stop, high
<1>9. QED
  BY <1>1, <1>3, <1>4, <1>5, <1>6, <1>7, <1>8

LEMMA ChunkType ==
  ASSUME NEW c \in Chunk, NEW a \in Axis
  PROVE  c[a] \in 0 .. NumChunks(a) - 1
BY DEF Chunk, Axis

(* Every chunk that depends on a block is marked when the block is set. *)
LEMMA MarkedCovers ==
  ASSUME size \in Sizes, NEW b \in [Axis -> Int], NEW c \in Chunk, DependsOn(c, b)
  PROVE  c \in Marked(b)
<1>1. ASSUME NEW a \in Axis
      PROVE  Start(a, b[a]) <= c[a] /\ c[a] < Stop(a, b[a])
  <2>1. b[a] \in Int /\ b[a] \in Around(a, c[a])
    BY DEF DependsOn
  <2>2. QED
    BY <2>1, ChunkType, MarkedAlong
<1>2. QED
  BY <1>1 DEF Marked

-----------------------------------------------------------------------------
(* extractWorkspace *)

(* Where the copy of a chunk begins. *)
LEMMA LowBound ==
  ASSUME size \in Sizes, NEW a \in Axis, NEW pos \in 0 .. NumChunks(a) - 1
  PROVE  /\ pos * Build[a] - 1 \in Int
         /\ pos * Build[a] - 1 = -1 \/ pos * Build[a] - 1 >= 0
         /\ pos * Build[a] < size[a]
<1> DEFINE B == Build[a]
           n == NumChunks(a)
<1>1. B \in Nat \ {0} /\ size[a] \in Nat \ {0} /\ n \in Nat \ {0} /\ pos \in Nat
  BY AxisType, ChunksCover
<1>2. (n - 1) * B < size[a]
  BY ChunksCover
<1> HIDE DEF B, n
<1>3. pos * B \in Nat
  BY <1>1
<1>4. pos * B <= (n - 1) * B
  <2> DEFINE k == (n - 1) - pos
  <2>1. k \in Nat /\ n - 1 = pos + k
    BY <1>1 DEF n
  <2> HIDE DEF k
  <2>2. (pos + k) * B = pos * B + k * B /\ k * B \in Nat
    BY <1>1, <2>1
  <2>3. QED
    BY <1>3, <2>1, <2>2
<1>5. (n - 1) * B \in Int
  BY <1>1
<1>6. pos * B < size[a]
  BY <1>1, <1>2, <1>3, <1>4, <1>5
<1>7. QED
  BY <1>3, <1>6 DEF B

(* The copies, given where they begin: only additions from here on. *)
LEMMA CopyRight ==
  ASSUME size \in Sizes, NEW a \in Axis, NEW pos \in 0 .. NumChunks(a) - 1
  PROVE  /\ CopySlice(a, pos) = Wanted(a, pos)
         /\ (\A pair \in CopyLoop(a, pos) : pair[2] < Build[a] + 2)
               => CopyLoop(a, pos) = Wanted(a, pos)
<1> DEFINE L == pos * Build[a] - 1
           B == Build[a]
           S == size[a]
<1>1. B \in Nat \ {0} /\ S \in Nat \ {0} /\ L \in Int
  BY AxisType, LowBound
<1>2. (L = -1 \/ L >= 0) /\ L + 1 < S
  BY <1>1, LowBound
<1>3. Wanted(a, pos) = {<<b, b - L>> : b \in (L .. L + 1 + B) \cap 0 .. S - 1}
  <2>1. pos * B + B = L + 1 + B
    BY <1>1, AxisType
  <2>2. QED
    BY <2>1 DEF Wanted, Around
<1> DEFINE start == IF L < 0 THEN 1 ELSE 0
           off == L + start
           end == IF off + (B + 2) >= S THEN S - (off - start) ELSE B + 2
           len == IF off + (B + 2 - start) >= S THEN S - off ELSE B + 2 - start
           W == {<<b, b - L>> : b \in (L .. L + 1 + B) \cap 0 .. S - 1}
<1>4. CopyLoop(a, pos) = {<<off + (i - start), i>> : i \in start .. end - 1}
  BY DEF CopyLoop
<1>5. CopySlice(a, pos) = {<<off + i, start + i>> : i \in 0 .. len - 1}
  BY DEF CopySlice
<1> HIDE DEF L, B, S
<1>6. {<<off + i, start + i>> : i \in 0 .. len - 1} = W
  <2>1. ASSUME NEW i \in 0 .. len - 1
        PROVE  /\ off + i \in (L .. L + 1 + B) \cap 0 .. S - 1
               /\ start + i = (off + i) - L
    BY <1>1, <1>2
  <2>2. ASSUME NEW b \in (L .. L + 1 + B) \cap 0 .. S - 1
        PROVE  \E i \in 0 .. len - 1 : b = off + i /\ b - L = start + i
    <3>1. b - off \in 0 .. len - 1 /\ b = off + (b - off)
      BY <1>1, <1>2
    <3>2. b - L = start + (b - off)
      BY <1>1, <1>2
    <3>3. QED
      BY <3>1, <3>2
  <2>3. QED
    <3> HIDE DEF off, start, len
    <3>1. QED
      BY <2>1, <2>2
<1>7. ASSUME S # B + 2 \/ L # -1
      PROVE  {<<off + (i - start), i>> : i \in start .. end - 1} = W
  <2>1. ASSUME NEW i \in start .. end - 1
        PROVE  /\ off + (i - start) \in (L .. L + 1 + B) \cap 0 .. S - 1
               /\ i = (off + (i - start)) - L
    BY <1>1, <1>2, <1>7
  <2>2. ASSUME NEW b \in (L .. L + 1 + B) \cap 0 .. S - 1
        PROVE  \E i \in start .. end - 1 : b = off + (i - start) /\ b - L = i
    <3>1. b - L \in start .. end - 1 /\ b = off + ((b - L) - start)
      BY <1>1, <1>2, <1>7
    <3>2. QED
      BY <3>1
  <2>3. QED
    <3> HIDE DEF off, start, end
    <3>1. QED
      BY <2>1, <2>2
<1>8. ASSUME S = B + 2, L = -1
      PROVE  \E i \in start .. end - 1 :
               ~(<<off + (i - start), i>>[2] < B + 2)
  <2>1. B + 2 \in start .. end - 1
    BY <1>1, <1>8
  <2>2. ~(<<off + ((B + 2) - start), B + 2>>[2] < B + 2)
    BY <1>1
  <2>3. QED
    BY <2>1, <2>2
<1>9. ASSUME \A pair \in CopyLoop(a, pos) : pair[2] < B + 2
      PROVE  S # B + 2 \/ L # -1
  <2> HIDE DEF start, off, end
  <2>1. QED
    BY <1>4, <1>8, <1>9
<1>10. QED
  <2> HIDE DEF start, off, end, len
  <2>1. QED
    BY <1>3, <1>4, <1>5, <1>6, <1>7, <1>9 DEF B

(* A chunk whose copy fits is built from the right blocks. *)
LEMMA FitIsRight ==
  ASSUME size \in Sizes, NEW c \in Chunk, Fits(c)
  PROVE  CopyIsRight(c)
<1>1. /\ CopyLoop(1, c[1]) = Wanted(1, c[1])
      /\ CopyLoop(3, c[3]) = Wanted(3, c[3])
  BY ChunkType, CopyRight DEF Axis, Fits
<1>2. CopySlice(2, c[2]) = Wanted(2, c[2])
  BY ChunkType, CopyRight DEF Axis
<1>3. QED
  BY <1>1, <1>2 DEF CopyIsRight

-----------------------------------------------------------------------------
(* buildOne *)

LEMMA NumType ==
  ASSUME size \in Sizes, NEW a \in Axis
  PROVE  NumChunks(a) \in Nat \ {0} /\ Num(a) \in Nat \ {0}
BY ChunksCover DEF Num

(* From the center to both sides reaches every chunk along an axis. *)
LEMMA OffsetReaches ==
  ASSUME size \in Sizes, NEW a \in Axis, NEW from \in 0 .. NumChunks(a) - 1,
         NEW to \in 0 .. NumChunks(a) - 1
  PROVE  \E i \in 0 .. Num(a) - 1 : Offset(i) + from = to
<1> DEFINE d == to - from
           n == NumChunks(a)
<1>1. n \in Nat \ {0} /\ Num(a) = (n - 1) * 2 + 1
  BY NumType DEF Num
<1>2. d \in Int /\ d < n /\ -d < n /\ from \in Int /\ d + from = to
  BY <1>1
<1> HIDE DEF n, d
<1>3. CASE d > 0
  <2>1. 2 * d - 1 \in 0 .. Num(a) - 1
    BY <1>1, <1>2, <1>3
  <2>2. Offset(2 * d - 1) = d
    BY <1>2, <1>3 DEF Offset
  <2>3. QED
    BY <1>2, <2>1, <2>2
<1>4. CASE d <= 0
  <2>1. (-2) * d \in 0 .. Num(a) - 1
    BY <1>1, <1>2, <1>4
  <2>2. Offset((-2) * d) = d
    BY <1>2, <1>4 DEF Offset
  <2>3. QED
    BY <1>2, <2>1, <2>2
<1>5. QED
  BY <1>2, <1>3, <1>4

LEMMA EveryChunkHasAPlace ==
  ASSUME size \in Sizes, center \in Chunk, NEW c \in Chunk
  PROVE  \E p \in Place : At(p) = c
<1>1. /\ center[1] \in 0 .. NumChunks(1) - 1 /\ c[1] \in 0 .. NumChunks(1) - 1
      /\ center[2] \in 0 .. NumChunks(2) - 1 /\ c[2] \in 0 .. NumChunks(2) - 1
      /\ center[3] \in 0 .. NumChunks(3) - 1 /\ c[3] \in 0 .. NumChunks(3) - 1
      /\ c = <<c[1], c[2], c[3]>>
  BY DEF Chunk
<1>2. PICK i \in 0 .. Num(1) - 1 : Offset(i) + center[1] = c[1]
  BY <1>1, OffsetReaches DEF Axis
<1>3. PICK j \in 0 .. Num(2) - 1 : Offset(j) + center[2] = c[2]
  BY <1>1, OffsetReaches DEF Axis
<1>4. PICK k \in 0 .. Num(3) - 1 : Offset(k) + center[3] = c[3]
  BY <1>1, OffsetReaches DEF Axis
<1>5. <<i, j, k>> \in Place
  BY DEF Place
<1>6. At(<<i, j, k>>) = c
  BY <1>1, <1>2, <1>3, <1>4 DEF At
<1>7. QED
  BY <1>5, <1>6

LEMMA ClampType ==
  ASSUME size \in Sizes, NEW a \in Axis, NEW n \in Int
  PROVE  Clamp(a, n) \in 0 .. NumChunks(a) - 1
<1>1. NumChunks(a) \in Nat \ {0}
  BY NumType
<1>2. QED
  BY <1>1 DEF Clamp

(* Nothing comes before the first place, and the places are in line. *)
LEMMA PlaceType ==
  ASSUME size \in Sizes, NEW p \in Place
  PROVE  /\ p[1] \in 0 .. Num(1) - 1
         /\ p[2] \in 0 .. Num(2) - 1
         /\ p[3] \in 0 .. Num(3) - 1
         /\ p = <<p[1], p[2], p[3]>>
         /\ p[1] \in Nat /\ p[2] \in Nat /\ p[3] \in Nat
         /\ ~Before(p, <<0, 0, 0>>)
<1>1. /\ p[1] \in 0 .. Num(1) - 1
      /\ p[2] \in 0 .. Num(2) - 1
      /\ p[3] \in 0 .. Num(3) - 1
      /\ p = <<p[1], p[2], p[3]>>
  BY DEF Place
<1>2. p[1] \in Nat /\ p[2] \in Nat /\ p[3] \in Nat
  BY <1>1, NumType DEF Axis
<1>3. ~Before(p, <<0, 0, 0>>)
  BY <1>2 DEF Before
<1>4. QED
  BY <1>1, <1>2, <1>3

(* What comes before the place after p is p, or comes before p. *)
LEMMA BeforeNext ==
  ASSUME size \in Sizes, NEW p \in Place, NEW q \in Place,
         Before(q, <<p[1], p[2] + 1, p[3]>>)
  PROVE  q = p \/ (Before(q, p) /\ ~Before(p, q))
BY PlaceType DEF Before

-----------------------------------------------------------------------------
(* The invariant. *)

Inv == TypeOK /\ StaleIsDirty /\ PassedIsBuilt

(* Where the building starts, and the chunk it starts in. *)
LEMMA FirstPlace ==
  ASSUME size \in Sizes
  PROVE  /\ <<0, 0, 0>> \in (0 .. Num(1)) \X (0 .. Num(2)) \X (0 .. Num(3))
         /\ <<0, 0, 0>> \in Chunk
BY NumType DEF Axis, Chunk

(* The size stays, and with it all that is counted from it. *)
LEMMA SameLevel ==
  ASSUME size' = size
  PROVE  /\ Chunk' = Chunk /\ Place' = Place
         /\ Num(1)' = Num(1) /\ Num(2)' = Num(2) /\ Num(3)' = Num(3)
BY DEF Chunk, Place, Num, NumChunks

LEMMA InitInv ==
  Init => Inv
<1> SUFFICES ASSUME Init
             PROVE  Inv
  OBVIOUS
<1> size \in Sizes
  BY DEF Init
<1>1. TypeOK
  <2>1. ended \in BOOLEAN
    BY DEF Init
  <2>2. QED
    BY <2>1, FirstPlace, MaxEditsAssumption DEF Init, TypeOK
<1>2. StaleIsDirty
  BY DEF Init, StaleIsDirty
<1>3. PassedIsBuilt
  BY PlaceType DEF Init, PassedIsBuilt
<1>4. QED
  BY <1>1, <1>2, <1>3 DEF Inv

LEMMA SetBlockInv ==
  ASSUME Inv, NEW b \in Edited, SetBlock(b)
  PROVE  Inv'
<1> size \in Sizes /\ size' = size
  BY DEF Inv, TypeOK, SetBlock
<1>1. TypeOK'
  <2>1. edits' \in 0 .. MaxEdits
    BY MaxEditsAssumption DEF Inv, TypeOK, SetBlock
  <2>2. Marked(b) \subseteq Chunk
    BY DEF Marked
  <2>3. QED
    BY <2>1, <2>2, FirstPlace, SameLevel DEF Inv, TypeOK, SetBlock
<1>2. StaleIsDirty'
  <2>1. ASSUME NEW c \in gfx, DependsOn(c, b)
        PROVE  c \in Marked(b)
    <3>1. c \in Chunk /\ b \in [Axis -> Int]
      BY EditedAssumption DEF Inv, TypeOK
    <3>2. QED
      BY <2>1, <3>1, MarkedCovers
  <2>2. QED
    BY <2>1 DEF Inv, StaleIsDirty, SetBlock
<1>3. PassedIsBuilt'
  BY PlaceType, SameLevel DEF SetBlock, PassedIsBuilt, Before
<1>4. QED
  BY <1>1, <1>2, <1>3 DEF Inv

LEMMA SetCenterInv ==
  ASSUME Inv, NEW new \in Visited, SetCenter(new)
  PROVE  Inv'
<1> size \in Sizes /\ size' = size
  BY DEF Inv, TypeOK, SetCenter
<1>1. center' \in Chunk
  <2>1. new[1] \in Int /\ new[2] \in Int /\ new[3] \in Int
    BY VisitedAssumption DEF Axis
  <2>2. /\ Clamp(1, new[1]) \in 0 .. NumChunks(1) - 1
        /\ Clamp(2, new[2]) \in 0 .. NumChunks(2) - 1
        /\ Clamp(3, new[3]) \in 0 .. NumChunks(3) - 1
    BY <2>1, ClampType DEF Axis
  <2>3. QED
    BY <2>2, SameLevel DEF SetCenter, Chunk
<1>2. TypeOK'
  BY <1>1, FirstPlace, SameLevel DEF Inv, TypeOK, SetCenter
<1>3. StaleIsDirty'
  BY DEF Inv, StaleIsDirty, SetCenter
<1>4. PassedIsBuilt'
  BY PlaceType, SameLevel DEF SetCenter, PassedIsBuilt, Before
<1>5. QED
  BY <1>2, <1>3, <1>4 DEF Inv

LEMMA BuildOneInv ==
  ASSUME Inv, BuildOne
  PROVE  Inv'
<1> size \in Sizes /\ size' = size
  BY DEF Inv, TypeOK, BuildOne
<1>1. PICK p \in ToBuild :
        /\ \A q \in ToBuild : q = p \/ Before(p, q)
        /\ Fits(At(p))
        /\ BuildChunk(At(p))
        /\ saved' = <<p[1], p[2] + 1, p[3]>>
        /\ center' = center /\ edits' = edits
  BY DEF BuildOne, FirstToBuild
<1>2. p \in Place /\ At(p) \in Chunk /\ CopyIsRight(At(p))
  BY <1>1, FitIsRight DEF ToBuild
<1>3. /\ gfx' = gfx \cup {At(p)}
      /\ dirty' = dirty \ {At(p)}
      /\ stale' = stale \ {At(p)}
  BY <1>1, <1>2 DEF BuildChunk
<1>4. TypeOK'
  <2>1. saved' \in (0 .. Num(1)) \X (0 .. Num(2)) \X (0 .. Num(3))
    <3>1. /\ p[1] \in 0 .. Num(1) /\ p[2] + 1 \in 0 .. Num(2)
          /\ p[3] \in 0 .. Num(3)
      BY <1>2, PlaceType, NumType DEF Axis
    <3>2. QED
      BY <1>1, <3>1
  <2>2. QED
    BY <1>1, <1>2, <1>3, <2>1, SameLevel DEF Inv, TypeOK, BuildOne
<1>5. StaleIsDirty'
  BY <1>3 DEF Inv, StaleIsDirty
<1>6. \A q : At(q)' = At(q)
  BY <1>1 DEF At
<1>7. ASSUME NEW q \in Place, Before(q, saved'), At(q) \in Chunk
      PROVE  ~ShouldBuild(At(q))'
  <2>1. ~ShouldBuild(At(q)) => ~ShouldBuild(At(q))'
    BY <1>3, <1>6 DEF ShouldBuild
  <2>2. CASE Before(q, saved)
    BY <1>7, <2>1, <2>2 DEF Inv, PassedIsBuilt
  <2>3. CASE q = p
    BY <1>3, <1>6, <2>3 DEF ShouldBuild
  <2>4. CASE ~Before(q, saved) /\ q # p
    <3>1. ~Before(p, q)
      BY <1>1, <1>2, <1>7, <2>4, BeforeNext
    <3>2. q \notin ToBuild
      BY <1>1, <2>4, <3>1
    <3>3. QED
      BY <1>7, <2>1, <2>4, <3>2 DEF ToBuild
  <2>5. QED
    BY <2>2, <2>3, <2>4
<1>8. PassedIsBuilt'
  <2>1. PassedIsBuilt' <=>
          \A q \in Place : Before(q, saved') /\ At(q)' \in Chunk
                             => ~ShouldBuild(At(q))'
    BY SameLevel DEF PassedIsBuilt, Before
  <2>2. QED
    BY <1>6, <1>7, <2>1
<1>9. QED
  BY <1>4, <1>5, <1>8 DEF Inv

LEMMA BuildNoneInv ==
  ASSUME Inv, BuildNone
  PROVE  Inv'
<1> size \in Sizes /\ size' = size
  BY DEF Inv, TypeOK, BuildNone
<1>1. /\ gfx' = gfx /\ dirty' = dirty /\ stale' = stale /\ center' = center
      /\ edits' = edits /\ saved' = <<Num(1), 0, 0>> /\ ToBuild = {}
  BY DEF BuildNone
<1>2. TypeOK'
  <2>1. saved' \in (0 .. Num(1)) \X (0 .. Num(2)) \X (0 .. Num(3))
    BY <1>1, NumType DEF Axis
  <2>2. QED
    BY <1>1, <2>1, SameLevel DEF Inv, TypeOK, BuildNone
<1>3. StaleIsDirty'
  BY <1>1 DEF Inv, StaleIsDirty
<1>4. ASSUME NEW q \in Place, At(q) \in Chunk
      PROVE  ~ShouldBuild(At(q))
  BY <1>1, <1>4 DEF Inv, PassedIsBuilt, ToBuild
<1>5. PassedIsBuilt'
  BY <1>1, <1>4, SameLevel DEF PassedIsBuilt, At, ShouldBuild
<1>6. QED
  BY <1>2, <1>3, <1>5 DEF Inv

(* A step that leaves the meshes, the place and the size alone. *)
LEMMA KeepInv ==
  ASSUME Inv, ended' \in BOOLEAN,
         UNCHANGED <<size, gfx, dirty, stale, center, saved, edits>>
  PROVE  Inv'
BY SameLevel
  DEF Inv, TypeOK, StaleIsDirty, PassedIsBuilt, Before, At, ShouldBuild

LEMMA BuildOverInv ==
  ASSUME Inv, BuildOver
  PROVE  Inv'
BY KeepInv DEF BuildOver

LEMMA StutterInv ==
  ASSUME Inv, UNCHANGED vars
  PROVE  Inv'
BY KeepInv DEF vars, Inv, TypeOK

LEMMA StepInv ==
  Inv /\ [Next]_vars => Inv'
BY SetBlockInv, SetCenterInv, BuildOneInv, BuildOverInv,
   BuildNoneInv, StutterInv DEF Next

THEOREM Invariance ==
  Spec => []Inv
BY InitInv, StepInv, PTL DEF Spec

(* Every reachable state is well typed, for every size of level and chunk. *)
THEOREM TerrainTypeCorrect ==
  Spec => []TypeOK
<1>1. Inv => TypeOK
  BY DEF Inv
<1>2. QED
  BY <1>1, Invariance, PTL

(* No mesh shows a block that has changed without being marked. *)
THEOREM TerrainStaleIsDirty ==
  Spec => []StaleIsDirty
<1>1. Inv => StaleIsDirty
  BY DEF Inv
<1>2. QED
  BY <1>1, Invariance, PTL

(* What buildOne has gone past needs no building. *)
THEOREM TerrainPassedIsBuilt ==
  Spec => []PassedIsBuilt
<1>1. Inv => PassedIsBuilt
  BY DEF Inv
<1>2. QED
  BY <1>1, Invariance, PTL

(* When buildOne finds nothing to do, the whole level is shown as it is. *)
THEOREM TerrainFinishedIsShown ==
  Spec => []FinishedIsShown
<1>1. Inv => FinishedIsShown
  <2> SUFFICES ASSUME Inv, saved[1] = Num(1)
               PROVE  gfx = Chunk /\ stale = {}
    BY DEF FinishedIsShown
  <2> size \in Sizes
    BY DEF Inv, TypeOK
  <2>1. \A p \in Place : Before(p, saved)
    BY PlaceType, NumType DEF Before, Axis
  <2>2. \A c \in Chunk : ~ShouldBuild(c)
    BY <2>1, EveryChunkHasAPlace DEF Inv, TypeOK, PassedIsBuilt
  <2>3. gfx = Chunk /\ dirty = {}
    BY <2>2 DEF Inv, TypeOK, ShouldBuild
  <2>4. QED
    BY <2>3 DEF Inv, StaleIsDirty
<1>2. QED
  BY <1>1, Invariance, PTL
=============================================================================
