---------------------------- MODULE FiniteTerrain ----------------------------
(***************************************************************************)
(* The meshes of a classic level (miners/terrain/finite.d): the level is   *)
(* cut into chunks, a mesh is built for each from a copy of its blocks and *)
(* of the blocks around it, and a change of a block marks the meshes that  *)
(* must be built again.  buildOne() builds one mesh per call, going out    *)
(* from the chunk the player is in; where it got to is saved.              *)
(*                                                                         *)
(* What the blocks are is left out.  A mesh is stale when a block it was   *)
(* built from has changed since.  A chunk, a block and a size are          *)
(* <<x, y, z>>.  The size is what the server says, and never changes; the  *)
(* copy of a chunk fits the workspace at every size but one on x and z,    *)
(* and there the program ends.                                             *)
(***************************************************************************)
EXTENDS Integers, FiniteSets

CONSTANTS
  Build,     \* <<BuildWidth, BuildHeight, BuildDepth>>
  Sizes,     \* the sizes a level may have
  Edited,    \* where blocks are set, in the level and outside
  Visited,   \* the chunks the player is in, in the level and outside
  MaxEdits   \* bound on the changes of blocks

Axis == 1..3

ASSUME SizeAssumption ==
  /\ Build \in [Axis -> Nat \ {0}]
  /\ Sizes \subseteq [Axis -> Nat \ {0}]
ASSUME EditedAssumption == Edited \subseteq [Axis -> Int]
ASSUME VisitedAssumption == Visited \subseteq [Axis -> Int]
ASSUME MaxEditsAssumption == MaxEdits \in Nat

VARIABLES
  size,    \* <<xSize, ySize, zSize>>
  ended,   \* a copy has left the workspace: ArrayBoundsError, up to main
  gfx,     \* the chunks with a mesh
  dirty,   \* the chunks whose mesh is to be built again
  stale,   \* the chunks whose mesh shows blocks that are no more
  center,  \* <<xCenter, yCenter, zCenter>>
  saved,   \* <<xSaved, ySaved, zSaved>>
  edits    \* the number of changes so far

vars == <<size, ended, gfx, dirty, stale, center, saved, edits>>

NumChunks(a) ==
  LET n == size[a] \div Build[a]
  IN  IF n * Build[a] < size[a] THEN n + 1 ELSE n

InLevel(b) == \A a \in Axis : 0 <= b[a] /\ b[a] < size[a]

Chunk ==
  (0 .. NumChunks(1) - 1) \X (0 .. NumChunks(2) - 1) \X (0 .. NumChunks(3) - 1)

(* Slip: a mesh is never built again. *)
ShouldBuildOnce(c) == c \notin gfx

ShouldBuild(c) == c \in dirty \/ c \notin gfx

Init ==
  /\ size \in Sizes /\ ended = FALSE
  /\ gfx = {} /\ dirty = {} /\ stale = {}
  /\ center = <<0, 0, 0>> /\ saved = <<0, 0, 0>>
  /\ edits = 0

-----------------------------------------------------------------------------
(* extractWorkspace: the blocks the mesh of a chunk is built from, along one
   axis at a time, as pairs of a place in the level and a place in the
   workspace.  x and z are two loops, y is a slice. *)

CopyLoop(a, pos) ==
  LET low   == pos * Build[a] - 1
      start == IF low < 0 THEN 1 ELSE 0
      off   == low + start
      full  == Build[a] + 2
      end   == IF off + full >= size[a] THEN size[a] - (off - start) ELSE full
  IN  {<<off + (i - start), i>> : i \in start .. end - 1}

CopySlice(a, pos) ==
  LET low   == pos * Build[a] - 1
      first == IF low < 0 THEN 1 ELSE 0
      off   == low + first
      full  == Build[a] + 2 - first
      len   == IF off + full >= size[a] THEN size[a] - off ELSE full
  IN  {<<off + i, first + i>> : i \in 0 .. len - 1}

(* The blocks the mesh of a chunk depends on: its own and those next to
   them, each at its place in the workspace. *)
Around(a, pos) == pos * Build[a] - 1 .. pos * Build[a] + Build[a]

Wanted(a, pos) ==
  {<<b, b - (pos * Build[a] - 1)>> : b \in Around(a, pos) \cap 0 .. size[a] - 1}

DependsOn(c, b) == InLevel(b) /\ \A a \in Axis : b[a] \in Around(a, c[a])

CopyIsRight(c) ==
  /\ CopyLoop(1, c[1]) = Wanted(1, c[1])
  /\ CopySlice(2, c[2]) = Wanted(2, c[2])
  /\ CopyLoop(3, c[3]) = Wanted(3, c[3])

(* The columns of the workspace are Build + 2 of them; where a level has as
   many blocks, the loop for its first chunk goes one further. *)
Fits(c) ==
  \A a \in {1, 3} : \A pair \in CopyLoop(a, c[a]) : pair[2] < Build[a] + 2

-----------------------------------------------------------------------------
(* markVolumeDirty for one block.  The stop is compared without a sign. *)

(* Division of integers in D goes towards zero. *)
Quotient(m, d) == IF m < 0 THEN -((-m) \div d) ELSE m \div d

ChunkOf(a, n) ==
  Quotient(IF n < 0 THEN n - Build[a] + 1 ELSE n, Build[a])

(* Slip: only the chunk that was changed is marked, not its neighbours. *)
StartOwn(a, n) ==
  LET s == ChunkOf(a, n) IN IF s < 0 THEN 0 ELSE s

Start(a, n) ==
  LET s == ChunkOf(a, n - 1) IN IF s < 0 THEN 0 ELSE s

Stop(a, n) ==
  LET s == ChunkOf(a, (n - 1) + (1 + 2)) + 1
  IN  IF s < 0 \/ s > NumChunks(a) THEN NumChunks(a) ELSE s

Marked(b) ==
  {c \in Chunk : \A a \in Axis : Start(a, b[a]) <= c[a] /\ c[a] < Stop(a, b[a])}

(* ClassicRunner.setBlock, doPlaceBlock and doRemoveBlock: the block, then
   markVolumeDirty, then resetBuild.  A block outside the level is not set. *)
SetBlock(b) ==
  /\ ~ended
  /\ edits < MaxEdits
  /\ edits' = edits + 1
  /\ stale' = stale \cup {c \in gfx : DependsOn(c, b)}
  /\ dirty' = dirty \cup Marked(b)
  /\ saved' = <<0, 0, 0>>
  /\ UNCHANGED <<size, ended, gfx, center>>

-----------------------------------------------------------------------------
(* Slip: no limit on the far side. *)
ClampLow(a, n) == IF n > 0 THEN n ELSE 0

Clamp(a, n) ==
  LET last == NumChunks(a) - 1
      low  == IF n < last THEN n ELSE last
  IN  IF low > 0 THEN low ELSE 0

(* Slip: the building goes on around the new center. *)
SetCenterGoingOn(new) ==
  LET to == <<Clamp(1, new[1]), Clamp(2, new[2]), Clamp(3, new[3])>>
  IN  /\ ~ended
      /\ center # to
      /\ center' = to
      /\ UNCHANGED <<size, ended, gfx, dirty, stale, saved, edits>>

(* centerMap, from the logic of the runner; setCenter. *)
SetCenter(new) ==
  LET to == <<Clamp(1, new[1]), Clamp(2, new[2]), Clamp(3, new[3])>>
  IN  /\ ~ended
      /\ center # to
      /\ center' = to
      /\ saved' = <<0, 0, 0>>
      /\ UNCHANGED <<size, ended, gfx, dirty, stale, edits>>

-----------------------------------------------------------------------------
(* buildOne: from the center to both sides, x before z before y. *)

(* Slip: the far side is one short. *)
NumShort(a) == (NumChunks(a) - 1) * 2

Num(a) == (NumChunks(a) - 1) * 2 + 1

Offset(i) == IF (i + 1) % 2 = 1 THEN -((i + 1) \div 2) ELSE (i + 1) \div 2

Place == (0 .. Num(1) - 1) \X (0 .. Num(2) - 1) \X (0 .. Num(3) - 1)

At(p) ==
  <<Offset(p[1]) + center[1], Offset(p[2]) + center[2], Offset(p[3]) + center[3]>>

Before(p, q) ==
  \/ p[1] < q[1]
  \/ p[1] = q[1] /\ p[3] < q[3]
  \/ p[1] = q[1] /\ p[3] = q[3] /\ p[2] < q[2]

ToBuild ==
  {p \in Place : ~Before(p, saved) /\ At(p) \in Chunk /\ ShouldBuild(At(p))}

(* build *)
BuildChunk(c) ==
  /\ gfx' = gfx \cup {c}
  /\ dirty' = dirty \ {c}
  /\ stale' = IF CopyIsRight(c) THEN stale \ {c} ELSE stale \cup {c}

FirstToBuild ==
  LET rest == ToBuild
  IN  {p \in rest : \A q \in rest : q = p \/ Before(p, q)}

(* It returns true and is called again, *)
BuildOne ==
  /\ ~ended
  /\ \E p \in FirstToBuild :
       /\ Fits(At(p))
       /\ BuildChunk(At(p))
       /\ saved' = <<p[1], p[2] + 1, p[3]>>
  /\ UNCHANGED <<size, ended, center, edits>>

(* or the copy is checked against the bounds of the workspace and found
   wrong, which nothing catches before main, *)
BuildOver ==
  /\ ~ended
  /\ \E p \in FirstToBuild : ~Fits(At(p))
  /\ ended' = TRUE
  /\ UNCHANGED <<size, gfx, dirty, stale, center, saved, edits>>

(* or there was nothing left. *)
BuildNone ==
  /\ ~ended
  /\ ToBuild = {}
  /\ saved' = <<Num(1), 0, 0>>
  /\ UNCHANGED <<size, ended, gfx, dirty, stale, center, edits>>

Next ==
  \/ \E b \in Edited : SetBlock(b)
  \/ \E new \in Visited : SetCenter(new)
  \/ BuildOne
  \/ BuildOver
  \/ BuildNone

Spec == Init /\ [][Next]_vars

(* RouterApp.idle calls the builders at least once in every frame, whatever
   the time. *)
FairSpec == Spec /\ WF_vars(BuildOne)

-----------------------------------------------------------------------------
(* Types. *)
TypeOK ==
  /\ size \in Sizes
  /\ ended \in BOOLEAN
  /\ gfx \subseteq Chunk /\ dirty \subseteq Chunk
  /\ stale \subseteq gfx
  /\ center \in Chunk
  /\ saved \in (0 .. Num(1)) \X (0 .. Num(2)) \X (0 .. Num(3))
  /\ edits \in 0 .. MaxEdits

(* The border that extractWorkspace copies and the neighbours that
   markVolumeDirty marks are the same: no mesh shows a block that has
   changed without being marked for building, on any side of zero and at
   every edge of the level. *)
StaleIsDirty == stale \subseteq dirty

(* What buildOne has gone past needs no building, however the player moves
   and whatever is changed behind it. *)
PassedIsBuilt ==
  \A p \in Place : Before(p, saved) /\ At(p) \in Chunk => ~ShouldBuild(At(p))

(* When buildOne finds nothing to do, every chunk has a mesh of the blocks
   as they are. *)
FinishedIsShown == saved[1] = Num(1) => gfx = Chunk /\ stale = {}

(* Once nothing is changed any more everything is shown, wherever the player
   goes, in a level of any size that does not end the program. *)
ShownAtLast ==
  (\A c \in Chunk : Fits(c)) => <>[](gfx = Chunk /\ stale = {})
=============================================================================
