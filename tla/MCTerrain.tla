------------------------------ MODULE MCTerrain ------------------------------
(* FiniteTerrain in small: chunks of 2 x 2 x 2 blocks.  The first level ends  *)
(* in the middle of a chunk, with one, and before the first border; the other *)
(* two have as many blocks as the workspace, on x and on z.                   *)
EXTENDS FiniteTerrain

MCBuild == <<2, 2, 2>>
MCSizes == {<<5, 3, 1>>, <<4, 1, 1>>, <<3, 1, 4>>}

(* Blocks at every border of a chunk, and what lies outside the level. *)
MCEdited == {<<x, y, 0>> : x \in {-1, 1, 2, 5}, y \in {0, 2}}
              \cup {<<5, 9, -1>>, <<-7, -1, -1>>, <<1, 0, 2>>}

MCVisited == {<<0, 0, 1>>, <<2, 1, 0>>, <<-1, 3, 4>>}
=============================================================================
