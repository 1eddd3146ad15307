------------------------------- MODULE MCGameApp -------------------------------
(* Small instances of GameApp for TLC.                                     *)
EXTENDS GameApp
===============================================================================
