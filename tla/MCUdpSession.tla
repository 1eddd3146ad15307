----------------------------- MODULE MCUdpSession -----------------------------
(* Small instances of UdpSession for TLC.                                  *)
EXTENDS UdpSession, TLC

(* Client addresses and payloads are interchangeable.                      *)
Symmetry == Permutations(Key) \cup Permutations(Data)
===============================================================================
