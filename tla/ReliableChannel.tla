---------------------------- MODULE ReliableChannel ----------------------------
(***************************************************************************)
(* What `RealiblePacket' promises in one direction, for every client       *)
(* address: the receiver is handed the packets that were sent, each once,  *)
(* in the order they were sent, and starts again from the first when its   *)
(* end is replaced by a new object.  Nothing is promised about when.       *)
(***************************************************************************)
EXTENDS Naturals, Sequences

CONSTANTS Key, Data

VARIABLES sent, got   \* [Key -> Seq(Data)]

chan == <<sent, got>>

Init == /\ sent = [k \in Key |-> << >>]
        /\ got = [k \in Key |-> << >>]

Send(k) == /\ \E d \in Data : sent' = [sent EXCEPT ![k] = Append(@, d)]
           /\ UNCHANGED got

(* One call may hand over several packets: a buffered run.                 *)
Deliver(k) ==
  /\ \E n \in Len(got[k]) + 1 .. Len(sent[k]) :
       got' = [got EXCEPT ![k] = SubSeq(sent[k], 1, n)]
  /\ UNCHANGED sent

Reopen(k) == /\ got' = [got EXCEPT ![k] = << >>]
             /\ UNCHANGED sent

Next == \E k \in Key : Send(k) \/ Deliver(k) \/ Reopen(k)

Spec == Init /\ [][Next]_chan
===============================================================================
