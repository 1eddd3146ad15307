------------------------------ MODULE Connection ------------------------------
(***************************************************************************)
(* One reliable-UDP Connection object (charge/net/connection.d) as a       *)
(* record, and each method of the class as an operator from the object     *)
(* before to the object after.  Datagrams a method passes to sendTo are    *)
(* separate operators, so that a client or a server can put them on its    *)
(* network.                                                                *)
(*                                                                         *)
(* Abstractions.  Time is not a number: `heard' says that a datagram was   *)
(* processed since the last tick (lastReceived = now), and the other       *)
(* deadlines are choices of the caller of Ticked.  outOfOrderPackets is    *)
(* a Vector searched from the front, so only the first packet of an        *)
(* orderId can ever be taken from it: it is a set that ignores later       *)
(* packets of an id it holds.  `sent' and `got' are histories: the         *)
(* reliable payloads given to send() and those given to the listener.      *)
(***************************************************************************)
EXTENDS Naturals, Sequences

CONSTANTS Data,    \* reliable payloads
          NoData   \* the payload of every other packet

ASSUME NoDataAssumption == NoData \notin Data

PacketType == {"Ack", "Unrealible", "Realible", "Connect", "Ping", "Disconnect"}

Realibles == [type : {"Realible"}, orderId : Nat, data : Data]

Controls == [type : PacketType \ {"Realible"}, orderId : Nat, data : {NoData}]

Packet == Realibles \cup Controls

Control(type, id) == [type |-> type, orderId |-> id, data |-> NoData]

RealiblePacket(id, d) == [type |-> "Realible", orderId |-> id, data |-> d]

ConnectPacket == Control("Connect", 0)

(* The members of the state enum, in the order `state <= Connected' uses.  *)
State == {"Connecting", "Connected", "Closeing", "TimedOut", "Disconnected",
          "Closed"}

Connection ==
  [ state : State,
    realibleNumOut : Nat, unrealibleNumOut : Nat,
    realibleNumIn : Nat, unrealibleNumIn : Nat,
    unAckedPackets : SUBSET Packet,
    outOfOrderPackets : SUBSET Realibles,
    heard : BOOLEAN,
    sent : Seq(Data), got : Seq(Data) ]

(* No object: not constructed yet.                                         *)
NoConnection ==
  [ state |-> "Closed",
    realibleNumOut |-> 0, unrealibleNumOut |-> 0,
    realibleNumIn |-> 0, unrealibleNumIn |-> 0,
    unAckedPackets |-> {}, outOfOrderPackets |-> {},
    heard |-> FALSE, sent |-> << >>, got |-> << >> ]

(* The constructor, which sends ConnectPacket as reliable packet 0.        *)
NewConnection ==
  [NoConnection EXCEPT !.state = "Connecting",
                       !.realibleNumOut = 1,
                       !.unAckedPackets = {ConnectPacket}]

CanSend(c) == c.state \in {"Connecting", "Connected"}

-------------------------------------------------------------------------------
(* What the owner of a connection does to it.                              *)

Send(c, d) ==
  IF CanSend(c)
    THEN [c EXCEPT !.realibleNumOut = @ + 1,
                   !.unAckedPackets =
                      @ \cup {RealiblePacket(c.realibleNumOut, d)},
                   !.sent = Append(@, d)]
    ELSE c

SendOut(c, d) ==
  IF CanSend(c) THEN {RealiblePacket(c.realibleNumOut, d)} ELSE {}

SendUnrealible(c) ==
  IF CanSend(c) THEN [c EXCEPT !.unrealibleNumOut = @ + 1] ELSE c

SendUnrealibleOut(c) ==
  IF CanSend(c) THEN {Control("Unrealible", c.unrealibleNumOut)} ELSE {}

(* Slip: close() for a connection that has not opened yet only.            *)
CloseConnectingOnly(c) ==
  IF c.state = "Connecting" THEN [c EXCEPT !.state = "Closeing"] ELSE c

Close(c) == IF CanSend(c) THEN [c EXCEPT !.state = "Closeing"] ELSE c

CloseOut(c) == IF CanSend(c) THEN {Control("Disconnect", 0)} ELSE {}

(* finalizeClose; what the dead object still holds is dropped with it.     *)
FinalizeClose(c) ==
  [c EXCEPT !.state = "Closed", !.unAckedPackets = {},
            !.outOfOrderPackets = {}, !.heard = FALSE]

(* Slip: only an open connection times out.                                *)
MayTickOpenOnly(c, due, quiet, dead) ==
  /\ due \subseteq c.unAckedPackets
  /\ quiet => c.unAckedPackets = {}
  /\ dead => ~ c.heard /\ c.state = "Connected"

(* tick: `due' are the unacked packets whose timer has run out, `quiet'    *)
(* says that nothing was sent for two timeouts and `dead' that nothing was *)
(* received for ten.                                                       *)
MayTick(c, due, quiet, dead) ==
  /\ due \subseteq c.unAckedPackets
  /\ quiet => c.unAckedPackets = {}   \* an unacked packet would be due
  /\ dead => ~ c.heard

TickOut(c, due, quiet) ==
  due \cup (IF quiet /\ c.state = "Connected" THEN {Control("Ping", 0)} ELSE {})

Ticked(c, dead) ==
  [c EXCEPT !.heard = FALSE, !.state = IF dead THEN "TimedOut" ELSE @]

-------------------------------------------------------------------------------
(* processData, one operator per branch.                                   *)

(* Slip: an Ack taken for a cumulative one.                                *)
ProcessAckCumulative(c, m) ==
  [c EXCEPT !.unAckedPackets = {p \in @ : p.orderId > m.orderId}]

ProcessAck(c, m) ==
  [c EXCEPT !.unAckedPackets = {p \in @ : p.orderId # m.orderId}]

ProcessUnrealible(c, m) ==
  IF m.orderId < c.unrealibleNumIn
    THEN c
    ELSE [c EXCEPT !.unrealibleNumIn = m.orderId]

Ids(packets) == {p.orderId : p \in packets}

Later(c, m) ==
  IF m.orderId \in Ids(c.outOfOrderPackets)
    THEN c
    ELSE [c EXCEPT !.outOfOrderPackets = @ \cup {m}]

(* Slip: a packet ahead of its turn is handed over at once.                *)
ProcessRealibleAnyLater(c, m) ==
  IF m.orderId >= c.realibleNumIn
    THEN [c EXCEPT !.realibleNumIn = m.orderId + 1, !.got = Append(@, m.data)]
    ELSE c

(* Slip: a packet sent again is handed over again.                         *)
ProcessRealibleAgain(c, m) ==
  CASE m.orderId = c.realibleNumIn ->
         [c EXCEPT !.realibleNumIn = @ + 1, !.got = Append(@, m.data)]
    [] m.orderId > c.realibleNumIn -> Later(c, m)
    [] OTHER -> [c EXCEPT !.got = Append(@, m.data)]

ProcessRealible(c, m) ==
  CASE m.orderId = c.realibleNumIn ->
         [c EXCEPT !.realibleNumIn = @ + 1, !.got = Append(@, m.data)]
    [] m.orderId > c.realibleNumIn -> Later(c, m)
    [] OTHER -> c

DataOf(packets, id) == (CHOOSE p \in packets : p.orderId = id).data

(* checkFuturePackets hands over the unbroken run of packets that starts   *)
(* at 1 and leaves realibleNumIn at n, the first id it does not hold.      *)
RunEndsAt(c, n) ==
  /\ \A i \in 1 .. n-1 : i \in Ids(c.outOfOrderPackets)
  /\ n \notin Ids(c.outOfOrderPackets)

Opens(c, m) == m.type = "Connect" /\ c.realibleNumIn = 0

(* Slip: no break after the switch, so that the listener is also handed    *)
(* the Connect packet.                                                     *)
ProcessConnectAsPacket(c, m, n) ==
  IF Opens(c, m)
    THEN [c EXCEPT !.state = "Connected", !.realibleNumIn = n,
                   !.got = Append(@, m.data)]
    ELSE c

(* Slip: the last buffered packet is handed over but not counted.          *)
ProcessConnectUncounted(c, m, n) ==
  IF Opens(c, m)
    THEN [c EXCEPT !.state = "Connected",
                   !.realibleNumIn = IF n > 1 THEN n - 1 ELSE n,
                   !.outOfOrderPackets = {p \in @ : p.orderId >= n},
                   !.got = @ \o [i \in 1 .. n-1 |->
                                   DataOf(c.outOfOrderPackets, i)]]
    ELSE c

ProcessConnect(c, m, n) ==
  IF Opens(c, m)
    THEN [c EXCEPT !.state = "Connected",
                   !.realibleNumIn = n,
                   !.outOfOrderPackets = {p \in @ : p.orderId >= n},
                   !.got = @ \o [i \in 1 .. n-1 |->
                                   DataOf(c.outOfOrderPackets, i)]]
    ELSE c

(* processData; n is where checkFuturePackets ends if the packet opens the *)
(* connection.                                                             *)
ProcessData(c, m, n) ==
  LET h == [c EXCEPT !.heard = TRUE]
  IN  CASE m.type = "Ack"        -> ProcessAck(h, m)
        [] m.type = "Unrealible" -> ProcessUnrealible(h, m)
        [] m.type = "Realible"   -> ProcessRealible(h, m)
        [] m.type = "Connect"    -> ProcessConnect(h, m, n)
        [] m.type = "Disconnect" -> [h EXCEPT !.state = "Disconnected"]
        [] OTHER                 -> h   \* Ping

(* The acknowledgement processData sends, if any.                          *)
ProcessDataOut(m) ==
  CASE m.type = "Realible" -> {Control("Ack", m.orderId)}
    [] m.type = "Connect"  -> {Control("Ack", 0)}
    [] OTHER               -> {}
===============================================================================
