--------------------------- MODULE UdpSessionProofs ---------------------------
(***************************************************************************)
(* Proofs about UdpSession, for every set of clients and payloads and for  *)
(* every bound.                                                            *)
(***************************************************************************)
EXTENDS UdpSession, SequenceTheorems, TLAPS

-------------------------------------------------------------------------------
(* Assigning one field of a connection object keeps its type.              *)

LEMMA PutState ==
  ASSUME NEW c \in Connection, NEW x \in State
  PROVE  [c EXCEPT !.state = x] \in Connection
  BY DEF Connection

LEMMA PutHeard ==
  ASSUME NEW c \in Connection, NEW x \in BOOLEAN
  PROVE  [c EXCEPT !.heard = x] \in Connection
  BY DEF Connection

LEMMA PutNumbers ==
  ASSUME NEW c \in Connection, NEW x \in Nat
  PROVE  /\ [c EXCEPT !.realibleNumOut = x] \in Connection
         /\ [c EXCEPT !.unrealibleNumOut = x] \in Connection
         /\ [c EXCEPT !.realibleNumIn = x] \in Connection
         /\ [c EXCEPT !.unrealibleNumIn = x] \in Connection
<1>1. [c EXCEPT !.realibleNumOut = x] \in Connection   BY DEF Connection
<1>2. [c EXCEPT !.unrealibleNumOut = x] \in Connection BY DEF Connection
<1>3. [c EXCEPT !.realibleNumIn = x] \in Connection    BY DEF Connection
<1>4. [c EXCEPT !.unrealibleNumIn = x] \in Connection  BY DEF Connection
<1> QED BY <1>1, <1>2, <1>3, <1>4

LEMMA PutPackets ==
  ASSUME NEW c \in Connection, NEW x \in SUBSET Packet
  PROVE  [c EXCEPT !.unAckedPackets = x] \in Connection
  BY DEF Connection

LEMMA PutFuture ==
  ASSUME NEW c \in Connection, NEW x \in SUBSET Realibles
  PROVE  [c EXCEPT !.outOfOrderPackets = x] \in Connection
  BY DEF Connection

LEMMA PutHistories ==
  ASSUME NEW c \in Connection, NEW x \in Seq(Data)
  PROVE  /\ [c EXCEPT !.sent = x] \in Connection
         /\ [c EXCEPT !.got = x] \in Connection
<1>1. [c EXCEPT !.sent = x] \in Connection BY DEF Connection
<1>2. [c EXCEPT !.got = x] \in Connection  BY DEF Connection
<1> QED BY <1>1, <1>2

-------------------------------------------------------------------------------
(* The methods of a connection object return a connection object.          *)

LEMMA NoConnectionType == NoConnection \in Connection
  BY DEF NoConnection, Connection, State

LEMMA NewConnectionType == NewConnection \in Connection
<1> DEFINE a == [NoConnection EXCEPT !.state = "Connecting"]
           b == [a EXCEPT !.realibleNumOut = 1]
<1>1. a \in Connection
  BY NoConnectionType, PutState DEF State
<1>2. b \in Connection
  <2> HIDE DEF a
  <2> QED BY <1>1, PutNumbers
<1>3. {ConnectPacket} \in SUBSET Packet
  BY DEF ConnectPacket, Control, Controls, Packet, PacketType
<1>4. [b EXCEPT !.unAckedPackets = {ConnectPacket}] \in Connection
  <2> HIDE DEF b
  <2> QED BY <1>2, <1>3, PutPackets
<1>5. NewConnection = [b EXCEPT !.unAckedPackets = {ConnectPacket}]
  BY DEF NewConnection
<1> QED BY <1>4, <1>5

(* What send() of a reliable packet returns.                               *)
LEMMA SendType ==
  ASSUME NEW c \in Connection, NEW d \in Data
  PROVE  Send(c, d) \in Connection
<1> DEFINE n == c.realibleNumOut + 1
           u == c.unAckedPackets \cup {RealiblePacket(c.realibleNumOut, d)}
           s == Append(c.sent, d)
           e == [c EXCEPT !.realibleNumOut = n]
           f == [e EXCEPT !.unAckedPackets = u]
<1>1. n \in Nat /\ u \in SUBSET Packet /\ c.sent \in Seq(Data)
  BY DEF Connection, RealiblePacket, Realibles, Packet
<1>2. s \in Seq(Data)
  BY <1>1
<1> HIDE DEF n, u, s
<1>3. e \in Connection
  BY <1>1, PutNumbers
<1>4. f \in Connection
  <2> HIDE DEF e
  <2> QED BY <1>1, <1>3, PutPackets
<1>5. [f EXCEPT !.sent = s] \in Connection
  <2> HIDE DEF f
  <2> QED BY <1>2, <1>4, PutHistories
<1>6. [c EXCEPT !.realibleNumOut = n, !.unAckedPackets = u, !.sent = s]
        = [f EXCEPT !.sent = s]
  OBVIOUS
<1>7. CanSend(c) =>
        Send(c, d) = [c EXCEPT !.realibleNumOut = n, !.unAckedPackets = u,
                               !.sent = s]
  BY DEF Send, n, u, s
<1> QED BY <1>5, <1>6, <1>7 DEF Send

LEMMA CloseType ==
  ASSUME NEW c \in Connection
  PROVE  Close(c) \in Connection
  BY PutState DEF Close, State

LEMMA FinalizeCloseType ==
  ASSUME NEW c \in Connection
  PROVE  FinalizeClose(c) \in Connection
<1> DEFINE e == [c EXCEPT !.state = "Closed"]
           f == [e EXCEPT !.unAckedPackets = {}]
           g == [f EXCEPT !.outOfOrderPackets = {}]
<1>1. e \in Connection
  BY PutState DEF State
<1>2. f \in Connection
  <2> HIDE DEF e
  <2> QED BY <1>1, PutPackets
<1>3. g \in Connection
  <2> HIDE DEF f
  <2> QED BY <1>2, PutFuture
<1>4. [g EXCEPT !.heard = FALSE] \in Connection
  <2> HIDE DEF g
  <2> QED BY <1>3, PutHeard
<1> QED BY <1>4 DEF FinalizeClose

LEMMA TickedType ==
  ASSUME NEW c \in Connection, NEW dead \in BOOLEAN
  PROVE  Ticked(c, dead) \in Connection
<1> DEFINE e == [c EXCEPT !.heard = FALSE]
           s == IF dead THEN "TimedOut" ELSE c.state
<1>1. e \in Connection
  BY PutHeard
<1>2. s \in State
  BY DEF Connection, State
<1>3. [e EXCEPT !.state = s] \in Connection
  <2> HIDE DEF e, s
  <2> QED BY <1>1, <1>2, PutState
<1> QED BY <1>3 DEF Ticked

(* processData, branch by branch.                                          *)
LEMMA ProcessAckType ==
  ASSUME NEW c \in Connection, NEW m \in Packet
  PROVE  ProcessAck(c, m) \in Connection
<1>1. {p \in c.unAckedPackets : p.orderId # m.orderId} \in SUBSET Packet
  BY DEF Connection
<1> QED BY <1>1, PutPackets DEF ProcessAck

LEMMA ProcessUnrealibleType ==
  ASSUME NEW c \in Connection, NEW m \in Packet
  PROVE  ProcessUnrealible(c, m) \in Connection
<1>1. m.orderId \in Nat
  BY DEF Packet, Realibles, Controls
<1> QED BY <1>1, PutNumbers DEF ProcessUnrealible

LEMMA LaterType ==
  ASSUME NEW c \in Connection, NEW m \in Realibles
  PROVE  Later(c, m) \in Connection
<1>1. c.outOfOrderPackets \cup {m} \in SUBSET Realibles
  BY DEF Connection
<1> QED BY <1>1, PutFuture DEF Later

LEMMA ProcessRealibleType ==
  ASSUME NEW c \in Connection, NEW m \in Realibles
  PROVE  ProcessRealible(c, m) \in Connection
<1> DEFINE n == c.realibleNumIn + 1
           e == [c EXCEPT !.realibleNumIn = n]
           s == Append(c.got, m.data)
<1>1. c.realibleNumIn \in Nat /\ c.got \in Seq(Data) /\ m.orderId \in Nat
      /\ m.data \in Data /\ n \in Nat
  BY DEF Connection, Realibles
<1>2. e \in Connection
  <2> HIDE DEF n
  <2> QED BY <1>1, PutNumbers
<1>3. s \in Seq(Data)
  BY <1>1
<1>4. [e EXCEPT !.got = s] \in Connection
  <2> HIDE DEF e, s
  <2> QED BY <1>2, <1>3, PutHistories
<1>5. CASE m.orderId = c.realibleNumIn
  BY <1>1, <1>4, <1>5 DEF ProcessRealible
<1>6. CASE m.orderId > c.realibleNumIn
  BY <1>1, <1>6, LaterType DEF ProcessRealible
<1>7. CASE m.orderId < c.realibleNumIn
  BY <1>1, <1>7 DEF ProcessRealible
<1> QED BY <1>1, <1>5, <1>6, <1>7

(* The run checkFuturePackets hands over is a sequence of payloads.        *)
LEMMA RunType ==
  ASSUME NEW c \in Connection, NEW n \in Nat \ {0}, RunEndsAt(c, n)
  PROVE  [i \in 1 .. n-1 |-> DataOf(c.outOfOrderPackets, i)] \in Seq(Data)
<1>1. ASSUME NEW i \in 1 .. n-1
      PROVE  DataOf(c.outOfOrderPackets, i) \in Data
  <2>1. PICK p \in c.outOfOrderPackets : p.orderId = i
    BY DEF RunEndsAt, Ids
  <2>2. (CHOOSE q \in c.outOfOrderPackets : q.orderId = i)
          \in c.outOfOrderPackets
    BY <2>1
  <2> QED BY <2>2 DEF DataOf, Connection, Realibles
<1>2. [i \in 1 .. n-1 |-> DataOf(c.outOfOrderPackets, i)] \in [1 .. n-1 -> Data]
  BY <1>1
<1>3. n - 1 \in Nat
  OBVIOUS
<1> QED BY <1>2, <1>3, SeqDef

LEMMA ProcessConnectType ==
  ASSUME NEW c \in Connection, NEW m \in Packet, NEW n \in Nat \ {0},
         Opens(c, m) => RunEndsAt(c, n)
  PROVE  ProcessConnect(c, m, n) \in Connection
<1> SUFFICES ASSUME Opens(c, m) PROVE ProcessConnect(c, m, n) \in Connection
  BY DEF ProcessConnect
<1> DEFINE run == [i \in 1 .. n-1 |-> DataOf(c.outOfOrderPackets, i)]
           rest == {p \in c.outOfOrderPackets : p.orderId >= n}
           s == c.got \o run
           e == [c EXCEPT !.state = "Connected"]
           f == [e EXCEPT !.realibleNumIn = n]
           g == [f EXCEPT !.outOfOrderPackets = rest]
<1>1. e \in Connection
  BY PutState DEF State
<1>2. f \in Connection
  <2> HIDE DEF e
  <2> QED BY <1>1, PutNumbers
<1>3. rest \in SUBSET Realibles
  BY DEF Connection
<1>4. g \in Connection
  <2> HIDE DEF f, rest
  <2> QED BY <1>2, <1>3, PutFuture
<1>5. run \in Seq(Data) /\ c.got \in Seq(Data)
  BY RunType DEF Connection
<1>6. s \in Seq(Data)
  <2> HIDE DEF run
  <2> QED BY <1>5, ConcatProperties
<1>7. [g EXCEPT !.got = s] \in Connection
  <2> HIDE DEF g, s
  <2> QED BY <1>4, <1>6, PutHistories
<1>8. ProcessConnect(c, m, n) = [g EXCEPT !.got = s]
  BY DEF ProcessConnect
<1> QED BY <1>7, <1>8

LEMMA ProcessDataType ==
  ASSUME NEW c \in Connection, NEW m \in Packet, NEW n \in Nat \ {0},
         Opens(c, m) => RunEndsAt(c, n)
  PROVE  ProcessData(c, m, n) \in Connection
<1> DEFINE h == [c EXCEPT !.heard = TRUE]
<1>1. h \in Connection
  BY PutHeard
<1>2. Opens(h, m) => RunEndsAt(h, n)
  BY DEF Opens, RunEndsAt, Connection
<1>3. m.type \in PacketType /\ (m.type = "Realible" => m \in Realibles)
  BY DEF Packet, Realibles, Controls, PacketType
<1>4. [h EXCEPT !.state = "Disconnected"] \in Connection
  <2> HIDE DEF h
  <2> QED BY <1>1, PutState DEF State
<1>5. ProcessData(c, m, n) =
        CASE m.type = "Ack"        -> ProcessAck(h, m)
          [] m.type = "Unrealible" -> ProcessUnrealible(h, m)
          [] m.type = "Realible"   -> ProcessRealible(h, m)
          [] m.type = "Connect"    -> ProcessConnect(h, m, n)
          [] m.type = "Disconnect" -> [h EXCEPT !.state = "Disconnected"]
          [] OTHER                 -> h
  BY DEF ProcessData
<1> HIDE DEF h
<1> QED BY <1>1, <1>2, <1>3, <1>4, <1>5, ProcessAckType, ProcessUnrealibleType,
           ProcessRealibleType, ProcessConnectType

LEMMA SendUnrealibleType ==
  ASSUME NEW c \in Connection
  PROVE  SendUnrealible(c) \in Connection
<1> DEFINE n == c.unrealibleNumOut + 1
<1>1. n \in Nat
  BY DEF Connection
<1>2. [c EXCEPT !.unrealibleNumOut = n] \in Connection
  <2> HIDE DEF n
  <2> QED BY <1>1, PutNumbers
<1> QED BY <1>2 DEF SendUnrealible

-------------------------------------------------------------------------------
(* Type correctness.                                                       *)

LEMMA InitType == Init => TypeOK
  BY NoConnectionType DEF Init, TypeOK

(* A step of a client that changes its object and sends datagrams.         *)
LEMMA ClientStepType ==
  ASSUME TypeOK, NEW k \in Key, NEW c \in Connection, NEW out \in SUBSET Packet,
         ClientStep(k, c, out)
  PROVE  cl' \in [Key -> Connection] /\ toServer' \in [Key -> SUBSET Packet]
  BY DEF TypeOK, ClientStep

LEMMA ClientNextType ==
  ASSUME TypeOK, NEW k \in Key, ClientNext(k)
  PROVE  TypeOK'
<1>1. cl[k] \in Connection
  BY DEF TypeOK
<1>2. CASE ClientConnect(k)
  <2>1. {ConnectPacket} \in SUBSET Packet
    BY DEF ConnectPacket, Control, Packet, Controls, PacketType
  <2> QED BY <1>2, <2>1, NewConnectionType, ClientStepType
          DEF ClientConnect, ServerSide, TypeOK
<1>3. CASE ClientSend(k)
  <2>1. PICK d \in Data : ClientStep(k, Send(cl[k], d), SendOut(cl[k], d))
    BY <1>3 DEF ClientSend
  <2>2. SendOut(cl[k], d) \in SUBSET Packet
    BY <1>1 DEF SendOut, RealiblePacket, Connection, Packet, Realibles
  <2> QED BY <1>1, <1>3, <2>1, <2>2, SendType, ClientStepType
          DEF ClientSend, ServerSide, TypeOK
<1>4. CASE ClientSendUnrealible(k)
  <2>1. SendUnrealibleOut(cl[k]) \in SUBSET Packet
    BY <1>1 DEF SendUnrealibleOut, Control, Connection, Packet, Controls,
                PacketType
  <2> QED BY <1>1, <1>4, <2>1, SendUnrealibleType, ClientStepType
          DEF ClientSendUnrealible, ServerSide, TypeOK
<1>5. CASE ClientClose(k)
  <2>1. CloseOut(cl[k]) \in SUBSET Packet
    BY DEF CloseOut, Control, Packet, Controls, PacketType
  <2>2. FinalizeClose(Close(cl[k])) \in Connection
    BY <1>1, CloseType, FinalizeCloseType
  <2> QED BY <1>5, <2>1, <2>2, ClientStepType DEF ClientClose, ServerSide, TypeOK
<1>6. CASE ClientReceive(k)
  <2>1. PICK m \in toClient[k], n \in 1 .. MaxSync + 1 :
          /\ Opens(cl[k], m) => RunEndsAt(cl[k], n)
          /\ ClientStep(k, ProcessData(cl[k], m, n), ProcessDataOut(m))
          /\ toClient' = [toClient EXCEPT ![k] = Taken(@, m)]
    BY <1>6 DEF ClientReceive
  <2>2. m \in Packet /\ n \in Nat \ {0}
    BY <2>1, BoundsAssumption DEF TypeOK
  <2>3. ProcessData(cl[k], m, n) \in Connection
    BY <1>1, <2>1, <2>2, ProcessDataType
  <2>4. ProcessDataOut(m) \in SUBSET Packet
    BY <2>2 DEF ProcessDataOut, Control, Packet, Realibles, Controls, PacketType
  <2>5. toClient' \in [Key -> SUBSET Packet]
    BY <2>1 DEF TypeOK, Taken
  <2> QED BY <1>6, <2>1, <2>3, <2>4, <2>5, ClientStepType DEF ClientReceive, TypeOK
<1>7. ASSUME NEW dead \in BOOLEAN, ClientTick(k, dead) PROVE TypeOK'
  <2>1. PICK due \in SUBSET cl[k].unAckedPackets, quiet \in BOOLEAN :
          LET c == Ticked(cl[k], dead)
          IN ClientStep(k, IF CanSend(c) THEN c ELSE FinalizeClose(Close(c)),
                        TickOut(cl[k], due, quiet))
    BY <1>7 DEF ClientTick
  <2>2. Ticked(cl[k], dead) \in Connection
    BY <1>1, TickedType
  <2>3. FinalizeClose(Close(Ticked(cl[k], dead))) \in Connection
    BY <2>2, CloseType, FinalizeCloseType
  <2>4. TickOut(cl[k], due, quiet) \in SUBSET Packet
    BY <1>1 DEF TickOut, Connection, Control, Packet, Controls, PacketType
  <2> QED BY <1>7, <2>1, <2>2, <2>3, <2>4, ClientStepType
          DEF ClientTick, ServerSide, TypeOK
<1> QED BY <1>2, <1>3, <1>4, <1>5, <1>6, <1>7 DEF ClientNext

LEMMA ServerNextType ==
  ASSUME TypeOK, ServerNext
  PROVE  TypeOK'
<1>1. ASSUME NEW k \in Key PROVE sv[k] \in Connection /\ toClient[k] \subseteq Packet
  BY DEF TypeOK
<1>2. ASSUME NEW k \in Key PROVE CloseOut(sv[k]) \subseteq Packet
  BY DEF CloseOut, Control, Packet, Controls, PacketType
<1>3. ASSUME NEW k \in Key, ServerReceive(k) PROVE TypeOK'
  <2> DEFINE c == IF ~ InMap(k) THEN NewConnection ELSE sv[k]
  <2>1. PICK m \in toServer[k], n \in 1 .. MaxSend + 1 :
          LET stray  == ~ InMap(k)
              opened == Opens(c, m)
              old    == IF opened THEN {con} \cap Key ELSE {}
          IN  /\ opened => RunEndsAt(c, n)
              /\ sv' = [j \in Key |-> CASE j = k -> ProcessData(c, m, n)
                                        [] j # k /\ j \in old -> Close(sv[j])
                                        [] OTHER -> sv[j]]
              /\ toClient' = [j \in Key |-> toClient[j] \cup
                   (IF j = k THEN ProcessDataOut(m) ELSE {}) \cup
                   (IF j = k /\ stray THEN {ConnectPacket} ELSE {}) \cup
                   (IF j # k /\ j \in old THEN CloseOut(sv[j]) ELSE {})]
              /\ objects' = [objects EXCEPT ![k] = IF stray THEN @ + 1 ELSE @]
              /\ con' = IF opened THEN k ELSE con
              /\ base' = IF opened THEN << >> ELSE base
              /\ toServer' = [toServer EXCEPT ![k] = Taken(@, m)]
    BY <1>3 DEF ServerReceive
  <2>2. m \in Packet /\ n \in Nat \ {0}
    BY <2>1, BoundsAssumption DEF TypeOK
  <2>3. c \in Connection
    BY <1>1, NewConnectionType
  <2>4. ProcessData(c, m, n) \in Connection
    <3> HIDE DEF c
    <3> QED BY <2>1, <2>2, <2>3, ProcessDataType
  <2>5. ProcessDataOut(m) \subseteq Packet /\ ConnectPacket \in Packet
    BY <2>2 DEF ProcessDataOut, ConnectPacket, Control, Packet, Realibles,
                Controls, PacketType
  <2>6. \A j \in Key : Close(sv[j]) \in Connection
    BY <1>1, CloseType
  <2> HIDE DEF c
  <2>7. sv' \in [Key -> Connection]
    BY <1>1, <2>1, <2>4, <2>6
  <2>8. toClient' \in [Key -> SUBSET Packet]
    BY <1>1, <1>2, <2>1, <2>5
  <2>9. toServer' \in [Key -> SUBSET Packet]
    BY <2>1 DEF TypeOK, Taken
  <2>10. con' \in Key \cup {NoKey} /\ base' \in Seq(Data)
    BY <2>1 DEF TypeOK
  <2>11. objects' \in [Key -> Nat]
    BY <2>1 DEF TypeOK
  <2> QED BY <1>3, <2>7, <2>8, <2>9, <2>10, <2>11 DEF ServerReceive, TypeOK
<1>4. ASSUME NEW k \in Key, NEW dead \in BOOLEAN, ServerTick(k, dead)
      PROVE  TypeOK'
  <2>1. PICK due \in SUBSET sv[k].unAckedPackets, quiet \in BOOLEAN :
          LET c == Ticked(sv[k], dead)
          IN  /\ sv' = [sv EXCEPT ![k] = IF CanSend(c) THEN c
                                         ELSE FinalizeClose(Close(c))]
              /\ toClient' = [toClient EXCEPT ![k] =
                                @ \cup TickOut(sv[k], due, quiet)]
              /\ con' = IF con = k /\ ~ CanSend(c) THEN NoKey ELSE con
    BY <1>4 DEF ServerTick
  <2>2. Ticked(sv[k], dead) \in Connection
    BY <1>1, TickedType
  <2>3. FinalizeClose(Close(Ticked(sv[k], dead))) \in Connection
    BY <2>2, CloseType, FinalizeCloseType
  <2>4. TickOut(sv[k], due, quiet) \subseteq Packet
    BY <1>1 DEF TickOut, Connection, Control, Packet, Controls, PacketType
  <2>5. sv' \in [Key -> Connection] /\ toClient' \in [Key -> SUBSET Packet]
    BY <1>1, <2>1, <2>2, <2>3, <2>4 DEF TypeOK
  <2> QED BY <1>4, <2>1, <2>5 DEF ServerTick, TypeOK
<1>5. CASE DoSync
  <2>1. PICK d \in Data :
          /\ sv' = [k \in Key |-> Send(sv[k], d)]
          /\ toClient' = [k \in Key |-> toClient[k] \cup SendOut(sv[k], d)]
          /\ base' = Append(base, d)
    BY <1>5 DEF DoSync
  <2>2. \A k \in Key : SendOut(sv[k], d) \subseteq Packet
    BY <1>1 DEF SendOut, RealiblePacket, Connection, Packet, Realibles
  <2>3. \A k \in Key : Send(sv[k], d) \in Connection
    BY <1>1, SendType
  <2>4. base' \in Seq(Data)
    BY <2>1 DEF TypeOK
  <2>5. sv' \in [Key -> Connection] /\ toClient' \in [Key -> SUBSET Packet]
    BY <1>1, <2>1, <2>2, <2>3
  <2> QED BY <1>5, <2>4, <2>5 DEF DoSync, TypeOK
<1>6. CASE SendAllUnrealible
  <2>1. \A k \in Key : SendUnrealibleOut(sv[k]) \subseteq Packet
    BY <1>1 DEF SendUnrealibleOut, Control, Connection, Packet, Controls,
                PacketType
  <2>2. \A k \in Key : SendUnrealible(sv[k]) \in Connection
    BY <1>1, SendUnrealibleType
  <2>3. sv' \in [Key -> Connection] /\ toClient' \in [Key -> SUBSET Packet]
    BY <1>1, <1>6, <2>1, <2>2 DEF SendAllUnrealible
  <2> QED BY <1>6, <2>3 DEF SendAllUnrealible, ClientSide, TypeOK
<1>7. CASE ServerClose
  <2>1. \A k \in Key : FinalizeClose(Close(sv[k])) \in Connection
    BY <1>1, CloseType, FinalizeCloseType
  <2>2. sv' \in [Key -> Connection] /\ toClient' \in [Key -> SUBSET Packet]
    BY <1>1, <1>2, <1>7, <2>1 DEF ServerClose
  <2> QED BY <1>7, <2>2 DEF ServerClose, ClientSide, TypeOK
<1> QED BY <1>3, <1>4, <1>5, <1>6, <1>7 DEF ServerNext

(* Every reachable state is well typed: in particular only reliable        *)
(* packets, with a payload, wait in outOfOrderPackets, and what the        *)
(* listener was given is a sequence of payloads.                           *)
THEOREM TypeCorrect == Spec => []TypeOK
<1>1. TypeOK /\ [Next]_vars => TypeOK'
  <2> SUFFICES ASSUME TypeOK, [Next]_vars PROVE TypeOK'
    OBVIOUS
  <2>1. CASE ServerNext
    BY <2>1, ServerNextType
  <2>2. CASE \E k \in Key : ClientNext(k)
    BY <2>2, ClientNextType
  <2>3. CASE UNCHANGED vars
    BY <2>3 DEF vars, TypeOK
  <2> QED BY <2>1, <2>2, <2>3 DEF Next
<1> QED BY InitType, <1>1, PTL DEF Spec

-------------------------------------------------------------------------------
(* In-order delivery.  Prefix alone is not inductive: it also takes that   *)
(* every reliable packet that is in flight, unacknowledged or set aside    *)
(* still carries the payload that was sent under its orderId, and that the *)
(* numbers agree with the histories.                                       *)

Carries(packets, s) ==
  \A p \in packets :
    p.type = "Realible" => p.orderId \in 1 .. Len(s) /\ p.data = s[p.orderId]

Numbered(c) == c.state # "Closed" => c.realibleNumOut = Len(c.sent) + 1

Received(c, s) ==
  /\ Carries(c.outOfOrderPackets, s)
  /\ Prefix(c.got, s)
  /\ Len(c.got) = IF c.realibleNumIn = 0 THEN 0 ELSE c.realibleNumIn - 1

Flow(from, net, to) ==
  /\ Numbered(from)
  /\ Carries(from.unAckedPackets, from.sent)
  /\ Carries(net, from.sent)
  /\ Received(to, from.sent)

FlowToServer == \A k \in Key : Flow(cl[k], toServer[k], sv[k])

(* Sending more leaves what was already sent where it was.                 *)
LEMMA SentGrows ==
  ASSUME NEW s \in Seq(Data), NEW d \in Data
  PROVE  /\ Append(s, d) \in Seq(Data)
         /\ Len(Append(s, d)) = Len(s) + 1
         /\ Append(s, d)[Len(s) + 1] = d
         /\ \A i \in 1 .. Len(s) : Append(s, d)[i] = s[i]
  OBVIOUS

LEMMA SendFlow ==
  ASSUME NEW f \in Connection, NEW net \in SUBSET Packet, NEW t \in Connection,
         NEW d \in Data, Flow(f, net, t)
  PROVE  Flow(Send(f, d), net \cup SendOut(f, d), t)
<1> SUFFICES ASSUME CanSend(f)
             PROVE  Flow(Send(f, d), net \cup SendOut(f, d), t)
  BY DEF Send, SendOut
<1> DEFINE s == f.sent
           g == Append(s, d)
           p == RealiblePacket(f.realibleNumOut, d)
<1>1. s \in Seq(Data) /\ t.got \in Seq(Data) /\ Len(s) \in Nat
      /\ Len(t.got) \in Nat
  BY DEF Connection
<1>2. f.realibleNumOut = Len(s) + 1
  BY DEF Flow, Numbered, CanSend
<1>3. p.type = "Realible" /\ p.orderId = Len(s) + 1 /\ p.data = d
  BY <1>2 DEF RealiblePacket
<1>4. /\ Send(f, d).sent = g
      /\ Send(f, d).realibleNumOut = f.realibleNumOut + 1
      /\ Send(f, d).unAckedPackets = f.unAckedPackets \cup {p}
  BY DEF Send, Connection
<1>5. SendOut(f, d) = {p}
  BY DEF SendOut
<1>6. /\ Len(g) = Len(s) + 1
      /\ g[Len(s) + 1] = d
      /\ \A i \in 1 .. Len(s) : g[i] = s[i]
  BY <1>1, SentGrows
<1> HIDE DEF g, p
<1>7. ASSUME NEW P, Carries(P, s) PROVE Carries(P, g)
  BY <1>1, <1>6, <1>7 DEF Carries
<1>8. Carries({p}, g)
  BY <1>1, <1>3, <1>6 DEF Carries
<1>9. Prefix(t.got, g)
  BY <1>1, <1>6 DEF Flow, Received, Prefix
<1>10. Numbered(Send(f, d))
  BY <1>1, <1>2, <1>4, <1>6 DEF Numbered
<1>11. /\ Carries(f.unAckedPackets, g) /\ Carries(net, g)
       /\ Carries(t.outOfOrderPackets, g)
  BY <1>7 DEF Flow, Received
<1>12. /\ Carries(f.unAckedPackets \cup {p}, g)
       /\ Carries(net \cup {p}, g)
  BY <1>8, <1>11 DEF Carries
<1>13. Received(t, g)
  BY <1>9, <1>11 DEF Received, Flow
<1> QED BY <1>4, <1>5, <1>10, <1>12, <1>13 DEF Flow

(* Whatever a sender's owner or processData does besides send(): nothing   *)
(* is sent, packets only leave unAckedPackets, and what goes out is not    *)
(* reliable or is unacknowledged.                                          *)
LEMMA SenderFlow ==
  ASSUME NEW f, NEW g, NEW net, NEW more, NEW t, Flow(f, net, t),
         g.sent = f.sent, g.realibleNumOut = f.realibleNumOut,
         g.unAckedPackets \subseteq f.unAckedPackets,
         f.state = "Closed" => g.state = "Closed",
         \A p \in more : p.type = "Realible" => p \in f.unAckedPackets
  PROVE  Flow(g, net \cup more, t)
  BY DEF Flow, Numbered, Carries

(* What processData leaves alone on the sending side.                      *)
LEMMA ProcessDataSends ==
  ASSUME NEW c \in Connection, NEW m \in Packet, NEW n
  PROVE  LET e == ProcessData(c, m, n)
         IN  /\ e.sent = c.sent
             /\ e.realibleNumOut = c.realibleNumOut
             /\ e.unAckedPackets \subseteq c.unAckedPackets
             /\ c.state # "Closed" => e.state # "Closed"
<1> DEFINE h == [c EXCEPT !.heard = TRUE]
           e == ProcessData(c, m, n)
           Same(x) == /\ x.sent = c.sent
                      /\ x.realibleNumOut = c.realibleNumOut
                      /\ x.unAckedPackets \subseteq c.unAckedPackets
                      /\ c.state # "Closed" => x.state # "Closed"
<1>1. h \in Connection /\ Same(h)
  BY PutHeard DEF Connection
<1>2. ProcessData(c, m, n) =
        CASE m.type = "Ack"        -> ProcessAck(h, m)
          [] m.type = "Unrealible" -> ProcessUnrealible(h, m)
          [] m.type = "Realible"   -> ProcessRealible(h, m)
          [] m.type = "Connect"    -> ProcessConnect(h, m, n)
          [] m.type = "Disconnect" -> [h EXCEPT !.state = "Disconnected"]
          [] OTHER                 -> h
  BY DEF ProcessData
<1>3. m.type \in PacketType
  BY DEF Packet, Realibles, Controls, PacketType
<1> HIDE DEF h
<1>4. Same(ProcessAck(h, m))
  BY <1>1 DEF ProcessAck, Connection
<1>5. Same(ProcessUnrealible(h, m))
  BY <1>1 DEF ProcessUnrealible, Connection
<1>6. Same(ProcessRealible(h, m))
  BY <1>1 DEF ProcessRealible, Later, Connection
<1>7. Same(ProcessConnect(h, m, n))
  BY <1>1 DEF ProcessConnect, Connection
<1>8. Same([h EXCEPT !.state = "Disconnected"])
  BY <1>1 DEF Connection
<1>9. Same(e)
  BY <1>1, <1>2, <1>4, <1>5, <1>6, <1>7, <1>8
<1> QED BY <1>9

(* processData hands the listener the next packets that were sent.         *)
LEMMA ReceivedNext ==
  ASSUME NEW c \in Connection, NEW s \in Seq(Data), NEW m \in Realibles,
         Received(c, s), Carries({m}, s)
  PROVE  Received(ProcessRealible(c, m), s)
<1> DEFINE e == ProcessRealible(c, m)
<1>1. /\ c.got \in Seq(Data) /\ c.realibleNumIn \in Nat
      /\ Len(c.got) \in Nat /\ Len(s) \in Nat
      /\ m.orderId \in Nat /\ m.data \in Data /\ m.type = "Realible"
  BY DEF Connection, Realibles
<1>2. m.orderId \in 1 .. Len(s) /\ m.data = s[m.orderId]
  BY <1>1 DEF Carries
<1>3. CASE m.orderId = c.realibleNumIn
  <2>1. /\ e.got = Append(c.got, m.data)
        /\ e.realibleNumIn = c.realibleNumIn + 1
        /\ e.outOfOrderPackets = c.outOfOrderPackets
    BY <1>1, <1>3 DEF ProcessRealible, Connection
  <2>2. Len(c.got) + 1 = m.orderId
    BY <1>1, <1>2, <1>3 DEF Received
  <2>3. Prefix(e.got, s)
    BY <1>1, <1>2, <2>1, <2>2, SentGrows DEF Received, Prefix
  <2>4. Len(e.got) = e.realibleNumIn - 1 /\ e.realibleNumIn # 0
    BY <1>1, <1>3, <2>1, <2>2, SentGrows
  <2> QED BY <2>1, <2>3, <2>4 DEF Received
<1>4. CASE m.orderId > c.realibleNumIn
  <2>1. e = Later(c, m)
    BY <1>1, <1>4 DEF ProcessRealible
  <2>2. /\ Later(c, m).got = c.got
        /\ Later(c, m).realibleNumIn = c.realibleNumIn
        /\ Later(c, m).outOfOrderPackets \subseteq c.outOfOrderPackets \cup {m}
    BY DEF Later, Connection
  <2>3. Carries(Later(c, m).outOfOrderPackets, s)
    BY <2>2 DEF Received, Carries
  <2> QED BY <2>1, <2>2, <2>3 DEF Received
<1>5. CASE m.orderId < c.realibleNumIn
  BY <1>1, <1>5 DEF ProcessRealible
<1> QED BY <1>1, <1>3, <1>4, <1>5

(* A run taken by checkFuturePackets is what was sent under its ids.       *)
LEMMA RunCarries ==
  ASSUME NEW c \in Connection, NEW s \in Seq(Data), NEW n \in Nat \ {0},
         Carries(c.outOfOrderPackets, s), RunEndsAt(c, n),
         NEW i \in 1 .. n-1
  PROVE  i \in 1 .. Len(s) /\ DataOf(c.outOfOrderPackets, i) = s[i]
<1>1. PICK p \in c.outOfOrderPackets : p.orderId = i
  BY DEF RunEndsAt, Ids
<1> DEFINE q == CHOOSE q \in c.outOfOrderPackets : q.orderId = i
<1>2. q \in c.outOfOrderPackets /\ q.orderId = i
  BY <1>1
<1>3. q.type = "Realible"
  BY <1>2 DEF Connection, Realibles
<1> QED BY <1>2, <1>3 DEF DataOf, Carries

LEMMA ReceivedFirst ==
  ASSUME NEW c \in Connection, NEW s \in Seq(Data), NEW m \in Packet,
         NEW n \in Nat \ {0}, Received(c, s), Opens(c, m), RunEndsAt(c, n)
  PROVE  Received(ProcessConnect(c, m, n), s)
<1> DEFINE e == ProcessConnect(c, m, n)
           run == [i \in 1 .. n-1 |-> DataOf(c.outOfOrderPackets, i)]
<1>1. /\ e.got = c.got \o run
      /\ e.realibleNumIn = n
      /\ e.outOfOrderPackets \subseteq c.outOfOrderPackets
  BY DEF ProcessConnect, Connection
<1>2. c.got \in Seq(Data) /\ run \in Seq(Data)
  BY RunType DEF Connection
<1>3. Len(c.got) = 0
  BY DEF Received, Opens
<1>4. c.got = << >>
  BY <1>2, <1>3, EmptySeq
<1>5. e.got = run
  BY <1>1, <1>2, <1>4, ConcatEmptySeq
<1>6. Len(run) = n - 1
  <2>1. DOMAIN run = 1 .. Len(run) /\ Len(run) \in Nat
    BY <1>2, LenProperties
  <2>2. DOMAIN run = 1 .. n-1
    OBVIOUS
  <2> QED BY <2>1, <2>2
<1>7. \A i \in 1 .. n-1 : i \in 1 .. Len(s) /\ run[i] = s[i]
  BY RunCarries DEF Received
<1>8. Len(s) \in Nat
  OBVIOUS
<1>9. n - 1 <= Len(s)
  <2>1. CASE n = 1
    BY <2>1, <1>8
  <2>2. CASE n # 1
    <3>1. n - 1 \in 1 .. n-1
      BY <2>2
    <3> QED BY <3>1, <1>7
  <2> QED BY <2>1, <2>2
<1> HIDE DEF run
<1>10. Prefix(e.got, s)
  BY <1>5, <1>6, <1>7, <1>9 DEF Prefix
<1>11. Carries(e.outOfOrderPackets, s)
  BY <1>1 DEF Received, Carries
<1> QED BY <1>1, <1>5, <1>6, <1>10, <1>11 DEF Received

LEMMA ReceiveFlow ==
  ASSUME NEW f \in Connection, NEW net \in SUBSET Packet, NEW t \in Connection,
         NEW m \in net, NEW n \in Nat \ {0}, Flow(f, net, t),
         Opens(t, m) => RunEndsAt(t, n)
  PROVE  /\ Flow(f, net, ProcessData(t, m, n))
         /\ Flow(f, net \ {m}, ProcessData(t, m, n))
<1> DEFINE h == [t EXCEPT !.heard = TRUE]
<1>1. /\ h \in Connection
      /\ h.got = t.got /\ h.realibleNumIn = t.realibleNumIn
      /\ h.outOfOrderPackets = t.outOfOrderPackets
  BY PutHeard DEF Connection
<1>2. Received(h, f.sent) /\ (Opens(h, m) => RunEndsAt(h, n))
  BY <1>1 DEF Flow, Received, Opens, RunEndsAt
<1>3. ProcessData(t, m, n) =
        CASE m.type = "Ack"        -> ProcessAck(h, m)
          [] m.type = "Unrealible" -> ProcessUnrealible(h, m)
          [] m.type = "Realible"   -> ProcessRealible(h, m)
          [] m.type = "Connect"    -> ProcessConnect(h, m, n)
          [] m.type = "Disconnect" -> [h EXCEPT !.state = "Disconnected"]
          [] OTHER                 -> h
  BY DEF ProcessData
<1>4. m.type \in PacketType /\ (m.type = "Realible" => m \in Realibles)
  BY DEF Packet, Realibles, Controls, PacketType
<1>5. f.sent \in Seq(Data)
  BY DEF Connection
<1> HIDE DEF h
<1>6. Received(ProcessAck(h, m), f.sent)
  BY <1>1, <1>2 DEF ProcessAck, Received, Connection
<1>7. Received(ProcessUnrealible(h, m), f.sent)
  BY <1>1, <1>2 DEF ProcessUnrealible, Received, Connection
<1>8. m.type = "Realible" => Received(ProcessRealible(h, m), f.sent)
  <2>1. Carries({m}, f.sent)
    BY DEF Flow, Carries
  <2> QED BY <1>1, <1>2, <1>4, <1>5, <2>1, ReceivedNext
<1>9. Received(ProcessConnect(h, m, n), f.sent)
  <2>1. CASE Opens(h, m)
    BY <1>1, <1>2, <1>5, <2>1, ReceivedFirst
  <2>2. CASE ~ Opens(h, m)
    BY <1>2, <2>2 DEF ProcessConnect
  <2> QED BY <2>1, <2>2
<1>10. Received([h EXCEPT !.state = "Disconnected"], f.sent)
  BY <1>1, <1>2 DEF Received, Connection
<1>11. Received(ProcessData(t, m, n), f.sent)
  BY <1>2, <1>3, <1>4, <1>6, <1>7, <1>8, <1>9, <1>10
<1> QED BY <1>11 DEF Flow, Carries

(* Objects that are new, closing or ticked do not disturb the flow.        *)
LEMMA NewSenderFlow ==
  ASSUME NEW net, NEW t, Flow(NoConnection, net, t)
  PROVE  Flow(NewConnection, net \cup {ConnectPacket}, t)
  BY DEF Flow, Numbered, Carries, NewConnection, NoConnection, ConnectPacket,
         Control

LEMMA NewReceiverFlow ==
  ASSUME NEW f \in Connection, NEW net, NEW t, Flow(f, net, t)
  PROVE  Flow(f, net, NewConnection)
<1>1. /\ NewConnection.got = << >> /\ NewConnection.realibleNumIn = 0
      /\ NewConnection.outOfOrderPackets = {}
  BY DEF NewConnection, NoConnection
<1>2. f.sent \in Seq(Data) /\ Len(f.sent) \in Nat
  BY DEF Connection
<1>3. Received(NewConnection, f.sent)
  BY <1>1, <1>2 DEF Received, Carries, Prefix
<1> QED BY <1>3 DEF Flow

(* The owner's calls other than send(): what they keep of an object.       *)
LEMMA OwnerKeeps ==
  ASSUME NEW c \in Connection, NEW g,
         \/ g = SendUnrealible(c)
         \/ g = Close(c)
         \/ g = FinalizeClose(Close(c))
         \/ \E dead \in BOOLEAN :
              \/ g = Ticked(c, dead)
              \/ g = FinalizeClose(Close(Ticked(c, dead)))
  PROVE  /\ g.sent = c.sent
         /\ g.realibleNumOut = c.realibleNumOut
         /\ g.unAckedPackets \subseteq c.unAckedPackets
         /\ c.state = "Closed" => g.state \in {"Closed", "TimedOut"}
         /\ g.got = c.got
         /\ g.realibleNumIn = c.realibleNumIn
         /\ g.outOfOrderPackets \subseteq c.outOfOrderPackets
  BY DEF SendUnrealible, Close, FinalizeClose, Ticked, CanSend, Connection

LEMMA ReceiverKeeps ==
  ASSUME NEW f, NEW net, NEW t, NEW u, Flow(f, net, t),
         u.got = t.got, u.realibleNumIn = t.realibleNumIn,
         u.outOfOrderPackets \subseteq t.outOfOrderPackets
  PROVE  Flow(f, net, u)
  BY DEF Flow, Received, Carries

LEMMA OwnerFlow ==
  ASSUME NEW c \in Connection, NEW g, NEW net, NEW more, NEW t,
         \/ g = SendUnrealible(c)
         \/ g = Close(c)
         \/ g = FinalizeClose(Close(c))
         \/ \E dead \in BOOLEAN :
              \/ g = Ticked(c, dead)
              \/ g = FinalizeClose(Close(Ticked(c, dead))),
         c.state # "Closed", Flow(c, net, t),
         \A p \in more : p.type = "Realible" => p \in c.unAckedPackets
  PROVE  Flow(g, net \cup more, t)
<1>1. /\ g.sent = c.sent
      /\ g.realibleNumOut = c.realibleNumOut
      /\ g.unAckedPackets \subseteq c.unAckedPackets
  BY OwnerKeeps
<1> QED BY <1>1, SenderFlow

LEMMA FlowOfClosed ==
  ASSUME NEW f, NEW net, NEW t \in Connection, Flow(f, net, t)
  PROVE  /\ Flow(f, net, SendUnrealible(t))
         /\ Flow(f, net, Close(t))
         /\ Flow(f, net, FinalizeClose(Close(t)))
         /\ \A dead \in BOOLEAN :
              /\ Flow(f, net, Ticked(t, dead))
              /\ Flow(f, net, FinalizeClose(Close(Ticked(t, dead))))
<1> DEFINE Keeps(u) == /\ u.got = t.got
                       /\ u.realibleNumIn = t.realibleNumIn
                       /\ u.outOfOrderPackets \subseteq t.outOfOrderPackets
<1>1. /\ Keeps(SendUnrealible(t)) /\ Keeps(Close(t))
      /\ Keeps(FinalizeClose(Close(t)))
      /\ \A dead \in BOOLEAN : /\ Keeps(Ticked(t, dead))
                               /\ Keeps(FinalizeClose(Close(Ticked(t, dead))))
  BY OwnerKeeps
<1>2. ASSUME NEW u, Keeps(u) PROVE Flow(f, net, u)
  BY <1>2, ReceiverKeeps
<1> HIDE DEF Keeps
<1> QED BY <1>1, <1>2

-------------------------------------------------------------------------------
(* Client to server.                                                       *)

LEMMA InitFlow == Init => FlowToServer
<1> SUFFICES ASSUME Init, NEW k \in Key PROVE Flow(cl[k], toServer[k], sv[k])
  BY DEF FlowToServer
<1>1. cl[k] = NoConnection /\ toServer[k] = {} /\ sv[k] = NoConnection
  BY DEF Init
<1> QED BY <1>1 DEF Flow, Numbered, Carries, Received, Prefix, NoConnection

LEMMA ClientStepFlow ==
  ASSUME TypeOK, FlowToServer, NEW k \in Key, NEW c, NEW out,
         ClientStep(k, c, out), sv' = sv,
         Flow(c, toServer[k] \cup out, sv[k])
  PROVE  FlowToServer'
  BY DEF FlowToServer, ClientStep, TypeOK

LEMMA ClientNextFlow ==
  ASSUME TypeOK, FlowToServer, NEW k \in Key, ClientNext(k)
  PROVE  FlowToServer'
<1>1. /\ cl[k] \in Connection /\ sv[k] \in Connection
      /\ toServer[k] \in SUBSET Packet
      /\ Flow(cl[k], toServer[k], sv[k])
  BY DEF TypeOK, FlowToServer
<1>2. CASE ClientConnect(k)
  <2>1. Flow(NewConnection, toServer[k] \cup {ConnectPacket}, sv[k])
    BY <1>1, <1>2, NewSenderFlow DEF ClientConnect
  <2> QED BY <1>2, <2>1, ClientStepFlow DEF ClientConnect, ServerSide
<1>3. CASE ClientSend(k)
  <2>1. PICK d \in Data : ClientStep(k, Send(cl[k], d), SendOut(cl[k], d))
    BY <1>3 DEF ClientSend
  <2>2. Flow(Send(cl[k], d), toServer[k] \cup SendOut(cl[k], d), sv[k])
    BY <1>1, SendFlow
  <2> QED BY <1>3, <2>1, <2>2, ClientStepFlow DEF ClientSend, ServerSide
<1>4. CASE ClientSendUnrealible(k)
  <2>1. \A p \in SendUnrealibleOut(cl[k]) : p.type # "Realible"
    BY DEF SendUnrealibleOut, Control
  <2>2. cl[k].state # "Closed"
    BY <1>4 DEF ClientSendUnrealible, ClientReady, CanSend
  <2>3. Flow(SendUnrealible(cl[k]), toServer[k] \cup SendUnrealibleOut(cl[k]), sv[k])
    BY <1>1, <2>1, <2>2, OwnerFlow
  <2> QED BY <1>4, <2>3, ClientStepFlow DEF ClientSendUnrealible, ServerSide
<1>5. CASE ClientClose(k)
  <2>1. \A p \in CloseOut(cl[k]) : p.type # "Realible"
    BY DEF CloseOut, Control
  <2>2. cl[k].state # "Closed"
    BY <1>5 DEF ClientClose, ClientReady, CanSend
  <2>3. Flow(FinalizeClose(Close(cl[k])), toServer[k] \cup CloseOut(cl[k]), sv[k])
    BY <1>1, <2>1, <2>2, OwnerFlow
  <2> QED BY <1>5, <2>3, ClientStepFlow DEF ClientClose, ServerSide
<1>6. CASE ClientReceive(k)
  <2>1. PICK m \in toClient[k], n \in 1 .. MaxSync + 1 :
          ClientStep(k, ProcessData(cl[k], m, n), ProcessDataOut(m))
    BY <1>6 DEF ClientReceive
  <2>2. m \in Packet
    BY DEF TypeOK
  <2>3. \A p \in ProcessDataOut(m) : p.type # "Realible"
    BY DEF ProcessDataOut, Control
  <2>4. Flow(ProcessData(cl[k], m, n), toServer[k] \cup ProcessDataOut(m), sv[k])
    <3> DEFINE e == ProcessData(cl[k], m, n)
    <3>1. /\ e.sent = cl[k].sent
          /\ e.realibleNumOut = cl[k].realibleNumOut
          /\ e.unAckedPackets \subseteq cl[k].unAckedPackets
      BY <1>1, <2>2, ProcessDataSends
    <3>2. cl[k].state # "Closed"
      BY <1>6 DEF ClientReceive
    <3>3. Flow(e, toServer[k] \cup ProcessDataOut(m), sv[k])
      <4> HIDE DEF e
      <4> QED BY <1>1, <2>3, <3>1, <3>2, SenderFlow
    <3> QED BY <3>3
  <2> QED BY <1>6, <2>1, <2>4, ClientStepFlow DEF ClientReceive
<1>7. ASSUME NEW dead \in BOOLEAN, ClientTick(k, dead) PROVE FlowToServer'
  <2> DEFINE c == Ticked(cl[k], dead)
             g == IF CanSend(c) THEN c ELSE FinalizeClose(Close(c))
  <2>1. PICK due \in SUBSET cl[k].unAckedPackets, quiet \in BOOLEAN :
          ClientStep(k, g, TickOut(cl[k], due, quiet))
    BY <1>7 DEF ClientTick
  <2>2. \A p \in TickOut(cl[k], due, quiet) :
          p.type = "Realible" => p \in cl[k].unAckedPackets
    BY DEF TickOut, Control
  <2>3. cl[k].state # "Closed"
    BY <1>7 DEF ClientTick
  <2>4. g = c \/ g = FinalizeClose(Close(c))
    OBVIOUS
  <2>5. Flow(g, toServer[k] \cup TickOut(cl[k], due, quiet), sv[k])
    BY <1>1, <2>2, <2>3, <2>4, OwnerFlow
  <2> HIDE DEF g
  <2> QED BY <1>7, <2>1, <2>5, ClientStepFlow DEF ClientTick, ServerSide
<1> QED BY <1>2, <1>3, <1>4, <1>5, <1>6, <1>7 DEF ClientNext

LEMMA ServerNextFlow ==
  ASSUME TypeOK, FlowToServer, ServerNext
  PROVE  FlowToServer'
<1>1. ASSUME NEW k \in Key
      PROVE  /\ cl[k] \in Connection /\ sv[k] \in Connection
             /\ toServer[k] \in SUBSET Packet
             /\ Flow(cl[k], toServer[k], sv[k])
  BY DEF TypeOK, FlowToServer
<1>2. ASSUME NEW k \in Key, ServerReceive(k) PROVE FlowToServer'
  <2> DEFINE c == IF ~ InMap(k) THEN NewConnection ELSE sv[k]
  <2>1. PICK m \in toServer[k], n \in 1 .. MaxSend + 1 :
          /\ Opens(c, m) => RunEndsAt(c, n)
          /\ \A j \in Key \ {k} : sv'[j] = Close(sv[j]) \/ sv'[j] = sv[j]
          /\ sv'[k] = ProcessData(c, m, n)
          /\ toServer' = [toServer EXCEPT ![k] = Taken(@, m)]
    BY <1>2 DEF ServerReceive
  <2>2. n \in Nat \ {0}
    BY BoundsAssumption
  <2>3. c \in Connection /\ Flow(cl[k], toServer[k], c)
    <3>1. Flow(cl[k], toServer[k], NewConnection)
      BY <1>1, NewReceiverFlow
    <3> QED BY <1>1, <3>1, NewConnectionType
  <2> HIDE DEF c
  <2>4. /\ Flow(cl[k], toServer[k], ProcessData(c, m, n))
        /\ Flow(cl[k], toServer[k] \ {m}, ProcessData(c, m, n))
    BY <1>1, <2>1, <2>2, <2>3, ReceiveFlow
  <2>5. cl' = cl /\ toServer'[k] \in {toServer[k], toServer[k] \ {m}}
    BY <1>2, <2>1 DEF ServerReceive, Taken, TypeOK
  <2>6. Flow(cl'[k], toServer'[k], sv'[k])
    BY <2>1, <2>4, <2>5
  <2>7. ASSUME NEW j \in Key \ {k} PROVE Flow(cl'[j], toServer'[j], sv'[j])
    <3>1. toServer'[j] = toServer[j]
      BY <2>1 DEF TypeOK
    <3>2. Flow(cl[j], toServer[j], Close(sv[j]))
      BY <1>1, FlowOfClosed
    <3> QED BY <1>1, <2>1, <2>5, <3>1, <3>2
  <2> QED BY <2>6, <2>7 DEF FlowToServer
<1>3. ASSUME NEW k \in Key, NEW dead \in BOOLEAN, ServerTick(k, dead)
      PROVE  FlowToServer'
  <2> DEFINE c == Ticked(sv[k], dead)
             g == IF CanSend(c) THEN c ELSE FinalizeClose(Close(c))
  <2>1. sv' = [sv EXCEPT ![k] = g] /\ cl' = cl /\ toServer' = toServer
    BY <1>3 DEF ServerTick
  <2>2. g = c \/ g = FinalizeClose(Close(c))
    OBVIOUS
  <2>3. Flow(cl[k], toServer[k], g)
    BY <1>1, <2>2, FlowOfClosed
  <2> HIDE DEF g
  <2> QED BY <1>1, <2>1, <2>3 DEF FlowToServer, TypeOK
<1>4. CASE DoSync
  <2>1. PICK d \in Data : sv' = [k \in Key |-> Send(sv[k], d)]
    BY <1>4 DEF DoSync
  <2>2. ASSUME NEW k \in Key PROVE Flow(cl[k], toServer[k], Send(sv[k], d))
    <3>1. /\ Send(sv[k], d).got = sv[k].got
          /\ Send(sv[k], d).realibleNumIn = sv[k].realibleNumIn
          /\ Send(sv[k], d).outOfOrderPackets = sv[k].outOfOrderPackets
      BY <1>1 DEF Send, Connection
    <3> QED BY <1>1, <3>1, ReceiverKeeps
  <2> QED BY <1>4, <2>1, <2>2 DEF DoSync, FlowToServer
<1>5. CASE SendAllUnrealible
  <2>1. \A k \in Key : Flow(cl[k], toServer[k], SendUnrealible(sv[k]))
    BY <1>1, FlowOfClosed
  <2> QED BY <1>5, <2>1 DEF SendAllUnrealible, ClientSide, FlowToServer
<1>6. CASE ServerClose
  <2>1. \A k \in Key : Flow(cl[k], toServer[k], FinalizeClose(Close(sv[k])))
    BY <1>1, FlowOfClosed
  <2> QED BY <1>1, <1>6, <2>1 DEF ServerClose, ClientSide, FlowToServer
<1> QED BY <1>2, <1>3, <1>4, <1>5, <1>6 DEF ServerNext

(* Client to server: what processRealible and checkFuturePackets hand to   *)
(* the listener is a prefix of what the client sent, whatever the network  *)
(* loses, repeats or reorders and however often the server makes a new     *)
(* object for the address.                                                 *)
THEOREM DeliversInOrder == Spec => []InOrderToServer
<1>1. TypeOK /\ FlowToServer /\ [Next]_vars => FlowToServer'
  <2> SUFFICES ASSUME TypeOK, FlowToServer, [Next]_vars PROVE FlowToServer'
    OBVIOUS
  <2>1. CASE ServerNext
    BY <2>1, ServerNextFlow
  <2>2. CASE \E k \in Key : ClientNext(k)
    BY <2>2, ClientNextFlow
  <2>3. CASE UNCHANGED vars
    BY <2>3 DEF vars, FlowToServer
  <2> QED BY <2>1, <2>2, <2>3 DEF Next
<1>2. FlowToServer => InOrderToServer
  BY DEF FlowToServer, Flow, Received, InOrderToServer
<1> QED BY InitFlow, <1>1, <1>2, TypeCorrect, PTL DEF Spec
===============================================================================
