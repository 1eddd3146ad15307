--------------------------- MODULE UdpChannelProofs ---------------------------
(***************************************************************************)
(* More proofs about UdpSession, from the invariants of UdpSessionProofs:  *)
(* the server's side of the session, the way back to the client, what an   *)
(* Ack means, and the reliable channel the session implements.             *)
(***************************************************************************)
EXTENDS UdpSessionProofs

-------------------------------------------------------------------------------
(* A step of the server, one connection at a time.  Each lemma says of one *)
(* action what becomes of every object, so that an invariant about single  *)
(* connections need not look at the action again.                          *)

LEMMA ServerReceiveParts ==
  ASSUME TypeOK, NEW k \in Key, ServerReceive(k)
  PROVE  \E m \in toServer[k], n \in Nat \ {0} :
           LET stray == ~ InMap(k)
               c     == IF stray THEN NewConnection ELSE sv[k]
           IN  /\ m \in Packet /\ c \in Connection
               /\ stray => m.type = "Connect" /\ objects[k] < MaxOpen
               /\ Opens(c, m) => RunEndsAt(c, n)
               /\ ~ Opens(c, m) => n = 1
               /\ sv'[k] = ProcessData(c, m, n)
               /\ toClient'[k] = toClient[k] \cup ProcessDataOut(m) \cup
                                   (IF stray THEN {ConnectPacket} ELSE {})
               /\ objects'[k] = IF stray THEN objects[k] + 1 ELSE objects[k]
               /\ toServer'[k] = Taken(toServer[k], m)
               /\ con' = IF Opens(c, m) THEN k ELSE con
               /\ base' = IF Opens(c, m) THEN << >> ELSE base
               /\ \A j \in Key \ {k} :
                    /\ \/ sv'[j] = sv[j] /\ toClient'[j] = toClient[j]
                          /\ ~ (Opens(c, m) /\ j = con)
                       \/ sv'[j] = Close(sv[j])
                          /\ toClient'[j] = toClient[j] \cup CloseOut(sv[j])
                    /\ objects'[j] = objects[j] /\ toServer'[j] = toServer[j]
<1> DEFINE c == IF ~ InMap(k) THEN NewConnection ELSE sv[k]
<1>1. PICK m \in toServer[k], n \in 1 .. MaxSend + 1 :
        LET stray  == ~ InMap(k)
            opened == Opens(c, m)
            old    == IF opened THEN {con} \cap Key ELSE {}
        IN  /\ stray => m.type = "Connect" /\ objects[k] < MaxOpen
            /\ opened => RunEndsAt(c, n)
            /\ ~ opened => n = 1
            /\ sv' = [j \in Key |-> CASE j = k -> ProcessData(c, m, n)
                                      [] j # k /\ j \in old -> Close(sv[j])
                                      [] OTHER -> sv[j]]
            /\ toClient' = [j \in Key |-> toClient[j] \cup
                 (IF j = k THEN ProcessDataOut(m) ELSE {}) \cup
                 (IF j = k /\ stray THEN {ConnectPacket} ELSE {}) \cup
                 (IF j # k /\ j \in old THEN CloseOut(sv[j]) ELSE {})]
            /\ objects' = [objects EXCEPT ![k] = IF stray THEN @ + 1 ELSE @]
            /\ con' = IF opened THEN k ELSE con
            /\ base' = IF opened THEN << >> ELSE base
            /\ toServer' = [toServer EXCEPT ![k] = Taken(@, m)]
  BY DEF ServerReceive
<1>2. n \in Nat \ {0} /\ m \in Packet
  BY BoundsAssumption DEF TypeOK
<1>3. c \in Connection
  BY NewConnectionType DEF TypeOK
<1> DEFINE stray == ~ InMap(k)
           opened == Opens(c, m)
<1> HIDE DEF c
<1>4. sv'[k] = ProcessData(c, m, n)
  BY <1>1
<1>5. toClient'[k] = toClient[k] \cup ProcessDataOut(m) \cup
                       (IF stray THEN {ConnectPacket} ELSE {})
  BY <1>1
<1>6. /\ objects'[k] = IF stray THEN objects[k] + 1 ELSE objects[k]
      /\ toServer'[k] = Taken(toServer[k], m)
  BY <1>1 DEF TypeOK
<1>7. ASSUME NEW j \in Key \ {k}
      PROVE  /\ \/ sv'[j] = sv[j] /\ toClient'[j] = toClient[j]
                   /\ ~ (Opens(c, m) /\ j = con)
                \/ sv'[j] = Close(sv[j])
                   /\ toClient'[j] = toClient[j] \cup CloseOut(sv[j])
             /\ objects'[j] = objects[j] /\ toServer'[j] = toServer[j]
  <2>1. objects'[j] = objects[j] /\ toServer'[j] = toServer[j]
    BY <1>1 DEF TypeOK
  <2>2. CASE opened /\ j = con
    BY <1>1, <2>1, <2>2
  <2>3. CASE ~ (opened /\ j = con)
    BY <1>1, <2>1, <2>3
  <2> QED BY <2>2, <2>3
<1> QED BY <1>1, <1>2, <1>3, <1>4, <1>5, <1>6, <1>7 DEF c

-------------------------------------------------------------------------------
(* Who is sent the differences.  Inductive with one more fact: a           *)
(* connection object of the server has been opened by the datagram that    *)
(* made it, so that none is opened a second time, with differences sent.   *)

OpenedOnce == \A k \in Key : InMap(k) => sv[k].realibleNumIn # 0

SendersInv == OnlyConIsSentTo /\ OpenedOnce

(* What processData does to the state and the numbers.                     *)
LEMMA ProcessDataState ==
  ASSUME NEW c \in Connection, NEW m \in Packet, NEW n \in Nat \ {0}
  PROVE  LET e == ProcessData(c, m, n)
         IN  /\ Opens(c, m) => e.realibleNumIn = n
             /\ ~ Opens(c, m) =>
                  /\ CanSend(e) => CanSend(c)
                  /\ c.realibleNumIn # 0 => e.realibleNumIn # 0
<1> DEFINE h == [c EXCEPT !.heard = TRUE]
           e == ProcessData(c, m, n)
           Same(x) == /\ CanSend(x) => CanSend(c)
                      /\ c.realibleNumIn # 0 => x.realibleNumIn # 0
<1>1. h \in Connection /\ Same(h) /\ h.realibleNumIn = c.realibleNumIn
      /\ h.state = c.state
  BY PutHeard DEF Connection, CanSend
<1>2. ProcessData(c, m, n) =
        CASE m.type = "Ack"        -> ProcessAck(h, m)
          [] m.type = "Unrealible" -> ProcessUnrealible(h, m)
          [] m.type = "Realible"   -> ProcessRealible(h, m)
          [] m.type = "Connect"    -> ProcessConnect(h, m, n)
          [] m.type = "Disconnect" -> [h EXCEPT !.state = "Disconnected"]
          [] OTHER                 -> h
  BY DEF ProcessData
<1>3. Opens(c, m) <=> Opens(h, m)
  BY <1>1 DEF Opens
<1> HIDE DEF h
<1>4. Same(ProcessAck(h, m))
  BY <1>1 DEF ProcessAck, Connection, CanSend
<1>5. Same(ProcessUnrealible(h, m))
  BY <1>1 DEF ProcessUnrealible, Connection, CanSend
<1>6. Same(ProcessRealible(h, m))
  BY <1>1 DEF ProcessRealible, Later, Connection, CanSend
<1>7. ~ Opens(h, m) => Same(ProcessConnect(h, m, n))
  BY <1>1 DEF ProcessConnect, Connection, CanSend
<1>8. Same([h EXCEPT !.state = "Disconnected"])
  BY <1>1 DEF Connection, CanSend
<1>9. Opens(h, m) => ProcessData(c, m, n).realibleNumIn = n
  BY <1>1, <1>2 DEF ProcessConnect, Connection, Opens
<1>10. ~ Opens(h, m) => Same(e)
  BY <1>1, <1>2, <1>4, <1>5, <1>6, <1>7, <1>8
<1> QED BY <1>3, <1>9, <1>10

LEMMA SendersInit == Init => SendersInv
  BY DEF Init, SendersInv, OnlyConIsSentTo, OpenedOnce, CanSend, InMap,
         NoConnection

(* Objects of the server are only ever sent on, or closed.                 *)
LEMMA SendersClient ==
  ASSUME SendersInv, NEW k \in Key, ClientNext(k)
  PROVE  SendersInv'
<1>1. sv' = sv /\ con' = con /\ base' = base
  BY DEF ClientNext, ClientConnect, ClientSend, ClientSendUnrealible,
         ClientClose, ClientReceive, ClientTick, ServerSide
<1> QED BY <1>1 DEF SendersInv, OnlyConIsSentTo, OpenedOnce, InMap

LEMMA SendersServer ==
  ASSUME TypeOK, SendersInv, ServerNext
  PROVE  SendersInv'
<1>1. \A k \in Key : sv[k] \in Connection
  BY DEF TypeOK
<1>2. NoKey \notin Key
  BY NoKeyAssumption
<1>3. ASSUME NEW k \in Key, ServerReceive(k) PROVE SendersInv'
  <2> DEFINE c == IF ~ InMap(k) THEN NewConnection ELSE sv[k]
  <2>1. PICK m \in toServer[k], n \in Nat \ {0} :
          /\ m \in Packet /\ c \in Connection
          /\ ~ InMap(k) => m.type = "Connect"
          /\ sv'[k] = ProcessData(c, m, n)
          /\ con' = IF Opens(c, m) THEN k ELSE con
          /\ base' = IF Opens(c, m) THEN << >> ELSE base
          /\ \A j \in Key \ {k} :
               \/ sv'[j] = sv[j] /\ ~ (Opens(c, m) /\ j = con)
               \/ sv'[j] = Close(sv[j])
    BY <1>3, ServerReceiveParts
  <2>2. /\ NewConnection.realibleNumIn = 0 /\ NewConnection.sent = << >>
        /\ NewConnection.state = "Connecting"
    BY DEF NewConnection, NoConnection
  <2>3. Opens(c, m) <=> ~ InMap(k)
    BY <2>1, <2>2 DEF Opens, SendersInv, OpenedOnce
  <2>4. sv'[k].sent = c.sent
    BY <2>1, ProcessDataSends
  <2>5. /\ Opens(c, m) => sv'[k].realibleNumIn = n
        /\ ~ Opens(c, m) =>
             /\ CanSend(sv'[k]) => CanSend(c)
             /\ c.realibleNumIn # 0 => sv'[k].realibleNumIn # 0
    BY <2>1, ProcessDataState
  <2> USE <1>1, <2>1, <2>3, <2>4, <2>5 DEF SendersInv
  <2>6. CanSend(sv'[k]) => k = con' /\ sv'[k].sent = base'
    BY <2>2 DEF OnlyConIsSentTo
  <2>7. sv'[k].realibleNumIn # 0
    BY <2>2 DEF OpenedOnce
  <2>8. ASSUME NEW j \in Key \ {k}
        PROVE  /\ CanSend(sv'[j]) => j = con' /\ sv'[j].sent = base'
               /\ InMap(j)' => sv'[j].realibleNumIn # 0
    <3>1. sv[j] \in Connection /\ (InMap(j) => sv[j].realibleNumIn # 0)
          /\ (CanSend(sv[j]) => j = con /\ sv[j].sent = base)
      BY DEF OpenedOnce, OnlyConIsSentTo
    <3>2. CASE sv'[j] = Close(sv[j])
      <4>1. ~ CanSend(sv'[j]) /\ sv'[j].realibleNumIn = sv[j].realibleNumIn
            /\ (sv'[j].state # "Closed" => sv[j].state # "Closed")
        BY <3>1, <3>2 DEF Close, CanSend, Connection
      <4> QED BY <3>1, <4>1 DEF InMap
    <3>3. CASE sv'[j] = sv[j] /\ ~ (Opens(c, m) /\ j = con)
      BY <3>1, <3>3 DEF InMap
    <3> QED BY <3>2, <3>3
  <2> QED BY <2>6, <2>7, <2>8 DEF OnlyConIsSentTo, OpenedOnce
<1>4. ASSUME NEW k \in Key, NEW dead \in BOOLEAN, ServerTick(k, dead)
      PROVE  SendersInv'
  <2> DEFINE c == Ticked(sv[k], dead)
             g == IF CanSend(c) THEN c ELSE FinalizeClose(Close(c))
  <2>1. /\ sv' = [sv EXCEPT ![k] = g]
        /\ con' = IF con = k /\ ~ CanSend(c) THEN NoKey ELSE con
        /\ base' = base /\ InMap(k)
    BY <1>4 DEF ServerTick
  <2>2. /\ g.realibleNumIn = sv[k].realibleNumIn /\ g.sent = sv[k].sent
        /\ CanSend(g) => CanSend(c) /\ CanSend(sv[k])
    BY <1>1 DEF Ticked, FinalizeClose, Close, CanSend, Connection
  <2> HIDE DEF g, c
  <2>3. sv'[k] = g /\ \A j \in Key \ {k} : sv'[j] = sv[j]
    BY <2>1 DEF TypeOK
  <2>4. \A j \in Key : CanSend(sv'[j]) => j = con' /\ sv'[j].sent = base'
    BY <2>1, <2>2, <2>3 DEF SendersInv, OnlyConIsSentTo
  <2>5. \A j \in Key : InMap(j)' => sv'[j].realibleNumIn # 0
    BY <2>1, <2>2, <2>3 DEF SendersInv, OpenedOnce, InMap
  <2> QED BY <2>4, <2>5 DEF SendersInv, OnlyConIsSentTo, OpenedOnce
<1>5. CASE DoSync
  <2>1. PICK d \in Data : /\ sv' = [k \in Key |-> Send(sv[k], d)]
                          /\ base' = Append(base, d)
    BY <1>5 DEF DoSync
  <2>2. ASSUME NEW k \in Key
        PROVE  /\ Send(sv[k], d).state = sv[k].state
               /\ Send(sv[k], d).realibleNumIn = sv[k].realibleNumIn
               /\ CanSend(sv[k]) => Send(sv[k], d).sent = Append(sv[k].sent, d)
    BY <1>1 DEF Send, Connection
  <2>3. con' = con
    BY <1>5 DEF DoSync
  <2> QED BY <2>1, <2>2, <2>3
          DEF SendersInv, OnlyConIsSentTo, OpenedOnce, InMap, CanSend
<1>6. CASE SendAllUnrealible
  <2>1. \A k \in Key : /\ SendUnrealible(sv[k]).state = sv[k].state
                       /\ SendUnrealible(sv[k]).sent = sv[k].sent
                       /\ SendUnrealible(sv[k]).realibleNumIn = sv[k].realibleNumIn
    BY <1>1 DEF SendUnrealible, Connection
  <2> QED BY <1>6, <2>1 DEF SendAllUnrealible, SendersInv, OnlyConIsSentTo,
                            OpenedOnce, InMap, CanSend
<1>7. CASE ServerClose
  <2>1. \A k \in Key : sv'[k].state = "Closed"
    BY <1>1, <1>7 DEF ServerClose, FinalizeClose, Close, InMap, Connection
  <2> QED BY <2>1 DEF SendersInv, OnlyConIsSentTo, OpenedOnce, InMap, CanSend
<1> QED BY <1>3, <1>4, <1>5, <1>6, <1>7 DEF ServerNext

(* Whoever connects, closes, times out or is kicked, and whatever late     *)
(* datagrams turn up: only the connection opened last may be sent          *)
(* differences, and it has been sent exactly those since the reset.        *)
THEOREM OnlyConGetsDifferences == Spec => []OnlyConIsSentTo
<1>1. TypeOK /\ SendersInv /\ [Next]_vars => SendersInv'
  <2> SUFFICES ASSUME TypeOK, SendersInv, [Next]_vars PROVE SendersInv'
    OBVIOUS
  <2>1. CASE ServerNext
    BY <2>1, SendersServer
  <2>2. CASE \E k \in Key : ClientNext(k)
    BY <2>2, SendersClient
  <2>3. CASE UNCHANGED vars
    BY <2>3 DEF vars, SendersInv, OnlyConIsSentTo, OpenedOnce, InMap
  <2> QED BY <2>1, <2>2, <2>3 DEF Next
<1>2. SendersInv => OnlyConIsSentTo
  BY DEF SendersInv
<1> QED BY SendersInit, <1>1, <1>2, TypeCorrect, PTL DEF Spec

-------------------------------------------------------------------------------
(* Server to client, as long as the server has made one object.  Flow is   *)
(* the invariant here, too; before the object is made there is nothing.    *)

FlowToClient ==
  \A k \in Key :
    /\ objects[k] = 0 => sv[k] = NoConnection /\ toClient[k] = {}
    /\ objects[k] <= 1 => Flow(sv[k], toClient[k], cl[k])

LEMMA InitFlowToClient == Init => FlowToClient
<1> SUFFICES ASSUME Init, NEW k \in Key
             PROVE  /\ sv[k] = NoConnection /\ toClient[k] = {}
                    /\ Flow(sv[k], toClient[k], cl[k])
  BY DEF FlowToClient
<1>1. sv[k] = NoConnection /\ toClient[k] = {} /\ cl[k] = NoConnection
  BY DEF Init
<1> QED BY <1>1 DEF Flow, Numbered, Carries, Received, Prefix, NoConnection

(* The client's steps read toClient and change its own object.             *)
LEMMA ClientNextFlowToClient ==
  ASSUME TypeOK, FlowToClient, NEW k \in Key, ClientNext(k)
  PROVE  FlowToClient'
<1>1. /\ cl[k] \in Connection /\ sv[k] \in Connection
      /\ toClient[k] \in SUBSET Packet
      /\ objects[k] <= 1 => Flow(sv[k], toClient[k], cl[k])
  BY DEF TypeOK, FlowToClient
<1>2. sv' = sv /\ objects' = objects
  BY DEF ClientNext, ClientConnect, ClientSend, ClientSendUnrealible,
         ClientClose, ClientReceive, ClientTick, ServerSide
<1>3. ASSUME NEW c, NEW out, NEW net, ClientStep(k, c, out),
             toClient' = [toClient EXCEPT ![k] = net], net \subseteq toClient[k],
             objects[k] <= 1 => Flow(sv[k], net, c)
      PROVE  FlowToClient'
  <2>1. cl'[k] = c /\ toClient'[k] = net
    BY <1>3 DEF ClientStep, TypeOK
  <2>2. \A j \in Key \ {k} : cl'[j] = cl[j] /\ toClient'[j] = toClient[j]
    BY <1>3 DEF ClientStep, TypeOK
  <2> QED BY <1>2, <1>3, <2>1, <2>2 DEF FlowToClient
<1>4. ASSUME NEW c, NEW out, ClientStep(k, c, out), toClient' = toClient,
             objects[k] <= 1 => Flow(sv[k], toClient[k], c)
      PROVE  FlowToClient'
  <2>1. toClient' = [toClient EXCEPT ![k] = toClient[k]]
    BY <1>4 DEF TypeOK
  <2> QED BY <1>3, <1>4, <2>1
<1>5. CASE ClientConnect(k)
  BY <1>1, <1>4, <1>5, NewReceiverFlow DEF ClientConnect, ServerSide
<1>6. CASE ClientSend(k)
  <2>1. PICK d \in Data : ClientStep(k, Send(cl[k], d), SendOut(cl[k], d))
    BY <1>6 DEF ClientSend
  <2>2. /\ Send(cl[k], d).got = cl[k].got
        /\ Send(cl[k], d).realibleNumIn = cl[k].realibleNumIn
        /\ Send(cl[k], d).outOfOrderPackets = cl[k].outOfOrderPackets
    BY <1>1 DEF Send, Connection
  <2>3. objects[k] <= 1 => Flow(sv[k], toClient[k], Send(cl[k], d))
    BY <1>1, <2>2, ReceiverKeeps
  <2> QED BY <1>4, <1>6, <2>1, <2>3 DEF ClientSend, ServerSide
<1>7. CASE ClientSendUnrealible(k)
  BY <1>1, <1>4, <1>7, FlowOfClosed DEF ClientSendUnrealible, ServerSide
<1>8. CASE ClientClose(k)
  BY <1>1, <1>4, <1>8, FlowOfClosed DEF ClientClose, ServerSide
<1>9. CASE ClientReceive(k)
  <2>1. PICK m \in toClient[k], n \in 1 .. MaxSync + 1 :
          /\ Opens(cl[k], m) => RunEndsAt(cl[k], n)
          /\ ClientStep(k, ProcessData(cl[k], m, n), ProcessDataOut(m))
          /\ toClient' = [toClient EXCEPT ![k] = Taken(@, m)]
    BY <1>9 DEF ClientReceive
  <2>2. n \in Nat \ {0}
    BY BoundsAssumption
  <2>3. objects[k] <= 1 =>
          /\ Flow(sv[k], toClient[k], ProcessData(cl[k], m, n))
          /\ Flow(sv[k], toClient[k] \ {m}, ProcessData(cl[k], m, n))
    BY <1>1, <2>1, <2>2, ReceiveFlow
  <2>4. Taken(toClient[k], m) \in {toClient[k], toClient[k] \ {m}}
    BY DEF Taken
  <2>5. toClient' = [toClient EXCEPT ![k] = Taken(toClient[k], m)]
    BY <2>1
  <2> QED BY <1>3, <2>1, <2>3, <2>4, <2>5
<1>10. ASSUME NEW dead \in BOOLEAN, ClientTick(k, dead) PROVE FlowToClient'
  <2> DEFINE c == Ticked(cl[k], dead)
             g == IF CanSend(c) THEN c ELSE FinalizeClose(Close(c))
  <2>1. PICK due \in SUBSET cl[k].unAckedPackets, quiet \in BOOLEAN :
          ClientStep(k, g, TickOut(cl[k], due, quiet))
    BY <1>10 DEF ClientTick
  <2>2. objects[k] <= 1 => Flow(sv[k], toClient[k], g)
    BY <1>1, FlowOfClosed
  <2> HIDE DEF g
  <2> QED BY <1>4, <1>10, <2>1, <2>2 DEF ClientTick, ServerSide
<1> QED BY <1>5, <1>6, <1>7, <1>8, <1>9, <1>10 DEF ClientNext

(* The server's steps are those of a sender.                               *)
LEMMA ServerNextFlowToClient ==
  ASSUME TypeOK, FlowToClient, ServerNext
  PROVE  FlowToClient'
<1> DEFINE Good(from, net, to, made) ==
             /\ made = 0 => from = NoConnection /\ net = {}
             /\ made <= 1 => Flow(from, net, to)
<1>1. ASSUME NEW k \in Key
      PROVE  /\ cl[k] \in Connection /\ sv[k] \in Connection
             /\ toClient[k] \in SUBSET Packet /\ objects[k] \in Nat
             /\ Good(sv[k], toClient[k], cl[k], objects[k])
             /\ InMap(k) => objects[k] # 0
  BY DEF TypeOK, FlowToClient, InMap, NoConnection
<1>2. SUFFICES cl' = cl /\ \A k \in Key :
                 Good(sv'[k], toClient'[k], cl[k], objects'[k])
  BY DEF FlowToClient
<1>3. cl' = cl
  BY DEF ServerNext, ServerReceive, ServerTick, DoSync, SendAllUnrealible,
         ServerClose, ClientSide
<1>4. ASSUME NEW k \in Key
      PROVE  Good(Close(sv[k]), toClient[k] \cup CloseOut(sv[k]), cl[k], objects[k])
  <2>1. \A p \in CloseOut(sv[k]) : p.type # "Realible"
    BY DEF CloseOut, Control
  <2>2. CASE sv[k].state = "Closed"
    <3>1. Close(sv[k]) = sv[k] /\ CloseOut(sv[k]) = {}
      BY <2>2 DEF Close, CloseOut, CanSend
    <3> QED BY <1>1, <3>1
  <2>3. CASE sv[k].state # "Closed"
    <3>1. objects[k] <= 1 =>
            Flow(Close(sv[k]), toClient[k] \cup CloseOut(sv[k]), cl[k])
      BY <1>1, <2>1, <2>3, OwnerFlow
    <3> QED BY <1>1, <2>3, <3>1 DEF InMap
  <2> QED BY <2>2, <2>3
<1>5. ASSUME NEW k \in Key, ServerReceive(k), NEW j \in Key
      PROVE  Good(sv'[j], toClient'[j], cl[j], objects'[j])
  <2> DEFINE c == IF ~ InMap(k) THEN NewConnection ELSE sv[k]
  <2>1. PICK m \in toServer[k], n \in Nat \ {0} :
          /\ m \in Packet /\ c \in Connection
          /\ sv'[k] = ProcessData(c, m, n)
          /\ toClient'[k] = toClient[k] \cup ProcessDataOut(m) \cup
                              (IF ~ InMap(k) THEN {ConnectPacket} ELSE {})
          /\ objects'[k] = IF ~ InMap(k) THEN objects[k] + 1 ELSE objects[k]
          /\ \A i \in Key \ {k} :
               /\ \/ sv'[i] = sv[i] /\ toClient'[i] = toClient[i]
                  \/ sv'[i] = Close(sv[i])
                     /\ toClient'[i] = toClient[i] \cup CloseOut(sv[i])
               /\ objects'[i] = objects[i]
    BY <1>5, ServerReceiveParts
  <2>2. CASE j # k
    BY <1>1, <1>4, <2>1, <2>2
  <2>3. CASE j = k
    <3> DEFINE e == ProcessData(c, m, n)
               net == toClient[k] \cup (IF ~ InMap(k) THEN {ConnectPacket} ELSE {})
    <3>1. objects'[k] # 0
      BY <1>1, <2>1
    <3>2. ASSUME objects'[k] <= 1 PROVE Flow(c, net, cl[k])
      <4>1. CASE InMap(k)
        BY <1>1, <2>1, <3>2, <4>1
      <4>2. CASE ~ InMap(k)
        <5>1. objects[k] = 0
          BY <1>1, <2>1, <3>2, <4>2
        <5> QED BY <1>1, <4>2, <5>1, NewSenderFlow
      <4> QED BY <4>1, <4>2
    <3>3. c.state # "Closed"
      BY DEF InMap, NewConnection, NoConnection
    <3>4. \A p \in ProcessDataOut(m) : p.type # "Realible"
      BY DEF ProcessDataOut, Control
    <3>5. /\ e.sent = c.sent
          /\ e.realibleNumOut = c.realibleNumOut
          /\ e.unAckedPackets \subseteq c.unAckedPackets
      BY <2>1, ProcessDataSends
    <3> HIDE DEF e, net, c
    <3>6. objects'[k] <= 1 => Flow(e, net \cup ProcessDataOut(m), cl[k])
      BY <3>2, <3>3, <3>4, <3>5, SenderFlow
    <3>7. toClient'[k] = net \cup ProcessDataOut(m)
      BY <2>1 DEF net
    <3> QED BY <2>1, <2>3, <3>1, <3>6, <3>7 DEF e
  <2> QED BY <2>2, <2>3
<1>6. ASSUME NEW k \in Key, NEW dead \in BOOLEAN, ServerTick(k, dead), NEW j \in Key
      PROVE  Good(sv'[j], toClient'[j], cl[j], objects'[j])
  <2> DEFINE c == Ticked(sv[k], dead)
             g == IF CanSend(c) THEN c ELSE FinalizeClose(Close(c))
  <2>1. PICK due \in SUBSET sv[k].unAckedPackets, quiet \in BOOLEAN :
          /\ sv' = [sv EXCEPT ![k] = g]
          /\ toClient' = [toClient EXCEPT ![k] = @ \cup TickOut(sv[k], due, quiet)]
    BY <1>6 DEF ServerTick
  <2>2. InMap(k) /\ objects' = objects
    BY <1>6 DEF ServerTick
  <2>3. \A p \in TickOut(sv[k], due, quiet) :
          p.type = "Realible" => p \in sv[k].unAckedPackets
    BY DEF TickOut, Control
  <2>4. objects[k] <= 1 =>
          Flow(g, toClient[k] \cup TickOut(sv[k], due, quiet), cl[k])
    BY <1>1, <2>2, <2>3, OwnerFlow DEF InMap
  <2> HIDE DEF g
  <2>5. CASE j = k
    BY <1>1, <2>1, <2>2, <2>4, <2>5 DEF TypeOK
  <2>6. CASE j # k
    BY <1>1, <2>1, <2>2, <2>6 DEF TypeOK
  <2> QED BY <2>5, <2>6
<1>7. ASSUME DoSync, NEW k \in Key
      PROVE  Good(sv'[k], toClient'[k], cl[k], objects'[k])
  <2>1. PICK d \in Data :
          /\ sv'[k] = Send(sv[k], d)
          /\ toClient'[k] = toClient[k] \cup SendOut(sv[k], d)
    BY <1>7 DEF DoSync
  <2>2. objects[k] <= 1 =>
          Flow(Send(sv[k], d), toClient[k] \cup SendOut(sv[k], d), cl[k])
    BY <1>1, SendFlow
  <2>3. objects[k] = 0 => Send(sv[k], d) = sv[k] /\ SendOut(sv[k], d) = {}
    BY <1>1 DEF Send, SendOut, CanSend, NoConnection
  <2> QED BY <1>1, <1>7, <2>1, <2>2, <2>3 DEF DoSync
<1>8. ASSUME SendAllUnrealible, NEW k \in Key
      PROVE  Good(sv'[k], toClient'[k], cl[k], objects'[k])
  <2>1. /\ sv'[k] = SendUnrealible(sv[k])
        /\ toClient'[k] = toClient[k] \cup SendUnrealibleOut(sv[k])
    BY <1>8 DEF SendAllUnrealible
  <2>2. \A p \in SendUnrealibleOut(sv[k]) : p.type # "Realible"
    BY DEF SendUnrealibleOut, Control
  <2>3. CASE sv[k].state = "Closed"
    <3>1. SendUnrealible(sv[k]) = sv[k] /\ SendUnrealibleOut(sv[k]) = {}
      BY <2>3 DEF SendUnrealible, SendUnrealibleOut, CanSend
    <3> QED BY <1>1, <1>8, <2>1, <3>1 DEF SendAllUnrealible
  <2>4. CASE sv[k].state # "Closed"
    <3>1. objects[k] <= 1 =>
            Flow(SendUnrealible(sv[k]), toClient[k] \cup SendUnrealibleOut(sv[k]),
                 cl[k])
      BY <1>1, <2>2, <2>4, OwnerFlow
    <3> QED BY <1>1, <1>8, <2>1, <2>4, <3>1 DEF SendAllUnrealible, InMap
  <2> QED BY <2>3, <2>4
<1>9. ASSUME ServerClose, NEW k \in Key
      PROVE  Good(sv'[k], toClient'[k], cl[k], objects'[k])
  <2>1. /\ sv'[k] = IF InMap(k) THEN FinalizeClose(Close(sv[k])) ELSE sv[k]
        /\ toClient'[k] = toClient[k] \cup CloseOut(sv[k])
        /\ objects' = objects
    BY <1>9 DEF ServerClose
  <2>2. \A p \in CloseOut(sv[k]) : p.type # "Realible"
    BY DEF CloseOut, Control
  <2>3. CASE ~ InMap(k)
    <3>1. CloseOut(sv[k]) = {}
      BY <2>3 DEF CloseOut, CanSend, InMap
    <3> QED BY <1>1, <2>1, <2>3, <3>1
  <2>4. CASE InMap(k)
    <3>1. objects[k] <= 1 =>
            Flow(FinalizeClose(Close(sv[k])), toClient[k] \cup CloseOut(sv[k]),
                 cl[k])
      BY <1>1, <2>2, <2>4, OwnerFlow DEF InMap
    <3> QED BY <1>1, <2>1, <2>4, <3>1
  <2> QED BY <2>3, <2>4
<1> HIDE DEF Good
<1> QED BY <1>3, <1>5, <1>6, <1>7, <1>8, <1>9 DEF ServerNext

(* Server to client, with one object for the address: what is handed to    *)
(* the client's listener is a prefix of what the server sent.              *)
THEOREM DeliversInOrderToClient == Spec => []InOrderToClient
<1>1. TypeOK /\ FlowToClient /\ [Next]_vars => FlowToClient'
  <2> SUFFICES ASSUME TypeOK, FlowToClient, [Next]_vars PROVE FlowToClient'
    OBVIOUS
  <2>1. CASE ServerNext
    BY <2>1, ServerNextFlowToClient
  <2>2. CASE \E k \in Key : ClientNext(k)
    BY <2>2, ClientNextFlowToClient
  <2>3. CASE UNCHANGED vars
    BY <2>3 DEF vars, FlowToClient
  <2> QED BY <2>1, <2>2, <2>3 DEF Next
<1>2. FlowToClient => InOrderToClient
  BY DEF FlowToClient, Flow, Received, InOrderToClient
<1> QED BY InitFlowToClient, <1>1, <1>2, TypeCorrect, PTL DEF Spec

-------------------------------------------------------------------------------
(* What an Ack means.  HasAllAcked is not inductive: a packet leaves       *)
(* unAckedPackets because of an Ack in flight, so the invariant says of    *)
(* those, too, that the other end has what they name, and that an end      *)
(* never sends an Ack again as if it were a packet.                        *)

Has(to, i) == i < to.realibleNumIn \/ i \in Ids(to.outOfOrderPackets)

Truthful(acks, to) ==
  \A p \in acks : p.type = "Ack" /\ p.orderId # 0 => Has(to, p.orderId)

Repeats(from) == \A p \in from.unAckedPackets : p.type # "Ack"

Confirmed(from, acks, to) ==
  /\ HasAllAcked(from, to)
  /\ Truthful(acks, to)
  /\ Repeats(from)

(* The two ends of an address, c and s with tc and ts on their way, when   *)
(* the server has made that many objects.  A client that has not connected *)
(* has sent nothing, a server that has made no object neither; an Ack can  *)
(* be trusted as long as both are the first and neither is over.           *)
Paired(c, s, tc, ts, made) ==
  /\ made = 0 => s = NoConnection /\ tc = {}
  /\ c.realibleNumOut = 0 => ts = {} /\ made = 0 /\ c.state = "Closed"
  /\ /\ c.state # "Closed"
     /\ made = 0 \/ (made = 1 /\ s.state # "Closed")
     => Confirmed(c, tc, s) /\ Confirmed(s, ts, c)

AckInv ==
  \A k \in Key : Paired(cl[k], sv[k], toClient[k], toServer[k], objects[k])

(* A sender that sends, closes or ticks.                                   *)
LEMMA SendConfirmed ==
  ASSUME NEW f \in Connection, NEW acks, NEW t, NEW d \in Data,
         Confirmed(f, acks, t)
  PROVE  Confirmed(Send(f, d), acks, t)
<1> SUFFICES ASSUME CanSend(f) PROVE Confirmed(Send(f, d), acks, t)
  BY DEF Send
<1> DEFINE p == RealiblePacket(f.realibleNumOut, d)
           g == Send(f, d)
<1>1. /\ g.realibleNumOut = f.realibleNumOut + 1
      /\ g.unAckedPackets = f.unAckedPackets \cup {p}
      /\ f.realibleNumOut \in Nat
  BY DEF Send, Connection
<1>2. p.orderId = f.realibleNumOut /\ p.type = "Realible"
  BY DEF RealiblePacket
<1> HIDE DEF g, p
<1>3. HasAllAcked(g, t)
  BY <1>1, <1>2 DEF Confirmed, HasAllAcked, Ids
<1>4. Repeats(g)
  BY <1>1, <1>2 DEF Confirmed, Repeats
<1> QED BY <1>3, <1>4 DEF Confirmed, g

LEMMA SenderKeepsConfirmed ==
  ASSUME NEW f, NEW g, NEW acks, NEW t, Confirmed(f, acks, t),
         g.realibleNumOut = f.realibleNumOut,
         g.unAckedPackets = f.unAckedPackets
  PROVE  Confirmed(g, acks, t)
  BY DEF Confirmed, HasAllAcked, Repeats

(* A receiver that sends, closes or ticks, and more datagrams for it to    *)
(* send that are no Acks.                                                  *)
LEMMA ReceiverKeepsConfirmed ==
  ASSUME NEW f, NEW acks, NEW more, NEW t, NEW u, Confirmed(f, acks, t),
         u.realibleNumIn = t.realibleNumIn,
         u.outOfOrderPackets = t.outOfOrderPackets,
         \A p \in more : p.type # "Ack"
  PROVE  Confirmed(f, acks \cup more, u)
  BY DEF Confirmed, HasAllAcked, Truthful, Has

(* What is not processData leaves alone of an object that does not end.    *)
LEMMA StepsKeep ==
  ASSUME NEW c \in Connection, NEW g,
         \/ g = SendUnrealible(c)
         \/ g = Close(c)
         \/ \E dead \in BOOLEAN : g = Ticked(c, dead)
  PROVE  /\ g.realibleNumOut = c.realibleNumOut
         /\ g.unAckedPackets = c.unAckedPackets
         /\ g.realibleNumIn = c.realibleNumIn
         /\ g.outOfOrderPackets = c.outOfOrderPackets
  BY DEF SendUnrealible, Close, Ticked, CanSend, Connection

(* processData as a sender: an Ack takes off what the other end has.       *)
LEMMA ProcessDataConfirmedOut ==
  ASSUME NEW f \in Connection, NEW acks \in SUBSET Packet, NEW t,
         NEW m \in acks, NEW n \in Nat \ {0},
         Confirmed(f, acks, t)
  PROVE  /\ Confirmed(ProcessData(f, m, n), acks, t)
         /\ Confirmed(ProcessData(f, m, n), acks \ {m}, t)
<1> DEFINE h == [f EXCEPT !.heard = TRUE]
           e == ProcessData(f, m, n)
           Same(x) == /\ x.realibleNumOut = f.realibleNumOut
                      /\ x.unAckedPackets = f.unAckedPackets
<1>1. h \in Connection /\ Same(h)
  BY PutHeard DEF Connection
<1>2. e =
        CASE m.type = "Ack"        -> ProcessAck(h, m)
          [] m.type = "Unrealible" -> ProcessUnrealible(h, m)
          [] m.type = "Realible"   -> ProcessRealible(h, m)
          [] m.type = "Connect"    -> ProcessConnect(h, m, n)
          [] m.type = "Disconnect" -> [h EXCEPT !.state = "Disconnected"]
          [] OTHER                 -> h
  BY DEF ProcessData
<1> HIDE DEF h, e
<1>3. CASE m.type # "Ack"
  <2>1. Same(ProcessUnrealible(h, m)) /\ Same(ProcessRealible(h, m))
    BY <1>1 DEF ProcessUnrealible, ProcessRealible, Later, Connection
  <2>2. Same(ProcessConnect(h, m, n)) /\ Same([h EXCEPT !.state = "Disconnected"])
    BY <1>1 DEF ProcessConnect, Connection
  <2>3. Same(e)
    BY <1>1, <1>2, <1>3, <2>1, <2>2
  <2>4. Confirmed(e, acks, t)
    BY <2>3, SenderKeepsConfirmed
  <2> QED BY <2>4 DEF Confirmed, Truthful, e
<1>4. CASE m.type = "Ack"
  <2>1. e = ProcessAck(h, m)
    BY <1>2, <1>4
  <2>2. /\ e.realibleNumOut = f.realibleNumOut
        /\ e.unAckedPackets = {p \in f.unAckedPackets : p.orderId # m.orderId}
    BY <1>1, <2>1 DEF ProcessAck, Connection
  <2>3. ASSUME NEW i \in 1 .. f.realibleNumOut - 1
        PROVE  i \in Ids(e.unAckedPackets) \/ Has(t, i)
    <3>1. i \in Ids(f.unAckedPackets) \/ Has(t, i)
      BY DEF Confirmed, HasAllAcked, Has
    <3>2. i # 0
      BY DEF Connection
    <3>3. i = m.orderId => Has(t, i)
      BY <1>4, <3>2 DEF Confirmed, Truthful
    <3> QED BY <2>2, <3>1, <3>3 DEF Ids
  <2>4. HasAllAcked(e, t) /\ Repeats(e)
    BY <2>2, <2>3 DEF HasAllAcked, Has, Repeats, Confirmed
  <2> QED BY <2>4 DEF Confirmed, Truthful, e
<1> QED BY <1>3, <1>4

(* processData as a receiver: what it has it keeps, and it has what it     *)
(* acknowledges.                                                           *)
LEMMA ProcessDataHas ==
  ASSUME NEW t \in Connection, NEW m \in Packet, NEW n \in Nat \ {0},
         Opens(t, m) => RunEndsAt(t, n)
  PROVE  LET e == ProcessData(t, m, n)
         IN  /\ \A i \in Nat \ {0} : Has(t, i) => Has(e, i)
             /\ Truthful(ProcessDataOut(m), e)
<1> DEFINE h == [t EXCEPT !.heard = TRUE]
           e == ProcessData(t, m, n)
           Keeps(x) == \A i \in Nat \ {0} : Has(t, i) => Has(x, i)
<1>1. /\ h \in Connection /\ h.realibleNumIn = t.realibleNumIn
      /\ h.outOfOrderPackets = t.outOfOrderPackets
      /\ h.realibleNumIn \in Nat
  BY PutHeard DEF Connection
<1>2. ProcessData(t, m, n) =
        CASE m.type = "Ack"        -> ProcessAck(h, m)
          [] m.type = "Unrealible" -> ProcessUnrealible(h, m)
          [] m.type = "Realible"   -> ProcessRealible(h, m)
          [] m.type = "Connect"    -> ProcessConnect(h, m, n)
          [] m.type = "Disconnect" -> [h EXCEPT !.state = "Disconnected"]
          [] OTHER                 -> h
  BY DEF ProcessData
<1>3. m.type \in PacketType /\ m.orderId \in Nat
  BY DEF Packet, Realibles, Controls, PacketType
<1> HIDE DEF h
<1>4. /\ Keeps(h) /\ Keeps(ProcessAck(h, m)) /\ Keeps(ProcessUnrealible(h, m))
      /\ Keeps([h EXCEPT !.state = "Disconnected"])
  BY <1>1 DEF Has, ProcessAck, ProcessUnrealible, Connection
<1>5. Keeps(ProcessRealible(h, m)) /\ Has(ProcessRealible(h, m), m.orderId)
  <2> DEFINE r == ProcessRealible(h, m)
  <2>1. CASE m.orderId = h.realibleNumIn
    <3>1. /\ r.realibleNumIn = h.realibleNumIn + 1
          /\ r.outOfOrderPackets = h.outOfOrderPackets
      BY <1>1, <2>1 DEF ProcessRealible, Connection
    <3> QED BY <1>1, <2>1, <3>1 DEF Has
  <2>2. CASE m.orderId > h.realibleNumIn
    <3>1. r = Later(h, m)
      BY <1>1, <1>3, <2>2 DEF ProcessRealible
    <3>2. /\ Later(h, m).realibleNumIn = h.realibleNumIn
          /\ Ids(Later(h, m).outOfOrderPackets) = Ids(h.outOfOrderPackets) \cup {m.orderId}
      BY <1>1 DEF Later, Ids, Connection
    <3> QED BY <1>1, <3>1, <3>2 DEF Has
  <2>3. CASE m.orderId < h.realibleNumIn
    <3>1. r = h
      BY <1>1, <1>3, <2>3 DEF ProcessRealible
    <3> QED BY <1>1, <2>3, <3>1 DEF Has
  <2> QED BY <1>1, <1>3, <2>1, <2>2, <2>3
<1>6. Keeps(ProcessConnect(h, m, n))
  <2>1. CASE Opens(h, m)
    <3> DEFINE r == ProcessConnect(h, m, n)
    <3>1. /\ r.realibleNumIn = n
          /\ r.outOfOrderPackets = {p \in h.outOfOrderPackets : p.orderId >= n}
      BY <1>1, <2>1 DEF ProcessConnect, Connection
    <3>2. ASSUME NEW i \in Nat \ {0}, Has(t, i) PROVE Has(r, i)
      <4>1. i \in Ids(h.outOfOrderPackets)
        BY <1>1, <2>1, <3>2 DEF Has, Opens
      <4>2. CASE i < n
        BY <3>1, <4>2 DEF Has
      <4>3. CASE i >= n
        BY <3>1, <4>1, <4>3 DEF Has, Ids
      <4> QED BY <4>2, <4>3
    <3> QED BY <3>2
  <2>2. CASE ~ Opens(h, m)
    BY <1>4, <2>2 DEF ProcessConnect
  <2> QED BY <2>1, <2>2
<1>7. Keeps(e)
  <2> HIDE DEF Keeps
  <2> QED BY <1>2, <1>4, <1>5, <1>6
<1>8. Truthful(ProcessDataOut(m), e)
  <2>1. CASE m.type = "Realible"
    <3>1. e = ProcessRealible(h, m)
      BY <1>2, <2>1
    <3>2. \A p \in ProcessDataOut(m) : p.orderId = m.orderId
      BY <2>1 DEF ProcessDataOut, Control
    <3> QED BY <1>5, <3>1, <3>2 DEF Truthful
  <2>2. CASE m.type # "Realible"
    <3>1. \A p \in ProcessDataOut(m) : p.orderId = 0
      BY <2>2 DEF ProcessDataOut, Control
    <3> QED BY <3>1 DEF Truthful
  <2> QED BY <2>1, <2>2
<1> QED BY <1>7, <1>8

LEMMA ProcessDataConfirmedIn ==
  ASSUME NEW f \in Connection, NEW acks \in SUBSET Packet, NEW t \in Connection,
         NEW m \in Packet, NEW n \in Nat \ {0}, Opens(t, m) => RunEndsAt(t, n),
         Confirmed(f, acks, t)
  PROVE  Confirmed(f, acks \cup ProcessDataOut(m), ProcessData(t, m, n))
<1> DEFINE e == ProcessData(t, m, n)
<1>1. /\ \A i \in Nat \ {0} : Has(t, i) => Has(e, i)
      /\ Truthful(ProcessDataOut(m), e)
  BY ProcessDataHas
<1>2. f.realibleNumOut \in Nat
  BY DEF Connection
<1> HIDE DEF e
<1>3. HasAllAcked(f, e)
  BY <1>1, <1>2 DEF Confirmed, HasAllAcked, Has
<1>4. \A p \in acks : p.orderId \in Nat
  BY DEF Packet, Realibles, Controls
<1>5. Truthful(acks, e)
  BY <1>1, <1>4 DEF Confirmed, Truthful
<1> QED BY <1>1, <1>3, <1>5 DEF Confirmed, Truthful, e

LEMMA InitAckInv == Init => AckInv
<1> SUFFICES ASSUME Init, NEW k \in Key
             PROVE  Paired(cl[k], sv[k], toClient[k], toServer[k], objects[k])
  BY DEF AckInv
<1>1. /\ cl[k] = NoConnection /\ sv[k] = NoConnection /\ objects[k] = 0
      /\ toClient[k] = {} /\ toServer[k] = {}
  BY DEF Init
<1> QED BY <1>1 DEF Paired, NoConnection

(* An object that has just been made trusts nothing and is trusted in      *)
(* nothing yet.                                                            *)
LEMMA NewConfirmed ==
  ASSUME NEW f, NEW acks, NEW t, Confirmed(NoConnection, acks, t)
  PROVE  Confirmed(NewConnection, acks, t)
  BY DEF Confirmed, HasAllAcked, Repeats, NewConnection, NoConnection,
         ConnectPacket, Control

LEMMA NewConfirms ==
  ASSUME NEW f, NEW acks, Confirmed(f, acks, NoConnection)
  PROVE  Confirmed(f, acks, NewConnection)
<1>1. /\ NewConnection.realibleNumIn = NoConnection.realibleNumIn
      /\ NewConnection.outOfOrderPackets = NoConnection.outOfOrderPackets
  BY DEF NewConnection, NoConnection
<1>2. Confirmed(f, acks \cup {}, NewConnection)
  BY <1>1, ReceiverKeepsConfirmed
<1> QED BY <1>2

(* A client's step.                                                        *)
LEMMA ClientNextAck ==
  ASSUME TypeOK, AckInv, NEW k \in Key, ClientNext(k)
  PROVE  AckInv'
<1> DEFINE c == cl[k]
           s == sv[k]
           tc == toClient[k]
           ts == toServer[k]
           made == objects[k]
           Both == made = 0 \/ (made = 1 /\ s.state # "Closed")
<1>1. /\ c \in Connection /\ s \in Connection
      /\ tc \in SUBSET Packet /\ ts \in SUBSET Packet
      /\ Paired(c, s, tc, ts, made)
  BY DEF TypeOK, AckInv
<1>2. sv' = sv /\ objects' = objects
  BY DEF ClientNext, ClientConnect, ClientSend, ClientSendUnrealible,
         ClientClose, ClientReceive, ClientTick, ServerSide
<1>3. ASSUME NEW g, NEW out, NEW net, ClientStep(k, g, out),
             toClient' = [toClient EXCEPT ![k] = net],
             Paired(g, s, net, ts \cup out, made)
      PROVE  AckInv'
  <2>1. cl'[k] = g /\ toServer'[k] = ts \cup out /\ toClient'[k] = net
    BY <1>3 DEF ClientStep, TypeOK
  <2>2. \A j \in Key \ {k} : /\ cl'[j] = cl[j] /\ toServer'[j] = toServer[j]
                             /\ toClient'[j] = toClient[j]
    BY <1>3 DEF ClientStep, TypeOK
  <2> QED BY <1>2, <1>3, <2>1, <2>2 DEF AckInv
<1>4. toClient' = toClient => toClient' = [toClient EXCEPT ![k] = tc]
  BY DEF TypeOK
<1>5. CASE ClientConnect(k)
  <2>1. c = NoConnection /\ ClientStep(k, NewConnection, {ConnectPacket})
        /\ toClient' = toClient
    BY <1>5 DEF ClientConnect, ServerSide
  <2>2. ts = {} /\ made = 0 /\ s = NoConnection /\ tc = {}
    BY <1>1, <2>1 DEF Paired, NoConnection
  <2>3. /\ Confirmed(NewConnection, {}, NoConnection)
        /\ Confirmed(NoConnection, {ConnectPacket}, NewConnection)
    BY DEF Confirmed, HasAllAcked, Truthful, Repeats, NewConnection,
           NoConnection, ConnectPacket, Control
  <2>4. NewConnection.realibleNumOut = 1
    BY DEF NewConnection, NoConnection
  <2>5. Paired(NewConnection, s, tc, ts \cup {ConnectPacket}, made)
    BY <2>2, <2>3, <2>4 DEF Paired
  <2> QED BY <1>3, <1>4, <2>1, <2>5
<1>6. ASSUME NEW g, NEW out, NEW net, c.state # "Closed",
             g.realibleNumOut = c.realibleNumOut
               \/ g.realibleNumOut = c.realibleNumOut + 1,
             net \subseteq tc,
             g.state = "Closed" \/
               (Both => Confirmed(g, net, s) /\ Confirmed(s, ts \cup out, g))
      PROVE  Paired(g, s, net, ts \cup out, made)
  <2>1. g.realibleNumOut # 0
    <3>1. c.realibleNumOut \in Nat
      BY <1>1 DEF Connection
    <3>2. c.realibleNumOut # 0
      BY <1>1, <1>6 DEF Paired
    <3> QED BY <1>6, <3>1, <3>2
  <2>2. made = 0 => s = NoConnection /\ net = {}
    BY <1>1, <1>6 DEF Paired
  <2> QED BY <1>6, <2>1, <2>2 DEF Paired
<1>7. c.state # "Closed" /\ Both => Confirmed(c, tc, s) /\ Confirmed(s, ts, c)
  BY <1>1 DEF Paired
<1>8. CASE ClientSend(k)
  <2>1. PICK d \in Data : ClientStep(k, Send(c, d), SendOut(c, d))
    BY <1>8 DEF ClientSend
  <2>2. c.state # "Closed" /\ CanSend(c) /\ toClient' = toClient
    BY <1>8 DEF ClientSend, ClientReady, CanSend, ServerSide
  <2>3. /\ Send(c, d).realibleNumOut = c.realibleNumOut + 1
        /\ Send(c, d).realibleNumIn = c.realibleNumIn
        /\ Send(c, d).outOfOrderPackets = c.outOfOrderPackets
    BY <1>1, <2>2 DEF Send, Connection
  <2>4. \A p \in SendOut(c, d) : p.type # "Ack"
    BY DEF SendOut, RealiblePacket
  <2>5. Both => /\ Confirmed(Send(c, d), tc, s)
                /\ Confirmed(s, ts \cup SendOut(c, d), Send(c, d))
    BY <1>1, <1>7, <2>2, <2>3, <2>4, SendConfirmed, ReceiverKeepsConfirmed
  <2>6. Paired(Send(c, d), s, tc, ts \cup SendOut(c, d), made)
    BY <1>6, <2>2, <2>3, <2>5
  <2> QED BY <1>3, <1>4, <2>1, <2>2, <2>6
<1>9. ASSUME NEW g, NEW out, c.state # "Closed",
             \/ g = SendUnrealible(c)
             \/ g = Close(c)
             \/ \E dead \in BOOLEAN : g = Ticked(c, dead),
             Repeats(c) => \A p \in out : p.type # "Ack"
      PROVE  Paired(g, s, tc, ts \cup out, made)
  <2>1. /\ g.realibleNumOut = c.realibleNumOut
        /\ g.unAckedPackets = c.unAckedPackets
        /\ g.realibleNumIn = c.realibleNumIn
        /\ g.outOfOrderPackets = c.outOfOrderPackets
    BY <1>1, <1>9, StepsKeep
  <2>2. Both => Repeats(c)
    BY <1>7, <1>9 DEF Confirmed
  <2>3. Both => Confirmed(g, tc, s)
    BY <1>7, <1>9, <2>1, SenderKeepsConfirmed
  <2>4. Both => Confirmed(s, ts \cup out, g)
    BY <1>7, <1>9, <2>1, <2>2, ReceiverKeepsConfirmed
  <2> QED BY <1>6, <1>9, <2>1, <2>3, <2>4
<1>10. CASE ClientSendUnrealible(k)
  <2>1. /\ ClientStep(k, SendUnrealible(c), SendUnrealibleOut(c))
        /\ toClient' = toClient /\ c.state # "Closed"
    BY <1>10 DEF ClientSendUnrealible, ServerSide, ClientReady, CanSend
  <2>2. \A p \in SendUnrealibleOut(c) : p.type # "Ack"
    BY DEF SendUnrealibleOut, Control
  <2>3. Paired(SendUnrealible(c), s, tc, ts \cup SendUnrealibleOut(c), made)
    BY <1>9, <2>1, <2>2
  <2> QED BY <1>3, <1>4, <2>1, <2>3
<1>11. ASSUME NEW g, NEW out, ClientStep(k, FinalizeClose(Close(g)), out),
              g \in Connection, g.realibleNumOut = c.realibleNumOut,
              toClient' = toClient, c.state # "Closed"
       PROVE  AckInv'
  <2> DEFINE e == FinalizeClose(Close(g))
  <2>1. e.state = "Closed" /\ e.realibleNumOut = c.realibleNumOut
    BY <1>11 DEF FinalizeClose, Close, Connection
  <2>2. ClientStep(k, e, out)
    BY <1>11
  <2> HIDE DEF e
  <2>3. Paired(e, s, tc, ts \cup out, made)
    BY <1>6, <1>11, <2>1
  <2> QED BY <1>3, <1>4, <1>11, <2>2, <2>3
<1>12. CASE ClientClose(k)
  BY <1>1, <1>11, <1>12 DEF ClientClose, ServerSide, ClientReady, CanSend
<1>13. CASE ClientReceive(k)
  <2>1. PICK m \in tc, n \in 1 .. MaxSync + 1 :
          /\ Opens(c, m) => RunEndsAt(c, n)
          /\ ClientStep(k, ProcessData(c, m, n), ProcessDataOut(m))
          /\ toClient' = [toClient EXCEPT ![k] = Taken(@, m)]
    BY <1>13 DEF ClientReceive
  <2> DEFINE net == Taken(tc, m)
             e == ProcessData(c, m, n)
  <2>2. n \in Nat \ {0} /\ m \in Packet /\ c.state # "Closed"
    BY <1>1, <1>13, BoundsAssumption DEF ClientReceive
  <2>3. net = tc \/ net = tc \ {m}
    BY DEF Taken
  <2>4. e.realibleNumOut = c.realibleNumOut
    BY <1>1, <2>2, ProcessDataSends
  <2>5. Both => Confirmed(e, net, s)
    <3>1. Both => Confirmed(e, tc, s) /\ Confirmed(e, tc \ {m}, s)
      <4> SUFFICES ASSUME Both PROVE Confirmed(e, tc, s) /\ Confirmed(e, tc \ {m}, s)
        OBVIOUS
      <4>1. Confirmed(c, tc, s)
        BY <1>7, <2>2
      <4> HIDE DEF tc, c, s
      <4> QED BY <1>1, <2>2, <4>1, ProcessDataConfirmedOut
    <3> QED BY <2>3, <3>1
  <2>6. Both => Confirmed(s, ts \cup ProcessDataOut(m), e)
    BY <1>1, <1>7, <2>1, <2>2, ProcessDataConfirmedIn
  <2>7. toClient' = [toClient EXCEPT ![k] = net] /\ ClientStep(k, e, ProcessDataOut(m))
    BY <2>1
  <2> HIDE DEF net, e
  <2>8. net \subseteq tc
    BY <2>3
  <2>9. Paired(e, s, net, ts \cup ProcessDataOut(m), made)
    BY <1>6, <2>2, <2>4, <2>5, <2>6, <2>8
  <2> QED BY <1>3, <2>7, <2>9
<1>14. ASSUME NEW dead \in BOOLEAN, ClientTick(k, dead) PROVE AckInv'
  <2> DEFINE g == Ticked(c, dead)
  <2>1. PICK due \in SUBSET c.unAckedPackets, quiet \in BOOLEAN :
          ClientStep(k, IF CanSend(g) THEN g ELSE FinalizeClose(Close(g)),
                     TickOut(c, due, quiet))
    BY <1>14 DEF ClientTick
  <2>2. toClient' = toClient /\ c.state # "Closed"
    BY <1>14 DEF ClientTick, ServerSide
  <2>3. CASE CanSend(g)
    <3>1. Repeats(c) => \A p \in TickOut(c, due, quiet) : p.type # "Ack"
      BY DEF Repeats, TickOut, Control
    <3>2. Paired(g, s, tc, ts \cup TickOut(c, due, quiet), made)
      BY <1>9, <2>2, <3>1
    <3> QED BY <1>3, <1>4, <2>1, <2>2, <2>3, <3>2
  <2>4. CASE ~ CanSend(g)
    <3>1. g \in Connection /\ g.realibleNumOut = c.realibleNumOut
      BY <1>1, TickedType, StepsKeep
    <3> HIDE DEF g
    <3> QED BY <1>11, <2>1, <2>2, <2>4, <3>1
  <2> QED BY <2>3, <2>4
<1> QED BY <1>5, <1>8, <1>10, <1>12, <1>13, <1>14 DEF ClientNext

(* The server's steps, one address at a time.                              *)
LEMMA PairedOwner ==
  ASSUME NEW c \in Connection, NEW s \in Connection, NEW tc \in SUBSET Packet,
         NEW ts \in SUBSET Packet, NEW made, Paired(c, s, tc, ts, made),
         NEW g, NEW out,
         \/ g = SendUnrealible(s)
         \/ g = Close(s)
         \/ \E dead \in BOOLEAN : g = Ticked(s, dead),
         Repeats(s) => \A p \in out : p.type # "Ack",
         g.state # "Closed" => s.state # "Closed",
         made = 0 => g = s /\ out = {}
  PROVE  Paired(c, g, tc \cup out, ts, made)
<1>1. /\ g.realibleNumOut = s.realibleNumOut
      /\ g.unAckedPackets = s.unAckedPackets
      /\ g.realibleNumIn = s.realibleNumIn
      /\ g.outOfOrderPackets = s.outOfOrderPackets
  BY StepsKeep
<1>2. ASSUME Confirmed(c, tc, s), Confirmed(s, ts, c)
      PROVE  Confirmed(c, tc \cup out, g) /\ Confirmed(g, ts, c)
  <2>1. Repeats(s)
    BY <1>2 DEF Confirmed
  <2>2. Confirmed(c, tc \cup out, g)
    BY <1>1, <1>2, <2>1, ReceiverKeepsConfirmed
  <2>3. Confirmed(g, ts, c)
    BY <1>1, <1>2, SenderKeepsConfirmed
  <2> QED BY <2>2, <2>3
<1> QED BY <1>2 DEF Paired

LEMMA PairedGone ==
  ASSUME NEW c, NEW s, NEW tc, NEW ts, NEW made, Paired(c, s, tc, ts, made),
         NEW g, NEW net, made # 0, g.state = "Closed"
  PROVE  Paired(c, g, net, ts, made)
  BY DEF Paired

LEMMA PairedReceive ==
  ASSUME NEW c \in Connection, NEW s \in Connection, NEW tc \in SUBSET Packet,
         NEW ts \in SUBSET Packet, NEW made \in Nat, Paired(c, s, tc, ts, made),
         NEW m \in ts, NEW n \in Nat \ {0}, NEW net,
         net = ts \/ net = ts \ {m},
         s.state # "Closed", Opens(s, m) => RunEndsAt(s, n)
  PROVE  Paired(c, ProcessData(s, m, n), tc \cup ProcessDataOut(m), net, made)
<1> DEFINE e == ProcessData(s, m, n)
<1>1. m \in Packet
  OBVIOUS
<1>2. made # 0
  <2>1. NoConnection.state = "Closed"
    BY DEF NoConnection
  <2> QED BY <2>1 DEF Paired
<1>3. c.realibleNumOut # 0
  BY DEF Paired
<1>4. ASSUME Confirmed(c, tc, s), Confirmed(s, ts, c)
      PROVE  Confirmed(c, tc \cup ProcessDataOut(m), e) /\ Confirmed(e, net, c)
  <2>1. Confirmed(c, tc \cup ProcessDataOut(m), e)
    BY <1>1, <1>4, ProcessDataConfirmedIn
  <2>2. Confirmed(e, ts, c) /\ Confirmed(e, ts \ {m}, c)
    BY <1>1, <1>4, ProcessDataConfirmedOut
  <2> QED BY <2>1, <2>2
<1> HIDE DEF e
<1>5. CASE made = 1 /\ c.state # "Closed"
  BY <1>2, <1>3, <1>4, <1>5 DEF Paired, e
<1>6. CASE ~ (made = 1 /\ c.state # "Closed")
  BY <1>2, <1>3, <1>6 DEF Paired, e
<1> QED BY <1>5, <1>6

(* A stray datagram makes an object: the first one, or one that the        *)
(* client's Acks are no longer trusted for.                                *)
LEMMA PairedStray ==
  ASSUME NEW c \in Connection, NEW s \in Connection, NEW tc \in SUBSET Packet,
         NEW ts \in SUBSET Packet, NEW made \in Nat, Paired(c, s, tc, ts, made),
         NEW m \in ts, NEW n \in Nat \ {0}, NEW net,
         net = ts \/ net = ts \ {m},
         Opens(NewConnection, m) => RunEndsAt(NewConnection, n)
  PROVE  Paired(c, ProcessData(NewConnection, m, n),
                tc \cup ProcessDataOut(m) \cup {ConnectPacket}, net, made + 1)
<1> DEFINE e == ProcessData(NewConnection, m, n)
           all == tc \cup ProcessDataOut(m)
<1>1. c.realibleNumOut # 0
  BY DEF Paired
<1>2. ASSUME made = 0, c.state # "Closed"
      PROVE  Confirmed(c, all \cup {ConnectPacket}, e) /\ Confirmed(e, net, c)
  <2>1. Confirmed(c, tc, NewConnection) /\ Confirmed(NewConnection, ts, c)
    BY <1>2, NewConfirmed, NewConfirms DEF Paired
  <2>2. NewConnection \in Connection /\ m \in Packet
    BY NewConnectionType
  <2>3. Confirmed(c, all, e)
    BY <2>1, <2>2, ProcessDataConfirmedIn
  <2>4. \A p \in {ConnectPacket} : p.type # "Ack"
    BY DEF ConnectPacket, Control
  <2>5. Confirmed(e, ts, c) /\ Confirmed(e, ts \ {m}, c)
    BY <2>1, <2>2, ProcessDataConfirmedOut
  <2> HIDE DEF e, all
  <2>6. Confirmed(c, all \cup {ConnectPacket}, e)
    BY <2>3, <2>4, ReceiverKeepsConfirmed
  <2> QED BY <2>5, <2>6
<1> HIDE DEF e, all
<1>3. Paired(c, e, all \cup {ConnectPacket}, net, made + 1)
  BY <1>1, <1>2 DEF Paired
<1> QED BY <1>3 DEF e, all

LEMMA ServerNextAck ==
  ASSUME TypeOK, AckInv, ServerNext
  PROVE  AckInv'
<1>1. ASSUME NEW k \in Key
      PROVE  /\ cl[k] \in Connection /\ sv[k] \in Connection
             /\ toClient[k] \in SUBSET Packet /\ toServer[k] \in SUBSET Packet
             /\ objects[k] \in Nat
             /\ Paired(cl[k], sv[k], toClient[k], toServer[k], objects[k])
             /\ InMap(k) => objects[k] # 0
  BY DEF TypeOK, AckInv, Paired, InMap, NoConnection
<1>2. SUFFICES cl' = cl /\ \A k \in Key :
                 Paired(cl[k], sv'[k], toClient'[k], toServer'[k], objects'[k])
  BY DEF AckInv
<1>3. cl' = cl
  BY DEF ServerNext, ServerReceive, ServerTick, DoSync, SendAllUnrealible,
         ServerClose, ClientSide
<1>4. ASSUME NEW k \in Key
      PROVE  Paired(cl[k], Close(sv[k]), toClient[k] \cup CloseOut(sv[k]),
                    toServer[k], objects[k])
  <2>1. \A p \in CloseOut(sv[k]) : p.type # "Ack"
    BY DEF CloseOut, Control
  <2>2. Close(sv[k]).state # "Closed" => sv[k].state # "Closed"
    BY <1>1 DEF Close, CanSend, Connection
  <2>3. objects[k] = 0 => Close(sv[k]) = sv[k] /\ CloseOut(sv[k]) = {}
    BY <1>1 DEF InMap, Close, CloseOut, CanSend
  <2> QED BY <1>1, <2>1, <2>2, <2>3, PairedOwner
<1>5. ASSUME NEW k \in Key, ServerReceive(k), NEW j \in Key
      PROVE  Paired(cl[j], sv'[j], toClient'[j], toServer'[j], objects'[j])
  <2> DEFINE c == IF ~ InMap(k) THEN NewConnection ELSE sv[k]
  <2>1. PICK m \in toServer[k], n \in Nat \ {0} :
          /\ m \in Packet /\ c \in Connection
          /\ Opens(c, m) => RunEndsAt(c, n)
          /\ sv'[k] = ProcessData(c, m, n)
          /\ toClient'[k] = toClient[k] \cup ProcessDataOut(m) \cup
                              (IF ~ InMap(k) THEN {ConnectPacket} ELSE {})
          /\ objects'[k] = IF ~ InMap(k) THEN objects[k] + 1 ELSE objects[k]
          /\ toServer'[k] = Taken(toServer[k], m)
          /\ \A i \in Key \ {k} :
               /\ \/ sv'[i] = sv[i] /\ toClient'[i] = toClient[i]
                  \/ sv'[i] = Close(sv[i])
                     /\ toClient'[i] = toClient[i] \cup CloseOut(sv[i])
               /\ objects'[i] = objects[i] /\ toServer'[i] = toServer[i]
    BY <1>5, ServerReceiveParts
  <2>2. toServer'[k] = toServer[k] \/ toServer'[k] = toServer[k] \ {m}
    BY <2>1 DEF Taken
  <2>3. CASE j # k
    BY <1>1, <1>4, <2>1, <2>3
  <2>4. CASE j = k /\ InMap(k)
    <3>1. toClient'[k] = toClient[k] \cup ProcessDataOut(m)
      BY <2>1, <2>4
    <3>2. sv[k].state # "Closed"
      BY <2>4 DEF InMap
    <3> QED BY <1>1, <2>1, <2>2, <2>4, <3>1, <3>2, PairedReceive
  <2>5. CASE j = k /\ ~ InMap(k)
    BY <1>1, <2>1, <2>2, <2>5, PairedStray
  <2> QED BY <2>3, <2>4, <2>5
<1>6. ASSUME NEW k \in Key, NEW dead \in BOOLEAN, ServerTick(k, dead), NEW j \in Key
      PROVE  Paired(cl[j], sv'[j], toClient'[j], toServer'[j], objects'[j])
  <2> DEFINE c == Ticked(sv[k], dead)
             g == IF CanSend(c) THEN c ELSE FinalizeClose(Close(c))
  <2>1. PICK due \in SUBSET sv[k].unAckedPackets, quiet \in BOOLEAN :
          /\ sv' = [sv EXCEPT ![k] = g]
          /\ toClient' = [toClient EXCEPT ![k] = @ \cup TickOut(sv[k], due, quiet)]
    BY <1>6 DEF ServerTick
  <2>2. InMap(k) /\ objects' = objects /\ toServer' = toServer
    BY <1>6 DEF ServerTick
  <2>3. Paired(cl[k], g, toClient[k] \cup TickOut(sv[k], due, quiet),
               toServer[k], objects[k])
    <3>1. CASE CanSend(c)
      <4>1. Repeats(sv[k]) => \A p \in TickOut(sv[k], due, quiet) : p.type # "Ack"
        BY DEF Repeats, TickOut, Control
      <4>2. c.state # "Closed" => sv[k].state # "Closed"
        BY <2>2 DEF InMap
      <4>3. g = c
        BY <3>1
      <4> HIDE DEF g
      <4> QED BY <1>1, <2>2, <4>1, <4>2, <4>3, PairedOwner
    <3>2. CASE ~ CanSend(c)
      <4>1. c \in Connection
        BY <1>1, TickedType
      <4>2. Close(c) \in Connection
        BY <4>1, CloseType
      <4>3. g.state = "Closed"
        BY <3>2, <4>2 DEF FinalizeClose, Connection
      <4> HIDE DEF g
      <4> QED BY <1>1, <2>2, <4>3, PairedGone
    <3> QED BY <3>1, <3>2
  <2> HIDE DEF g
  <2>4. CASE j = k
    BY <2>1, <2>2, <2>3, <2>4 DEF TypeOK
  <2>5. CASE j # k
    BY <1>1, <2>1, <2>2, <2>5 DEF TypeOK
  <2> QED BY <2>4, <2>5
<1>7. ASSUME DoSync, NEW k \in Key
      PROVE  Paired(cl[k], sv'[k], toClient'[k], toServer'[k], objects'[k])
  <2>1. PICK d \in Data :
          /\ sv'[k] = Send(sv[k], d)
          /\ toClient'[k] = toClient[k] \cup SendOut(sv[k], d)
    BY <1>7 DEF DoSync
  <2>2. objects' = objects /\ toServer' = toServer
    BY <1>7 DEF DoSync
  <2>3. CASE ~ CanSend(sv[k])
    <3>1. sv'[k] = sv[k] /\ toClient'[k] = toClient[k]
      BY <2>1, <2>3 DEF Send, SendOut
    <3> QED BY <1>1, <2>2, <3>1
  <2>4. CASE CanSend(sv[k])
    <3> DEFINE g == Send(sv[k], d)
    <3>1. sv[k].state # "Closed" /\ objects[k] # 0
      BY <1>1, <2>4 DEF CanSend, InMap
    <3>2. /\ g.realibleNumIn = sv[k].realibleNumIn
          /\ g.outOfOrderPackets = sv[k].outOfOrderPackets
      BY <1>1, <2>4 DEF Send, Connection
    <3>3. \A p \in SendOut(sv[k], d) : p.type # "Ack"
      BY DEF SendOut, RealiblePacket
    <3>4. ASSUME Confirmed(cl[k], toClient[k], sv[k]),
                 Confirmed(sv[k], toServer[k], cl[k])
          PROVE  /\ Confirmed(cl[k], toClient[k] \cup SendOut(sv[k], d), g)
                 /\ Confirmed(g, toServer[k], cl[k])
      <4>1. Confirmed(g, toServer[k], cl[k])
        BY <1>1, <3>4, SendConfirmed
      <4> HIDE DEF g
      <4>2. Confirmed(cl[k], toClient[k] \cup SendOut(sv[k], d), g)
        BY <3>2, <3>3, <3>4, ReceiverKeepsConfirmed
      <4> QED BY <4>1, <4>2
    <3> HIDE DEF g
    <3>5. Paired(cl[k], g, toClient[k] \cup SendOut(sv[k], d), toServer[k],
                 objects[k])
      BY <1>1, <3>1, <3>4 DEF Paired
    <3> QED BY <2>1, <2>2, <3>5 DEF g
  <2> QED BY <2>3, <2>4
<1>8. ASSUME SendAllUnrealible, NEW k \in Key
      PROVE  Paired(cl[k], sv'[k], toClient'[k], toServer'[k], objects'[k])
  <2>1. /\ sv'[k] = SendUnrealible(sv[k])
        /\ toClient'[k] = toClient[k] \cup SendUnrealibleOut(sv[k])
        /\ objects' = objects /\ toServer' = toServer
    BY <1>8 DEF SendAllUnrealible, ClientSide
  <2>2. \A p \in SendUnrealibleOut(sv[k]) : p.type # "Ack"
    BY DEF SendUnrealibleOut, Control
  <2>3. SendUnrealible(sv[k]).state = sv[k].state
    BY <1>1 DEF SendUnrealible, Connection
  <2>4. objects[k] = 0 => SendUnrealible(sv[k]) = sv[k] /\ SendUnrealibleOut(sv[k]) = {}
    BY <1>1 DEF InMap, SendUnrealible, SendUnrealibleOut, CanSend
  <2> DEFINE g == SendUnrealible(sv[k])
             out == SendUnrealibleOut(sv[k])
  <2>5. Paired(cl[k], g, toClient[k] \cup out, toServer[k], objects[k])
    BY <1>1, <2>2, <2>3, <2>4, PairedOwner
  <2> QED BY <2>1, <2>5
<1>9. ASSUME ServerClose, NEW k \in Key
      PROVE  Paired(cl[k], sv'[k], toClient'[k], toServer'[k], objects'[k])
  <2>1. /\ sv'[k] = IF InMap(k) THEN FinalizeClose(Close(sv[k])) ELSE sv[k]
        /\ toClient'[k] = toClient[k] \cup CloseOut(sv[k])
        /\ objects' = objects /\ toServer' = toServer
    BY <1>9 DEF ServerClose, ClientSide
  <2>2. CASE ~ InMap(k)
    <3>1. CloseOut(sv[k]) = {}
      BY <2>2 DEF CloseOut, CanSend, InMap
    <3> QED BY <1>1, <2>1, <2>2, <3>1
  <2>3. CASE InMap(k)
    <3>1. Close(sv[k]) \in Connection
      BY <1>1, CloseType
    <3>2. sv'[k].state = "Closed"
      BY <2>1, <2>3, <3>1 DEF FinalizeClose, Connection
    <3> QED BY <1>1, <2>1, <2>3, <3>2, PairedGone
  <2> QED BY <2>2, <2>3
<1> QED BY <1>3, <1>5, <1>6, <1>7, <1>8, <1>9 DEF ServerNext

(* An acknowledged packet has arrived: as long as both ends are the first  *)
(* for the address, neither takes a packet off unAckedPackets that the     *)
(* other does not have.                                                    *)
THEOREM AcksAreTrue == Spec => []AckedMeansReceived
<1>1. TypeOK /\ AckInv /\ [Next]_vars => AckInv'
  <2> SUFFICES ASSUME TypeOK, AckInv, [Next]_vars PROVE AckInv'
    OBVIOUS
  <2>1. CASE ServerNext
    BY <2>1, ServerNextAck
  <2>2. CASE \E k \in Key : ClientNext(k)
    BY <2>2, ClientNextAck
  <2>3. CASE UNCHANGED vars
    BY <2>3 DEF vars, AckInv
  <2> QED BY <2>1, <2>2, <2>3 DEF Next
<1>2. AckInv => AckedMeansReceived
  BY DEF AckInv, Paired, Confirmed, AckedMeansReceived, InMap
<1> QED BY InitAckInv, <1>1, <1>2, TypeCorrect, PTL DEF Spec

-------------------------------------------------------------------------------
(* The session implements the reliable channel.                            *)

(* A prefix of what was sent is what was sent up to its length.            *)
LEMMA PrefixIsSubSeq ==
  ASSUME NEW s \in Seq(Data), NEW t \in Seq(Data), Prefix(s, t)
  PROVE  s = SubSeq(t, 1, Len(s))
<1>1. Len(s) \in Nat /\ Len(t) \in Nat /\ Len(s) <= Len(t)
      /\ \A i \in 1 .. Len(s) : s[i] = t[i]
  BY DEF Prefix
<1>2. \A i \in 1 .. Len(s) : t[i] \in Data
  BY <1>1, ElementOfSeq
<1> DEFINE u == SubSeq(t, 1, Len(s))
<1>3. u \in Seq(Data) /\ Len(u) = Len(s) /\ \A i \in 1 .. Len(s) : u[i] = t[i]
  <2>1. /\ u \in Seq(Data)
        /\ Len(u) = IF 1 <= Len(s) THEN Len(s) - 1 + 1 ELSE 0
        /\ \A i \in 1 .. Len(s) - 1 + 1 : u[i] = t[1 + i - 1]
    BY <1>1, <1>2, SubSeqProperties
  <2> HIDE DEF u
  <2> QED BY <1>1, <2>1
<1> HIDE DEF u
<1>4. s = u
  BY <1>1, <1>3, SeqEqual
<1> QED BY <1>4 DEF u

(* processData hands over more, or nothing.                                *)
LEMMA ProcessDataGot ==
  ASSUME NEW c \in Connection, NEW m \in Packet, NEW n \in Nat \ {0},
         Opens(c, m) => RunEndsAt(c, n)
  PROVE  LET e == ProcessData(c, m, n)
         IN  e.got = c.got \/ Len(e.got) > Len(c.got)
<1> DEFINE h == [c EXCEPT !.heard = TRUE]
           e == ProcessData(c, m, n)
           Grows(x) == x.got = c.got \/ Len(x.got) > Len(c.got)
           run == [i \in 1 .. n-1 |-> DataOf(c.outOfOrderPackets, i)]
<1>1. /\ h \in Connection /\ h.got = c.got
      /\ h.outOfOrderPackets = c.outOfOrderPackets
      /\ h.realibleNumIn = c.realibleNumIn
  BY PutHeard DEF Connection
<1>2. ProcessData(c, m, n) =
        CASE m.type = "Ack"        -> ProcessAck(h, m)
          [] m.type = "Unrealible" -> ProcessUnrealible(h, m)
          [] m.type = "Realible"   -> ProcessRealible(h, m)
          [] m.type = "Connect"    -> ProcessConnect(h, m, n)
          [] m.type = "Disconnect" -> [h EXCEPT !.state = "Disconnected"]
          [] OTHER                 -> h
  BY DEF ProcessData
<1>3. c.got \in Seq(Data) /\ Len(c.got) \in Nat
  BY DEF Connection
<1>4. Opens(c, m) <=> Opens(h, m)
  BY <1>1 DEF Opens
<1> HIDE DEF h
<1>5. ProcessAck(h, m).got = c.got /\ ProcessUnrealible(h, m).got = c.got
      /\ [h EXCEPT !.state = "Disconnected"].got = c.got
  BY <1>1 DEF ProcessAck, ProcessUnrealible, Connection
<1>6. m.type = "Realible" => Grows(ProcessRealible(h, m))
  <2> SUFFICES ASSUME m.type = "Realible" PROVE Grows(ProcessRealible(h, m))
    OBVIOUS
  <2>1. m.data \in Data
    BY DEF Packet, Realibles, Controls, PacketType
  <2>2. Len(Append(c.got, m.data)) = Len(c.got) + 1
    BY <1>3, <2>1, AppendProperties
  <2>3. ProcessRealible(h, m).got \in {c.got, Append(c.got, m.data)}
    BY <1>1 DEF ProcessRealible, Later, Connection
  <2> QED BY <1>3, <2>2, <2>3
<1>7. Opens(h, m) => Grows(ProcessConnect(h, m, n))
  <2> SUFFICES ASSUME Opens(h, m) PROVE Grows(ProcessConnect(h, m, n))
    OBVIOUS
  <2>1. ProcessConnect(h, m, n).got = c.got \o run
    BY <1>1 DEF ProcessConnect, Connection
  <2>2. run \in Seq(Data)
    BY <1>4, RunType
  <2> HIDE DEF run
  <2>3. CASE run = << >>
    BY <1>3, <2>1, <2>3, ConcatEmptySeq
  <2>4. CASE run # << >>
    <3>1. Len(run) \in Nat \ {0}
      BY <2>2, <2>4, EmptySeq
    <3>2. Len(c.got \o run) = Len(c.got) + Len(run)
      BY <1>3, <2>2, ConcatProperties
    <3> QED BY <1>3, <2>1, <3>1, <3>2
  <2> QED BY <2>3, <2>4
<1>8. ~ Opens(h, m) => ProcessConnect(h, m, n).got = c.got
  BY <1>1 DEF ProcessConnect
<1>9. Grows(e)
  <2> HIDE DEF Grows
  <2>1. \A x : x.got = c.got => Grows(x)
    BY DEF Grows
  <2> QED BY <1>1, <1>2, <1>5, <1>6, <1>7, <1>8, <2>1
<1> QED BY <1>9

(* The Connect that makes an object opens it and hands over nothing.       *)
LEMMA StrayGot ==
  ASSUME NEW m \in Packet, m.type = "Connect", NEW n \in Nat \ {0},
         Opens(NewConnection, m) => RunEndsAt(NewConnection, n)
  PROVE  ProcessData(NewConnection, m, n).got = << >>
<1> DEFINE h == [NewConnection EXCEPT !.heard = TRUE]
           run == [i \in 1 .. n-1 |-> DataOf(h.outOfOrderPackets, i)]
<1>1. /\ NewConnection.realibleNumIn = 0 /\ NewConnection.got = << >>
      /\ NewConnection.outOfOrderPackets = {}
      /\ NewConnection \in Connection
  BY NewConnectionType DEF NewConnection, NoConnection
<1>2. /\ h.realibleNumIn = 0 /\ h.got = << >> /\ h \in Connection
  BY <1>1, PutHeard DEF Connection
<1>3. n = 1
  <2>1. RunEndsAt(NewConnection, n)
    BY <1>1 DEF Opens
  <2>2. ASSUME n # 1 PROVE FALSE
    <3>1. 1 \in 1 .. n-1
      BY <2>2
    <3> QED BY <1>1, <2>1, <3>1 DEF RunEndsAt, Ids
  <2> QED BY <2>2
<1>4. ProcessData(NewConnection, m, n) = ProcessConnect(h, m, n)
  BY DEF ProcessData
<1> HIDE DEF h
<1>5. ProcessConnect(h, m, n).got = h.got \o run
  BY <1>2 DEF ProcessConnect, Opens, Connection
<1>6. run = << >>
  <2>1. DOMAIN run = {} 
    BY <1>3
  <2>2. run \in Seq(Data)
    BY <1>3, SeqDef
  <2> HIDE DEF run
  <2> QED BY <2>1, <2>2, LenProperties, EmptySeq
<1> HIDE DEF run
<1>7. << >> \o << >> = << >>
  BY EmptySeq, ConcatEmptySeq
<1> QED BY <1>2, <1>4, <1>5, <1>6, <1>7

(* What the histories are after a step, of every address.                  *)
Sent == [k \in Key |-> cl[k].sent]
Got == [k \in Key |-> sv[k].got]

LEMMA ClientNextChannel ==
  ASSUME TypeOK, NEW k \in Key, ClientNext(k)
  PROVE  /\ Got' = Got
         /\ \/ Sent' = Sent
            \/ \E d \in Data : Sent' = [Sent EXCEPT ![k] = Append(@, d)]
<1> DEFINE c == cl[k]
<1>1. c \in Connection
  BY DEF TypeOK
<1>2. sv' = sv
  BY DEF ClientNext, ClientConnect, ClientSend, ClientSendUnrealible,
         ClientClose, ClientReceive, ClientTick, ServerSide
<1>3. ASSUME NEW g, NEW out, ClientStep(k, g, out), g.sent = c.sent
      PROVE  Sent' = Sent
  BY <1>3 DEF Sent, ClientStep, TypeOK
<1>4. CASE ClientConnect(k)
  <2>1. NewConnection.sent = NoConnection.sent
    BY DEF NewConnection, NoConnection
  <2> QED BY <1>2, <1>3, <1>4, <2>1 DEF ClientConnect, Got
<1>5. CASE ClientSend(k)
  <2>1. PICK d \in Data : ClientStep(k, Send(c, d), SendOut(c, d))
    BY <1>5 DEF ClientSend
  <2>2. Send(c, d).sent = Append(c.sent, d)
    BY <1>1, <1>5 DEF ClientSend, ClientReady, Send, Connection
  <2>3. Sent' = [Sent EXCEPT ![k] = Append(@, d)]
    BY <2>1, <2>2 DEF Sent, ClientStep, TypeOK
  <2> QED BY <1>2, <2>3 DEF Got
<1>6. CASE ClientSendUnrealible(k)
  <2>1. SendUnrealible(c).sent = c.sent
    BY <1>1, OwnerKeeps
  <2> QED BY <1>2, <1>3, <1>6, <2>1 DEF ClientSendUnrealible, Got
<1>7. CASE ClientClose(k)
  <2>1. FinalizeClose(Close(c)).sent = c.sent
    BY <1>1, OwnerKeeps
  <2> QED BY <1>2, <1>3, <1>7, <2>1 DEF ClientClose, Got
<1>8. CASE ClientReceive(k)
  <2>1. PICK m \in toClient[k], n \in 1 .. MaxSync + 1 :
          ClientStep(k, ProcessData(c, m, n), ProcessDataOut(m))
    BY <1>8 DEF ClientReceive
  <2>2. m \in Packet
    BY DEF TypeOK
  <2>3. ProcessData(c, m, n).sent = c.sent
    BY <1>1, <2>2, ProcessDataSends
  <2> QED BY <1>2, <1>3, <2>1, <2>3 DEF Got
<1>9. ASSUME NEW dead \in BOOLEAN, ClientTick(k, dead)
      PROVE  Got' = Got /\ Sent' = Sent
  <2> DEFINE t == Ticked(c, dead)
             g == IF CanSend(t) THEN t ELSE FinalizeClose(Close(t))
  <2>1. PICK out : ClientStep(k, g, out)
    BY <1>9 DEF ClientTick
  <2>2. t.sent = c.sent /\ FinalizeClose(Close(t)).sent = c.sent
    BY <1>1, OwnerKeeps
  <2>3. g.sent = c.sent
    BY <2>2
  <2> HIDE DEF g
  <2> QED BY <1>2, <1>3, <2>1, <2>3 DEF Got
<1> QED BY <1>4, <1>5, <1>6, <1>7, <1>8, <1>9 DEF ClientNext

LEMMA ServerNextChannel ==
  ASSUME TypeOK, TypeOK', FlowToServer', ServerNext
  PROVE  /\ Sent' = Sent
         /\ \/ Got' = Got
            \/ \E k \in Key : \/ Got' = [Got EXCEPT ![k] = << >>]
                              \/ \E n \in Len(Got[k]) + 1 .. Len(Sent[k]) :
                                   Got' = [Got EXCEPT ![k] = SubSeq(Sent[k], 1, n)]
<1>1. \A k \in Key : sv[k] \in Connection
  BY DEF TypeOK
<1>2. cl' = cl
  BY DEF ServerNext, ServerReceive, ServerTick, DoSync, SendAllUnrealible,
         ServerClose, ClientSide
<1>3. Sent' = Sent
  BY <1>2 DEF Sent
<1>4. (\A k \in Key : sv'[k].got = sv[k].got) => Got' = Got
  BY DEF Got
<1>5. ASSUME NEW k \in Key, ServerReceive(k)
      PROVE  \/ Got' = Got
             \/ Got' = [Got EXCEPT ![k] = << >>]
             \/ \E n \in Len(Got[k]) + 1 .. Len(Sent[k]) :
                  Got' = [Got EXCEPT ![k] = SubSeq(Sent[k], 1, n)]
  <2> DEFINE c == IF ~ InMap(k) THEN NewConnection ELSE sv[k]
  <2>1. PICK m \in toServer[k], n \in Nat \ {0} :
          /\ m \in Packet
          /\ ~ InMap(k) => m.type = "Connect"
          /\ Opens(c, m) => RunEndsAt(c, n)
          /\ sv'[k] = ProcessData(c, m, n)
          /\ \A j \in Key \ {k} : sv'[j] = sv[j] \/ sv'[j] = Close(sv[j])
    BY <1>5, ServerReceiveParts
  <2>2. ASSUME NEW j \in Key \ {k} PROVE sv'[j].got = sv[j].got
    <3>1. Close(sv[j]).got = sv[j].got
      BY <1>1, OwnerKeeps
    <3> QED BY <2>1, <3>1
  <2>3. Got' = [Got EXCEPT ![k] = sv'[k].got]
    BY <2>2 DEF Got
  <2>4. CASE ~ InMap(k)
    <3>1. sv'[k].got = << >>
      BY <2>1, <2>4, StrayGot
    <3> QED BY <2>3, <3>1
  <2>5. CASE InMap(k)
    <3>1. sv'[k].got = sv[k].got \/ Len(sv'[k].got) > Len(sv[k].got)
      BY <1>1, <2>1, <2>5, ProcessDataGot
    <3>2. CASE sv'[k].got = sv[k].got
      BY <1>4, <2>2, <3>2
    <3>3. CASE Len(sv'[k].got) > Len(sv[k].got)
      <4> DEFINE g == sv'[k].got
                 s == cl[k].sent
      <4>1. /\ g \in Seq(Data) /\ s \in Seq(Data)
            /\ sv[k].got \in Seq(Data)
        BY DEF TypeOK, Connection
      <4>2. Prefix(g, s)
        BY <1>2 DEF FlowToServer, Flow, Received
      <4>3. g = SubSeq(s, 1, Len(g))
        BY <4>1, <4>2, PrefixIsSubSeq
      <4>4. Len(g) \in Len(sv[k].got) + 1 .. Len(s)
        <5>1. Len(g) \in Nat /\ Len(s) \in Nat /\ Len(sv[k].got) \in Nat
          BY <4>1
        <5> QED BY <3>3, <4>2, <5>1 DEF Prefix
      <4>5. Got[k] = sv[k].got /\ Sent[k] = s
        BY DEF Got, Sent
      <4> QED BY <2>3, <4>3, <4>4, <4>5
    <3> QED BY <3>1, <3>2, <3>3
  <2> QED BY <2>4, <2>5
<1>6. ASSUME NEW k \in Key, NEW dead \in BOOLEAN, ServerTick(k, dead)
      PROVE  Got' = Got
  <2> DEFINE t == Ticked(sv[k], dead)
             g == IF CanSend(t) THEN t ELSE FinalizeClose(Close(t))
  <2>1. sv' = [sv EXCEPT ![k] = g]
    BY <1>6 DEF ServerTick
  <2>2. t.got = sv[k].got /\ FinalizeClose(Close(t)).got = sv[k].got
    BY <1>1, OwnerKeeps
  <2>3. g.got = sv[k].got
    BY <2>2
  <2> HIDE DEF g
  <2> QED BY <1>4, <2>1, <2>3 DEF TypeOK
<1>7. CASE DoSync
  <2>1. PICK d \in Data : sv' = [k \in Key |-> Send(sv[k], d)]
    BY <1>7 DEF DoSync
  <2>2. \A k \in Key : Send(sv[k], d).got = sv[k].got
    BY <1>1 DEF Send, Connection
  <2>3. \A k \in Key : sv'[k].got = sv[k].got
    BY <2>1, <2>2
  <2> QED BY <1>3, <1>4, <2>3
<1>8. CASE SendAllUnrealible
  <2>1. \A k \in Key : SendUnrealible(sv[k]).got = sv[k].got
    BY <1>1, OwnerKeeps
  <2>2. \A k \in Key : sv'[k].got = sv[k].got
    BY <1>8, <2>1 DEF SendAllUnrealible
  <2> QED BY <1>3, <1>4, <2>2
<1>9. CASE ServerClose
  <2>1. \A k \in Key : FinalizeClose(Close(sv[k])).got = sv[k].got
    BY <1>1, OwnerKeeps
  <2>2. \A k \in Key : sv'[k].got = sv[k].got
    BY <1>9, <2>1 DEF ServerClose
  <2> QED BY <1>3, <1>4, <2>2
<1> QED BY <1>3, <1>5, <1>6, <1>7, <1>8, <1>9 DEF ServerNext

(* Client to server, the session is a reliable channel: a step sends, hands*)
(* over the next packets in order, starts again with a new object, or is   *)
(* none of the channel's business.                                         *)
THEOREM ImplementsChannel == Spec => ToServerIsReliable
<1>1. Init => ToServer!Init
  BY DEF Init, ToServer!Init, NoConnection
<1>2. /\ TypeOK /\ TypeOK' /\ FlowToServer /\ FlowToServer' /\ [Next]_vars
      => [ToServer!Next]_(ToServer!chan)
  <2> SUFFICES ASSUME TypeOK, TypeOK', FlowToServer', [Next]_vars
               PROVE  [ToServer!Next]_(ToServer!chan)
    OBVIOUS
  <2>1. CASE ServerNext
    BY <2>1, ServerNextChannel DEF ToServer!Next, ToServer!Deliver,
       ToServer!Reopen, ToServer!chan, Sent, Got
  <2>2. CASE \E k \in Key : ClientNext(k)
    BY <2>2, ClientNextChannel DEF ToServer!Next, ToServer!Send,
       ToServer!chan, Sent, Got
  <2>3. CASE UNCHANGED vars
    BY <2>3 DEF vars, ToServer!chan
  <2> QED BY <2>1, <2>2, <2>3 DEF Next
<1>3. TypeOK /\ FlowToServer /\ [Next]_vars => FlowToServer'
  <2> SUFFICES ASSUME TypeOK, FlowToServer, [Next]_vars PROVE FlowToServer'
    OBVIOUS
  <2>1. CASE ServerNext
    BY <2>1, ServerNextFlow
  <2>2. CASE \E k \in Key : ClientNext(k)
    BY <2>2, ClientNextFlow
  <2>3. CASE UNCHANGED vars
    BY <2>3 DEF vars, FlowToServer
  <2> QED BY <2>1, <2>2, <2>3 DEF Next
<1> QED BY InitFlow, <1>1, <1>2, <1>3, TypeCorrect, PTL
        DEF Spec, ToServerIsReliable, ToServer!Spec
===============================================================================
