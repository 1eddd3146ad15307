------------------------------ MODULE UdpSession ------------------------------
(***************************************************************************)
(* The reliable-UDP client (charge/net/client.d) and server                *)
(* (charge/net/server.d) over a network that loses, duplicates and         *)
(* reorders datagrams, with the one listener the repository gives the      *)
(* server, box/server.d: it keeps the connection opened last as `con',     *)
(* closes the one before and sends to everybody the differences from a     *)
(* baseline that starts again with every new `con'.                        *)
(*                                                                         *)
(* A Key is a client address: one Client.connect on a new socket.  The     *)
(* server may hold several connection objects for one key after another,   *)
(* since only the address tells datagrams apart.                           *)
(***************************************************************************)
EXTENDS Connection, FiniteSets

CONSTANTS
  Key,          \* client addresses
  NoKey,        \* con is null
  MaxSend,      \* bound: reliable packets a client sends
  MaxSync,      \* bound: differences the server sends after a reset
  MaxUnsend,    \* bound: unreliable packets one connection object sends
  MaxOpen,      \* bound: connection objects the server makes for one key
  Duplicating   \* TRUE: a datagram read may be read again

ASSUME NoKeyAssumption == NoKey \notin Key
ASSUME BoundsAssumption == /\ MaxSend \in Nat /\ MaxSync \in Nat /\ MaxUnsend \in Nat
                           /\ MaxOpen \in Nat /\ Duplicating \in BOOLEAN

VARIABLES
  cl,         \* [Key -> Connection]: Client.c
  sv,         \* [Key -> Connection]: Server.connections, "Closed" = no entry
  objects,    \* [Key -> Nat]: connection objects the server has made
  toServer, toClient,   \* [Key -> SUBSET Packet]: datagrams in flight
  serverUp,   \* the server runner has not closed its Server
  con,        \* ServerRunner.con, as a key
  base        \* history: the differences sent since the last reset

vars == <<cl, sv, objects, toServer, toClient, serverUp, con, base>>

InMap(k) == sv[k].state # "Closed"

TypeOK ==
  /\ cl \in [Key -> Connection]
  /\ sv \in [Key -> Connection]
  /\ objects \in [Key -> Nat]
  /\ toServer \in [Key -> SUBSET Packet]
  /\ toClient \in [Key -> SUBSET Packet]
  /\ serverUp \in BOOLEAN
  /\ con \in Key \cup {NoKey}
  /\ base \in Seq(Data)

Init ==
  /\ cl = [k \in Key |-> NoConnection]
  /\ sv = [k \in Key |-> NoConnection]
  /\ objects = [k \in Key |-> 0]
  /\ toServer = [k \in Key |-> {}]
  /\ toClient = [k \in Key |-> {}]
  /\ serverUp = TRUE
  /\ con = NoKey
  /\ base = << >>

(* What is left of the datagrams in flight when m is read.  A datagram     *)
(* that is never read is lost; a stray one that the server reads and drops *)
(* is as good as lost.                                                     *)
Taken(net, m) == IF Duplicating THEN net ELSE net \ {m}

-------------------------------------------------------------------------------
(* The client process of key k.                                            *)

ServerSide == <<sv, objects, toClient, serverUp, con, base>>

ClientStep(k, c, out) ==
  /\ cl' = [cl EXCEPT ![k] = c]
  /\ toServer' = [toServer EXCEPT ![k] = @ \cup out]

(* The runner of a client runs between two ticks.                          *)
ClientReady(k) == CanSend(cl[k]) /\ ~ cl[k].heard

ClientConnect(k) ==
  /\ cl[k] = NoConnection
  /\ ClientStep(k, NewConnection, {ConnectPacket})
  /\ UNCHANGED ServerSide

ClientSend(k) ==
  /\ ClientReady(k)
  /\ cl[k].realibleNumOut <= MaxSend
  /\ \E d \in Data : ClientStep(k, Send(cl[k], d), SendOut(cl[k], d))
  /\ UNCHANGED ServerSide

ClientSendUnrealible(k) ==
  /\ ClientReady(k)
  /\ cl[k].unrealibleNumOut < MaxUnsend
  /\ ClientStep(k, SendUnrealible(cl[k]), SendUnrealibleOut(cl[k]))
  /\ UNCHANGED ServerSide

ClientClose(k) ==
  /\ ClientReady(k)
  /\ ClientStep(k, FinalizeClose(Close(cl[k])), CloseOut(cl[k]))
  /\ UNCHANGED ServerSide

(* One turn of the receive loop of Client.tick.                            *)
ClientReceive(k) ==
  /\ cl[k].state # "Closed"
  /\ \E m \in toClient[k], n \in 1 .. MaxSync + 1 :
       /\ Opens(cl[k], m) => RunEndsAt(cl[k], n)
       /\ ~ Opens(cl[k], m) => n = 1
       /\ ClientStep(k, ProcessData(cl[k], m, n), ProcessDataOut(m))
       /\ toClient' = [toClient EXCEPT ![k] = Taken(@, m)]
  /\ UNCHANGED <<sv, objects, serverUp, con, base>>

(* The rest of Client.tick: Connection.tick, and close() when the          *)
(* connection is over.                                                     *)
ClientTick(k, dead) ==
  /\ cl[k].state # "Closed"
  /\ \E due \in SUBSET cl[k].unAckedPackets, quiet \in BOOLEAN :
       LET c == Ticked(cl[k], dead)
       IN  /\ MayTick(cl[k], due, quiet, dead)
           /\ ClientStep(k, IF CanSend(c) THEN c ELSE FinalizeClose(Close(c)),
                         TickOut(cl[k], due, quiet))
  /\ UNCHANGED ServerSide

-------------------------------------------------------------------------------
(* The server process.                                                     *)

ClientSide == <<cl, toServer>>

(* The runner runs between two ticks: no connection is in the middle of    *)
(* one, and none that is over is left.                                     *)
ServerReady ==
  /\ serverUp
  /\ \A k \in Key : InMap(k) => CanSend(sv[k]) /\ ~ sv[k].heard

(* One turn of the receive loop of Server.tick.  The listener's opened()   *)
(* closes the connection opened before.                                    *)
ServerReceive(k) ==
  /\ serverUp
  /\ \E m \in toServer[k], n \in 1 .. MaxSend + 1 :
       LET stray  == ~ InMap(k)
           c      == IF stray THEN NewConnection ELSE sv[k]
           opened == Opens(c, m)
           old    == IF opened THEN {con} \cap Key ELSE {}
       IN  /\ stray => m.type = "Connect" /\ objects[k] < MaxOpen
           /\ opened => RunEndsAt(c, n)
           /\ ~ opened => n = 1
           /\ sv' = [j \in Key |-> CASE j = k -> ProcessData(c, m, n)
                                     [] j # k /\ j \in old -> Close(sv[j])
                                     [] OTHER -> sv[j]]
           /\ toClient' = [j \in Key |-> toClient[j] \cup
                (IF j = k THEN ProcessDataOut(m) ELSE {}) \cup
                (IF j = k /\ stray THEN {ConnectPacket} ELSE {}) \cup
                (IF j # k /\ j \in old THEN CloseOut(sv[j]) ELSE {})]
           /\ objects' = [objects EXCEPT ![k] = IF stray THEN @ + 1 ELSE @]
           /\ con' = IF opened THEN k ELSE con
           /\ base' = IF opened THEN << >> ELSE base
           /\ toServer' = [toServer EXCEPT ![k] = Taken(@, m)]
  /\ UNCHANGED <<cl, serverUp>>

(* One turn of the loop that ends Server.tick; close() calls the           *)
(* listener's closed().                                                    *)
ServerTick(k, dead) ==
  /\ serverUp /\ InMap(k)
  /\ \E due \in SUBSET sv[k].unAckedPackets, quiet \in BOOLEAN :
       LET c == Ticked(sv[k], dead)
       IN  /\ MayTick(sv[k], due, quiet, dead)
           /\ sv' = [sv EXCEPT ![k] = IF CanSend(c) THEN c
                                      ELSE FinalizeClose(Close(c))]
           /\ toClient' = [toClient EXCEPT ![k] =
                             @ \cup TickOut(sv[k], due, quiet)]
           /\ con' = IF con = k /\ ~ CanSend(c) THEN NoKey ELSE con
  /\ UNCHANGED <<cl, toServer, objects, serverUp, base>>

(* ServerRunner.logic: doSync sends one difference to everybody.           *)
DoSync ==
  /\ ServerReady /\ con # NoKey
  /\ Len(base) < MaxSync
  /\ \E d \in Data :
       /\ sv' = [k \in Key |-> Send(sv[k], d)]
       /\ toClient' = [k \in Key |-> toClient[k] \cup SendOut(sv[k], d)]
       /\ base' = Append(base, d)
  /\ UNCHANGED <<cl, toServer, objects, serverUp, con>>

SendAllUnrealible ==
  /\ ServerReady
  /\ \A k \in Key : sv[k].unrealibleNumOut < MaxUnsend
  /\ sv' = [k \in Key |-> SendUnrealible(sv[k])]
  /\ toClient' = [k \in Key |-> toClient[k] \cup SendUnrealibleOut(sv[k])]
  /\ UNCHANGED <<ClientSide, objects, serverUp, con, base>>

(* ServerRunner.close: Server.close() closes every connection.             *)
ServerClose ==
  /\ ServerReady
  /\ serverUp' = FALSE
  /\ sv' = [k \in Key |-> IF InMap(k) THEN FinalizeClose(Close(sv[k]))
                                      ELSE sv[k]]
  /\ toClient' = [k \in Key |-> toClient[k] \cup CloseOut(sv[k])]
  /\ con' = NoKey
  /\ UNCHANGED <<ClientSide, objects, base>>

-------------------------------------------------------------------------------
ClientNext(k) ==
  \/ ClientConnect(k) \/ ClientSend(k) \/ ClientSendUnrealible(k)
  \/ ClientClose(k) \/ ClientReceive(k)
  \/ \E dead \in BOOLEAN : ClientTick(k, dead)

ServerNext ==
  \/ \E k \in Key : ServerReceive(k)
  \/ \E k \in Key, dead \in BOOLEAN : ServerTick(k, dead)
  \/ DoSync \/ SendAllUnrealible \/ ServerClose

Next == ServerNext \/ \E k \in Key : ClientNext(k)

Spec == Init /\ [][Next]_vars

(* The frame loop calls tick for ever, and time passes: an end that hears  *)
(* nothing more finds its ten timeouts gone at some tick.                  *)
FairSpec ==
  /\ Spec
  /\ \A k \in Key, dead \in BOOLEAN :
       WF_vars(ClientTick(k, dead)) /\ WF_vars(ServerTick(k, dead))

-------------------------------------------------------------------------------
(* Properties.                                                             *)

Prefix(s, t) == Len(s) <= Len(t) /\ \A i \in 1 .. Len(s) : s[i] = t[i]

ToServer ==
  INSTANCE ReliableChannel WITH sent <- [k \in Key |-> cl[k].sent],
                                got <- [k \in Key |-> sv[k].got]

(* Client to server, the packets processRealible hands to the listener are *)
(* the ones the client passed to send(), in that order, none twice and     *)
(* none missing in between, whatever the network does and however often    *)
(* the server makes a new connection object for the address.               *)
InOrderToServer == \A k \in Key : Prefix(sv[k].got, cl[k].sent)

(* The same from the server to the client, as long as the server has made  *)
(* one connection object for the address: packets carry no connection id,  *)
(* so a second object's packets mix with the first one's.                  *)
InOrderToClient ==
  \A k \in Key :
    objects[k] <= 1 => Prefix(cl[k].got, sv[k].sent)

(* processAck takes a packet off unAckedPackets only when the other end    *)
(* has it, handed over or in outOfOrderPackets: no packet loses its last   *)
(* chance to be sent again while it is still missing.                      *)
HasAllAcked(from, to) ==
  \A i \in 1 .. from.realibleNumOut - 1 :
    \/ i \in Ids(from.unAckedPackets)
    \/ i < to.realibleNumIn
    \/ i \in Ids(to.outOfOrderPackets)

AckedMeansReceived ==
  \A k \in Key :
    /\ objects[k] = 1
    /\ InMap(k)
    /\ cl[k].state # "Closed"
    => HasAllAcked(cl[k], sv[k]) /\ HasAllAcked(sv[k], cl[k])

(* sendAll gives a difference to every connection that may send, but it    *)
(* only makes sense against the baseline of `con': opened() must leave no  *)
(* other connection able to send, and what was sent on `con' must be       *)
(* exactly the differences since the last reset.                           *)
OnlyConIsSentTo ==
  \A k \in Key : CanSend(sv[k]) => k = con /\ sv[k].sent = base

(* Every step of a session is a step of the reliable channel from the      *)
(* clients to the server, or leaves it alone.                              *)
ToServerIsReliable == ToServer!Spec

(* A connection whose other end is gone for good ends: nobody waits for    *)
(* ever on a lost Disconnect, a closed server or a dead client.            *)
BothEndsEnd ==
  \A k \in Key :
    /\ <>[](sv[k].state = "Closed") => <>[](cl[k].state = "Closed")
    /\ <>[](cl[k].state = "Closed") => <>[](sv[k].state = "Closed" \/ ~ serverUp)

(* box/server.d:81, `So that the client and server match exactly': when    *)
(* the client has acknowledged every difference the server sent it, it has *)
(* applied every one of them.                                              *)
ClientMatchesServer ==
  \A k \in Key :
    /\ objects[k] = 1
    /\ InMap(k) /\ sv[k].unAckedPackets = {}
    /\ cl[k].state = "Connected"
    => cl[k].got = sv[k].sent
===============================================================================
