--------------------------- MODULE SkinDownloader ---------------------------
(***************************************************************************)
(* The download of player skins (miners/skin.d): one HTTP connection       *)
(* object, used for one skin after the other, the one asked for last       *)
(* first.  doTick() is called in every logic step of the game.             *)
(*                                                                         *)
(* What the server will send is chosen when it is asked, and closes the    *)
(* connection after it; how much of it a read finds is chosen then.        *)
(***************************************************************************)
EXTENDS HttpConnection

CONSTANTS NoSkin   \* curSkin is null

ASSUME NoSkinAssumption == NoSkin \notin Request

VARIABLES
  http,     \* the HttpConnection
  wire,     \* what the server has sent or will send on this socket, not yet
            \* read
  curSkin,
  nextSkin, \* the last is taken first
  store,    \* the names in SkinDownloader.store
  shown,    \* the body the texture of a name was made of; <<>>: the default
  asked,    \* history: the names a request was sent for
  failed,   \* history: the names a connection failed for
  answer,   \* history: what the server sends on this socket, as it began
  torn      \* history: how many interrupted transfers the buffer has a part
            \* of (2: more than one)

vars == <<http, wire, curSkin, nextSkin, store, shown, asked, failed, answer, torn>>

Init ==
  /\ http = NewHttp
  /\ wire = <<>>
  /\ curSkin = NoSkin /\ nextSkin = <<>> /\ store = {}
  /\ shown = [q \in Request |-> <<>>]
  /\ asked = {} /\ failed = {} /\ answer = <<>> /\ torn = 0

(* getSkin of a name that is not in the store. *)
GetSkin(q) ==
  /\ q \notin store
  /\ store' = store \cup {q}
  /\ nextSkin' = Append(nextSkin, q)
  /\ UNCHANGED <<http, wire, curSkin, shown, asked, failed, answer, torn>>

-----------------------------------------------------------------------------
(* doTick of the downloader: nothing to do, or the skin it is about. *)
Work == curSkin # NoSkin \/ nextSkin # <<>>

Skin == IF curSkin = NoSkin THEN Last(nextSkin) ELSE curSkin

(* Slip: the name stays in the list. *)
TakeSkinLeft == Work /\ nextSkin' = nextSkin

TakeSkin ==
  /\ Work
  /\ nextSkin' = IF curSkin = NoSkin THEN Front(nextSkin) ELSE nextSkin

(* doConnect throws: handleError. *)
ConnectFails ==
  /\ TakeSkin
  /\ ~http.open
  /\ http' = Close(DoConnect(http))
  /\ curSkin' = NoSkin
  /\ failed' = failed \cup {Skin}
  /\ UNCHANGED <<wire, store, shown, asked, answer, torn>>

Connect ==
  /\ TakeSkin
  /\ ~http.open
  /\ http' = DoConnect(http)
  /\ curSkin' = Skin
  /\ UNCHANGED <<wire, store, shown, asked, failed, answer, torn>>

(* handleConnected: the request. *)
HandleConnected ==
  /\ TakeSkin
  /\ http.open /\ http.connecting
  /\ http' = Connected(http)
  /\ asked' = asked \cup {Skin}
  /\ curSkin' = Skin
  /\ \E a \in Answers(Skin) : wire' = a /\ answer' = a
  /\ UNCHANGED <<store, shown, failed, torn>>

(* pngDecode: the whole picture a body begins with, none if it is cut; what
   follows the picture is not looked at. *)
Picture(body) ==
  LET length == body[1].length
      whole  == /\ body # <<>> /\ body[1].part = "body"
                /\ length <= Len(body)
                /\ \A i \in 1 .. length : body[i] = body[1]
  IN  IF whole THEN SubSeq(body, 1, length) ELSE <<>>

(* handleResponse; handleError; handleUpdate does nothing. *)
Handle(out) ==
  CASE out.handler = "response" ->
         /\ http' = Close(out.http)
         /\ curSkin' = NoSkin
         /\ shown' = IF Picture(out.body) # <<>>
                     THEN [shown EXCEPT ![Skin] = Picture(out.body)] ELSE shown
    [] out.handler = "error" ->
         /\ http' = Close(out.http)
         /\ curSkin' = NoSkin
         /\ UNCHANGED shown
    [] OTHER ->
         /\ http' = out.http
         /\ curSkin' = Skin
         /\ UNCHANGED shown

(* What an interrupted transfer left may end in the middle of a line: the
   header is then not always one that can be read. *)
Read(n) ==
  /\ TakeSkin
  /\ http.open /\ ~http.connecting
  /\ \E readable \in BOOLEAN :
       /\ readable \/ torn > 0
       /\ Handle(Receive(http, SubSeq(wire, 1, n), readable))
  /\ wire' = IF http'.open THEN SubSeq(wire, n + 1, Len(wire)) ELSE <<>>
  /\ answer' = IF http'.open THEN answer ELSE <<>>
  /\ torn' = IF Clean(http') THEN 0 ELSE torn
  /\ UNCHANGED <<store, asked, failed>>

(* Slip: the skin is tried again. *)
HandleDisconnectKeeping ==
  /\ TakeSkin
  /\ http.open /\ ~http.connecting /\ wire = <<>>
  /\ curSkin' = Skin
  /\ UNCHANGED <<http, wire, store, shown, asked, failed, answer, torn>>

(* The server has closed its end: handleDisconnect, which leaves the socket. *)
HandleDisconnect ==
  /\ TakeSkin
  /\ http.open /\ ~http.connecting /\ wire = <<>>
  /\ curSkin' = NoSkin
  /\ UNCHANGED <<http, wire, store, shown, asked, failed, answer, torn>>

(* select is interrupted: handleError.  What was read of the answer stays in
   the buffer. *)
SelectFails ==
  /\ TakeSkin
  /\ http.open
  /\ http' = Close(http)
  /\ wire' = <<>> /\ answer' = <<>>
  /\ curSkin' = NoSkin
  /\ failed' = failed \cup {Skin}
  /\ torn' = IF wire = answer THEN torn ELSE IF torn = 0 THEN 1 ELSE 2
  /\ UNCHANGED <<store, shown, asked>>

Progress ==
  \/ Connect
  \/ HandleConnected
  \/ \E n \in 1 .. Len(wire) : Read(n)
  \/ HandleDisconnect

(* One call may take two of these steps, when a socket that has connected
   can be read at once: nothing else runs in between. *)
Tick == Progress \/ ConnectFails \/ SelectFails

Next == (\E q \in Request : GetSkin(q)) \/ Tick

Spec == Init /\ [][Next]_vars

(* Game.logic calls doTick in every step, and a server that was asked
   answers or closes in the end.  No failure is counted on. *)
FairSpec == Spec /\ WF_vars(Progress)

-----------------------------------------------------------------------------
Pending(q) == q = curSkin \/ q \in Range(nextSkin)

(* Types; what is waiting was asked for, once. *)
TypeOK ==
  /\ http \in [open : BOOLEAN, connecting : BOOLEAN, data : Seq(Unit),
               start : 0 .. Len(http.data), length : -1 .. MaxBody]
  /\ wire \in Seq(Unit) /\ answer \in Seq(Unit)
  /\ curSkin \in store \cup {NoSkin}
  /\ nextSkin \in Seq(store) /\ IsInjective(nextSkin)
  /\ curSkin \notin Range(nextSkin)
  /\ store \subseteq Request /\ asked \subseteq store /\ failed \subseteq store
  /\ shown \in [Request -> Seq(Unit)]
  /\ torn \in 0 .. 2

(* Between two requests the offsets are back where they began, however the
   last one ended; only an interrupted select in the middle of a transfer
   leaves some behind. *)
FreshBetween == ~http.open /\ torn = 0 => Clean(http)

(* A picture that comes to be shown is the whole body of the answer for that
   player, also when the buffer began with a part of another answer and the
   length was taken from there.  After two interrupted transfers it may be
   another player's. *)
ShownIsWhole ==
  [][\A q \in Request :
       shown'[q] # shown[q] /\ torn < 2 =>
         \E n \in 1 .. MaxBody : shown'[q] = Body(q, n)]_vars

(* A skin whose answer comes whole, on a socket that found the offsets clean,
   is not given up before it is shown, unless select is interrupted. *)
CompleteIsShown ==
  [][\A q \in Request :
       /\ curSkin = q /\ curSkin' = NoSkin
       /\ torn = 0
       /\ \E n \in 1 .. MaxBody : answer = Full(q, n)
       => shown'[q] # <<>> \/ q \in failed']_vars

(* Every skin that is asked for comes to an end. *)
SkinsEnd == \A q \in Request : Pending(q) ~> ~Pending(q)

(* "downloads a player skin" (options.d): each skin is asked for at the
   server before it is given up, if the connection did not fail. *)
EachIsAsked == \A q \in store : Pending(q) \/ q \in asked \/ q \in failed
=============================================================================
