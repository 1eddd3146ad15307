------------------------------- MODULE GameApp --------------------------------
(***************************************************************************)
(* The runners of the game (miners/game.d, miners/menu, classic/runner.d)  *)
(* on RouterApp's stack, driven by the main loop of SimpleApp: input, then *)
(* logic, where each runner may read packets from its connection, then     *)
(* idle.  All of it runs in one thread; what interleaves are the user's    *)
(* events, the server's packets and the deletions that wait for the next   *)
(* manageRunners.                                                          *)
(*                                                                         *)
(* Abstractions.  "World" is the ClassicRunner; without a connection it    *)
(* also stands for the other world runners, which differ in what they      *)
(* draw.  A failed load shows "Error" like a lost connection.  "Web" is    *)
(* the WebpageInfoMenu, for a list or for one server.                      *)
(***************************************************************************)
EXTENDS RunnerStack, FiniteSets

CONSTANTS
  Cookies,      \* whether opts.playSessionCookie is given: what it may be
  MaxRunners    \* bound: runner objects made in one run of the program

(* There are three before the main loop begins.                            *)
ASSUME GameAssumption ==
  Cookies \subseteq BOOLEAN /\ MaxRunners \in Nat /\ MaxRunners >= 3

VARIABLES
  app,      \* RouterApp's fields, the objects and their connections
  phase,    \* where the main loop is
  cursor,   \* the index of RouterApp.logic's loop over vec, from 1
  reading,  \* the runner and the connection whose doPackets is running
  due       \* history: the runners whose turn is to come in this pass

vars == <<app, phase, cursor, reading, due>>

Kind == {"Background", "Debug", "Startup", "Main", "World", "Connecting", "Web",
         "WebList", "List", "Pause", "Blocks", "Info", "Error", "Panic"}

TypeOfKind(kind) ==
  CASE kind = "Background" -> "Background"
    [] kind = "Debug"      -> "Overlay"
    [] kind = "World"      -> "Game"
    [] OTHER               -> "Menu"

(* part: PauseMenu.partRunner, or the object behind ClassicBlockMenu's     *)
(* delegate.  conn: the connection the runner has to close.                *)
NewRunner(kind, part, conn) ==
  [kind |-> kind, type |-> TypeOfKind(kind), part |-> part, conn |-> conn,
   closes |-> 0]

debugRunner == 2     \* Game.dr
startupRunner == 3

NoReading == [runner |-> NoRunner, conn |-> NoConn]

Init ==
  /\ \E cookie \in Cookies :
       app = [ cookie |-> cookie, parted |-> FALSE,
               runners |-> << NewRunner("Background", NoRunner, NoConn),
                              NewRunner("Debug", NoRunner, NoConn),
                              NewRunner("Startup", NoRunner, NoConn) >>,
               conns |-> << >>,
               vec |-> <<1, 3>>, del |-> << >>, dirty |-> FALSE,
               currentInput |-> 3, running |-> TRUE ]
  /\ phase = "input" /\ cursor = 0 /\ reading = NoReading /\ due = {}

TypeOK ==
  /\ app.runners \in Seq([kind : Kind, type : Type, part : 0 .. MaxRunners,
                          conn : Nat, closes : Nat])
  /\ app.conns \in Seq([cl : 1 .. MaxRunners, open : BOOLEAN])
  /\ app.vec \in Seq(DOMAIN app.runners)
  /\ app.del \in Seq(DOMAIN app.runners)
  /\ app.currentInput \in {NoRunner} \cup DOMAIN app.runners
  /\ app.dirty \in BOOLEAN /\ app.running \in BOOLEAN
  /\ phase \in {"input", "logic", "packets", "idle", "closed"}
  /\ cursor \in 0 .. MaxRunners
  /\ reading \in [runner : 0 .. MaxRunners, conn : 0 .. Len(app.conns)]
  /\ due \subseteq DOMAIN app.runners

-------------------------------------------------------------------------------
(* The MenuManager and Router methods: each makes a runner and pushes it.  *)

Make(g, kind, part, conn) ==
  Push([g EXCEPT !.runners = Append(@, NewRunner(kind, part, conn))],
       Len(g.runners) + 1)

Display(g, kind) == Make(g, kind, NoRunner, NoConn)

(* Make a runner that takes over connection c and listens to it.           *)
HandOver(g, kind, c) ==
  Make([g EXCEPT !.conns[c].cl = Len(g.runners) + 1], kind, NoRunner, c)

(* Slip: the connection is made before its listener.                       *)
ConnectWithoutListener(g) ==
  Make([g EXCEPT !.conns = Append(@, [cl |-> NoRunner, open |-> FALSE])],
       "Connecting", NoRunner, Len(g.conns) + 1)

(* connectToClassic with a server's address: a new connection.             *)
ConnectToClassic(g) ==
  Make([g EXCEPT !.conns = Append(@, [cl |-> Len(g.runners) + 1,
                                      open |-> FALSE])],
       "Connecting", NoRunner, Len(g.conns) + 1)

Quit(g) == [g EXCEPT !.running = FALSE]

-------------------------------------------------------------------------------
(* What the runner in control does with the user's next event: the set of  *)
(* stacks that the events it knows can lead to.                            *)

(* escapePressed, of which only two menus have their own.                  *)
Escape(g, r) ==
  IF g.runners[r].kind \in {"Startup", "Panic"} THEN Quit(g) ELSE DeleteMe(g, r)

(* The history parted: the world the menu stands for had been deleted.     *)
PauseOther(g, r) ==
  LET part == g.runners[r].part
      gone == part # NoRunner /\ g.runners[part].closes > 0
      h    == IF part = NoRunner THEN g
              ELSE Display(DeleteMe([g EXCEPT !.parted = @ \/ gone], part),
                           "WebList")
  IN  DeleteMe(h, r)

ConnectingButton(g, r) ==
  DeleteMe(IF g.cookie THEN Display(g, "WebList") ELSE Quit(g), r)

WorldPause(g, r) ==
  Make(g, "Pause",
       IF g.cookie /\ g.runners[r].conn # NoConn THEN r ELSE NoRunner, NoConn)

ToggleDebug(g) ==
  IF debugRunner \in ToSet(g.vec) THEN RemoveRunner(g, debugRunner)
                                  ELSE Push(g, debugRunner)

(* The buttons of each menu.                                               *)
MainButtons(g, r) ==
  { DeleteMe(Display(g, "World"), r), DeleteMe(Display(g, "Error"), r),
    DeleteMe(Quit(g), r) }

PauseButtons(g, r) ==
  { Quit(g), PauseOther(g, r), DeleteMe(Display(g, "Info"), r) }

(* InfoMenu calls its delegate and goes; the three kinds differ in it.     *)
InfoButton(g, r) ==
  LET kind == g.runners[r].kind
  IN  { DeleteMe(CASE kind = "Info"  -> Display(g, "Pause")
                   [] kind = "Error" -> Display(g, "Main")
                   [] kind = "Panic" -> Quit(g), r) }

ListButtons(g, r) == { Quit(g), DeleteMe(Display(g, "Web"), r) }

Pressed(g, r) ==
  LET kind == g.runners[r].kind
  IN  CASE kind = "Main"                        -> MainButtons(g, r)
        [] kind = "Pause"                       -> PauseButtons(g, r)
        [] kind \in {"Info", "Error", "Panic"} -> InfoButton(g, r)
        [] kind = "Blocks"                      -> { DeleteMe(g, r) }
        [] kind \in {"Web", "WebList"}         -> { Quit(g) }
        [] kind = "List"                        -> ListButtons(g, r)
        [] kind = "Connecting"                  -> { ConnectingButton(g, r) }
        [] OTHER                                -> {}

(* keyDown and keyUp of ClassicRunner: escape, the block selector, F3.     *)
WorldKey(g, r) ==
  { WorldPause(g, r), Make(g, "Blocks", r, NoConn), ToggleDebug(g) }

Event(g, r) ==
  IF g.runners[r].kind = "World"
    THEN WorldKey(g, r)
    ELSE {Escape(g, r)} \cup Pressed(g, r)

-------------------------------------------------------------------------------
(* What the connection's listener does with a packet, ClientListener's     *)
(* methods; the packets that only change the world change nothing here.    *)

(* Slip: the old runner keeps its reference when the world changes.        *)
LevelInitializeKeeping(g, c) ==
  LET r == g.conns[c].cl
  IN  IF g.runners[r].kind = "World"
        THEN HandOver(DeleteMe(g, r), "Connecting", c)
        ELSE g

LevelInitialize(g, c) ==
  LET r == g.conns[c].cl
      h == [g EXCEPT !.runners[r].conn = NoConn]
  IN  IF g.runners[r].kind = "World"
        THEN HandOver(DeleteMe(h, r), "Connecting", c)
        ELSE g

(* Slip: the menu takes itself off the stack with remove().                *)
LevelFinalizeRemoving(g, c) ==
  LET r == g.conns[c].cl
      h == [g EXCEPT !.runners[r].conn = NoConn]
  IN  IF g.runners[r].kind = "Connecting"
        THEN RemoveRunner(HandOver(h, "World", c), r)
        ELSE g

LevelFinalize(g, c) ==
  LET r == g.conns[c].cl
      h == [g EXCEPT !.runners[r].conn = NoConn]
  IN  IF g.runners[r].kind = "Connecting"
        THEN DeleteMe(HandOver(h, "World", c), r)
        ELSE g

Disconnect(g, c) == DeleteMe(Display(g, "Error"), g.conns[c].cl)

(* The callbacks of the web page's connection that end the menu.           *)
WebDone(g, r) ==
  LET next == IF g.runners[r].kind = "WebList" THEN Display(g, "List")
                                               ELSE ConnectToClassic(g)
  IN  { DeleteMe(next, r), DeleteMe(Display(g, "Error"), r) }

-------------------------------------------------------------------------------
(* The main loop.                                                          *)

Bounded(g) == Len(g.runners) <= MaxRunners

(* One event out of do_input.  The runner in control gets it until the     *)
(* next manageRunners, also when it has asked to be deleted.               *)
Input ==
  /\ phase = "input"
  /\ app.currentInput # NoRunner
  /\ \E g \in Event(app, app.currentInput) : Bounded(g) /\ app' = g
  /\ UNCHANGED <<phase, cursor, reading, due>>

CloseWindow ==
  /\ phase = "input"
  /\ app' = Quit(app)
  /\ UNCHANGED <<phase, cursor, reading, due>>

(* do_logic: manageRunners, then the runners from the top.                 *)
StartLogic ==
  /\ phase = "input"
  /\ app' = ManageRunners(app)
  /\ phase' = "logic" /\ cursor' = Len(app'.vec) /\ due' = ToSet(app'.vec)
  /\ UNCHANGED reading

(* Go on to the runner below r, unless r blocks the ones below it.         *)
Below(r) ==
  /\ phase' = "logic"
  /\ cursor' = IF Blocker(app, r) THEN 0 ELSE cursor - 1
  /\ reading' = NoReading

(* logic() of the runner under the cursor.                                 *)
RunLogic ==
  /\ phase = "logic" /\ cursor > 0
  /\ LET r == app.vec[cursor]
         c == app.runners[r].conn
     IN  /\ due' = due \ {r}
         /\ \/ c = NoConn /\ UNCHANGED app /\ Below(r)
            \/ /\ app.runners[r].kind \in {"Web", "WebList"}
               /\ \E g \in WebDone(app, r) : Bounded(g) /\ app' = g
               /\ Below(r)
            \/ /\ c # NoConn   \* doPackets, which may have to doConnect
               /\ app' = [app EXCEPT !.conns[c].open = TRUE]
               /\ phase' = "packets" /\ reading' = [runner |-> r, conn |-> c]
               /\ UNCHANGED cursor
            \/ /\ c # NoConn /\ ~ app.conns[c].open
               /\ app' = Disconnect(app, c) /\ Bounded(app')
               /\ Below(r)

(* doPackets: one packet after another, for whoever listens by now.        *)
Packet ==
  /\ phase = "packets"
  /\ \E g \in { LevelInitialize(app, reading.conn),
                 LevelFinalize(app, reading.conn),
                 Disconnect(app, reading.conn) } : Bounded(g) /\ app' = g
  /\ UNCHANGED <<phase, cursor, reading, due>>

NoMorePackets ==
  /\ phase = "packets"
  /\ Below(reading.runner)
  /\ UNCHANGED <<app, due>>

(* The inner loop may owe more steps, whatever `running' says.             *)
EndLogic ==
  /\ phase = "logic" /\ cursor = 0
  /\ phase' \in {"input", "idle"}
  /\ due' = {} /\ UNCHANGED <<app, cursor, reading>>

(* No step is due: render and idle at once.                                *)
SkipLogic ==
  /\ phase = "input"
  /\ phase' = "idle"
  /\ UNCHANGED <<app, cursor, reading, due>>

(* doneStartup, and displayError for what it throws: only some of that is   *)
(* a panic.  The list of servers came with the cookie.                     *)
Started(g) ==
  { Display(g, kind) : kind \in {"Main", "World", "Web", "Error", "Panic"}
                                \cup IF g.cookie THEN {"List"} ELSE {} }
    \cup { ConnectToClassic(g) }

(* The startup runner's builder finds its last task done.                  *)
StartupDone ==
  /\ phase = "idle"
  /\ startupRunner \in ToSet(app.vec)
  /\ \E g \in Started(app) :
       /\ Bounded(g)
       /\ app' = DeleteMe(g, startupRunner)
  /\ UNCHANGED <<phase, cursor, reading, due>>

NextFrame ==
  /\ phase = "idle" /\ app.running
  /\ phase' = "input"
  /\ UNCHANGED <<app, cursor, reading, due>>

(* Slip: the debug runner is left to the stack, which may not hold it.     *)
CloseAllOnStack(g) == ManageRunners(DeleteAll(g))

(* Game.close and RouterApp.close.  No runner's close() makes or deletes   *)
(* another, so that the first turn leaves nothing for the others.          *)
CloseAll(g) == ManageRunners(DeleteAll(DeleteMe(g, debugRunner)))

CloseApp ==
  /\ phase = "idle" /\ ~ app.running
  /\ app' = CloseAll(app)
  /\ phase' = "closed"
  /\ UNCHANGED <<cursor, reading, due>>

Next ==
  \/ Input \/ CloseWindow \/ StartLogic \/ RunLogic \/ Packet \/ NoMorePackets
  \/ EndLogic \/ SkipLogic \/ StartupDone \/ NextFrame \/ CloseApp

Spec == Init /\ [][Next]_vars

-------------------------------------------------------------------------------
(* Properties.                                                             *)

Closed(r) == app.runners[r].closes > 0

Life(r) ==
  IF r \notin DOMAIN app.runners THEN "unmade"
  ELSE IF app.runners[r].closes > 1 /\ ~ app.parted THEN "closed twice"
  ELSE IF Closed(r) THEN "closed"
  ELSE IF r \in ToSet(app.del) THEN "doomed" ELSE "live"

RunnerLives ==
  INSTANCE RunnerLife WITH Runner <- 1 .. MaxRunners,
                           life <- [r \in 1 .. MaxRunners |-> Life(r)],
                           over <- phase = "closed"

(* "Don't delete a runner already on the list" (game/app.d:356), and what  *)
(* manageRunners deletes is deleted for good: a runner is closed once, and *)
(* the router keeps no reference to it.                                    *)
DeletedOnce ==
  \A r \in DOMAIN app.runners :
    Closed(r) =>
      /\ app.runners[r].closes = 1
      /\ r \notin ToSet(app.vec) \cup ToSet(app.del) \cup {app.currentInput}

(* That can only come from the pause menu of a world that has ended.       *)
OnlyPartDeletesTwice == app.parted \/ DeletedOnce

(* An open connection has one runner that will close it, and that one is   *)
(* its listener, however often the server changes the world, ends the      *)
(* session or does both in packets that arrive together.                   *)
OneOwner ==
  \A c \in DOMAIN app.conns :
    app.conns[c].open =>
      {r \in DOMAIN app.runners : app.runners[r].conn = c /\ ~ Closed(r)}
        = {app.conns[c].cl}

(* Every runner made is on the stack or on its way out: none is forgotten  *)
(* with what it holds, the debug runner apart, which waits off the stack.  *)
NoneForgotten ==
  \A r \in DOMAIN app.runners \ {debugRunner} :
    \/ Closed(r)
    \/ r \in ToSet(app.vec) \cup ToSet(app.del)

(* When nothing waits for manageRunners, the events go to the topmost      *)
(* runner that takes input, and without one the program is on its way out. *)
InputGoesToTop ==
  ~ app.dirty /\ phase # "closed" =>
    /\ app.currentInput = InputTaker(app)
    /\ app.currentInput = NoRunner => ~ app.running

(* RouterApp.logic walks vec by index while the runners it calls push and  *)
(* remove.  Still the index stays inside, and what it has before it is what *)
(* was there at the start and is not gone: nobody is skipped, nobody has a  *)
(* second turn, and a runner made on the way waits for the next pass.       *)
OneTurnEach ==
  phase = "logic" /\ cursor > 0 =>
    /\ cursor <= Len(app.vec)
    /\ {app.vec[i] : i \in 1 .. cursor} = due \cap ToSet(app.vec)

(* The assertions of ~RouterApp, and those of the runners' destructors:    *)
(* once the program has closed, every runner and every connection is.      *)
NothingLeft ==
  phase = "closed" =>
    /\ app.vec = << >> /\ app.del = << >> /\ app.currentInput = NoRunner
    /\ \A r \in DOMAIN app.runners : Closed(r) /\ app.runners[r].conn = NoConn
    /\ \A c \in DOMAIN app.conns : ~ app.conns[c].open

(* Every step of the program is a step in the lives of its runners, but    *)
(* for the second end of a world that the pause menu deletes again.        *)
RunnersLive == RunnerLives!Spec
===============================================================================
