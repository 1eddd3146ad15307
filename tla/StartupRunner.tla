----------------------------- MODULE StartupRunner -----------------------------
(***************************************************************************)
(* The startup runner (charge/game/startup.d, miners/startup.d): tasks are *)
(* added, become active, are built a little at a time by a builder of the  *)
(* router, signal that they are done or failed, and are closed.  When no   *)
(* task is left the runner adds a last one, and when that is gone too it   *)
(* starts the game, or shows the errors, and asks to be deleted.           *)
(*                                                                         *)
(* Which task follows which is a parameter.  A task of Fetcher may have to *)
(* download a file before it can load it (LoadDefaultSkin); one of Lister  *)
(* owns a web connection from the moment it is made (ClassicGetList).      *)
(*                                                                         *)
(* Lists of tasks are sets: the order of a list decides nothing.  Where    *)
(* the code asserts, `asserts' records whether it held.                    *)
(***************************************************************************)
EXTENDS Naturals

CONSTANTS
  Task,
  First, Last,      \* the task made first, and the one made when none is left
  Follow,           \* [Task -> SUBSET Task]: the tasks one adds when it is done
  MayFail,          \* the tasks without a connection that may signal an error
  Fetcher, Lister   \* the tasks with one

ASSUME TaskAssumption ==
  /\ First \in Task /\ Last \in Task /\ First # Last
  /\ Follow \in [Task -> SUBSET Task]
  /\ MayFail \subseteq Task /\ Fetcher \subseteq Task /\ Lister \subseteq Task
  /\ Fetcher \cap Lister = {} /\ {First, Last} \cap (Fetcher \cup Lister) = {}

(* A task is made by one other task at most, the two special ones by none. *)
ASSUME ForestAssumption ==
  \A p \in Task :
    /\ Follow[p] \cap {First, Last} = {}
    /\ \A q \in Task : p # q => Follow[p] \cap Follow[q] = {}

VARIABLES
  active, done, added, signaled,   \* StartupRunner's lists of tasks
  errors,     \* errors is not null
  switched,   \* switchedBackground
  todo,       \* active tasks whose build() is still to come in this build()
  phase,      \* "idle" outside of build(), or "building"
  runner,     \* the runner is "live", "doomed" (on Router's list) or "closed"
  quit,       \* Router.quit was called
  conn,       \* [Task -> {"none", "open", "shut"}]: its connection object
  file,       \* the downloaded file on disk: "missing", "good" or "bad"
  outcome,    \* history: "none", "game" or "error", what ended the startup
  starts,     \* history: how often it ended
  closes,     \* history: [Task -> Nat], the calls of its close()
  asserts     \* history: every assertion held

lists == <<active, done, added, signaled>>
ending == <<switched, runner, outcome, starts>>
vars == <<lists, errors, todo, phase, ending, quit, conn, file, closes, asserts>>

Listed == active \cup added \cup done

TypeOK ==
  /\ active \subseteq Task /\ done \subseteq Task
  /\ added \subseteq Task /\ signaled \subseteq Task /\ todo \subseteq Task
  /\ errors \in BOOLEAN /\ switched \in BOOLEAN
  /\ quit \in BOOLEAN /\ asserts \in BOOLEAN
  /\ phase \in {"idle", "building"}
  /\ runner \in {"live", "doomed", "closed"}
  /\ conn \in [Task -> {"none", "open", "shut"}]
  /\ file \in {"missing", "good", "bad"}
  /\ outcome \in {"none", "game", "error"}
  /\ starts \in Nat /\ closes \in [Task -> Nat]

(* The file may be left from an earlier start, whatever was downloaded.    *)
Init ==
  /\ active = {} /\ done = {} /\ added = {First} /\ signaled = {}
  /\ errors = FALSE /\ switched = FALSE /\ todo = {} /\ phase = "idle"
  /\ runner = "live" /\ quit = FALSE
  /\ conn = [t \in Task |-> "none"]
  /\ file \in {"missing", "good", "bad"}
  /\ outcome = "none" /\ starts = 0
  /\ closes = [t \in Task |-> 0] /\ asserts = TRUE

-------------------------------------------------------------------------------
(* Task.signalDone and nextTask, Task.signalError.                         *)

MayAdd(T) == T \cap (signaled \cup Listed) = {}

Done(t) ==
  /\ signaled' = signaled \cup {t}
  /\ added' = added \cup Follow[t]
  /\ asserts' = (asserts /\ t \in active \cup added
                         /\ t \notin signaled \cup done /\ MayAdd(Follow[t]))
  /\ UNCHANGED <<active, done, errors>>

Fail(t) ==
  /\ signaled' = signaled \cup {t}
  /\ errors' = TRUE
  /\ asserts' = (asserts /\ t \in active /\ t \notin signaled \cup done)
  /\ UNCHANGED <<active, done, added>>

(* The web connections of the tasks t adds are made with them.             *)
Connections(t) ==
  [u \in Task |-> IF u \in Follow[t] \cap Lister THEN "open" ELSE conn[u]]

-------------------------------------------------------------------------------
(* build() of one task.                                                    *)

Turn(t) ==
  /\ phase = "building" /\ t \in todo
  /\ todo' = todo \ {t}
  /\ UNCHANGED <<phase, ending, quit, closes>>

BuildPlain(t) ==
  /\ Turn(t) /\ t \notin Fetcher \cup Lister
  /\ \/ Done(t) /\ conn' = Connections(t)
     \/ t \in MayFail /\ Fail(t) /\ UNCHANGED conn
  /\ UNCHANGED file

(* LoadDefaultSkin without a connection: load the file or ask for it.      *)
BuildFetcher(t) ==
  /\ Turn(t) /\ t \in Fetcher /\ conn[t] = "none"
  /\ \/ file = "good" /\ Done(t) /\ conn' = Connections(t)
     \/ file = "bad" /\ Fail(t) /\ UNCHANGED conn
     \/ /\ file = "missing" /\ conn' = [conn EXCEPT ![t] = "open"]
        /\ UNCHANGED <<lists, errors, asserts>>
  /\ UNCHANGED file

(* LoadDefaultSkin's DownloadConnection is ticked.  What was downloaded is *)
(* saved unseen; an error shuts the connection before it is reported, a    *)
(* server that closes too early does not.                                  *)
Fetch(t) ==
  /\ Turn(t) /\ t \in Fetcher /\ conn[t] # "none"
  /\ \/ UNCHANGED <<lists, errors, asserts, conn, file>>
     \/ /\ conn[t] = "open"
        /\ file' \in {"good", "bad"} /\ conn' = [conn EXCEPT ![t] = "none"]
        /\ UNCHANGED <<lists, errors, asserts>>
     \/ /\ conn[t] = "open"
        /\ \/ conn' = [conn EXCEPT ![t] = "shut"]
           \/ UNCHANGED conn
        /\ Fail(t) /\ UNCHANGED file

(* ClassicGetList's WebpageConnection is ticked; every callback that ends  *)
(* the task deletes the connection first.                                  *)
List(t) ==
  /\ Turn(t) /\ t \in Lister
  /\ \/ UNCHANGED <<lists, errors, asserts, conn>>
     \/ /\ conn[t] = "open"
        /\ Done(t) /\ conn' = [Connections(t) EXCEPT ![t] = "none"]
     \/ /\ conn[t] = "open"
        /\ Fail(t) /\ conn' = [conn EXCEPT ![t] = "none"]
  /\ UNCHANGED file

BuildTask(t) == BuildPlain(t) \/ BuildFetcher(t) \/ Fetch(t) \/ List(t)

-------------------------------------------------------------------------------
(* build() of the runner.                                                  *)

(* Slip: what was loaded is started although a task has failed.            *)
HandleNoTaskLeftAnyway ==
  IF ~ switched
    THEN /\ switched' = TRUE /\ added' = {Last}
         /\ asserts' = (asserts /\ Last \notin Listed \cup signaled)
         /\ UNCHANGED <<runner, outcome, starts>>
    ELSE /\ outcome' \in {"game", "error"} /\ starts' = starts + 1
         /\ runner' = "doomed" /\ added' = {}
         /\ UNCHANGED <<switched, asserts>>

(* Miners' handleNoTaskLeft.  Starting the game may throw, which shows an  *)
(* error as well.  Called by manageTasks, with `added' emptied.            *)
HandleNoTaskLeft ==
  IF ~ switched
    THEN /\ switched' = TRUE /\ added' = {Last}
         /\ asserts' = (asserts /\ Last \notin Listed \cup signaled)
         /\ UNCHANGED <<runner, outcome, starts>>
    ELSE /\ outcome' \in IF errors THEN {"error"} ELSE {"game", "error"}
         /\ starts' = starts + 1
         /\ runner' = "doomed" /\ added' = {}
         /\ UNCHANGED <<switched, asserts>>

(* Slip: a deleted connection is not set to null.                          *)
CloseTasksDangling(T) ==
  /\ closes' = [t \in Task |-> IF t \in T THEN closes[t] + 1 ELSE closes[t]]
  /\ conn' = [t \in Task \ T |-> conn[t]]

(* task.close() of every task of T.                                        *)
CloseTasks(T) ==
  /\ closes' = [t \in Task |-> IF t \in T THEN closes[t] + 1 ELSE closes[t]]
  /\ conn' = [t \in Task |-> IF t \in T THEN "none" ELSE conn[t]]

(* Slip: the signaled tasks are not taken off the active list.             *)
ManageTasksKeeping ==
  LET left == active \cup added
  IN  /\ active' = left /\ done' = done \cup signaled /\ signaled' = {}
      /\ CloseTasks(signaled)
      /\ IF left # {} THEN added' = {} /\ UNCHANGED <<ending, asserts>>
                      ELSE HandleNoTaskLeft

ManageTasks ==
  LET left == (active \cup added) \ signaled
  IN  /\ active' = left /\ done' = done \cup signaled /\ signaled' = {}
      /\ CloseTasks(signaled)
      /\ IF left # {} THEN added' = {} /\ UNCHANGED <<ending, asserts>>
                      ELSE HandleNoTaskLeft

(* Slip: the router calls a runner that has nothing to do.                 *)
HasWorkAlways == TRUE

(* Slip: the tasks that are only added are overlooked.                     *)
HasWorkActive == active # {}

HasWork == added \cup active \cup signaled # {}

(* The first half of build(): up to the loop over the active tasks.        *)
StartBuild ==
  /\ phase = "idle" /\ runner # "closed" /\ HasWork
  /\ ManageTasks
  /\ phase' = (IF added' \cup active' = {} THEN "idle" ELSE "building")
  /\ todo' = active'
  /\ UNCHANGED <<errors, quit, file>>

EndBuild ==
  /\ phase = "building" /\ todo = {}
  /\ ManageTasks
  /\ phase' = "idle"
  /\ UNCHANGED <<errors, todo, quit, file>>

(* handleEscapePressed, or the window is closed.                           *)
Quit ==
  /\ phase = "idle" /\ ~ quit /\ runner # "closed"
  /\ quit' = TRUE
  /\ UNCHANGED <<lists, errors, todo, phase, ending, conn, file, closes, asserts>>

(* Slip: only the tasks that have signaled are closed.                     *)
DoomedSignaled == signaled

(* The tasks that close() closes.                                          *)
Doomed == active

(* close(): by the router, once the runner is doomed or the game quits.    *)
(* The main loop idles, and so builds at least once, before it looks       *)
(* whether to go on (game/app.d:139, 157).                                 *)
Close ==
  /\ phase = "idle" /\ runner # "closed"
  /\ runner = "doomed" \/ (quit /\ First \notin added)
  /\ runner' = "closed"
  /\ CloseTasks(Doomed)
  /\ active' = {} /\ signaled' = {}
  /\ UNCHANGED <<done, added, errors, todo, phase, switched, outcome, starts,
                 quit, file, asserts>>

Next ==
  \/ StartBuild \/ EndBuild \/ Quit \/ Close
  \/ \E t \in Task : BuildTask(t)

Spec == Init /\ [][Next]_vars

(* The router calls its builders in every frame and closes what is doomed; *)
(* nothing is assumed of the network.                                      *)
FairSpec ==
  /\ Spec
  /\ WF_vars(StartBuild) /\ WF_vars(EndBuild) /\ WF_vars(Close)
  /\ WF_vars(\E t \in Task : BuildTask(t))

-------------------------------------------------------------------------------
(* Properties.                                                             *)

(* The assertions of signalError, addTask and signalDone (startup.d:182,   *)
(* 191, 200): a task is added once, is on one list, and signals once.      *)
AssertionsHold == asserts

(* build() goes on being called between the deleteMe and the close of the  *)
(* runner, and manageTasks runs twice in one build: the startup still ends *)
(* once, and not while a task is left.                                     *)
EndsOnce ==
  /\ starts <= 1
  /\ starts = 1 => runner # "live" /\ active \cup added \cup signaled = {}

(* Of the two ends, the game starts only when no task has failed and       *)
(* everything that follows from the first task has been loaded.            *)
GameStartsLoaded ==
  outcome = "game" =>
    /\ ~ errors /\ {First, Last} \subseteq done
    /\ \A t \in done : Follow[t] \subseteq done

(* A task is closed once, when it has signaled or with the runner, and its *)
(* connection does not outlive it, however the download ended and whenever *)
(* the player quits; ~ClassicGetList asserts it (miners/startup.d:669).    *)
ClosedOnce ==
  \A t \in Task :
    /\ closes[t] <= 1
    /\ t \in done => closes[t] = 1
    /\ closes[t] = 1 \/ runner = "closed" => conn[t] = "none"

(* The startup comes to an end, unless a server keeps a download waiting   *)
(* for ever, which has no timeout.                                         *)
StartupEnds ==
  <>(runner = "closed") \/ <>[](\E t \in Task : t \in active /\ conn[t] = "open")
===============================================================================
