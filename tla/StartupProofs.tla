----------------------------- MODULE StartupProofs -----------------------------
(***************************************************************************)
(* Proofs about StartupRunner, for every set of tasks whose order is a     *)
(* forest.  The inductive invariant is Inv: which lists a task may be on   *)
(* and when (Lists), that what a task adds comes after it (Order), and     *)
(* what that means for the end, the closes and the connections.            *)
(***************************************************************************)
EXTENDS StartupRunner, TLAPS

(* A task is on one list; outside of build() nobody has signaled, and what *)
(* is only added is a task that no other task has made.                    *)
Lists ==
  /\ active \cap added = {} /\ active \cap done = {} /\ added \cap done = {}
  /\ signaled \subseteq active /\ todo \subseteq active \ signaled
  /\ phase = "idle" => todo = {} /\ signaled = {} /\ added \subseteq {First, Last}
  /\ runner = "closed" => active = {}

(* A task that is on a list was put there by one that has signaled, and    *)
(* the last task by handleNoTaskLeft.                                      *)
Order ==
  /\ \A p \in Task : Follow[p] \cap Listed # {} => p \in signaled \cup done
  /\ ~ switched => Last \notin Listed

(* Once the startup has ended there is nothing left to build.              *)
Ends ==
  /\ phase = "building" => runner = "live"
  /\ runner = "live" => starts = 0
  /\ starts = 0 => outcome = "none" /\ runner # "doomed"
  /\ EndsOnce

Closes ==
  \A t \in Task :
    /\ closes[t] <= 1
    /\ t \in done => closes[t] = 1
    /\ t \notin done /\ runner # "closed" => closes[t] = 0

(* Only the tasks that were made for it have a connection, while they last. *)
Conns ==
  \A t \in Task : t \notin active \cup added \/ t \in {First, Last} => conn[t] = "none"

(* Without an error, nobody who signaled has left a task out.              *)
Loaded ==
  /\ runner # "closed" => First \in Listed /\ (switched => Last \in Listed)
  /\ runner # "closed" /\ ~ errors =>
       \A t \in signaled \cup done : Follow[t] \subseteq Listed
  /\ GameStartsLoaded

Inv == TypeOK /\ Lists /\ Order /\ Ends /\ Closes /\ Conns /\ Loaded /\ AssertionsHold

-------------------------------------------------------------------------------
LEMMA InitInv == Init => Inv
<1> SUFFICES ASSUME Init PROVE Inv
  OBVIOUS
<1> USE TaskAssumption, ForestAssumption DEF Init
<1>1. TypeOK
  BY DEF TypeOK
<1>2. Lists /\ Order
  BY DEF Lists, Order, Listed
<1>3. Ends /\ Closes /\ Conns
  BY DEF Ends, EndsOnce, Closes, Conns
<1>4. Loaded /\ AssertionsHold
  BY DEF Loaded, GameStartsLoaded, Listed, AssertionsHold
<1> QED
  BY <1>1, <1>2, <1>3, <1>4 DEF Inv

(* A task that signals done: it is active, has not signaled, and none of   *)
(* the tasks it adds was on a list.                                        *)
LEMMA DoneInv ==
  ASSUME Inv, NEW t \in Task, Turn(t), Done(t), conn' \in [Task -> {"none", "open", "shut"}],
         file' \in {"missing", "good", "bad"}, Conns'
  PROVE  Inv'
<1> USE TaskAssumption
<1>1. /\ t \in active /\ t \notin signaled \cup done \cup added
      /\ phase = "building" /\ runner = "live"
  BY DEF Inv, Lists, Ends, Turn
<1>2. Follow[t] \subseteq Task /\ Follow[t] \cap {First, Last} = {}
  BY ForestAssumption
<1>3. Follow[t] \cap Listed = {}
  BY <1>1 DEF Inv, Order
<1>4. TypeOK'
  BY <1>2 DEF Inv, TypeOK, Turn, Done, ending
<1>5. Lists'
  BY <1>1, <1>2, <1>3 DEF Inv, Lists, Listed, Turn, Done, ending
<1>6. Order'
  <2>1. ASSUME NEW p \in Task, Follow[p] \cap Listed' # {}
        PROVE  p \in (signaled \cup done)'
    <3>1. CASE Follow[p] \cap Listed # {}
      BY <3>1 DEF Inv, Order, Done
    <3>2. CASE Follow[p] \cap Follow[t] # {}
      BY <3>2, ForestAssumption DEF Done
    <3> QED
      BY <2>1, <3>1, <3>2 DEF Listed, Done
  <2>2. (~ switched => Last \notin Listed)'
    BY <1>2 DEF Inv, Order, Listed, Turn, Done, ending
  <2> QED
    BY <2>1, <2>2 DEF Order
<1>7. Ends'
  BY <1>1 DEF Inv, Ends, EndsOnce, Turn, Done, ending
<1>8. Closes'
  BY DEF Inv, Closes, Turn, Done, ending
<1>9. Loaded'
  BY <1>1 DEF Inv, Loaded, Ends, GameStartsLoaded, Listed, Turn, Done, ending
<1>10. AssertionsHold'
  BY <1>1, <1>3 DEF Inv, AssertionsHold, Done, MayAdd, Lists, Listed
<1> QED
  BY <1>4, <1>5, <1>6, <1>7, <1>8, <1>9, <1>10 DEF Inv

LEMMA FailInv ==
  ASSUME Inv, NEW t \in Task, Turn(t), Fail(t), conn' \in [Task -> {"none", "open", "shut"}],
         file' \in {"missing", "good", "bad"}, Conns'
  PROVE  Inv'
<1> USE TaskAssumption
<1>1. /\ t \in active /\ t \notin signaled \cup done \cup added
      /\ phase = "building" /\ runner = "live"
  BY DEF Inv, Lists, Ends, Turn
<1>2. TypeOK'
  BY DEF Inv, TypeOK, Turn, Fail, ending
<1>3. Lists'
  BY <1>1 DEF Inv, Lists, Turn, Fail, ending
<1>4. Order'
  BY DEF Inv, Order, Listed, Turn, Fail, ending
<1>5. Ends'
  BY <1>1 DEF Inv, Ends, EndsOnce, Turn, Fail, ending
<1>6. Closes'
  BY DEF Inv, Closes, Turn, Fail, ending
<1>7. Loaded'
  BY <1>1 DEF Inv, Loaded, Ends, GameStartsLoaded, Listed, Turn, Fail, ending
<1>8. AssertionsHold'
  BY <1>1 DEF Inv, AssertionsHold, Fail
<1> QED
  BY <1>2, <1>3, <1>4, <1>5, <1>6, <1>7, <1>8 DEF Inv

(* A task that neither signals nor adds: only its connection changes.      *)
LEMMA WaitInv ==
  ASSUME Inv, NEW t \in Task, Turn(t), UNCHANGED <<lists, errors, asserts>>,
         conn' \in [Task -> {"none", "open", "shut"}],
         file' \in {"missing", "good", "bad"}, Conns'
  PROVE  Inv'
<1>1. TypeOK' /\ Lists'
  BY DEF Inv, TypeOK, Lists, Turn, lists, ending
<1>2. Order' /\ Ends' /\ Closes'
  BY DEF Inv, Order, Ends, EndsOnce, Closes, Listed, Turn, lists, ending
<1>3. Loaded' /\ AssertionsHold'
  BY DEF Inv, Loaded, GameStartsLoaded, AssertionsHold, Listed, Turn, lists, ending
<1> QED
  BY <1>1, <1>2, <1>3 DEF Inv

LEMMA BuildTaskInv ==
  ASSUME Inv, NEW t \in Task, BuildTask(t)
  PROVE  Inv'
<1> USE TaskAssumption
<1>1. Turn(t) /\ t \in active /\ t \notin signaled \cup done \cup added
  BY DEF Inv, Lists, Turn, BuildTask, BuildPlain, BuildFetcher, Fetch, List
<1>2. conn \in [Task -> {"none", "open", "shut"}] /\ file \in {"missing", "good", "bad"}
  BY DEF Inv, TypeOK
<1>3. ASSUME Done(t), t \notin Fetcher \cup Lister, conn' = Connections(t), UNCHANGED file
      PROVE  Inv'
  <2>1. Conns'
    BY <1>3, ForestAssumption DEF Inv, Conns, Connections, Done
  <2>2. conn' \in [Task -> {"none", "open", "shut"}]
    BY <1>2, <1>3 DEF Connections
  <2> QED
    BY <1>1, <1>2, <1>3, <2>1, <2>2, DoneInv
<1>4. ASSUME Done(t), t \in Fetcher, conn' = Connections(t), UNCHANGED file
      PROVE  Inv'
  <2>1. Conns'
    BY <1>4, ForestAssumption DEF Inv, Conns, Connections, Done
  <2>2. conn' \in [Task -> {"none", "open", "shut"}]
    BY <1>2, <1>4 DEF Connections
  <2> QED
    BY <1>1, <1>2, <1>4, <2>1, <2>2, DoneInv
<1>5. ASSUME Done(t), t \in Lister, UNCHANGED file,
             conn' = [Connections(t) EXCEPT ![t] = "none"]
      PROVE  Inv'
  <2>1. Conns'
    BY <1>5, ForestAssumption DEF Inv, Conns, Connections, Done
  <2>2. conn' \in [Task -> {"none", "open", "shut"}]
    BY <1>2, <1>5 DEF Connections
  <2> QED
    BY <1>1, <1>2, <1>5, <2>1, <2>2, DoneInv
<1>6. ASSUME Fail(t), UNCHANGED file,
             \/ UNCHANGED conn
             \/ /\ t \in Fetcher \cup Lister
                /\ conn' \in {[conn EXCEPT ![t] = "shut"], [conn EXCEPT ![t] = "none"]}
      PROVE  Inv'
  <2>1. Conns'
    BY <1>1, <1>2, <1>6 DEF Inv, Conns, Fail
  <2>2. conn' \in [Task -> {"none", "open", "shut"}]
    BY <1>2, <1>6
  <2> QED
    BY <1>1, <1>2, <1>6, <2>1, <2>2, FailInv
<1>7. ASSUME UNCHANGED <<lists, errors, asserts>>, file' \in {"missing", "good", "bad"},
             \/ UNCHANGED conn
             \/ /\ t \in Fetcher
                /\ conn' \in {[conn EXCEPT ![t] = "open"], [conn EXCEPT ![t] = "none"]}
      PROVE  Inv'
  <2>1. Conns'
    BY <1>1, <1>2, <1>7 DEF Inv, Conns, lists
  <2>2. conn' \in [Task -> {"none", "open", "shut"}]
    BY <1>2, <1>7
  <2> QED
    BY <1>1, <1>7, <2>1, <2>2, WaitInv
<1>8. CASE BuildPlain(t)
  BY <1>8, <1>3, <1>6 DEF BuildPlain
<1>9. CASE BuildFetcher(t)
  BY <1>9, <1>2, <1>4, <1>6, <1>7 DEF BuildFetcher
<1>10. CASE Fetch(t)
  BY <1>10, <1>2, <1>6, <1>7 DEF Fetch
<1>11. CASE List(t)
  BY <1>11, <1>2, <1>5, <1>6, <1>7 DEF List
<1> QED
  BY <1>8, <1>9, <1>10, <1>11 DEF BuildTask

-------------------------------------------------------------------------------
(* What manageTasks does, at the start of build() and at its end.  Nothing *)
(* that is left was closed, and handleNoTaskLeft runs when nothing is.     *)
LEMMA ManageInv ==
  ASSUME Inv, runner = "live", ManageTasks, UNCHANGED <<errors, quit, file>>,
         phase' \in {"idle", "building"}, todo' \subseteq active',
         phase' = "idle" => todo' = {} /\ added' \subseteq {First, Last},
         phase' = "building" => active' # {}
  PROVE  Inv'
<1> USE TaskAssumption
<1> DEFINE left == (active \cup added) \ signaled
<1>1. /\ active' = left /\ done' = done \cup signaled /\ signaled' = {}
      /\ closes' = [t \in Task |-> IF t \in signaled THEN closes[t] + 1 ELSE closes[t]]
      /\ conn' = [t \in Task |-> IF t \in signaled THEN "none" ELSE conn[t]]
  BY DEF ManageTasks, CloseTasks
<1>2. \/ left # {} /\ added' = {} /\ UNCHANGED <<ending, asserts>>
      \/ /\ left = {} /\ ~ switched /\ switched' = TRUE /\ added' = {Last}
         /\ asserts' = (asserts /\ Last \notin Listed \cup signaled)
         /\ UNCHANGED <<runner, outcome, starts>>
      \/ /\ left = {} /\ switched /\ added' = {}
         /\ outcome' \in {"game", "error"} /\ (errors => outcome' = "error")
         /\ starts' = starts + 1 /\ runner' = "doomed"
         /\ UNCHANGED <<switched, asserts>>
  BY DEF ManageTasks, HandleNoTaskLeft, Inv, TypeOK
<1>3. TypeOK'
  <2>1. closes' \in [Task -> Nat] /\ conn' \in [Task -> {"none", "open", "shut"}]
    BY <1>1 DEF Inv, TypeOK
  <2>2. (asserts \in BOOLEAN)'
    BY <1>2 DEF Inv, TypeOK
  <2>3. /\ switched' \in BOOLEAN /\ runner' \in {"live", "doomed", "closed"}
        /\ outcome' \in {"none", "game", "error"} /\ starts' \in Nat
    <3>1. CASE UNCHANGED <<runner, outcome, starts>>
      BY <3>1, <1>2 DEF Inv, TypeOK, ending
    <3>2. CASE runner' = "doomed"
      BY <3>2, <1>2 DEF Inv, TypeOK, ending
    <3> QED
      BY <1>2, <3>1, <3>2 DEF ending
  <2>4. (active \subseteq Task /\ done \subseteq Task /\ added \subseteq Task
         /\ signaled \subseteq Task /\ todo \subseteq Task)'
    BY <1>1, <1>2 DEF Inv, TypeOK
  <2> QED
    BY <2>1, <2>2, <2>3, <2>4 DEF Inv, TypeOK
<1>4. Lists'
  BY <1>1, <1>2 DEF Inv, Order, Listed, Lists, ending
<1>5. Order'
  <2>1. Listed' \subseteq Listed \cup {Last}
    BY <1>1, <1>2 DEF Listed, Inv, Lists
  <2>2. \A p \in Task : Last \notin Follow[p]
    BY ForestAssumption
  <2>3. \A p \in Task : Follow[p] \cap Listed' # {} => p \in (signaled \cup done)'
    BY <1>1, <2>1, <2>2 DEF Inv, Order
  <2>4. (~ switched => Last \notin Listed)'
    BY <1>1, <1>2 DEF Inv, Order, Listed, Lists, ending
  <2> QED
    BY <2>3, <2>4 DEF Order
<1>6. Ends'
  BY <1>1, <1>2 DEF Inv, TypeOK, Ends, EndsOnce, ending
<1>7. Closes'
  <2> SUFFICES ASSUME NEW t \in Task
               PROVE  /\ closes'[t] <= 1 /\ (t \in done' => closes'[t] = 1)
                      /\ (t \notin done' => closes'[t] = 0)
    BY DEF Closes
  <2>1. closes[t] <= 1 /\ (t \in done => closes[t] = 1)
        /\ (t \notin done => closes[t] = 0) /\ closes[t] \in Nat
    BY DEF Inv, TypeOK, Closes
  <2>2. t \in signaled => t \notin done
    BY DEF Inv, Lists
  <2> QED
    BY <1>1, <2>1, <2>2
<1>8. Conns'
  BY <1>1, <1>2 DEF Inv, Conns, Lists
<1>9. Loaded'
  <2>1. Listed \subseteq Listed'
    BY <1>1, <1>2 DEF Listed
  <2>2. (runner # "closed" => First \in Listed /\ (switched => Last \in Listed))'
    BY <1>1, <1>2, <2>1 DEF Inv, Loaded, Listed, ending
  <2>3. (runner # "closed" /\ ~ errors =>
           \A t \in signaled \cup done : Follow[t] \subseteq Listed)'
    BY <1>1, <2>1 DEF Inv, Loaded
  <2>4. GameStartsLoaded'
    <3>1. CASE UNCHANGED outcome
      BY <3>1 DEF Inv, Ends, GameStartsLoaded
    <3>2. CASE left = {} /\ switched /\ added' = {} /\ (errors => outcome' = "error")
               /\ UNCHANGED switched
      <4>1. Listed \subseteq done'
        BY <1>1, <3>2 DEF Listed
      <4>2. ~ errors => \A t \in done' : Follow[t] \subseteq done'
        BY <1>1, <4>1 DEF Inv, Loaded
      <4>3. {First, Last} \subseteq done'
        BY <3>2, <4>1 DEF Inv, Loaded
      <4> QED
        BY <3>2, <4>2, <4>3 DEF GameStartsLoaded
    <3> QED
      BY <1>2, <3>1, <3>2 DEF ending
  <2> QED
    BY <2>2, <2>3, <2>4 DEF Loaded
<1>10. AssertionsHold'
  BY <1>2 DEF Inv, AssertionsHold, Order, Lists, Listed
<1> QED
  BY <1>3, <1>4, <1>5, <1>6, <1>7, <1>8, <1>9, <1>10 DEF Inv

(* The first manageTasks of a build() finds something left to do.          *)
LEMMA StartBuildInv ==
  ASSUME Inv, StartBuild
  PROVE  Inv'
<1> USE TaskAssumption
<1>1. runner = "live"
  BY DEF Inv, TypeOK, Ends, EndsOnce, StartBuild, HasWork
<1>2. signaled = {} /\ (active \cup added) # {}
  BY DEF Inv, Lists, StartBuild, HasWork
<1>3. active' # {}
  BY <1>2 DEF StartBuild, ManageTasks
<1> QED
  BY <1>1, <1>3, ManageInv DEF StartBuild

LEMMA EndBuildInv ==
  ASSUME Inv, EndBuild
  PROVE  Inv'
<1>1. runner = "live"
  BY DEF Inv, Ends, EndBuild
<1>2. added' \subseteq {First, Last}
  BY DEF EndBuild, ManageTasks, HandleNoTaskLeft
<1> QED
  BY <1>1, <1>2, ManageInv DEF EndBuild

LEMMA QuitInv ==
  ASSUME Inv, Quit
  PROVE  Inv'
<1>1. TypeOK' /\ Lists' /\ Order' /\ Ends'
  BY DEF Inv, Quit, TypeOK, Lists, Order, Ends, EndsOnce, Listed, lists, ending
<1>2. Closes' /\ Conns' /\ Loaded' /\ AssertionsHold'
  BY DEF Inv, Quit, Closes, Conns, Loaded, GameStartsLoaded, Listed, AssertionsHold,
         lists, ending
<1> QED
  BY <1>1, <1>2 DEF Inv

(* Only the first and the last task can be added and not active when the   *)
(* runner is closed, and neither has a connection.                         *)
LEMMA CloseInv ==
  ASSUME Inv, Close
  PROVE  Inv'
<1> USE TaskAssumption
<1>1. /\ active' = {} /\ signaled' = {} /\ runner' = "closed"
      /\ closes' = [t \in Task |-> IF t \in active THEN closes[t] + 1 ELSE closes[t]]
      /\ conn' = [t \in Task |-> IF t \in active THEN "none" ELSE conn[t]]
      /\ UNCHANGED <<done, added, errors, todo, phase, switched, outcome, starts,
                     quit, file, asserts>>
  BY DEF Close, CloseTasks, Doomed
<1>2. phase = "idle" /\ signaled = {} /\ todo = {} /\ added \subseteq {First, Last}
      /\ runner # "closed"
  BY DEF Inv, Lists, Close
<1>3. TypeOK' /\ Lists'
  BY <1>1, <1>2 DEF Inv, TypeOK, Lists
<1>4. Order'
  BY <1>1, <1>2 DEF Inv, Order, Listed
<1>5. Ends'
  BY <1>1, <1>2 DEF Inv, Ends, EndsOnce
<1>6. Closes'
  <2> SUFFICES ASSUME NEW t \in Task
               PROVE  closes'[t] <= 1 /\ (t \in done => closes'[t] = 1)
    BY <1>1 DEF Closes
  <2>1. closes[t] <= 1 /\ (t \in done => closes[t] = 1)
        /\ (t \notin done => closes[t] = 0) /\ closes[t] \in Nat
    BY <1>2 DEF Inv, TypeOK, Closes
  <2>2. t \in active => t \notin done
    BY DEF Inv, Lists
  <2> QED
    BY <1>1, <2>1, <2>2
<1>7. Conns'
  BY <1>1, <1>2 DEF Inv, Conns
<1>8. Loaded' /\ AssertionsHold'
  BY <1>1 DEF Inv, Loaded, GameStartsLoaded, AssertionsHold
<1> QED
  BY <1>3, <1>4, <1>5, <1>6, <1>7, <1>8 DEF Inv

LEMMA StutterInv ==
  ASSUME Inv, UNCHANGED vars
  PROVE  Inv'
<1>1. TypeOK' /\ Lists' /\ Order' /\ Ends'
  BY DEF Inv, TypeOK, Lists, Order, Ends, EndsOnce, Listed, vars, lists, ending
<1>2. Closes' /\ Conns' /\ Loaded' /\ AssertionsHold'
  BY DEF Inv, Closes, Conns, Loaded, GameStartsLoaded, Listed, AssertionsHold,
         vars, lists, ending
<1> QED
  BY <1>1, <1>2 DEF Inv

LEMMA Invariance == Spec => []Inv
<1>1. Inv /\ [Next]_vars => Inv'
  BY StartBuildInv, EndBuildInv, QuitInv, CloseInv, BuildTaskInv, StutterInv DEF Next
<1> QED
  BY <1>1, InitInv, PTL DEF Spec

-------------------------------------------------------------------------------
(* Every reachable state of the startup is well typed.                     *)
THEOREM StartupTypeCorrect == Spec => []TypeOK
<1>1. Inv => TypeOK
  BY DEF Inv
<1> QED
  BY <1>1, Invariance, PTL

(* No assertion of signalError, addTask and signalDone fails, whatever the *)
(* tasks are, as long as each is made by one other at most.                *)
THEOREM StartupAsserts == Spec => []AssertionsHold
<1>1. Inv => AssertionsHold
  BY DEF Inv
<1> QED
  BY <1>1, Invariance, PTL

(* The startup ends once, with no task left.                               *)
THEOREM StartupEndsOnce == Spec => []EndsOnce
<1>1. Inv => EndsOnce
  BY DEF Inv, Ends
<1> QED
  BY <1>1, Invariance, PTL

(* The game starts only with everything loaded and no error.               *)
THEOREM StartupLoaded == Spec => []GameStartsLoaded
<1>1. Inv => GameStartsLoaded
  BY DEF Inv, Loaded
<1> QED
  BY <1>1, Invariance, PTL

(* A task is closed at most once and its connection ends with it.          *)
THEOREM StartupClosedOnce == Spec => []ClosedOnce
<1>1. ASSUME Inv, NEW t \in Task
      PROVE  /\ closes[t] <= 1 /\ (t \in done => closes[t] = 1)
             /\ closes[t] = 1 \/ runner = "closed" => conn[t] = "none"
  <2>1. closes[t] <= 1 /\ (t \in done => closes[t] = 1)
    BY <1>1 DEF Inv, Closes
  <2>2. CASE runner = "closed"
    <3>1. phase = "idle"
      BY <1>1, <2>2 DEF Inv, TypeOK, Ends
    <3> QED
      BY <1>1, <2>1, <2>2, <3>1 DEF Inv, Lists, Conns
  <2>3. CASE runner # "closed" /\ closes[t] = 1
    <3>1. t \in done
      BY <1>1, <2>3 DEF Inv, Closes
    <3> QED
      BY <1>1, <2>1, <3>1 DEF Inv, Lists, Conns
  <2> QED
    BY <2>1, <2>2, <2>3
<1>2. Inv => ClosedOnce
  BY <1>1 DEF ClosedOnce
<1> QED
  BY <1>2, Invariance, PTL
===============================================================================
