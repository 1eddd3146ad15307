------------------------------ MODULE RunnerStack ------------------------------
(***************************************************************************)
(* The stack of runners that RouterApp keeps (charge/game/app.d), with the *)
(* Router methods that games and menus call on it, as operators on a       *)
(* record of RouterApp's fields.                                           *)
(*                                                                         *)
(* A runner is named by its index in `runners', the objects made so far.   *)
(* Objects are never forgotten: `closes' counts how often manageRunners    *)
(* has closed and deleted one, so that the model can follow a reference to *)
(* an object that is gone.  Of an object the router only reads `type'.     *)
(***************************************************************************)
EXTENDS Naturals, SequencesExt

NoRunner == 0
NoConn == 0

Type == {"Background", "Game", "Menu", "Overlay"}

(* The flags of each type.                                                 *)
TakesInput(g, r)  == g.runners[r].type \in {"Game", "Menu"}
Blocker(g, r)     == g.runners[r].type = "Game"
AlwaysOnTop(g, r) == g.runners[r].type = "Overlay"

(* Slip: the next manageRunners has no reason to look.                     *)
RemoveUnnoticed(g, r) == [g EXCEPT !.vec = RemoveFirst(@, r)]

RemoveRunner(g, r) == [g EXCEPT !.vec = RemoveFirst(@, r), !.dirty = TRUE]

(* Slip: the search for the place starts at the bottom of the stack.       *)
PushFromBottom(g, r) ==
  LET h   == RemoveRunner(g, r)
      top == SelectInSeq(h.vec, LAMBDA o : ~ AlwaysOnTop(h, o))
  IN  [h EXCEPT !.vec = IF AlwaysOnTop(h, r) THEN Append(@, r)
                        ELSE InsertAt(@, top + 1, r)]

(* The last place under the runners that are always on top.                *)
Top(g) == SelectLastInSeq(g.vec, LAMBDA o : ~ AlwaysOnTop(g, o))

Push(g, r) ==
  LET h == RemoveRunner(g, r)
  IN  [h EXCEPT !.vec = IF AlwaysOnTop(h, r) THEN Append(@, r)
                        ELSE InsertAt(@, Top(h) + 1, r)]

(* Slip: no look at the runners already on the list.                       *)
DeleteMeUnchecked(g, r) ==
  IF r = NoRunner THEN g
    ELSE [RemoveRunner(g, r) EXCEPT !.del = Append(@, r)]

DeleteMe(g, r) ==
  IF r = NoRunner THEN g
    ELSE LET h == RemoveRunner(g, r)
         IN  IF r \in ToSet(h.del) THEN h ELSE [h EXCEPT !.del = Append(@, r)]

DeleteAll(g) ==
  LET deleted[n \in 0 .. Len(g.vec)] ==
        IF n = 0 THEN g ELSE DeleteMe(deleted[n - 1], g.vec[n])
  IN  deleted[Len(g.vec)]

(* The topmost runner that takes input.                                    *)
InputTaker(g) ==
  LET i == SelectLastInSeq(g.vec, LAMBDA r : TakesInput(g, r))
  IN  IF i = 0 THEN NoRunner ELSE g.vec[i]

(* close() and delete of a runner, as often as the list has it.            *)
CloseRunner(g, r) ==
  [g.runners[r] EXCEPT
    !.closes = @ + Cardinality({i \in DOMAIN g.del : g.del[i] = r}),
    !.conn = NoConn]

(* Slip: the list is not cleared once its runners are closed.              *)
ManageKeepingList(g) ==
  IF ~ g.dirty THEN g
    ELSE LET doomed == ToSet(g.del)
             held   == {g.runners[r].conn : r \in doomed}
         IN  [g EXCEPT
               !.dirty = FALSE,
               !.running = @ /\ InputTaker(g) # NoRunner,
               !.currentInput = InputTaker(g),
               !.runners = [r \in DOMAIN @ |->
                  IF r \in doomed THEN CloseRunner(g, r) ELSE @[r]],
               !.conns = [c \in DOMAIN @ |->
                  IF c \in held THEN [@[c] EXCEPT !.open = FALSE] ELSE @[c]]]

(* manageRunners; closing a runner closes the connection it holds.         *)
ManageRunners(g) ==
  IF ~ g.dirty THEN g
    ELSE LET doomed == ToSet(g.del)
             held   == {g.runners[r].conn : r \in doomed}
         IN  [g EXCEPT
               !.dirty = FALSE,
               !.running = @ /\ InputTaker(g) # NoRunner,
               !.currentInput = InputTaker(g),
               !.del = << >>,
               !.runners = [r \in DOMAIN @ |->
                  IF r \in doomed THEN CloseRunner(g, r) ELSE @[r]],
               !.conns = [c \in DOMAIN @ |->
                  IF c \in held THEN [@[c] EXCEPT !.open = FALSE] ELSE @[c]]]
===============================================================================
