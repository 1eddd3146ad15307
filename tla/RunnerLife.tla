------------------------------ MODULE RunnerLife ------------------------------
(***************************************************************************)
(* What becomes of a runner: it is made, it asks or is asked to be         *)
(* deleted, it is closed.  It never comes back and is never closed twice,  *)
(* and at the end nobody is left.                                          *)
(***************************************************************************)
CONSTANT Runner

VARIABLES life,   \* [Runner -> {"unmade", "live", "doomed", "closed"}]
          over    \* the program has closed

Init == life \in [Runner -> {"unmade", "live"}] /\ ~ over

(* Some handlers make a runner and doom another, others only do one.       *)
Handle ==
  /\ ~ over /\ ~ over'
  /\ life' \in [Runner -> {"unmade", "live", "doomed", "closed"}]
  /\ \A r \in Runner : <<life[r], life'[r]>> \in
       {<<"unmade", "unmade">>, <<"unmade", "live">>, <<"live", "live">>,
        <<"live", "doomed">>, <<"doomed", "doomed">>, <<"closed", "closed">>}

Reap ==
  /\ ~ over /\ UNCHANGED over
  /\ life' = [r \in Runner |-> IF life[r] = "doomed" THEN "closed" ELSE life[r]]

End ==
  /\ ~ over /\ over'
  /\ life' = [r \in Runner |-> IF life[r] = "unmade" THEN "unmade" ELSE "closed"]

Spec == Init /\ [][Handle \/ Reap \/ End]_<<life, over>>
===============================================================================
