---------------------------- MODULE ResourcePool ----------------------------
(***************************************************************************)
(* The counted resources of the engine and the pool that finds the named   *)
(* ones again (charge/sys/resource.d): textures, pictures, meshes, fonts.  *)
(*                                                                         *)
(* A holder is a variable of the program that keeps a resource, or a       *)
(* resource that keeps another one (a WrappedTexture its texture, a font   *)
(* its glyphs).  Every holder takes and gives up its resource through      *)
(* reference(), so the counts can be compared with the holders.            *)
(*                                                                         *)
(* Deleting runs a destructor, which gives up what the resource held and   *)
(* may delete more.  todo holds the resources whose destructor is due; the *)
(* rest of the program waits until it is empty.                            *)
(***************************************************************************)
EXTENDS Naturals, FiniteSets

CONSTANTS
  Slot,   \* variables of the program that hold resources
  Res,    \* the objects that may exist
  Key,    \* uri ~ name of named resources
  NoRes,  \* null
  NoName  \* the name of a resource that is in no pool

ASSUME SlotAssumption == Slot \cap Res = {} /\ IsFiniteSet(Slot)
ASSUME ResAssumption == NoRes \notin Res /\ IsFiniteSet(Res)
ASSUME KeyAssumption == NoName \notin Key

VARIABLES
  live,        \* the resources that exist
  name,        \* Resource.uri ~ name
  refcount,    \* Resource.refcount
  ref,         \* what each holder holds
  map,         \* Pool.map
  marked,      \* the keys of Pool.marked; the values are those of map
  todo,        \* resources being deleted, destructor not yet run
  collecting,  \* Pool.collect is running
  building     \* RouterApp.builders is not empty

vars == <<live, name, refcount, ref, map, marked, todo, collecting, building>>

Holder == Slot \cup Res

Holders(r) == {h \in Holder : ref[h] = r}

(* No destructor is running: the rest of the program may act. *)
Quiet == todo = {} /\ ~collecting

Init ==
  /\ live = {}
  /\ name = [r \in Res |-> NoName]
  /\ refcount = [r \in Res |-> 0]
  /\ ref = [h \in Holder |-> NoRes]
  /\ map = [k \in Key |-> NoRes]
  /\ marked = {}
  /\ todo = {}
  /\ collecting = FALSE
  /\ building = FALSE

-----------------------------------------------------------------------------
(* Resource.incRef and decRef, on the counts, the marks and what is to be
   deleted; r may be null. *)

(* Slip: a resource that nobody held is handed out without being counted. *)
IncCountHeld(rc, r) ==
  IF r = NoRes \/ rc[r] = 0 THEN rc ELSE [rc EXCEPT ![r] = @ + 1]

IncCount(rc, r) == IF r = NoRes THEN rc ELSE [rc EXCEPT ![r] = @ + 1]

DecCount(rc, r) == IF r = NoRes THEN rc ELSE [rc EXCEPT ![r] = @ - 1]

(* Slip: a resource in use again stays marked. *)
UnmarkedNot(mk, rc, r) == mk

Unmarked(mk, rc, r) ==
  IF r # NoRes /\ rc[r] = 0 THEN mk \ {name[r]} ELSE mk

Gone(rc, r) == r # NoRes /\ rc[r] = 1

Marked(mk, rc, r) ==
  IF Gone(rc, r) /\ name[r] # NoName THEN mk \cup {name[r]} ELSE mk

Doomed(td, rc, r) ==
  IF Gone(rc, r) /\ name[r] = NoName THEN td \cup {r} ELSE td

(* Slip: the old one is given up before the new one is counted. *)
ReferenceOldFirst(h, new) ==
  LET old  == ref[h]
      down == DecCount(refcount, old)
  IN  /\ refcount' = IncCount(down, new)
      /\ marked' = Unmarked(Marked(marked, refcount, old), down, new)
      /\ todo' = Doomed(todo, refcount, old)
      /\ ref' = [ref EXCEPT ![h] = new]
      /\ UNCHANGED <<live, name, map, collecting, building>>

(* reference(&h, new): count the new one before the old one is given up. *)
Reference(h, new) ==
  LET old == ref[h]
      up  == IncCount(refcount, new)
  IN  /\ refcount' = DecCount(up, old)
      /\ marked' = Marked(Unmarked(marked, refcount, new), up, old)
      /\ todo' = Doomed(todo, up, old)
      /\ ref' = [ref EXCEPT ![h] = new]
      /\ UNCHANGED <<live, name, map, collecting, building>>

-----------------------------------------------------------------------------
(* What the program does with resources. *)

(* reference(&x, null) *)
Drop(s) ==
  /\ Quiet
  /\ ref[s] # NoRes
  /\ Reference(s, NoRes)

(* reference(&x, y) *)
Share(s, t) ==
  /\ Quiet
  /\ ref[t] # NoRes
  /\ Reference(s, ref[t])

(* WrappedTexture.update: a wrapper takes another texture, not a wrapper. *)
Update(s, t) ==
  /\ Quiet
  /\ ref[s] # NoRes /\ ref[ref[s]] # NoRes
  /\ ref[t] # NoRes /\ ref[ref[t]] = NoRes
  /\ Reference(ref[s], ref[t])

(* Pool.resource(uri, name) finds it: the caller holds one reference more,
   in a variable that held none. *)
Find(s, k) ==
  /\ Quiet
  /\ ref[s] = NoRes /\ map[k] # NoRes
  /\ Reference(s, map[k])

(* WrappedTexture.opCall finds the name in the pool: the wrapper is taken
   and updated with the texture of t. *)
FindWrapped(s, k, t) ==
  LET w   == map[k]
      old == ref[w]
      new == ref[t]
      one == IncCount(refcount, w)
      up  == IncCount(one, new)
  IN  /\ Quiet
      /\ ref[s] = NoRes /\ s # t
      /\ w # NoRes /\ old # NoRes
      /\ new # NoRes /\ ref[new] = NoRes
      /\ refcount' = DecCount(up, old)
      /\ marked' = Marked(Unmarked(Unmarked(marked, refcount, w), one, new),
                          up, old)
      /\ todo' = Doomed(todo, up, old)
      /\ ref' = [ref EXCEPT ![s] = w, ![w] = new]
      /\ UNCHANGED <<live, name, map, collecting, building>>

(* A constructor: the count starts at one, for the caller.  A name is one
   the pool does not have.  The new resource may hold another, which the
   caller has in t and which holds nothing itself. *)
Create(s, r, k, inner) ==
  /\ Quiet
  /\ ref[s] = NoRes
  /\ r \notin live
  /\ k # NoName => map[k] = NoRes
  /\ inner # NoRes => ref[inner] = NoRes
  /\ live' = live \cup {r}
  /\ name' = [name EXCEPT ![r] = k]
  /\ refcount' = [IncCount(refcount, inner) EXCEPT ![r] = 1]
  /\ ref' = [ref EXCEPT ![s] = r, ![r] = inner]
  /\ map' = IF k = NoName THEN map ELSE [map EXCEPT ![k] = r]
  /\ marked' = Unmarked(marked, refcount, inner)
  /\ UNCHANGED <<todo, collecting, building>>

-----------------------------------------------------------------------------
(* Slip: what is deleted stays on the list of what is to be deleted. *)
DeleteAgain(r) ==
  LET inner == ref[r]
  IN  /\ r \in todo
      /\ live' = live \ {r}
      /\ ref' = [ref EXCEPT ![r] = NoRes]
      /\ refcount' = DecCount(refcount, inner)
      /\ marked' = Marked(marked, refcount, inner)
      /\ todo' = Doomed(todo, refcount, inner)
      /\ UNCHANGED <<name, map, collecting, building>>

(* The destructor of r gives up what r held. *)
Delete(r) ==
  LET inner == ref[r]
  IN  /\ r \in todo
      /\ live' = live \ {r}
      /\ ref' = [ref EXCEPT ![r] = NoRes]
      /\ refcount' = DecCount(refcount, inner)
      /\ marked' = Marked(marked, refcount, inner)
      /\ todo' = Doomed(todo \ {r}, refcount, inner)
      /\ UNCHANGED <<name, map, collecting, building>>

(* The first runner adds a builder, the last one takes it away. *)
AddBuilder ==
  /\ Quiet
  /\ ~building
  /\ building' = TRUE
  /\ UNCHANGED <<live, name, refcount, ref, map, marked, todo, collecting>>

RemoveBuilder ==
  /\ Quiet
  /\ building
  /\ building' = FALSE
  /\ UNCHANGED <<live, name, refcount, ref, map, marked, todo, collecting>>

(* Slip: collect() starts on two marked resources and never on one. *)
CollectRoundTwo ==
  /\ todo = {}
  /\ collecting \/ (building /\ Cardinality(marked) > 1)
  /\ marked # {}
  /\ collecting' = TRUE
  /\ todo' = {map[k] : k \in marked}
  /\ map' = [k \in Key |-> IF k \in marked THEN NoRes ELSE map[k]]
  /\ marked' = {}
  /\ UNCHANGED <<live, name, refcount, ref, building>>

(* One round of the loop of Pool.collect: forget what is marked, then
   delete it; the destructors may mark more.  RouterApp.idle starts it, but
   returns before when no builder is registered. *)
CollectRound ==
  /\ todo = {}
  /\ collecting \/ building
  /\ marked # {}
  /\ collecting' = TRUE
  /\ todo' = {map[k] : k \in marked}
  /\ map' = [k \in Key |-> IF k \in marked THEN NoRes ELSE map[k]]
  /\ marked' = {}
  /\ UNCHANGED <<live, name, refcount, ref, building>>

CollectEnd ==
  /\ collecting /\ todo = {} /\ marked = {}
  /\ collecting' = FALSE
  /\ UNCHANGED <<live, name, refcount, ref, map, marked, todo, building>>

Next ==
  \/ \E s \in Slot : Drop(s)
  \/ \E s, t \in Slot : Share(s, t)
  \/ \E s, t \in Slot : Update(s, t)
  \/ \E s \in Slot, k \in Key : Find(s, k)
  \/ \E s, t \in Slot, k \in Key : FindWrapped(s, k, t)
  \/ \E s \in Slot, r \in Res, k \in Key \cup {NoName} :
       \E inner \in {NoRes} \cup {ref[t] : t \in Slot} : Create(s, r, k, inner)
  \/ \E r \in Res : Delete(r)
  \/ AddBuilder
  \/ RemoveBuilder
  \/ CollectRound
  \/ CollectEnd

Spec == Init /\ [][Next]_vars

(* While a builder stays registered the main loop calls collect() in every
   frame, between two handlers; what runs, runs to its end. *)
FairSpec ==
  /\ Spec
  /\ <>[]building => SF_vars(CollectRound)
  /\ WF_vars(CollectEnd)
  /\ WF_vars(\E r \in Res : Delete(r))

-----------------------------------------------------------------------------
(* Types, and what each variable may not be without the others: names are of
   things that are alive, only named things are marked. *)
TypeOK ==
  /\ live \subseteq Res
  /\ name \in [Res -> Key \cup {NoName}]
  /\ refcount \in [Res -> Nat]
  /\ ref \in [Holder -> Res \cup {NoRes}]
  /\ map \in [Key -> Res \cup {NoRes}]
  /\ marked \subseteq Key
  /\ todo \subseteq live
  /\ collecting \in BOOLEAN
  /\ building \in BOOLEAN

(* reference() keeps every count equal to the number of holders, whatever is
   shared, wrapped, swapped or deleted, and in whatever order. *)
CountsAreHolders == \A r \in live : refcount[r] = Cardinality(Holders(r))

(* No holder ever points at a resource that is deleted or about to be, and
   the pool hands none out. *)
NothingDangles ==
  /\ \A h \in Holder : ref[h] # NoRes => ref[h] \in live \ todo
  /\ \A k \in Key : map[k] # NoRes => map[k] \in live \ todo

(* Pool.map and Pool.marked agree with the counts: a named resource is found
   by its name until it is collected, and is marked exactly while nobody
   holds it; one without a name is deleted when nobody holds it. *)
MarkedIffUnused ==
  /\ \A r \in live \ todo : name[r] # NoName =>
       /\ map[name[r]] = r
       /\ (name[r] \in marked) <=> (refcount[r] = 0)
  /\ \A r \in live \ todo : name[r] = NoName => refcount[r] > 0
  /\ \A k \in marked : map[k] # NoRes /\ name[map[k]] = k

(* Nothing leaks while the program builds: a resource that nobody holds is
   deleted, unless somebody asks for it again first.  Where no builder stays
   registered, as in the menus, a marked resource can stay for ever. *)
CollectedAtLast ==
  <>[]building =>
    \A r \in Res : (r \in live /\ Holders(r) = {})
                     ~> (r \notin live \/ Holders(r) # {})
=============================================================================
