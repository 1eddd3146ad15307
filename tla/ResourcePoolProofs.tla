------------------------- MODULE ResourcePoolProofs -------------------------
(***************************************************************************)
(* Proofs about ResourcePool, for any variables, objects and names.        *)
(*                                                                         *)
(* The inductive invariant is PoolOK.  It is stated about values and not   *)
(* about the variables, because an action of the model may be several      *)
(* calls of reference() one after the other: each call keeps PoolOK        *)
(* (ReferenceKeeps), so what they make together does.                      *)
(***************************************************************************)
EXTENDS ResourcePool, FiniteSetTheorems, TLAPS

HoldersOf(rf, r) == {h \in Holder : rf[h] = r}

TypesOK(lv, nm, rc, rf, mp, mk, td) ==
  /\ lv \subseteq Res
  /\ nm \in [Res -> Key \cup {NoName}]
  /\ rc \in [Res -> Nat]
  /\ rf \in [Holder -> Res \cup {NoRes}]
  /\ mp \in [Key -> Res \cup {NoRes}]
  /\ mk \subseteq Key
  /\ td \subseteq lv

CountsOK(lv, rc, rf) == \A r \in lv : rc[r] = Cardinality(HoldersOf(rf, r))

HoldersOK(lv, rf, td) ==
  \A h \in Holder : rf[h] # NoRes => rf[h] \in lv \ td

MapOK(lv, nm, mp, td) ==
  \A k \in Key : mp[k] # NoRes => mp[k] \in lv \ td /\ nm[mp[k]] = k

NamedOK(lv, nm, rc, mp, mk, td) ==
  \A r \in lv \ td : nm[r] # NoName =>
    mp[nm[r]] = r /\ (nm[r] \in mk <=> rc[r] = 0)

MarksOK(mp, mk) == \A k \in mk : mp[k] # NoRes

UnnamedOK(lv, nm, rc, td) ==
  \A r \in lv \ td : nm[r] = NoName => rc[r] > 0

DeadOK(lv, rf) == \A r \in Res \ lv : rf[r] = NoRes

PoolOK(lv, nm, rc, rf, mp, mk, td) ==
  /\ TypesOK(lv, nm, rc, rf, mp, mk, td)
  /\ CountsOK(lv, rc, rf)
  /\ HoldersOK(lv, rf, td)
  /\ MapOK(lv, nm, mp, td)
  /\ NamedOK(lv, nm, rc, mp, mk, td)
  /\ MarksOK(mp, mk)
  /\ UnnamedOK(lv, nm, rc, td)
  /\ DeadOK(lv, rf)

PoolInv ==
  /\ PoolOK(live, name, refcount, ref, map, marked, todo)
  /\ collecting \in BOOLEAN

-----------------------------------------------------------------------------
(* Counting holders. *)

(* The holders of anything are finitely many. *)
LEMMA HoldersFinite ==
  ASSUME NEW rf, NEW r
  PROVE  /\ IsFiniteSet(HoldersOf(rf, r))
         /\ Cardinality(HoldersOf(rf, r)) \in Nat
<1>1. IsFiniteSet(Holder)
  BY SlotAssumption, ResAssumption, FS_Union DEF Holder
<1>2. IsFiniteSet(HoldersOf(rf, r))
  BY <1>1, FS_Subset DEF HoldersOf
<1>3. QED
  BY <1>2, FS_CardinalityType

(* A resource with a holder has a positive count of holders. *)
LEMMA HeldCounts ==
  ASSUME NEW rf, NEW r, NEW h \in Holder, rf[h] = r
  PROVE  Cardinality(HoldersOf(rf, r)) > 0
<1>1. h \in HoldersOf(rf, r)
  BY DEF HoldersOf
<1>2. Cardinality(HoldersOf(rf, r)) # 0
  BY <1>1, HoldersFinite, FS_EmptySet
<1>3. QED
  BY <1>2, HoldersFinite

(* And one that is counted zero times has none. *)
LEMMA UncountedFree ==
  ASSUME NEW rf, NEW r, Cardinality(HoldersOf(rf, r)) = 0
  PROVE  \A h \in Holder : rf[h] # r
BY HeldCounts

(* One holder takes something else: the number of holders of r goes up by
   one if r is what it takes, and down by one if r is what it had. *)
LEMMA CountAfter ==
  ASSUME NEW rf \in [Holder -> Res \cup {NoRes}], NEW h \in Holder,
         NEW new \in Res \cup {NoRes}, NEW r \in Res,
         NEW rf2, rf2[h] = new, \A x \in Holder \ {h} : rf2[x] = rf[x]
  PROVE  Cardinality(HoldersOf(rf2, r))
           = Cardinality(HoldersOf(rf, r))
               + (IF new = r THEN 1 ELSE 0) - (IF rf[h] = r THEN 1 ELSE 0)
<1> DEFINE before == HoldersOf(rf, r)
           after == HoldersOf(rf2, r)
<1>1. /\ IsFiniteSet(before) /\ Cardinality(before) \in Nat
      /\ IsFiniteSet(after) /\ Cardinality(after) \in Nat
  BY HoldersFinite
<1>3. CASE new = r /\ rf[h] = r
  <2>1. after = before
    BY <1>3 DEF HoldersOf
  <2>2. QED
    BY <1>1, <1>3, <2>1
<1>4. CASE new # r /\ rf[h] # r
  <2>1. after = before
    BY <1>4 DEF HoldersOf
  <2>2. QED
    BY <1>1, <1>4, <2>1
<1>5. CASE new = r /\ rf[h] # r
  <2>1. after = before \cup {h} /\ h \notin before
    BY <1>5 DEF HoldersOf
  <2>2. Cardinality(after) = Cardinality(before) + 1
    BY <1>1, <2>1, FS_AddElement
  <2>3. QED
    BY <1>1, <1>5, <2>2
<1>6. CASE new # r /\ rf[h] = r
  <2>1. after = before \ {h} /\ h \in before
    BY <1>6 DEF HoldersOf
  <2>2. Cardinality(after) = Cardinality(before) - 1
    BY <1>1, <2>1, FS_RemoveElement
  <2>3. QED
    BY <1>1, <1>6, <2>2
<1>7. QED
  BY <1>3, <1>4, <1>5, <1>6

-----------------------------------------------------------------------------
(* reference() *)

(* A call of reference(&h, new), on values. *)
RefCount(rc, rf, h, new) == DecCount(IncCount(rc, new), rf[h])
RefMarks(mk, rc, rf, h, new) ==
  Marked(Unmarked(mk, rc, new), IncCount(rc, new), rf[h])
RefTodo(td, rc, rf, h, new) == Doomed(td, IncCount(rc, new), rf[h])

(* The counts after reference(), one by one; none goes below zero. *)
LEMMA CountByCount ==
  ASSUME NEW lv, NEW mp, NEW mk, NEW td, NEW rc, NEW rf,
         PoolOK(lv, name, rc, rf, mp, mk, td),
         NEW h \in Holder, NEW new \in Res \cup {NoRes}
  PROVE  /\ RefCount(rc, rf, h, new) \in [Res -> Nat]
         /\ \A r \in Res : RefCount(rc, rf, h, new)[r] =
              rc[r] + (IF new = r THEN 1 ELSE 0) - (IF rf[h] = r THEN 1 ELSE 0)
         /\ rf[h] # NoRes => IncCount(rc, new)[rf[h]] > 0
<1> DEFINE old == rf[h]
           up == IncCount(rc, new)
<1>1. rc \in [Res -> Nat] /\ old \in Res \cup {NoRes}
  BY DEF PoolOK, TypesOK
<1>2. /\ up \in [Res -> Nat]
      /\ \A r \in Res : up[r] = rc[r] + (IF new = r THEN 1 ELSE 0)
  BY <1>1, ResAssumption DEF IncCount
<1>3. ASSUME old # NoRes
      PROVE  up[old] > 0
  <2>1. old \in lv /\ old \in Res
    BY <1>1, <1>3 DEF PoolOK, HoldersOK
  <2>2. rc[old] = Cardinality(HoldersOf(rf, old))
    BY <2>1 DEF PoolOK, CountsOK
  <2>3. rc[old] > 0
    BY <2>2, HeldCounts
  <2>4. QED
    BY <1>1, <1>2, <2>1, <2>3
<1>4. CASE old = NoRes
  BY <1>1, <1>2, <1>4, ResAssumption DEF RefCount, DecCount
<1>5. CASE old # NoRes
  <2>1. RefCount(rc, rf, h, new) = [up EXCEPT ![old] = @ - 1]
    BY <1>5 DEF RefCount, DecCount
  <2>2. up[old] \in Nat /\ up[old] > 0 /\ old \in Res
    BY <1>1, <1>2, <1>3, <1>5
  <2>3. up[old] - 1 \in Nat
    BY <2>2
  <2>4. RefCount(rc, rf, h, new) \in [Res -> Nat]
    BY <1>2, <2>1, <2>3
  <2>5. ASSUME NEW r \in Res
        PROVE  RefCount(rc, rf, h, new)[r] =
                 up[r] - (IF old = r THEN 1 ELSE 0)
    BY <1>2, <2>1, <2>2
  <2>6. QED
    BY <1>1, <1>2, <1>3, <1>5, <2>4, <2>5
<1>6. QED
  BY <1>4, <1>5

(* reference() keeps PoolOK: whoever calls it, for whatever resource that is
   not on its way out, is counted; and what nobody holds any more is marked,
   or doomed, exactly then. *)
LEMMA ReferenceKeeps ==
  ASSUME NEW lv, NEW mp, NEW mk, NEW td, NEW rc, NEW rf,
         PoolOK(lv, name, rc, rf, mp, mk, td),
         NEW h \in Holder, h \in Slot \/ h \in lv,
         NEW new \in Res \cup {NoRes}, new # NoRes => new \in lv \ td
  PROVE  PoolOK(lv, name, RefCount(rc, rf, h, new), [rf EXCEPT ![h] = new],
                mp, RefMarks(mk, rc, rf, h, new), RefTodo(td, rc, rf, h, new))
<1> DEFINE old == rf[h]
           up == IncCount(rc, new)
           rc2 == RefCount(rc, rf, h, new)
           rf2 == [rf EXCEPT ![h] = new]
           mk1 == Unmarked(mk, rc, new)
           mk2 == RefMarks(mk, rc, rf, h, new)
           td2 == RefTodo(td, rc, rf, h, new)
<1>1. TypesOK(lv, name, rc, rf, mp, mk, td)
  BY DEF PoolOK
<1>2. old \in Res \cup {NoRes} /\ (old # NoRes => old \in lv \ td)
  BY <1>1 DEF PoolOK, HoldersOK, TypesOK
<1>3. /\ rc2 \in [Res -> Nat]
      /\ \A r \in Res : rc2[r] =
           rc[r] + (IF new = r THEN 1 ELSE 0) - (IF old = r THEN 1 ELSE 0)
      /\ old # NoRes => up[old] > 0
  BY CountByCount
<1>4. rc \in [Res -> Nat]
  BY <1>1 DEF TypesOK
<1>5. old # NoRes => up[old] = rc2[old] + 1
  <2>1. old # NoRes => up[old] = rc[old] + (IF new = old THEN 1 ELSE 0)
    BY <1>2, <1>4, ResAssumption DEF IncCount
  <2>2. QED
    BY <1>2, <1>3, <1>4, <2>1
<1>6. Gone(up, old) <=> (old # NoRes /\ rc2[old] = 0)
  BY <1>2, <1>3, <1>5 DEF Gone
<1>7. \A r \in lv \ td : name[r] # NoName => name[r] \in Key
  BY <1>1 DEF TypesOK
<1>8. CountsOK(lv, rc2, rf2)
  <2>1. ASSUME NEW r \in lv
        PROVE  rc2[r] = Cardinality(HoldersOf(rf2, r))
    <3>1. r \in Res /\ rf \in [Holder -> Res \cup {NoRes}]
      BY <1>1 DEF TypesOK
    <3>2. rc[r] = Cardinality(HoldersOf(rf, r))
      BY DEF PoolOK, CountsOK
    <3>3. Cardinality(HoldersOf(rf2, r)) = Cardinality(HoldersOf(rf, r))
            + (IF new = r THEN 1 ELSE 0) - (IF old = r THEN 1 ELSE 0)
      <4>1. rf2[h] = new /\ \A x \in Holder \ {h} : rf2[x] = rf[x]
        BY <3>1
      <4> HIDE DEF rf2
      <4>2. QED
        BY <3>1, <4>1, CountAfter
    <3>4. QED
      BY <1>3, <3>1, <3>2, <3>3
  <2>2. QED
    BY <2>1 DEF CountsOK
<1>9. td2 = IF old # NoRes /\ rc2[old] = 0 /\ name[old] = NoName
            THEN td \cup {old} ELSE td
  BY <1>6 DEF RefTodo, Doomed
<1>10. mk2 = IF old # NoRes /\ rc2[old] = 0 /\ name[old] # NoName
             THEN mk1 \cup {name[old]} ELSE mk1
  BY <1>6 DEF RefMarks, Marked
<1>11. TypesOK(lv, name, rc2, rf2, mp, mk2, td2)
  <2>1. rf2 \in [Holder -> Res \cup {NoRes}]
    BY <1>1 DEF TypesOK
  <2>2. mk1 \subseteq Key
    BY <1>1 DEF TypesOK, Unmarked
  <2>3. mk2 \subseteq Key
    BY <1>2, <1>7, <1>10, <2>2
  <2>4. td2 \subseteq lv
    BY <1>1, <1>2, <1>9 DEF TypesOK
  <2>5. QED
    BY <1>1, <1>3, <2>1, <2>3, <2>4 DEF TypesOK
<1>12. HoldersOK(lv, rf2, td2)
  <2>1. ASSUME NEW x \in Holder, rf2[x] # NoRes
        PROVE  rf2[x] \in lv \ td2
    <3>1. rf2[x] \in lv \ td
      <4>1. CASE x = h
        BY <1>1, <2>1, <4>1 DEF TypesOK
      <4>2. CASE x # h
        BY <1>1, <2>1, <4>2 DEF TypesOK, PoolOK, HoldersOK
      <4>3. QED
        BY <4>1, <4>2
    <3>2. ASSUME old # NoRes, rc2[old] = 0
          PROVE  rf2[x] # old
      <4>1. Cardinality(HoldersOf(rf2, old)) = 0
        BY <1>2, <1>8, <3>2 DEF CountsOK
      <4>2. QED
        BY <4>1, UncountedFree
    <3>3. QED
      BY <1>9, <3>1, <3>2
  <2>2. QED
    BY <2>1 DEF HoldersOK
<1>13. MapOK(lv, name, mp, td2)
  <2>1. ASSUME NEW k \in Key, mp[k] # NoRes
        PROVE  mp[k] \in lv \ td2 /\ name[mp[k]] = k
    <3>1. mp[k] \in lv \ td /\ name[mp[k]] = k
      BY <2>1 DEF PoolOK, MapOK
    <3>2. QED
      BY <1>9, <3>1, KeyAssumption
  <2>2. QED
    BY <2>1 DEF MapOK
<1>14. NamedOK(lv, name, rc2, mp, mk2, td2)
  <2>1. ASSUME NEW r \in lv \ td2, name[r] # NoName
        PROVE  mp[name[r]] = r /\ (name[r] \in mk2 <=> rc2[r] = 0)
    <3>1. r \in lv \ td /\ r \in Res
      BY <1>1, <1>9, <2>1 DEF TypesOK
    <3>2. mp[name[r]] = r /\ (name[r] \in mk <=> rc[r] = 0)
      BY <2>1, <3>1 DEF PoolOK, NamedOK
    <3>3. \A q \in lv \ td : name[q] = name[r] => q = r
      <4>1. \A q \in lv \ td : name[q] = name[r] => mp[name[q]] = q
        BY <2>1 DEF PoolOK, NamedOK
      <4>2. QED
        BY <3>2, <4>1
    <3>4. rc2[r] = rc[r] + (IF new = r THEN 1 ELSE 0)
                     - (IF old = r THEN 1 ELSE 0)
      BY <1>3, <3>1
    <3>5. name[r] \in mk1 <=> (rc[r] = 0 /\ new # r)
      <4>1. CASE new = r
        BY <3>1, <3>2, <4>1, ResAssumption DEF Unmarked
      <4>2. CASE new # r
        <5>1. new # NoRes => name[new] # name[r]
          BY <3>3, <4>2
        <5>2. name[r] \in mk1 <=> name[r] \in mk
          BY <5>1 DEF Unmarked
        <5>3. QED
          BY <3>2, <4>2, <5>2
      <4>3. QED
        BY <4>1, <4>2
    <3>6. CASE old = r
      <4>1. name[r] \in mk2 <=> (rc2[r] = 0 \/ name[r] \in mk1)
        BY <1>10, <2>1, <3>1, <3>6, ResAssumption
      <4>2. up[r] > 0 /\ up[r] = rc2[r] + 1
        BY <1>3, <1>5, <3>1, <3>6, ResAssumption
      <4>3. rc[r] > 0
        <5>1. rc[r] = Cardinality(HoldersOf(rf, r))
          BY <3>1 DEF PoolOK, CountsOK
        <5>2. QED
          BY <3>6, <5>1, HeldCounts
      <4>4. QED
        BY <3>2, <3>5, <4>1, <4>3
    <3>7. CASE old # r
      <4>1. old # NoRes => name[old] # name[r]
        BY <1>2, <3>3, <3>7
      <4>2. name[r] \in mk2 <=> name[r] \in mk1
        BY <1>10, <4>1
      <4>3. rc2[r] = 0 <=> (rc[r] = 0 /\ new # r)
        BY <1>4, <3>1, <3>4, <3>7
      <4>4. QED
        BY <3>2, <3>5, <4>2, <4>3
    <3>8. QED
      BY <3>6, <3>7
  <2>2. QED
    BY <2>1 DEF NamedOK
<1>15. MarksOK(mp, mk2)
  <2>1. ASSUME NEW k \in mk2
        PROVE  mp[k] # NoRes
    <3>1. CASE k \in mk
      BY <3>1 DEF PoolOK, MarksOK
    <3>2. CASE k \notin mk
      <4>1. k \notin mk1
        BY <3>2 DEF Unmarked
      <4>2. old # NoRes /\ name[old] # NoName /\ k = name[old]
        BY <1>10, <2>1, <4>1
      <4>3. mp[name[old]] = old
        BY <1>2, <4>2 DEF PoolOK, NamedOK
      <4>4. QED
        BY <4>2, <4>3
    <3>3. QED
      BY <3>1, <3>2
  <2>2. QED
    BY <2>1 DEF MarksOK
<1>16. UnnamedOK(lv, name, rc2, td2)
  <2>1. ASSUME NEW r \in lv \ td2, name[r] = NoName
        PROVE  rc2[r] > 0
    <3>1. r \in lv \ td /\ r \in Res
      BY <1>1, <1>9, <2>1 DEF TypesOK
    <3>2. rc[r] > 0
      BY <2>1, <3>1 DEF PoolOK, UnnamedOK
    <3>3. CASE old = r
      <4>1. rc2[r] # 0
        BY <1>9, <2>1, <3>1, <3>3, ResAssumption
      <4>2. QED
        BY <1>3, <3>1, <4>1
    <3>4. CASE old # r
      BY <1>3, <1>4, <3>1, <3>2, <3>4
    <3>5. QED
      BY <3>3, <3>4
  <2>2. QED
    BY <2>1 DEF UnnamedOK
<1>17. DeadOK(lv, rf2)
  <2>1. ASSUME NEW r \in Res \ lv
        PROVE  rf2[r] = NoRes
    <3>1. r # h /\ r \in Holder
      BY SlotAssumption DEF Holder
    <3>2. rf[r] = NoRes
      BY DEF PoolOK, DeadOK
    <3>3. QED
      BY <1>1, <3>1, <3>2 DEF TypesOK
  <2>2. QED
    BY <2>1 DEF DeadOK
<1>18. QED
  BY <1>8, <1>11, <1>12, <1>13, <1>14, <1>15, <1>16, <1>17 DEF PoolOK

-----------------------------------------------------------------------------
(* The actions. *)

LEMMA InitInv ==
  Init => PoolInv
<1> SUFFICES ASSUME Init
             PROVE  PoolInv
  OBVIOUS
<1>1. TypesOK(live, name, refcount, ref, map, marked, todo)
  BY DEF Init, TypesOK
<1>2. CountsOK(live, refcount, ref) /\ DeadOK(live, ref)
  BY DEF Init, CountsOK, DeadOK, Holder
<1>3. HoldersOK(live, ref, todo) /\ MapOK(live, name, map, todo)
  BY DEF Init, HoldersOK, MapOK
<1>4. /\ NamedOK(live, name, refcount, map, marked, todo)
      /\ MarksOK(map, marked)
      /\ UnnamedOK(live, name, refcount, todo)
  BY DEF Init, NamedOK, MarksOK, UnnamedOK
<1>5. QED
  BY <1>1, <1>2, <1>3, <1>4 DEF PoolInv, PoolOK, Init

(* One call of reference() on the variables. *)
LEMMA ReferenceInv ==
  ASSUME PoolInv, NEW h \in Holder, h \in Slot \/ h \in live,
         NEW new \in Res \cup {NoRes}, new # NoRes => new \in live \ todo,
         Reference(h, new)
  PROVE  PoolInv'
<1>1. PoolOK(live, name, RefCount(refcount, ref, h, new),
             [ref EXCEPT ![h] = new], map,
             RefMarks(marked, refcount, ref, h, new),
             RefTodo(todo, refcount, ref, h, new))
  BY ReferenceKeeps DEF PoolInv
<1>2. /\ refcount' = RefCount(refcount, ref, h, new)
      /\ ref' = [ref EXCEPT ![h] = new]
      /\ marked' = RefMarks(marked, refcount, ref, h, new)
      /\ todo' = RefTodo(todo, refcount, ref, h, new)
      /\ live' = live /\ name' = name /\ map' = map
      /\ collecting' = collecting
  BY DEF Reference, RefCount, RefMarks, RefTodo
<1>3. PoolOK(live, name, refcount, ref, map, marked, todo)'
  BY <1>1, <1>2
<1>4. QED
  BY <1>2, <1>3 DEF PoolInv

(* What a holder holds, and what the pool finds, is there to be taken. *)
LEMMA HeldIsThere ==
  ASSUME PoolInv
  PROVE  /\ \A h \in Holder : ref[h] \in Res \cup {NoRes}
         /\ \A h \in Holder : ref[h] # NoRes => ref[h] \in live \ todo
         /\ \A k \in Key : map[k] # NoRes => map[k] \in live \ todo
         /\ live \subseteq Res /\ Slot \subseteq Holder /\ Res \subseteq Holder
BY DEF PoolInv, PoolOK, TypesOK, HoldersOK, MapOK, Holder

LEMMA DropInv ==
  ASSUME PoolInv, NEW s \in Slot, Drop(s)
  PROVE  PoolInv'
BY ReferenceInv, HeldIsThere DEF Drop

LEMMA ShareInv ==
  ASSUME PoolInv, NEW s \in Slot, NEW t \in Slot, Share(s, t)
  PROVE  PoolInv'
<1>1. ref[t] \in live \ todo /\ ref[t] \in Res /\ s \in Holder
  BY HeldIsThere DEF Share
<1>2. Reference(s, ref[t])
  BY DEF Share
<1>3. QED
  BY <1>1, <1>2, ReferenceInv

LEMMA UpdateInv ==
  ASSUME PoolInv, NEW s \in Slot, NEW t \in Slot, Update(s, t)
  PROVE  PoolInv'
<1>1. /\ ref[s] \in live /\ ref[s] \in Holder
      /\ ref[t] \in live \ todo /\ ref[t] \in Res
  BY HeldIsThere DEF Update
<1>2. Reference(ref[s], ref[t])
  BY DEF Update
<1>3. QED
  BY <1>1, <1>2, ReferenceInv

LEMMA FindInv ==
  ASSUME PoolInv, NEW s \in Slot, NEW k \in Key, Find(s, k)
  PROVE  PoolInv'
<1>1. map[k] \in live \ todo /\ map[k] \in Res /\ s \in Holder
  BY HeldIsThere DEF Find
<1>2. Reference(s, map[k])
  BY DEF Find
<1>3. QED
  BY <1>1, <1>2, ReferenceInv

(* Two calls: the variable takes the wrapper, the wrapper the texture. *)
LEMMA FindWrappedInv ==
  ASSUME PoolInv, NEW s \in Slot, NEW t \in Slot, NEW k \in Key,
         FindWrapped(s, k, t)
  PROVE  PoolInv'
<1> DEFINE w == map[k]
           new == ref[t]
           rc1 == RefCount(refcount, ref, s, w)
           rf1 == [ref EXCEPT ![s] = w]
           mk1 == RefMarks(marked, refcount, ref, s, w)
           td1 == RefTodo(todo, refcount, ref, s, w)
<1>1. /\ w \in live \ todo /\ w \in Res /\ w \in Holder /\ s \in Holder
      /\ new \in live \ todo /\ new \in Res
      /\ ref[s] = NoRes
  BY HeldIsThere DEF FindWrapped
<1>2. PoolOK(live, name, rc1, rf1, map, mk1, td1)
  BY <1>1, ReferenceKeeps DEF PoolInv
<1>3. ~Gone(IncCount(refcount, w), NoRes)
  BY DEF Gone
<1>4. /\ rc1 = IncCount(refcount, w)
      /\ mk1 = Unmarked(marked, refcount, w)
      /\ td1 = todo
  BY <1>1, <1>3
     DEF RefCount, RefMarks, RefTodo, DecCount, Marked, Doomed
<1>5. PoolOK(live, name, RefCount(rc1, rf1, w, new), [rf1 EXCEPT ![w] = new],
             map, RefMarks(mk1, rc1, rf1, w, new), RefTodo(td1, rc1, rf1, w, new))
  <2>1. new \in live \ td1 /\ new \in Res \cup {NoRes}
    BY <1>1, <1>4
  <2> HIDE DEF new, rc1, rf1, mk1, td1
  <2>2. QED
    BY <1>1, <1>2, <2>1, ReferenceKeeps
<1>6. rf1[w] = ref[w]
  <2>1. w # s
    BY <1>1, SlotAssumption
  <2>2. ref \in [Holder -> Res \cup {NoRes}]
    BY DEF PoolInv, PoolOK, TypesOK
  <2>3. QED
    BY <1>1, <2>1, <2>2
<1>7. /\ refcount' = RefCount(rc1, rf1, w, new)
      /\ marked' = RefMarks(mk1, rc1, rf1, w, new)
      /\ todo' = RefTodo(td1, rc1, rf1, w, new)
  <2> HIDE DEF rf1, rc1, mk1, td1
  <2>1. QED
    BY <1>4, <1>6 DEF FindWrapped, RefCount, RefMarks, RefTodo
<1>8. ref' = [rf1 EXCEPT ![w] = new]
  BY DEF FindWrapped
<1>9. live' = live /\ name' = name /\ map' = map /\ collecting' = collecting
  BY DEF FindWrapped
<1>10. PoolOK(live, name, refcount, ref, map, marked, todo)'
  BY <1>5, <1>7, <1>8, <1>9
<1>11. QED
  BY <1>9, <1>10 DEF PoolInv

(* A destructor: what it held is given up by reference(), and then it is
   gone; it was doomed, so nobody held it. *)
LEMMA DeleteInv ==
  ASSUME PoolInv, NEW r \in Res, Delete(r)
  PROVE  PoolInv'
<1> DEFINE rc1 == RefCount(refcount, ref, r, NoRes)
           rf1 == [ref EXCEPT ![r] = NoRes]
           mk1 == RefMarks(marked, refcount, ref, r, NoRes)
           td1 == RefTodo(todo, refcount, ref, r, NoRes)
<1>1. r \in todo /\ r \in live /\ r \in Holder
  BY HeldIsThere DEF Delete, PoolInv, PoolOK, TypesOK
<1>2. PoolOK(live, name, rc1, rf1, map, mk1, td1)
  BY <1>1, ReferenceKeeps DEF PoolInv
<1>3. ref[r] # r /\ IncCount(refcount, NoRes) = refcount
      /\ Unmarked(marked, refcount, NoRes) = marked
  <2>1. ref[r] # NoRes => ref[r] \notin todo
    BY <1>1, HeldIsThere
  <2>2. QED
    BY <1>1, <2>1, ResAssumption DEF IncCount, Unmarked
<1>4. /\ refcount' = rc1 /\ ref' = rf1 /\ marked' = mk1
      /\ live' = live \ {r} /\ name' = name /\ map' = map
      /\ collecting' = collecting
  BY <1>3 DEF Delete, RefCount, RefMarks
<1>5. todo' = td1 \ {r} /\ r \in td1
  BY <1>1, <1>3 DEF Delete, RefTodo, Doomed
<1> HIDE DEF rc1, mk1, td1
<1>6. rf1[r] = NoRes
  BY <1>1 DEF PoolInv, PoolOK, TypesOK
<1>7. TypesOK(live', name', refcount', ref', map', marked', todo')
  BY <1>2, <1>4, <1>5 DEF PoolOK, TypesOK
<1>8. CountsOK(live', refcount', ref')
  BY <1>2, <1>4 DEF PoolOK, CountsOK
<1>9. live' \ todo' = live \ td1
  BY <1>4, <1>5
<1>10. HoldersOK(live', ref', todo') /\ MapOK(live', name', map', todo')
  BY <1>2, <1>4, <1>9 DEF PoolOK, HoldersOK, MapOK
<1>11. /\ NamedOK(live', name', refcount', map', marked', todo')
       /\ MarksOK(map', marked')
       /\ UnnamedOK(live', name', refcount', todo')
  BY <1>2, <1>4, <1>9 DEF PoolOK, NamedOK, MarksOK, UnnamedOK
<1>12. DeadOK(live', ref')
  BY <1>2, <1>4, <1>6 DEF PoolOK, DeadOK
<1>13. PoolOK(live, name, refcount, ref, map, marked, todo)'
  BY <1>7, <1>8, <1>10, <1>11, <1>12 DEF PoolOK
<1>14. QED
  BY <1>4, <1>13 DEF PoolInv

(* A constructor: the resource inside is taken by reference(), and the new
   one, which nobody knew, is held by its maker alone. *)
LEMMA CreateInv ==
  ASSUME PoolInv, NEW s \in Slot, NEW r \in Res, NEW k \in Key \cup {NoName},
         NEW inner, inner = NoRes \/ \E t \in Slot : inner = ref[t],
         Create(s, r, k, inner)
  PROVE  PoolInv'
<1>1. /\ TypesOK(live, name, refcount, ref, map, marked, todo)
      /\ CountsOK(live, refcount, ref)
      /\ HoldersOK(live, ref, todo)
      /\ MapOK(live, name, map, todo)
      /\ NamedOK(live, name, refcount, map, marked, todo)
      /\ MarksOK(map, marked)
      /\ UnnamedOK(live, name, refcount, todo)
      /\ DeadOK(live, ref)
  BY DEF PoolInv, PoolOK
<1>2. /\ refcount \in [Res -> Nat]
      /\ ref \in [Holder -> Res \cup {NoRes}]
      /\ map \in [Key -> Res \cup {NoRes}]
      /\ name \in [Res -> Key \cup {NoName}]
      /\ live \subseteq Res /\ marked \subseteq Key /\ todo = {}
  BY <1>1 DEF TypesOK, Create, Quiet
<1>3. /\ r \notin live /\ ref[r] = NoRes /\ ref[s] = NoRes
      /\ s \in Holder /\ r \in Holder /\ s # r
  <2>1. r \notin live /\ ref[s] = NoRes
    BY DEF Create
  <2>2. ref[r] = NoRes
    BY <1>1, <2>1 DEF DeadOK
  <2>3. QED
    BY <2>1, <2>2, SlotAssumption DEF Holder
<1>4. inner \in Res \cup {NoRes} /\ (inner # NoRes => inner \in live)
  BY HeldIsThere
<1>5. inner # r
  BY <1>3, <1>4, ResAssumption
<1>6. /\ refcount' \in [Res -> Nat]
      /\ refcount'[r] = 1
      /\ \A x \in live : refcount'[x] =
           refcount[x] + (IF inner = x THEN 1 ELSE 0)
  <2>1. IncCount(refcount, inner) \in [Res -> Nat]
    BY <1>2, <1>4 DEF IncCount
  <2>2. refcount' = [IncCount(refcount, inner) EXCEPT ![r] = 1]
    BY DEF Create
  <2>3. \A x \in live : IncCount(refcount, inner)[x] =
          refcount[x] + (IF inner = x THEN 1 ELSE 0)
    BY <1>2, <1>4, ResAssumption DEF IncCount
  <2>4. QED
    BY <1>2, <1>3, <2>1, <2>2, <2>3
<1>7. /\ ref' \in [Holder -> Res \cup {NoRes}]
      /\ ref'[s] = r /\ ref'[r] = inner
      /\ \A x \in Holder \ {s, r} : ref'[x] = ref[x]
  BY <1>2, <1>3, <1>4 DEF Create
<1>8. /\ live' = live \cup {r} /\ todo' = {}
      /\ name' = [name EXCEPT ![r] = k]
      /\ collecting' = collecting
      /\ map' = IF k = NoName THEN map ELSE [map EXCEPT ![k] = r]
      /\ marked' = Unmarked(marked, refcount, inner)
      /\ k # NoName => map[k] = NoRes
  BY <1>2 DEF Create
<1>9. /\ name' \in [Res -> Key \cup {NoName}]
      /\ name'[r] = k /\ \A x \in live : name'[x] = name[x]
  BY <1>2, <1>3, <1>8
<1>10. /\ map' \in [Key -> Res \cup {NoRes}]
       /\ k # NoName => map'[k] = r
       /\ \A q \in Key : q # k => map'[q] = map[q]
  BY <1>2, <1>8
<1>11. \A x \in live : name[x] # NoName => name[x] # k
  <2>1. ASSUME NEW x \in live, name[x] # NoName
        PROVE  name[x] # k
    <3>1. map[name[x]] = x
      BY <1>1, <1>2, <2>1 DEF NamedOK
    <3>2. QED
      BY <1>2, <1>8, <2>1, <3>1, ResAssumption
  <2>2. QED
    BY <2>1
<1>12. TypesOK(live', name', refcount', ref', map', marked', todo')
  <2>1. marked' \subseteq Key
    BY <1>2, <1>8 DEF Unmarked
  <2>2. QED
    BY <1>2, <1>6, <1>7, <1>8, <1>9, <1>10, <2>1 DEF TypesOK
<1>13. CountsOK(live', refcount', ref')
  <2>1. refcount'[r] = Cardinality(HoldersOf(ref', r))
    <3>1. \A h \in Holder : ref[h] # r
      BY <1>1, <1>3, ResAssumption DEF HoldersOK
    <3>2. HoldersOf(ref', r) = {s}
      BY <1>3, <1>5, <1>7, <3>1 DEF HoldersOf
    <3>3. QED
      BY <1>6, <3>2, FS_Singleton
  <2>2. ASSUME NEW x \in live
        PROVE  refcount'[x] = Cardinality(HoldersOf(ref', x))
    <3>1. refcount[x] = Cardinality(HoldersOf(ref, x)) /\ x \in Res
      BY <1>1, <1>2 DEF CountsOK
    <3>2. x # r /\ x # NoRes
      BY <1>2, <1>3, ResAssumption
    <3>3. CASE inner = x
      <4>1. HoldersOf(ref', x) = HoldersOf(ref, x) \cup {r}
        BY <1>3, <1>7, <3>2, <3>3 DEF HoldersOf
      <4>2. r \notin HoldersOf(ref, x)
        BY <1>3, <3>2 DEF HoldersOf
      <4>3. Cardinality(HoldersOf(ref', x)) = Cardinality(HoldersOf(ref, x)) + 1
        BY <4>1, <4>2, HoldersFinite, FS_AddElement
      <4>4. QED
        BY <1>6, <3>1, <3>3, <4>3
    <3>4. CASE inner # x
      <4>1. HoldersOf(ref', x) = HoldersOf(ref, x)
        BY <1>3, <1>7, <3>2, <3>4 DEF HoldersOf
      <4>2. QED
        BY <1>2, <1>6, <3>1, <3>4, <4>1
    <3>5. QED
      BY <3>3, <3>4
  <2>3. QED
    BY <1>8, <2>1, <2>2 DEF CountsOK
<1>14. HoldersOK(live', ref', todo')
  BY <1>1, <1>3, <1>4, <1>7, <1>8 DEF HoldersOK
<1>15. MapOK(live', name', map', todo')
  <2>1. ASSUME NEW q \in Key, map'[q] # NoRes
        PROVE  map'[q] \in live' \ todo' /\ name'[map'[q]] = q
    <3>1. CASE q = k
      BY <1>8, <1>9, <1>10, <3>1, KeyAssumption
    <3>2. CASE q # k
      <4>1. map'[q] = map[q] /\ map[q] # NoRes
        BY <1>10, <2>1, <3>2
      <4>2. map[q] \in live /\ name[map[q]] = q
        BY <1>1, <4>1 DEF MapOK
      <4>3. QED
        BY <1>8, <1>9, <4>1, <4>2
    <3>3. QED
      BY <3>1, <3>2
  <2>2. QED
    BY <2>1 DEF MapOK
<1>16. NamedOK(live', name', refcount', map', marked', todo')
  <2>1. ASSUME name'[r] # NoName
        PROVE  /\ map'[name'[r]] = r
               /\ name'[r] \in marked' <=> refcount'[r] = 0
    <3>1. name'[r] = k /\ map'[k] = r /\ map[k] = NoRes
      BY <1>8, <1>9, <1>10, <2>1
    <3>2. k \notin marked
      BY <1>1, <3>1 DEF MarksOK
    <3>3. k \notin marked'
      BY <1>8, <3>2 DEF Unmarked
    <3>4. QED
      BY <1>6, <3>1, <3>3
  <2>2. ASSUME NEW x \in live, name'[x] # NoName
        PROVE  /\ map'[name'[x]] = x
               /\ name'[x] \in marked' <=> refcount'[x] = 0
    <3>1. name'[x] = name[x] /\ name[x] # k /\ name[x] \in Key
      BY <1>2, <1>9, <1>11, <2>2
    <3>2. map[name[x]] = x /\ (name[x] \in marked <=> refcount[x] = 0)
      BY <1>1, <1>2, <2>2, <3>1 DEF NamedOK
    <3>3. map'[name'[x]] = x
      BY <1>10, <3>1, <3>2
    <3>4. CASE inner = x
      <4>1. name[x] \notin marked'
        BY <1>2, <1>8, <3>2, <3>4, ResAssumption DEF Unmarked
      <4>2. refcount'[x] > 0
        BY <1>2, <1>6, <3>4
      <4>3. QED
        BY <3>1, <3>3, <4>1, <4>2
    <3>5. CASE inner # x
      <4>1. inner # NoRes => name[inner] # name[x]
        <5>1. ASSUME inner # NoRes, name[inner] = name[x]
              PROVE  FALSE
          <6>1. map[name[inner]] = inner
            BY <1>1, <1>2, <1>4, <2>2, <3>1, <5>1 DEF NamedOK
          <6>2. QED
            BY <3>2, <3>5, <5>1, <6>1
        <5>2. QED
          BY <5>1
      <4>2. name[x] \in marked' <=> name[x] \in marked
        BY <1>8, <4>1 DEF Unmarked
      <4>3. refcount'[x] = refcount[x]
        BY <1>2, <1>6, <3>5
      <4>4. QED
        BY <3>1, <3>2, <3>3, <4>2, <4>3
    <3>6. QED
      BY <3>4, <3>5
  <2>3. QED
    BY <1>8, <2>1, <2>2 DEF NamedOK
<1>17. MarksOK(map', marked')
  <2>1. ASSUME NEW q \in marked'
        PROVE  map'[q] # NoRes
    <3>1. q \in marked /\ q \in Key
      BY <1>2, <1>8 DEF Unmarked
    <3>2. map[q] # NoRes
      BY <1>1, <3>1 DEF MarksOK
    <3>3. QED
      BY <1>8, <1>10, <3>1, <3>2, KeyAssumption
  <2>2. QED
    BY <2>1 DEF MarksOK
<1>18. UnnamedOK(live', name', refcount', todo')
  <2>1. ASSUME NEW x \in live, name'[x] = NoName
        PROVE  refcount'[x] > 0
    <3>1. refcount[x] > 0
      BY <1>1, <1>2, <1>9, <2>1 DEF UnnamedOK
    <3>2. QED
      BY <1>2, <1>6, <3>1
  <2>2. QED
    BY <1>6, <1>8, <2>1 DEF UnnamedOK
<1>19. DeadOK(live', ref')
  <2>1. ASSUME NEW x \in Res \ live'
        PROVE  ref'[x] = NoRes
    <3>1. x \in Holder \ {s, r} /\ x \in Res \ live
      BY <1>8, SlotAssumption DEF Holder
    <3>2. QED
      BY <1>1, <1>7, <3>1 DEF DeadOK
  <2>2. QED
    BY <2>1 DEF DeadOK
<1>20. PoolOK(live, name, refcount, ref, map, marked, todo)'
  BY <1>12, <1>13, <1>14, <1>15, <1>16, <1>17, <1>18, <1>19 DEF PoolOK
<1>21. QED
  BY <1>8, <1>20 DEF PoolInv

(* What is marked is held by nobody: it may go. *)
LEMMA CollectInv ==
  ASSUME PoolInv, CollectRound
  PROVE  PoolInv'
<1>1. /\ TypesOK(live, name, refcount, ref, map, marked, todo)
      /\ CountsOK(live, refcount, ref)
      /\ HoldersOK(live, ref, todo)
      /\ MapOK(live, name, map, todo)
      /\ NamedOK(live, name, refcount, map, marked, todo)
      /\ MarksOK(map, marked)
      /\ UnnamedOK(live, name, refcount, todo)
      /\ DeadOK(live, ref)
  BY DEF PoolInv, PoolOK
<1>2. /\ todo = {} /\ marked' = {} /\ collecting' = TRUE
      /\ live' = live /\ name' = name /\ refcount' = refcount /\ ref' = ref
      /\ todo' = {map[k] : k \in marked}
      /\ map' = [k \in Key |-> IF k \in marked THEN NoRes ELSE map[k]]
  BY DEF CollectRound
<1>3. marked \subseteq Key /\ map \in [Key -> Res \cup {NoRes}]
  BY <1>1 DEF TypesOK
<1>4. \A k \in marked : map[k] \in live /\ name[map[k]] = k
  BY <1>1, <1>3 DEF MarksOK, MapOK
<1>5. \A k \in marked : Cardinality(HoldersOf(ref, map[k])) = 0
  <2>1. ASSUME NEW k \in marked
        PROVE  Cardinality(HoldersOf(ref, map[k])) = 0
    <3>1. map[k] \in live \ todo /\ name[map[k]] = k /\ k # NoName
      BY <1>2, <1>3, <1>4, KeyAssumption
    <3>2. refcount[map[k]] = 0
      BY <1>1, <3>1 DEF NamedOK
    <3>3. QED
      BY <1>1, <3>1, <3>2 DEF CountsOK
  <2>2. QED
    BY <2>1
<1>6. TypesOK(live', name', refcount', ref', map', marked', todo')
  <2>1. todo' \subseteq live
    BY <1>2, <1>4
  <2>2. map' \in [Key -> Res \cup {NoRes}]
    BY <1>2, <1>3
  <2>3. QED
    BY <1>1, <1>2, <2>1, <2>2 DEF TypesOK
<1>7. CountsOK(live', refcount', ref') /\ DeadOK(live', ref')
  BY <1>1, <1>2
<1>8. HoldersOK(live', ref', todo')
  <2>1. ASSUME NEW h \in Holder, ref[h] # NoRes
        PROVE  ref[h] \in live \ todo'
    <3>1. ref[h] \in live
      BY <1>1, <2>1 DEF HoldersOK
    <3>2. \A k \in marked : ref[h] # map[k]
      BY <1>5, UncountedFree
    <3>3. QED
      BY <1>2, <3>1, <3>2
  <2>2. QED
    BY <1>2, <2>1 DEF HoldersOK
<1>9. MapOK(live', name', map', todo')
  <2>1. ASSUME NEW k \in Key, map'[k] # NoRes
        PROVE  map'[k] \in live \ todo' /\ name[map'[k]] = k
    <3>1. k \notin marked /\ map'[k] = map[k]
      BY <1>2, <2>1
    <3>2. map[k] \in live /\ name[map[k]] = k
      BY <1>1, <2>1, <3>1 DEF MapOK
    <3>3. \A q \in marked : map[q] # map[k]
      BY <1>4, <3>1, <3>2
    <3>4. QED
      BY <1>2, <3>1, <3>2, <3>3
  <2>2. QED
    BY <1>2, <2>1 DEF MapOK
<1>10. NamedOK(live', name', refcount', map', marked', todo')
  <2>1. ASSUME NEW r \in live \ todo', name[r] # NoName
        PROVE  map'[name[r]] = r /\ refcount[r] # 0
    <3>1. map[name[r]] = r /\ (name[r] \in marked <=> refcount[r] = 0)
      BY <1>1, <1>2, <2>1 DEF NamedOK
    <3>2. name[r] \notin marked
      BY <1>2, <2>1, <3>1
    <3>3. name[r] \in Key
      BY <1>1, <2>1 DEF TypesOK
    <3>4. QED
      BY <1>2, <3>1, <3>2, <3>3
  <2>2. QED
    BY <1>2, <2>1 DEF NamedOK
<1>11. MarksOK(map', marked') /\ UnnamedOK(live', name', refcount', todo')
  BY <1>1, <1>2 DEF MarksOK, UnnamedOK
<1>12. PoolOK(live, name, refcount, ref, map, marked, todo)'
  BY <1>6, <1>7, <1>8, <1>9, <1>10, <1>11 DEF PoolOK
<1>13. QED
  BY <1>2, <1>12 DEF PoolInv

LEMMA CollectEndInv ==
  ASSUME PoolInv, CollectEnd
  PROVE  PoolInv'
<1>1. PoolOK(live, name, refcount, ref, map, marked, todo)'
  BY DEF PoolInv, CollectEnd
<1>2. QED
  BY <1>1 DEF PoolInv, CollectEnd

(* Builders come and go while the pool stays as it is. *)
LEMMA BuilderInv ==
  ASSUME PoolInv, AddBuilder \/ RemoveBuilder
  PROVE  PoolInv'
<1>1. PoolOK(live, name, refcount, ref, map, marked, todo)'
  BY DEF PoolInv, AddBuilder, RemoveBuilder
<1>2. QED
  BY <1>1 DEF PoolInv, AddBuilder, RemoveBuilder

LEMMA StutterInv ==
  ASSUME PoolInv, UNCHANGED vars
  PROVE  PoolInv'
<1>1. PoolOK(live, name, refcount, ref, map, marked, todo)'
  BY DEF PoolInv, vars
<1>2. QED
  BY <1>1 DEF PoolInv, vars

LEMMA StepInv ==
  PoolInv /\ [Next]_vars => PoolInv'
<1> SUFFICES ASSUME PoolInv, [Next]_vars
             PROVE  PoolInv'
  OBVIOUS
<1>1. ASSUME NEW s \in Slot, NEW r \in Res, NEW k \in Key \cup {NoName},
             NEW inner \in {NoRes} \cup {ref[t] : t \in Slot},
             Create(s, r, k, inner)
      PROVE  PoolInv'
  <2>1. inner = NoRes \/ \E t \in Slot : inner = ref[t]
    OBVIOUS
  <2>2. QED
    BY <1>1, <2>1, CreateInv
<1>2. QED
  BY <1>1, DropInv, ShareInv, UpdateInv, FindInv, FindWrappedInv, DeleteInv,
     CollectInv, CollectEndInv, BuilderInv, StutterInv DEF Next

THEOREM Invariance ==
  Spec => []PoolInv
BY InitInv, StepInv, PTL DEF Spec

-----------------------------------------------------------------------------
(* Every reachable state is well typed, for any variables, objects, names. *)
THEOREM PoolTypeCorrect ==
  Spec => []TypeOK
<1> DEFINE Building == building \in BOOLEAN
<1>1. PoolInv /\ Building => TypeOK
  BY DEF PoolInv, PoolOK, TypesOK, TypeOK
<1>2. Init => Building
  BY DEF Init
<1>3. Building /\ [Next]_vars => Building'
  BY DEF Next, vars, Drop, Share, Update, Find, FindWrapped, Reference, Create,
         Delete, AddBuilder, RemoveBuilder, CollectRound, CollectEnd
<1> HIDE DEF Building
<1>4. QED
  BY <1>1, <1>2, <1>3, Invariance, PTL DEF Spec

(* reference() keeps every count equal to the number of holders. *)
THEOREM PoolCounts ==
  Spec => []CountsAreHolders
<1>1. PoolInv => CountsAreHolders
  BY DEF PoolInv, PoolOK, CountsOK, HoldersOf, CountsAreHolders, Holders
<1>2. QED
  BY <1>1, Invariance, PTL

(* Nobody can reach a resource that is deleted or about to be. *)
THEOREM PoolNothingDangles ==
  Spec => []NothingDangles
<1>1. PoolInv => NothingDangles
  BY DEF PoolInv, PoolOK, HoldersOK, MapOK, NothingDangles
<1>2. QED
  BY <1>1, Invariance, PTL

(* A named resource is marked exactly while nobody holds it. *)
THEOREM PoolMarks ==
  Spec => []MarkedIffUnused
<1>1. PoolInv => MarkedIffUnused
  <2> SUFFICES ASSUME PoolInv
               PROVE  MarkedIffUnused
    OBVIOUS
  <2>1. \A k \in marked : map[k] # NoRes /\ name[map[k]] = k
    BY DEF PoolInv, PoolOK, TypesOK, MarksOK, MapOK
  <2>2. QED
    BY <2>1 DEF PoolInv, PoolOK, NamedOK, UnnamedOK, MarkedIffUnused
<1>2. QED
  BY <1>1, Invariance, PTL
=============================================================================
