---------------------------- MODULE DcpuProofs ----------------------------
(* Theorems about Dcpu, for any number of words, any instruction set made  *)
(* of its operations, any length of the queue and any program.             *)
EXTENDS Dcpu, TLAPS

(* A machine with its fields, and what reading and finding give. *)
Frames == [sp : Word, pc : Word, A : Word, intact : BOOLEAN]
Machine ==
  [ram : [Word -> Word], reg : [Cell -> Word], irq : Seq(Word), sleep : Nat,
   queue : BOOLEAN, halted : BOOLEAN, skip : BOOLEAN, frame : Frames]
Places == [in : {"ram"}, at : Word] \cup [in : {"reg"}, at : Cell \ {"ia"}]

(* What the interrupted program has saved is where it was saved. *)
Framed(v) ==
  v.frame.intact => /\ v.ram[Add(v.frame.sp, -1)] = v.frame.pc
                    /\ v.ram[Add(v.frame.sp, -2)] = v.frame.A

(* What a step inside an instruction leaves alone. *)
Kept(v, w) ==
  /\ w \in Machine /\ w.irq = v.irq /\ w.queue = v.queue
  /\ w.halted = v.halted /\ w.skip = v.skip /\ w.reg["ia"] = v.reg["ia"]
  /\ Framed(v) => Framed(w)

(* An interrupt that waits and may be sent has no handler. *)
Idle(v) == ~v.queue /\ v.irq # <<>> => v.reg["ia"] = 0

(* A machine that has stopped, or skips its next instruction, is sent nothing
   that has an effect.                                                     *)
Undisturbed(v) == v.halted \/ v.skip => Idle(v)

Inv ==
  vm \in Machine /\ Len(vm.irq) <= IrqMax /\ Undisturbed(vm) /\ Framed(vm)

-----------------------------------------------------------------------------
(* Arithmetic on words stays within them. *)
LEMMA WordIsMod == ASSUME NEW n \in Int PROVE n % W \in Word
  BY DcpuAssumption DEF Word

LEMMA ZeroIsWord == 0 \in Word /\ W - 1 \in Word /\ (1 > W - 1 \/ 1 \in Word)
  BY DcpuAssumption DEF Word

LEMMA AddIsWord == ASSUME NEW m \in Word, NEW n \in Int PROVE Add(m, n) \in Word
<1>1. m + n \in Int BY DcpuAssumption DEF Word
<1>2. QED BY <1>1, WordIsMod DEF Add

LEMMA AddWords ==
  ASSUME NEW m \in Word, NEW n \in Word
  PROVE  /\ Add(m, n) \in Word /\ Add(m, -1) \in Word
         /\ Add(m, 1) \in Word /\ Add(m, -2) \in Word
<1>1. n \in Int /\ -1 \in Int /\ 1 \in Int /\ -2 \in Int
  BY DcpuAssumption DEF Word
<1>2. QED BY <1>1, AddIsWord

(* The steps every operation is made of. *)
LEMMA MoveKeeps ==
  ASSUME NEW v \in Machine, NEW c \in Cell \ {"ia"}, NEW n \in Int
  PROVE  Kept(v, Move(v, c, n))
<1>1. Add(v.reg[c], n) \in Word BY AddIsWord DEF Machine
<1>2. QED BY <1>1 DEF Kept, Move, Machine, Framed

LEMMA SleepKeeps ==
  ASSUME NEW v \in Machine, NEW n \in Int, v.sleep + n \in Nat
  PROVE  Kept(v, Sleep(v, n)) /\ Sleep(v, n).reg = v.reg
  BY DEF Kept, Sleep, Machine, Framed

LEMMA StoreKeeps ==
  ASSUME NEW v \in Machine, NEW place \in Places, NEW word \in Word
  PROVE  Kept(v, Store(v, place, word))
<1>1. CASE place.in = "reg"
  BY <1>1 DEF Kept, Store, Machine, Places, Framed
<1>2. CASE place.in = "ram"
  <2>1. place.at \in Word BY <1>2 DEF Places
  <2>2. (v.frame.intact /\ place.at \notin Saved(v.frame)) \in BOOLEAN
    OBVIOUS
  <2>3. Framed(v) => Framed(Store(v, place, word))
    <3> DEFINE f == v.frame
               w == Store(v, place, word)
    <3>1. f.sp \in Word /\ Add(f.sp, -1) \in Word /\ Add(f.sp, -2) \in Word
      BY AddWords DEF Machine, Frames
    <3>2. /\ w.frame.sp = f.sp /\ w.frame.pc = f.pc /\ w.frame.A = f.A
          /\ w.frame.intact => f.intact /\ place.at \notin Saved(f)
      BY <1>2 DEF Store, Machine, Frames
    <3>3. \A i \in Word \ {place.at} : w.ram[i] = v.ram[i]
      BY <1>2, <2>1 DEF Store, Machine
    <3>4. place.at \notin Saved(f)
          => place.at # Add(f.sp, -1) /\ place.at # Add(f.sp, -2)
      BY DEF Saved
    <3>5. QED BY <3>1, <3>2, <3>3, <3>4 DEF Framed
  <2>4. QED BY <1>2, <2>1, <2>2, <2>3 DEF Kept, Store, Machine, Frames
<1>3. QED BY <1>1, <1>2 DEF Places

LEMMA LoadIsWord ==
  ASSUME NEW v \in Machine, NEW place \in Places PROVE Load(v, place) \in Word
  BY DEF Load, Machine, Places

LEMMA CellNames ==
  /\ Register \subseteq Cell \ {"ia"}
  /\ "pc" \in Cell /\ "sp" \in Cell /\ "ia" \in Cell /\ "ex" \in Cell
  /\ "dummy" \in Cell /\ "A" \in Cell /\ "I" \in Cell /\ "J" \in Cell
  BY DEF Register, Cell

LEMMA RegIsPlace == ASSUME NEW c \in Cell \ {"ia"} PROVE Reg(c) \in Places
  BY DEF Reg, Places

LEMMA RamIsPlace == ASSUME NEW i \in Word PROVE Ram(i) \in Places
  BY DEF Ram, Places

LEMMA PushKeeps ==
  ASSUME NEW v \in Machine, NEW word \in Word
  PROVE  Kept(v, Push(v, word))
<1> DEFINE down == Move(v, "sp", -1)
<1>1. Kept(v, down) BY MoveKeeps, CellNames
<1>2. Ram(down.reg["sp"]) \in Places
  BY <1>1, RamIsPlace, CellNames DEF Kept, Machine
<1>3. Kept(down, Store(down, Ram(down.reg["sp"]), word))
  BY <1>1, <1>2, StoreKeeps DEF Kept
<1>4. QED BY <1>1, <1>3 DEF Push, Kept

LEMMA KeptKept ==
  ASSUME NEW u, NEW v, NEW w, Kept(u, v), Kept(v, w) PROVE Kept(u, w)
  BY DEF Kept

-----------------------------------------------------------------------------
(* Reading an operand, and finding the place it names. *)
Positions == {"a", "b"}

LEMMA NextWord ==
  ASSUME NEW v \in Machine
  PROVE  /\ Next1(v) \in Word /\ Last1(v) \in Word
         /\ Kept(v, Consumed(v)) /\ Consumed(v).sleep = v.sleep
<1>1. v.reg["pc"] \in Word BY CellNames DEF Machine
<1>2. Add(v.reg["pc"], -1) \in Word BY <1>1, AddWords
<1>3. Kept(v, Consumed(v)) BY MoveKeeps, CellNames DEF Consumed
<1>4. Consumed(v).sleep = v.sleep BY DEF Consumed, Move, Machine
<1>5. QED BY <1>1, <1>2, <1>3, <1>4 DEF Next1, Last1, Machine

LEMMA ResolveKeeps ==
  ASSUME NEW v \in Machine, NEW o \in Operand, NEW pos \in Positions
  PROVE  /\ Kept(v, Resolve(v, o, pos).vm)
         /\ Resolve(v, o, pos).is \in Word
<1> DEFINE reg == v.reg
           c == Consumed(v)
           popped == Move(v, "sp", IF pos = "a" THEN 1 ELSE -1)
<1>1. reg \in [Cell -> Word] /\ v.ram \in [Word -> Word] /\ Kept(v, v)
  BY DEF Machine, Kept
<1>2. Kept(v, c) /\ Next1(v) \in Word BY NextWord
<1>3. reg["sp"] \in Word /\ reg["dummy"] \in Word BY <1>1, CellNames
<1>4. Kept(v, popped) /\ popped.reg["sp"] \in Word
  <2>1. (IF pos = "a" THEN 1 ELSE -1) \in Int OBVIOUS
  <2>2. Kept(v, popped) BY <2>1, MoveKeeps, CellNames
  <2>3. QED BY <2>2, CellNames DEF Kept, Machine
<1>5. CASE o.kind = "reg"
  <2>1. o.r \in Cell \ {"ia"} BY <1>5 DEF Operand
  <2>2. QED BY <1>1, <1>5, <2>1 DEF Resolve, Read
<1>6. CASE o.kind \in {"val", "nxt_val"}
  <2>1. reg[o.r] \in Word BY <1>1, <1>6, CellNames DEF Operand
  <2>2. Add(reg[o.r], Next1(v)) \in Word BY <1>2, <2>1, AddWords
  <2>3. QED BY <1>1, <1>2, <1>6, <2>1, <2>2 DEF Resolve, Read
<1>7. CASE o.kind \in {"peek", "pick", "nxt", "nxt_lit"}
  <2>1. Add(reg["sp"], Next1(v)) \in Word BY <1>2, <1>3, AddWords
  <2>2. QED BY <1>1, <1>2, <1>3, <1>7, <2>1 DEF Resolve, Read
<1>8. CASE o.kind = "lit"
  <2>1. o.is \in Word BY <1>8 DEF Operand
  <2>2. QED BY <1>1, <1>8, <2>1 DEF Resolve, Read
<1>9. CASE o.kind = "push_pop"
  BY <1>1, <1>3, <1>4, <1>9 DEF Resolve, Read
<1>10. QED BY <1>5, <1>6, <1>7, <1>8, <1>9 DEF Operand

LEMMA ResolveOnceKeeps ==
  ASSUME NEW v \in Machine, NEW o \in Operand, NEW pos \in Positions
  PROVE  /\ Kept(v, ResolveOnce(v, o, pos).vm)
         /\ ResolveOnce(v, o, pos).is \in Word
<1>1. v.reg \in [Cell -> Word] /\ v.ram \in [Word -> Word] /\ Kept(v, v)
  BY DEF Machine, Kept
<1>2. v.reg["sp"] \in Word /\ Last1(v) \in Word
  BY <1>1, CellNames, NextWord
<1>3. Add(v.reg["sp"], Last1(v)) \in Word BY <1>2, AddWords
<1>4. CASE o.kind = "nxt_val"
  <2>1. v.reg[o.r] \in Word BY <1>1, <1>4, CellNames DEF Operand
  <2>2. Add(v.reg[o.r], Last1(v)) \in Word BY <1>2, <2>1, AddWords
  <2>3. QED BY <1>1, <1>4, <2>2 DEF ResolveOnce, Read
<1>5. CASE o.kind \in {"nxt", "push_pop", "pick"}
  BY <1>1, <1>2, <1>3, <1>5 DEF ResolveOnce, Read
<1>6. CASE o.kind \notin {"nxt", "push_pop", "pick", "nxt_val"}
  BY <1>6, ResolveKeeps DEF ResolveOnce
<1>7. QED BY <1>4, <1>5, <1>6

LEMMA PlaceKeeps ==
  ASSUME NEW v \in Machine, NEW o \in Operand, NEW pos \in Positions
  PROVE  Kept(v, Place(v, o, pos).vm) /\ Place(v, o, pos).at \in Places
<1> DEFINE reg == v.reg
           c == Sleep(Consumed(v), 1)
           moved == Move(v, "sp", IF pos = "a" THEN 1 ELSE -1)
<1>1. reg \in [Cell -> Word] /\ v.ram \in [Word -> Word] /\ Kept(v, v)
  BY DEF Machine, Kept
<1>2. Kept(v, c) /\ Next1(v) \in Word
  <2>1. Kept(v, Consumed(v)) /\ Next1(v) \in Word BY NextWord
  <2>2. Consumed(v).sleep + 1 \in Nat BY <2>1 DEF Kept, Machine
  <2>3. Kept(Consumed(v), c) BY <2>1, <2>2, SleepKeeps DEF Kept
  <2>4. QED BY <2>1, <2>3 DEF Kept
<1>3. reg["sp"] \in Word /\ "dummy" \in Cell BY <1>1, CellNames
<1>4. Kept(v, moved) /\ moved.reg["sp"] \in Word
  <2>1. (IF pos = "a" THEN 1 ELSE -1) \in Int OBVIOUS
  <2>2. Kept(v, moved) BY <2>1, MoveKeeps, CellNames
  <2>3. QED BY <2>2, CellNames DEF Kept, Machine
<1>5. CASE o.kind = "reg"
  <2>1. o.r \in Cell \ {"ia"} BY <1>5 DEF Operand
  <2>2. QED BY <1>1, <1>5, <2>1, RegIsPlace DEF Place, Found
<1>6. CASE o.kind \in {"val", "nxt_val"}
  <2>1. reg[o.r] \in Word BY <1>1, <1>6, CellNames DEF Operand
  <2>2. Add(reg[o.r], Next1(v)) \in Word BY <1>2, <2>1, AddWords
  <2>3. QED BY <1>1, <1>2, <1>6, <2>1, <2>2, RamIsPlace DEF Place, Found
<1>7. CASE o.kind \in {"peek", "pick", "nxt"}
  <2>1. Add(reg["sp"], Next1(v)) \in Word BY <1>2, <1>3, AddWords
  <2>2. QED BY <1>1, <1>2, <1>3, <1>7, <2>1, RamIsPlace DEF Place, Found
<1>8. CASE o.kind \in {"nxt_lit", "lit"}
  BY <1>1, <1>3, <1>8, RegIsPlace DEF Place, Found
<1>9. CASE o.kind = "push_pop"
  BY <1>3, <1>4, <1>9, RamIsPlace DEF Place, Found
<1>10. QED BY <1>5, <1>6, <1>7, <1>8, <1>9 DEF Operand

LEMMA GetStoreKeeps ==
  ASSUME NEW v \in Machine, NEW o \in Operand, NEW pos \in Positions
  PROVE  Kept(v, GetStore(v, o, pos).vm) /\ GetStore(v, o, pos).at \in Places
<1>1. CASE v.skip
  <2>1. Kept(v, v) BY DEF Kept
  <2>2. Kept(v, SkippedStore(v, o).vm) /\ SkippedStore(v, o).at \in Places
    BY <2>1, NextWord, RegIsPlace, CellNames DEF SkippedStore, Found
  <2>3. QED BY <1>1, <2>2 DEF GetStore
<1>2. CASE ~v.skip BY <1>2, PlaceKeeps DEF GetStore
<1>3. QED BY <1>1, <1>2

-----------------------------------------------------------------------------
(* Instructions.  One that is whole has not disturbed the interrupts, and   *)
(* skips nothing after it; a branch may.                                    *)
Whole(v, w) ==
  /\ w \in Machine /\ w.irq = v.irq /\ w.halted = v.halted /\ ~w.skip
  /\ Framed(v) => Framed(w)

Branched(v, w) ==
  /\ w \in Machine /\ w.irq = v.irq /\ w.halted = v.halted
  /\ w.queue = v.queue /\ w.reg["ia"] = v.reg["ia"]
  /\ Framed(v) => Framed(w)

LEMMA UnlessSkippedWhole ==
  ASSUME NEW v, NEW w, NEW done, Kept(v, w), ~w.skip => Whole(w, done)
  PROVE  Whole(v, UnlessSkipped(w, done))
<1>1. CASE w.skip
  <2>1. [w EXCEPT !.skip = FALSE] \in Machine BY DEF Kept, Machine
  <2>2. Whole(w, [w EXCEPT !.skip = FALSE])
    BY <2>1 DEF Kept, Machine, Whole, Framed
  <2>3. QED BY <1>1, <2>2 DEF UnlessSkipped, Whole, Kept
<1>2. CASE ~w.skip BY <1>2 DEF UnlessSkipped, Whole, Kept
<1>3. QED BY <1>1, <1>2

LEMMA KeptWhole ==
  ASSUME NEW v, NEW w, Kept(v, w), ~v.skip PROVE Whole(v, w)
  BY DEF Kept, Whole

LEMMA SetReg ==
  ASSUME NEW v \in Machine, NEW c \in Cell, NEW word \in Word, ~v.skip
  PROVE  Whole(v, [v EXCEPT !.reg[c] = word])
  BY DEF Whole, Machine, Framed

LEMMA WholeWhole ==
  ASSUME NEW u, NEW v, NEW w, Whole(u, v), Whole(v, w) PROVE Whole(u, w)
  BY DEF Whole

LEMMA SleepMore ==
  ASSUME NEW v \in Machine, NEW n \in Nat PROVE Kept(v, Sleep(v, n))
<1>1. v.sleep + n \in Nat BY DEF Machine
<1>2. QED BY <1>1, SleepKeeps

LEMMA KeptMachine == ASSUME NEW v, NEW w, Kept(v, w) PROVE w \in Machine
  BY DEF Kept

LEMMA OpSetWhole ==
  ASSUME NEW v \in Machine, NEW a \in Operand, NEW b \in Operand
  PROVE  Whole(v, OpSet(v, b, a))
<1> DEFINE va == Resolve(v, a, "a")
           st == GetStore(va.vm, b, "b")
           done == Store(st.vm, st.at, va.is)
<1>1. Kept(v, va.vm) /\ va.is \in Word BY ResolveKeeps DEF Positions
<1>2. Kept(va.vm, st.vm) /\ st.at \in Places
  BY <1>1, GetStoreKeeps, KeptMachine DEF Positions
<1>3. Kept(st.vm, done) BY <1>1, <1>2, StoreKeeps, KeptMachine
<1>4. Kept(v, st.vm) BY <1>1, <1>2, KeptKept
<1>5. ~st.vm.skip => Whole(st.vm, done) BY <1>3, KeptWhole
<1> HIDE DEF va, st, done
<1>6. Whole(v, UnlessSkipped(st.vm, done)) BY <1>4, <1>5, UnlessSkippedWhole
<1>7. QED BY <1>6 DEF OpSet, va, st, done

LEMMA FlowIsWord == ASSUME NEW n \in Int PROVE Flow(n) \in Word
  BY ZeroIsWord, DcpuAssumption DEF Flow, Word

LEMMA WordIsInt == Word \subseteq Int
  BY DcpuAssumption DEF Word

LEMMA SumIsInt ==
  ASSUME NEW m \in Word, NEW n \in Word PROVE m + n \in Int
  BY DcpuAssumption DEF Word

LEMMA OpAddWhole ==
  ASSUME NEW v \in Machine, NEW a \in Operand, NEW b \in Operand
  PROVE  Whole(v, OpAdd(v, b, a))
<1> DEFINE va == Resolve(v, a, "a")
           st == GetStore(va.vm, b, "b")
           n  == Load(st.vm, st.at) + va.is
           w  == Sleep(st.vm, 1)
           sum == Store(w, st.at, n % W)
           done == [sum EXCEPT !.reg["ex"] = Flow(n)]
<1>1. Kept(v, va.vm) /\ va.is \in Word BY ResolveKeeps DEF Positions
<1>2. Kept(va.vm, st.vm) /\ st.at \in Places
  BY <1>1, GetStoreKeeps, KeptMachine DEF Positions
<1>3. Kept(st.vm, w) BY <1>2, SleepMore, KeptMachine
<1>4. Load(st.vm, st.at) \in Word BY <1>2, LoadIsWord, KeptMachine
<1>5. n \in Int BY <1>1, <1>4, SumIsInt
<1>6. n % W \in Word /\ Flow(n) \in Word BY <1>5, WordIsMod, FlowIsWord
<1>7. Kept(w, sum) BY <1>2, <1>3, <1>6, StoreKeeps, KeptMachine
<1>8. Kept(v, w) BY <1>1, <1>2, <1>3, KeptKept
<1> HIDE DEF va, st, n, w, sum
<1>9. ~w.skip => Whole(sum, done)
  BY <1>6, <1>7, SetReg, CellNames DEF Kept
<1>10. ~w.skip => Whole(w, done) BY <1>7, <1>9, KeptWhole, WholeWhole
<1> HIDE DEF done
<1>11. Whole(v, UnlessSkipped(w, done)) BY <1>8, <1>10, UnlessSkippedWhole
<1>12. QED BY <1>11 DEF OpAdd, va, st, n, w, sum, done

LEMMA SignedIsInt == ASSUME NEW n \in Word PROVE Signed(n) \in Int
  BY DcpuAssumption DEF Signed, Word

LEMMA QuotIsInt ==
  ASSUME NEW m \in Int, NEW d \in Word, d # 0 PROVE Quot(m, d) \in Int
<1>1. d \in Nat /\ d > 0 BY DcpuAssumption DEF Word
<1>2. QED BY <1>1 DEF Quot

LEMMA CombinedIsInt ==
  ASSUME NEW op \in Twice, NEW vb \in Word, NEW va \in Word, NEW ex \in Word
  PROVE  Combined(op, vb, va, ex) \in Int
<1>1. vb \in Int /\ va \in Int /\ ex \in Int BY WordIsInt
<1>2. Signed(vb) \in Int BY SignedIsInt
<1>3. CASE op \in {"SUB", "MUL", "MLI", "ADX", "SBX"}
  BY <1>1, <1>2, <1>3 DEF Combined, Shifts
<1>4. CASE op \in {"AND", "BOR", "XOR"} \cup Shifts
  <2>1. Bits[op] \in [Word -> [Word -> Word]] BY <1>4, DcpuAssumption
  <2>2. Bits[op][vb][va] \in Word BY <2>1
  <2>3. QED BY <1>4, <2>2, WordIsInt DEF Combined, Shifts
<1>5. CASE op \in {"DIV", "DVI", "MOD", "MDI"} /\ va = 0
  BY <1>5 DEF Combined, Shifts
<1>6. CASE op \in {"DIV", "DVI", "MOD", "MDI"} /\ va # 0
  <2>1. va \in Nat /\ va > 0 BY <1>6, DcpuAssumption DEF Word
  <2>2. vb \div va \in Int /\ vb % va \in Int BY <1>1, <2>1
  <2>3. Quot(Signed(vb), va) \in Int BY <1>2, <1>6, QuotIsInt
  <2>4. Rem(Signed(vb), va) \in Int BY <1>1, <1>2, <2>3 DEF Rem
  <2>5. QED BY <1>6, <2>2, <2>3, <2>4 DEF Combined, Shifts
<1>7. QED BY <1>3, <1>4, <1>5, <1>6 DEF Twice, Shifts

LEMMA ExcessIsWord ==
  ASSUME NEW op \in Twice, NEW vb \in Word, NEW va \in Word, NEW ex \in Word
  PROVE  Excess(op, vb, va, ex) \in Word
<1> DEFINE n == Combined(op, vb, va, ex)
<1>1. n \in Int BY CombinedIsInt
<1>2. W \in Nat /\ W > 0 BY DcpuAssumption
<1> HIDE DEF n
<1>3. CASE op \in {"SUB", "ADX", "SBX"}
  BY <1>1, <1>3, FlowIsWord DEF Excess, Shifts, n
<1>4. CASE op \in {"MUL", "MLI"}
  <2>1. n \div W \in Int BY <1>1, <1>2
  <2>2. (n \div W) % W \in Word BY <2>1, WordIsMod
  <2>3. QED BY <1>4, <2>2 DEF Excess, Shifts, n
<1>5. CASE op \in {"DIV", "DVI"} /\ va = 0
  BY <1>5, ZeroIsWord DEF Excess, Shifts
<1>6. CASE op \in {"DIV", "DVI"} /\ va # 0
  <2>1. Signed(vb) * W \in Int BY <1>2, SignedIsInt
  <2>2. Quot(Signed(vb) * W, va) % W \in Word
    BY <1>6, <2>1, QuotIsInt, WordIsMod
  <2>3. QED BY <1>6, <2>2 DEF Excess, Shifts
<1>7. CASE op \in {"AND", "BOR", "XOR", "MOD", "MDI"}
  BY <1>7 DEF Excess, Shifts
<1>8. CASE op \in Shifts
  <2>1. Lost[op] \in [Word -> [Word -> Word]] BY <1>8, DcpuAssumption
  <2>2. Lost[op][vb][va] \in Word BY <2>1
  <2>3. QED BY <1>8, <2>2 DEF Excess, Shifts
<1>9. QED BY <1>3, <1>4, <1>5, <1>6, <1>7, <1>8 DEF Twice, Shifts

LEMMA OpTwiceWhole ==
  ASSUME NEW v \in Machine, NEW op \in Twice,
         NEW a \in Operand, NEW b \in Operand
  PROVE  Whole(v, OpTwice(v, op, b, a))
<1> DEFINE va == Resolve(v, a, "a")
           vb == ResolveOnce(va.vm, b, "b")
           st == GetStore(vb.vm, b, "b")
           w  == Sleep(st.vm, ExtraCycles(op))
           ex == w.reg["ex"]
           n  == Combined(op, vb.is, va.is, ex)
           done == Store(w, st.at, n % W)
           over == [done EXCEPT !.reg["ex"] = Excess(op, vb.is, va.is, ex)]
           result == IF op \in {"MOD", "MDI", "AND", "BOR", "XOR"} THEN done
                     ELSE over
<1>1. Kept(v, va.vm) /\ va.is \in Word BY ResolveKeeps DEF Positions
<1>2. Kept(va.vm, vb.vm) /\ vb.is \in Word
  BY <1>1, ResolveOnceKeeps, KeptMachine DEF Positions
<1>3. Kept(vb.vm, st.vm) /\ st.at \in Places
  BY <1>2, GetStoreKeeps, KeptMachine DEF Positions
<1>4. Kept(st.vm, w)
  <2>1. ExtraCycles(op) \in Nat BY DEF ExtraCycles
  <2>2. QED BY <1>3, <2>1, SleepMore, KeptMachine
<1>5. Kept(v, w) BY <1>1, <1>2, <1>3, <1>4, KeptKept
<1> HIDE DEF va, vb, st, w
<1>6. w \in Machine /\ ex \in Word
  BY <1>4, KeptMachine, CellNames DEF Machine
<1>7. n % W \in Word BY <1>1, <1>2, <1>6, CombinedIsInt, WordIsMod
<1>8. Excess(op, vb.is, va.is, ex) \in Word
  BY <1>1, <1>2, <1>6, ExcessIsWord
<1> HIDE DEF ex, n
<1>9. Kept(w, done) BY <1>3, <1>6, <1>7, StoreKeeps
<1> HIDE DEF done
<1>10. ~w.skip => Whole(done, over) BY <1>8, <1>9, SetReg, CellNames DEF Kept
<1>11. ~w.skip => Whole(w, done) BY <1>9, KeptWhole
<1> HIDE DEF over
<1>12. ~w.skip => Whole(w, result) BY <1>10, <1>11, WholeWhole
<1> HIDE DEF result
<1>13. Whole(v, UnlessSkipped(w, result)) BY <1>5, <1>12, UnlessSkippedWhole
<1>14. QED BY <1>13 DEF OpTwice, va, vb, st, w, ex, n, done, over, result

LEMMA OpIfBranched ==
  ASSUME NEW v \in Machine, NEW op \in Branches,
         NEW a \in Operand, NEW b \in Operand
  PROVE  Branched(v, OpIf(v, op, b, a))
<1> DEFINE bFirst == op = "IFL"
           first == IF bFirst THEN Resolve(v, b, "b") ELSE Resolve(v, a, "a")
           second == IF bFirst THEN Resolve(first.vm, a, "a")
                               ELSE Resolve(first.vm, b, "b")
           vb == IF bFirst THEN first.is ELSE second.is
           va == IF bFirst THEN second.is ELSE first.is
           skips == ~Holds(op, vb, va)
<1>1. Kept(v, first.vm) BY ResolveKeeps DEF Positions
<1>2. first.vm \in Machine BY <1>1, KeptMachine
<1> HIDE DEF first
<1>3. Kept(first.vm, second.vm) BY <1>2, ResolveKeeps DEF Positions
<1>4. Kept(v, second.vm) BY <1>1, <1>3, KeptKept
<1> HIDE DEF second
<1>5. skips \in BOOLEAN OBVIOUS
<1> HIDE DEF skips
<1>6. Branched(v, second.vm) BY <1>4 DEF Kept, Branched
<1>7. Branched(v, [second.vm EXCEPT !.skip = skips])
  <2>1. [second.vm EXCEPT !.skip = skips] \in Machine
    BY <1>4, <1>5 DEF Kept, Machine
  <2>2. QED BY <1>4, <2>1 DEF Kept, Machine, Branched, Framed
<1>8. Branched(v, IF v.skip THEN second.vm
                  ELSE [second.vm EXCEPT !.skip = skips])
  BY <1>6, <1>7
<1>9. QED BY <1>8 DEF OpIf, first, second, skips

LEMMA OpStepWhole ==
  ASSUME NEW v \in Machine, NEW step \in {1, -1},
         NEW a \in Operand, NEW b \in Operand
  PROVE  Whole(v, OpStep(v, b, a, step))
<1> DEFINE va == Resolve(v, a, "a")
           st == GetStore(va.vm, b, "b")
           done == Store(st.vm, st.at, va.is)
           one == Move(done, "I", step)
           both == Move(one, "J", step)
<1>1. Kept(v, va.vm) /\ va.is \in Word BY ResolveKeeps DEF Positions
<1>2. Kept(va.vm, st.vm) /\ st.at \in Places
  BY <1>1, GetStoreKeeps, KeptMachine DEF Positions
<1>3. Kept(st.vm, done) BY <1>1, <1>2, StoreKeeps, KeptMachine
<1>4. Kept(v, st.vm) BY <1>1, <1>2, KeptKept
<1> HIDE DEF va, st, done
<1>5. Kept(done, one) BY <1>3, MoveKeeps, CellNames, KeptMachine
<1>6. Kept(one, both) BY <1>5, MoveKeeps, CellNames, KeptMachine
<1>7. ~st.vm.skip => Whole(st.vm, both) BY <1>3, <1>5, <1>6, KeptKept, KeptWhole
<1> HIDE DEF one, both
<1>8. Whole(v, UnlessSkipped(st.vm, both)) BY <1>4, <1>7, UnlessSkippedWhole
<1>9. QED BY <1>8 DEF OpStep, va, st, done, one, both

LEMMA OpJsrWhole ==
  ASSUME NEW v \in Machine, NEW a \in Operand PROVE Whole(v, OpJsr(v, a))
<1> DEFINE va == Resolve(v, a, "a")
           w == Sleep(va.vm, 2)
           pushed == Push(w, w.reg["pc"])
           done == [pushed EXCEPT !.reg["pc"] = va.is]
<1>1. Kept(v, va.vm) /\ va.is \in Word BY ResolveKeeps DEF Positions
<1>2. Kept(va.vm, w) BY <1>1, SleepMore, KeptMachine
<1>3. Kept(v, w) BY <1>1, <1>2, KeptKept
<1> HIDE DEF va, w
<1>4. w \in Machine /\ w.reg["pc"] \in Word
  BY <1>3, KeptMachine, CellNames DEF Machine
<1>5. Kept(w, pushed) BY <1>4, PushKeeps
<1> HIDE DEF pushed
<1>6. ~w.skip => Whole(pushed, done) BY <1>1, <1>5, SetReg, CellNames DEF Kept
<1>7. ~w.skip => Whole(w, pushed) BY <1>5, KeptWhole
<1> HIDE DEF done
<1>8. ~w.skip => Whole(w, done) BY <1>6, <1>7, WholeWhole
<1>9. Whole(v, UnlessSkipped(w, done)) BY <1>3, <1>8, UnlessSkippedWhole
<1>10. QED BY <1>9 DEF OpJsr, va, w, pushed, done

LEMMA OpIagWhole ==
  ASSUME NEW v \in Machine, NEW a \in Operand PROVE Whole(v, OpIag(v, a))
<1> DEFINE st == GetStore(v, a, "a")
           done == Store(st.vm, st.at, st.vm.reg["ia"])
<1>1. Kept(v, st.vm) /\ st.at \in Places BY GetStoreKeeps DEF Positions
<1> HIDE DEF st
<1>2. st.vm \in Machine /\ st.vm.reg["ia"] \in Word
  BY <1>1, KeptMachine, CellNames DEF Machine
<1>3. Kept(st.vm, done) BY <1>1, <1>2, StoreKeeps
<1> HIDE DEF done
<1>4. ~st.vm.skip => Whole(st.vm, done) BY <1>3, KeptWhole
<1>5. Whole(v, UnlessSkipped(st.vm, done)) BY <1>1, <1>4, UnlessSkippedWhole
<1>6. QED BY <1>5 DEF OpIag, st, done

LEMMA OpIasWhole ==
  ASSUME NEW v \in Machine, NEW a \in Operand PROVE Whole(v, OpIas(v, a))
<1> DEFINE va == Resolve(v, a, "a")
           done == [va.vm EXCEPT !.reg["ia"] = va.is]
<1>1. Kept(v, va.vm) /\ va.is \in Word BY ResolveKeeps DEF Positions
<1> HIDE DEF va
<1>2. ~va.vm.skip => Whole(va.vm, done)
  BY <1>1, SetReg, CellNames, KeptMachine
<1> HIDE DEF done
<1>3. Whole(v, UnlessSkipped(va.vm, done)) BY <1>1, <1>2, UnlessSkippedWhole
<1>4. QED BY <1>3 DEF OpIas, va, done

LEMMA OpRfiWhole ==
  ASSUME NEW v \in Machine, NEW a \in Operand PROVE Whole(v, OpRfi(v, a))
<1> DEFINE w == Sleep(Resolve(v, a, "a").vm, 2)
           sp == w.reg["sp"]
           moved == Move(w, "sp", 2)
           done == [moved EXCEPT !.reg["A"] = w.ram[sp],
                                 !.reg["pc"] = w.ram[Add(sp, 1)],
                                 !.queue = FALSE]
<1>1. Kept(v, Resolve(v, a, "a").vm) BY ResolveKeeps DEF Positions
<1>2. Kept(Resolve(v, a, "a").vm, w) BY <1>1, SleepMore, KeptMachine
<1>3. Kept(v, w) BY <1>1, <1>2, KeptKept
<1> HIDE DEF w
<1>4. w \in Machine BY <1>3, KeptMachine
<1>5. sp \in Word BY <1>4, CellNames DEF Machine
<1>6. w.ram[sp] \in Word /\ w.ram[Add(sp, 1)] \in Word
  BY <1>4, <1>5, AddWords DEF Machine
<1>7. Kept(w, moved) BY <1>4, MoveKeeps, CellNames
<1> HIDE DEF sp, moved
<1>8. ~w.skip => Whole(moved, done)
  <2>1. done \in Machine BY <1>6, <1>7 DEF Kept, Machine
  <2>2. QED BY <1>7, <2>1 DEF Kept, Machine, Whole, Framed
<1> HIDE DEF done
<1>9. ~w.skip => Whole(w, done) BY <1>7, <1>8, KeptWhole, WholeWhole
<1>10. Whole(v, UnlessSkipped(w, done)) BY <1>3, <1>9, UnlessSkippedWhole
<1>11. QED BY <1>10 DEF OpRfi, w, sp, moved, done

LEMMA OpIaqWhole ==
  ASSUME NEW v \in Machine, NEW a \in Operand PROVE Whole(v, OpIaq(v, a))
<1> DEFINE va == Resolve(v, a, "a")
           w == Sleep(va.vm, 1)
           on == va.is # 0
           done == [w EXCEPT !.queue = on]
<1>1. Kept(v, va.vm) BY ResolveKeeps DEF Positions
<1>2. Kept(va.vm, w) BY <1>1, SleepMore, KeptMachine
<1>3. Kept(v, w) BY <1>1, <1>2, KeptKept
<1> HIDE DEF w
<1>4. on \in BOOLEAN OBVIOUS
<1> HIDE DEF on
<1>5. ~w.skip => Whole(w, done)
  <2>1. done \in Machine BY <1>3, <1>4 DEF Kept, Machine
  <2>2. QED BY <1>3, <2>1 DEF Kept, Machine, Whole, Framed
<1> HIDE DEF done
<1>6. Whole(v, UnlessSkipped(w, done)) BY <1>3, <1>5, UnlessSkippedWhole
<1>7. QED BY <1>6 DEF OpIaq, w, on, done

LEMMA DevicesAre ==
  /\ Devices \in Seq([Info -> Word]) /\ Len(Devices) \in Nat
  /\ Info \subseteq Cell \ {"ia"}
  BY DcpuAssumption DEF Info, Cell, Register

LEMMA OpHwnWhole ==
  ASSUME NEW v \in Machine, NEW a \in Operand PROVE Whole(v, OpHwn(v, a))
<1> DEFINE st == GetStore(v, a, "a")
           w == Sleep(st.vm, 1)
           done == Store(w, st.at, Len(Devices) % W)
<1>1. Kept(v, st.vm) /\ st.at \in Places BY GetStoreKeeps DEF Positions
<1>2. Kept(st.vm, w) BY <1>1, SleepMore, KeptMachine
<1>3. Kept(v, w) BY <1>1, <1>2, KeptKept
<1> HIDE DEF st, w
<1>4. Len(Devices) % W \in Word BY DevicesAre, WordIsMod
<1>5. Kept(w, done) BY <1>1, <1>3, <1>4, StoreKeeps, KeptMachine
<1> HIDE DEF done
<1>6. ~w.skip => Whole(w, done) BY <1>5, KeptWhole
<1>7. Whole(v, UnlessSkipped(w, done)) BY <1>3, <1>6, UnlessSkippedWhole
<1>8. QED BY <1>7 DEF OpHwn, st, w, done

LEMMA OpHwqWhole ==
  ASSUME NEW v \in Machine, NEW a \in Operand PROVE Whole(v, OpHwq(v, a))
<1> DEFINE va == Resolve(v, a, "a")
           w == Sleep(va.vm, 3)
           regs == [c \in Cell |->
                     IF c \in Info THEN Devices[va.is + 1][c] ELSE w.reg[c]]
           asked == [w EXCEPT !.reg = regs]
           done == IF va.is < Len(Devices) THEN asked ELSE w
<1>1. Kept(v, va.vm) /\ va.is \in Word BY ResolveKeeps DEF Positions
<1>2. Kept(va.vm, w) BY <1>1, SleepMore, KeptMachine
<1>3. Kept(v, w) BY <1>1, <1>2, KeptKept
<1> HIDE DEF va, w
<1>4. ASSUME va.is < Len(Devices), ~w.skip PROVE Whole(w, asked)
  <2>1. va.is + 1 \in 1 .. Len(Devices)
    BY <1>1, <1>4, DevicesAre, DcpuAssumption DEF Word
  <2>2. Devices[va.is + 1] \in [Info -> Word] BY <2>1, DevicesAre
  <2>3. regs \in [Cell -> Word] BY <1>3, <2>2 DEF Kept, Machine
  <2> HIDE DEF regs
  <2>4. asked \in Machine BY <1>3, <2>3 DEF Kept, Machine
  <2>5. QED BY <1>3, <1>4, <2>4 DEF Kept, Machine, Whole, Framed
<1>5. ~w.skip => Whole(w, w) BY <1>3 DEF Kept, Whole
<1> HIDE DEF asked
<1>6. ~w.skip => Whole(w, done) BY <1>4, <1>5
<1> HIDE DEF done
<1>7. Whole(v, UnlessSkipped(w, done)) BY <1>3, <1>6, UnlessSkippedWhole
<1>8. QED BY <1>7 DEF OpHwq, va, w, regs, asked, done

LEMMA AnswerWhole ==
  ASSUME NEW v \in Machine, ~v.skip PROVE Whole(v, Answer(v))
<1> DEFINE r == v.reg["A"]
           copy == Dumps[r]
           b == v.reg["B"]
           span == Span(b, Len(copy))
           w == Sleep(v, Len(copy))
           ram == [i \in Word |-> IF i \in span THEN copy[i - b + 1] ELSE w.ram[i]]
           intact == w.frame.intact /\ Saved(v.frame) \cap span = {}
           done == [w EXCEPT !.ram = ram, !.frame.intact = intact]
<1>1. Whole(v, v) BY DEF Whole
<1>2. CASE r \notin DOMAIN Dumps BY <1>1, <1>2 DEF Answer
<1>3. CASE r \in DOMAIN Dumps
  <2>1. copy \in Seq(Word) /\ Len(copy) \in Nat BY <1>3, DcpuAssumption
  <2>2. b \in Word BY CellNames DEF Machine, Register
  <2> HIDE DEF copy, b
  <2>3. Kept(v, w) BY <2>1, SleepMore
  <2>4. w.ram = v.ram /\ w.frame = v.frame BY DEF Sleep, Machine
  <2> HIDE DEF w
  <2>5. ASSUME ~(b + Len(copy) > W) PROVE Whole(w, done)
    <3>1. w.ram \in [Word -> Word] BY <2>3 DEF Kept, Machine
    <3>2. \A i \in span : copy[i - b + 1] \in Word
      <4>1. ASSUME NEW i \in span PROVE i - b + 1 \in 1 .. Len(copy)
        BY <2>1, <2>2, DcpuAssumption DEF Span, Word
      <4>2. QED BY <2>1, <4>1
    <3>3. ram \in [Word -> Word] BY <3>1, <3>2
    <3>4. intact \in BOOLEAN OBVIOUS
    <3>5. \A i \in Word : i \notin span => ram[i] = w.ram[i] OBVIOUS
    <3>6. intact => w.frame.intact /\ Saved(v.frame) \cap span = {} OBVIOUS
    <3> HIDE DEF ram, intact, span
    <3>7. /\ done \in Machine /\ done.irq = w.irq /\ done.halted = w.halted
          /\ done.skip = w.skip /\ done.ram = ram
          /\ done.frame = [w.frame EXCEPT !.intact = intact]
      BY <2>3, <3>3, <3>4 DEF Kept, Machine, Frames
    <3> DEFINE f == w.frame
    <3>8. f \in Frames /\ f = v.frame BY <2>3, <2>4 DEF Kept, Machine
    <3> HIDE DEF done, f
    <3>9. /\ done.frame.sp = f.sp /\ done.frame.pc = f.pc /\ done.frame.A = f.A
          /\ done.frame.intact = intact
      BY <3>7, <3>8 DEF f, Frames
    <3>10. f.sp \in Word /\ Add(f.sp, -1) \in Word /\ Add(f.sp, -2) \in Word
      BY <3>8, AddWords DEF Frames
    <3>11. intact => /\ f.intact /\ ram[Add(f.sp, -1)] = w.ram[Add(f.sp, -1)]
                     /\ ram[Add(f.sp, -2)] = w.ram[Add(f.sp, -2)]
      BY <3>5, <3>6, <3>8, <3>10 DEF Saved, f
    <3>12. Framed(w) => Framed(done)
      BY <3>7, <3>9, <3>11 DEF Framed, f
    <3>13. QED BY <2>3, <3>7, <3>12 DEF Kept, Whole
  <2>6. Whole(v, w) BY <2>3, KeptWhole
  <2>7. Answer(v) = IF b + Len(copy) > W THEN w ELSE done
    BY <1>3 DEF Answer, copy, b, w
  <2> HIDE DEF done
  <2>8. QED BY <2>5, <2>6, <2>7, WholeWhole
<1>4. QED BY <1>2, <1>3

LEMMA OpHwiWhole ==
  ASSUME NEW v \in Machine, NEW a \in Operand PROVE Whole(v, OpHwi(v, a))
<1> DEFINE va == Resolve(v, a, "a")
           w == Sleep(va.vm, 3)
           done == IF va.is < Len(Devices) THEN Answer(w) ELSE w
<1>1. Kept(v, va.vm) BY ResolveKeeps DEF Positions
<1>2. Kept(va.vm, w) BY <1>1, SleepMore, KeptMachine
<1>3. Kept(v, w) BY <1>1, <1>2, KeptKept
<1> HIDE DEF va, w
<1>4. ~w.skip => Whole(w, Answer(w)) BY <1>3, AnswerWhole, KeptMachine
<1>5. ~w.skip => Whole(w, w) BY <1>3 DEF Kept, Whole
<1>6. ~w.skip => Whole(w, done) BY <1>4, <1>5
<1> HIDE DEF done
<1>7. Whole(v, UnlessSkipped(w, done)) BY <1>3, <1>6, UnlessSkippedWhole
<1>8. QED BY <1>7 DEF OpHwi, va, w, done

(* An instruction of the switch but INT and no instruction. *)
LEMMA ExecuteKeeps ==
  ASSUME NEW v \in Machine, NEW i \in Instruction, i.op \notin {"INT", "invalid"}
  PROVE  /\ i.op \notin Branches => Whole(v, Execute(v, i))
         /\ i.op \in Branches => Branched(v, Execute(v, i))
<1>1. CASE i.op \in Basic
  <2>1. i.a \in Operand /\ i.b \in Operand
    BY <1>1 DEF Instruction, NonBasic, Basic, Twice, Branches
  <2>2. CASE i.op \in Twice
    <3>1. Execute(v, i) = OpTwice(v, i.op, i.b, i.a) /\ i.op \notin Branches
      BY <2>2 DEF Execute, Twice, Branches
    <3>2. QED BY <2>1, <2>2, <3>1, OpTwiceWhole
  <2>3. CASE i.op \in Branches
    <3>1. Execute(v, i) = OpIf(v, i.op, i.b, i.a)
      BY <2>3 DEF Execute, Twice, Branches
    <3>2. QED BY <2>1, <2>3, <3>1, OpIfBranched
  <2>4. CASE i.op = "SET"
    <3>1. Execute(v, i) = OpSet(v, i.b, i.a)
      BY <2>4 DEF Execute, Twice, Branches
    <3>2. QED BY <2>1, <2>4, <3>1, OpSetWhole DEF Branches
  <2>5. CASE i.op = "ADD"
    <3>1. Execute(v, i) = OpAdd(v, i.b, i.a)
      BY <2>5 DEF Execute, Twice, Branches
    <3>2. QED BY <2>1, <2>5, <3>1, OpAddWhole DEF Branches
  <2>6. CASE i.op = "STI"
    <3>1. Execute(v, i) = OpStep(v, i.b, i.a, 1)
      BY <2>6 DEF Execute, Twice, Branches
    <3>2. QED BY <2>1, <2>6, <3>1, OpStepWhole DEF Branches
  <2>7. CASE i.op = "STD"
    <3>1. Execute(v, i) = OpStep(v, i.b, i.a, -1)
      BY <2>7 DEF Execute, Twice, Branches
    <3>2. QED BY <2>1, <2>7, <3>1, OpStepWhole DEF Branches
  <2>8. QED BY <1>1, <2>2, <2>3, <2>4, <2>5, <2>6, <2>7 DEF Basic
<1>2. CASE i.op \in NonBasic
  <2>1. i.a \in Operand
    BY <1>2 DEF Instruction, NonBasic, Basic, Twice, Branches
  <2>2. i.op \notin Branches BY <1>2 DEF NonBasic, Branches
  <2>3. CASE i.op = "JSR"
    <3>1. Execute(v, i) = OpJsr(v, i.a)
      BY <2>3 DEF Execute, Twice, Branches
    <3>2. QED BY <2>1, <2>2, <3>1, OpJsrWhole
  <2>4. CASE i.op = "IAG"
    <3>1. Execute(v, i) = OpIag(v, i.a)
      BY <2>4 DEF Execute, Twice, Branches
    <3>2. QED BY <2>1, <2>2, <3>1, OpIagWhole
  <2>5. CASE i.op = "IAS"
    <3>1. Execute(v, i) = OpIas(v, i.a)
      BY <2>5 DEF Execute, Twice, Branches
    <3>2. QED BY <2>1, <2>2, <3>1, OpIasWhole
  <2>6. CASE i.op = "RFI"
    <3>1. Execute(v, i) = OpRfi(v, i.a)
      BY <2>6 DEF Execute, Twice, Branches
    <3>2. QED BY <2>1, <2>2, <3>1, OpRfiWhole
  <2>7. CASE i.op = "IAQ"
    <3>1. Execute(v, i) = OpIaq(v, i.a)
      BY <2>7 DEF Execute, Twice, Branches
    <3>2. QED BY <2>1, <2>2, <3>1, OpIaqWhole
  <2>8. CASE i.op = "HWN"
    <3>1. Execute(v, i) = OpHwn(v, i.a)
      BY <2>8 DEF Execute, Twice, Branches
    <3>2. QED BY <2>1, <2>2, <3>1, OpHwnWhole
  <2>9. CASE i.op = "HWQ"
    <3>1. Execute(v, i) = OpHwq(v, i.a)
      BY <2>9 DEF Execute, Twice, Branches
    <3>2. QED BY <2>1, <2>2, <3>1, OpHwqWhole
  <2>10. CASE i.op = "HWI"
    <3>1. Execute(v, i) = OpHwi(v, i.a)
      BY <2>10 DEF Execute, Twice, Branches
    <3>2. QED BY <2>1, <2>2, <3>1, OpHwiWhole
  <2>11. QED
    BY <1>2, <2>3, <2>4, <2>5, <2>6, <2>7, <2>8, <2>9, <2>10 DEF NonBasic
<1>3. QED BY <1>1, <1>2 DEF Instruction

-----------------------------------------------------------------------------
(* Interrupts.  First, addresses near each other. *)
LEMMA ModNear ==
  ASSUME NEW n \in Int, NEW d \in Int, d > 0
  PROVE  /\ 0 <= n /\ n < d => n % d = n
         /\ n < 0 /\ n + d >= 0 => n % d = n + d
         /\ n >= d /\ n - d < d => n % d = n - d
<1>1. ASSUME 0 <= n, n < d PROVE n % d = n BY <1>1
<1>2. ASSUME n < 0, n + d >= 0 PROVE n % d = n + d BY <1>2
<1>3. ASSUME n >= d, n - d < d PROVE n % d = n - d
  <2>1. n < 2 * d BY <1>3
  <2>2. QED BY <1>3, <2>1
<1>4. QED BY <1>1, <1>2, <1>3

LEMMA TwoBack ==
  ASSUME NEW m \in Word
  PROVE  /\ Add(Add(m, -1), -1) = Add(m, -2) /\ Add(m, -1) # Add(m, -2)
         /\ Add(Add(m, -2), 1) = Add(m, -1) /\ Add(Add(m, -2), 2) = m
<1>1. m \in Int /\ m >= 0 /\ m < W /\ W \in Int /\ W >= 2
  BY DcpuAssumption DEF Word
<1>2. \A n \in Int : /\ 0 <= n /\ n < W => n % W = n
                     /\ n < 0 /\ n + W >= 0 => n % W = n + W
                     /\ n >= W /\ n - W < W => n % W = n - W
  BY <1>1, ModNear
<1>3. Add(m, -1) = IF m >= 1 THEN m - 1 ELSE m - 1 + W BY <1>1, <1>2 DEF Add
<1>4. Add(m, -2) = IF m >= 2 THEN m - 2 ELSE m - 2 + W BY <1>1, <1>2 DEF Add
<1>5. Add(Add(m, -1), -1) = Add(m, -2)
  BY <1>1, <1>2, <1>3, <1>4 DEF Add
<1>6. Add(Add(m, -2), 1) = Add(m, -1)
  BY <1>1, <1>2, <1>3, <1>4 DEF Add
<1>7. Add(Add(m, -2), 2) = m
  BY <1>1, <1>2, <1>4 DEF Add
<1>8. Add(m, -1) # Add(m, -2) BY <1>1, <1>3, <1>4
<1>9. QED BY <1>5, <1>6, <1>7, <1>8

LEMMA PushWrites ==
  ASSUME NEW v \in Machine, NEW word \in Word
  PROVE  LET w == Push(v, word)
         IN  /\ w.reg["sp"] = Add(v.reg["sp"], -1)
             /\ w.reg["A"] = v.reg["A"] /\ w.reg["ia"] = v.reg["ia"]
             /\ w.ram = [v.ram EXCEPT ![Add(v.reg["sp"], -1)] = word]
  BY CellNames DEF Push, Move, Store, Ram, Machine

LEMMA InterruptKeeps ==
  ASSUME NEW v \in Machine, NEW msgid \in Word,
         Len(v.irq) <= IrqMax, Framed(v)
  PROVE  LET w == Interrupt(v, msgid)
         IN  /\ w \in Machine /\ Len(w.irq) <= IrqMax /\ Framed(w)
             /\ ~v.queue => w.irq = v.irq /\ w.halted = v.halted
             /\ ~v.queue /\ v.reg["ia"] = 0 => w = v
             /\ v.queue \/ v.reg["ia"] # 0 => w.queue
<1>0. /\ IrqMax \in Nat /\ v.irq \in Seq(Word) /\ Len(v.irq) \in Nat
      /\ v.queue \in BOOLEAN
  BY DcpuAssumption DEF Machine
<1>1. CASE v.queue /\ Len(v.irq) >= IrqMax
  <2> DEFINE w == [v EXCEPT !.halted = TRUE]
  <2>1. Interrupt(v, msgid) = w BY <1>0, <1>1 DEF Interrupt
  <2>2. w \in Machine /\ w.irq = v.irq /\ w.queue = v.queue
    BY DEF Machine
  <2>3. Framed(w) BY DEF Machine, Framed
  <2> HIDE DEF w
  <2>4. QED BY <1>1, <2>1, <2>2, <2>3
<1>2. CASE v.queue /\ ~(Len(v.irq) >= IrqMax)
  <2> DEFINE longer == Append(v.irq, msgid)
             w == [v EXCEPT !.irq = longer]
  <2>1. Interrupt(v, msgid) = w BY <1>0, <1>2 DEF Interrupt
  <2>2. longer \in Seq(Word) /\ Len(longer) = Len(v.irq) + 1 BY <1>0
  <2> HIDE DEF longer
  <2>3. w \in Machine /\ w.irq = longer /\ w.queue = v.queue
    BY <2>2 DEF Machine
  <2>4. Framed(w) BY DEF Machine, Framed
  <2> HIDE DEF w
  <2>5. Len(w.irq) <= IrqMax BY <1>0, <1>2, <2>2, <2>3
  <2>6. QED BY <1>2, <2>1, <2>3, <2>4, <2>5
<1>3. CASE ~v.queue /\ v.reg["ia"] = 0
  BY <1>3 DEF Interrupt
<1>4. CASE ~v.queue /\ v.reg["ia"] # 0
  <2> DEFINE one == Push(v, v.reg["pc"])
             saved == Push(one, v.reg["A"])
             sp == v.reg["sp"]
             frame == [sp |-> sp, pc |-> v.reg["pc"],
                       A |-> v.reg["A"], intact |-> TRUE]
             w == [saved EXCEPT !.reg["A"] = msgid, !.reg["pc"] = v.reg["ia"],
                                !.queue = TRUE, !.frame = frame]
  <2>1. /\ sp \in Word /\ v.reg["pc"] \in Word /\ v.reg["A"] \in Word
        /\ v.reg["ia"] \in Word /\ v.ram \in [Word -> Word]
    BY CellNames DEF Machine
  <2>2. Kept(v, one) /\ one \in Machine BY <2>1, PushKeeps, KeptMachine
  <2>3. /\ one.reg["sp"] = Add(sp, -1) /\ one.reg["A"] = v.reg["A"]
        /\ one.ram = [v.ram EXCEPT ![Add(sp, -1)] = v.reg["pc"]]
    BY <2>1, PushWrites
  <2> HIDE DEF one
  <2>4. Kept(one, saved) /\ saved \in Machine
    BY <2>1, <2>2, PushKeeps, KeptMachine
  <2>5. saved.ram = [one.ram EXCEPT ![Add(Add(sp, -1), -1)] = v.reg["A"]]
    BY <2>1, <2>2, <2>3, PushWrites
  <2> HIDE DEF saved
  <2>6. Add(sp, -1) \in Word /\ Add(sp, -2) \in Word BY <2>1, AddWords
  <2>7. saved.ram[Add(sp, -1)] = v.reg["pc"] /\ saved.ram[Add(sp, -2)] = v.reg["A"]
    BY <2>1, <2>3, <2>5, <2>6, TwoBack
  <2>8. frame \in Frames BY <2>1 DEF Frames
  <2>9. frame.sp = sp /\ frame.pc = v.reg["pc"] /\ frame.A = v.reg["A"] OBVIOUS
  <2> HIDE DEF sp, frame
  <2>10. w \in Machine /\ w.ram = saved.ram /\ w.frame = frame /\ w.queue
         /\ w.irq = saved.irq /\ w.halted = saved.halted
    BY <2>1, <2>4, <2>8 DEF Machine
  <2>11. Interrupt(v, msgid) = w
    BY <1>4 DEF Interrupt, w, saved, one, sp, frame
  <2> HIDE DEF w
  <2>12. Framed(w) BY <2>7, <2>9, <2>10 DEF Framed
  <2>13. w.irq = v.irq /\ w.halted = v.halted BY <2>2, <2>4, <2>10 DEF Kept
  <2>14. QED BY <1>4, <2>10, <2>11, <2>12, <2>13
<1>5. QED BY <1>1, <1>2, <1>3, <1>4

-----------------------------------------------------------------------------
(* A cycle: an interrupt is sent, and an instruction is run. *)
LEMMA DispatchKeeps ==
  ASSUME NEW v \in Machine, Len(v.irq) <= IrqMax, Framed(v), Undisturbed(v)
  PROVE  LET d == Dispatch(v)
         IN  /\ d \in Machine /\ Len(d.irq) <= IrqMax /\ Framed(d)
             /\ Idle(d) /\ d.halted = v.halted
             /\ v.queue => d = v
             /\ v.halted \/ v.skip
                => d = v \/ d = [v EXCEPT !.irq = Tail(v.irq)]
<1>1. CASE v.queue \/ v.irq = <<>>
  <2>1. Dispatch(v) = v BY <1>1 DEF Dispatch
  <2>2. Idle(v) BY <1>1 DEF Idle
  <2>3. QED BY <2>1, <2>2
<1>2. CASE ~v.queue /\ v.irq # <<>>
  <2> DEFINE rest == Tail(v.irq)
             first == Head(v.irq)
             t == [v EXCEPT !.irq = rest]
             d == Interrupt(t, first)
  <2>1. /\ v.irq \in Seq(Word) /\ IrqMax \in Nat
    BY DcpuAssumption DEF Machine
  <2>2. /\ rest \in Seq(Word) /\ first \in Word
        /\ Len(rest) = Len(v.irq) - 1 /\ Len(v.irq) \in Nat
    BY <1>2, <2>1
  <2>3. Len(rest) <= IrqMax BY <2>1, <2>2
  <2>4. Dispatch(v) = d BY <1>2 DEF Dispatch
  <2> HIDE DEF rest, first
  <2>5. /\ t \in Machine /\ t.irq = rest /\ t.queue = v.queue
        /\ t.halted = v.halted /\ t.reg = v.reg
    BY <2>2 DEF Machine
  <2>6. Framed(t) BY DEF Framed, Machine
  <2>7. v.halted \/ v.skip => v.reg["ia"] = 0 BY <1>2 DEF Undisturbed, Idle
  <2> DEFINE same == [v EXCEPT !.irq = Tail(v.irq)]
  <2>8. t = same BY DEF rest
  <2> HIDE DEF t, same
  <2>9. /\ d \in Machine /\ Len(d.irq) <= IrqMax /\ Framed(d)
        /\ d.halted = t.halted
        /\ t.reg["ia"] = 0 => d = t
        /\ t.reg["ia"] # 0 => d.queue
    BY <1>2, <2>2, <2>3, <2>5, <2>6, InterruptKeeps
  <2> HIDE DEF d
  <2>10. Idle(d) BY <2>9 DEF Idle
  <2>11. v.halted \/ v.skip => d = same BY <2>5, <2>7, <2>8, <2>9
  <2>12. QED BY <1>2, <2>4, <2>5, <2>9, <2>10, <2>11 DEF same
<1>3. QED BY <1>1, <1>2

LEMMA InstrIs ==
  ASSUME NEW d \in Machine PROVE Decode[Next1(d)] \in Instruction
<1>1. Next1(d) \in Word BY NextWord
<1>2. Decode \in [Word -> Instruction] BY DcpuAssumption
<1>3. QED BY <1>1, <1>2

LEMMA OpIntKeeps ==
  ASSUME NEW c \in Machine, NEW a \in Operand,
         Len(c.irq) <= IrqMax, Framed(c), Idle(c)
  PROVE  LET r == OpInt(c, a)
         IN  r \in Machine /\ Len(r.irq) <= IrqMax /\ Framed(r) /\ Idle(r)
<1> DEFINE va == Resolve(c, a, "a")
           w == Sleep(va.vm, 3)
           r == Interrupt(w, va.is)
<1>1. Kept(c, va.vm) /\ va.is \in Word BY ResolveKeeps DEF Positions
<1>2. Kept(va.vm, w) BY <1>1, SleepMore, KeptMachine
<1>3. Kept(c, w) BY <1>1, <1>2, KeptKept
<1>4. OpInt(c, a) = r BY DEF OpInt
<1> HIDE DEF va, w
<1>5. /\ w \in Machine /\ Len(w.irq) <= IrqMax /\ Framed(w) /\ Idle(w)
  BY <1>3 DEF Kept, Idle
<1>6. /\ r \in Machine /\ Len(r.irq) <= IrqMax /\ Framed(r)
      /\ ~w.queue /\ w.reg["ia"] = 0 => r = w
      /\ w.queue \/ w.reg["ia"] # 0 => r.queue
  BY <1>1, <1>5, InterruptKeeps
<1> HIDE DEF r
<1>7. Idle(r) BY <1>5, <1>6 DEF Idle
<1>8. QED BY <1>4, <1>6, <1>7

LEMMA RunKeeps ==
  ASSUME NEW d \in Machine, Len(d.irq) <= IrqMax, Framed(d), Idle(d)
  PROVE  LET r == Run(d)
         IN  /\ r \in Machine /\ Len(r.irq) <= IrqMax /\ Framed(r)
             /\ Undisturbed(r)
             /\ d.halted => r = d
<1> DEFINE c == Consumed(d)
           i == Decode[Next1(d)]
           r == Execute(c, i)
<1>1. Kept(d, c) BY NextWord
<1>2. i \in Instruction BY InstrIs
<1>3. Run(d) = IF d.halted THEN d ELSE r BY DEF Run, Instr
<1> HIDE DEF c, i
<1>4. c \in Machine /\ Len(c.irq) <= IrqMax /\ Framed(c) /\ Idle(c)
      /\ c.halted = d.halted
  BY <1>1 DEF Kept, Idle
<1>5. CASE d.halted BY <1>3, <1>5 DEF Undisturbed
<1>6. CASE ~d.halted /\ i.op = "INT"
  <2>1. i.a \in Operand
    BY <1>2, <1>6 DEF Instruction, Basic, Twice, Branches
  <2>2. r = OpInt(c, i.a) BY <1>6 DEF Execute, Twice, Branches
  <2>3. QED BY <1>3, <1>4, <1>6, <2>1, <2>2, OpIntKeeps DEF Undisturbed
<1>7. CASE ~d.halted /\ i.op = "invalid"
  <2>1. r = [c EXCEPT !.halted = TRUE]
    BY <1>7 DEF Execute, Twice, Branches
  <2>2. /\ r \in Machine /\ r.irq = c.irq /\ r.queue = c.queue
        /\ r.reg = c.reg /\ r.ram = c.ram /\ r.frame = c.frame
    BY <1>4, <2>1 DEF Machine
  <2> HIDE DEF r
  <2>3. Undisturbed(r) /\ Framed(r)
    BY <1>4, <2>2 DEF Undisturbed, Idle, Framed
  <2>4. QED BY <1>3, <1>4, <1>7, <2>2, <2>3
<1>8. CASE ~d.halted /\ i.op \notin {"INT", "invalid"}
  <2>1. /\ i.op \notin Branches => Whole(c, r)
        /\ i.op \in Branches => Branched(c, r)
    BY <1>2, <1>4, <1>8, ExecuteKeeps
  <2> HIDE DEF r
  <2>2. Undisturbed(r) /\ Framed(r)
    BY <1>4, <1>8, <2>1 DEF Whole, Branched, Undisturbed, Idle
  <2>3. r \in Machine /\ r.irq = c.irq BY <2>1 DEF Whole, Branched
  <2>4. QED BY <1>3, <1>4, <1>8, <2>2, <2>3
<1>9. QED BY <1>5, <1>6, <1>7, <1>8

LEMMA Initially == Init => Inv
<1> SUFFICES ASSUME Init PROVE Inv
  OBVIOUS
<1>1. PICK image \in Images :
        vm = [ram |-> image, reg |-> [c \in Cell |-> 0], irq |-> <<>>,
              sleep |-> 0, queue |-> FALSE, halted |-> FALSE, skip |-> FALSE,
              frame |-> NoFrame]
  BY DEF Init
<1>2. image \in [Word -> Word] BY DcpuAssumption
<1>3. NoFrame \in Frames BY ZeroIsWord DEF NoFrame, Frames
<1>4. [c \in Cell |-> 0] \in [Cell -> Word] BY ZeroIsWord
<1>5. vm \in Machine BY <1>1, <1>2, <1>3, <1>4 DEF Machine
<1>6. Len(vm.irq) <= IrqMax BY <1>1, DcpuAssumption
<1>7. Undisturbed(vm) BY <1>1 DEF Undisturbed
<1>8. Framed(vm) BY <1>1 DEF Framed, NoFrame
<1>9. QED BY <1>5, <1>6, <1>7, <1>8 DEF Inv

LEMMA DozeKeeps ==
  ASSUME Inv, Doze
  PROVE  /\ Inv' /\ vm'.ram = vm.ram /\ vm'.reg = vm.reg
         /\ vm'.halted = vm.halted
<1>1. vm \in Machine /\ vm.sleep + -1 \in Nat BY DEF Inv, Doze, Awake, Machine
<1>2. vm' = Sleep(vm, -1) BY DEF Doze
<1>3. Kept(vm, Sleep(vm, -1)) /\ Sleep(vm, -1).reg = vm.reg
  BY <1>1, SleepKeeps
<1>4. Sleep(vm, -1).ram = vm.ram BY <1>1 DEF Sleep, Machine
<1>5. QED BY <1>2, <1>3, <1>4 DEF Inv, Kept, Undisturbed, Idle

LEMMA CycleKeeps == ASSUME Inv, Cycle PROVE Inv'
<1> DEFINE d == Dispatch(vm)
<1>1. d \in Machine /\ Len(d.irq) <= IrqMax /\ Framed(d) /\ Idle(d)
  BY DispatchKeeps DEF Inv
<1>2. vm' = Run(d) BY DEF Cycle
<1> HIDE DEF d
<1>3. QED BY <1>1, <1>2, RunKeeps DEF Inv

LEMMA Invariant == Spec => []Inv
<1>1. Inv /\ [Next]_vm => Inv'
  <2>1. ASSUME Inv, UNCHANGED vm PROVE Inv'
    BY <2>1 DEF Inv, Undisturbed, Idle, Framed
  <2>2. QED BY <2>1, DozeKeeps, CycleKeeps DEF Next
<1>2. QED BY Initially, <1>1, PTL DEF Spec

(* Every reachable state of the machine is well typed, and its queue of
   interrupts keeps within the array vm_t has for it.                      *)
THEOREM DcpuTypeCorrect == Spec => []TypeOK
<1>1. Inv => TypeOK BY DEF Inv, TypeOK, Machine, Frames
<1>2. QED BY Invariant, <1>1, PTL

(* A machine that vm_cycle or a full queue has halted keeps its memory and
   registers, whatever waits in the queue.                                 *)
THEOREM DcpuHaltedStaysPut == Spec => HaltedStaysPut
<1> DEFINE A == vm.halted => vm'.halted /\ vm'.ram = vm.ram /\ vm'.reg = vm.reg
<1>1. Inv /\ [Next]_vm => [A]_vm
  <2>1. ASSUME Inv, Doze PROVE A BY <2>1, DozeKeeps
  <2>2. ASSUME Inv, Cycle, vm.halted PROVE A
    <3> DEFINE d == Dispatch(vm)
    <3>1. /\ d \in Machine /\ Len(d.irq) <= IrqMax /\ Framed(d) /\ Idle(d)
          /\ d.halted = vm.halted
          /\ d = vm \/ d = [vm EXCEPT !.irq = Tail(vm.irq)]
      BY <2>2, DispatchKeeps DEF Inv
    <3>2. vm' = Run(d) BY <2>2 DEF Cycle
    <3> HIDE DEF d
    <3>3. vm' = d BY <2>2, <3>1, <3>2, RunKeeps
    <3>4. d.ram = vm.ram /\ d.reg = vm.reg BY <2>2, <3>1 DEF Inv, Machine
    <3>5. QED BY <2>2, <3>1, <3>3, <3>4
  <2>3. QED BY <2>1, <2>2 DEF Next
<1>2. QED BY Invariant, <1>1, PTL DEF Spec, HaltedStaysPut

(* A handler whose stack is where it found it, and whose saved words nobody
   has written over, gives the interrupted program its place and its register
   A back, whatever ran and queued in between.                             *)
THEOREM DcpuFrameRestored == Spec => FrameRestored
<1> DEFINE f == vm.frame
           P == /\ Awake /\ ~vm.halted /\ ~vm.skip /\ vm.queue
                /\ Instr(vm).op = "RFI" /\ Instr(vm).a.kind = "lit"
                /\ f.intact /\ vm.reg["sp"] = Add(f.sp, -2)
           Q == /\ vm'.reg["pc"] = f.pc /\ vm'.reg["A"] = f.A
                /\ vm'.reg["sp"] = f.sp /\ ~vm'.queue
<1>1. Inv /\ [Next]_vm => [P => Q]_vm
  <2> SUFFICES ASSUME Inv, Next, P PROVE Q
    OBVIOUS
  <2>1. Cycle BY DEF Next, Doze
  <2> DEFINE c == Consumed(vm)
             i == Instr(vm)
             w == Sleep(c, 2)
             sp == w.reg["sp"]
  <2>2. vm' = Execute(c, i)
    <3>1. Dispatch(vm) = vm BY DEF Dispatch
    <3>2. QED BY <2>1, <3>1 DEF Cycle, Run
  <2>3. Kept(vm, c) /\ c \in Machine BY NextWord, KeptMachine DEF Inv
  <2>4. c.ram = vm.ram /\ c.reg["sp"] = vm.reg["sp"]
    BY CellNames DEF Consumed, Move, Inv, Machine
  <2>5. w \in Machine /\ ~w.skip BY <2>3, SleepMore DEF Kept
  <2>6. w.ram = vm.ram /\ sp = vm.reg["sp"]
    BY <2>3, <2>4 DEF Sleep, Machine
  <2> HIDE DEF c
  <2>7. Resolve(c, i.a, "a").vm = c BY DEF Resolve, Read
  <2>8. Execute(c, i) = OpRfi(c, i.a)
    BY DEF Execute, Twice, Branches
  <2> DEFINE moved == Move(w, "sp", 2)
             done == [moved EXCEPT !.reg["A"] = w.ram[sp],
                                   !.reg["pc"] = w.ram[Add(sp, 1)],
                                   !.queue = FALSE]
  <2>9. OpRfi(c, i.a) = done
    BY <2>5, <2>7 DEF OpRfi, UnlessSkipped
  <2> HIDE DEF w, i
  <2>10. moved \in Machine /\ moved.reg["sp"] = Add(sp, 2)
    <3>1. moved \in Machine BY <2>5, MoveKeeps, CellNames, KeptMachine
    <3>2. moved.reg["sp"] = Add(sp, 2) BY <2>5, CellNames DEF Move, Machine
    <3>3. QED BY <3>1, <3>2
  <2> HIDE DEF sp, moved
  <2>11. /\ done.reg["A"] = w.ram[sp] /\ done.reg["pc"] = w.ram[Add(sp, 1)]
         /\ done.reg["sp"] = Add(sp, 2) /\ ~done.queue
    BY <2>10, CellNames DEF Machine
  <2> HIDE DEF done
  <2>12. /\ f.sp \in Word /\ vm.ram[Add(f.sp, -1)] = f.pc
         /\ vm.ram[Add(f.sp, -2)] = f.A
    BY DEF Inv, Machine, Frames, Framed
  <2>13. Add(sp, 1) = Add(f.sp, -1) /\ Add(sp, 2) = f.sp
    BY <2>6, <2>12, TwoBack
  <2>14. QED BY <2>2, <2>6, <2>8, <2>9, <2>11, <2>12, <2>13
<1>2. QED BY Invariant, <1>1, PTL DEF Spec, FrameRestored

-----------------------------------------------------------------------------
(* Skipping.  Quiet is what reading an operand does then, Still what the    *)
(* whole instruction does.                                                  *)
Still(v, w) ==
  /\ w \in Machine /\ w.ram = v.ram /\ w.queue = v.queue
  /\ w.halted = v.halted
  /\ \A c \in Cell \ {"pc"} : w.reg[c] = v.reg[c]

Quiet(v, w) == Still(v, w) /\ w.skip

LEMMA QuietQuiet ==
  ASSUME NEW u, NEW v, NEW w, Quiet(u, v), Quiet(v, w) PROVE Quiet(u, w)
  BY DEF Quiet, Still

LEMMA QuietMachine ==
  ASSUME NEW v, NEW w, Quiet(v, w) PROVE w \in Machine /\ w.skip
  BY DEF Quiet, Still

LEMMA QuietConsumed ==
  ASSUME NEW v \in Machine, v.skip PROVE Quiet(v, Consumed(v))
<1>1. Kept(v, Consumed(v)) BY NextWord
<1>2. Consumed(v).ram = v.ram /\ \A c \in Cell \ {"pc"} : Consumed(v).reg[c] = v.reg[c]
  BY CellNames DEF Consumed, Move, Machine
<1>3. QED BY <1>1, <1>2 DEF Kept, Quiet, Still

LEMMA QuietSleep ==
  ASSUME NEW v \in Machine, NEW n \in Nat, v.skip PROVE Quiet(v, Sleep(v, n))
<1>1. Kept(v, Sleep(v, n)) BY SleepMore
<1>2. Sleep(v, n).ram = v.ram /\ Sleep(v, n).reg = v.reg
  BY DEF Sleep, Machine
<1>3. QED BY <1>1, <1>2 DEF Kept, Quiet, Still

LEMMA ResolveQuiet ==
  ASSUME NEW v \in Machine, NEW o \in Operand, NEW pos, v.skip
  PROVE  Quiet(v, Resolve(v, o, pos).vm)
<1>1. Quiet(v, v) BY DEF Quiet, Still
<1>2. Quiet(v, Consumed(v)) BY QuietConsumed
<1>3. Resolve(v, o, pos).vm \in {v, Consumed(v)} BY DEF Resolve, Read, Operand
<1>4. QED BY <1>1, <1>2, <1>3

LEMMA ResolveOnceQuiet ==
  ASSUME NEW v \in Machine, NEW o \in Operand, NEW pos, v.skip
  PROVE  Quiet(v, ResolveOnce(v, o, pos).vm)
<1>1. Quiet(v, v) BY DEF Quiet, Still
<1>2. ResolveOnce(v, o, pos).vm \in {v, Resolve(v, o, pos).vm}
  BY DEF ResolveOnce, Read, Operand
<1>3. QED BY <1>1, <1>2, ResolveQuiet

LEMMA GetStoreQuiet ==
  ASSUME NEW v \in Machine, NEW o \in Operand, NEW pos, v.skip
  PROVE  Quiet(v, GetStore(v, o, pos).vm)
<1>1. Quiet(v, v) BY DEF Quiet, Still
<1>2. GetStore(v, o, pos).vm \in {v, Consumed(v)}
  BY DEF GetStore, SkippedStore, Found
<1>3. QED BY <1>1, <1>2, QuietConsumed

LEMMA UnlessSkippedStill ==
  ASSUME NEW v, NEW w, NEW done, Quiet(v, w)
  PROVE  Still(v, UnlessSkipped(w, done))
<1> DEFINE r == [w EXCEPT !.skip = FALSE]
<1>1. UnlessSkipped(w, done) = r BY DEF UnlessSkipped, Quiet
<1>2. r \in Machine /\ r.ram = w.ram /\ r.queue = w.queue
      /\ r.halted = w.halted /\ r.reg = w.reg
  BY DEF Quiet, Still, Machine
<1>3. QED BY <1>1, <1>2 DEF Quiet, Still

LEMMA SetStill ==
  ASSUME NEW v \in Machine, v.skip, NEW a \in Operand, NEW b \in Operand,
         NEW step
  PROVE  /\ Still(v, OpSet(v, b, a)) /\ Still(v, OpAdd(v, b, a))
         /\ Still(v, OpStep(v, b, a, step))
<1> DEFINE va == Resolve(v, a, "a")
           st == GetStore(va.vm, b, "b")
           w == Sleep(st.vm, 1)
<1>1. Quiet(v, va.vm) BY ResolveQuiet
<1>2. Quiet(va.vm, st.vm) BY <1>1, GetStoreQuiet, QuietMachine
<1>3. Quiet(st.vm, w) BY <1>2, QuietSleep, QuietMachine
<1>4. Quiet(v, st.vm) /\ Quiet(v, w) BY <1>1, <1>2, <1>3, QuietQuiet
<1> HIDE DEF va, st, w
<1>5. Still(v, OpSet(v, b, a)) BY <1>4, UnlessSkippedStill DEF OpSet, va, st
<1>6. Still(v, OpAdd(v, b, a)) BY <1>4, UnlessSkippedStill DEF OpAdd, va, st, w
<1>7. Still(v, OpStep(v, b, a, step)) BY <1>4, UnlessSkippedStill DEF OpStep, va, st
<1>8. QED BY <1>5, <1>6, <1>7

LEMMA TwiceStill ==
  ASSUME NEW v \in Machine, v.skip, NEW op \in Twice,
         NEW a \in Operand, NEW b \in Operand
  PROVE  Still(v, OpTwice(v, op, b, a))
<1> DEFINE va == Resolve(v, a, "a")
           vb == ResolveOnce(va.vm, b, "b")
           st == GetStore(vb.vm, b, "b")
           w == Sleep(st.vm, ExtraCycles(op))
<1>1. Quiet(v, va.vm) BY ResolveQuiet
<1>2. Quiet(va.vm, vb.vm) BY <1>1, ResolveOnceQuiet, QuietMachine
<1>3. Quiet(vb.vm, st.vm) BY <1>2, GetStoreQuiet, QuietMachine
<1>4. ExtraCycles(op) \in Nat BY DEF ExtraCycles
<1>5. Quiet(st.vm, w) BY <1>3, <1>4, QuietSleep, QuietMachine
<1>6. Quiet(v, w) BY <1>1, <1>2, <1>3, <1>5, QuietQuiet
<1> HIDE DEF va, vb, st, w
<1>7. QED BY <1>6, UnlessSkippedStill DEF OpTwice, va, vb, st, w

LEMMA IfStill ==
  ASSUME NEW v \in Machine, v.skip, NEW op,
         NEW a \in Operand, NEW b \in Operand
  PROVE  Still(v, OpIf(v, op, b, a))
<1> DEFINE bFirst == op = "IFL"
           first == IF bFirst THEN Resolve(v, b, "b") ELSE Resolve(v, a, "a")
           second == IF bFirst THEN Resolve(first.vm, a, "a")
                               ELSE Resolve(first.vm, b, "b")
<1>1. Quiet(v, first.vm) BY ResolveQuiet
<1> HIDE DEF first
<1>2. Quiet(first.vm, second.vm) BY <1>1, ResolveQuiet, QuietMachine
<1>3. Quiet(v, second.vm) BY <1>1, <1>2, QuietQuiet
<1> HIDE DEF second
<1>4. OpIf(v, op, b, a) = second.vm BY DEF OpIf, first, second
<1>5. QED BY <1>3, <1>4 DEF Quiet

LEMMA OneStill ==
  ASSUME NEW v \in Machine, v.skip, NEW a \in Operand
  PROVE  /\ Still(v, OpJsr(v, a)) /\ Still(v, OpIag(v, a))
         /\ Still(v, OpIas(v, a)) /\ Still(v, OpRfi(v, a))
         /\ Still(v, OpIaq(v, a)) /\ Still(v, OpHwn(v, a))
         /\ Still(v, OpHwq(v, a)) /\ Still(v, OpHwi(v, a))
<1> DEFINE va == Resolve(v, a, "a")
           st == GetStore(v, a, "a")
           one == Sleep(va.vm, 1)
           two == Sleep(va.vm, 2)
           three == Sleep(va.vm, 3)
           found == Sleep(st.vm, 1)
<1>1. Quiet(v, va.vm) /\ Quiet(v, st.vm) BY ResolveQuiet, GetStoreQuiet
<1>2. /\ Quiet(va.vm, one) /\ Quiet(va.vm, two) /\ Quiet(va.vm, three)
      /\ Quiet(st.vm, found)
  BY <1>1, QuietSleep, QuietMachine
<1>3. Quiet(v, one) /\ Quiet(v, two) /\ Quiet(v, three) /\ Quiet(v, found)
  BY <1>1, <1>2, QuietQuiet
<1> HIDE DEF va, st, one, two, three, found
<1>4. Still(v, OpJsr(v, a)) BY <1>3, UnlessSkippedStill DEF OpJsr, va, two
<1>5. Still(v, OpIag(v, a)) BY <1>1, UnlessSkippedStill DEF OpIag, st
<1>6. Still(v, OpIas(v, a)) BY <1>1, UnlessSkippedStill DEF OpIas, va
<1>7. Still(v, OpRfi(v, a)) BY <1>3, UnlessSkippedStill DEF OpRfi, va, two
<1>8. Still(v, OpIaq(v, a)) BY <1>3, UnlessSkippedStill DEF OpIaq, va, one
<1>9. Still(v, OpHwn(v, a)) BY <1>3, UnlessSkippedStill DEF OpHwn, st, found
<1>10. Still(v, OpHwq(v, a)) BY <1>3, UnlessSkippedStill DEF OpHwq, va, three
<1>11. Still(v, OpHwi(v, a)) BY <1>3, UnlessSkippedStill DEF OpHwi, va, three
<1>12. QED BY <1>4, <1>5, <1>6, <1>7, <1>8, <1>9, <1>10, <1>11

LEMMA ExecuteStill ==
  ASSUME NEW v \in Machine, v.skip, NEW i \in Instruction,
         i.op \notin {"INT", "invalid"}
  PROVE  Still(v, Execute(v, i))
<1>1. CASE i.op \in Basic
  <2>1. i.a \in Operand /\ i.b \in Operand
    BY <1>1 DEF Instruction, NonBasic, Basic, Twice, Branches
  <2>2. CASE i.op \in Twice
    <3>1. Execute(v, i) = OpTwice(v, i.op, i.b, i.a)
      BY <2>2 DEF Execute, Twice, Branches
    <3>2. QED BY <2>1, <2>2, <3>1, TwiceStill
  <2>3. CASE i.op \in Branches
    <3>1. Execute(v, i) = OpIf(v, i.op, i.b, i.a)
      BY <2>3 DEF Execute, Twice, Branches
    <3>2. QED BY <2>1, <3>1, IfStill
  <2>4. CASE i.op \in {"SET", "ADD", "STI", "STD"}
    <3>1. Execute(v, i) \in {OpSet(v, i.b, i.a), OpAdd(v, i.b, i.a),
                            OpStep(v, i.b, i.a, 1), OpStep(v, i.b, i.a, -1)}
      BY <2>4 DEF Execute, Twice, Branches
    <3>2. QED BY <2>1, <3>1, SetStill
  <2>5. QED BY <1>1, <2>2, <2>3, <2>4 DEF Basic
<1>2. CASE i.op \in NonBasic
  <2>1. i.a \in Operand
    BY <1>2 DEF Instruction, NonBasic, Basic, Twice, Branches
  <2>2. Execute(v, i) \in {OpJsr(v, i.a), OpIag(v, i.a), OpIas(v, i.a),
                          OpRfi(v, i.a), OpIaq(v, i.a), OpHwn(v, i.a),
                          OpHwq(v, i.a), OpHwi(v, i.a)}
    BY <1>2 DEF Execute, Twice, Branches, NonBasic
  <2>3. QED BY <2>1, <2>2, OneStill
<1>3. QED BY <1>1, <1>2 DEF Instruction

(* "Don't modify the state of the program if we're skipping": a skipped
   instruction, whatever its operands, leaves memory and registers alone, and
   no interrupt is sent in its place.                                      *)
THEOREM DcpuSkippedChangesNothing == Spec => SkippedChangesNothing
<1> DEFINE P == /\ Awake /\ ~vm.halted /\ vm.skip
                /\ Instr(vm).op \notin {"INT", "invalid"}
           Q == /\ vm'.ram = vm.ram /\ vm'.queue = vm.queue /\ ~vm'.halted
                /\ vm'.reg = [vm.reg EXCEPT !["pc"] = vm'.reg["pc"]]
<1>1. Inv /\ [Next]_vm => [P => Q]_vm
  <2> SUFFICES ASSUME Inv, Next, P PROVE Q
    OBVIOUS
  <2> DEFINE d == Dispatch(vm)
             c == Consumed(d)
             i == Decode[Next1(d)]
  <2>1. vm' = Run(d) BY DEF Next, Doze, Cycle
  <2>2. /\ d \in Machine /\ d.halted = vm.halted
        /\ d = vm \/ d = [vm EXCEPT !.irq = Tail(vm.irq)]
    BY DispatchKeeps DEF Inv
  <2> HIDE DEF d
  <2>3. /\ d.ram = vm.ram /\ d.reg = vm.reg /\ d.queue = vm.queue /\ d.skip
    BY <2>2 DEF Inv, Machine
  <2>4. i = Instr(vm) BY <2>3 DEF Instr, Next1
  <2>5. i \in Instruction BY <2>2, InstrIs
  <2>6. vm' = Execute(c, i) BY <2>1, <2>2 DEF Run, Instr
  <2>7. Quiet(d, c) BY <2>2, <2>3, QuietConsumed
  <2> HIDE DEF c, i
  <2>8. Still(c, vm') BY <2>4, <2>5, <2>6, <2>7, ExecuteStill, QuietMachine
  <2>9. /\ vm'.ram = vm.ram /\ vm'.queue = vm.queue /\ ~vm'.halted
        /\ \A x \in Cell \ {"pc"} : vm'.reg[x] = vm.reg[x]
        /\ vm'.reg \in [Cell -> Word]
    BY <2>2, <2>3, <2>7, <2>8 DEF Quiet, Still, Machine
  <2>10. vm.reg \in [Cell -> Word] BY DEF Inv, Machine
  <2>11. QED BY <2>9, <2>10
<1>2. QED BY Invariant, <1>1, PTL DEF Spec, SkippedChangesNothing
=============================================================================
