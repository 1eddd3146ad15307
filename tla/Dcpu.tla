-------------------------------- MODULE Dcpu --------------------------------
(***************************************************************************)
(* The virtual processor of the Ion world (lib/dcpu/c): its operands, the  *)
(* skipping of instructions, interrupts and their queue, and vm_cycle.     *)
(*                                                                         *)
(* Words are 0 .. W - 1, and so are addresses.  What a word says as an     *)
(* instruction is a parameter, with the operands by their kinds, and so is *)
(* what C's bit operators do, which for a shift by 32 and more the build   *)
(* decides.  The devices are those of one machine, screens as in           *)
(* charge/game/dcpu/lem1802.d; no hook is registered.                      *)
(***************************************************************************)
EXTENDS Integers, Sequences

CONSTANTS
  W,         \* how many words there are; 2^16
  Decode,    \* the instruction of each word
  Bits,      \* C's &, | and ^ of two words, and its shifts
  Lost,      \* what a shift pushes out of the word, for ex
  Devices,   \* for each, the words HWQ gives of it
  Dumps,     \* what a device copies to memory, by the request in A
  IrqMax,    \* INTERRUPT_MAX
  Images     \* the memories a program starts from

Word == 0 .. W - 1

Register == {"A", "B", "C", "X", "Y", "Z", "I", "J"}

(* The fields of vm_t that an operand or an instruction can name. *)
Cell == Register \cup {"pc", "sp", "ia", "ex", "dummy"}

Operand ==
  [kind : {"reg"}, r : Cell \ {"ia", "dummy"}]
    \cup [kind : {"val", "nxt_val"}, r : Register]
    \cup [kind : {"push_pop", "peek", "pick", "nxt", "nxt_lit"}]
    \cup [kind : {"lit"}, is : Word]

(* Those that resolve b and then find its place to write it. *)
Twice == {"SUB", "MUL", "MLI", "DIV", "DVI", "MOD", "MDI", "AND", "BOR", "XOR",
          "SHR", "ASR", "SHL", "ADX", "SBX"}
Shifts == {"SHR", "ASR", "SHL"}
Branches == {"IFB", "IFC", "IFE", "IFN", "IFG", "IFA", "IFL", "IFU"}
Basic == Twice \cup Branches \cup {"SET", "ADD", "STI", "STD"}
NonBasic == {"JSR", "INT", "IAG", "IAS", "RFI", "IAQ", "HWN", "HWQ", "HWI"}

(* The registers HWQ writes. *)
Info == {"A", "B", "C", "X", "Y"}

Instruction ==
  [op : Basic, b : Operand, a : Operand] \cup [op : NonBasic, a : Operand]
    \cup [op : {"invalid"}]

ASSUME DcpuAssumption ==
  /\ Bits \in [{"AND", "BOR", "XOR"} \cup Shifts -> [Word -> [Word -> Word]]]
  /\ Lost \in [Shifts -> [Word -> [Word -> Word]]]
  /\ Devices \in Seq([Info -> Word])
  /\ DOMAIN Dumps \subseteq Word /\ \A r \in DOMAIN Dumps : Dumps[r] \in Seq(Word)
  /\ W \in Nat \ {0, 1} /\ IrqMax \in Nat \ {0}
  /\ Decode \in [Word -> Instruction]
  /\ Images \subseteq [Word -> Word]

VARIABLE vm   \* the vm_t; its field frame is a history, see Interrupt

NoFrame == [sp |-> 0, pc |-> 0, A |-> 0, intact |-> FALSE]

(* vm_create, and the program copied into its memory. *)
Init ==
  \E image \in Images :
    vm = [ram |-> image, reg |-> [c \in Cell |-> 0], irq |-> <<>>, sleep |-> 0,
          queue |-> FALSE, halted |-> FALSE, skip |-> FALSE, frame |-> NoFrame]

-----------------------------------------------------------------------------
Add(m, n) == (m + n) % W

(* Slip: the sum is wider than a word. *)
MoveWide(v, c, n) == [v EXCEPT !.reg[c] = @ + n]

Move(v, c, n) == [v EXCEPT !.reg[c] = Add(@, n)]

Sleep(v, n) == [v EXCEPT !.sleep = @ + n]

(* A place that can be written: a word of memory or a field. *)
Ram(i) == [in |-> "ram", at |-> i]
Reg(c) == [in |-> "reg", at |-> c]

Load(v, place) == IF place.in = "ram" THEN v.ram[place.at] ELSE v.reg[place.at]

Saved(frame) == {Add(frame.sp, -1), Add(frame.sp, -2)}

Store(v, place, word) ==
  IF place.in = "reg" THEN [v EXCEPT !.reg[place.at] = word]
  ELSE [v EXCEPT !.ram[place.at] = word,
                 !.frame.intact = @ /\ place.at \notin Saved(v.frame)]

Push(v, word) ==
  LET down == Move(v, "sp", -1) IN Store(down, Ram(down.reg["sp"]), word)

Next1(v) == v.ram[v.reg["pc"]]
Consumed(v) == Move(v, "pc", 1)

(* The word before the program counter. *)
Last1(v) == v.ram[Add(v.reg["pc"], -1)]

-----------------------------------------------------------------------------
(* vm_interrupt.  The history frame is what the handler has to give back.  *)
Interrupt(v, msgid) ==
  CASE v.queue /\ Len(v.irq) >= IrqMax -> [v EXCEPT !.halted = TRUE]
    [] v.queue /\ Len(v.irq) < IrqMax  -> [v EXCEPT !.irq = Append(@, msgid)]
    [] ~v.queue /\ v.reg["ia"] = 0      -> v
    [] ~v.queue /\ v.reg["ia"] # 0      ->
         LET saved == Push(Push(v, v.reg["pc"]), v.reg["A"])
         IN  [saved EXCEPT
               !.reg["A"] = msgid, !.reg["pc"] = v.reg["ia"], !.queue = TRUE,
               !.frame = [sp |-> v.reg["sp"], pc |-> v.reg["pc"],
                          A |-> v.reg["A"], intact |-> TRUE]]

-----------------------------------------------------------------------------
(* What reading an operand gives, and the machine after it. *)
Read(v, word) == [vm |-> v, is |-> word]

(* vm_resolve_value; pos says whether push_pop pops or pushes. *)
Resolve(v, o, pos) ==
  LET reg    == v.reg
      c      == Consumed(v)
      popped == Move(v, "sp", IF pos = "a" THEN 1 ELSE -1)
  IN  CASE o.kind = "reg"     -> Read(v, reg[o.r])
        [] o.kind = "val"     -> Read(v, v.ram[reg[o.r]])
        [] o.kind = "nxt_val" -> Read(c, v.ram[Add(reg[o.r], Next1(v))])
        [] o.kind = "peek"    -> Read(v, v.ram[reg["sp"]])
        [] o.kind = "pick"    -> Read(c, v.ram[Add(reg["sp"], Next1(v))])
        [] o.kind = "nxt"     -> Read(c, v.ram[Next1(v)])
        [] o.kind = "nxt_lit" -> Read(c, Next1(v))
        [] o.kind = "lit"     -> Read(v, o.is)
        [] o.kind = "push_pop" /\ v.skip  -> Read(v, reg["dummy"])
        [] o.kind = "push_pop" /\ ~v.skip ->
             Read(popped, v.ram[IF pos = "a" THEN reg["sp"] ELSE popped.reg["sp"]])

(* vm_resolve_value_once: it takes the word before the program counter for
   the next word of the operand. *)
ResolveOnce(v, o, pos) ==
  CASE o.kind = "nxt"      -> Read(v, v.ram[Last1(v)])
    [] o.kind = "push_pop" -> Read(v, v.ram[v.reg["sp"]])
    [] o.kind = "pick"     -> Read(v, v.ram[Add(v.reg["sp"], Last1(v))])
    [] o.kind = "nxt_val"  -> Read(v, v.ram[Add(v.reg[o.r], Last1(v))])
    [] OTHER               -> Resolve(v, o, pos)

(* The place an operand names, and the machine after it. *)
Found(v, place) == [vm |-> v, at |-> place]

(* What vm_internal_get_store returns while an instruction is skipped. *)
SkippedStore(v, o) ==
  Found(IF o.kind \in {"nxt_val", "nxt"} THEN Consumed(v) ELSE v, Reg("dummy"))

(* The place an operand names when nothing is skipped. *)
Place(v, o, pos) ==
  LET reg   == v.reg
      c     == Sleep(Consumed(v), 1)
      moved == Move(v, "sp", IF pos = "a" THEN 1 ELSE -1)
  IN  CASE o.kind = "reg"      -> Found(v, Reg(o.r))
        [] o.kind = "val"      -> Found(v, Ram(reg[o.r]))
        [] o.kind = "nxt_val"  -> Found(c, Ram(Add(reg[o.r], Next1(v))))
        [] o.kind = "peek"     -> Found(v, Ram(reg["sp"]))
        [] o.kind = "pick"     -> Found(c, Ram(Add(reg["sp"], Next1(v))))
        [] o.kind = "nxt"      -> Found(c, Ram(Next1(v)))
        [] o.kind = "push_pop" ->
             Found(moved, Ram(IF pos = "a" THEN reg["sp"] ELSE moved.reg["sp"]))
        [] o.kind \in {"nxt_lit", "lit"} -> Found(v, Reg("dummy"))

(* Slip: the state is modified all the same. *)
GetStoreAlways(v, o, pos) == Place(v, o, pos)

(* vm_internal_get_store. *)
GetStore(v, o, pos) == IF v.skip THEN SkippedStore(v, o) ELSE Place(v, o, pos)

-----------------------------------------------------------------------------
(* VM_SKIP_RESET: the instruction ends here if it is the one to skip. *)
UnlessSkipped(v, done) == IF v.skip THEN [v EXCEPT !.skip = FALSE] ELSE done

OpSet(v, b, a) ==
  LET va == Resolve(v, a, "a")
      st == GetStore(va.vm, b, "b")
  IN  UnlessSkipped(st.vm, Store(st.vm, st.at, va.is))

(* What an addition or a subtraction that came to n leaves in ex. *)
Flow(n) == CASE n < 0 -> W - 1 [] n > W - 1 -> 1 [] OTHER -> 0

OpAdd(v, b, a) ==
  LET va == Resolve(v, a, "a")
      st == GetStore(va.vm, b, "b")
      n  == Load(st.vm, st.at) + va.is
      w  == Sleep(st.vm, 1)
  IN  UnlessSkipped(w, [Store(w, st.at, n % W) EXCEPT !.reg["ex"] = Flow(n)])

(* The value of a word as int16_t; division and remainder as in C. *)
Signed(n) == IF 2 * n < W THEN n ELSE n - W
Quot(m, d) == IF m < 0 THEN -((-m) \div d) ELSE m \div d
Rem(m, d) == m - d * Quot(m, d)

(* What the instructions of Twice do with the words read: the new b. *)
Combined(op, vb, va, ex) ==
  CASE op = "SUB" -> vb - va
    [] op = "MUL" -> vb * va
    [] op = "MLI" -> Signed(vb) * va
    [] op = "ADX" -> vb + va + ex
    [] op = "SBX" -> vb - va + ex
    [] op \in {"AND", "BOR", "XOR"} \cup Shifts -> Bits[op][vb][va]
    [] op \in {"DIV", "DVI", "MOD", "MDI"} /\ va = 0 -> 0
    [] op = "DIV" /\ va # 0 -> vb \div va
    [] op = "DVI" /\ va # 0 -> Quot(Signed(vb), va)
    [] op = "MOD" /\ va # 0 -> vb % va
    [] op = "MDI" /\ va # 0 -> Rem(Signed(vb), va)

(* And the new ex.  A dividend is shifted up as a signed number. *)
Excess(op, vb, va, ex) ==
  LET n == Combined(op, vb, va, ex)
  IN  CASE op \in {"SUB", "ADX", "SBX"} -> Flow(n)
        [] op \in {"MUL", "MLI"} -> (n \div W) % W
        [] op \in {"DIV", "DVI"} ->
             IF va = 0 THEN 0 ELSE Quot(Signed(vb) * W, va) % W
        [] op \in Shifts -> Lost[op][vb][va]
        [] OTHER -> ex

ExtraCycles(op) ==
  CASE op \in {"SUB", "MUL", "MLI"} -> 1 [] op \in {"AND", "BOR", "XOR"} \cup Shifts -> 0
    [] OTHER -> 2

OpTwice(v, op, b, a) ==
  LET va == Resolve(v, a, "a")
      vb == ResolveOnce(va.vm, b, "b")
      st == GetStore(vb.vm, b, "b")
      w  == Sleep(st.vm, ExtraCycles(op))
      ex == w.reg["ex"]
      n  == Combined(op, vb.is, va.is, ex)
      done == Store(w, st.at, n % W)
  IN  UnlessSkipped(w,
        IF op \in {"MOD", "MDI", "AND", "BOR", "XOR"} THEN done
        ELSE [done EXCEPT !.reg["ex"] = Excess(op, vb.is, va.is, ex)])

Holds(op, vb, va) ==
  CASE op = "IFB" -> Bits["AND"][vb][va] # 0
    [] op = "IFC" -> Bits["AND"][vb][va] = 0
    [] op = "IFE" -> vb = va
    [] op = "IFN" -> vb # va
    [] op = "IFG" -> vb > va
    [] op = "IFA" -> Signed(vb) > Signed(va)
    [] op = "IFL" -> vb < va
    [] op = "IFU" -> Signed(vb) < Signed(va)

(* A skipped branch skips the next one, too.  Only vm_op_ifl reads b first. *)
OpIf(v, op, b, a) ==
  LET bFirst == op = "IFL"
      first  == IF bFirst THEN Resolve(v, b, "b") ELSE Resolve(v, a, "a")
      second == IF bFirst THEN Resolve(first.vm, a, "a")
                          ELSE Resolve(first.vm, b, "b")
      vb == IF bFirst THEN first.is ELSE second.is
      va == IF bFirst THEN second.is ELSE first.is
  IN  IF v.skip THEN second.vm
      ELSE [second.vm EXCEPT !.skip = ~Holds(op, vb, va)]

(* vm_op_sti, std: step is 1 or -1. *)
OpStep(v, b, a, step) ==
  LET va == Resolve(v, a, "a")
      st == GetStore(va.vm, b, "b")
  IN  UnlessSkipped(st.vm,
        Move(Move(Store(st.vm, st.at, va.is), "I", step), "J", step))

OpJsr(v, a) ==
  LET va == Resolve(v, a, "a")
      w  == Sleep(va.vm, 2)
  IN  UnlessSkipped(w, [Push(w, w.reg["pc"]) EXCEPT !.reg["pc"] = va.is])

(* It does not look at skip. *)
OpInt(v, a) ==
  LET va == Resolve(v, a, "a") IN Interrupt(Sleep(va.vm, 3), va.is)

OpIag(v, a) ==
  LET st == GetStore(v, a, "a")
  IN  UnlessSkipped(st.vm, Store(st.vm, st.at, st.vm.reg["ia"]))

OpIas(v, a) ==
  LET va == Resolve(v, a, "a")
  IN  UnlessSkipped(va.vm, [va.vm EXCEPT !.reg["ia"] = va.is])

(* Slip: the saved words change places. *)
OpRfiSwapped(v, a) ==
  LET w  == Sleep(Resolve(v, a, "a").vm, 2)
      sp == w.reg["sp"]
  IN  UnlessSkipped(w,
        [Move(w, "sp", 2) EXCEPT
          !.reg["pc"] = w.ram[sp], !.reg["A"] = w.ram[Add(sp, 1)], !.queue = FALSE])

OpRfi(v, a) ==
  LET w  == Sleep(Resolve(v, a, "a").vm, 2)
      sp == w.reg["sp"]
  IN  UnlessSkipped(w,
        [Move(w, "sp", 2) EXCEPT
          !.reg["A"] = w.ram[sp], !.reg["pc"] = w.ram[Add(sp, 1)], !.queue = FALSE])

OpIaq(v, a) ==
  LET va == Resolve(v, a, "a")
      w  == Sleep(va.vm, 1)
  IN  UnlessSkipped(w, [w EXCEPT !.queue = (va.is # 0)])

OpHwn(v, a) ==
  LET st == GetStore(v, a, "a")
      w  == Sleep(st.vm, 1)
  IN  UnlessSkipped(w, Store(w, st.at, Len(Devices) % W))

OpHwq(v, a) ==
  LET va == Resolve(v, a, "a")
      w  == Sleep(va.vm, 3)
      asked == [w EXCEPT !.reg = [c \in Cell |->
                 IF c \in Info THEN Devices[va.is + 1][c] ELSE @[c]]]
  IN  UnlessSkipped(w, IF va.is < Len(Devices) THEN asked ELSE w)

(* The words from i on that a copy of n words is written to. *)
Span(i, n) == i .. i + n - 1

(* The interupt method of a device: a copy that does not fit is not made.
   Requests without a copy change what the screen shows.                   *)
Answer(v) ==
  LET copy == Dumps[v.reg["A"]]
      b    == v.reg["B"]
      span == Span(b, Len(copy))
      w    == Sleep(v, Len(copy))
  IN  IF v.reg["A"] \notin DOMAIN Dumps THEN v
      ELSE IF b + Len(copy) > W THEN w
      ELSE [w EXCEPT !.ram = [i \in Word |->
                       IF i \in span THEN copy[i - b + 1] ELSE @[i]],
                     !.frame.intact = @ /\ Saved(v.frame) \cap span = {}]

(* No device answers to a number that none has. *)
OpHwi(v, a) ==
  LET va == Resolve(v, a, "a")
      w  == Sleep(va.vm, 3)
  IN  UnlessSkipped(w, IF va.is < Len(Devices) THEN Answer(w) ELSE w)

(* The switch of vm_cycle. *)
Execute(v, i) ==
  CASE i.op = "SET"     -> OpSet(v, i.b, i.a)
    [] i.op = "ADD"     -> OpAdd(v, i.b, i.a)
    [] i.op \in Twice   -> OpTwice(v, i.op, i.b, i.a)
    [] i.op \in Branches -> OpIf(v, i.op, i.b, i.a)
    [] i.op = "STI"     -> OpStep(v, i.b, i.a, 1)
    [] i.op = "STD"     -> OpStep(v, i.b, i.a, -1)
    [] i.op = "JSR"     -> OpJsr(v, i.a)
    [] i.op = "INT"     -> OpInt(v, i.a)
    [] i.op = "IAG"     -> OpIag(v, i.a)
    [] i.op = "IAS"     -> OpIas(v, i.a)
    [] i.op = "RFI"     -> OpRfi(v, i.a)
    [] i.op = "IAQ"     -> OpIaq(v, i.a)
    [] i.op = "HWN"     -> OpHwn(v, i.a)
    [] i.op = "HWQ"     -> OpHwq(v, i.a)
    [] i.op = "HWI"     -> OpHwi(v, i.a)
    [] i.op = "invalid" -> [v EXCEPT !.halted = TRUE]

-----------------------------------------------------------------------------
(* The first of the queue, when it may be handled. *)
Dispatch(v) ==
  IF ~v.queue /\ v.irq # <<>>
  THEN Interrupt([v EXCEPT !.irq = Tail(@)], Head(v.irq)) ELSE v

Awake == vm.sleep = 0
Instr(v) == Decode[Next1(v)]

(* vm_cycle of a machine that sleeps. *)
Doze == ~Awake /\ vm' = Sleep(vm, -1)

(* Slip: halted is not looked at. *)
RunAlways(v) == Execute(Consumed(v), Instr(v))

(* vm_cycle of one that does not.  A halted machine is cycled, too, once in
   every logic step. *)
Run(v) == IF v.halted THEN v ELSE Execute(Consumed(v), Instr(v))

Cycle == Awake /\ vm' = Run(Dispatch(vm))

Next == Doze \/ Cycle

Spec == Init /\ [][Next]_vm

-----------------------------------------------------------------------------
(* Types; the queue of interrupts keeps within its array. *)
TypeOK ==
  /\ vm.ram \in [Word -> Word] /\ vm.reg \in [Cell -> Word]
  /\ vm.irq \in Seq(Word) /\ Len(vm.irq) <= IrqMax
  /\ vm.sleep \in Nat
  /\ {vm.queue, vm.halted, vm.skip} \subseteq BOOLEAN
  /\ vm.frame \in [sp : Word, pc : Word, A : Word, intact : BOOLEAN]

(* A handler that ends with the stack where it found it, and has not written
   over the two words saved there, gives the interrupted program its place
   and its register A back, whatever ran and queued in between. *)
FrameRestored ==
  [][LET f == vm.frame
     IN  /\ Awake /\ ~vm.halted /\ ~vm.skip /\ vm.queue
         /\ Instr(vm).op = "RFI" /\ Instr(vm).a.kind = "lit"
         /\ f.intact /\ vm.reg["sp"] = Add(f.sp, -2)
         => /\ vm'.reg["pc"] = f.pc /\ vm'.reg["A"] = f.A
            /\ vm'.reg["sp"] = f.sp /\ ~vm'.queue]_vm

(* "Don't modify the state of the program if we're skipping" (dcpuops.c): an
   instruction that is skipped, with all its operands, leaves memory and the
   registers as they are, but for the program counter.  INT and a word that
   is no instruction do not look at skip. *)
SkippedChangesNothing ==
  [][Awake /\ ~vm.halted /\ vm.skip /\ Instr(vm).op \notin {"INT", "invalid"}
     => /\ vm'.ram = vm.ram /\ vm'.queue = vm.queue /\ ~vm'.halted
        /\ vm'.reg = [vm.reg EXCEPT !["pc"] = vm'.reg["pc"]]]_vm

(* A machine that has halted keeps its memory and registers, although
   vm_cycle sends the next interrupt before it looks at halted. *)
HaltedStaysPut ==
  [][vm.halted => vm'.halted /\ vm'.ram = vm.ram /\ vm'.reg = vm.reg]_vm
=============================================================================
