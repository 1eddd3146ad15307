------------------------------- MODULE MCDcpu -------------------------------
(* Short programs over forty instructions.                                 *)
EXTENDS Dcpu, Bitwise

Is(kind) == [kind |-> kind]
R(r) == [kind |-> "reg", r |-> r]
Of(kind, r) == [kind |-> kind, r |-> r]
Lit(n) == [kind |-> "lit", is |-> n]

Two(op, b, a) == [op |-> op, b |-> b, a |-> a]
One(op, a) == [op |-> op, a |-> a]

(* A word that is no instruction, as 0 is; the stack, interrupts, and
   operands with a next word.                                              *)
Control ==
  << [op |-> "invalid"],
     Two("SET", Is("push_pop"), Is("nxt_lit")),
     Two("SET", R("pc"), Is("push_pop")),
     One("IAS", Is("nxt_lit")),
     One("INT", Lit(1)),
     One("RFI", Lit(0)),
     One("IAQ", Lit(0)),
     One("IAQ", Lit(1)),
     Two("IFE", R("A"), Lit(0)),
     Two("IFN", R("A"), Is("nxt_lit")),
     Two("SUB", Is("nxt"), Lit(1)),
     One("JSR", Is("nxt_lit")),
     Two("STI", Of("nxt_val", "I"), Is("push_pop")),
     Two("ADD", Is("pick"), R("A")),
     Two("SBX", Is("push_pop"), Is("peek")),
     One("IAG", Is("push_pop")) >>

(* The rest, on operands that are negative, zero and their own place.      *)
Arithmetic ==
  << Two("SET", R("A"), Is("nxt")),
     Two("SET", R("ex"), Lit(31)),
     Two("MUL", Is("peek"), Is("pick")),
     Two("MLI", R("A"), Lit(30)),
     Two("DIV", R("A"), Is("nxt_lit")),
     Two("DVI", R("A"), R("I")),
     Two("MOD", Is("nxt"), R("A")),
     Two("MDI", R("A"), Lit(3)),
     Two("AND", R("A"), Of("val", "A")),
     Two("BOR", Is("pick"), R("A")),
     Two("XOR", R("sp"), R("A")),
     Two("ADX", R("ex"), R("A")),
     Two("STD", Of("val", "J"), R("pc")),
     Two("IFB", R("A"), Is("push_pop")),
     Two("IFL", Is("push_pop"), Is("push_pop")),
     Two("IFU", R("A"), R("sp")) >>

(* The shifts and the device.                                              *)
Peripheral ==
  << Two("SHR", R("A"), Lit(3)),
     Two("ASR", Is("nxt"), R("A")),
     Two("SHL", R("A"), R("pc")),
     Two("SET", R("A"), Lit(4)),
     Two("SET", R("B"), R("sp")),
     One("HWN", R("I")),
     One("HWQ", Is("nxt_lit")),
     One("HWI", Lit(0)) >>

MCWord == 0 .. 63
Programs == Control \o Arithmetic \o Peripheral

MCDecode ==
  [w \in MCWord |-> IF w < Len(Programs) THEN Programs[w + 1]
                    ELSE [op |-> "invalid"]]

(* Shifts of a number of twelve bits, an int of this machine; the count is
   taken as x86 takes it.                                                  *)
By(count) == 2 ^ (count % 12)
Value(op, b) == IF op = "ASR" /\ b > 31 THEN b - 64 ELSE b
High(b) == 64 * (IF b > 31 THEN b - 64 ELSE b)

MCBits ==
  [op \in {"AND", "BOR", "XOR", "SHR", "ASR", "SHL"} |->
    [b \in MCWord |-> [a \in MCWord |->
      CASE op = "AND" -> b & a
        [] op = "BOR" -> b | a
        [] op = "XOR" -> b ^^ a
        [] op = "SHL" -> (b * By(a)) % 64
        [] OTHER      -> (Value(op, b) \div By(a)) % 64]]]

MCLost ==
  [op \in {"SHR", "ASR", "SHL"} |->
    [b \in MCWord |-> [a \in MCWord |->
      IF op = "SHL" THEN ((b * By(a)) \div 64) % 64
      ELSE (High(b) \div By(a)) % 64]]]

MCDevices == << [A |-> 21, B |-> 52, C |-> 2, X |-> 54, Y |-> 28] >>
MCDumps == [request \in {4, 5} |-> IF request = 4 THEN <<7, 6, 5>> ELSE <<9>>]

(* Four words of control or three of any kind, and behind them a handler
   that calls and returns.                                                 *)
MCImages ==
  {[w \in MCWord |-> IF w < 4 THEN program[w]
                     ELSE IF w \in 4 .. 7 THEN <<7, 1, 6, 5>>[w - 3] ELSE 0]
   : program \in [0 .. 3 -> 0 .. 15]
                   \cup {f \in [0 .. 3 -> 0 .. 39] : f[3] = 0}}
=============================================================================
