------------------------------ MODULE Decode ------------------------------
(***************************************************************************)
(* The converter's decoders (src/tracer/rpoint-cs/converter/decode_x86.c,  *)
(* decode_aarch64.c): from what the disassembler says of an instruction to *)
(* ChampSim's branch type and its four source and two destination          *)
(* registers.                                                              *)
(*                                                                         *)
(* The disassembler (Zydis, Capstone) is external: an instruction is its   *)
(* mnemonic class and its operands, in the order it lists them.  A         *)
(* register is <<class, index>>.                                           *)
(***************************************************************************)
EXTENDS Integers, Sequences, SequencesExt, Functions

NUM_INSTR_SOURCES == 4
NUM_INSTR_DESTINATIONS == 2

CS_REG_SP == 6
CS_REG_FLAGS == 25
CS_REG_PC == 26

(* The disassembler's operands.                                            *)
RegOp(r, how) == [ kind |-> "reg", reg |-> r, read |-> how # "w", write |-> how # "r" ]
MemOp(b, i) == [ kind |-> "mem", base |-> b, index |-> i ]
ImmOp == [ kind |-> "imm" ]
none == <<"none", 0>>

\* Mutant: a register that is there already takes another slot.
add_reg_dup(regs, cap, reg) ==
  IF reg = 0 \/ Len(regs) >= cap THEN regs ELSE Append(regs, reg)

add_reg(regs, cap, reg) ==
  IF reg = 0 \/ Len(regs) >= cap \/ reg \in Range(regs) THEN regs
  ELSE Append(regs, reg)

Decoded(is_branch, instr_type, d) ==
  [ ok |-> TRUE, is_branch |-> is_branch, instr_type |-> instr_type,
    src |-> d.src, dst |-> d.dst ]

src(d, reg) == [d EXCEPT !.src = add_reg(@, NUM_INSTR_SOURCES, reg)]
dst(d, reg) == [d EXCEPT !.dst = add_reg(@, NUM_INSTR_DESTINATIONS, reg)]

NoRegs == [ src |-> << >>, dst |-> << >> ]

NoDecode == [ ok |-> FALSE, is_branch |-> 0, instr_type |-> "INT",
              src |-> << >>, dst |-> << >> ]

---------------------------------------------------------------------------
(* x86.                                                                    *)

map_zydis_register(r) ==
  CASE r[1] = "gpr"   -> r[2] + 1   \* RAX = 1, RCX, RDX, RBX, RSP = 5, RBP = 6 ...
    [] r[1] = "flags" -> CS_REG_FLAGS
    [] r[1] = "ip"    -> CS_REG_PC
    [] r[1] = "vec"   -> 32 + r[2]
    [] r[1] = "st"    -> 64 + r[2]
    [] r[1] = "mm"    -> 72 + r[2]
    [] r[1] = "none"  -> 0
    [] OTHER          -> 80

(* ChampSim wants the stack pointer to be 6: RSP and RBP change places.    *)
fixup_champsim_reg(id) == CASE id = 5 -> 6 [] id = 6 -> 5 [] OTHER -> id

X86Reg(r) == fixup_champsim_reg(map_zydis_register(r))

classify_instr_type(c) ==
  IF c.ext = "x87" THEN "FP" ELSE IF c.ext = "simd" THEN "SIMD" ELSE "INT"

CountConditionals == {"jrcxz", "loop"}  \* they read RCX, and no flags

classify_branch(c) ==
  LET direct == c.ops # << >> /\ c.ops[1].kind = "imm"
  IN CASE c.mnem \in {"jcc", "loope"} \cup CountConditionals -> 3
       [] c.mnem = "jmp"  -> IF direct THEN 1 ELSE 2
       [] c.mnem = "call" -> IF direct THEN 4 ELSE 5
       [] c.mnem = "ret"  -> 6
       [] c.mnem = "xbegin" -> 7   \* any other mnemonic with a branch type
       [] OTHER -> 0

X86Operand(d, op) ==
  CASE op.kind = "reg" ->
         LET w == IF op.write THEN dst(d, X86Reg(op.reg)) ELSE d
         IN IF op.read THEN src(w, X86Reg(op.reg)) ELSE w
    [] op.kind = "mem" ->
         src(IF op.base[1] = "ip" THEN d ELSE src(d, X86Reg(op.base)),
             X86Reg(op.index))
    [] OTHER -> d

(* The slots behind each of the operands.                                  *)
after_operands(c) ==
  LET after[k \in 0 .. Len(c.ops)] ==
        IF k = 0 THEN NoRegs ELSE X86Operand(after[k - 1], c.ops[k])
  IN after

X86Operands(c) ==
  Decoded(classify_branch(c), classify_instr_type(c), after_operands(c)[Len(c.ops)])

(* What ChampSim expects of a branch, behind the operands.                 *)
ReadFlags(c, d) ==
  IF d.is_branch = 3 /\ c.mnem \notin CountConditionals THEN src(d, CS_REG_FLAGS) ELSE d
UseStack(d) ==
  IF d.is_branch \in {4, 5, 6} THEN dst(src(d, CS_REG_SP), CS_REG_SP) ELSE d
ReadPC(d) == IF d.is_branch \in {3, 4, 5} THEN src(d, CS_REG_PC) ELSE d
WritePC(d) == IF d.is_branch # 0 THEN dst(d, CS_REG_PC) ELSE d

decode_x86(c) ==
  IF c.mnem = "bad" THEN NoDecode
  ELSE WritePC(ReadPC(UseStack(ReadFlags(c, X86Operands(c)))))

---------------------------------------------------------------------------
(* AArch64: no stack pointer is involved in calls, and the destination     *)
(* slot of the PC is never given to another register.                      *)

map_arm64_register(r) ==
  CASE r[1] = "sp"   -> CS_REG_SP
    [] r[1] = "nzcv" -> CS_REG_FLAGS
    [] r[1] = "x"    -> 64 + r[2]   \* and its 32-bit view; 93 FP, 94 LR
    [] r[1] = "v"    -> 96 + r[2]   \* and its narrower views
    [] r[1] \in {"none", "zr"} -> 0
    [] OTHER         -> 200

LR == 94

is_bcond(c) == c.mnem = "b" /\ c.cond

classify_arm64_branch(c) ==
  CASE c.mnem = "br"  -> 2
    [] c.mnem = "bl"  -> 4
    [] c.mnem = "blr" -> 5
    [] c.mnem = "ret" -> 6
    [] c.mnem = "cbz" -> 3
    [] c.mnem = "b"   -> IF c.cond THEN 3 ELSE 1
    [] c.mnem = "svc" -> 7
    [] OTHER -> 0

A64Operand(c, d, op) ==
  CASE op.kind = "reg" ->
         LET w == IF op.write THEN dst(d, map_arm64_register(op.reg)) ELSE d
         IN IF op.read THEN src(w, map_arm64_register(op.reg)) ELSE w
    [] op.kind = "mem" ->
         LET a == src(src(d, map_arm64_register(op.base)), map_arm64_register(op.index))
         IN IF c.writeback THEN dst(a, map_arm64_register(op.base)) ELSE a
    [] OTHER -> d

(* The last destination makes room.                                        *)
KeepPC(regs) ==
  CASE CS_REG_PC \in Range(regs) -> regs
    [] Len(regs) < NUM_INSTR_DESTINATIONS -> Append(regs, CS_REG_PC)
    [] OTHER -> [regs EXCEPT ![NUM_INSTR_DESTINATIONS] = CS_REG_PC]

A64Operands(c) == FoldLeft(LAMBDA d, op : A64Operand(c, d, op), NoRegs, c.ops)

Implicit(c, d) ==
  Decoded(classify_arm64_branch(c), "INT",
          FoldLeft(LAMBDA e, r : dst(e, map_arm64_register(r)),
                   FoldLeft(LAMBDA e, r : src(e, map_arm64_register(r)), d, c.reads),
                   c.writes))

UseLR(d) ==
  CASE d.is_branch \in {4, 5} -> dst(d, LR)
    [] d.is_branch = 6 -> src(d, LR)
    [] OTHER -> d
ReadNZCV(c, d) == IF is_bcond(c) THEN src(d, CS_REG_FLAGS) ELSE d
Redirect(d) == IF d.is_branch # 0 THEN [d EXCEPT !.dst = KeepPC(@)] ELSE d
Typed(d) ==
  [d EXCEPT !.instr_type =
     IF (Range(d.src) \cup Range(d.dst)) \cap 96 .. 127 # {} THEN "SIMD" ELSE "INT"]

decode_aarch64(c) ==
  IF c.mnem = "bad" THEN NoDecode
  ELSE Typed(Redirect(ReadNZCV(c, UseLR(Implicit(c, A64Operands(c))))))

---------------------------------------------------------------------------
(* ChampSim without the explicit type: the cascade that guesses it from    *)
(* the registers of the record.                                            *)
Inferred(d) ==
  LET reads_sp == CS_REG_SP \in Range(d.src)
      reads_ip == CS_REG_PC \in Range(d.src)
      reads_flags == CS_REG_FLAGS \in Range(d.src)
      reads_other == Range(d.src) \ {CS_REG_SP, CS_REG_PC, CS_REG_FLAGS} # {}
      writes_sp == CS_REG_SP \in Range(d.dst)
  IN CASE CS_REG_PC \notin Range(d.dst) -> 0
       [] ~reads_sp /\ ~reads_flags /\ ~reads_other -> 1
       [] ~reads_sp /\ ~reads_ip /\ ~reads_flags /\ reads_other -> 2
       [] ~reads_sp /\ reads_ip /\ (reads_flags \/ reads_other) -> 3
       [] reads_sp /\ reads_ip /\ writes_sp /\ ~reads_other -> 4
       [] reads_sp /\ reads_ip /\ writes_sp /\ reads_other -> 5
       [] reads_sp /\ ~reads_ip /\ writes_sp -> 6
       [] OTHER -> 7
===========================================================================
