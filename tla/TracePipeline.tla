--------------------------- MODULE TracePipeline ---------------------------
(***************************************************************************)
(* From a running guest to an accepted trace: a capture of one vCPU that   *)
(* may break off anywhere, the idle filter (or not), the converter, and    *)
(* then the cutter or the sanity check on what it left.                    *)
(*                                                                         *)
(* The guest is external: a CPU that executes Program, a function from     *)
(* addresses to instructions, and takes interrupts between any two.        *)
(***************************************************************************)
EXTENDS TraceFilter, Raw2Champsim, TraceCutter, TraceCheck

CONSTANTS
  Formats,  \* of the captured raw trace
  Program,  \* [Formats -> [addresses -> instructions]]
  Handler,  \* where an interrupt goes
  IdleLoop, \* the addresses of the guest's idle loop
  MaxLen,   \* bound: instructions captured,
  MaxIdle   \* and of a capture that never left the idle loop

VARIABLES
  cpu,      \* [pc, irq: << >> or <<the interrupted address>>]
  stage     \* "capture", "filter", "convert", "cut", "check"

pvars == <<files, fvars, cvars, tvars, svars, cpu, stage>>

(* An instruction that retires and goes to `to', as the recorder has it,   *)
(* with what really happened: took and to.                                 *)
Retire(f, a, to) ==
  LET i == Program[f][a]
  IN [ ip |-> a, size |-> i.size, user |-> i.user, hlt |-> i.hlt,
       code |-> i.code, mem |-> i.mem, branch |-> i.branch, to |-> to,
       took |-> i.branch \notin {3, 7} \/ to # a + i.size ]

Retired(f) == {Retire(f, a, to) : a \in DOMAIN Program[f], to \in DOMAIN Program[f]}

(* Instructions are the branches that their mnemonics say they are.        *)
ASSUME ProgramAssumption ==
  /\ Formats \subseteq RawFormat
  /\ \A f \in Formats :
       /\ Handler \in DOMAIN Program[f]
       /\ Retired(f) \subseteq Insns
       /\ \A a \in DOMAIN Program[f] :
            LET i == Program[f][a]
            IN /\ i.next \subseteq DOMAIN Program[f]
               /\ i.branch = IF i.code.mnem = "bad" THEN 0
                             ELSE IF f = "aarch64" THEN classify_arm64_branch(i.code)
                             ELSE classify_branch(i.code)

CS_REG_RCX == 2

(* The registers that an operand reads and writes; an address through RIP  *)
(* is a constant.                                                          *)
OpReads(op) ==
  (CASE op.kind = "reg" /\ op.read -> {X86Reg(op.reg)}
     [] op.kind = "mem" -> {X86Reg(op.index)}
                             \cup (IF op.base[1] = "ip" THEN {} ELSE {X86Reg(op.base)})
     [] OTHER -> {}) \ {0}
OpWrites(op) ==
  IF op.kind = "reg" /\ op.write THEN {X86Reg(op.reg)} \ {0} ELSE {}

(* What the disassembler lists of a branch whose type ChampSim can guess:  *)
(* RIP; the stack pointer of a call or a return; RCX and the flags, as far *)
(* as a conditional uses them; and one or two registers that the target of *)
(* an indirect branch is in or is read through, RIP and RSP not among them. *)
ListedOperands(c) ==
  LET k == classify_branch(c)
      reads == UNION {OpReads(op) : op \in Range(c.ops)}
      writes == UNION {OpWrites(op) : op \in Range(c.ops)}
      target == reads \ {CS_REG_SP, CS_REG_PC, CS_REG_FLAGS}
  IN /\ c.ops \in Seq(Range(c.ops))
     /\ writes \subseteq {CS_REG_PC}
          \cup (CASE k = 3 -> {CS_REG_RCX} [] k \in {4, 5, 6} -> {CS_REG_SP} [] OTHER -> {})
     /\ k = 1 => reads \subseteq {CS_REG_PC}
     /\ k = 2 => \E a, b \in target : reads = {a, b}
     /\ k = 3 => /\ reads \subseteq {CS_REG_PC, CS_REG_FLAGS, CS_REG_RCX}
                 /\ c.mnem \in CountConditionals => CS_REG_RCX \in reads
     /\ k = 4 => reads \subseteq {CS_REG_SP, CS_REG_PC}
     /\ k = 5 => \E a, b \in target : reads \subseteq {a, b, CS_REG_SP, CS_REG_PC}
     /\ k = 6 => reads \subseteq {CS_REG_SP}

ASSUME OperandsAssumption ==
  "x86_64" \in Formats =>
    \A a \in DOMAIN Program["x86_64"] :
      LET c == Program["x86_64"][a].code
      IN c.mnem # "bad" /\ classify_branch(c) \in 1 .. 6 => ListedOperands(c)

NoCpu == [ pc |-> Handler, irq |-> << >>, halted |-> TRUE ]
Deleted == [ format |-> "unknown", recs |-> << >>, tail |-> "end" ]

PipelineInit ==
  /\ \E f \in Formats :
       /\ raw = [ format |-> f, recs |-> << >>, tail |-> "end" ]
       /\ \E a \in DOMAIN Program[f] :
            cpu = [ pc |-> a, irq |-> << >>, halted |-> FALSE ]
  /\ input = raw /\ champsim = NoTrace
  /\ FilterInit /\ ConvertInit /\ CutInit /\ CheckInit
  /\ stage = "capture"

(* The instruction at pc retires and goes to one of its successors, the    *)
(* one behind an interrupt handler to where it was interrupted.            *)
Execute ==
  /\ stage = "capture" /\ ~cpu.halted
  /\ \/ Len(raw.recs) < MaxLen
     \/ /\ Len(raw.recs) < MaxIdle
        /\ \A i \in DOMAIN raw.recs : raw.recs[i].ip \in IdleLoop
  /\ LET i == Program[raw.format][cpu.pc]
     IN \E to \in (IF i.next = {} THEN Range(cpu.irq) ELSE i.next) :
          /\ cpu' = [ pc |-> to, halted |-> i.hlt,
                      irq |-> IF i.next = {} THEN << >> ELSE cpu.irq ]
          /\ raw' = [raw EXCEPT !.recs = Append(@, Retire(raw.format, cpu.pc, to))]
  /\ UNCHANGED <<input, champsim, fvars, cvars, tvars, svars, stage>>

Interrupt ==
  /\ stage = "capture" /\ cpu.irq = << >> /\ Len(raw.recs) > 0
  /\ cpu' = [ pc |-> Handler, irq |-> <<cpu.pc>>, halted |-> FALSE ]
  /\ UNCHANGED <<files, fvars, cvars, tvars, svars, stage>>

(* The recorder stops, is killed, or its file is damaged.                  *)
StopCapture ==
  /\ stage = "capture"
  /\ \E t \in RawTail : raw' = [raw EXCEPT !.tail = t]
  /\ input' = raw'
  /\ cpu' = NoCpu
  /\ stage' \in {"filter", "convert"}
  /\ UNCHANGED <<champsim, fvars, cvars, tvars, svars>>

RunFilter ==
  /\ stage = "filter" /\ FilterNext
  /\ UNCHANGED <<cvars, tvars, svars, cpu, stage>>

(* The raw trace of the capture is deleted, the filter over.               *)
DropRaw ==
  /\ raw' = Deleted
  /\ filter' = "waiting" /\ state' = "ACTIVE" /\ pos' = 0
  /\ idle' = EmptyBuffer /\ out' = << >> /\ stats' = NoStats

UseFiltered ==
  /\ stage = "filter" /\ filter = "done"
  /\ input' \in Filtered /\ stage' = "convert"
  /\ DropRaw
  /\ UNCHANGED <<champsim, cvars, tvars, svars, cpu>>

RunConverter ==
  /\ stage = "convert" /\ ConvertNext
  /\ UNCHANGED <<fvars, tvars, svars, cpu, stage>>

(* What goes on is the ChampSim trace; the raw traces are deleted.         *)
KeepTrace ==
  /\ stage = "convert" /\ conv = "exited" /\ input.format # "unknown"
  /\ DropRaw /\ input' = Deleted
  /\ conv' = "waiting" /\ max_insns' = 0 /\ prev_record' = << >> /\ exit_status' = 0
  /\ UNCHANGED <<champsim, tvars, svars, cpu>>

(* The report of the converter is compared with that of the check.         *)
CheckIt == KeepTrace /\ stage' = "check" /\ UNCHANGED cstats

CutIt == KeepTrace /\ stage' = "cut" /\ cstats' = NoCStats

RunCutter ==
  /\ stage = "cut" /\ CutNext
  /\ UNCHANGED <<fvars, cvars, svars, cpu, stage>>

RunCheck ==
  /\ stage = "check" /\ CheckNext
  /\ UNCHANGED <<fvars, cvars, tvars, cpu, stage>>

(* Where the pipeline ends: a tool that could not go on, or the last one.  *)
End ==
  /\ \/ filter = "failed"
     \/ stage = "convert" /\ conv = "exited" /\ input.format = "unknown"
     \/ cut \in {"done", "failed"}
     \/ chk = "exited"
  /\ UNCHANGED pvars

PipelineNext ==
  \/ Execute \/ Interrupt \/ StopCapture
  \/ RunFilter \/ UseFiltered \/ RunConverter \/ CheckIt \/ CutIt
  \/ RunCutter \/ RunCheck \/ End

PipelineSpec == PipelineInit /\ [][PipelineNext]_pvars

---------------------------------------------------------------------------
(* A finished trace of the converter passes every check that does not ask  *)
(* for variety, whatever interrupts and `jmp .+0` it contains, and the     *)
(* report of the sanity check agrees with that of the converter.           *)
ConvertedPasses ==
  chk # "waiting" /\ champsim.tail = "end" /\ chkargs.format = "v2" =>
    LET lost == cstats.total_insns - Len(champsim.recs)
    IN /\ champsim.recs # << >> => run_checks \cap {1, 5} = {}
       /\ sum(s.btype_taken) = sum(s.btype_hist)
       /\ lost = 0 =>
            /\ s.kernel_inst = cstats.kernel_insns
            /\ s.branch_inst = cstats.branch_insns
            /\ s.branch_inst = s.records - s.btype_hist[BT_NOT_BRANCH]
            /\ s.mem_inst = cstats.mem_insns
===========================================================================
