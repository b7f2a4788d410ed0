--------------------------- MODULE Raw2Champsim ---------------------------
(***************************************************************************)
(* The converter (src/tracer/rpoint-cs/converter/raw2champsim.c): raw      *)
(* records in, ChampSim records out, each one written when the record      *)
(* after it has been read, because that is what tells a taken branch.      *)
(***************************************************************************)
EXTENDS TraceFiles, Decode, FiniteSets

CONSTANTS
  WriterRecs,  \* records the writer's buffer holds (16384 in the code)
  CountArgs    \* values of -n COUNT; 0 is no limit

ASSUME WriterRecsAssumption == WriterRecs \in Nat \ {0}

ASSUME MemOpsAssumption ==
  \A r \in Insns :
    r.mem \in Seq([ is_write : BOOLEAN, addr : Int, pa : {"ram", "io", "none"} ])

ASSUME CountArgsAssumption == CountArgs \subseteq Nat

VARIABLES
  conv,         \* "waiting", "loop", "final", "done", "exited"
  max_insns,    \* -n
  cstats,       \* ConvertStats
  prev_record,  \* << >> or <<the record not yet written>> (has_prev)
  exit_status

cvars == <<conv, max_insns, cstats, prev_record, exit_status>>

NoCStats == [ total_insns |-> 0, kernel_insns |-> 0, branch_insns |-> 0,
              mem_insns |-> 0, decode_failures |-> 0, mem_overflow |-> 0 ]

ConvertInit ==
  /\ conv = "waiting" /\ max_insns = 0 /\ cstats = NoCStats
  /\ prev_record = << >> /\ exit_status = 0

(* It ends at once for an unknown arch, or when a file does not open.      *)
OpenInput ==
  /\ conv = "waiting"
  /\ \/ /\ input.format \in {"x86_64", "aarch64"}
        /\ conv' = "loop" /\ max_insns' \in CountArgs /\ UNCHANGED exit_status
     \/ conv' = "exited" /\ exit_status' = 1 /\ UNCHANGED max_insns
  /\ UNCHANGED <<cstats, prev_record, files>>

---------------------------------------------------------------------------
CS_BRANCH_NOT_BRANCH == 7

BRANCH_DIRECTION_IS_KNOWN_TAKEN(bt) == bt \in {0, 1, 3, 4, 5}

\* Mutant: the geometry decides for every type.
Direction_geometric(p, ip) ==
  IF p.is_branch THEN [p EXCEPT !.branch_taken = ip # p.ip + p.size] ELSE p

Direction(p, ip) ==
  IF p.is_branch
  THEN [p EXCEPT !.branch_taken =
          BRANCH_DIRECTION_IS_KNOWN_TAKEN(p.branch_type) \/ ip # p.ip + p.size]
  ELSE p

decode(c) == IF input.format = "aarch64" THEN decode_aarch64(c) ELSE decode_x86(c)

(* A physical address that is not valid, or is a device's, stays 0.        *)
Slot(m) == [ addr |-> m.addr, pa |-> m.pa = "ram" ]

(* The next memory operand gets a slot, or is counted when there is none.  *)
place(o, m) ==
  LET room == IF m.is_write THEN Len(o.destination) < NUM_INSTR_DESTINATIONS
              ELSE Len(o.source) < NUM_INSTR_SOURCES
  IN [ source      |-> IF room /\ ~m.is_write THEN Append(o.source, Slot(m)) ELSE o.source,
       destination |-> IF room /\ m.is_write THEN Append(o.destination, Slot(m))
                       ELSE o.destination,
       overflow    |-> IF room THEN o.overflow ELSE o.overflow + 1 ]

(* The slots behind each of the memory operands.                           *)
placed(ops) ==
  LET after[k \in 0 .. Len(ops)] ==
        IF k = 0 THEN [ source |-> << >>, destination |-> << >>, overflow |-> 0 ]
        ELSE place(after[k - 1], ops[k])
  IN after

Slots(ops) == placed(ops)[Len(ops)]

Record(r, d) ==
  [ ip |-> r.ip, size |-> r.size, user |-> r.user,
    is_branch |-> d.is_branch # 0, branch_taken |-> FALSE,
    branch_type |-> IF d.is_branch # 0 THEN d.is_branch - 1 ELSE CS_BRANCH_NOT_BRANCH,
    features |-> {"EXPLICIT_BRANCH_TYPE", "FLAGS_REGISTER"},
    instr_type |-> d.instr_type, src |-> d.src, dst |-> d.dst,
    source_memory |-> Slots(r.mem).source, destination_memory |-> Slots(r.mem).destination ]

Counted(r, d, record) ==
  LET one(b) == IF b THEN 1 ELSE 0
      slots == Len(record.source_memory) + Len(record.destination_memory)
  IN [ total_insns     |-> cstats.total_insns + 1,
       kernel_insns    |-> cstats.kernel_insns + one(~r.user),
       branch_insns    |-> cstats.branch_insns + one(d.is_branch # 0),
       mem_insns       |-> cstats.mem_insns + one(slots > 0),
       decode_failures |-> cstats.decode_failures + one(~d.ok),
       mem_overflow    |-> cstats.mem_overflow + Slots(r.mem).overflow ]

(* A flush that fails leaves a stream with a hole: what can still be read  *)
(* of the output is some first part of it.                                 *)
Torn == \E n \in 0 .. Len(champsim.recs) :
          champsim' = [ recs |-> SubSeq(champsim.recs, 1, n), tail |-> "corrupt" ]

MayFlush == Len(champsim.recs) > 0 /\ Len(champsim.recs) % WriterRecs = 0

writer_write(p) == champsim' = [champsim EXCEPT !.recs = Append(@, p)]

---------------------------------------------------------------------------
AtLimit == max_insns > 0 /\ cstats.total_insns >= max_insns
AtTail == ~AtLimit /\ cstats.total_insns = Len(input.recs)

ConvertRecord ==
  /\ conv = "loop" /\ ~AtLimit /\ ~AtTail
  /\ LET r == input.recs[cstats.total_insns + 1]
         d == decode(r.code)
     IN /\ IF prev_record = << >> THEN UNCHANGED champsim
           ELSE writer_write(Direction(prev_record[1], r.ip))
        /\ prev_record' = <<Record(r, d)>>
        /\ cstats' = Counted(r, d, Record(r, d))
  /\ UNCHANGED <<conv, max_insns, exit_status, raw, input>>

WriteFails ==
  /\ conv = "loop" /\ ~AtLimit /\ ~AtTail
  /\ prev_record # << >> /\ MayFlush
  /\ Torn
  /\ conv' = "done" /\ exit_status' = 1
  /\ UNCHANGED <<max_insns, cstats, prev_record, raw, input>>

(* A stream that stops in the four header bytes ends the loop silently.    *)
EndOfTrace ==
  /\ conv = "loop"
  /\ AtLimit \/ (AtTail /\ input.tail \in {"end", "cut", "header"})
  /\ conv' = "final"
  /\ UNCHANGED <<max_insns, cstats, prev_record, exit_status, files>>

BadRecord ==
  /\ conv = "loop" /\ AtTail /\ input.tail \in {"bytes", "garbled"}
  /\ conv' = "final" /\ exit_status' = 1
  /\ UNCHANGED <<max_insns, cstats, prev_record, files>>

\* Mutant: the exit status is not set.
BadMemOp_silent ==
  /\ conv = "loop" /\ AtTail /\ input.tail \in {"memop", "value"}
  /\ conv' = "done"
  /\ UNCHANGED <<max_insns, cstats, prev_record, exit_status, files>>

(* goto done: the record before the broken one is not written either.      *)
BadMemOp ==
  /\ conv = "loop" /\ AtTail /\ input.tail \in {"memop", "value"}
  /\ conv' = "done" /\ exit_status' = 1
  /\ UNCHANGED <<max_insns, cstats, prev_record, files>>

DropFinal ==
  /\ prev_record # << >> /\ prev_record[1].is_branch
  /\ ~BRANCH_DIRECTION_IS_KNOWN_TAKEN(prev_record[1].branch_type)

\* Mutant: the old code, with the direction of the final record left at 0.
FinalRecord_kept ==
  /\ conv = "final" /\ conv' = "done"
  /\ IF prev_record = << >> THEN UNCHANGED champsim ELSE writer_write(prev_record[1])
  /\ UNCHANGED <<max_insns, cstats, prev_record, exit_status, raw, input>>

(* A failure to write it, like one to finish the frame, is reported but    *)
(* leaves the exit status alone.                                           *)
FinalRecord ==
  /\ conv = "final" /\ conv' = "done"
  /\ \/ /\ prev_record = << >> \/ DropFinal
        /\ UNCHANGED champsim
     \/ /\ prev_record # << >> /\ ~DropFinal
        /\ \/ writer_write([prev_record[1] EXCEPT !.branch_taken = @ \/ prev_record[1].is_branch])
           \/ MayFlush /\ Torn
  /\ UNCHANGED <<max_insns, cstats, prev_record, exit_status, raw, input>>

Finalize ==
  /\ conv = "done" /\ conv' = "exited"
  /\ \/ champsim.tail = "cut" /\ champsim' = [champsim EXCEPT !.tail = "end"]
     \/ champsim.tail = "cut" /\ Torn
     \/ champsim.tail = "corrupt" /\ UNCHANGED champsim
  /\ UNCHANGED <<max_insns, cstats, prev_record, exit_status, raw, input>>

ConvertNext ==
  \/ OpenInput \/ ConvertRecord \/ WriteFails
  \/ EndOfTrace \/ BadRecord \/ BadMemOp \/ FinalRecord \/ Finalize

---------------------------------------------------------------------------
Successor(i) == i < Len(input.recs) /\ input.recs[i + 1].ip = input.recs[i].to

(* w is the record of raw record i, with the direction the branch really   *)
(* took unless something else was put behind a conditional.                *)
RightRecord(w, i) ==
  LET r == input.recs[i]
  IN /\ w.ip = r.ip
     /\ w.is_branch = (r.branch # 0)
     /\ w.is_branch =>
          /\ w.branch_type = r.branch - 1
          /\ w.branch_taken # r.took =>
               w.branch_type \in {2, 6} /\ i < Len(input.recs) /\ ~Successor(i)

(* Every record of the ChampSim trace is that of the raw record in its     *)
(* place, with the direction the branch really took -- deduced one record  *)
(* late, for `jmp .+0` against the geometry -- unless an interrupt or a    *)
(* filtered idle loop put another instruction behind a conditional.  The   *)
(* last record of a file has no successor: an unconditional transfer is    *)
(* written taken and a conditional is dropped (LossAccounted), as the      *)
(* converter's README.md:93-100 says.  plugin/README.md:248-254 says that  *)
(* it is written with branch_taken=0, which this property refutes.         *)
DirectionsTrue ==
  conv = "exited" =>
    \A i \in DOMAIN champsim.recs : i <= Len(input.recs) /\ RightRecord(champsim.recs[i], i)

(* How many records the converter was asked for.                           *)
Wanted ==
  IF max_insns > 0 /\ max_insns < Len(input.recs) THEN max_insns ELSE Len(input.recs)

RecordsAccounted ==
  LET n == cstats.total_insns
      lost == n - Len(champsim.recs)
  IN /\ n = Wanted
     /\ lost \in {0, 1}
     /\ lost = 1 => \/ input.recs[n].branch \in {3, 7}
                    \/ exit_status = 1 /\ input.tail \in {"memop", "value"}
     /\ exit_status = 1 => input.tail \notin {"end", "cut", "header"}

Beyond(n, cap) == IF n > cap THEN n - cap ELSE 0

(* The memory operands of r beyond its two writes and four reads ...       *)
Slotless(r) ==
  LET w == Cardinality({k \in 1 .. Len(r.mem) : r.mem[k].is_write})
  IN Beyond(w, NUM_INSTR_DESTINATIONS) + Beyond(Len(r.mem) - w, NUM_INSTR_SOURCES)

(* ... and those of the first n records.                                   *)
SlotlessIn(recs) ==
  LET sum[n \in 0 .. Len(recs)] == IF n = 0 THEN 0 ELSE sum[n - 1] + Slotless(recs[n])
  IN sum

(* What is missing from a finished trace is accounted for: nothing before  *)
(* the end, at the end only a conditional branch whose direction nobody    *)
(* knows, or the record before one with a broken memory operand, and then  *)
(* the exit status says so.  Memory operands without a slot are counted.   *)
LossAccounted ==
  conv = "exited" /\ champsim.tail = "end" =>
    /\ RecordsAccounted
    /\ cstats.mem_overflow = SlotlessIn(input.recs)[cstats.total_insns]

(* If the feature bit were lost, ChampSim's guess from the registers would *)
(* give the type that is stated, for every x86 branch whose target is not  *)
(* read through RIP or RSP: repeated registers do not push FLAGS, SP or IP *)
(* out of their slots.                                                     *)
FallbackAgrees ==
  input.format = "x86_64" =>
    \A i \in DOMAIN champsim.recs :
      LET w == champsim.recs[i]
      IN w.branch_type < 6 => Inferred(w) = w.branch_type + 1
===========================================================================
