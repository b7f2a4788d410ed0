---------------------------- MODULE TraceCheck ----------------------------
(***************************************************************************)
(* The sanity check (src/tools/trace_sanity_check): one pass over a        *)
(* compressed ChampSim trace that counts, reconstructs the targets of      *)
(* indirect branches from the records behind them, and with --check        *)
(* decides by its exit status whether the trace is accepted.               *)
(***************************************************************************)
EXTENDS TraceFiles, FiniteSets, Functions

BT_DIRECT_JUMP == 0
BT_INDIRECT == 1
BT_CONDITIONAL == 2
BT_DIRECT_CALL == 3
BT_INDIRECT_CALL == 4
BT_RETURN == 5
BT_NOT_BRANCH == 7
BranchTypes == 0 .. 7

REG_FLAGS == 25

is_unconditional_transfer(bt) ==
  bt \in {BT_DIRECT_JUMP, BT_INDIRECT, BT_DIRECT_CALL, BT_INDIRECT_CALL, BT_RETURN}

VARIABLES
  chk,      \* "waiting", "read", "exited"
  chkargs,  \* [format, check, ind_targets]
  s,        \* Stats
  stream,   \* what finish() and partial_bytes() said: [status, partial]
  chk_exit  \* the exit status

svars == <<chk, chkargs, s, stream, chk_exit>>

(* parse_args: --indirect-targets is for v2 only, and v1 is the default.   *)
CheckArgs ==
  {a \in [ format : {"v1", "v2", "cloudsuite"}, check : BOOLEAN, ind_targets : BOOLEAN ] :
     a.ind_targets => a.format = "v2"}

NoStats_v2 ==
  [ records |-> 0, branch_inst |-> 0, kernel_inst |-> 0, mem_inst |-> 0,
    btype_hist  |-> [t \in BranchTypes |-> 0],
    btype_taken |-> [t \in BranchTypes |-> 0],
    explicit_bt_records |-> 0, call_ret_not_flagged |-> 0,
    flags_in_src |-> 0, flags_in_dst |-> 0,
    ind_targets |-> << >>, ind_exec |-> << >>, ind_pending |-> {}, ind_dangling |-> 0 ]

CheckInit ==
  /\ chk = "waiting" /\ s = NoStats_v2 /\ chk_exit = 0
  /\ chkargs = [ format |-> "v1", check |-> FALSE, ind_targets |-> FALSE ]
  /\ stream = [ status |-> 0, partial |-> FALSE ]

---------------------------------------------------------------------------
(* map[key] of a std::unordered_map, with its default.                     *)
At(f, key, default) == IF key \in DOMAIN f THEN f[key] ELSE default
Set(f, key, v) == [k \in DOMAIN f \cup {key} |-> IF k = key THEN v ELSE f[k]]

one(b) == IF b THEN 1 ELSE 0

update_common(st, r) ==
  [st EXCEPT !.records = @ + 1,
             !.branch_inst = @ + one(r.is_branch),
             !.mem_inst = @ + one(r.source_memory # << >> \/ r.destination_memory # << >>)]

\* Mutant: the new pending branch is armed before the old one is resolved.
indirect_armed_first(st, r) ==
  LET ind == r.branch_type \in {BT_INDIRECT, BT_INDIRECT_CALL}
      armed == IF ind THEN {r.ip} ELSE st.ind_pending
  IN [st EXCEPT
       !.ind_targets = IF armed = {} \/ ind THEN @
                       ELSE Set(@, CHOOSE p \in armed : TRUE,
                                At(@, CHOOSE p \in armed : TRUE, {}) \cup {r.ip}),
       !.ind_exec = IF ind THEN Set(@, r.ip, At(@, r.ip, 0) + 1) ELSE @,
       !.ind_pending = IF ind THEN {r.ip} ELSE {}]

(* The pending branch of the previous record gets this address as a target *)
(* before this record can become the pending one.                          *)
indirect(st, r) ==
  LET ind == r.branch_type \in {BT_INDIRECT, BT_INDIRECT_CALL}
  IN [st EXCEPT
       !.ind_targets = IF st.ind_pending = {} THEN @
                       ELSE LET p == CHOOSE x \in st.ind_pending : TRUE
                            IN Set(@, p, At(@, p, {}) \cup {r.ip}),
       !.ind_exec = IF ind THEN Set(@, r.ip, At(@, r.ip, 0) + 1) ELSE @,
       !.ind_pending = IF ind THEN {r.ip} ELSE {}]

update_v2(want, st, r) ==
  LET i == IF want THEN indirect(st, r) ELSE st
  IN [update_common(i, r) EXCEPT
       !.kernel_inst = @ + one(~r.user),
       !.btype_hist[r.branch_type] = @ + 1,
       !.btype_taken[r.branch_type] = @ + one(r.branch_taken),
       !.explicit_bt_records = @ + one("EXPLICIT_BRANCH_TYPE" \in r.features),
       !.call_ret_not_flagged = @ +
          one(r.branch_type \in {BT_DIRECT_CALL, BT_INDIRECT_CALL, BT_RETURN} /\ ~r.is_branch),
       !.flags_in_src = @ + one(REG_FLAGS \in Range(r.src)),
       !.flags_in_dst = @ + one(REG_FLAGS \in Range(r.dst))]

(* What has been counted after each record.                                *)
after_records(want) ==
  LET after[n \in 0 .. Len(champsim.recs)] ==
        IF n = 0 THEN NoStats_v2 ELSE update_v2(want, after[n - 1], champsim.recs[n])
  IN after

(* Behind the last record: a pending branch is counted, not resolved.      *)
run_v2(want) ==
  LET e == after_records(want)[Len(champsim.recs)]
  IN [e EXCEPT !.ind_dangling = one(e.ind_pending # {}), !.ind_pending = {}]

(* A v2 file read as 64-byte or 96-byte records: so many of them, of which *)
(* nothing else is modelled.                                               *)
run_other(size) == [NoStats_v2 EXCEPT !.records = (512 * Len(champsim.recs)) \div size]

\* Mutant: pclose()'s status is discarded.
StreamEnd_ignored(format) ==
  [ status |-> 0, partial |-> champsim.tail = "partial" ]

(* finish() and partial_bytes() after the read loop: the decompressor's    *)
(* exit status is what tells a broken stream from the end of the trace.    *)
StreamEnd(format) ==
  [ status  |-> one(champsim.tail # "end"),
    partial |-> \/ champsim.tail = "partial"
                \/ format = "cloudsuite" /\ (512 * Len(champsim.recs)) % 96 # 0 ]

ReadTrace ==
  /\ chk = "waiting" /\ chk' = "read"
  /\ chkargs' \in CheckArgs
  /\ s' = CASE chkargs'.format = "v2" -> run_v2(chkargs'.ind_targets)
            [] chkargs'.format = "v1" -> run_other(64)
            [] OTHER -> run_other(96)
  /\ stream' = StreamEnd(chkargs'.format)
  /\ UNCHANGED chk_exit

---------------------------------------------------------------------------
sum(f) == SumFunction([t \in {x \in BranchTypes : is_unconditional_transfer(x)} |-> f[t]])

(* The acceptance checks that fail, by the number the source gives them.   *)
run_checks ==
  {c \in 1 .. 6 :
     ~ CASE c = 1 -> s.records > 0 /\ s.explicit_bt_records = s.records
         [] c = 2 -> Cardinality({t \in BranchTypes : s.btype_hist[t] > 0}) >= 2
         [] c = 3 -> /\ s.btype_taken[BT_CONDITIONAL] > 0
                     /\ s.btype_taken[BT_CONDITIONAL] < s.btype_hist[BT_CONDITIONAL]
         [] c = 4 -> sum(s.btype_hist) > 0 /\ sum(s.btype_taken) = sum(s.btype_hist)
         [] c = 5 -> s.call_ret_not_flagged = 0
         [] c = 6 -> s.flags_in_src > 0 /\ s.flags_in_dst > 0}

ExitStatus ==
  /\ chk = "read" /\ chk' = "exited"
  /\ chk_exit' = IF s.records = 0 \/ stream.status # 0 \/ stream.partial THEN 1
                 ELSE IF chkargs.check /\ (chkargs.format # "v2" \/ run_checks # {}) THEN 2
                 ELSE 0
  /\ UNCHANGED <<chkargs, s, stream>>

CheckNext ==
  /\ ReadTrace \/ ExitStatus
  /\ UNCHANGED files

(* The report on indirect branches leaves out an address none of whose     *)
(* executions had a record behind it.                                      *)
report_indirect_targets ==
  LET pcs == {p \in DOMAIN s.ind_exec : At(s.ind_targets, p, {}) # {}}
      mono == {p \in pcs : Cardinality(s.ind_targets[p]) = 1}
  IN [ total_pcs  |-> Cardinality(pcs), total_exec |-> SumFunctionOnSet(s.ind_exec, pcs),
       mono_pcs   |-> Cardinality(mono), mono_exec |-> SumFunctionOnSet(s.ind_exec, mono) ]

---------------------------------------------------------------------------
(* A trace that is certified is whole: its frame was finished, nothing     *)
(* trails its last record, and what was counted is all of it.              *)
CertifiedIsWhole ==
  chk = "exited" /\ chk_exit = 0 =>
    /\ champsim.tail = "end" /\ champsim.recs # << >>
    /\ chkargs.format = "v2" => s.records = Len(champsim.recs)
    /\ chkargs.check => chkargs.format = "v2"

(* The indirect-target report misses no execution, also of indirect        *)
(* branches that follow each other, and invents no target: the targets of  *)
(* an address are those of the records behind it, the last one excepted.   *)
(* What the report calls polymorphic is executed more than once.           *)
IndirectTargetsTrue ==
  chk # "waiting" /\ chkargs.ind_targets =>
    LET n == Len(champsim.recs)
        Ind == {i \in 1 .. n : champsim.recs[i].branch_type \in {1, 4}}
    IN /\ FoldFunction(+, 0, s.ind_exec) = Cardinality(Ind)
       /\ \A i \in Ind : champsim.recs[i].ip \in DOMAIN s.ind_exec
       /\ DOMAIN s.ind_targets \subseteq DOMAIN s.ind_exec
       /\ \A p \in DOMAIN s.ind_exec :
            At(s.ind_targets, p, {}) = {champsim.recs[i + 1].ip : i \in
                                          {j \in Ind \ {n} : champsim.recs[j].ip = p}}
       /\ s.ind_dangling = Cardinality(Ind \cap {n})
       /\ LET r == report_indirect_targets
          IN /\ r.total_exec \in {Cardinality(Ind), Cardinality(Ind) - s.ind_dangling}
             /\ r.total_exec - r.mono_exec >= 2 * (r.total_pcs - r.mono_pcs)
===========================================================================
