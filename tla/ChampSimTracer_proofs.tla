---------------------- MODULE ChampSimTracer_proofs ----------------------
(***************************************************************************)
(* Theorems about ChampSimTracer. TypeCorrect: every reachable state is    *)
(* well-typed. ManifestIsSound: while the disk has room, a manifest row    *)
(* never promises what its chunk file does not hold. It rests on the       *)
(* inductive invariant RecorderInv: the records in the open file, in the   *)
(* buffer and pending add up to chunk_insn_count, rows are sound, and a    *)
(* vCPU that captures has its file open. MemOpsAreOwn: an operand belongs  *)
(* to its instruction (OpsInv). The chunk files and the manifest are those *)
(* of the execution: ChunksAreContiguous, RowsAreUnique, ManifestIsComplete*)
(* and ClosedChunksStay, all from BookInv, the books of a recorder that    *)
(* goes on. TracerImplementsSchedule: every step of the recorder maps to a *)
(* step of SliceSchedule or leaves it alone; it rests on PlanInv, which    *)
(* says where in the schedule a vCPU is between two callbacks. Helpers on  *)
(* vCPU states come first, each with a lemma for its type and one for each *)
(* invariant.                                                              *)
(***************************************************************************)
EXTENDS ChampSimTracerProps, SequenceTheorems, FiniteSetTheorems, TLAPS

(* Replacing one element of a sequence keeps its length and its other      *)
(* elements; an index outside its domain changes nothing.                  *)
LEMMA SeqUpdate ==
  ASSUME NEW S, NEW f \in Seq(S), NEW i, NEW e, i \in DOMAIN f => e \in S
  PROVE  /\ [f EXCEPT ![i] = e] \in Seq(S)
         /\ Len([f EXCEPT ![i] = e]) = Len(f)
         /\ \A j \in 1 .. Len(f) : [f EXCEPT ![i] = e][j] = IF j = i THEN e ELSE f[j]
<1>1. CASE i \in DOMAIN f
  BY <1>1, ExceptSeq, LenProperties
<1>2. CASE i \notin DOMAIN f
  <2>1. [f EXCEPT ![i] = e] = f
    BY <1>2, LenProperties
  <2> QED BY <1>2, <2>1, LenProperties
<1> QED BY <1>1, <1>2

(* Updating one field of a vCPU state with a value of its type.            *)
LEMMA SetFlag ==
  ASSUME NEW s \in VcpuState, NEW x \in BOOLEAN
  PROVE  /\ [s EXCEPT !.open = x] \in VcpuState
         /\ [s EXCEPT !.has_pending = x] \in VcpuState
         /\ [s EXCEPT !.limit_reached = x] \in VcpuState
         /\ [s EXCEPT !.sample_skipping = x] \in VcpuState
         /\ [s EXCEPT !.sample_finished = x] \in VcpuState
<1>1. [s EXCEPT !.open = x] \in VcpuState  BY DEF VcpuState
<1>2. [s EXCEPT !.has_pending = x] \in VcpuState  BY DEF VcpuState
<1>3. [s EXCEPT !.limit_reached = x] \in VcpuState  BY DEF VcpuState
<1>4. [s EXCEPT !.sample_skipping = x] \in VcpuState  BY DEF VcpuState
<1>5. [s EXCEPT !.sample_finished = x] \in VcpuState  BY DEF VcpuState
<1> QED BY <1>1, <1>2, <1>3, <1>4, <1>5

(* The buffer holds records.                                               *)
LEMMA SetInbuf ==
  ASSUME NEW s \in VcpuState, NEW x \in Seq(Record)
  PROVE  [s EXCEPT !.inbuf = x] \in VcpuState
BY DEF VcpuState

(* The pending instruction is a record.                                    *)
LEMMA SetPending ==
  ASSUME NEW s \in VcpuState, NEW x \in Record
  PROVE  [s EXCEPT !.pending = x] \in VcpuState
BY DEF VcpuState

(* The counters are naturals.                                              *)
LEMMA SetCounter ==
  ASSUME NEW s \in VcpuState, NEW x \in Nat
  PROVE  /\ [s EXCEPT !.insn_count = x] \in VcpuState
         /\ [s EXCEPT !.chunk_insn_count = x] \in VcpuState
         /\ [s EXCEPT !.chunk_index = x] \in VcpuState
         /\ [s EXCEPT !.chunk_start_insn = x] \in VcpuState
         /\ [s EXCEPT !.stream_insns = x] \in VcpuState
         /\ [s EXCEPT !.sample_phase_insns = x] \in VcpuState
         /\ [s EXCEPT !.sample_windows_done = x] \in VcpuState
<1>1. [s EXCEPT !.insn_count = x] \in VcpuState  BY DEF VcpuState
<1>2. [s EXCEPT !.chunk_insn_count = x] \in VcpuState  BY DEF VcpuState
<1>3. [s EXCEPT !.chunk_index = x] \in VcpuState  BY DEF VcpuState
<1>4. [s EXCEPT !.chunk_start_insn = x] \in VcpuState  BY DEF VcpuState
<1>5. [s EXCEPT !.stream_insns = x] \in VcpuState  BY DEF VcpuState
<1>6. [s EXCEPT !.sample_phase_insns = x] \in VcpuState  BY DEF VcpuState
<1>7. [s EXCEPT !.sample_windows_done = x] \in VcpuState  BY DEF VcpuState
<1> QED BY <1>1, <1>2, <1>3, <1>4, <1>5, <1>6, <1>7

(* The chunk files of a vCPU form a sequence indexed by chunk number.      *)
LEMMA SetFiles ==
  ASSUME NEW s \in VcpuState, NEW x \in Seq(Chunk)
  PROVE  [s EXCEPT !.files = x] \in VcpuState
BY DEF VcpuState

(* The manifest is a sequence of rows.                                     *)
LEMMA SetManifest ==
  ASSUME NEW s \in VcpuState, NEW x \in Seq(Row)
  PROVE  [s EXCEPT !.manifest = x] \in VcpuState
BY DEF VcpuState

(* Reading a field.                                                        *)
LEMMA FieldTypes ==
  ASSUME NEW s \in VcpuState
  PROVE  /\ s.open \in BOOLEAN
         /\ s.inbuf \in Seq(Record)
         /\ s.has_pending \in BOOLEAN
         /\ s.pending \in Record
         /\ s.insn_count \in Nat
         /\ s.chunk_insn_count \in Nat
         /\ s.chunk_index \in Nat
         /\ s.chunk_start_insn \in Nat
         /\ s.stream_insns \in Nat
         /\ s.limit_reached \in BOOLEAN
         /\ s.sample_skipping \in BOOLEAN
         /\ s.sample_phase_insns \in Nat
         /\ s.sample_windows_done \in Nat
         /\ s.sample_finished \in BOOLEAN
         /\ s.files \in Seq(Chunk)
         /\ s.manifest \in Seq(Row)
<1>1. s.open \in BOOLEAN  BY DEF VcpuState
<1>2. s.inbuf \in Seq(Record)  BY DEF VcpuState
<1>3. s.has_pending \in BOOLEAN  BY DEF VcpuState
<1>4. s.pending \in Record  BY DEF VcpuState
<1>5. s.insn_count \in Nat  BY DEF VcpuState
<1>6. s.chunk_insn_count \in Nat  BY DEF VcpuState
<1>7. s.chunk_index \in Nat  BY DEF VcpuState
<1>8. s.chunk_start_insn \in Nat  BY DEF VcpuState
<1>9. s.stream_insns \in Nat  BY DEF VcpuState
<1>10. s.limit_reached \in BOOLEAN  BY DEF VcpuState
<1>11. s.sample_skipping \in BOOLEAN  BY DEF VcpuState
<1>12. s.sample_phase_insns \in Nat  BY DEF VcpuState
<1>13. s.sample_windows_done \in Nat  BY DEF VcpuState
<1>14. s.sample_finished \in BOOLEAN  BY DEF VcpuState
<1>15. s.files \in Seq(Chunk)  BY DEF VcpuState
<1>16. s.manifest \in Seq(Row)  BY DEF VcpuState
<1> QED BY <1>1, <1>2, <1>3, <1>4, <1>5, <1>6, <1>7, <1>8, <1>9, <1>10, <1>11, <1>12, <1>13, <1>14, <1>15, <1>16

(* flush_buffer keeps the type, whether the disk takes the records or not. *)
LEMMA FlushType ==
  ASSUME NEW s \in VcpuState PROVE flush_buffer(s) \in VcpuState
<1>1. CASE ~s.open
  BY <1>1 DEF flush_buffer
<1>2. CASE s.open
  <2> DEFINE i == s.chunk_index + 1
             r == IF disk_full THEN s.files[i].recs ELSE s.files[i].recs \o s.inbuf
             e == [s.files[i] EXCEPT !.recs = r]
             fs == [s.files EXCEPT ![i] = e]
  <2>1. fs \in Seq(Chunk)
    <3>1. ASSUME i \in DOMAIN s.files PROVE e \in Chunk
      <4>1. s.files[i] \in Chunk /\ s.inbuf \in Seq(Record)
        BY <3>1, LenProperties DEF VcpuState
      <4>2. r \in Seq(Record)
        BY <4>1 DEF Chunk
      <4> HIDE DEF r
      <4> QED BY <4>1, <4>2 DEF Chunk
    <3> HIDE DEF e
    <3>2. s.files \in Seq(Chunk)
      BY DEF VcpuState
    <3> QED BY <3>1, <3>2, SeqUpdate
  <2>2. flush_buffer(s) = [s EXCEPT !.files = fs, !.inbuf = << >>]
    BY <1>2 DEF flush_buffer
  <2> HIDE DEF fs
  <2>3. << >> \in Seq(Record)
    OBVIOUS
  <2> QED BY <2>1, <2>2, <2>3 DEF VcpuState
<1> QED BY <1>1, <1>2

(* So does buffer_append, which may flush first.                           *)
LEMMA AppendType ==
  ASSUME NEW s \in VcpuState, NEW r \in Record
  PROVE  buffer_append(s, r) \in VcpuState
<1> DEFINE t == IF Len(s.inbuf) >= FlushThreshold THEN flush_buffer(s) ELSE s
<1>1. t \in VcpuState
  BY FlushType
<1>2. buffer_append(s, r) = [t EXCEPT !.inbuf = Append(t.inbuf, r)]
  BY DEF buffer_append
<1> HIDE DEF t
<1>3. Append(t.inbuf, r) \in Seq(Record)
  BY <1>1 DEF VcpuState
<1> QED BY <1>1, <1>2, <1>3 DEF VcpuState

(* So does finalize_pending_insn.                                          *)
LEMMA FinalizeType ==
  ASSUME NEW s \in VcpuState PROVE finalize_pending_insn(s) \in VcpuState
<1> DEFINE b == buffer_append(s, s.pending)
<1>1. b \in VcpuState
  BY AppendType DEF VcpuState
<1> DEFINE m == b.insn_count + 1
           n == b.chunk_insn_count + 1
<1>2. finalize_pending_insn(s) =
        IF ~s.has_pending THEN s
        ELSE [b EXCEPT !.insn_count = m, !.chunk_insn_count = n, !.has_pending = FALSE]
  BY DEF finalize_pending_insn
<1> HIDE DEF b
<1>3. m \in Nat /\ n \in Nat
  BY <1>1, FieldTypes
<1> DEFINE d == [b EXCEPT !.insn_count = m, !.chunk_insn_count = n, !.has_pending = FALSE]
<1> HIDE DEF m, n
<1>4. d \in VcpuState
  BY <1>1, <1>3 DEF VcpuState
<1> HIDE DEF d
<1> QED BY <1>2, <1>4 DEF d

(* fopen with mode "wb" truncates an existing chunk file or creates the    *)
(* next one.                                                               *)
LEMMA CreatedType ==
  ASSUME NEW files \in Seq(Chunk), NEW index \in Nat
  PROVE  Created(files, index) \in Seq(Chunk)
<1>1. EmptyChunk \in Chunk
  BY DEF EmptyChunk, Chunk
<1> QED BY <1>1, SeqUpdate DEF Created

(* open_chunk keeps the type: its step back from stream_insns is guarded   *)
(* by the pending instruction, so chunk_start_insn stays a natural.        *)
LEMMA OpenType ==
  ASSUME NEW s \in VcpuState PROVE open_chunk(s) \in VcpuState
<1> DEFINE fs == Created(s.files, s.chunk_index)
           st == IF ~sampling THEN s.insn_count
                 ELSE IF s.stream_insns > 0 THEN s.stream_insns - 1 ELSE 0
<1>1. fs \in Seq(Chunk)
  BY CreatedType DEF VcpuState
<1>2. st \in Nat
  <2>1. s.insn_count \in Nat /\ s.stream_insns \in Nat
    BY DEF VcpuState
  <2> QED BY <2>1
<1>3. open_chunk(s) = [s EXCEPT !.inbuf = << >>, !.open = TRUE, !.files = fs,
                                !.chunk_insn_count = 0, !.chunk_start_insn = st]
  BY DEF open_chunk
<1>4. << >> \in Seq(Record)
  OBVIOUS
<1> HIDE DEF fs, st
<1> DEFINE a == [s EXCEPT !.inbuf = << >>]
           b == [a EXCEPT !.open = TRUE]
           c == [b EXCEPT !.files = fs]
           d == [c EXCEPT !.chunk_insn_count = 0]
<1>5. a \in VcpuState  BY <1>4, SetInbuf
<1>6. b \in VcpuState  BY <1>5, SetFlag
<1>7. c \in VcpuState  BY <1>1, <1>6, SetFiles
<1>8. d \in VcpuState  BY <1>7, SetCounter
<1>9. open_chunk(s) = [d EXCEPT !.chunk_start_insn = st]  BY <1>3
<1> HIDE DEF d
<1> QED BY <1>2, <1>8, <1>9, SetCounter

(* The switch to the next chunk keeps the type, and so does its failure.   *)
LEMMA NextChunkType ==
  ASSUME NEW s \in VcpuState, NEW ok \in BOOLEAN
  PROVE  next_chunk(s, ok) \in VcpuState
<1> DEFINE k == s.chunk_index + 1
           n == [s EXCEPT !.chunk_index = k]
<1>1. n \in VcpuState
  <2>1. k \in Nat
    BY DEF VcpuState
  <2> HIDE DEF k
  <2> QED BY <2>1 DEF VcpuState
<1>2. next_chunk(s, ok) = IF ok THEN open_chunk(n) ELSE open_failed(n)
  BY DEF next_chunk
<1> HIDE DEF n
<1>3. open_failed(n) \in VcpuState
  <2>1. << >> \in Seq(Record)
    OBVIOUS
  <2> QED BY <1>1, <2>1 DEF open_failed, VcpuState
<1> QED BY <1>1, <1>2, <1>3, OpenType

(* Closing the file of the current chunk.                                  *)
LEMMA ClosedType ==
  ASSUME NEW s \in VcpuState PROVE Closed(s) \in VcpuState
<1> DEFINE i == s.chunk_index + 1
           e == [s.files[i] EXCEPT !.closed = TRUE]
           fs == [s.files EXCEPT ![i] = e]
<1>1. fs \in Seq(Chunk)
  <2>1. s.files \in Seq(Chunk)
    BY DEF VcpuState
  <2>2. ASSUME i \in DOMAIN s.files PROVE e \in Chunk
    <3>1. s.files[i] \in Chunk
      BY <2>1, <2>2, LenProperties
    <3> QED BY <3>1 DEF Chunk
  <2> HIDE DEF e
  <2> QED BY <2>1, <2>2, SeqUpdate
<1>2. Closed(s) = IF ~s.open THEN s ELSE [s EXCEPT !.open = FALSE, !.files = fs]
  BY DEF Closed
<1> HIDE DEF fs
<1> QED BY <1>1, <1>2 DEF VcpuState

(* Appending the manifest row of the current chunk.                        *)
LEMMA ListedType ==
  ASSUME NEW s \in VcpuState PROVE Listed(s) \in VcpuState
<1> DEFINE row == [chunk |-> s.chunk_index, start |-> s.chunk_start_insn,
                   count |-> s.chunk_insn_count]
           m == Append(s.manifest, row)
<1>1. m \in Seq(Row)
  BY DEF VcpuState, Row
<1>2. Listed(s) = [s EXCEPT !.manifest = m]
  BY DEF Listed
<1> HIDE DEF m
<1> QED BY <1>1, <1>2 DEF VcpuState

(* close_chunk is the composition of the four.                             *)
LEMMA CloseType ==
  ASSUME NEW s \in VcpuState PROVE close_chunk(s) \in VcpuState
BY FinalizeType, FlushType, ClosedType, ListedType DEF close_chunk

(* The instruction of this callback becomes the pending one.               *)
LEMMA StoreType ==
  ASSUME NEW s \in VcpuState, NEW pos \in Nat, NEW user \in BOOLEAN
  PROVE  store_pending(s, pos, user) \in VcpuState
<1>1. [pos |-> pos, user |-> user, ops |-> << >>] \in Record
  BY DEF Record
<1> QED BY <1>1 DEF store_pending, VcpuState

(* A captured instruction, with the limit and rotation tests.              *)
LEMMA CaptureType ==
  ASSUME NEW s \in VcpuState, NEW pos \in Nat, NEW user \in BOOLEAN,
         NEW ok \in BOOLEAN
  PROVE  capture(s, pos, user, ok) \in VcpuState
<1>1. flush_buffer([s EXCEPT !.limit_reached = TRUE]) \in VcpuState
  <2>1. [s EXCEPT !.limit_reached = TRUE] \in VcpuState
    BY DEF VcpuState
  <2> QED BY <2>1, FlushType
<1>2. next_chunk(close_chunk(s), ok) \in VcpuState
  BY CloseType, NextChunkType
<1> QED BY <1>1, <1>2, StoreType DEF capture

(* The steps of sampling: in the gap, at its end, and at the end of a      *)
(* window.                                                                 *)
LEMMA WindowTypes ==
  ASSUME NEW s \in VcpuState, NEW pos \in Nat, NEW user \in BOOLEAN,
         NEW ok \in BOOLEAN
  PROVE  /\ tick_gap(s, user) \in VcpuState
         /\ end_window(s) \in VcpuState
         /\ enter_gap(s) \in VcpuState
         /\ finish_sampling(s) \in VcpuState
         /\ begin_window(s, pos, user, ok) \in VcpuState
<1>1. tick_gap(s, user) \in VcpuState
  <2> DEFINE n == s.sample_phase_insns + 1
  <2>1. n \in Nat
    BY DEF VcpuState
  <2>2. tick_gap(s, user) \in {s, [s EXCEPT !.sample_phase_insns = n]}
    BY DEF tick_gap
  <2> HIDE DEF n
  <2> QED BY <2>1, <2>2 DEF VcpuState
<1>2. end_window(s) \in VcpuState
  <2> DEFINE c == close_chunk(s)
  <2>1. c \in VcpuState
    BY CloseType
  <2> DEFINE n == c.sample_windows_done + 1
  <2>2. end_window(s) = [c EXCEPT !.sample_windows_done = n, !.sample_phase_insns = 0]
    BY DEF end_window
  <2> HIDE DEF c
  <2>3. n \in Nat
    BY <2>1, FieldTypes
  <2> HIDE DEF n
  <2> DEFINE d == [c EXCEPT !.sample_windows_done = n]
  <2>4. d \in VcpuState  BY <2>1, <2>3, SetCounter
  <2>5. end_window(s) = [d EXCEPT !.sample_phase_insns = 0]  BY <2>2
  <2> HIDE DEF d
  <2> QED BY <2>4, <2>5, SetCounter
<1>3. /\ enter_gap(s) \in VcpuState
      /\ finish_sampling(s) \in VcpuState
  <2> DEFINE c == end_window(s)
  <2>1. /\ enter_gap(s) = [c EXCEPT !.sample_skipping = TRUE]
        /\ finish_sampling(s) = [c EXCEPT !.sample_finished = TRUE,
                                          !.limit_reached = TRUE,
                                          !.chunk_insn_count = 0]
    BY DEF enter_gap, finish_sampling
  <2>2. c \in VcpuState
    BY <1>2
  <2> HIDE DEF c
  <2>3. enter_gap(s) \in VcpuState
    BY <2>1, <2>2 DEF VcpuState
  <2>4. finish_sampling(s) \in VcpuState
    <3> DEFINE d == [c EXCEPT !.sample_finished = TRUE]
               e == [d EXCEPT !.limit_reached = TRUE]
    <3>1. d \in VcpuState  BY <2>2, SetFlag
    <3>2. e \in VcpuState  BY <3>1, SetFlag
    <3>3. finish_sampling(s) = [e EXCEPT !.chunk_insn_count = 0]  BY <2>1
    <3> HIDE DEF e
    <3> QED BY <3>2, <3>3, SetCounter
  <2> QED BY <2>3, <2>4
<1>4. begin_window(s, pos, user, ok) \in VcpuState
  <2> DEFINE g == [s EXCEPT !.sample_skipping = FALSE, !.sample_phase_insns = 0]
             n == next_chunk(g, ok)
  <2>1. g \in VcpuState
    BY DEF VcpuState
  <2>2. n \in VcpuState
    BY <2>1, NextChunkType
  <2>3. begin_window(s, pos, user, ok) =
          IF ok THEN capture(finalize_pending_insn(n), pos, user, ok) ELSE n
    BY DEF begin_window
  <2> HIDE DEF n
  <2> QED BY <2>2, <2>3, FinalizeType, CaptureType
<1> QED BY <1>1, <1>2, <1>3, <1>4

(* The state vcpu_init_cb gives a vCPU.                                    *)
LEMMA InitVcpuType ==
  ASSUME NEW fp \in BOOLEAN PROVE InitVcpu(fp) \in VcpuState
<1> DEFINE z == [ open |-> FALSE, inbuf |-> << >>, has_pending |-> FALSE,
                  pending |-> NoRecord, insn_count |-> 0, chunk_insn_count |-> 0,
                  chunk_index |-> 0, chunk_start_insn |-> 0, stream_insns |-> 0,
                  limit_reached |-> FALSE, sample_skipping |-> FALSE,
                  sample_phase_insns |-> 0, sample_windows_done |-> 0,
                  sample_finished |-> FALSE, manifest_fp |-> fp,
                  files |-> << >>, manifest |-> << >> ]
<1>1. NoRecord \in Record
  BY DEF NoRecord, Record
<1>2. z \in VcpuState
  BY <1>1 DEF VcpuState
<1>3. InitVcpu(fp) = open_chunk(z)
  BY DEF InitVcpu
<1> HIDE DEF z
<1> QED BY <1>2, <1>3, OpenType

(* stream_insns counts every instruction, captured or not.                 *)
LEMMA CountedType ==
  ASSUME NEW v, vs[v] \in VcpuState PROVE Counted(v) \in VcpuState
<1> DEFINE n == vs[v].stream_insns + 1
<1>1. n \in Nat
  BY FieldTypes
<1>2. Counted(v) = [vs[v] EXCEPT !.stream_insns = n]
  BY DEF Counted
<1> HIDE DEF n
<1> QED BY <1>1, <1>2, SetCounter

(* Every callback that updates a vCPU leaves it in a well-typed state.     *)
LEMMA CallbackType ==
  ASSUME TypeOK, NEW v \in VCPUS, NEW s, Update(v, s), s \in VcpuState,
         NEW user \in BOOLEAN, Execute(v, user)
  PROVE  TypeOK'
<1>1. guest' \in [VCPUS -> [hist : Seq(BOOLEAN), cur : Nat, accesses : Nat]]
  <2> DEFINE h == Append(guest[v].hist, user)
             k == Len(guest[v].hist) + 1
             g == [hist |-> h, cur |-> k, accesses |-> 0]
  <2>1. guest[v].hist \in Seq(BOOLEAN)
    BY DEF TypeOK
  <2>2. h \in Seq(BOOLEAN) /\ k \in Nat
    BY <2>1, LenProperties
  <2>3. guest' = [guest EXCEPT ![v] = g]
    BY DEF Execute, TypeOK
  <2> HIDE DEF h, k
  <2> QED BY <2>2, <2>3 DEF TypeOK
<1>2. vs' \in [VCPUS -> VcpuState]
  BY DEF Update, TypeOK
<1> QED BY <1>1, <1>2 DEF TypeOK, Update

(* The actions of insn_exec_cb that change the vCPU's state.               *)
LEMMA InsnType ==
  ASSUME TypeOK, NEW v \in VCPUS, NEW user \in BOOLEAN, NEW ok \in BOOLEAN,
         \/ SkipInsn(v, user) \/ AwaitUserInsn(v, user)
         \/ BeginWindowInsn(v, user, ok) \/ CaptureInsn(v, user, ok)
         \/ EndWindowInsn(v, user, ok)
  PROVE  TypeOK'
<1> DEFINE pos == Len(guest[v].hist) + 1
           c == finalize_pending_insn(Counted(v))
<1>1. c \in VcpuState
  BY CountedType, FinalizeType DEF TypeOK
<1>2. pos \in Nat
  BY LenProperties DEF TypeOK
<1> HIDE DEF c, pos
<1>3. /\ tick_gap(c, user) \in VcpuState
      /\ begin_window(c, pos, user, ok) \in VcpuState
      /\ finish_sampling(c) \in VcpuState
      /\ enter_gap(c) \in VcpuState
      /\ capture(c, pos, user, ok) \in VcpuState
  BY <1>1, <1>2, WindowTypes, CaptureType
<1>4. /\ tick_gap(enter_gap(c), user) \in VcpuState
      /\ begin_window(enter_gap(c), pos, user, ok) \in VcpuState
  BY <1>2, <1>3, WindowTypes
<1>5. CASE SkipInsn(v, user)
  BY <1>3, <1>5, CallbackType DEF SkipInsn, Seen, c
<1>6. CASE AwaitUserInsn(v, user)
  BY <1>1, <1>6, CallbackType DEF AwaitUserInsn, Seen, c
<1>7. CASE BeginWindowInsn(v, user, ok)
  BY <1>3, <1>7, CallbackType DEF BeginWindowInsn, Seen, c, pos
<1>8. CASE CaptureInsn(v, user, ok)
  BY <1>3, <1>8, CallbackType DEF CaptureInsn, Seen, c, pos
<1>9. CASE EndWindowInsn(v, user, ok)
  BY <1>3, <1>4, <1>9, CallbackType DEF EndWindowInsn, Seen, c, pos
<1> QED BY <1>5, <1>6, <1>7, <1>8, <1>9

(* The type invariant of the recorder, for any set of vCPUs, command lines *)
(* and buffer sizes.                                                       *)
THEOREM TypeCorrect == Spec => []TypeOK
<1>1. Init => TypeOK
  <2> SUFFICES ASSUME Init PROVE TypeOK
    OBVIOUS
  <2>1. knobs \in Knobs /\ tracing_enabled \in BOOLEAN
    BY KnobsAssumption DEF Init, Knob
  <2>2. vs \in [VCPUS -> VcpuState]
    BY InitVcpuType DEF Init
  <2>3. disk_full \in BOOLEAN
    BY Zenon DEF Init
  <2> QED BY <2>1, <2>2, <2>3 DEF Init, TypeOK
<1>2. TypeOK /\ [Next]_vars => TypeOK'
  <2> SUFFICES ASSUME TypeOK, [Next]_vars PROVE TypeOK'
    OBVIOUS
  <2>1. ASSUME NEW v \in VCPUS, DormantInsn(v) PROVE TypeOK'
    BY <2>1 DEF DormantInsn, TypeOK
  <2>2. ASSUME NEW v \in VCPUS, NEW user \in BOOLEAN, StoppedInsn(v, user)
        PROVE TypeOK'
    <3>1. guest[v].hist \in Seq(BOOLEAN)
      BY DEF TypeOK
    <3>2. Append(guest[v].hist, user) \in Seq(BOOLEAN) /\ Len(guest[v].hist) + 1 \in Nat
      BY <3>1, LenProperties
    <3> QED BY <2>2, <3>2 DEF StoppedInsn, Execute, TypeOK
  <2>3. ASSUME NEW v \in VCPUS, NEW user \in BOOLEAN, NEW ok \in BOOLEAN,
               \/ SkipInsn(v, user) \/ AwaitUserInsn(v, user)
               \/ BeginWindowInsn(v, user, ok) \/ CaptureInsn(v, user, ok)
               \/ EndWindowInsn(v, user, ok)
        PROVE TypeOK'
    BY <2>3, InsnType
  <2>4. ASSUME NEW v \in VCPUS, mem_cb(v) PROVE TypeOK'
    <3> DEFINE s == vs[v]
               ops == Append(s.pending.ops, guest[v].cur)
               p == [s.pending EXCEPT !.ops = ops]
    <3>1. s \in VcpuState /\ guest[v].cur \in Nat
      BY DEF TypeOK
    <3>2. s.pending \in Record
      BY <3>1, FieldTypes
    <3>3. p \in Record
      <4>1. s.pending.ops \in Seq(Nat)
        BY <3>2 DEF Record
      <4>2. ops \in Seq(Nat)
        BY <3>1, <4>1
      <4> HIDE DEF ops
      <4> QED BY <3>2, <4>2 DEF Record
    <3> HIDE DEF p
    <3>4. [s EXCEPT !.pending = p] \in VcpuState
      BY <3>1, <3>3, SetPending
    <3>5. vs' = vs \/ vs' = [vs EXCEPT ![v] = [s EXCEPT !.pending = p]]
      BY <2>4 DEF mem_cb, p
    <3>6. vs' \in [VCPUS -> VcpuState]
      BY <3>4, <3>5 DEF TypeOK
    <3>7. guest' \in [VCPUS -> [hist : Seq(BOOLEAN), cur : Nat, accesses : Nat]]
      <4> DEFINE a == guest[v].accesses + 1
      <4>1. a \in Nat
        BY DEF TypeOK
      <4>2. guest' = [guest EXCEPT ![v] = [guest[v] EXCEPT !.accesses = a]]
        BY <2>4 DEF mem_cb
      <4> HIDE DEF a
      <4> QED BY <4>1, <4>2 DEF TypeOK
    <3> QED BY <2>4, <3>6, <3>7 DEF mem_cb, TypeOK
  <2>5. CASE plugin_atexit
    <3>1. vs' \in [VCPUS -> VcpuState]
      BY <2>5, CloseType DEF plugin_atexit, TypeOK
    <3> QED BY <2>5, <3>1 DEF plugin_atexit, TypeOK
  <2>6. CASE Kill
    BY <2>6 DEF Kill, TypeOK
  <2>7. CASE DiskFills
    BY <2>7 DEF DiskFills, TypeOK
  <2>8. CASE UNCHANGED vars
    BY <2>8 DEF vars, TypeOK
  <2> QED BY <2>1, <2>2, <2>3, <2>4, <2>5, <2>6, <2>7, <2>8 DEF Next, insn_exec_cb
<1> QED BY <1>1, <1>2, PTL DEF Spec

---------------------------------------------------------------------------
(* ManifestSound.                                                          *)

(* What both rest on: an operator never touches a closed chunk.            *)
Extends(f, g) ==
  \A c \in DOMAIN f : f[c].closed => c \in DOMAIN g /\ g[c] = f[c]

(* Files that only grow, twice, only grow.                                 *)
LEMMA ExtendsTransitive ==
  ASSUME NEW f, NEW g, NEW h, Extends(f, g), Extends(g, h)
  PROVE  Extends(f, h)
BY DEF Extends

(* Rows stay sound when the files only grow and no row is added.           *)
LEMMA RowsKept ==
  ASSUME NEW s, NEW t, RowsSound(s), Extends(s.files, t.files),
         t.manifest = s.manifest
  PROVE  RowsSound(t)
BY DEF RowsSound, Extends

(* The fields flush_buffer changes, on a disk with room.                   *)
LEMMA FlushFields ==
  ASSUME NEW s \in VcpuState, s.open, ~disk_full,
         Len(s.files) = s.chunk_index + 1
  PROVE  LET t == flush_buffer(s)
             i == s.chunk_index + 1
         IN  /\ t = [s EXCEPT !.files = t.files, !.inbuf = << >>]
             /\ Len(t.files) = Len(s.files)
             /\ i \in DOMAIN s.files
             /\ \A j \in 1 .. Len(s.files) : j # i => t.files[j] = s.files[j]
             /\ t.files[i].closed = s.files[i].closed
             /\ Len(t.files[i].recs) = Len(s.files[i].recs) + Len(s.inbuf)
<1> DEFINE i == s.chunk_index + 1
           r == s.files[i].recs \o s.inbuf
           e == [s.files[i] EXCEPT !.recs = r]
           fs == [s.files EXCEPT ![i] = e]
<1>1. s.files \in Seq(Chunk) /\ s.inbuf \in Seq(Record) /\ s.chunk_index \in Nat
  BY FieldTypes
<1>2. i \in 1 .. Len(s.files) /\ DOMAIN s.files = 1 .. Len(s.files)
  BY <1>1, LenProperties
<1>3. s.files[i] \in Chunk
  BY <1>1, <1>2
<1>4. r \in Seq(Record) /\ Len(r) = Len(s.files[i].recs) + Len(s.inbuf)
  BY <1>1, <1>3, ConcatProperties DEF Chunk
<1>5. e \in Chunk /\ e.recs = r /\ e.closed = s.files[i].closed
  <2> HIDE DEF r
  <2> QED BY <1>3, <1>4 DEF Chunk
<1>6. flush_buffer(s) = [s EXCEPT !.files = fs, !.inbuf = << >>]
  BY DEF flush_buffer
<1>7. flush_buffer(s).files = fs
  <2> HIDE DEF fs
  <2> QED BY <1>6 DEF VcpuState
<1> HIDE DEF e, r
<1>8. /\ Len(fs) = Len(s.files)
      /\ \A j \in 1 .. Len(s.files) : fs[j] = IF j = i THEN e ELSE s.files[j]
  BY <1>1, <1>5, SeqUpdate
<1> QED BY <1>2, <1>4, <1>5, <1>6, <1>7, <1>8

(* flush_buffer moves the buffered records into the open file, so that the *)
(* records on both sides still add up to chunk_insn_count.                 *)
LEMMA FlushInv ==
  ASSUME ~disk_full, NEW s \in VcpuState, Accounted(s)
  PROVE  LET t == flush_buffer(s)
         IN  /\ Accounted(t) /\ Extends(s.files, t.files)
             /\ t.manifest = s.manifest /\ t.open = s.open
             /\ t.inbuf = << >> /\ t.chunk_insn_count = s.chunk_insn_count
             /\ t.has_pending = s.has_pending
             /\ t.limit_reached = s.limit_reached
             /\ t.sample_skipping = s.sample_skipping
             /\ t.chunk_index = s.chunk_index
<1> DEFINE t == flush_buffer(s)
<1>1. CASE ~s.open
  <2>1. t = s
    BY <1>1 DEF flush_buffer
  <2>2. Extends(s.files, s.files)
    BY DEF Extends
  <2> HIDE DEF t
  <2> QED BY <1>1, <2>1, <2>2 DEF Accounted, t
<1>2. CASE s.open
  <2>1. /\ Len(s.files) = s.chunk_index + 1
        /\ ~CurrentChunk(s).closed
        /\ Len(CurrentChunk(s).recs) + Len(s.inbuf) = s.chunk_insn_count
    BY <1>2 DEF Accounted
  <2>2. /\ t = [s EXCEPT !.files = t.files, !.inbuf = << >>]
        /\ Len(t.files) = Len(s.files)
        /\ s.chunk_index + 1 \in DOMAIN s.files
        /\ \A j \in 1 .. Len(s.files) : j # s.chunk_index + 1 => t.files[j] = s.files[j]
        /\ t.files[s.chunk_index + 1].closed = s.files[s.chunk_index + 1].closed
        /\ Len(t.files[s.chunk_index + 1].recs)
             = Len(s.files[s.chunk_index + 1].recs) + Len(s.inbuf)
    BY <1>2, <2>1, FlushFields
  <2>3. t \in VcpuState
    BY FlushType
  <2> HIDE DEF t
  <2>4. /\ t.manifest = s.manifest /\ t.open = s.open
        /\ t.inbuf = << >> /\ t.chunk_insn_count = s.chunk_insn_count
        /\ t.has_pending = s.has_pending
        /\ t.limit_reached = s.limit_reached
        /\ t.sample_skipping = s.sample_skipping
        /\ t.chunk_index = s.chunk_index
    BY <2>2 DEF VcpuState
  <2>5. Extends(s.files, t.files)
    <3>1. s.files \in Seq(Chunk) /\ t.files \in Seq(Chunk)
      BY <2>3, FieldTypes
    <3>2. DOMAIN s.files = 1 .. Len(s.files) /\ DOMAIN t.files = 1 .. Len(t.files)
      BY <3>1, LenProperties
    <3> QED BY <2>1, <2>2, <3>2 DEF Extends, CurrentChunk
  <2>6. Accounted(t)
    <3>1. Len(t.files[t.chunk_index + 1].recs) + Len(t.inbuf) = t.chunk_insn_count
      <4>1. s.files[s.chunk_index + 1] \in Chunk /\ s.inbuf \in Seq(Record)
        BY <2>2, FieldTypes, LenProperties
      <4>2. Len(s.files[s.chunk_index + 1].recs) \in Nat /\ Len(s.inbuf) \in Nat
        BY <4>1, LenProperties DEF Chunk
      <4>3. Len(t.inbuf) = 0
        BY <2>4
      <4>4. Len(t.files[t.chunk_index + 1].recs) = s.chunk_insn_count
        BY <2>1, <2>2, <2>4 DEF CurrentChunk
      <4>5. s.chunk_insn_count \in Nat
        BY FieldTypes
      <4> QED BY <2>4, <4>3, <4>4, <4>5
    <3> QED BY <1>2, <2>1, <2>2, <2>4, <3>1 DEF Accounted, CurrentChunk
  <2> QED BY <2>4, <2>5, <2>6 DEF t
<1> QED BY <1>1, <1>2

(* One more record on one side of the sum.                                 *)
LEMMA AddOne ==
  ASSUME NEW a \in Nat, NEW b \in Nat, NEW c, a + b = c
  PROVE  a + (b + 1) = c + 1
OBVIOUS

(* The pending instruction becomes a record: it was counted when it was    *)
(* captured, so what is open stays accounted for.                          *)
LEMMA FinalizeInv ==
  ASSUME ~disk_full, NEW s \in VcpuState, Accounted(s)
  PROVE  LET t == finalize_pending_insn(s)
         IN  /\ Accounted(t) /\ Extends(s.files, t.files)
             /\ t.manifest = s.manifest /\ t.open = s.open
             /\ ~t.has_pending
             /\ t.limit_reached = s.limit_reached
             /\ t.sample_skipping = s.sample_skipping
<1> DEFINE t == finalize_pending_insn(s)
<1>1. CASE ~s.has_pending
  <2>1. t = s
    BY <1>1 DEF finalize_pending_insn
  <2>2. Extends(s.files, s.files)
    BY DEF Extends
  <2> HIDE DEF t
  <2> QED BY <1>1, <2>1, <2>2 DEF t
<1>2. CASE s.has_pending
  <2> DEFINE f == IF Len(s.inbuf) >= FlushThreshold THEN flush_buffer(s) ELSE s
             q == Append(f.inbuf, s.pending)
             m == f.insn_count + 1
             n == f.chunk_insn_count + 1
  <2>1. s.open
    BY <1>2 DEF Accounted
  <2>2. f \in VcpuState
    BY FlushType
  <2>3. /\ Accounted(f) /\ Extends(s.files, f.files)
        /\ f.manifest = s.manifest /\ f.open = s.open
        /\ f.limit_reached = s.limit_reached
        /\ f.sample_skipping = s.sample_skipping
    <3>1. Extends(s.files, s.files)
      BY DEF Extends
    <3> QED BY <3>1, FlushInv
  <2>4. t = [f EXCEPT !.inbuf = q, !.insn_count = m, !.chunk_insn_count = n,
                      !.has_pending = FALSE]
    <3> DEFINE b == [f EXCEPT !.inbuf = q]
    <3>1. b.insn_count = f.insn_count /\ b.chunk_insn_count = f.chunk_insn_count
      <4> HIDE DEF f, q
      <4> QED BY <2>2 DEF VcpuState
    <3>2. buffer_append(s, s.pending) = b
      BY DEF buffer_append
    <3>3. t = [b EXCEPT !.insn_count = b.insn_count + 1,
                        !.chunk_insn_count = b.chunk_insn_count + 1,
                        !.has_pending = FALSE]
      <4> HIDE DEF b
      <4> QED BY <1>2, <3>2 DEF finalize_pending_insn
    <3> HIDE DEF f, q
    <3> QED BY <3>1, <3>3
  <2>5. f.inbuf \in Seq(Record) /\ f.chunk_insn_count \in Nat /\ f.files \in Seq(Chunk)
        /\ s.pending \in Record
    BY <2>2, FieldTypes
  <2>6. Len(q) = Len(f.inbuf) + 1
    BY <2>5
  <2> HIDE DEF t, f, q
  <2>7. /\ t.files = f.files /\ t.manifest = f.manifest /\ t.open = f.open
        /\ t.limit_reached = f.limit_reached
        /\ t.sample_skipping = f.sample_skipping /\ t.chunk_index = f.chunk_index
        /\ t.inbuf = q /\ t.chunk_insn_count = n /\ t.has_pending = FALSE
    <3> HIDE DEF m, n
    <3> QED BY <2>2, <2>4 DEF VcpuState
  <2>8. /\ Len(f.files) = f.chunk_index + 1
        /\ ~CurrentChunk(f).closed
        /\ Len(CurrentChunk(f).recs) + Len(f.inbuf) = f.chunk_insn_count
    BY <2>1, <2>3 DEF Accounted
  <2>9. CurrentChunk(t) = CurrentChunk(f)
    BY <2>7 DEF CurrentChunk
  <2>10. Len(CurrentChunk(f).recs) \in Nat /\ Len(f.inbuf) \in Nat
    <3>1. f.chunk_index + 1 \in 1 .. Len(f.files)
      BY <2>2, <2>8, FieldTypes
    <3>2. CurrentChunk(f) \in Chunk
      BY <2>5, <3>1 DEF CurrentChunk
    <3> QED BY <2>5, <3>2, LenProperties DEF Chunk
  <2>11. Len(CurrentChunk(t).recs) + Len(t.inbuf) = t.chunk_insn_count
    <3>1. Len(t.inbuf) = Len(f.inbuf) + 1
      BY <2>6, <2>7
    <3>2. t.chunk_insn_count = f.chunk_insn_count + 1
      BY <2>7
    <3>3. Len(CurrentChunk(t).recs) = Len(CurrentChunk(f).recs)
      BY <2>9
    <3>4. Len(CurrentChunk(f).recs) + Len(f.inbuf) = f.chunk_insn_count
      BY <2>8
    <3> DEFINE a == Len(CurrentChunk(f).recs)
               b == Len(f.inbuf)
    <3>5. a \in Nat /\ b \in Nat /\ a + b = f.chunk_insn_count
      BY <2>10, <3>4
    <3>6. a + (b + 1) = f.chunk_insn_count + 1
      <4> HIDE DEF a, b
      <4> QED BY <3>5, AddOne
    <3> HIDE DEF m, n
    <3> QED BY <3>1, <3>2, <3>3, <3>6 DEF a, b
  <2>12. Accounted(t)
    BY <2>1, <2>3, <2>7, <2>8, <2>9, <2>11 DEF Accounted
  <2> QED BY <2>3, <2>7, <2>12 DEF t
<1> QED BY <1>1, <1>2

(* A file is closed with its buffer drained and nothing pending: it then   *)
(* holds chunk_insn_count records.                                         *)
LEMMA ClosedInv ==
  ASSUME NEW s \in VcpuState, Accounted(s), s.inbuf = << >>, ~s.has_pending
  PROVE  LET t == Closed(s)
         IN  /\ Accounted(t) /\ Extends(s.files, t.files) /\ ~t.open
             /\ t.manifest = s.manifest
             /\ t.limit_reached = s.limit_reached
             /\ t.sample_skipping = s.sample_skipping
<1> DEFINE t == Closed(s)
<1>1. CASE ~s.open
  <2>1. t = s
    BY <1>1 DEF Closed
  <2>2. Extends(s.files, s.files)
    BY DEF Extends
  <2> HIDE DEF t
  <2> QED BY <1>1, <2>1, <2>2 DEF t
<1>2. CASE s.open
  <2> DEFINE i == s.chunk_index + 1
             e == [s.files[i] EXCEPT !.closed = TRUE]
             fs == [s.files EXCEPT ![i] = e]
  <2>1. /\ Len(s.files) = i /\ ~s.files[i].closed
        /\ Len(s.files[i].recs) + Len(s.inbuf) = s.chunk_insn_count
    BY <1>2 DEF Accounted, CurrentChunk
  <2>2. s.files \in Seq(Chunk) /\ s.chunk_index \in Nat
    BY FieldTypes
  <2>3. i \in 1 .. Len(s.files) /\ DOMAIN s.files = 1 .. Len(s.files)
    BY <2>1, <2>2, LenProperties
  <2>4. s.files[i] \in Chunk
    BY <2>2, <2>3
  <2>5. e \in Chunk /\ e.closed = TRUE /\ e.recs = s.files[i].recs
    BY <2>4 DEF Chunk
  <2>6. Len(s.files[i].recs) = s.chunk_insn_count
    <3>1. Len(s.files[i].recs) \in Nat
      BY <2>4, LenProperties DEF Chunk
    <3>2. Len(s.inbuf) = 0
      OBVIOUS
    <3> QED BY <2>1, <3>1, <3>2
  <2>7. t = [s EXCEPT !.open = FALSE, !.files = fs]
    BY <1>2 DEF Closed
  <2> HIDE DEF e
  <2>8. /\ fs \in Seq(Chunk) /\ Len(fs) = Len(s.files)
        /\ \A j \in 1 .. Len(s.files) : fs[j] = IF j = i THEN e ELSE s.files[j]
    <3> HIDE DEF i
    <3> QED BY <2>2, <2>3, <2>5, ExceptSeq
  <2>9. DOMAIN fs = 1 .. Len(s.files)
    BY <2>8, LenProperties
  <2> HIDE DEF t, fs
  <2>10. /\ t.files = fs /\ t.manifest = s.manifest /\ t.open = FALSE
         /\ t.limit_reached = s.limit_reached
         /\ t.sample_skipping = s.sample_skipping /\ t.chunk_index = s.chunk_index
         /\ t.inbuf = s.inbuf /\ t.chunk_insn_count = s.chunk_insn_count
         /\ t.has_pending = s.has_pending
    BY <2>7 DEF VcpuState
  <2>11. Extends(s.files, t.files)
    BY <2>1, <2>3, <2>8, <2>9, <2>10 DEF Extends
  <2>12. Accounted(t)
    BY <2>1, <2>3, <2>5, <2>6, <2>8, <2>10 DEF Accounted, CurrentChunk
  <2> QED BY <2>10, <2>11, <2>12 DEF t
<1> QED BY <1>1, <1>2

(* The row of a closed, accounted chunk is sound.                          *)
LEMMA ListedInv ==
  ASSUME NEW s \in VcpuState, Accounted(s), RowsSound(s), ~s.open,
         s.chunk_insn_count > 0
  PROVE  LET t == Listed(s)
         IN  /\ Accounted(t) /\ RowsSound(t) /\ t.files = s.files /\ ~t.open
             /\ t.limit_reached = s.limit_reached
             /\ t.sample_skipping = s.sample_skipping
<1> DEFINE t == Listed(s)
           row == [chunk |-> s.chunk_index, start |-> s.chunk_start_insn,
                   count |-> s.chunk_insn_count]
           m == Append(s.manifest, row)
<1>1. s.manifest \in Seq(Row) /\ s.files \in Seq(Chunk) /\ s.chunk_index \in Nat
  BY FieldTypes
<1>2. row \in Row
  BY FieldTypes DEF Row
<1>3. t = [s EXCEPT !.manifest = m]
  BY DEF Listed
<1>4. /\ DOMAIN m = 1 .. Len(s.manifest) + 1
      /\ DOMAIN s.manifest = 1 .. Len(s.manifest)
      /\ \A i \in 1 .. Len(s.manifest) : m[i] = s.manifest[i]
      /\ m[Len(s.manifest) + 1] = row
  <2> HIDE DEF row
  <2> QED BY <1>1, <1>2, LenProperties
<1> HIDE DEF t, m
<1>5. /\ t.files = s.files /\ t.manifest = m /\ t.open = s.open
      /\ t.limit_reached = s.limit_reached
      /\ t.sample_skipping = s.sample_skipping /\ t.chunk_index = s.chunk_index
      /\ t.inbuf = s.inbuf /\ t.chunk_insn_count = s.chunk_insn_count
      /\ t.has_pending = s.has_pending
  BY <1>3 DEF VcpuState
<1>6. Accounted(t)
  BY <1>5 DEF Accounted, CurrentChunk
<1>7. RowsSound(t)
  <2> SUFFICES ASSUME NEW i \in DOMAIN t.manifest
               PROVE  /\ t.manifest[i].chunk + 1 \in DOMAIN t.files
                      /\ t.files[t.manifest[i].chunk + 1].closed
                      /\ Len(t.files[t.manifest[i].chunk + 1].recs) = t.manifest[i].count
    BY DEF RowsSound
  <2>1. CASE i \in DOMAIN s.manifest
    BY <1>4, <1>5, <2>1 DEF RowsSound
  <2>2. CASE i = Len(s.manifest) + 1
    <3>1. t.manifest[i].chunk = s.chunk_index /\ t.manifest[i].count = s.chunk_insn_count
      BY <1>4, <1>5, <2>2
    <3>2. /\ Len(s.files) = s.chunk_index + 1
          /\ CurrentChunk(s).closed
          /\ Len(CurrentChunk(s).recs) = s.chunk_insn_count
      BY DEF Accounted
    <3>3. s.chunk_index + 1 \in DOMAIN s.files
      BY <1>1, <3>2, LenProperties
    <3> QED BY <1>5, <3>1, <3>2, <3>3 DEF CurrentChunk
  <2> QED BY <1>1, <1>4, <1>5, <2>1, <2>2, LenProperties
<1> QED BY <1>5, <1>6, <1>7 DEF t

(* close_chunk leaves a sound manifest, and files that only grew.          *)
LEMMA CloseInv ==
  ASSUME ~disk_full, NEW s \in VcpuState, Accounted(s), RowsSound(s)
  PROVE  LET t == close_chunk(s)
         IN  /\ Accounted(t) /\ RowsSound(t) /\ Extends(s.files, t.files)
             /\ ~t.open
             /\ t.limit_reached = s.limit_reached
             /\ t.sample_skipping = s.sample_skipping
<1> DEFINE a == finalize_pending_insn(s)
           b == flush_buffer(a)
           c == Closed(b)
<1>1. a \in VcpuState /\ b \in VcpuState /\ c \in VcpuState
  BY FinalizeType, FlushType, ClosedType
<1>2. /\ Accounted(a) /\ Extends(s.files, a.files)
      /\ a.manifest = s.manifest /\ ~a.has_pending
      /\ a.limit_reached = s.limit_reached
      /\ a.sample_skipping = s.sample_skipping
  BY FinalizeInv
<1> HIDE DEF a
<1>3. /\ Accounted(b) /\ Extends(a.files, b.files)
      /\ b.manifest = a.manifest /\ ~b.has_pending /\ b.inbuf = << >>
      /\ b.limit_reached = a.limit_reached
      /\ b.sample_skipping = a.sample_skipping
  BY <1>1, <1>2, FlushInv
<1> HIDE DEF b
<1>4. /\ Accounted(c) /\ Extends(b.files, c.files) /\ ~c.open
      /\ c.manifest = b.manifest
      /\ c.limit_reached = b.limit_reached
      /\ c.sample_skipping = b.sample_skipping
  BY <1>1, <1>3, ClosedInv
<1> HIDE DEF c
<1>5. Extends(s.files, c.files)
  BY <1>2, <1>3, <1>4, ExtendsTransitive
<1>6. RowsSound(c)
  BY <1>2, <1>3, <1>4, <1>5, RowsKept
<1>7. close_chunk(s) = IF chunking_active /\ c.manifest_fp /\ c.chunk_insn_count > 0
                       THEN Listed(c) ELSE c
  BY DEF close_chunk, a, b, c
<1>8. CASE chunking_active /\ c.manifest_fp /\ c.chunk_insn_count > 0
  <2>1. /\ Accounted(Listed(c)) /\ RowsSound(Listed(c))
        /\ Listed(c).files = c.files /\ ~Listed(c).open
        /\ Listed(c).limit_reached = c.limit_reached
        /\ Listed(c).sample_skipping = c.sample_skipping
    BY <1>1, <1>4, <1>6, <1>8, ListedInv
  <2>2. close_chunk(s) = Listed(c)
    BY <1>7, <1>8
  <2> QED BY <1>2, <1>3, <1>4, <1>5, <2>1, <2>2
<1>9. CASE ~(chunking_active /\ c.manifest_fp /\ c.chunk_insn_count > 0)
  <2>1. close_chunk(s) = c
    BY <1>7, <1>9
  <2> QED BY <1>2, <1>3, <1>4, <1>5, <1>6, <2>1
<1> QED BY <1>8, <1>9

(* Opening the file after a closed one.                                    *)
LEMMA NextChunkInv ==
  ASSUME NEW s \in VcpuState, Accounted(s), RowsSound(s), ~s.open,
         ~s.limit_reached, NEW ok \in BOOLEAN
  PROVE  LET t == next_chunk(s, ok)
         IN  /\ Accounted(t) /\ RowsSound(t) /\ Extends(s.files, t.files)
             /\ t.open <=> ok
             /\ t.limit_reached <=> ~ok
             /\ t.sample_skipping = s.sample_skipping
             /\ ~t.has_pending
<1> DEFINE k == s.chunk_index + 1
           n == [s EXCEPT !.chunk_index = k]
           fs == Append(s.files, EmptyChunk)
           st == IF ~sampling THEN n.insn_count
                 ELSE IF n.stream_insns > 0 THEN n.stream_insns - 1 ELSE 0
<1>1. /\ s.files \in Seq(Chunk) /\ s.chunk_index \in Nat /\ k \in Nat
      /\ Len(s.files) = k /\ ~s.has_pending /\ s.inbuf = << >>
  BY FieldTypes DEF Accounted
<1>2. EmptyChunk \in Chunk /\ ~EmptyChunk.closed /\ Len(EmptyChunk.recs) = 0
  BY DEF EmptyChunk, Chunk
<1>3. Created(s.files, k) = fs
  BY <1>1 DEF Created
<1>4. /\ Len(fs) = k + 1 /\ fs[k + 1] = EmptyChunk
      /\ DOMAIN s.files = 1 .. k /\ DOMAIN fs = 1 .. k + 1
      /\ \A j \in 1 .. k : fs[j] = s.files[j]
  BY <1>1, <1>2, LenProperties
<1>5. /\ n.files = s.files /\ n.manifest = s.manifest /\ n.chunk_index = k
      /\ n.sample_skipping = s.sample_skipping
      /\ n.has_pending = s.has_pending /\ n.open = s.open
      /\ n.limit_reached = s.limit_reached /\ n \in VcpuState
  <2>1. n \in VcpuState
    BY <1>1, SetCounter
  <2> HIDE DEF k
  <2> QED BY <2>1 DEF VcpuState
<1>6. next_chunk(s, ok) = IF ok THEN open_chunk(n) ELSE open_failed(n)
  BY DEF next_chunk
<1> HIDE DEF n, fs
<1>7. CASE ok
  <2> DEFINE t == open_chunk(n)
  <2>1. t = [n EXCEPT !.inbuf = << >>, !.open = TRUE, !.files = fs,
                      !.chunk_insn_count = 0, !.chunk_start_insn = st]
    BY <1>3, <1>5 DEF open_chunk
  <2> HIDE DEF t, st
  <2>2. /\ t.files = fs /\ t.manifest = n.manifest /\ t.open = TRUE
        /\ t.limit_reached = n.limit_reached
        /\ t.sample_skipping = n.sample_skipping /\ t.chunk_index = n.chunk_index
        /\ t.inbuf = << >> /\ t.chunk_insn_count = 0
        /\ t.has_pending = n.has_pending
    BY <1>5, <2>1 DEF VcpuState
  <2>3. Extends(s.files, t.files)
    BY <1>1, <1>4, <2>2 DEF Extends
  <2>4. RowsSound(t)
    BY <1>5, <2>2, <2>3, RowsKept
  <2>5. Accounted(t)
    <3>1. CurrentChunk(t) = EmptyChunk
      BY <1>4, <1>5, <2>2 DEF CurrentChunk
    <3>2. Len(t.inbuf) = 0
      BY <2>2
    <3> QED BY <1>1, <1>2, <1>4, <1>5, <2>2, <3>1, <3>2 DEF Accounted
  <2>6. next_chunk(s, ok) = t
    BY <1>6, <1>7 DEF t
  <2>7. /\ t.open <=> ok
        /\ t.limit_reached <=> ~ok
        /\ ~t.has_pending
        /\ t.sample_skipping = s.sample_skipping
    BY <1>1, <1>5, <1>7, <2>2
  <2> QED BY <2>3, <2>4, <2>5, <2>6, <2>7
<1>8. CASE ~ok
  <2> DEFINE t == open_failed(n)
  <2>1. t = [n EXCEPT !.inbuf = << >>, !.chunk_insn_count = 0, !.limit_reached = TRUE]
    BY DEF open_failed
  <2> HIDE DEF t
  <2>2. /\ t.files = n.files /\ t.manifest = n.manifest /\ t.open = n.open
        /\ t.limit_reached = TRUE
        /\ t.sample_skipping = n.sample_skipping /\ t.chunk_index = n.chunk_index
        /\ t.inbuf = << >> /\ t.chunk_insn_count = 0
        /\ t.has_pending = n.has_pending
    BY <1>5, <2>1 DEF VcpuState
  <2>3. Extends(s.files, t.files)
    BY <1>5, <2>2 DEF Extends
  <2>4. RowsSound(t)
    BY <1>5, <2>2, <2>3, RowsKept
  <2>5. Accounted(t)
    BY <1>1, <1>5, <2>2 DEF Accounted
  <2>6. next_chunk(s, ok) = t
    BY <1>6, <1>8 DEF t
  <2>7. /\ t.open <=> ok
        /\ t.limit_reached <=> ~ok
        /\ ~t.has_pending
        /\ t.sample_skipping = s.sample_skipping
    BY <1>1, <1>5, <1>8, <2>2
  <2> QED BY <2>3, <2>4, <2>5, <2>6, <2>7
<1> QED BY <1>7, <1>8

(* The remaining fields do not matter: a state that agrees with a sound    *)
(* one on the fields below, and is stopped if that one is, is sound.       *)
Same(s, t) ==
  /\ t.files = s.files /\ t.manifest = s.manifest /\ t.inbuf = s.inbuf
  /\ t.chunk_index = s.chunk_index /\ t.chunk_insn_count = s.chunk_insn_count
  /\ t.open <=> s.open
  /\ t.has_pending <=> s.has_pending

Sound(s) == Accounted(s) /\ RowsSound(s)

(* A step that changes nothing Sound speaks of preserves it, and setting   *)
(* limit_reached only weakens what is asked.                               *)
LEMMA SameSound ==
  ASSUME NEW s, NEW t, Sound(s), Same(s, t), s.limit_reached => t.limit_reached
  PROVE  Sound(t)
BY DEF Sound, Same, Accounted, RowsSound, CurrentChunk

(* Sound does not speak of the stream counter.                             *)
LEMMA StreamSame ==
  ASSUME NEW s \in VcpuState, NEW x
  PROVE  /\ Same(s, [s EXCEPT !.stream_insns = x])
         /\ [s EXCEPT !.stream_insns = x].limit_reached = s.limit_reached
         /\ [s EXCEPT !.stream_insns = x].sample_skipping = s.sample_skipping
BY DEF VcpuState, Same

(* Nor of the progress of the window or gap.                               *)
LEMMA PhaseSame ==
  ASSUME NEW s \in VcpuState, NEW x
  PROVE  /\ Same(s, [s EXCEPT !.sample_phase_insns = x])
         /\ [s EXCEPT !.sample_phase_insns = x].limit_reached = s.limit_reached
         /\ [s EXCEPT !.sample_phase_insns = x].sample_skipping = s.sample_skipping
BY DEF VcpuState, Same

(* Nor of the number of windows done.                                      *)
LEMMA WindowsSame ==
  ASSUME NEW s \in VcpuState, NEW x
  PROVE  /\ Same(s, [s EXCEPT !.sample_windows_done = x])
         /\ [s EXCEPT !.sample_windows_done = x].limit_reached = s.limit_reached
         /\ [s EXCEPT !.sample_windows_done = x].sample_skipping = s.sample_skipping
BY DEF VcpuState, Same

(* Nor of the end of sampling.                                             *)
LEMMA FinishedSame ==
  ASSUME NEW s \in VcpuState, NEW x
  PROVE  /\ Same(s, [s EXCEPT !.sample_finished = x])
         /\ [s EXCEPT !.sample_finished = x].limit_reached = s.limit_reached
         /\ [s EXCEPT !.sample_finished = x].sample_skipping = s.sample_skipping
BY DEF VcpuState, Same

(* Nor of what the pending record holds.                                   *)
LEMMA PendingSame ==
  ASSUME NEW s \in VcpuState, NEW x
  PROVE  /\ Same(s, [s EXCEPT !.pending = x])
         /\ [s EXCEPT !.pending = x].limit_reached = s.limit_reached
         /\ [s EXCEPT !.pending = x].sample_skipping = s.sample_skipping
BY DEF VcpuState, Same

(* Nor of the limit.                                                       *)
LEMMA LimitSame ==
  ASSUME NEW s \in VcpuState, NEW x
  PROVE  /\ Same(s, [s EXCEPT !.limit_reached = x])
         /\ [s EXCEPT !.limit_reached = x].limit_reached = x
         /\ [s EXCEPT !.limit_reached = x].sample_skipping = s.sample_skipping
BY DEF VcpuState, Same

(* Nor of being in a gap.                                                  *)
LEMMA SkippingSame ==
  ASSUME NEW s \in VcpuState, NEW x
  PROVE  /\ Same(s, [s EXCEPT !.sample_skipping = x])
         /\ [s EXCEPT !.sample_skipping = x].sample_skipping = x
         /\ [s EXCEPT !.sample_skipping = x].limit_reached = s.limit_reached
BY DEF VcpuState, Same

(* Storing the pending instruction counts it in the open chunk.            *)
LEMMA StoreInv ==
  ASSUME NEW s \in VcpuState, Sound(s), s.open, NEW pos, NEW user
  PROVE  LET t == store_pending(s, pos, user)
         IN  Sound(t) /\ t.open /\ t.sample_skipping = s.sample_skipping
<1> DEFINE r == [pos |-> pos, user |-> user, ops |-> << >>]
           t == store_pending(s, pos, user)
<1>1. t = [s EXCEPT !.has_pending = TRUE, !.pending = r]
  BY DEF store_pending
<1> HIDE DEF t, r
<1>2. /\ t.files = s.files /\ t.manifest = s.manifest /\ t.inbuf = s.inbuf
      /\ t.chunk_index = s.chunk_index /\ t.chunk_insn_count = s.chunk_insn_count
      /\ t.open = s.open
      /\ t.limit_reached = s.limit_reached
      /\ t.sample_skipping = s.sample_skipping
  BY <1>1 DEF VcpuState
<1>3. Sound(t)
  BY <1>2 DEF Sound, Accounted, RowsSound, CurrentChunk
<1> QED BY <1>2, <1>3 DEF t

(* A captured instruction leaves the file open, or the vCPU stopped.       *)
LEMMA CaptureInv ==
  ASSUME ~disk_full, NEW s \in VcpuState, Sound(s), s.open, ~s.limit_reached,
         NEW pos, NEW user, NEW ok \in BOOLEAN
  PROVE  LET t == capture(s, pos, user, ok)
         IN  /\ Sound(t)
             /\ ~t.open => t.limit_reached
             /\ t.sample_skipping = s.sample_skipping
<1> DEFINE t == capture(s, pos, user, ok)
           a == [s EXCEPT !.limit_reached = TRUE]
           c == close_chunk(s)
           n == next_chunk(c, ok)
<1>1. CASE knobs.insn_limit > 0 /\ s.insn_count >= knobs.insn_limit
  <2>1. t = flush_buffer(a)
    BY <1>1 DEF capture
  <2>2. a \in VcpuState
    BY SetFlag
  <2>3. Same(s, a) /\ a.limit_reached = TRUE /\ a.sample_skipping = s.sample_skipping
    BY LimitSame
  <2> HIDE DEF a
  <2>4. Sound(a)
    BY <2>3, SameSound
  <2> HIDE DEF t
  <2>5. /\ Accounted(t) /\ Extends(a.files, t.files) /\ t.manifest = a.manifest
        /\ t.limit_reached = a.limit_reached
        /\ t.sample_skipping = a.sample_skipping
    BY <2>1, <2>2, <2>4, FlushInv DEF Sound
  <2>6. RowsSound(t)
    BY <2>4, <2>5, RowsKept DEF Sound
  <2> QED BY <2>3, <2>5, <2>6 DEF t, Sound
<1>2. CASE /\ ~(knobs.insn_limit > 0 /\ s.insn_count >= knobs.insn_limit)
           /\ knobs.rotate_interval > 0 /\ s.chunk_insn_count >= knobs.rotate_interval
  <2>1. t = IF ok THEN store_pending(n, pos, user) ELSE n
    BY <1>2 DEF capture
  <2>2. /\ c \in VcpuState /\ Sound(c) /\ ~c.open /\ ~c.limit_reached
        /\ c.sample_skipping = s.sample_skipping
    BY CloseType, CloseInv DEF Sound
  <2> HIDE DEF c
  <2>3. /\ n \in VcpuState /\ Sound(n)
        /\ n.open <=> ok
        /\ n.limit_reached <=> ~ok
        /\ n.sample_skipping = c.sample_skipping
    BY <2>2, NextChunkType, NextChunkInv DEF Sound
  <2> HIDE DEF n
  <2>4. CASE ok
    BY <2>1, <2>2, <2>3, <2>4, StoreInv
  <2>5. CASE ~ok
    <3>1. t = n
      BY <2>1, <2>5
    <3> HIDE DEF t
    <3> QED BY <2>2, <2>3, <2>5, <3>1 DEF t
  <2> QED BY <2>4, <2>5
<1>3. CASE /\ ~(knobs.insn_limit > 0 /\ s.insn_count >= knobs.insn_limit)
           /\ ~(knobs.rotate_interval > 0 /\ s.chunk_insn_count >= knobs.rotate_interval)
  <2>1. t = store_pending(s, pos, user)
    BY <1>3 DEF capture
  <2> HIDE DEF t
  <2> QED BY <2>1, StoreInv DEF t
<1> QED BY <1>1, <1>2, <1>3

(* A new window starts with an open file, or the vCPU stops.               *)
LEMMA BeginWindowInv ==
  ASSUME ~disk_full, NEW s \in VcpuState, Sound(s), ~s.open, ~s.limit_reached,
         NEW pos, NEW user, NEW ok \in BOOLEAN
  PROVE  LET t == begin_window(s, pos, user, ok)
         IN  /\ Sound(t)
             /\ ~t.open => t.limit_reached
             /\ ~t.sample_skipping
<1> DEFINE a == [s EXCEPT !.sample_skipping = FALSE]
           b == [a EXCEPT !.sample_phase_insns = 0]
           n == next_chunk(b, ok)
           f == finalize_pending_insn(n)
           t == begin_window(s, pos, user, ok)
<1>1. /\ a \in VcpuState /\ Same(s, a) /\ a.limit_reached = s.limit_reached
      /\ a.sample_skipping = FALSE
  BY SetFlag, SkippingSame
<1>2. t = IF ok THEN capture(f, pos, user, ok) ELSE n
  BY DEF begin_window
<1> HIDE DEF a, t
<1>3. /\ b \in VcpuState /\ Same(a, b) /\ b.limit_reached = a.limit_reached
      /\ b.sample_skipping = a.sample_skipping
  BY <1>1, SetCounter, PhaseSame
<1> HIDE DEF b
<1>4. Sound(b) /\ ~b.open /\ ~b.limit_reached /\ ~b.sample_skipping
  <2>1. Sound(a)
    BY <1>1, SameSound
  <2>2. Sound(b)
    BY <1>3, <2>1, SameSound
  <2> QED BY <1>1, <1>3, <2>2 DEF Same
<1>5. /\ n \in VcpuState /\ Sound(n)
      /\ n.open <=> ok
      /\ n.limit_reached <=> ~ok
      /\ n.sample_skipping = b.sample_skipping
  BY <1>3, <1>4, NextChunkType, NextChunkInv DEF Sound
<1> HIDE DEF n
<1>6. CASE ok
  <2>1. /\ f \in VcpuState /\ Accounted(f) /\ Extends(n.files, f.files)
        /\ f.manifest = n.manifest /\ f.open = n.open
        /\ f.limit_reached = n.limit_reached
        /\ f.sample_skipping = n.sample_skipping
    BY <1>5, FinalizeType, FinalizeInv DEF Sound
  <2> HIDE DEF f
  <2>2. Sound(f)
    BY <1>5, <2>1, RowsKept DEF Sound
  <2>3. t = capture(f, pos, user, ok)
    BY <1>2, <1>6
  <2>4. f.open /\ ~f.limit_reached /\ ~f.sample_skipping
    BY <1>4, <1>5, <1>6, <2>1
  <2>5. Sound(t) /\ (~t.open => t.limit_reached) /\ t.sample_skipping = f.sample_skipping
    BY <2>1, <2>2, <2>3, <2>4, CaptureInv
  <2> QED BY <2>4, <2>5 DEF t
<1>7. CASE ~ok
  <2>1. t = n
    BY <1>2, <1>7
  <2> QED BY <1>4, <1>5, <1>7, <2>1 DEF t
<1> QED BY <1>6, <1>7

(* The end of a window closes the chunk.                                   *)
LEMMA EndWindowInv ==
  ASSUME ~disk_full, NEW s \in VcpuState, Sound(s)
  PROVE  LET t == end_window(s)
         IN  /\ Sound(t) /\ ~t.open
             /\ t.limit_reached = s.limit_reached
             /\ t.sample_skipping = s.sample_skipping
<1> DEFINE c == close_chunk(s)
           n == c.sample_windows_done + 1
           d == [c EXCEPT !.sample_windows_done = n]
           t == [d EXCEPT !.sample_phase_insns = 0]
<1>1. end_window(s) = t
  BY DEF end_window
<1>2. /\ c \in VcpuState /\ Sound(c) /\ ~c.open
      /\ c.limit_reached = s.limit_reached /\ c.sample_skipping = s.sample_skipping
  BY CloseType, CloseInv DEF Sound
<1> HIDE DEF c
<1>3. n \in Nat
  BY <1>2, FieldTypes
<1> HIDE DEF n
<1>4. /\ d \in VcpuState /\ Same(c, d) /\ d.limit_reached = c.limit_reached
      /\ d.sample_skipping = c.sample_skipping
  BY <1>2, <1>3, SetCounter, WindowsSame
<1> HIDE DEF d
<1>5. /\ Same(d, t) /\ t.limit_reached = d.limit_reached
      /\ t.sample_skipping = d.sample_skipping
  BY <1>4, PhaseSame
<1> HIDE DEF t
<1>6. Sound(d)
  BY <1>2, <1>4, SameSound
<1>7. Sound(t) /\ ~t.open
  BY <1>2, <1>4, <1>5, <1>6, SameSound DEF Same
<1> QED BY <1>1, <1>2, <1>4, <1>5, <1>7

(* A gap starts with the chunk closed.                                     *)
LEMMA EnterGapInv ==
  ASSUME ~disk_full, NEW s \in VcpuState, Sound(s)
  PROVE  LET t == enter_gap(s)
         IN  /\ Sound(t) /\ ~t.open /\ t.sample_skipping = TRUE
             /\ t.limit_reached = s.limit_reached
<1> DEFINE e == end_window(s)
           t == [e EXCEPT !.sample_skipping = TRUE]
<1>1. enter_gap(s) = t
  BY DEF enter_gap
<1>2. /\ e \in VcpuState /\ Sound(e) /\ ~e.open /\ e.limit_reached = s.limit_reached
  BY WindowTypes, EndWindowInv
<1> HIDE DEF e
<1>3. Same(e, t) /\ t.sample_skipping = TRUE /\ t.limit_reached = e.limit_reached
  BY <1>2, SkippingSame
<1> HIDE DEF t
<1>4. Sound(t) /\ ~t.open
  BY <1>2, <1>3, SameSound DEF Same
<1> QED BY <1>1, <1>2, <1>3, <1>4

(* After the last window nothing is captured any more.                     *)
LEMMA FinishSamplingInv ==
  ASSUME ~disk_full, NEW s \in VcpuState, Sound(s)
  PROVE  LET t == finish_sampling(s)
         IN  /\ Sound(t) /\ ~t.open /\ t.limit_reached = TRUE
             /\ t.sample_skipping = s.sample_skipping
<1> DEFINE e == end_window(s)
           d == [e EXCEPT !.sample_finished = TRUE]
           l == [d EXCEPT !.limit_reached = TRUE]
           t == [l EXCEPT !.chunk_insn_count = 0]
<1>1. finish_sampling(s) = t
  BY DEF finish_sampling
<1>2. /\ e \in VcpuState /\ Sound(e) /\ ~e.open
      /\ e.sample_skipping = s.sample_skipping
  BY WindowTypes, EndWindowInv
<1> HIDE DEF e
<1>3. /\ d \in VcpuState /\ Same(e, d) /\ d.limit_reached = e.limit_reached
      /\ d.sample_skipping = e.sample_skipping
  BY <1>2, SetFlag, FinishedSame
<1> HIDE DEF d
<1>4. /\ l \in VcpuState /\ Same(d, l) /\ l.limit_reached = TRUE
      /\ l.sample_skipping = d.sample_skipping
  BY <1>3, SetFlag, LimitSame
<1> HIDE DEF l
<1>5. Sound(l) /\ ~l.open
  <2>1. Sound(d)
    BY <1>2, <1>3, SameSound
  <2>2. Sound(l)
    BY <1>4, <2>1, SameSound
  <2> QED BY <1>2, <1>3, <1>4, <2>2 DEF Same
<1>6. /\ t.files = l.files /\ t.manifest = l.manifest /\ t.inbuf = l.inbuf
      /\ t.open = l.open
      /\ t.has_pending = l.has_pending /\ t.chunk_insn_count = 0
      /\ t.limit_reached = l.limit_reached
      /\ t.sample_skipping = l.sample_skipping
  BY <1>4 DEF VcpuState
<1> HIDE DEF t
<1>7. Sound(t)
  <2>1. Accounted(l) /\ RowsSound(l) /\ ~t.open /\ t.limit_reached
    BY <1>4, <1>5, <1>6 DEF Sound
  <2>2. ~t.has_pending /\ t.inbuf = << >>
    BY <1>5, <1>6, <2>1 DEF Accounted
  <2>3. Accounted(t)
    BY <1>6, <2>1, <2>2 DEF Accounted
  <2>4. RowsSound(t)
    BY <1>6, <2>1 DEF RowsSound
  <2> QED BY <2>3, <2>4 DEF Sound
<1> QED BY <1>1, <1>2, <1>3, <1>4, <1>5, <1>6, <1>7

(* An instruction of the gap is only counted.                              *)
LEMMA TickInv ==
  ASSUME NEW s \in VcpuState, Sound(s), NEW user
  PROVE  LET t == tick_gap(s, user)
         IN  /\ Sound(t) /\ t.open = s.open
             /\ t.limit_reached = s.limit_reached
             /\ t.sample_skipping = s.sample_skipping
<1> DEFINE n == s.sample_phase_insns + 1
           t == [s EXCEPT !.sample_phase_insns = n]
<1>1. tick_gap(s, user) = IF ~knobs.clock_user \/ user THEN t ELSE s
  BY DEF tick_gap
<1> HIDE DEF n
<1>2. /\ Same(s, t) /\ t.limit_reached = s.limit_reached
      /\ t.sample_skipping = s.sample_skipping /\ t.open = s.open
  BY PhaseSame DEF VcpuState
<1> HIDE DEF t
<1>3. Sound(t)
  BY <1>2, SameSound
<1> QED BY <1>1, <1>2, <1>3

(* The start of every counted callback: the pending instruction is stored. *)
LEMMA SeenInv ==
  ASSUME ~disk_full, NEW v, vs[v] \in VcpuState, Sound(vs[v])
  PROVE  LET t == finalize_pending_insn(Counted(v))
         IN  /\ t \in VcpuState /\ Sound(t) /\ t.open = vs[v].open
             /\ t.limit_reached = vs[v].limit_reached
             /\ t.sample_skipping = vs[v].sample_skipping
<1> DEFINE c == Counted(v)
           n == vs[v].stream_insns + 1
           t == finalize_pending_insn(c)
<1>1. c \in VcpuState
  BY CountedType
<1>2. c = [vs[v] EXCEPT !.stream_insns = n]
  BY DEF Counted
<1> HIDE DEF c, n
<1>3. /\ Same(vs[v], c) /\ c.limit_reached = vs[v].limit_reached
      /\ c.sample_skipping = vs[v].sample_skipping /\ c.open = vs[v].open
  BY <1>2, StreamSame DEF VcpuState
<1>4. Sound(c)
  BY <1>3, SameSound
<1>5. /\ t \in VcpuState /\ Accounted(t) /\ Extends(c.files, t.files)
      /\ t.manifest = c.manifest /\ t.open = c.open
      /\ t.limit_reached = c.limit_reached
      /\ t.sample_skipping = c.sample_skipping
  BY <1>1, <1>4, FinalizeType, FinalizeInv DEF Sound
<1> HIDE DEF t
<1>6. RowsSound(t)
  BY <1>4, <1>5, RowsKept DEF Sound
<1> QED BY <1>3, <1>5, <1>6 DEF Sound, c, t

(* A new vCPU has empty books, and records or has failed to open its file. *)
LEMMA InitSound ==
  ASSUME NEW fp \in BOOLEAN
  PROVE  Sound(InitVcpu(fp)) /\ Recording(InitVcpu(fp))
<1> DEFINE z == [ open |-> FALSE, inbuf |-> << >>, has_pending |-> FALSE,
                  pending |-> NoRecord, insn_count |-> 0, chunk_insn_count |-> 0,
                  chunk_index |-> 0, chunk_start_insn |-> 0, stream_insns |-> 0,
                  limit_reached |-> FALSE, sample_skipping |-> FALSE,
                  sample_phase_insns |-> 0, sample_windows_done |-> 0,
                  sample_finished |-> FALSE, manifest_fp |-> fp,
                  files |-> << >>, manifest |-> << >> ]
           st == IF ~sampling THEN z.insn_count
                 ELSE IF z.stream_insns > 0 THEN z.stream_insns - 1 ELSE 0
           t == InitVcpu(fp)
<1>1. z \in VcpuState
  <2>1. NoRecord \in Record
    BY DEF NoRecord, Record
  <2> QED BY <2>1 DEF VcpuState
<1>2. /\ z.files = << >> /\ z.manifest = << >> /\ z.chunk_index = 0
      /\ z.has_pending = FALSE /\ z.limit_reached = FALSE
      /\ z.sample_skipping = FALSE
  OBVIOUS
<1>3. Created(z.files, z.chunk_index) = << EmptyChunk >>
  <2>1. Created(<< >>, 0) = << EmptyChunk >>
    BY DEF Created
  <2> HIDE DEF z
  <2> QED BY <1>2, <2>1
<1>4. t = open_chunk(z)
  BY DEF InitVcpu
<1> HIDE DEF z, t
<1>5. t = [z EXCEPT !.inbuf = << >>, !.open = TRUE, !.files = << EmptyChunk >>,
                    !.chunk_insn_count = 0, !.chunk_start_insn = st]
  BY <1>3, <1>4 DEF open_chunk
<1> HIDE DEF st
<1>6. /\ t.files = << EmptyChunk >> /\ t.manifest = << >> /\ t.chunk_index = 0
      /\ t.open = TRUE /\ t.inbuf = << >> /\ t.chunk_insn_count = 0
      /\ t.has_pending = FALSE /\ t.limit_reached = FALSE
      /\ t.sample_skipping = FALSE
  BY <1>1, <1>2, <1>5 DEF VcpuState
<1>7. CurrentChunk(t) = EmptyChunk
  BY <1>6 DEF CurrentChunk
<1>8. EmptyChunk.closed = FALSE /\ Len(EmptyChunk.recs) = 0
  BY DEF EmptyChunk
<1>9. Accounted(t)
  BY <1>6, <1>7, <1>8 DEF Accounted
<1>10. RowsSound(t) /\ Recording(t)
  BY <1>6 DEF RowsSound, Recording
<1> QED BY <1>9, <1>10 DEF Sound, t

(* What a step has to establish for the vCPU whose state it changes.       *)
RecorderSound(s) == Sound(s) /\ Recording(s)

(* RecorderInv, one vCPU at a time.                                        *)
LEMMA RecorderInvIs ==
  ASSUME ~disk_full
  PROVE  RecorderInv <=> \A v \in VCPUS : Sound(vs[v]) /\ (run = "running" => Recording(vs[v]))
<1> DEFINE Books(v) == /\ Accounted(vs[v]) /\ RowsSound(vs[v])
                       /\ run = "running" => Recording(vs[v])
<1>1. RecorderInv <=> \A v \in VCPUS : Books(v)
  BY DEF RecorderInv
<1>2. \A v \in VCPUS :
        Books(v) <=> (Sound(vs[v]) /\ (run = "running" => Recording(vs[v])))
  BY DEF Sound
<1> HIDE DEF Books
<1> QED BY <1>1, <1>2

(* RecorderInv after a step, one vCPU at a time.                           *)
LEMMA RecorderInvNext ==
  ASSUME knobs' = knobs,
         \A v \in VCPUS : Sound(vs'[v]) /\ (run' = "running" => Recording(vs'[v]))
  PROVE  RecorderInv'
<1> SUFFICES ASSUME NEW v \in VCPUS
             PROVE  /\ Accounted(vs[v])'
                    /\ RowsSound(vs[v])'
                    /\ (run = "running" => Recording(vs[v]))'
  BY DEF RecorderInv
<1>1. Accounted(vs[v])'
  BY DEF Sound, Accounted, CurrentChunk
<1>2. RowsSound(vs[v])'
  BY DEF Sound, RowsSound
<1>3. (run = "running" => Recording(vs[v]))'
  BY DEF Recording, sampling
<1> QED BY <1>1, <1>2, <1>3

(* A callback of one vCPU leaves the books of the others alone.            *)
LEMMA CallbackInv ==
  ASSUME ~disk_full, TypeOK, RecorderInv, NEW v \in VCPUS, NEW s, Update(v, s), RecorderSound(s)
  PROVE  RecorderInv'
<1>1. \A w \in VCPUS : Sound(vs'[w]) /\ (run' = "running" => Recording(vs'[w]))
  <2> SUFFICES ASSUME NEW w \in VCPUS
               PROVE  Sound(vs'[w]) /\ (run' = "running" => Recording(vs'[w]))
    OBVIOUS
  <2>1. CASE w = v
    BY <2>1 DEF Update, TypeOK, RecorderSound
  <2>2. CASE w # v
    <3>1. vs'[w] = vs[w] /\ run' = run
      BY <2>2 DEF Update, TypeOK
    <3> QED BY <3>1, RecorderInvIs
  <2> QED BY <2>1, <2>2
<1> QED BY <1>1, RecorderInvNext DEF Update

(* Every path through insn_exec_cb keeps the books.                        *)
LEMMA InsnInv ==
  ASSUME ~disk_full, TypeOK, RecorderInv, NEW v \in VCPUS, NEW user \in BOOLEAN, NEW ok \in BOOLEAN,
         \/ SkipInsn(v, user) \/ AwaitUserInsn(v, user)
         \/ BeginWindowInsn(v, user, ok) \/ CaptureInsn(v, user, ok)
         \/ EndWindowInsn(v, user, ok)
  PROVE  RecorderInv'
<1> DEFINE pos == Len(guest[v].hist) + 1
           c == finalize_pending_insn(Counted(v))
           g == enter_gap(c)
<1>1. run = "running" /\ ~vs[v].limit_reached
  BY DEF SkipInsn, AwaitUserInsn, BeginWindowInsn, CaptureInsn, EndWindowInsn,
         Seen, Execute
<1>2. /\ vs[v] \in VcpuState /\ Sound(vs[v])
      /\ vs[v].sample_skipping => sampling
      /\ ~vs[v].open => vs[v].sample_skipping
      /\ vs[v].sample_skipping => ~vs[v].open
  BY <1>1, RecorderInvIs DEF TypeOK, Recording
<1>3. /\ c \in VcpuState /\ Sound(c) /\ c.open = vs[v].open
      /\ ~c.limit_reached
      /\ c.sample_skipping = vs[v].sample_skipping
  BY <1>1, <1>2, SeenInv
<1> HIDE DEF c, pos
<1>4. /\ g \in VcpuState /\ Sound(g) /\ ~g.open /\ g.sample_skipping = TRUE
      /\ ~g.limit_reached
  BY <1>3, WindowTypes, EnterGapInv
<1> HIDE DEF g
<1>5. CASE SkipInsn(v, user)
  <2> DEFINE t == tick_gap(c, user)
  <2>1. Update(v, t)
    BY <1>5 DEF SkipInsn, c
  <2>2. /\ Sound(t) /\ t.open = c.open /\ t.limit_reached = c.limit_reached
        /\ t.sample_skipping = c.sample_skipping
    BY <1>3, TickInv
  <2> HIDE DEF t
  <2>3. RecorderSound(t)
    BY <1>2, <1>3, <2>2 DEF RecorderSound, Recording
  <2> QED BY <2>1, <2>3, CallbackInv
<1>6. CASE AwaitUserInsn(v, user)
  <2>1. Update(v, c)
    BY <1>6 DEF AwaitUserInsn, c
  <2>2. RecorderSound(c)
    BY <1>2, <1>3 DEF RecorderSound, Recording
  <2> QED BY <2>1, <2>2, CallbackInv
<1>7. CASE BeginWindowInsn(v, user, ok)
  <2> DEFINE t == begin_window(c, pos, user, ok)
  <2>1. Update(v, t) /\ ~c.open
    BY <1>2, <1>3, <1>7 DEF BeginWindowInsn, InGap, c, pos
  <2>2. Sound(t) /\ (~t.open => t.limit_reached) /\ ~t.sample_skipping
    BY <1>3, <2>1, BeginWindowInv
  <2> HIDE DEF t
  <2>3. RecorderSound(t)
    BY <2>2 DEF RecorderSound, Recording
  <2> QED BY <2>1, <2>3, CallbackInv
<1>8. CASE CaptureInsn(v, user, ok)
  <2> DEFINE t == capture(c, pos, user, ok)
  <2>1. Update(v, t) /\ c.open /\ ~c.sample_skipping
    BY <1>2, <1>3, <1>8 DEF CaptureInsn, InWindow, c, pos
  <2>2. /\ Sound(t)
        /\ ~t.open => t.limit_reached
        /\ t.sample_skipping = c.sample_skipping
    BY <1>3, <2>1, CaptureInv
  <2> HIDE DEF t
  <2>3. RecorderSound(t)
    BY <2>1, <2>2 DEF RecorderSound, Recording
  <2> QED BY <2>1, <2>3, CallbackInv
<1>9. CASE EndWindowInsn(v, user, ok)
  <2>1. /\ sampling
        /\ ~c.sample_skipping
        /\ \/ Update(v, finish_sampling(c))
           \/ Update(v, tick_gap(g, user))
           \/ Update(v, g)
           \/ Update(v, begin_window(g, pos, user, ok))
    BY <1>2, <1>3, <1>9 DEF EndWindowInsn, InWindow, c, g, pos
  <2>2. RecorderSound(finish_sampling(c))
    <3> DEFINE t == finish_sampling(c)
    <3>1. /\ Sound(t) /\ ~t.open /\ t.limit_reached = TRUE
          /\ t.sample_skipping = c.sample_skipping
      BY <1>3, FinishSamplingInv
    <3> HIDE DEF t
    <3>2. RecorderSound(t)
      BY <2>1, <3>1 DEF RecorderSound, Recording
    <3> QED BY <3>2 DEF t
  <2>3. RecorderSound(tick_gap(g, user))
    <3> DEFINE t == tick_gap(g, user)
    <3>1. /\ Sound(t) /\ t.open = g.open /\ t.limit_reached = g.limit_reached
          /\ t.sample_skipping = g.sample_skipping
      BY <1>4, TickInv
    <3> HIDE DEF t
    <3>2. RecorderSound(t)
      BY <1>4, <2>1, <3>1 DEF RecorderSound, Recording
    <3> QED BY <3>2 DEF t
  <2>4. RecorderSound(g)
    BY <1>4, <2>1 DEF RecorderSound, Recording
  <2>5. RecorderSound(begin_window(g, pos, user, ok))
    <3> DEFINE t == begin_window(g, pos, user, ok)
    <3>1. Sound(t) /\ (~t.open => t.limit_reached) /\ ~t.sample_skipping
      BY <1>4, BeginWindowInv
    <3> HIDE DEF t
    <3>2. RecorderSound(t)
      BY <3>1 DEF RecorderSound, Recording
    <3> QED BY <3>2 DEF t
  <2> QED BY <2>1, <2>2, <2>3, <2>4, <2>5, CallbackInv
<1> QED BY <1>5, <1>6, <1>7, <1>8, <1>9

(* mem_cb only adds an operand to the pending record.                      *)
LEMMA MemInv ==
  ASSUME ~disk_full, TypeOK, RecorderInv, NEW v \in VCPUS, mem_cb(v)
  PROVE  RecorderInv'
<1> DEFINE s == vs[v]
           p == [s.pending EXCEPT !.ops = Append(s.pending.ops, guest[v].cur)]
           t == [s EXCEPT !.pending = p]
<1>1. s \in VcpuState /\ Sound(s) /\ Recording(s)
  BY RecorderInvIs DEF TypeOK, mem_cb
<1>2. vs' = vs \/ vs' = [vs EXCEPT ![v] = t]
  BY DEF mem_cb
<1>3. /\ Same(s, t) /\ t.limit_reached = s.limit_reached
      /\ t.sample_skipping = s.sample_skipping /\ t.open = s.open
  <2> HIDE DEF s, p
  <2> QED BY <1>1, PendingSame DEF VcpuState
<1> HIDE DEF s, t
<1>4. Sound(t)
  BY <1>1, <1>3, SameSound
<1>5. Recording(t)
  BY <1>1, <1>3 DEF Recording
<1>6. \A w \in VCPUS : Sound(vs'[w]) /\ (run' = "running" => Recording(vs'[w]))
  <2> SUFFICES ASSUME NEW w \in VCPUS
               PROVE  Sound(vs'[w]) /\ (run' = "running" => Recording(vs'[w]))
    OBVIOUS
  <2>1. vs'[w] = vs[w] \/ vs'[w] = t
    BY <1>2 DEF TypeOK
  <2>2. run' = run
    BY DEF mem_cb
  <2> QED BY <1>4, <1>5, <2>1, <2>2, RecorderInvIs
<1> QED BY <1>6, RecorderInvNext DEF mem_cb

(* A full disk stays full.                                                 *)
LEMMA DiskStaysFull ==
  ASSUME disk_full, [Next]_vars
  PROVE  disk_full'
<1>1. disk_full' = disk_full \/ disk_full' = TRUE
  <2>1. ASSUME NEW v \in VCPUS, insn_exec_cb(v) PROVE disk_full' = disk_full
    BY <2>1 DEF insn_exec_cb, DormantInsn, StoppedInsn, SkipInsn, AwaitUserInsn,
       BeginWindowInsn, CaptureInsn, EndWindowInsn, Update
  <2>2. ASSUME NEW v \in VCPUS, mem_cb(v) PROVE disk_full' = disk_full
    BY <2>2 DEF mem_cb
  <2>3. CASE plugin_atexit \/ Kill \/ DiskFills \/ UNCHANGED vars
    BY <2>3 DEF plugin_atexit, Kill, DiskFills, vars
  <2> QED BY <2>1, <2>2, <2>3 DEF Next
<1> QED BY <1>1, Zenon

(* Every step keeps the accounts until the disk fills up.                  *)
LEMMA RecorderInductive ==
  ASSUME TypeOK, RecorderInv, [Next]_vars
  PROVE  RecorderInv'
<1>0. CASE disk_full
  BY <1>0, DiskStaysFull DEF RecorderInv
<1> SUFFICES ASSUME ~disk_full PROVE RecorderInv'
  BY <1>0
<1>1. ASSUME NEW v \in VCPUS, DormantInsn(v) PROVE RecorderInv'
  BY <1>1, RecorderInvIs, RecorderInvNext DEF DormantInsn
<1>2. ASSUME NEW v \in VCPUS, NEW user \in BOOLEAN, StoppedInsn(v, user)
      PROVE RecorderInv'
  BY <1>2, RecorderInvIs, RecorderInvNext DEF StoppedInsn
<1>3. ASSUME NEW v \in VCPUS, NEW user \in BOOLEAN, NEW ok \in BOOLEAN,
             \/ SkipInsn(v, user) \/ AwaitUserInsn(v, user)
             \/ BeginWindowInsn(v, user, ok) \/ CaptureInsn(v, user, ok)
             \/ EndWindowInsn(v, user, ok)
      PROVE RecorderInv'
  BY <1>3, InsnInv
<1>4. ASSUME NEW v \in VCPUS, mem_cb(v) PROVE RecorderInv'
  BY <1>4, MemInv
<1>5. CASE plugin_atexit
  <2>1. run' # "running" /\ vs' = [v \in VCPUS |-> close_chunk(vs[v])]
    BY <1>5 DEF plugin_atexit
  <2>2. \A v \in VCPUS : Sound(close_chunk(vs[v]))
    BY RecorderInvIs, CloseInv DEF TypeOK, Sound
  <2>3. \A v \in VCPUS : Sound(vs'[v])
    BY <2>1, <2>2
  <2> QED BY <1>5, <2>1, <2>3, RecorderInvNext DEF plugin_atexit
<1>6. CASE Kill
  BY <1>6, RecorderInvIs, RecorderInvNext DEF Kill
<1>7. CASE DiskFills
  BY <1>7 DEF DiskFills, RecorderInv
<1>8. CASE UNCHANGED vars
  BY <1>8, RecorderInvIs, RecorderInvNext DEF vars
<1> QED BY <1>1, <1>2, <1>3, <1>4, <1>5, <1>6, <1>7, <1>8 DEF Next, insn_exec_cb

(* While the disk has room, a manifest row is a guarantee: its chunk is a  *)
(* closed file with exactly that many records, for any set of vCPUs, knob  *)
(* values and buffer size, and for failing opens, an exit or a kill at any *)
(* moment.                                                                 *)
THEOREM ManifestIsSound == Spec => []ManifestSound
<1>1. Init => RecorderInv
  <2> SUFFICES ASSUME Init PROVE RecorderInv
    OBVIOUS
  <2>1. ~disk_full /\ \A v \in VCPUS : Sound(vs[v]) /\ Recording(vs[v])
    BY InitSound DEF Init
  <2> QED BY <2>1, RecorderInvIs
<1>2. TypeOK /\ RecorderInv /\ [Next]_vars => RecorderInv'
  BY RecorderInductive
<1>3. RecorderInv => ManifestSound
  <2> SUFFICES ASSUME RecorderInv, ~disk_full PROVE \A v \in VCPUS : RowsSound(vs[v])
    BY Zenon DEF ManifestSound
  <2> QED BY DEF RecorderInv
<1> QED BY <1>1, <1>2, <1>3, TypeCorrect, PTL DEF Spec

---------------------------------------------------------------------------
(* What the functions of the recorder leave alone, whatever the disk does. *)

(* The fields that storing records in the chunk file does not touch.       *)
Kept(s, t) ==
  /\ t.open = s.open /\ t.pending = s.pending
  /\ t.chunk_index = s.chunk_index
  /\ t.chunk_start_insn = s.chunk_start_insn
  /\ t.stream_insns = s.stream_insns
  /\ t.limit_reached = s.limit_reached
  /\ t.sample_skipping = s.sample_skipping
  /\ t.manifest_fp = s.manifest_fp /\ t.manifest = s.manifest

(* flush_buffer empties the buffer of an open file and changes only files. *)
LEMMA FlushKeeps ==
  ASSUME NEW s \in VcpuState
  PROVE  LET t == flush_buffer(s)
         IN  /\ Kept(s, t)
             /\ t.has_pending = s.has_pending
             /\ t.insn_count = s.insn_count
             /\ t.chunk_insn_count = s.chunk_insn_count
             /\ ~s.open => t = s
             /\ s.open => t.inbuf = << >>
<1> DEFINE t == flush_buffer(s)
           fs == [s.files EXCEPT ![s.chunk_index + 1].recs =
                     IF disk_full THEN @ ELSE @ \o s.inbuf]
<1>1. t = IF ~s.open THEN s ELSE [s EXCEPT !.files = fs, !.inbuf = << >>]
  BY DEF flush_buffer
<1> HIDE DEF t, fs
<1> SUFFICES /\ Kept(s, t)
             /\ t.has_pending = s.has_pending
             /\ t.insn_count = s.insn_count
             /\ t.chunk_insn_count = s.chunk_insn_count
             /\ ~s.open => t = s
             /\ s.open => t.inbuf = << >>
  BY DEF t
<1>2. CASE ~s.open
  BY <1>1, <1>2 DEF Kept
<1>3. CASE s.open
  BY <1>1, <1>3 DEF Kept, VcpuState
<1> QED BY <1>2, <1>3

(* finalize_pending_insn as one record update of the state it appends to.  *)
Room(s) == IF Len(s.inbuf) >= FlushThreshold THEN flush_buffer(s) ELSE s

(* Making room in the buffer moves records, and nothing else.              *)
LEMMA RoomKeeps ==
  ASSUME NEW s \in VcpuState
  PROVE  LET f == Room(s)
         IN  /\ f \in VcpuState /\ Kept(s, f)
             /\ f.has_pending = s.has_pending
             /\ f.insn_count = s.insn_count
             /\ f.chunk_insn_count = s.chunk_insn_count
<1>1. CASE Len(s.inbuf) >= FlushThreshold
  BY <1>1, FlushKeeps, FlushType DEF Room
<1>2. CASE ~(Len(s.inbuf) >= FlushThreshold)
  BY <1>2 DEF Room, Kept
<1> QED BY <1>1, <1>2

(* The pending instruction is appended to the buffer and counted.          *)
LEMMA FinalizeKeeps ==
  ASSUME NEW s \in VcpuState
  PROVE  LET t == finalize_pending_insn(s)
         IN  /\ Kept(s, t)
             /\ ~t.has_pending
             /\ ~s.has_pending => t = s
             /\ s.has_pending =>
                  /\ t.inbuf = Append(Room(s).inbuf, s.pending)
                  /\ t.files = Room(s).files
                  /\ t.insn_count = s.insn_count + 1
                  /\ t.chunk_insn_count = s.chunk_insn_count + 1
<1> DEFINE t == finalize_pending_insn(s)
           f == Room(s)
           q == Append(f.inbuf, s.pending)
           b == [f EXCEPT !.inbuf = q]
           m == s.insn_count + 1
           n == s.chunk_insn_count + 1
<1> SUFFICES /\ Kept(s, t)
             /\ ~t.has_pending
             /\ ~s.has_pending => t = s
             /\ s.has_pending => /\ t.inbuf = q /\ t.files = f.files
                                 /\ t.insn_count = m /\ t.chunk_insn_count = n
  OBVIOUS
<1>1. CASE ~s.has_pending
  <2>1. t = s
    BY <1>1 DEF finalize_pending_insn
  <2> HIDE DEF t
  <2> QED BY <1>1, <2>1 DEF Kept
<1>2. CASE s.has_pending
  <2>1. /\ f \in VcpuState /\ Kept(s, f)
        /\ f.insn_count = s.insn_count
        /\ f.chunk_insn_count = s.chunk_insn_count
    BY RoomKeeps
  <2>2. buffer_append(s, s.pending) = b
    BY DEF buffer_append, Room
  <2> HIDE DEF f, q
  <2>3. b.insn_count = s.insn_count /\ b.chunk_insn_count = s.chunk_insn_count
    BY <2>1 DEF VcpuState
  <2>4. t = [b EXCEPT !.insn_count = b.insn_count + 1,
                      !.chunk_insn_count = b.chunk_insn_count + 1,
                      !.has_pending = FALSE]
    <3> HIDE DEF b
    <3> QED BY <1>2, <2>2 DEF finalize_pending_insn
  <2>5. t = [f EXCEPT !.inbuf = q, !.insn_count = m, !.chunk_insn_count = n,
                      !.has_pending = FALSE]
    BY <2>3, <2>4
  <2> HIDE DEF t, b, m, n
  <2>6. /\ t.inbuf = q /\ t.files = f.files /\ t.has_pending = FALSE
        /\ t.insn_count = m /\ t.chunk_insn_count = n
    BY <2>1, <2>5 DEF VcpuState
  <2>7. Kept(f, t)
    BY <2>1, <2>5 DEF VcpuState, Kept
  <2> QED BY <1>2, <2>1, <2>6, <2>7 DEF Kept
<1> QED BY <1>1, <1>2

(* Closing a file changes its state and nothing else of the recorder.      *)
LEMMA ClosedKeeps ==
  ASSUME NEW s \in VcpuState
  PROVE  LET t == Closed(s)
         IN  /\ ~t.open
             /\ t.inbuf = s.inbuf /\ t.pending = s.pending
             /\ t.has_pending = s.has_pending
             /\ t.insn_count = s.insn_count
             /\ t.chunk_insn_count = s.chunk_insn_count
             /\ t.chunk_index = s.chunk_index
             /\ t.chunk_start_insn = s.chunk_start_insn
             /\ t.stream_insns = s.stream_insns
             /\ t.limit_reached = s.limit_reached
             /\ t.sample_skipping = s.sample_skipping
             /\ t.manifest_fp = s.manifest_fp /\ t.manifest = s.manifest
             /\ ~s.open => t = s
             /\ s.open => t.files = [s.files EXCEPT ![s.chunk_index + 1].closed = TRUE]
<1> DEFINE t == Closed(s)
           fs == [s.files EXCEPT ![s.chunk_index + 1].closed = TRUE]
<1>1. t = IF ~s.open THEN s ELSE [s EXCEPT !.open = FALSE, !.files = fs]
  BY DEF Closed
<1> HIDE DEF fs, t
<1>2. CASE ~s.open
  BY <1>1, <1>2 DEF t
<1>3. CASE s.open
  <2>1. /\ t.open = FALSE /\ t.files = fs
        /\ t.inbuf = s.inbuf /\ t.pending = s.pending
        /\ t.has_pending = s.has_pending
        /\ t.insn_count = s.insn_count
        /\ t.chunk_insn_count = s.chunk_insn_count
        /\ t.chunk_index = s.chunk_index
    BY <1>1, <1>3 DEF VcpuState
  <2>2. /\ t.chunk_start_insn = s.chunk_start_insn
        /\ t.stream_insns = s.stream_insns
        /\ t.limit_reached = s.limit_reached
        /\ t.sample_skipping = s.sample_skipping
        /\ t.manifest_fp = s.manifest_fp /\ t.manifest = s.manifest
    BY <1>1, <1>3 DEF VcpuState
  <2> QED BY <1>3, <2>1, <2>2 DEF t, fs
<1> QED BY <1>2, <1>3

---------------------------------------------------------------------------
(* MemOpsOwn.                                                              *)

OwnRecord == { r \in Record : OwnOps(r) }

OwnChunk == [ recs : Seq(OwnRecord), closed : BOOLEAN ]

(* Every record the vCPU holds, wherever it is, has its own operands.      *)
Owned(s) ==
  /\ s.inbuf \in Seq(OwnRecord)
  /\ s.has_pending => s.pending \in OwnRecord
  /\ s.files \in Seq(OwnChunk)

(* Owned speaks of four fields.                                            *)
LEMMA SameOwned ==
  ASSUME NEW s, NEW t, Owned(s), t.inbuf = s.inbuf, t.files = s.files,
         t.has_pending = s.has_pending, t.pending = s.pending
  PROVE  Owned(t)
BY DEF Owned

(* Owned records reach the file by being appended to owned records.        *)
LEMMA FlushOwned ==
  ASSUME NEW s \in VcpuState, Owned(s)
  PROVE  Owned(flush_buffer(s))
<1> DEFINE t == flush_buffer(s)
           i == s.chunk_index + 1
           r == IF disk_full THEN s.files[i].recs ELSE s.files[i].recs \o s.inbuf
           e == [s.files[i] EXCEPT !.recs = r]
           fs == [s.files EXCEPT ![i] = e]
<1>1. CASE ~s.open
  <2>1. t = s
    BY <1>1, FlushKeeps
  <2> QED BY <2>1
<1>2. CASE s.open
  <2>1. t = [s EXCEPT !.files = fs, !.inbuf = << >>]
    BY <1>2 DEF flush_buffer
  <2>2. s.files \in Seq(OwnChunk) /\ s.inbuf \in Seq(OwnRecord)
    BY DEF Owned
  <2>3. ASSUME i \in DOMAIN s.files PROVE e \in OwnChunk
    <3>1. s.files[i] \in OwnChunk
      BY <2>2, <2>3, LenProperties
    <3>2. r \in Seq(OwnRecord)
      BY <2>2, <3>1 DEF OwnChunk
    <3> HIDE DEF r
    <3> QED BY <3>1, <3>2 DEF OwnChunk
  <2> HIDE DEF e
  <2>4. fs \in Seq(OwnChunk)
    BY <2>2, <2>3, SeqUpdate
  <2> HIDE DEF t, fs
  <2>5. t.files = fs /\ t.inbuf = << >> /\ t.has_pending = s.has_pending /\ t.pending = s.pending
    BY <2>1 DEF VcpuState
  <2>6. << >> \in Seq(OwnRecord)
    OBVIOUS
  <2>7. Owned(t)
    BY <2>4, <2>5, <2>6 DEF Owned
  <2> QED BY <2>7 DEF t
<1> QED BY <1>1, <1>2

(* So does the pending one.                                                *)
LEMMA FinalizeOwned ==
  ASSUME NEW s \in VcpuState, Owned(s)
  PROVE  LET t == finalize_pending_insn(s) IN Owned(t) /\ ~t.has_pending
<1> DEFINE t == finalize_pending_insn(s)
           f == Room(s)
<1>1. CASE ~s.has_pending
  BY <1>1, FinalizeKeeps
<1>2. CASE s.has_pending
  <2>1. Owned(f)
    BY FlushOwned DEF Room
  <2>2. t.inbuf = Append(f.inbuf, s.pending) /\ t.files = f.files /\ ~t.has_pending
    BY <1>2, FinalizeKeeps
  <2> HIDE DEF t, f
  <2>3. s.pending \in OwnRecord /\ f.inbuf \in Seq(OwnRecord)
    BY <1>2, <2>1 DEF Owned
  <2>4. Append(f.inbuf, s.pending) \in Seq(OwnRecord)
    BY <2>3
  <2>5. Owned(t)
    BY <2>1, <2>2, <2>4 DEF Owned
  <2> QED BY <2>2, <2>5 DEF t
<1> QED BY <1>1, <1>2

(* Closing a chunk loses no operand and swaps none.                        *)
LEMMA CloseOwned ==
  ASSUME NEW s \in VcpuState, Owned(s)
  PROVE  LET t == close_chunk(s) IN Owned(t) /\ ~t.has_pending
<1> DEFINE a == finalize_pending_insn(s)
           b == flush_buffer(a)
           c == Closed(b)
           t == close_chunk(s)
<1>1. a \in VcpuState /\ Owned(a) /\ ~a.has_pending
  BY FinalizeOwned, FinalizeType
<1>2. t = IF chunking_active /\ c.manifest_fp /\ c.chunk_insn_count > 0
          THEN Listed(c) ELSE c
  BY DEF close_chunk
<1> HIDE DEF a, t
<1>3. b \in VcpuState /\ Owned(b) /\ ~b.has_pending
  BY <1>1, FlushOwned, FlushType, FlushKeeps
<1> HIDE DEF b
<1>4. c \in VcpuState /\ Owned(c) /\ ~c.has_pending
  <2> DEFINE i == b.chunk_index + 1
             e == [b.files[i] EXCEPT !.closed = TRUE]
             fs == [b.files EXCEPT ![i] = e]
  <2>1. CASE ~b.open
    <3>1. c = b
      BY <1>3, <2>1, ClosedKeeps
    <3> QED BY <1>3, <3>1
  <2>2. CASE b.open
    <3>1. /\ c \in VcpuState
          /\ c.inbuf = b.inbuf /\ c.has_pending = b.has_pending /\ c.pending = b.pending
          /\ c.files = fs
      BY <1>3, <2>2, ClosedKeeps, ClosedType
    <3>2. b.files \in Seq(OwnChunk)
      BY <1>3 DEF Owned
    <3>3. ASSUME i \in DOMAIN b.files PROVE e \in OwnChunk
      <4>1. b.files[i] \in OwnChunk
        BY <3>2, <3>3, LenProperties
      <4> QED BY <4>1 DEF OwnChunk
    <3> HIDE DEF e
    <3>4. fs \in Seq(OwnChunk)
      BY <3>2, <3>3, SeqUpdate
    <3> HIDE DEF fs, c
    <3>5. Owned(c)
      BY <1>3, <3>1, <3>4 DEF Owned
    <3> QED BY <1>3, <3>1, <3>5
  <2> QED BY <2>1, <2>2
<1> HIDE DEF c
<1>5. /\ Listed(c).inbuf = c.inbuf /\ Listed(c).files = c.files
      /\ Listed(c).has_pending = c.has_pending /\ Listed(c).pending = c.pending
  BY <1>4 DEF Listed, VcpuState
<1>6. Owned(Listed(c)) /\ ~Listed(c).has_pending
  BY <1>4, <1>5, SameOwned
<1> QED BY <1>2, <1>4, <1>6 DEF t

(* A new chunk holds nothing.                                              *)
LEMMA NextChunkOwned ==
  ASSUME NEW s \in VcpuState, Owned(s), ~s.has_pending, NEW ok \in BOOLEAN
  PROVE  LET t == next_chunk(s, ok) IN Owned(t) /\ ~t.has_pending
<1> DEFINE k == s.chunk_index + 1
           n == [s EXCEPT !.chunk_index = k]
           t == next_chunk(s, ok)
           st == IF ~sampling THEN n.insn_count
                 ELSE IF n.stream_insns > 0 THEN n.stream_insns - 1 ELSE 0
           fs == Created(n.files, n.chunk_index)
<1>1. k \in Nat
  BY FieldTypes
<1>2. n \in VcpuState
  <2> HIDE DEF k
  <2> QED BY <1>1, SetCounter
<1>3. /\ n.chunk_index = k /\ n.files = s.files
      /\ n.has_pending = s.has_pending /\ n.pending = s.pending
  <2> HIDE DEF k
  <2> QED BY DEF VcpuState
<1>4. fs \in Seq(OwnChunk)
  <2>1. EmptyChunk \in OwnChunk
    BY DEF EmptyChunk, OwnChunk
  <2>2. n.files \in Seq(OwnChunk)
    BY <1>3 DEF Owned
  <2> HIDE DEF n
  <2>4. [n.files EXCEPT ![n.chunk_index + 1] = EmptyChunk] \in Seq(OwnChunk)
    BY <2>1, <2>2, SeqUpdate
  <2>5. Append(n.files, EmptyChunk) \in Seq(OwnChunk)
    BY <2>1, <2>2
  <2> QED BY <2>4, <2>5 DEF Created
<1>5. t = IF ok
          THEN [n EXCEPT !.inbuf = << >>, !.open = TRUE, !.files = fs,
                         !.chunk_insn_count = 0, !.chunk_start_insn = st]
          ELSE [n EXCEPT !.inbuf = << >>, !.chunk_insn_count = 0, !.limit_reached = TRUE]
  BY DEF next_chunk, open_chunk, open_failed
<1> HIDE DEF t, n, st, fs
<1>6. /\ t.inbuf = << >> /\ t.has_pending = n.has_pending
      /\ t.files \in {n.files, fs}
  <2>1. CASE ok
    BY <1>2, <1>5, <2>1 DEF VcpuState
  <2>2. CASE ~ok
    BY <1>2, <1>5, <2>2 DEF VcpuState
  <2> QED BY <2>1, <2>2
<1>7. << >> \in Seq(OwnRecord)
  OBVIOUS
<1>8. Owned(t) /\ ~t.has_pending
  BY <1>3, <1>4, <1>6, <1>7 DEF Owned
<1> QED BY <1>8 DEF t

(* Nothing is pending but the instruction at pos.                          *)
OwnedAt(s, pos) == Owned(s) /\ (s.has_pending => s.pending.pos = pos)

(* A stored instruction starts without operands.                           *)
LEMMA StoreOwned ==
  ASSUME NEW s \in VcpuState, Owned(s), NEW pos \in Nat, NEW user \in BOOLEAN
  PROVE  OwnedAt(store_pending(s, pos, user), pos)
<1> DEFINE r == [pos |-> pos, user |-> user, ops |-> << >>]
           t == store_pending(s, pos, user)
<1>1. r \in OwnRecord /\ r.pos = pos
  BY DEF OwnRecord, Record, OwnOps
<1>2. t = [s EXCEPT !.has_pending = TRUE, !.pending = r]
  BY DEF store_pending
<1> HIDE DEF t, r
<1>3. t.pending = r /\ t.inbuf = s.inbuf /\ t.files = s.files
  BY <1>2 DEF VcpuState
<1>4. OwnedAt(t, pos)
  BY <1>1, <1>3 DEF OwnedAt, Owned
<1> QED BY <1>4 DEF t

(* What capture stores is the instruction of the callback.                 *)
LEMMA CaptureOwned ==
  ASSUME NEW s \in VcpuState, Owned(s), ~s.has_pending, NEW pos \in Nat,
         NEW user \in BOOLEAN, NEW ok \in BOOLEAN
  PROVE  OwnedAt(capture(s, pos, user, ok), pos)
<1> DEFINE a == [s EXCEPT !.limit_reached = TRUE]
           b == flush_buffer(a)
           c == close_chunk(s)
           n == next_chunk(c, ok)
           t == capture(s, pos, user, ok)
<1>1. OwnedAt(b, pos)
  <2>1. /\ a \in VcpuState /\ a.inbuf = s.inbuf /\ a.files = s.files
        /\ a.has_pending = s.has_pending /\ a.pending = s.pending
    <3>1. a \in VcpuState
      BY SetFlag
    <3> QED BY <3>1 DEF VcpuState
  <2> HIDE DEF a
  <2>2. Owned(a) /\ ~a.has_pending
    BY <2>1, SameOwned
  <2>3. Owned(b) /\ ~b.has_pending
    BY <2>1, <2>2, FlushOwned, FlushKeeps
  <2> QED BY <2>3 DEF OwnedAt
<1>2. n \in VcpuState /\ Owned(n) /\ ~n.has_pending
  BY CloseType, CloseOwned, NextChunkType, NextChunkOwned
<1>3. OwnedAt(n, pos) /\ OwnedAt(store_pending(n, pos, user), pos)
      /\ OwnedAt(store_pending(s, pos, user), pos)
  BY <1>2, StoreOwned DEF OwnedAt
<1>4. t \in {b, store_pending(n, pos, user), n, store_pending(s, pos, user)}
  BY DEF capture
<1> QED BY <1>1, <1>3, <1>4

(* A window begins with the instruction of the callback, or not at all.    *)
LEMMA BeginWindowOwned ==
  ASSUME NEW s \in VcpuState, Owned(s), ~s.has_pending, NEW pos \in Nat,
         NEW user \in BOOLEAN, NEW ok \in BOOLEAN
  PROVE  OwnedAt(begin_window(s, pos, user, ok), pos)
<1> DEFINE a == [s EXCEPT !.sample_skipping = FALSE, !.sample_phase_insns = 0]
           n == next_chunk(a, ok)
           f == finalize_pending_insn(n)
           t == begin_window(s, pos, user, ok)
<1>1. /\ a \in VcpuState /\ a.inbuf = s.inbuf /\ a.files = s.files
      /\ a.has_pending = s.has_pending /\ a.pending = s.pending
  BY DEF VcpuState
<1>2. t = IF ok THEN capture(f, pos, user, ok) ELSE n
  BY DEF begin_window
<1> HIDE DEF a, t
<1>3. Owned(a) /\ ~a.has_pending
  BY <1>1, SameOwned
<1>4. n \in VcpuState /\ Owned(n) /\ ~n.has_pending
  BY <1>1, <1>3, NextChunkType, NextChunkOwned
<1> HIDE DEF n
<1>5. f \in VcpuState /\ Owned(f) /\ ~f.has_pending
  BY <1>4, FinalizeType, FinalizeOwned
<1> HIDE DEF f
<1>6. OwnedAt(capture(f, pos, user, ok), pos) /\ OwnedAt(n, pos)
  BY <1>4, <1>5, CaptureOwned DEF OwnedAt
<1> QED BY <1>2, <1>6 DEF t

(* The end of a window leaves nothing pending.                             *)
LEMMA EndWindowOwned ==
  ASSUME NEW s \in VcpuState, Owned(s)
  PROVE  /\ Owned(enter_gap(s)) /\ ~enter_gap(s).has_pending
         /\ Owned(finish_sampling(s)) /\ ~finish_sampling(s).has_pending
<1> DEFINE c == close_chunk(s)
           w == end_window(s)
           g == enter_gap(s)
           f == finish_sampling(s)
<1>1. c \in VcpuState /\ Owned(c) /\ ~c.has_pending
  BY CloseType, CloseOwned
<1>2. w = [c EXCEPT !.sample_windows_done = @ + 1, !.sample_phase_insns = 0]
  BY DEF end_window
<1>3. w \in VcpuState
  <2>1. \A p \in Nat : end_window(s) \in VcpuState
    BY WindowTypes
  <2> QED BY <2>1
<1>4. /\ g = [w EXCEPT !.sample_skipping = TRUE]
      /\ f = [w EXCEPT !.sample_finished = TRUE, !.limit_reached = TRUE,
                       !.chunk_insn_count = 0]
  BY DEF enter_gap, finish_sampling
<1> HIDE DEF c, w, g, f
<1>5. /\ w.inbuf = c.inbuf /\ w.files = c.files
      /\ w.has_pending = c.has_pending /\ w.pending = c.pending
  BY <1>1, <1>2 DEF VcpuState
<1>6. Owned(w) /\ ~w.has_pending
  BY <1>1, <1>5, SameOwned
<1>7. /\ g.inbuf = w.inbuf /\ g.files = w.files
      /\ g.has_pending = w.has_pending /\ g.pending = w.pending
      /\ f.inbuf = w.inbuf /\ f.files = w.files
      /\ f.has_pending = w.has_pending /\ f.pending = w.pending
  BY <1>3, <1>4 DEF VcpuState
<1>8. Owned(g) /\ ~g.has_pending /\ Owned(f) /\ ~f.has_pending
  BY <1>6, <1>7, SameOwned
<1> QED BY <1>8 DEF g, f

(* The gap counter holds no operands.                                      *)
LEMMA TickOwned ==
  ASSUME NEW s \in VcpuState, Owned(s), ~s.has_pending, NEW user
  PROVE  LET t == tick_gap(s, user) IN Owned(t) /\ ~t.has_pending
<1> DEFINE t == [s EXCEPT !.sample_phase_insns = @ + 1]
<1>1. tick_gap(s, user) \in {s, t}
  BY DEF tick_gap
<1>2. /\ t.inbuf = s.inbuf /\ t.files = s.files
      /\ t.has_pending = s.has_pending /\ t.pending = s.pending
  BY DEF VcpuState
<1> HIDE DEF t
<1>3. Owned(t) /\ ~t.has_pending
  BY <1>2, SameOwned
<1> QED BY <1>1, <1>3

(* The inductive invariant: every held record owns its operands, and a     *)
(* record that can still get one describes the instruction that is         *)
(* executing. Before the trigger nothing is pending, so that a dormant     *)
(* instruction leaves none of its accesses behind.                         *)
PendingIsCurrent(s, g) ==
  s.has_pending => tracing_enabled /\ (s.limit_reached \/ s.pending.pos = g.cur)

OpsInv == \A v \in VCPUS : Owned(vs[v]) /\ PendingIsCurrent(vs[v], guest[v])

(* A callback that leaves its vCPU at the current instruction.             *)
LEMMA CallbackOwned ==
  ASSUME TypeOK, OpsInv, NEW v \in VCPUS, NEW s, Update(v, s),
         NEW user \in BOOLEAN, Execute(v, user), tracing_enabled,
         OwnedAt(s, Len(guest[v].hist) + 1)
  PROVE  OpsInv'
<1> SUFFICES ASSUME NEW w \in VCPUS
             PROVE  Owned(vs'[w]) /\ PendingIsCurrent(vs[w], guest[w])'
  BY DEF OpsInv, Owned
<1>1. tracing_enabled' = tracing_enabled
  BY DEF Update
<1>2. CASE w = v
  <2>1. vs'[v] = s
    BY DEF Update, TypeOK
  <2>2. guest'[v].cur = Len(guest[v].hist) + 1
    BY DEF Execute, TypeOK
  <2>3. Owned(s) /\ (s.has_pending => s.pending.pos = guest'[v].cur)
    BY <2>2 DEF OwnedAt
  <2> QED BY <1>1, <1>2, <2>1, <2>3 DEF PendingIsCurrent
<1>3. CASE w # v
  <2>1. vs'[w] = vs[w] /\ guest'[w] = guest[w]
    BY <1>3 DEF Update, Execute, TypeOK
  <2> QED BY <1>1, <2>1 DEF OpsInv, PendingIsCurrent
<1> QED BY <1>2, <1>3

(* Every path through insn_exec_cb below the trigger.                      *)
LEMMA InsnOwned ==
  ASSUME TypeOK, OpsInv, NEW v \in VCPUS, NEW user \in BOOLEAN, NEW ok \in BOOLEAN,
         \/ SkipInsn(v, user) \/ AwaitUserInsn(v, user)
         \/ BeginWindowInsn(v, user, ok) \/ CaptureInsn(v, user, ok)
         \/ EndWindowInsn(v, user, ok)
  PROVE  OpsInv'
<1> DEFINE pos == Len(guest[v].hist) + 1
           k == Counted(v)
           c == finalize_pending_insn(k)
           g == enter_gap(c)
<1>1. Execute(v, user) /\ tracing_enabled
  BY DEF SkipInsn, AwaitUserInsn, BeginWindowInsn, CaptureInsn, EndWindowInsn, Seen
<1>2. pos \in Nat
  BY LenProperties DEF TypeOK
<1>3. k \in VcpuState /\ Owned(k)
  <2>1. vs[v] \in VcpuState /\ Owned(vs[v])
    BY DEF TypeOK, OpsInv
  <2>2. k \in VcpuState
    BY <2>1, CountedType
  <2>3. /\ k.inbuf = vs[v].inbuf /\ k.files = vs[v].files
        /\ k.has_pending = vs[v].has_pending /\ k.pending = vs[v].pending
    BY <2>1 DEF Counted, VcpuState
  <2> QED BY <2>1, <2>2, <2>3, SameOwned
<1> HIDE DEF k
<1>4. c \in VcpuState /\ Owned(c) /\ ~c.has_pending
  BY <1>3, FinalizeType, FinalizeOwned
<1> HIDE DEF c
<1>5. g \in VcpuState /\ Owned(g) /\ ~g.has_pending
  BY <1>4, WindowTypes, EndWindowOwned
<1>6. /\ OwnedAt(c, pos) /\ OwnedAt(tick_gap(c, user), pos)
      /\ OwnedAt(g, pos) /\ OwnedAt(tick_gap(g, user), pos)
      /\ OwnedAt(finish_sampling(c), pos)
  <2> HIDE DEF g
  <2>1. /\ Owned(tick_gap(c, user)) /\ ~tick_gap(c, user).has_pending
        /\ Owned(tick_gap(g, user)) /\ ~tick_gap(g, user).has_pending
        /\ Owned(finish_sampling(c)) /\ ~finish_sampling(c).has_pending
    BY <1>4, <1>5, TickOwned, EndWindowOwned
  <2> QED BY <1>4, <1>5, <2>1 DEF OwnedAt
<1> HIDE DEF g
<1>7. /\ OwnedAt(begin_window(c, pos, user, ok), pos)
      /\ OwnedAt(begin_window(g, pos, user, ok), pos)
      /\ OwnedAt(capture(c, pos, user, ok), pos)
  <2> HIDE DEF pos
  <2> QED BY <1>2, <1>4, <1>5, BeginWindowOwned, CaptureOwned
<1>8. CASE SkipInsn(v, user)
  <2>1. Update(v, tick_gap(c, user))
    BY <1>8 DEF SkipInsn, c, k
  <2> QED BY <1>1, <1>6, <2>1, CallbackOwned
<1>9. CASE AwaitUserInsn(v, user)
  <2>1. Update(v, c)
    BY <1>9 DEF AwaitUserInsn, c, k
  <2> QED BY <1>1, <1>6, <2>1, CallbackOwned
<1>10. CASE BeginWindowInsn(v, user, ok)
  <2>1. Update(v, begin_window(c, pos, user, ok))
    BY <1>10 DEF BeginWindowInsn, c, k
  <2> QED BY <1>1, <1>7, <2>1, CallbackOwned
<1>11. CASE CaptureInsn(v, user, ok)
  <2>1. Update(v, capture(c, pos, user, ok))
    BY <1>11 DEF CaptureInsn, c, k
  <2> QED BY <1>1, <1>7, <2>1, CallbackOwned
<1>12. CASE EndWindowInsn(v, user, ok)
  <2>1. \/ Update(v, finish_sampling(c))
        \/ Update(v, tick_gap(g, user))
        \/ Update(v, g)
        \/ Update(v, begin_window(g, pos, user, ok))
    BY <1>12 DEF EndWindowInsn, c, k, g
  <2> QED BY <1>1, <1>6, <1>7, <2>1, CallbackOwned
<1> QED BY <1>8, <1>9, <1>10, <1>11, <1>12

(* An access goes to the pending record only while the instruction it      *)
(* describes is the one that executes.                                     *)
LEMMA MemOwned ==
  ASSUME TypeOK, OpsInv, NEW v \in VCPUS, mem_cb(v)
  PROVE  OpsInv'
<1> DEFINE s == vs[v]
           p == s.pending
           r == [p EXCEPT !.ops = Append(p.ops, guest[v].cur)]
           t == [s EXCEPT !.pending = r]
<1>1. /\ tracing_enabled' = tracing_enabled
      /\ \A w \in VCPUS : guest'[w].cur = guest[w].cur
  BY DEF mem_cb, TypeOK
<1>2. CASE vs' = vs
  BY <1>1, <1>2 DEF OpsInv, Owned, PendingIsCurrent
<1>3. CASE vs' # vs
  <2>1. /\ vs' = [vs EXCEPT ![v] = t]
        /\ s.has_pending /\ ~s.limit_reached
    BY <1>3 DEF mem_cb
  <2>2. s \in VcpuState /\ Owned(s) /\ p.pos = guest[v].cur /\ p \in OwnRecord
    BY <2>1 DEF TypeOK, OpsInv, Owned, PendingIsCurrent
  <2>3. r \in OwnRecord /\ r.pos = p.pos
    <3> DEFINE o == Append(p.ops, guest[v].cur)
    <3>1. p \in Record /\ p.ops \in Seq(Nat) /\ guest[v].cur \in Nat
      BY <2>2 DEF OwnRecord, Record, TypeOK
    <3>2. /\ o \in Seq(Nat) /\ DOMAIN o = 1 .. Len(p.ops) + 1
          /\ \A i \in DOMAIN o : o[i] = IF i <= Len(p.ops) THEN p.ops[i] ELSE guest[v].cur
      <4> DEFINE q == p.ops
                 x == guest[v].cur
      <4> SUFFICES /\ Append(q, x) \in Seq(Nat)
                   /\ DOMAIN Append(q, x) = 1 .. Len(q) + 1
                   /\ \A i \in DOMAIN Append(q, x) :
                        Append(q, x)[i] = IF i <= Len(q) THEN q[i] ELSE x
        OBVIOUS
      <4>1. q \in Seq(Nat) /\ x \in Nat
        BY <3>1
      <4> HIDE DEF q, x
      <4> QED BY <4>1
    <3>3. \A i \in DOMAIN p.ops : p.ops[i] = p.pos
      BY <2>2 DEF OwnRecord, OwnOps
    <3>4. Len(p.ops) \in Nat /\ DOMAIN p.ops = 1 .. Len(p.ops)
      BY <3>1, LenProperties
    <3> HIDE DEF o
    <3>5. \A i \in DOMAIN o : o[i] = p.pos
      BY <2>2, <3>2, <3>3, <3>4
    <3> HIDE DEF p, s
    <3>6. r = [p EXCEPT !.ops = o]
      BY DEF o
    <3> HIDE DEF r
    <3>7. r \in Record /\ r.pos = p.pos /\ r.ops = o
      BY <3>1, <3>2, <3>6 DEF Record
    <3> QED BY <3>5, <3>7 DEF OwnRecord, OwnOps
  <2> HIDE DEF r, p, s
  <2>4. /\ t.inbuf = s.inbuf /\ t.files = s.files
        /\ t.has_pending = s.has_pending /\ t.pending = r
        /\ t.limit_reached = s.limit_reached
    BY <2>2 DEF VcpuState
  <2> HIDE DEF t
  <2>5. Owned(t) /\ PendingIsCurrent(t, guest[v])
    <3>1. tracing_enabled
      BY <1>3 DEF mem_cb
    <3> QED BY <2>2, <2>3, <2>4, <3>1 DEF Owned, PendingIsCurrent
  <2> SUFFICES ASSUME NEW w \in VCPUS
               PROVE  Owned(vs'[w]) /\ PendingIsCurrent(vs[w], guest[w])'
    BY DEF OpsInv, Owned
  <2>6. vs'[w] = IF w = v THEN t ELSE vs[w]
    BY <2>1 DEF TypeOK
  <2> QED BY <1>1, <2>5, <2>6 DEF OpsInv, PendingIsCurrent
<1> QED BY <1>2, <1>3

(* Every step keeps the operands with their instructions.                  *)
LEMMA OpsInductive ==
  ASSUME TypeOK, OpsInv, [Next]_vars
  PROVE  OpsInv'
<1>1. ASSUME NEW v \in VCPUS, DormantInsn(v) PROVE OpsInv'
  BY <1>1 DEF DormantInsn, OpsInv, Owned, PendingIsCurrent
<1>2. ASSUME NEW v \in VCPUS, NEW user \in BOOLEAN, StoppedInsn(v, user)
      PROVE OpsInv'
  <2> SUFFICES ASSUME NEW w \in VCPUS
               PROVE  Owned(vs[w])' /\ PendingIsCurrent(vs[w], guest[w])'
    BY DEF OpsInv
  <2>1. vs' = vs /\ tracing_enabled' = tracing_enabled /\ vs[v].limit_reached
    BY <1>2 DEF StoppedInsn
  <2>2. w # v => guest'[w] = guest[w]
    BY <1>2 DEF StoppedInsn, Execute, TypeOK
  <2> QED BY <2>1, <2>2 DEF OpsInv, Owned, PendingIsCurrent
<1>3. ASSUME NEW v \in VCPUS, NEW user \in BOOLEAN, NEW ok \in BOOLEAN,
             \/ SkipInsn(v, user) \/ AwaitUserInsn(v, user)
             \/ BeginWindowInsn(v, user, ok) \/ CaptureInsn(v, user, ok)
             \/ EndWindowInsn(v, user, ok)
      PROVE OpsInv'
  BY <1>3, InsnOwned
<1>4. ASSUME NEW v \in VCPUS, mem_cb(v) PROVE OpsInv'
  BY <1>4, MemOwned
<1>5. CASE plugin_atexit
  <2> SUFFICES ASSUME NEW w \in VCPUS
               PROVE  Owned(vs[w])' /\ PendingIsCurrent(vs[w], guest[w])'
    BY DEF OpsInv
  <2>1. vs'[w] = close_chunk(vs[w])
    BY <1>5 DEF plugin_atexit
  <2>2. Owned(close_chunk(vs[w])) /\ ~close_chunk(vs[w]).has_pending
    BY CloseOwned DEF OpsInv, TypeOK
  <2> QED BY <2>1, <2>2 DEF Owned, PendingIsCurrent
<1>6. CASE Kill \/ DiskFills \/ UNCHANGED vars
  BY <1>6 DEF Kill, DiskFills, vars, OpsInv, Owned, PendingIsCurrent
<1> QED BY <1>1, <1>2, <1>3, <1>4, <1>5, <1>6 DEF Next, insn_exec_cb

(* A memory operand is attached to the instruction that made the access:   *)
(* mem_cb never adds it to a record that was left pending by an earlier    *)
(* instruction, by the dormant phase or by a stop, on any number of vCPUs  *)
(* with any command line, and no buffer or file swaps operands.            *)
THEOREM MemOpsAreOwn == Spec => []MemOpsOwn
<1>1. Init => OpsInv
  <2> SUFFICES ASSUME Init, NEW v \in VCPUS
               PROVE  Owned(vs[v]) /\ PendingIsCurrent(vs[v], guest[v])
    BY DEF OpsInv
  <2>1. PICK fp \in BOOLEAN : vs[v] = InitVcpu(fp)
    BY DEF Init
  <2>2. InitVcpu(fp).inbuf = << >> /\ InitVcpu(fp).has_pending = FALSE
        /\ InitVcpu(fp).files = << EmptyChunk >>
    <3>1. Created(<< >>, 0) = << EmptyChunk >>
      BY DEF Created
    <3> QED BY <3>1 DEF InitVcpu, open_chunk
  <2>3. EmptyChunk \in OwnChunk
    BY DEF EmptyChunk, OwnChunk
  <2> QED BY <2>1, <2>2, <2>3 DEF Owned, PendingIsCurrent
<1>2. TypeOK /\ OpsInv /\ [Next]_vars => OpsInv'
  BY OpsInductive
<1>3. OpsInv => MemOpsOwn
  <2> SUFFICES ASSUME OpsInv, NEW v \in VCPUS
               PROVE  /\ vs[v].has_pending => OwnOps(vs[v].pending)
                      /\ \A i \in DOMAIN vs[v].inbuf : OwnOps(vs[v].inbuf[i])
                      /\ \A c \in DOMAIN vs[v].files :
                           \A i \in DOMAIN vs[v].files[c].recs :
                             OwnOps(vs[v].files[c].recs[i])
    BY DEF MemOpsOwn
  <2>1. Owned(vs[v])
    BY DEF OpsInv
  <2>2. \A q \in Seq(OwnRecord) : \A i \in DOMAIN q : OwnOps(q[i])
    BY LenProperties DEF OwnRecord
  <2>3. \A c \in DOMAIN vs[v].files : vs[v].files[c].recs \in Seq(OwnRecord)
    <3>1. vs[v].files \in Seq(OwnChunk)
      BY <2>1 DEF Owned
    <3> TAKE c \in DOMAIN vs[v].files
    <3>2. vs[v].files[c] \in OwnChunk
      BY <3>1, LenProperties
    <3> QED BY <3>2 DEF OwnChunk
  <2> QED BY <2>1, <2>2, <2>3 DEF Owned, OwnRecord
<1> QED BY <1>1, <1>2, <1>3, TypeCorrect, PTL DEF Spec

---------------------------------------------------------------------------
(* ContiguousChunks, OneRowUnlessExitInGap, ManifestComplete, ClosedStays. *)

InOrder(recs) == \A i \in 1 .. Len(recs) - 1 : recs[i + 1].pos = recs[i].pos + 1

(* The records of the current chunk, written or not.                       *)
Held(s) == CurrentChunk(s).recs \o s.inbuf
Captured(s) == IF s.has_pending THEN Append(Held(s), s.pending) ELSE Held(s)

(* Where the files are, with or without room on the disk.                  *)
Layout(s) ==
  /\ s.open => Len(s.files) = s.chunk_index + 1 /\ ~CurrentChunk(s).closed
  /\ ~s.open => ~s.has_pending /\ s.inbuf = << >>
  /\ ~s.limit_reached => Len(s.files) = s.chunk_index + 1

FilesInOrder(s) == \A c \in DOMAIN s.files : InOrder(s.files[c].recs)

(* No chunk is listed twice, and the open one is not listed yet.           *)
RowsOnce(s) ==
  /\ \A i \in DOMAIN s.manifest :
       /\ s.manifest[i].chunk <= s.chunk_index
       /\ s.open => s.manifest[i].chunk < s.chunk_index
  /\ \A i, j \in DOMAIN s.manifest :
       s.manifest[i].chunk = s.manifest[j].chunk => i = j

(* The open chunk is a slice that starts where its row will say.           *)
Slice(s) ==
  s.open => /\ InOrder(Captured(s))
            /\ Captured(s) # << >> => Captured(s)[1].pos = s.chunk_start_insn + 1

(* Every chunk with records in it, but for the open one, is listed.        *)
Listing(s, c) ==
  \E i \in DOMAIN s.manifest :
    /\ s.manifest[i].chunk = c - 1
    /\ s.manifest[i].start = s.files[c].recs[1].pos - 1

Covered(s) ==
  chunking_active /\ s.manifest_fp =>
    \A c \in DOMAIN s.files :
      s.files[c].recs # << >> /\ ~(s.open /\ c = s.chunk_index + 1) => Listing(s, c)

Books(s) ==
  /\ Layout(s) /\ FilesInOrder(s) /\ RowsOnce(s)
  /\ ~disk_full => Slice(s) /\ Covered(s)

(* The last record is that of instruction n, and m have been counted.      *)
Front(s, n, m) ==
  ~s.limit_reached =>
    /\ s.stream_insns = m
    /\ ~sampling => s.insn_count + (IF s.has_pending THEN 1 ELSE 0) = n
    /\ s.open /\ ~disk_full =>
         IF Captured(s) = << >> THEN s.chunk_start_insn = n
         ELSE Captured(s)[Len(Captured(s))].pos = n

(* A chunk that was closed for good is not counted again.                  *)
Quiet(s) == ~s.open /\ ~s.sample_skipping => s.chunk_insn_count = 0

(* What holds of a vCPU while the guest runs, after n instructions.        *)
Going(s, n) == Books(s) /\ Quiet(s) /\ Recording(s) /\ Front(s, n, n)

BookInv ==
  \A v \in VCPUS :
    /\ run = "running" => Going(vs[v], Len(guest[v].hist))
    /\ FilesInOrder(vs[v])
    /\ (run = "exited" /\ vs[v].sample_skipping) \/ RowsOnce(vs[v])
    /\ run = "exited" /\ ~disk_full => ~vs[v].open /\ Covered(vs[v])

(* Records in order stay so when the next one is appended, and so does any *)
(* part of them that comes first.                                          *)
LEMMA InOrderAppend ==
  ASSUME NEW q \in Seq(Record), InOrder(q), NEW r \in Record,
         q # << >> => r.pos = q[Len(q)].pos + 1
  PROVE  InOrder(Append(q, r))
<1> DEFINE a == Append(q, r)
<1> SUFFICES ASSUME NEW i \in 1 .. Len(a) - 1 PROVE a[i + 1].pos = a[i].pos + 1
  BY DEF InOrder
<1>1. Len(q) \in Nat /\ Len(a) = Len(q) + 1 /\ (Len(q) = 0 <=> q = << >>)
  BY LenProperties, EmptySeq
<1>2. /\ \A j \in 1 .. Len(q) : a[j] = q[j]
      /\ a[Len(q) + 1] = r
  BY LenProperties
<1> HIDE DEF a
<1>3. CASE i < Len(q)
  <2>1. i \in 1 .. Len(q) - 1 /\ i + 1 \in 1 .. Len(q) /\ i \in 1 .. Len(q)
    BY <1>1, <1>3
  <2>2. q[i + 1].pos = q[i].pos + 1
    BY <2>1 DEF InOrder
  <2> QED BY <1>2, <2>1, <2>2
<1>4. CASE i = Len(q)
  <2>1. a[i + 1] = r /\ a[i] = q[Len(q)] /\ q # << >>
    BY <1>1, <1>2, <1>4
  <2> QED BY <2>1
<1> QED BY <1>1, <1>3, <1>4

(* A beginning of records in order is in order.                            *)
LEMMA InOrderPrefix ==
  ASSUME NEW p \in Seq(Record), NEW q \in Seq(Record), InOrder(p \o q)
  PROVE  InOrder(p)
<1> SUFFICES ASSUME NEW i \in 1 .. Len(p) - 1 PROVE p[i + 1].pos = p[i].pos + 1
  BY DEF InOrder
<1>1. Len(p) \in Nat /\ Len(q) \in Nat
  BY LenProperties
<1>2. /\ Len(p \o q) = Len(p) + Len(q)
      /\ \A j \in 1 .. Len(p) : (p \o q)[j] = p[j]
  BY LenProperties
<1>3. i \in 1 .. Len(p \o q) - 1 /\ i \in 1 .. Len(p) /\ i + 1 \in 1 .. Len(p)
  BY <1>1, <1>2
<1> QED BY <1>2, <1>3 DEF InOrder

(* So is what an appended record follows.                                  *)
LEMMA InOrderButLast ==
  ASSUME NEW q \in Seq(Record), NEW r \in Record, InOrder(Append(q, r))
  PROVE  InOrder(q)
<1>1. Append(q, r) = q \o << r >> /\ << r >> \in Seq(Record)
  BY AppendIsConcat
<1> QED BY <1>1, InOrderPrefix

(* Appending to the buffer is appending to what is held.                   *)
LEMMA ConcatAppend ==
  ASSUME NEW p \in Seq(Record), NEW q \in Seq(Record), NEW r \in Record
  PROVE  p \o Append(q, r) = Append(p \o q, r)
<1>1. << r >> \in Seq(Record) /\ p \o q \in Seq(Record)
  BY ConcatProperties
<1>2. Append(q, r) = q \o << r >> /\ Append(p \o q, r) = (p \o q) \o << r >>
  BY <1>1, AppendIsConcat
<1>3. (p \o q) \o << r >> = p \o (q \o << r >>)
  BY <1>1, ConcatAssociative
<1> QED BY <1>2, <1>3

(* The types of what is held.                                              *)
LEMMA HeldTypes ==
  ASSUME NEW s \in VcpuState, Len(s.files) = s.chunk_index + 1
  PROVE  /\ s.chunk_index + 1 \in 1 .. Len(s.files)
         /\ DOMAIN s.files = 1 .. Len(s.files)
         /\ CurrentChunk(s) \in Chunk
         /\ CurrentChunk(s).recs \in Seq(Record)
         /\ s.inbuf \in Seq(Record)
         /\ Held(s) \in Seq(Record)
         /\ Captured(s) \in Seq(Record)
<1>1. /\ s.files \in Seq(Chunk) /\ s.chunk_index \in Nat /\ s.inbuf \in Seq(Record)
      /\ s.pending \in Record
  BY FieldTypes
<1>2. s.chunk_index + 1 \in 1 .. Len(s.files) /\ DOMAIN s.files = 1 .. Len(s.files)
  BY <1>1, LenProperties
<1>3. CurrentChunk(s) \in Chunk
  BY <1>1, <1>2 DEF CurrentChunk
<1>4. CurrentChunk(s).recs \in Seq(Record)
  BY <1>3 DEF Chunk
<1>5. Held(s) \in Seq(Record)
  BY <1>1, <1>4, ConcatProperties DEF Held
<1>6. Captured(s) \in Seq(Record)
  BY <1>1, <1>5, AppendProperties DEF Captured
<1> QED BY <1>1, <1>2, <1>3, <1>4, <1>5, <1>6

(* Storing records in the current chunk, as flush_buffer and               *)
(* finalize_pending_insn do: a full disk takes nothing more, and one with  *)
(* room ends up with the same records.                                     *)
Stored(s, t) ==
  /\ Len(t.files) = Len(s.files)
  /\ \A c \in 1 .. Len(s.files) : c # s.chunk_index + 1 => t.files[c] = s.files[c]
  /\ CurrentChunk(t).closed = CurrentChunk(s).closed
  /\ disk_full => CurrentChunk(t).recs = CurrentChunk(s).recs
  /\ ~disk_full => Captured(t) = Captured(s)

(* flush_buffer stores.                                                    *)
LEMMA FlushStored ==
  ASSUME NEW s \in VcpuState, s.open, Len(s.files) = s.chunk_index + 1
  PROVE  Stored(s, flush_buffer(s))
<1> DEFINE t == flush_buffer(s)
           i == s.chunk_index + 1
           r == IF disk_full THEN s.files[i].recs ELSE s.files[i].recs \o s.inbuf
           e == [s.files[i] EXCEPT !.recs = r]
           fs == [s.files EXCEPT ![i] = e]
<1>1. /\ i \in 1 .. Len(s.files) /\ CurrentChunk(s) \in Chunk
      /\ CurrentChunk(s).recs \in Seq(Record)
      /\ s.inbuf \in Seq(Record) /\ Held(s) \in Seq(Record)
      /\ CurrentChunk(s) = s.files[i]
      /\ s.files \in Seq(Chunk)
  BY HeldTypes, FieldTypes DEF CurrentChunk
<1>2. r = IF disk_full THEN CurrentChunk(s).recs ELSE Held(s)
  BY DEF CurrentChunk, Held
<1>3. e \in Chunk /\ e.recs = r /\ e.closed = CurrentChunk(s).closed
  <2>1. r \in Seq(Record)
    BY <1>1, <1>2
  <2> HIDE DEF r
  <2> QED BY <1>1, <2>1 DEF Chunk
<1>4. t = [s EXCEPT !.files = fs, !.inbuf = << >>]
  BY DEF flush_buffer
<1>5. /\ Len(fs) = Len(s.files)
      /\ \A j \in 1 .. Len(s.files) : fs[j] = IF j = i THEN e ELSE s.files[j]
  <2> HIDE DEF e, i
  <2> QED BY <1>1, <1>3, SeqUpdate
<1> HIDE DEF t, fs, e, r
<1>6. /\ t.files = fs /\ t.inbuf = << >> /\ t.chunk_index = s.chunk_index
      /\ t.has_pending = s.has_pending /\ t.pending = s.pending
  BY <1>4 DEF VcpuState
<1>7. CurrentChunk(t) = e
  BY <1>1, <1>5, <1>6 DEF CurrentChunk
<1>8. ~disk_full => Captured(t) = Captured(s)
  <2> SUFFICES ASSUME ~disk_full PROVE Held(t) = Held(s)
    BY <1>6 DEF Captured
  <2>1. CurrentChunk(t).recs = Held(s)
    BY <1>2, <1>3, <1>7
  <2> QED BY <1>1, <1>6, <2>1, ConcatEmptySeq DEF Held
<1>9. disk_full => CurrentChunk(t).recs = CurrentChunk(s).recs
  BY <1>2, <1>3, <1>7
<1>10. Stored(s, t)
  BY <1>3, <1>5, <1>6, <1>7, <1>8, <1>9 DEF Stored
<1> QED BY <1>10 DEF t

(* Storing twice is storing.                                               *)
LEMMA StoredTwice ==
  ASSUME NEW s, NEW f, NEW t, Stored(s, f), Stored(f, t),
         f.chunk_index = s.chunk_index
  PROVE  Stored(s, t)
BY DEF Stored

(* finalize_pending_insn stores.                                           *)
LEMMA FinalizeStored ==
  ASSUME NEW s \in VcpuState, s.open, Len(s.files) = s.chunk_index + 1
  PROVE  Stored(s, finalize_pending_insn(s))
<1> DEFINE t == finalize_pending_insn(s)
           f == Room(s)
<1>1. CASE ~s.has_pending
  <2>1. t = s
    BY <1>1, FinalizeKeeps
  <2> HIDE DEF t
  <2> QED BY <2>1 DEF Stored, t
<1>2. CASE s.has_pending
  <2>1. f \in VcpuState /\ Kept(s, f) /\ f.has_pending
    BY <1>2, RoomKeeps
  <2>2. Stored(s, f)
    BY FlushStored DEF Room, Stored
  <2>3. /\ Kept(s, t) /\ t.inbuf = Append(f.inbuf, s.pending)
        /\ t.files = f.files /\ ~t.has_pending
    BY <1>2, FinalizeKeeps
  <2> HIDE DEF t, f
  <2>4. Len(f.files) = f.chunk_index + 1
    BY <2>1, <2>2 DEF Kept, Stored
  <2>5. CurrentChunk(t) = CurrentChunk(f)
    BY <2>1, <2>3 DEF CurrentChunk, Kept
  <2>6. Captured(t) = Captured(f)
    <3>1. /\ CurrentChunk(f).recs \in Seq(Record) /\ f.inbuf \in Seq(Record)
          /\ f.pending \in Record
      BY <2>1, <2>4, HeldTypes, FieldTypes
    <3>2. Held(t) = Append(Held(f), f.pending)
      <4>1. t.inbuf = Append(f.inbuf, f.pending)
        BY <2>1, <2>3 DEF Kept
      <4>2. /\ Held(t) = CurrentChunk(f).recs \o Append(f.inbuf, f.pending)
            /\ Held(f) = CurrentChunk(f).recs \o f.inbuf
        BY <2>5, <4>1 DEF Held
      <4> QED BY <3>1, <4>2, ConcatAppend
    <3> QED BY <2>1, <2>3, <3>2 DEF Captured
  <2>7. Stored(f, t)
    BY <2>3, <2>5, <2>6 DEF Stored
  <2>8. Stored(s, t)
    BY <2>1, <2>2, <2>7, StoredTwice DEF Kept
  <2> QED BY <2>8 DEF t
<1> QED BY <1>1, <1>2

(* Files and rows that only grow: closed chunks and old rows stay.         *)
Later(s, t) ==
  /\ Extends(s.files, t.files)
  /\ Len(s.manifest) <= Len(t.manifest)
  /\ \A i \in 1 .. Len(s.manifest) : t.manifest[i] = s.manifest[i]

(* A state that agrees on files and rows is later.                         *)
LEMMA LaterSame ==
  ASSUME NEW s \in VcpuState, NEW t, t.files = s.files, t.manifest = s.manifest
  PROVE  Later(s, t)
<1>1. Len(s.manifest) \in Nat
  BY FieldTypes, LenProperties
<1> QED BY <1>1 DEF Later, Extends

(* Being later is transitive.                                              *)
LEMMA LaterTwice ==
  ASSUME NEW s \in VcpuState, NEW f \in VcpuState, NEW t \in VcpuState,
         Later(s, f), Later(f, t)
  PROVE  Later(s, t)
<1>1. Extends(s.files, t.files)
  BY ExtendsTransitive DEF Later
<1>2. Len(s.manifest) \in Nat /\ Len(f.manifest) \in Nat /\ Len(t.manifest) \in Nat
  BY FieldTypes, LenProperties
<1> QED BY <1>1, <1>2 DEF Later

(* Storing records keeps the books: the records of the slice are the same, *)
(* and those in the file are a beginning of them.                          *)
LEMMA StoredBooks ==
  ASSUME NEW s \in VcpuState, NEW t \in VcpuState, s.open, Kept(s, t),
         Stored(s, t), Books(s)
  PROVE  Books(t) /\ Later(s, t)
<1> DEFINE i == s.chunk_index + 1
<1>1. /\ Len(s.files) = i /\ ~CurrentChunk(s).closed
      /\ t.open /\ t.chunk_index = s.chunk_index /\ t.manifest = s.manifest
      /\ Len(t.files) = Len(s.files)
      /\ t.chunk_start_insn = s.chunk_start_insn
      /\ t.manifest_fp = s.manifest_fp
  BY DEF Books, Layout, Kept, Stored
<1>2. /\ i \in 1 .. Len(s.files)
      /\ DOMAIN s.files = 1 .. Len(s.files) /\ DOMAIN t.files = 1 .. Len(s.files)
      /\ CurrentChunk(t).recs \in Seq(Record) /\ t.inbuf \in Seq(Record)
      /\ Held(t) \in Seq(Record) /\ t.pending \in Record
      /\ CurrentChunk(s) = s.files[i] /\ CurrentChunk(t) = t.files[i]
  BY <1>1, HeldTypes, FieldTypes DEF CurrentChunk
<1>3. \A c \in 1 .. Len(s.files) : c # i => t.files[c] = s.files[c]
  BY DEF Stored
<1>4. Layout(t)
  BY <1>1, <1>2 DEF Layout, Stored
<1>5. RowsOnce(t)
  BY <1>1 DEF Books, RowsOnce
<1>6. ~disk_full => Slice(t)
  BY <1>1 DEF Books, Slice, Stored
<1>7. FilesInOrder(t)
  <2> SUFFICES ASSUME NEW c \in 1 .. Len(s.files) PROVE InOrder(t.files[c].recs)
    BY <1>2 DEF FilesInOrder
  <2>1. CASE c # i
    BY <1>2, <1>3, <2>1 DEF Books, FilesInOrder
  <2>2. CASE c = i /\ disk_full
    BY <1>2, <2>2 DEF Books, FilesInOrder, Stored
  <2>3. CASE c = i /\ ~disk_full
    <3>1. InOrder(Captured(t))
      BY <1>1, <1>6, <2>3 DEF Slice
    <3>2. InOrder(Held(t))
      BY <1>2, <3>1, InOrderButLast DEF Captured
    <3>3. InOrder(CurrentChunk(t).recs)
      BY <1>2, <3>2, InOrderPrefix DEF Held
    <3> QED BY <1>2, <2>3, <3>3
  <2> QED BY <2>1, <2>2, <2>3
<1>8. ~disk_full => Covered(t)
  <2> SUFFICES ASSUME ~disk_full, chunking_active /\ t.manifest_fp,
                      NEW c \in 1 .. Len(s.files), t.files[c].recs # << >>, c # i
               PROVE  Listing(t, c)
    BY <1>1, <1>2 DEF Covered
  <2>1. t.files[c] = s.files[c] /\ c \in DOMAIN s.files
    BY <1>2, <1>3
  <2>2. Listing(s, c)
    BY <1>1, <2>1 DEF Books, Covered
  <2> QED BY <1>1, <2>1, <2>2 DEF Listing
<1>9. Later(s, t)
  <2>1. Extends(s.files, t.files)
    BY <1>1, <1>2, <1>3 DEF Extends
  <2>2. Len(s.manifest) \in Nat
    BY FieldTypes, LenProperties
  <2> QED BY <1>1, <2>1, <2>2 DEF Later
<1> QED BY <1>4, <1>5, <1>6, <1>7, <1>8, <1>9 DEF Books

(* The pending instruction becomes a record, nothing else changes.         *)
LEMMA FinalizeBooks ==
  ASSUME NEW s \in VcpuState, Books(s)
  PROVE  LET t == finalize_pending_insn(s)
         IN  /\ t \in VcpuState /\ Books(t) /\ Later(s, t) /\ Kept(s, t)
             /\ ~t.has_pending
             /\ t.insn_count = s.insn_count + (IF s.has_pending THEN 1 ELSE 0)
             /\ ~s.open => t = s
             /\ s.open /\ ~disk_full => Captured(t) = Captured(s)
<1> DEFINE t == finalize_pending_insn(s)
<1>1. t \in VcpuState /\ Kept(s, t) /\ ~t.has_pending
  BY FinalizeType, FinalizeKeeps
<1>2. t.insn_count = s.insn_count + (IF s.has_pending THEN 1 ELSE 0)
  BY FinalizeKeeps, FieldTypes
<1>3. CASE ~s.open
  <2>1. ~s.has_pending
    BY <1>3 DEF Books, Layout
  <2>2. t = s
    BY <2>1, FinalizeKeeps
  <2>3. Later(s, s)
    BY LaterSame
  <2> HIDE DEF t
  <2> QED BY <1>1, <1>2, <1>3, <2>2, <2>3 DEF t
<1>4. CASE s.open
  <2>1. Stored(s, t)
    BY <1>4, FinalizeStored DEF Books, Layout
  <2> HIDE DEF t
  <2>2. Books(t) /\ Later(s, t)
    BY <1>1, <1>4, <2>1, StoredBooks
  <2> QED BY <1>1, <1>2, <1>4, <2>1, <2>2 DEF Stored, t
<1> QED BY <1>3, <1>4

(* So does a flush.                                                        *)
LEMMA FlushBooks ==
  ASSUME NEW s \in VcpuState, Books(s)
  PROVE  LET t == flush_buffer(s)
         IN  /\ t \in VcpuState /\ Books(t) /\ Later(s, t) /\ Kept(s, t)
             /\ t.has_pending = s.has_pending
             /\ t.insn_count = s.insn_count
             /\ t.chunk_insn_count = s.chunk_insn_count
             /\ t.inbuf = << >>
             /\ ~s.open => t = s
<1> DEFINE t == flush_buffer(s)
<1>1. /\ t \in VcpuState /\ Kept(s, t) /\ t.has_pending = s.has_pending
      /\ t.insn_count = s.insn_count /\ t.chunk_insn_count = s.chunk_insn_count
  BY FlushType, FlushKeeps
<1>2. CASE ~s.open
  <2>1. t = s /\ s.inbuf = << >>
    BY <1>2, FlushKeeps DEF Books, Layout
  <2>2. Later(s, s)
    BY LaterSame
  <2> HIDE DEF t
  <2> QED BY <1>1, <1>2, <2>1, <2>2 DEF t
<1>3. CASE s.open
  <2>1. Stored(s, t) /\ t.inbuf = << >>
    BY <1>3, FlushStored, FlushKeeps DEF Books, Layout
  <2> HIDE DEF t
  <2>2. Books(t) /\ Later(s, t)
    BY <1>1, <1>3, <2>1, StoredBooks
  <2> QED BY <1>1, <1>3, <2>1, <2>2 DEF t
<1> QED BY <1>2, <1>3

(* With the buffer drained, the file of the open chunk holds all that was  *)
(* captured.                                                               *)
LEMMA Drained ==
  ASSUME NEW s \in VcpuState, s.open, Layout(s), ~s.has_pending, s.inbuf = << >>
  PROVE  Captured(s) = s.files[s.chunk_index + 1].recs
<1>1. CurrentChunk(s).recs \in Seq(Record)
  BY HeldTypes DEF Layout
<1>2. Held(s) = CurrentChunk(s).recs
  BY <1>1, ConcatEmptySeq DEF Held
<1> QED BY <1>2 DEF Captured, CurrentChunk

(* A drained chunk is closed with its records, and waits for its row.      *)
LEMMA ClosedBooks ==
  ASSUME NEW s \in VcpuState, s.open, Books(s), ~s.has_pending, s.inbuf = << >>
  PROVE  LET t == Closed(s)
             i == s.chunk_index + 1
         IN  /\ t \in VcpuState /\ ~t.open /\ Layout(t) /\ FilesInOrder(t)
             /\ Later(s, t)
             /\ i \in DOMAIN t.files /\ DOMAIN t.files = DOMAIN s.files
             /\ t.files[i].recs = s.files[i].recs
             /\ \A c \in DOMAIN s.files : c # i => t.files[c] = s.files[c]
<1> DEFINE i == s.chunk_index + 1
           e == [s.files[i] EXCEPT !.closed = TRUE]
           fs == [s.files EXCEPT ![i] = e]
           t == Closed(s)
<1>1. /\ Len(s.files) = i /\ i \in 1 .. Len(s.files)
      /\ DOMAIN s.files = 1 .. Len(s.files)
      /\ s.files[i] \in Chunk /\ ~s.files[i].closed
      /\ s.files \in Seq(Chunk)
  BY HeldTypes, FieldTypes DEF Books, Layout, CurrentChunk
<1>2. e \in Chunk /\ e.closed /\ e.recs = s.files[i].recs
  BY <1>1 DEF Chunk
<1>3. /\ t \in VcpuState /\ ~t.open
      /\ t.inbuf = << >> /\ ~t.has_pending /\ t.chunk_index = s.chunk_index
      /\ t.limit_reached = s.limit_reached /\ t.manifest = s.manifest
      /\ t.files = fs
  BY ClosedKeeps, ClosedType
<1> HIDE DEF e, t
<1>4. /\ Len(fs) = Len(s.files) /\ fs \in Seq(Chunk)
      /\ \A j \in 1 .. Len(s.files) : fs[j] = IF j = i THEN e ELSE s.files[j]
  <2> HIDE DEF i
  <2> QED BY <1>1, <1>2, ExceptSeq
<1>5. DOMAIN fs = 1 .. Len(s.files)
  BY <1>4, LenProperties
<1> HIDE DEF fs
<1>6. Layout(t)
  BY <1>1, <1>3, <1>4 DEF Layout
<1>7. FilesInOrder(t)
  BY <1>1, <1>2, <1>3, <1>4, <1>5 DEF Books, FilesInOrder
<1>8. Later(s, t)
  <2>1. Extends(s.files, t.files)
    BY <1>1, <1>3, <1>4, <1>5 DEF Extends
  <2>2. Len(s.manifest) \in Nat
    BY FieldTypes, LenProperties
  <2> QED BY <1>3, <2>1, <2>2 DEF Later
<1>9. /\ t \in VcpuState /\ ~t.open /\ i \in DOMAIN t.files
      /\ DOMAIN t.files = DOMAIN s.files
      /\ t.files[i].recs = s.files[i].recs
      /\ \A c \in DOMAIN s.files : c # i => t.files[c] = s.files[c]
  BY <1>1, <1>2, <1>3, <1>4, <1>5
<1> QED BY <1>6, <1>7, <1>8, <1>9 DEF t

(* What Listed does to the rows.                                           *)
LEMMA ListedKeeps ==
  ASSUME NEW s \in VcpuState
  PROVE  LET t == Listed(s)
             k == Len(s.manifest) + 1
         IN  /\ t \in VcpuState /\ t.files = s.files /\ t.open = s.open
             /\ t.inbuf = s.inbuf /\ t.has_pending = s.has_pending
             /\ t.chunk_index = s.chunk_index
             /\ t.chunk_insn_count = s.chunk_insn_count
             /\ t.limit_reached = s.limit_reached
             /\ t.sample_skipping = s.sample_skipping
             /\ t.stream_insns = s.stream_insns
             /\ t.insn_count = s.insn_count
             /\ t.manifest_fp = s.manifest_fp
             /\ Len(s.manifest) \in Nat
             /\ DOMAIN s.manifest = 1 .. Len(s.manifest)
             /\ DOMAIN t.manifest = 1 .. k /\ Len(t.manifest) = k
             /\ \A j \in 1 .. Len(s.manifest) : t.manifest[j] = s.manifest[j]
             /\ t.manifest[k].chunk = s.chunk_index
             /\ t.manifest[k].start = s.chunk_start_insn
<1> DEFINE t == Listed(s)
           k == Len(s.manifest) + 1
           row == [chunk |-> s.chunk_index, start |-> s.chunk_start_insn,
                   count |-> s.chunk_insn_count]
           m == Append(s.manifest, row)
<1>1. s.manifest \in Seq(Row) /\ row \in Row
  BY FieldTypes DEF Row
<1>2. row.chunk = s.chunk_index /\ row.start = s.chunk_start_insn
  OBVIOUS
<1>3. t = [s EXCEPT !.manifest = m]
  BY DEF Listed
<1>4. t \in VcpuState
  BY ListedType
<1> HIDE DEF row
<1>5. /\ Len(s.manifest) \in Nat
      /\ DOMAIN s.manifest = 1 .. Len(s.manifest)
      /\ DOMAIN m = 1 .. k /\ Len(m) = k
      /\ \A j \in 1 .. Len(s.manifest) : m[j] = s.manifest[j]
      /\ m[k] = row
  BY <1>1, LenProperties
<1> HIDE DEF t, m
<1>6. /\ t.files = s.files /\ t.open = s.open
      /\ t.inbuf = s.inbuf /\ t.has_pending = s.has_pending
      /\ t.chunk_index = s.chunk_index
      /\ t.chunk_insn_count = s.chunk_insn_count
      /\ t.limit_reached = s.limit_reached
  BY <1>3 DEF VcpuState
<1>7. /\ t.sample_skipping = s.sample_skipping
      /\ t.stream_insns = s.stream_insns
      /\ t.insn_count = s.insn_count
      /\ t.manifest_fp = s.manifest_fp
      /\ t.manifest = m
  BY <1>3 DEF VcpuState
<1> HIDE DEF k
<1>8. /\ t \in VcpuState /\ t.files = s.files /\ t.open = s.open
      /\ t.inbuf = s.inbuf /\ t.has_pending = s.has_pending
      /\ t.chunk_index = s.chunk_index
      /\ t.chunk_insn_count = s.chunk_insn_count
      /\ t.limit_reached = s.limit_reached
      /\ t.sample_skipping = s.sample_skipping
      /\ t.stream_insns = s.stream_insns
      /\ t.insn_count = s.insn_count
      /\ t.manifest_fp = s.manifest_fp
  BY <1>4, <1>6, <1>7
<1>9. /\ DOMAIN t.manifest = 1 .. k /\ Len(t.manifest) = k
      /\ \A j \in 1 .. Len(s.manifest) : t.manifest[j] = s.manifest[j]
      /\ t.manifest[k].chunk = s.chunk_index
      /\ t.manifest[k].start = s.chunk_start_insn
  BY <1>2, <1>5, <1>7
<1> QED BY <1>5, <1>8, <1>9 DEF t, k

(* close_chunk on an open file keeps the books: the chunk is closed with   *)
(* what was captured, and if that is anything, one row is added that tells *)
(* where it starts.                                                        *)
LEMMA CloseBooks ==
  ASSUME NEW s \in VcpuState, s.open, Books(s), ~disk_full => Accounted(s)
  PROVE  LET t == close_chunk(s)
         IN  /\ t \in VcpuState /\ ~t.open /\ ~t.has_pending
             /\ Books(t) /\ Later(s, t)
             /\ t.limit_reached = s.limit_reached
             /\ t.sample_skipping = s.sample_skipping
             /\ t.stream_insns = s.stream_insns
             /\ t.insn_count = s.insn_count + (IF s.has_pending THEN 1 ELSE 0)
<1> DEFINE a == finalize_pending_insn(s)
           b == flush_buffer(a)
           c == Closed(b)
           l == Listed(c)
           t == close_chunk(s)
           i == b.chunk_index + 1
           lists == chunking_active /\ c.manifest_fp /\ c.chunk_insn_count > 0
<1>1. /\ a \in VcpuState /\ Books(a) /\ Later(s, a) /\ Kept(s, a)
      /\ ~a.has_pending
      /\ a.insn_count = s.insn_count + (IF s.has_pending THEN 1 ELSE 0)
  BY FinalizeBooks
<1>2. ~disk_full => Accounted(a)
  BY FinalizeInv
<1>3. t = IF lists THEN l ELSE c
  BY DEF close_chunk
<1> HIDE DEF a, t
<1>4. /\ b \in VcpuState /\ Books(b) /\ Later(a, b) /\ Kept(a, b)
      /\ ~b.has_pending /\ b.insn_count = a.insn_count
      /\ b.inbuf = << >>
  BY <1>1, FlushBooks
<1>5. ~disk_full => Accounted(b)
  BY <1>1, <1>2, FlushInv
<1>6. b.open
  BY <1>1, <1>4 DEF Kept
<1> HIDE DEF b
<1>7. /\ c \in VcpuState /\ ~c.open /\ Layout(c) /\ FilesInOrder(c)
      /\ Later(b, c)
      /\ i \in DOMAIN c.files /\ DOMAIN c.files = DOMAIN b.files
      /\ c.files[i].recs = b.files[i].recs
      /\ \A d \in DOMAIN b.files : d # i => c.files[d] = b.files[d]
  BY <1>4, <1>6, ClosedBooks
<1>8. /\ c.inbuf = b.inbuf /\ c.has_pending = b.has_pending
      /\ c.insn_count = b.insn_count
      /\ c.chunk_insn_count = b.chunk_insn_count
      /\ c.chunk_index = b.chunk_index
      /\ c.chunk_start_insn = b.chunk_start_insn
      /\ c.stream_insns = b.stream_insns
      /\ c.limit_reached = b.limit_reached
      /\ c.sample_skipping = b.sample_skipping
      /\ c.manifest_fp = b.manifest_fp /\ c.manifest = b.manifest
  BY <1>4, ClosedKeeps
<1> HIDE DEF c
<1>9. /\ l \in VcpuState /\ l.files = c.files /\ ~l.open
      /\ l.inbuf = c.inbuf /\ l.has_pending = c.has_pending
      /\ l.chunk_index = c.chunk_index
      /\ l.limit_reached = c.limit_reached
      /\ l.sample_skipping = c.sample_skipping
      /\ l.stream_insns = c.stream_insns
      /\ l.insn_count = c.insn_count
      /\ l.manifest_fp = c.manifest_fp
  BY <1>7, ListedKeeps
<1>10. LET k == Len(c.manifest) + 1
       IN  /\ Len(c.manifest) \in Nat
           /\ DOMAIN c.manifest = 1 .. Len(c.manifest)
           /\ DOMAIN l.manifest = 1 .. k /\ Len(l.manifest) = k
           /\ \A j \in 1 .. Len(c.manifest) : l.manifest[j] = c.manifest[j]
           /\ l.manifest[k].chunk = c.chunk_index
           /\ l.manifest[k].start = c.chunk_start_insn
  BY <1>7, ListedKeeps
<1> HIDE DEF l
<1>11. b.chunk_index \in Nat /\ b.manifest \in Seq(Row)
  BY <1>4, FieldTypes
<1>12. \A j \in DOMAIN b.manifest : b.manifest[j].chunk \in Nat
  <2> TAKE j \in DOMAIN b.manifest
  <2>1. b.manifest[j] \in Row
    BY <1>11, LenProperties
  <2> QED BY <2>1 DEF Row
<1>13. RowsOnce(c)
  <2>1. \A j \in DOMAIN b.manifest : b.manifest[j].chunk < b.chunk_index
    BY <1>4, <1>6 DEF Books, RowsOnce
  <2> QED BY <1>4, <1>7, <1>8, <1>11, <1>12, <2>1 DEF Books, RowsOnce
<1>14. RowsOnce(l)
  <2> DEFINE k == Len(c.manifest) + 1
  <2>1. \A j \in DOMAIN b.manifest : b.manifest[j].chunk < b.chunk_index
    BY <1>4, <1>6 DEF Books, RowsOnce
  <2>2. /\ k \notin DOMAIN c.manifest
        /\ \A j \in DOMAIN l.manifest : j \in DOMAIN c.manifest \/ j = k
    BY <1>10
  <2>3. \A j \in DOMAIN c.manifest :
          l.manifest[j].chunk = b.manifest[j].chunk /\ l.manifest[j].chunk < l.chunk_index
    BY <1>8, <1>9, <1>10, <2>1
  <2>4. l.manifest[k].chunk = l.chunk_index
    BY <1>9, <1>10
  <2> HIDE DEF k
  <2>5. \A j \in DOMAIN l.manifest : l.manifest[j].chunk <= l.chunk_index
    BY <1>8, <1>9, <1>11, <1>12, <2>2, <2>3, <2>4
  <2>6. ASSUME NEW j \in DOMAIN l.manifest, NEW h \in DOMAIN l.manifest,
               l.manifest[j].chunk = l.manifest[h].chunk
        PROVE  j = h
    <3>1. CASE j \in DOMAIN c.manifest /\ h \in DOMAIN c.manifest
      BY <1>4, <1>8, <2>3, <2>6, <3>1 DEF Books, RowsOnce
    <3>2. CASE j \in DOMAIN c.manifest /\ h = k
      BY <1>8, <1>9, <1>11, <1>12, <2>3, <2>4, <2>6, <3>2
    <3>3. CASE j = k /\ h \in DOMAIN c.manifest
      BY <1>8, <1>9, <1>11, <1>12, <2>3, <2>4, <2>6, <3>3
    <3> QED BY <2>2, <3>1, <3>2, <3>3
  <2> QED BY <1>9, <2>5, <2>6 DEF RowsOnce
<1>15. Later(s, c)
  BY <1>1, <1>4, <1>7, LaterTwice
<1>16. Later(s, l)
  <2>1. Later(c, l)
    BY <1>9, <1>10 DEF Later, Extends
  <2> QED BY <1>7, <1>9, <1>15, <2>1, LaterTwice
<1>17. Layout(l) /\ FilesInOrder(l)
  BY <1>7, <1>9 DEF Layout, FilesInOrder
<1>18. ASSUME ~disk_full, chunking_active, c.manifest_fp,
              NEW d \in DOMAIN c.files, c.files[d].recs # << >>, d # i
       PROVE  Listing(c, d)
  <2>1. d \in DOMAIN b.files /\ c.files[d] = b.files[d]
    BY <1>7, <1>18
  <2>2. Listing(b, d)
    BY <1>4, <1>8, <1>18, <2>1 DEF Books, Covered
  <2> QED BY <1>8, <2>1, <2>2 DEF Listing
<1>19. ASSUME ~disk_full, c.files[i].recs # << >>
       PROVE  /\ c.chunk_insn_count > 0
              /\ c.chunk_start_insn = c.files[i].recs[1].pos - 1
  <2>1. /\ Captured(b) = c.files[i].recs
        /\ CurrentChunk(b).recs = c.files[i].recs
        /\ c.files[i].recs \in Seq(Record)
    <3>1. Captured(b) = b.files[b.chunk_index + 1].recs
      BY <1>4, <1>6, Drained DEF Books
    <3>2. CurrentChunk(b).recs \in Seq(Record)
      BY <1>4, <1>6, HeldTypes DEF Books, Layout
    <3> QED BY <1>7, <3>1, <3>2 DEF CurrentChunk
  <2>2. Len(CurrentChunk(b).recs) + Len(b.inbuf) = b.chunk_insn_count
    BY <1>5, <1>6, <1>19 DEF Accounted
  <2>3. Len(b.inbuf) = 0
    BY <1>4
  <2>4. Len(c.files[i].recs) \in Nat \ {0}
    BY <1>19, <2>1, EmptySeq
  <2>5. c.chunk_insn_count > 0
    BY <1>8, <2>1, <2>2, <2>3, <2>4
  <2>6. c.files[i].recs[1].pos = b.chunk_start_insn + 1
    BY <1>4, <1>6, <1>19, <2>1 DEF Books, Slice
  <2>7. b.chunk_start_insn \in Nat
    BY <1>4, FieldTypes
  <2> QED BY <1>8, <2>5, <2>6, <2>7
<1>20. lists => Books(l)
  <2> SUFFICES ASSUME ~disk_full, chunking_active, c.manifest_fp
               PROVE  Covered(l)
    BY <1>9, <1>14, <1>17 DEF Books, Slice
  <2> SUFFICES ASSUME NEW d \in DOMAIN c.files, c.files[d].recs # << >>
               PROVE  Listing(l, d)
    BY <1>9 DEF Covered
  <2>1. CASE d = i
    <3> DEFINE k == Len(c.manifest) + 1
    <3>1. k \in DOMAIN l.manifest
      BY <1>10
    <3>2. l.manifest[k].chunk = i - 1
      BY <1>8, <1>10, <1>11
    <3>3. l.manifest[k].start = l.files[i].recs[1].pos - 1
      BY <1>9, <1>10, <1>19, <2>1
    <3> HIDE DEF k, i
    <3> QED BY <2>1, <3>1, <3>2, <3>3 DEF Listing
  <2>2. CASE d # i
    <3>1. Listing(c, d)
      BY <1>18, <2>2
    <3>2. PICK j \in DOMAIN c.manifest :
            /\ c.manifest[j].chunk = d - 1
            /\ c.manifest[j].start = c.files[d].recs[1].pos - 1
      BY <3>1 DEF Listing
    <3>3. j \in DOMAIN l.manifest /\ l.manifest[j] = c.manifest[j]
      BY <1>10
    <3> QED BY <1>9, <3>2, <3>3 DEF Listing
  <2> QED BY <2>1, <2>2
<1>21. ~lists => Books(c)
  <2> SUFFICES ASSUME ~lists, ~disk_full, chunking_active, c.manifest_fp,
                      NEW d \in DOMAIN c.files, c.files[d].recs # << >>
               PROVE  Listing(c, d)
    BY <1>7, <1>13 DEF Books, Slice, Covered
  <2>1. d # i
    BY <1>19
  <2> QED BY <1>18, <2>1
<1>22. Books(t)
  BY <1>3, <1>20, <1>21
<1>23. /\ t \in VcpuState /\ ~t.open /\ ~t.has_pending /\ Later(s, t)
       /\ t.limit_reached = s.limit_reached
       /\ t.sample_skipping = s.sample_skipping
       /\ t.stream_insns = s.stream_insns
       /\ t.insn_count = s.insn_count + (IF s.has_pending THEN 1 ELSE 0)
  <2>1. /\ b.limit_reached = s.limit_reached
        /\ b.sample_skipping = s.sample_skipping
        /\ b.stream_insns = s.stream_insns
    BY <1>1, <1>4 DEF Kept
  <2> HIDE DEF lists
  <2>2. CASE lists
    BY <1>1, <1>3, <1>4, <1>8, <1>9, <1>16, <2>1, <2>2
  <2>3. CASE ~lists
    BY <1>1, <1>3, <1>4, <1>7, <1>8, <1>15, <2>1, <2>3
  <2> QED BY <2>2, <2>3
<1> QED BY <1>22, <1>23 DEF t

(* Books speaks of the fields below; a step that leaves them alone, and    *)
(* may stop the vCPU, keeps the books.                                     *)
Untouched(s, t) ==
  /\ t.files = s.files /\ t.manifest = s.manifest /\ t.inbuf = s.inbuf
  /\ t.open = s.open /\ t.has_pending = s.has_pending /\ t.pending = s.pending
  /\ t.chunk_index = s.chunk_index
  /\ t.chunk_start_insn = s.chunk_start_insn
  /\ t.manifest_fp = s.manifest_fp /\ t.insn_count = s.insn_count

(* Such a step also captures nothing.                                      *)
LEMMA UntouchedBooks ==
  ASSUME NEW s \in VcpuState, NEW t, Books(s), Untouched(s, t),
         s.limit_reached => t.limit_reached
  PROVE  Books(t) /\ Later(s, t) /\ Captured(t) = Captured(s)
<1>1. Captured(t) = Captured(s)
  BY DEF Untouched, Captured, Held, CurrentChunk
<1>2. Layout(t) /\ FilesInOrder(t)
  BY DEF Books, Untouched, Layout, FilesInOrder, CurrentChunk
<1>3. RowsOnce(t)
  BY DEF Books, Untouched, RowsOnce
<1>4. Slice(s) => Slice(t)
  BY <1>1 DEF Untouched, Slice
<1>5. Covered(s) => Covered(t)
  BY DEF Untouched, Covered, Listing
<1>6. Later(s, t)
  BY LaterSame DEF Untouched
<1> QED BY <1>1, <1>2, <1>3, <1>4, <1>5, <1>6 DEF Books

(* Front is about the counters and the last record.                        *)
LEMMA FrontKept ==
  ASSUME NEW s, NEW t, NEW n, NEW m, Front(s, n, m),
         t.limit_reached = s.limit_reached, t.stream_insns = s.stream_insns,
         ~sampling => t.insn_count + (IF t.has_pending THEN 1 ELSE 0)
                        = s.insn_count + (IF s.has_pending THEN 1 ELSE 0),
         t.open = s.open, t.chunk_start_insn = s.chunk_start_insn,
         s.open /\ ~disk_full => Captured(t) = Captured(s)
  PROVE  Front(t, n, m)
BY DEF Front

(* The file after a closed one is empty, and the position its row will     *)
(* give is that of the next instruction.                                   *)
LEMMA NextChunkBooks ==
  ASSUME NEW s \in VcpuState, Books(s), ~s.open, ~s.limit_reached,
         NEW ok \in BOOLEAN
  PROVE  LET t == next_chunk(s, ok)
         IN  /\ t \in VcpuState /\ Books(t) /\ Later(s, t)
             /\ t.open <=> ok
             /\ t.limit_reached <=> ~ok
             /\ ~t.has_pending
             /\ t.chunk_insn_count = 0
             /\ t.sample_skipping = s.sample_skipping
             /\ t.stream_insns = s.stream_insns
             /\ t.insn_count = s.insn_count
             /\ ok => /\ Captured(t) = << >>
                      /\ t.chunk_start_insn =
                           IF ~sampling THEN s.insn_count
                           ELSE IF s.stream_insns > 0 THEN s.stream_insns - 1 ELSE 0
<1> DEFINE k == s.chunk_index + 1
           n == [s EXCEPT !.chunk_index = k]
           fs == Append(s.files, EmptyChunk)
           st == IF ~sampling THEN s.insn_count
                 ELSE IF s.stream_insns > 0 THEN s.stream_insns - 1 ELSE 0
           t == next_chunk(s, ok)
<1>1. /\ s.files \in Seq(Chunk) /\ s.chunk_index \in Nat /\ k \in Nat
      /\ Len(s.files) = k /\ ~s.has_pending /\ s.inbuf = << >>
      /\ s.manifest \in Seq(Row)
  BY FieldTypes DEF Books, Layout
<1>2. EmptyChunk \in Chunk /\ ~EmptyChunk.closed /\ EmptyChunk.recs = << >>
  BY DEF EmptyChunk, Chunk
<1>3. Created(s.files, k) = fs
  BY <1>1 DEF Created
<1>4. /\ Len(fs) = k + 1 /\ fs[k + 1] = EmptyChunk
      /\ DOMAIN s.files = 1 .. k /\ DOMAIN fs = 1 .. k + 1
      /\ \A j \in 1 .. k : fs[j] = s.files[j]
  BY <1>1, <1>2, LenProperties
<1>5. /\ n.files = s.files /\ n.manifest = s.manifest /\ n.chunk_index = k
      /\ n.sample_skipping = s.sample_skipping
      /\ n.has_pending = s.has_pending /\ n.open = s.open
      /\ n.limit_reached = s.limit_reached /\ n \in VcpuState
  <2>1. n \in VcpuState
    BY <1>1, SetCounter
  <2> HIDE DEF k
  <2> QED BY <2>1 DEF VcpuState
<1>6. /\ n.stream_insns = s.stream_insns /\ n.insn_count = s.insn_count
      /\ n.manifest_fp = s.manifest_fp
  <2> HIDE DEF k
  <2> QED BY DEF VcpuState
<1>7. t = IF ok
          THEN [n EXCEPT !.inbuf = << >>, !.open = TRUE, !.files = fs,
                         !.chunk_insn_count = 0, !.chunk_start_insn = st]
          ELSE [n EXCEPT !.inbuf = << >>, !.chunk_insn_count = 0, !.limit_reached = TRUE]
  <2> HIDE DEF n, fs
  <2>1. t = IF ok THEN open_chunk(n) ELSE open_failed(n)
    BY DEF next_chunk, n
  <2> QED BY <1>3, <1>5, <1>6, <2>1 DEF open_chunk, open_failed
<1>8. t \in VcpuState
  BY NextChunkType
<1> HIDE DEF n, fs, st, t
<1>9. /\ t.manifest = n.manifest /\ t.chunk_insn_count = 0 /\ t.inbuf = << >>
      /\ t.sample_skipping = n.sample_skipping /\ t.chunk_index = n.chunk_index
      /\ t.has_pending = n.has_pending /\ t.stream_insns = n.stream_insns
      /\ t.insn_count = n.insn_count /\ t.manifest_fp = n.manifest_fp
      /\ t.open = IF ok THEN TRUE ELSE n.open
      /\ t.limit_reached = IF ok THEN n.limit_reached ELSE TRUE
      /\ t.files = IF ok THEN fs ELSE n.files
      /\ ok => t.chunk_start_insn = st
  <2>1. CASE ok
    <3>1. t = [n EXCEPT !.inbuf = << >>, !.open = TRUE, !.files = fs,
                        !.chunk_insn_count = 0, !.chunk_start_insn = st]
      BY <1>7, <2>1
    <3>2. /\ t.manifest = n.manifest /\ t.chunk_insn_count = 0 /\ t.inbuf = << >>
          /\ t.sample_skipping = n.sample_skipping /\ t.chunk_index = n.chunk_index
          /\ t.has_pending = n.has_pending /\ t.stream_insns = n.stream_insns
      BY <1>5, <3>1 DEF VcpuState
    <3>3. /\ t.insn_count = n.insn_count /\ t.manifest_fp = n.manifest_fp
          /\ t.open = TRUE /\ t.limit_reached = n.limit_reached
          /\ t.files = fs /\ t.chunk_start_insn = st
      BY <1>5, <3>1 DEF VcpuState
    <3> QED BY <2>1, <3>2, <3>3
  <2>2. CASE ~ok
    <3>1. t = [n EXCEPT !.inbuf = << >>, !.chunk_insn_count = 0, !.limit_reached = TRUE]
      BY <1>7, <2>2
    <3>2. /\ t.manifest = n.manifest /\ t.chunk_insn_count = 0 /\ t.inbuf = << >>
          /\ t.sample_skipping = n.sample_skipping /\ t.chunk_index = n.chunk_index
          /\ t.has_pending = n.has_pending /\ t.stream_insns = n.stream_insns
      BY <1>5, <3>1 DEF VcpuState
    <3>3. /\ t.insn_count = n.insn_count /\ t.manifest_fp = n.manifest_fp
          /\ t.open = n.open /\ t.limit_reached = TRUE
          /\ t.files = n.files
      BY <1>5, <3>1 DEF VcpuState
    <3> QED BY <2>2, <3>2, <3>3
  <2> QED BY <2>1, <2>2
<1>10. /\ DOMAIN t.files = IF ok THEN 1 .. k + 1 ELSE 1 .. k
       /\ \A j \in 1 .. k : t.files[j] = s.files[j]
       /\ ok => /\ t.files[k + 1] = EmptyChunk /\ Len(t.files) = k + 1
                /\ CurrentChunk(t) = EmptyChunk
  BY <1>4, <1>5, <1>9 DEF CurrentChunk
<1>11. (t.open <=> ok) /\ (t.limit_reached <=> ~ok) /\ ~t.has_pending
  BY <1>1, <1>5, <1>9
<1>12. ok => Captured(t) = << >>
  <2>1. << >> \o << >> = << >>
    OBVIOUS
  <2> QED BY <1>2, <1>9, <1>10, <1>11, <2>1 DEF Captured, Held
<1>13. Layout(t)
  BY <1>1, <1>2, <1>5, <1>9, <1>10, <1>11 DEF Layout
<1>14. FilesInOrder(t)
  <2>1. \A j \in 1 .. k : InOrder(t.files[j].recs)
    BY <1>4, <1>10 DEF Books, FilesInOrder
  <2>2. InOrder(EmptyChunk.recs)
    <3>1. Len(EmptyChunk.recs) = 0
      BY <1>2
    <3> QED BY <3>1 DEF InOrder
  <2>3. \A j \in 1 .. k + 1 : j \in 1 .. k \/ j = k + 1
    BY <1>1
  <2> QED BY <1>10, <2>1, <2>2, <2>3 DEF FilesInOrder
<1>15. RowsOnce(t)
  <2>1. \A j \in DOMAIN s.manifest : s.manifest[j].chunk \in Nat
    <3> TAKE j \in DOMAIN s.manifest
    <3>1. s.manifest[j] \in Row
      BY <1>1, LenProperties
    <3> QED BY <3>1 DEF Row
  <2>2. \A j \in DOMAIN s.manifest : s.manifest[j].chunk < k
    BY <1>1, <2>1 DEF Books, RowsOnce
  <2>3. t.manifest = s.manifest /\ t.chunk_index = k
    BY <1>5, <1>9
  <2> HIDE DEF k
  <2> QED BY <1>1, <2>1, <2>2, <2>3 DEF Books, RowsOnce
<1>16. ~disk_full => Slice(t)
  <2>1. InOrder(<< >>)
    BY DEF InOrder
  <2> QED BY <1>11, <1>12, <2>1 DEF Slice
<1>17. ~disk_full => Covered(t)
  <2> SUFFICES ASSUME ~disk_full, chunking_active, t.manifest_fp,
                      NEW d \in DOMAIN t.files, t.files[d].recs # << >>,
                      ~(t.open /\ d = t.chunk_index + 1)
               PROVE  Listing(t, d)
    BY DEF Covered
  <2>1. d \in 1 .. k
    BY <1>1, <1>5, <1>9, <1>10, <1>11
  <2>2. t.files[d] = s.files[d] /\ d \in DOMAIN s.files
    BY <1>4, <1>10, <2>1
  <2>3. Listing(s, d)
    BY <1>6, <1>9, <2>2 DEF Books, Covered
  <2> QED BY <1>5, <1>9, <2>2, <2>3 DEF Listing
<1>18. Later(s, t)
  <2>1. Extends(s.files, t.files)
    BY <1>1, <1>4, <1>10 DEF Extends
  <2>2. Len(s.manifest) \in Nat
    BY <1>1, LenProperties
  <2> QED BY <1>5, <1>9, <2>1, <2>2 DEF Later
<1> QED BY <1>5, <1>6, <1>8, <1>9, <1>11, <1>12, <1>13, <1>14, <1>15, <1>16, <1>17, <1>18
        DEF Books, t, st

(* The instruction after the last captured one becomes pending: the slice  *)
(* grows by it.                                                            *)
LEMMA StoreBooks ==
  ASSUME NEW s \in VcpuState, Books(s), s.open, ~s.has_pending, ~s.limit_reached,
         NEW n \in Nat, Front(s, n, n + 1), NEW user \in BOOLEAN
  PROVE  LET t == store_pending(s, n + 1, user)
         IN  /\ t \in VcpuState /\ Books(t) /\ Later(s, t)
             /\ t.open
             /\ t.sample_skipping = s.sample_skipping
             /\ Front(t, n + 1, n + 1)
<1> DEFINE t == store_pending(s, n + 1, user)
           r == [pos |-> n + 1, user |-> user, ops |-> << >>]
           q == Captured(s)
           p == Captured(t)
<1>1. r \in Record /\ r.pos = n + 1
  BY DEF Record
<1>2. t \in VcpuState
  BY StoreType
<1>3. t = [s EXCEPT !.has_pending = TRUE, !.pending = r]
  BY DEF store_pending
<1> HIDE DEF r, t
<1>4. /\ t.files = s.files /\ t.manifest = s.manifest /\ t.inbuf = s.inbuf
      /\ t.open = s.open /\ t.has_pending = TRUE /\ t.pending = r
      /\ t.chunk_index = s.chunk_index
      /\ t.chunk_start_insn = s.chunk_start_insn
      /\ t.manifest_fp = s.manifest_fp
  BY <1>3 DEF VcpuState
<1>5. /\ t.limit_reached = s.limit_reached
      /\ t.sample_skipping = s.sample_skipping
      /\ t.stream_insns = s.stream_insns /\ t.insn_count = s.insn_count
  BY <1>3 DEF VcpuState
<1>6. q \in Seq(Record) /\ s.chunk_start_insn \in Nat /\ s.insn_count \in Nat
  BY HeldTypes, FieldTypes DEF Books, Layout
<1>7. p = Append(q, r)
  BY <1>4 DEF Captured, Held, CurrentChunk
<1> HIDE DEF q, p
<1>8. /\ Len(p) = Len(q) + 1 /\ p # << >> /\ p[Len(p)] = r
      /\ q = << >> => p[1] = r
      /\ q # << >> => p[1] = q[1]
  <2>1. Len(q) \in Nat /\ (q = << >> <=> Len(q) = 0)
    BY <1>6, EmptySeq, LenProperties
  <2> QED BY <1>1, <1>6, <1>7, <2>1, AppendProperties
<1>9. ~disk_full => /\ InOrder(p)
                    /\ p[1].pos = t.chunk_start_insn + 1
  <2> SUFFICES ASSUME ~disk_full
               PROVE  InOrder(p) /\ p[1].pos = t.chunk_start_insn + 1
    OBVIOUS
  <2>1. /\ InOrder(q)
        /\ q # << >> => q[1].pos = s.chunk_start_insn + 1
    BY DEF Books, Slice, q
  <2>2. IF q = << >> THEN s.chunk_start_insn = n ELSE q[Len(q)].pos = n
    BY DEF Front, q
  <2>3. InOrder(p)
    <3>1. q # << >> => r.pos = q[Len(q)].pos + 1
      BY <1>1, <2>2
    <3> QED BY <1>1, <1>6, <1>7, <2>1, <3>1, InOrderAppend
  <2> QED BY <1>1, <1>4, <1>8, <2>1, <2>2, <2>3
<1>10. ~disk_full => Slice(t)
  BY <1>9 DEF Slice, p
<1>11. Layout(t) /\ FilesInOrder(t) /\ RowsOnce(t)
  BY <1>4, <1>5 DEF Books, Layout, FilesInOrder, RowsOnce, CurrentChunk
<1>12. ~disk_full => Covered(t)
  BY <1>4 DEF Books, Covered, Listing
<1>13. Later(s, t)
  BY <1>4, LaterSame
<1>14. Front(t, n + 1, n + 1)
  <2>1. p # << >> /\ p[Len(p)].pos = n + 1
    BY <1>1, <1>8
  <2>2. t.stream_insns = n + 1
    BY <1>5 DEF Front
  <2>3. ~sampling => t.insn_count + 1 = n + 1
    BY <1>5, <1>6 DEF Front
  <2> QED BY <1>4, <2>1, <2>2, <2>3 DEF Front, p
<1> QED BY <1>2, <1>4, <1>5, <1>10, <1>11, <1>12, <1>13, <1>14 DEF Books, t

(* What a callback has to establish for its vCPU: the state t that follows *)
(* s when n instructions have been executed.                               *)
Goes(s, t, n) == t \in VcpuState /\ Going(t, n) /\ Later(s, t)

(* A vCPU that captures instruction n + 1 ends up with it pending, or      *)
(* stopped with nothing to count again.                                    *)
LEMMA CaptureBooks ==
  ASSUME knobs \in Knobs, NEW s \in VcpuState, Books(s), s.open, ~s.has_pending,
         ~s.limit_reached, ~s.sample_skipping,
         ~disk_full /\ ~sampling => Accounted(s),
         NEW n \in Nat, Front(s, n, n + 1), NEW user \in BOOLEAN, NEW ok \in BOOLEAN
  PROVE  Goes(s, capture(s, n + 1, user, ok), n + 1)
<1> DEFINE a == [s EXCEPT !.limit_reached = TRUE]
           b == flush_buffer(a)
           c == close_chunk(s)
           d == next_chunk(c, ok)
           t == capture(s, n + 1, user, ok)
<1>1. CASE knobs.insn_limit > 0 /\ s.insn_count >= knobs.insn_limit
  <2>1. t = b
    BY <1>1 DEF capture
  <2>2. /\ a \in VcpuState /\ Untouched(s, a) /\ a.limit_reached = TRUE
        /\ a.sample_skipping = s.sample_skipping
    <3>1. a \in VcpuState
      BY SetFlag
    <3>2. a.limit_reached = TRUE /\ a.sample_skipping = s.sample_skipping
      BY DEF VcpuState
    <3>3. Untouched(s, a)
      BY DEF VcpuState, Untouched
    <3> QED BY <3>1, <3>2, <3>3
  <2> HIDE DEF a
  <2>3. Books(a) /\ Later(s, a)
    BY <2>2, UntouchedBooks
  <2>4. b \in VcpuState /\ Books(b) /\ Later(a, b) /\ Kept(a, b)
    BY <2>2, <2>3, FlushBooks
  <2> HIDE DEF b, t
  <2>5. b.open /\ b.limit_reached /\ ~b.sample_skipping
    BY <2>2, <2>4 DEF Kept, Untouched
  <2>6. Later(s, b)
    BY <2>2, <2>3, <2>4, LaterTwice
  <2>7. Quiet(b) /\ Recording(b) /\ Front(b, n + 1, n + 1)
    BY <2>5 DEF Quiet, Recording, Front
  <2> QED BY <2>1, <2>4, <2>6, <2>7 DEF Goes, Going, t
<1>2. CASE /\ ~(knobs.insn_limit > 0 /\ s.insn_count >= knobs.insn_limit)
           /\ knobs.rotate_interval > 0 /\ s.chunk_insn_count >= knobs.rotate_interval
  <2>1. t = IF ok THEN store_pending(d, n + 1, user) ELSE d
    BY <1>2 DEF capture
  <2>2. ~sampling
    BY <1>2, KnobsAssumption DEF sampling
  <2>3. s.insn_count = n /\ s.insn_count \in Nat
    BY <2>2, FieldTypes DEF Front
  <2>4. /\ c \in VcpuState /\ ~c.open /\ ~c.has_pending
        /\ Books(c) /\ Later(s, c)
        /\ c.limit_reached = s.limit_reached
        /\ c.sample_skipping = s.sample_skipping
        /\ c.stream_insns = s.stream_insns
        /\ c.insn_count = s.insn_count + (IF s.has_pending THEN 1 ELSE 0)
    BY <2>2, CloseBooks
  <2>5. c.insn_count = n /\ c.stream_insns = n + 1
    BY <2>3, <2>4 DEF Front
  <2> HIDE DEF c, t
  <2>6. /\ d \in VcpuState /\ Books(d) /\ Later(c, d)
        /\ d.open <=> ok
        /\ d.limit_reached <=> ~ok
        /\ ~d.has_pending
        /\ d.chunk_insn_count = 0
        /\ d.sample_skipping = c.sample_skipping
        /\ d.stream_insns = c.stream_insns
        /\ d.insn_count = c.insn_count
        /\ ok => Captured(d) = << >> /\ d.chunk_start_insn = c.insn_count
    BY <2>2, <2>4, NextChunkBooks
  <2> HIDE DEF d
  <2>7. Later(s, d)
    BY <2>4, <2>6, LaterTwice
  <2>8. CASE ok
    <3> DEFINE e == store_pending(d, n + 1, user)
    <3>1. Front(d, n, n + 1)
      BY <2>5, <2>6, <2>8 DEF Front
    <3>2. /\ e \in VcpuState /\ Books(e) /\ Later(d, e) /\ e.open
          /\ e.sample_skipping = d.sample_skipping
          /\ Front(e, n + 1, n + 1)
      BY <2>6, <2>8, <3>1, StoreBooks
    <3>3. t = e
      BY <2>1, <2>8
    <3> HIDE DEF e
    <3>4. Later(s, e)
      BY <2>6, <2>7, <3>2, LaterTwice
    <3>5. Quiet(e) /\ Recording(e)
      BY <2>4, <2>6, <3>2 DEF Quiet, Recording
    <3> QED BY <3>2, <3>3, <3>4, <3>5 DEF Goes, Going, t
  <2>9. CASE ~ok
    <3>1. t = d
      BY <2>1, <2>9
    <3>2. Quiet(d) /\ Recording(d) /\ Front(d, n + 1, n + 1)
      BY <2>4, <2>6, <2>9 DEF Quiet, Recording, Front
    <3> QED BY <2>6, <2>7, <3>1, <3>2 DEF Goes, Going, t
  <2> QED BY <2>8, <2>9
<1>3. CASE /\ ~(knobs.insn_limit > 0 /\ s.insn_count >= knobs.insn_limit)
           /\ ~(knobs.rotate_interval > 0 /\ s.chunk_insn_count >= knobs.rotate_interval)
  <2> DEFINE e == store_pending(s, n + 1, user)
  <2>1. t = e
    BY <1>3 DEF capture
  <2>2. /\ e \in VcpuState /\ Books(e) /\ Later(s, e) /\ e.open
        /\ e.sample_skipping = s.sample_skipping
        /\ Front(e, n + 1, n + 1)
    BY StoreBooks
  <2> HIDE DEF e, t
  <2>3. Quiet(e) /\ Recording(e)
    BY <2>2 DEF Quiet, Recording
  <2> QED BY <2>1, <2>2, <2>3 DEF Goes, Going, t
<1> QED BY <1>1, <1>2, <1>3

(* A window that opens starts its slice with instruction n + 1.            *)
LEMMA BeginWindowBooks ==
  ASSUME knobs \in Knobs, sampling, NEW s \in VcpuState, Books(s), ~s.open,
         ~s.limit_reached, NEW n \in Nat, s.stream_insns = n + 1,
         NEW user \in BOOLEAN, NEW ok \in BOOLEAN
  PROVE  Goes(s, begin_window(s, n + 1, user, ok), n + 1)
<1> DEFINE a == [s EXCEPT !.sample_skipping = FALSE, !.sample_phase_insns = 0]
           d == next_chunk(a, ok)
           f == finalize_pending_insn(d)
           t == begin_window(s, n + 1, user, ok)
<1>1. t = IF ok THEN capture(f, n + 1, user, ok) ELSE d
  BY DEF begin_window
<1>2. /\ a \in VcpuState /\ Untouched(s, a)
      /\ a.limit_reached = s.limit_reached /\ ~a.sample_skipping
      /\ a.stream_insns = s.stream_insns
  <2>1. a \in VcpuState
    BY DEF VcpuState
  <2> QED BY <2>1 DEF VcpuState, Untouched
<1> HIDE DEF a, t
<1>3. Books(a) /\ Later(s, a) /\ ~a.open
  BY <1>2, UntouchedBooks DEF Untouched
<1>4. /\ d \in VcpuState /\ Books(d) /\ Later(a, d)
      /\ d.open <=> ok
      /\ d.limit_reached <=> ~ok
      /\ ~d.has_pending
      /\ d.chunk_insn_count = 0
      /\ d.sample_skipping = a.sample_skipping
      /\ d.stream_insns = a.stream_insns
      /\ ok => /\ Captured(d) = << >>
               /\ d.chunk_start_insn =
                    IF a.stream_insns > 0 THEN a.stream_insns - 1 ELSE 0
  BY <1>2, <1>3, NextChunkBooks
<1>5. f = d
  BY <1>4, FinalizeKeeps
<1> HIDE DEF d, f
<1>6. Later(s, d)
  BY <1>2, <1>3, <1>4, LaterTwice
<1>7. CASE ok
  <2>1. d.chunk_start_insn = n
    BY <1>2, <1>4, <1>7
  <2>2. Front(d, n, n + 1)
    BY <1>2, <1>4, <1>7, <2>1 DEF Front
  <2> DEFINE e == capture(d, n + 1, user, ok)
  <2>3. Goes(d, e, n + 1)
    BY <1>2, <1>4, <1>7, <2>2, CaptureBooks
  <2>4. t = e
    BY <1>1, <1>5, <1>7
  <2> HIDE DEF e
  <2>5. Later(s, e)
    BY <1>4, <1>6, <2>3, LaterTwice DEF Goes, Going
  <2> QED BY <2>3, <2>4, <2>5 DEF Goes, Going, t
<1>8. CASE ~ok
  <2>1. t = d
    BY <1>1, <1>8
  <2>2. Quiet(d) /\ Recording(d) /\ Front(d, n + 1, n + 1)
    BY <1>2, <1>4, <1>8 DEF Quiet, Recording, Front
  <2> QED BY <1>4, <1>6, <2>1, <2>2 DEF Goes, Going, t
<1> QED BY <1>7, <1>8

(* The end of a window closes its chunk, whatever comes next.              *)
LEMMA EndWindowBooks ==
  ASSUME NEW s \in VcpuState, s.open, Books(s), ~disk_full => Accounted(s)
  PROVE  LET t == end_window(s)
         IN  /\ t \in VcpuState /\ ~t.open /\ ~t.has_pending
             /\ Books(t) /\ Later(s, t)
             /\ t.limit_reached = s.limit_reached
             /\ t.sample_skipping = s.sample_skipping
             /\ t.stream_insns = s.stream_insns
<1> DEFINE c == close_chunk(s)
           t == end_window(s)
<1>1. /\ c \in VcpuState /\ ~c.open /\ ~c.has_pending
      /\ Books(c) /\ Later(s, c)
      /\ c.limit_reached = s.limit_reached
      /\ c.sample_skipping = s.sample_skipping
      /\ c.stream_insns = s.stream_insns
  BY CloseBooks
<1>2. t = [c EXCEPT !.sample_windows_done = @ + 1, !.sample_phase_insns = 0]
  BY DEF end_window
<1>3. t \in VcpuState
  BY WindowTypes
<1> HIDE DEF c, t
<1>4. /\ Untouched(c, t) /\ t.limit_reached = c.limit_reached
      /\ t.sample_skipping = c.sample_skipping
      /\ t.stream_insns = c.stream_insns
  BY <1>1, <1>2 DEF VcpuState, Untouched
<1>5. Books(t) /\ Later(c, t)
  BY <1>1, <1>4, UntouchedBooks
<1>6. Later(s, t)
  BY <1>1, <1>3, <1>5, LaterTwice
<1> QED BY <1>1, <1>3, <1>4, <1>5, <1>6 DEF Untouched, t

(* A gap begins.                                                           *)
LEMMA EnterGapBooks ==
  ASSUME NEW s \in VcpuState, s.open, Books(s), ~disk_full => Accounted(s)
  PROVE  LET t == enter_gap(s)
         IN  /\ t \in VcpuState /\ ~t.open /\ ~t.has_pending
             /\ Books(t) /\ Later(s, t)
             /\ t.limit_reached = s.limit_reached
             /\ t.sample_skipping
             /\ t.stream_insns = s.stream_insns
<1> DEFINE w == end_window(s)
           t == enter_gap(s)
<1>1. /\ w \in VcpuState /\ ~w.open /\ ~w.has_pending
      /\ Books(w) /\ Later(s, w)
      /\ w.limit_reached = s.limit_reached
      /\ w.stream_insns = s.stream_insns
  BY EndWindowBooks
<1>2. t = [w EXCEPT !.sample_skipping = TRUE]
  BY DEF enter_gap
<1>3. t \in VcpuState
  BY WindowTypes
<1> HIDE DEF w, t
<1>4. /\ Untouched(w, t) /\ t.limit_reached = w.limit_reached
      /\ t.sample_skipping = TRUE
      /\ t.stream_insns = w.stream_insns
  BY <1>1, <1>2 DEF VcpuState, Untouched
<1>5. Books(t) /\ Later(w, t)
  BY <1>1, <1>4, UntouchedBooks
<1>6. Later(s, t)
  BY <1>1, <1>3, <1>5, LaterTwice
<1> QED BY <1>1, <1>3, <1>4, <1>5, <1>6 DEF Untouched, t

(* The last window was closed, and exit will not list it again.            *)
LEMMA FinishSamplingBooks ==
  ASSUME NEW s \in VcpuState, s.open, Books(s), ~disk_full => Accounted(s),
         ~s.sample_skipping, NEW n \in Nat
  PROVE  Goes(s, finish_sampling(s), n)
<1> DEFINE w == end_window(s)
           t == finish_sampling(s)
<1>1. /\ w \in VcpuState /\ ~w.open /\ ~w.has_pending
      /\ Books(w) /\ Later(s, w)
      /\ w.sample_skipping = s.sample_skipping
  BY EndWindowBooks
<1>2. t = [w EXCEPT !.sample_finished = TRUE, !.limit_reached = TRUE,
                    !.chunk_insn_count = 0]
  BY DEF finish_sampling
<1>3. t \in VcpuState
  BY WindowTypes
<1> HIDE DEF w, t
<1>4. /\ Untouched(w, t) /\ t.limit_reached = TRUE /\ t.chunk_insn_count = 0
      /\ t.sample_skipping = w.sample_skipping
  BY <1>1, <1>2 DEF VcpuState, Untouched
<1>5. Books(t) /\ Later(w, t)
  BY <1>1, <1>4, UntouchedBooks
<1>6. Later(s, t)
  BY <1>1, <1>3, <1>5, LaterTwice
<1>7. Quiet(t) /\ Recording(t) /\ Front(t, n, n)
  BY <1>1, <1>4 DEF Quiet, Recording, Front
<1> QED BY <1>3, <1>5, <1>6, <1>7 DEF Goes, Going, t

(* In a gap a vCPU only counts, and only counts the gap.                   *)
LEMMA GapBooks ==
  ASSUME sampling, NEW s \in VcpuState, ~s.open, ~s.limit_reached,
         s.sample_skipping, Books(s), NEW n \in Nat, s.stream_insns = n,
         NEW user
  PROVE  Goes(s, s, n) /\ Goes(s, tick_gap(s, user), n)
<1> DEFINE t == [s EXCEPT !.sample_phase_insns = s.sample_phase_insns + 1]
<1>1. ASSUME NEW e \in VcpuState, Books(e), Later(s, e), ~e.open,
             e.sample_skipping = s.sample_skipping,
             e.stream_insns = s.stream_insns
      PROVE  Goes(s, e, n)
  <2>1. Quiet(e) /\ Recording(e) /\ Front(e, n, n)
    BY <1>1 DEF Quiet, Recording, Front
  <2> QED BY <1>1, <2>1 DEF Goes, Going
<1>2. Goes(s, s, n)
  BY <1>1, LaterSame
<1>3. Goes(s, t, n)
  <2>1. t \in VcpuState
    <3>1. s.sample_phase_insns + 1 \in Nat
      BY FieldTypes
    <3> QED BY <3>1, SetCounter
  <2>2. /\ Untouched(s, t) /\ t.limit_reached = s.limit_reached
        /\ t.sample_skipping = s.sample_skipping
        /\ t.stream_insns = s.stream_insns
    BY DEF VcpuState, Untouched
  <2> HIDE DEF t
  <2>3. Books(t) /\ Later(s, t)
    BY <2>2, UntouchedBooks
  <2>4. ~t.open
    BY <2>2 DEF Untouched
  <2> QED BY <1>1, <2>1, <2>2, <2>3, <2>4
<1>4. tick_gap(s, user) \in {s, t}
  BY DEF tick_gap
<1> QED BY <1>2, <1>3, <1>4

(* The start of a callback: the instruction is counted in the stream, its  *)
(* predecessor is appended to the buffer.                                  *)
LEMMA SeenBooks ==
  ASSUME NEW v, vs[v] \in VcpuState, Books(vs[v]), NEW n \in Nat,
         Front(vs[v], n, n), ~disk_full => Sound(vs[v])
  PROVE  LET t == finalize_pending_insn(Counted(v))
         IN  /\ t \in VcpuState /\ Books(t) /\ Later(vs[v], t)
             /\ ~t.has_pending /\ t.open = vs[v].open
             /\ t.limit_reached = vs[v].limit_reached
             /\ t.sample_skipping = vs[v].sample_skipping
             /\ Front(t, n, n + 1)
             /\ ~disk_full => Accounted(t)
<1> DEFINE s == vs[v]
           k == Counted(v)
           t == finalize_pending_insn(k)
<1>2. k = [s EXCEPT !.stream_insns = s.stream_insns + 1]
  BY DEF Counted
<1>3. k \in VcpuState
  BY CountedType
<1>4. s \in VcpuState /\ Books(s) /\ Front(s, n, n)
  OBVIOUS
<1>5. ~disk_full => Accounted(t)
  BY SeenInv DEF Sound
<1> HIDE DEF s, k
<1>6. /\ Untouched(s, k) /\ k.limit_reached = s.limit_reached
      /\ k.sample_skipping = s.sample_skipping
      /\ k.stream_insns = s.stream_insns + 1
  <2> DEFINE x == s.stream_insns + 1
  <2>1. k = [s EXCEPT !.stream_insns = x]
    BY <1>2
  <2> HIDE DEF x
  <2>2. k.stream_insns = x
    BY <1>4, <2>1 DEF VcpuState
  <2> QED BY <1>4, <2>1, <2>2 DEF VcpuState, Untouched, x
<1>7. Books(k) /\ Later(s, k) /\ Captured(k) = Captured(s)
  BY <1>4, <1>6, UntouchedBooks
<1>8. Front(k, n, n + 1)
  BY <1>4, <1>6, <1>7 DEF Front, Untouched
<1>9. /\ t \in VcpuState /\ Books(t) /\ Later(k, t) /\ Kept(k, t)
      /\ ~t.has_pending
      /\ t.insn_count = k.insn_count + (IF k.has_pending THEN 1 ELSE 0)
      /\ ~k.open => t = k
      /\ k.open /\ ~disk_full => Captured(t) = Captured(k)
  BY <1>3, <1>7, FinalizeBooks
<1> HIDE DEF t
<1>10. t.insn_count + (IF t.has_pending THEN 1 ELSE 0)
         = k.insn_count + (IF k.has_pending THEN 1 ELSE 0)
  <2>1. t.insn_count \in Nat
    BY <1>9, FieldTypes
  <2> QED BY <1>9, <2>1
<1>11. Front(t, n, n + 1)
  BY <1>8, <1>9, <1>10, FrontKept DEF Kept
<1>12. Later(s, t)
  BY <1>3, <1>4, <1>7, <1>9, LaterTwice
<1>13. /\ t.open = s.open /\ t.limit_reached = s.limit_reached
       /\ t.sample_skipping = s.sample_skipping
  BY <1>6, <1>9 DEF Kept, Untouched
<1> QED BY <1>5, <1>9, <1>11, <1>12, <1>13 DEF s, k, t

(* Every path through insn_exec_cb below the trigger keeps the books.      *)
LEMMA InsnBooks ==
  ASSUME TypeOK, RecorderInv, NEW v \in VCPUS, NEW user \in BOOLEAN,
         NEW ok \in BOOLEAN, Going(vs[v], Len(guest[v].hist)),
         \/ SkipInsn(v, user) \/ AwaitUserInsn(v, user)
         \/ BeginWindowInsn(v, user, ok) \/ CaptureInsn(v, user, ok)
         \/ EndWindowInsn(v, user, ok)
  PROVE  \E t : Update(v, t) /\ Goes(vs[v], t, Len(guest[v].hist) + 1)
<1> DEFINE n == Len(guest[v].hist)
           c == finalize_pending_insn(Counted(v))
           g == enter_gap(c)
<1>1. run = "running" /\ ~vs[v].limit_reached /\ knobs \in Knobs
  BY DEF SkipInsn, AwaitUserInsn, BeginWindowInsn, CaptureInsn, EndWindowInsn,
         Seen, Execute, TypeOK
<1>2. vs[v] \in VcpuState /\ n \in Nat
  BY LenProperties DEF TypeOK
<1>3. /\ Books(vs[v]) /\ Front(vs[v], n, n)
      /\ vs[v].sample_skipping => sampling
      /\ ~vs[v].open => vs[v].sample_skipping
      /\ vs[v].sample_skipping => ~vs[v].open
  BY <1>1 DEF Going, Recording
<1>4. ~disk_full => Sound(vs[v])
  BY RecorderInvIs
<1> HIDE DEF n
<1>5. /\ c \in VcpuState /\ Books(c) /\ Later(vs[v], c)
      /\ ~c.has_pending /\ c.open = vs[v].open
      /\ ~c.limit_reached
      /\ c.sample_skipping = vs[v].sample_skipping
      /\ Front(c, n, n + 1)
      /\ ~disk_full => Accounted(c)
  BY <1>1, <1>2, <1>3, <1>4, SeenBooks
<1>6. c.stream_insns = n + 1
  BY <1>5 DEF Front
<1> HIDE DEF c
<1>7. ASSUME NEW t, Update(v, t), Goes(c, t, n + 1)
      PROVE  \E u : Update(v, u) /\ Goes(vs[v], u, n + 1)
  <2>1. Later(vs[v], t)
    BY <1>2, <1>5, <1>7, LaterTwice DEF Goes
  <2>2. Goes(vs[v], t, n + 1)
    BY <1>7, <2>1 DEF Goes
  <2> QED BY <1>7, <2>2
<1>8. n + 1 \in Nat
  BY <1>2
<1> SUFFICES \E t : Update(v, t) /\ Goes(c, t, n + 1)
  BY <1>7 DEF n
<1>9. CASE SkipInsn(v, user)
  <2>1. Update(v, tick_gap(c, user)) /\ sampling /\ vs[v].sample_skipping
    BY <1>9 DEF SkipInsn, InGap, c
  <2>2. Goes(c, tick_gap(c, user), n + 1)
    BY <1>3, <1>5, <1>6, <1>8, <2>1, GapBooks
  <2> QED BY <2>1, <2>2
<1>10. CASE AwaitUserInsn(v, user)
  <2>1. Update(v, c) /\ sampling /\ vs[v].sample_skipping
    BY <1>10 DEF AwaitUserInsn, InGap, c
  <2>2. Goes(c, c, n + 1)
    BY <1>3, <1>5, <1>6, <1>8, <2>1, GapBooks
  <2> QED BY <2>1, <2>2
<1>11. CASE BeginWindowInsn(v, user, ok)
  <2>1. /\ Update(v, begin_window(c, n + 1, user, ok))
        /\ sampling /\ vs[v].sample_skipping
    BY <1>11 DEF BeginWindowInsn, InGap, c, n
  <2>2. Goes(c, begin_window(c, n + 1, user, ok), n + 1)
    BY <1>1, <1>2, <1>3, <1>5, <1>6, <2>1, BeginWindowBooks
  <2> QED BY <2>1, <2>2
<1>12. ASSUME InWindow(v)
       PROVE  ~vs[v].sample_skipping /\ c.open /\ ~c.sample_skipping
  BY <1>3, <1>5, <1>12 DEF InWindow
<1>13. CASE CaptureInsn(v, user, ok)
  <2>1. Update(v, capture(c, n + 1, user, ok)) /\ InWindow(v)
    BY <1>13 DEF CaptureInsn, c, n
  <2>2. Goes(c, capture(c, n + 1, user, ok), n + 1)
    BY <1>1, <1>2, <1>5, <1>12, <2>1, CaptureBooks
  <2> QED BY <2>1, <2>2
<1>14. CASE EndWindowInsn(v, user, ok)
  <2>1. /\ InWindow(v) /\ sampling
        /\ \/ Update(v, finish_sampling(c))
           \/ Update(v, tick_gap(g, user))
           \/ Update(v, g)
           \/ Update(v, begin_window(g, n + 1, user, ok))
    BY <1>14 DEF EndWindowInsn, c, g, n
  <2>2. Goes(c, finish_sampling(c), n + 1)
    BY <1>5, <1>8, <1>12, <2>1, FinishSamplingBooks
  <2>3. /\ g \in VcpuState /\ ~g.open /\ ~g.has_pending
        /\ Books(g) /\ Later(c, g)
        /\ g.limit_reached = c.limit_reached
        /\ g.sample_skipping
        /\ g.stream_insns = c.stream_insns
    BY <1>5, <1>12, <2>1, EnterGapBooks
  <2> HIDE DEF g
  <2>4. Goes(g, g, n + 1) /\ Goes(g, tick_gap(g, user), n + 1)
    BY <1>5, <1>6, <1>8, <2>1, <2>3, GapBooks
  <2>5. Goes(g, begin_window(g, n + 1, user, ok), n + 1)
    BY <1>1, <1>2, <1>5, <1>6, <2>1, <2>3, BeginWindowBooks
  <2>6. ASSUME NEW t, Goes(g, t, n + 1) PROVE Goes(c, t, n + 1)
    <3>1. Later(c, t)
      BY <1>5, <2>3, <2>6, LaterTwice DEF Goes
    <3> QED BY <2>6, <3>1 DEF Goes
  <2> QED BY <2>1, <2>2, <2>4, <2>5, <2>6
<1> QED BY <1>9, <1>10, <1>11, <1>13, <1>14

(* An access changes the operands of the pending record, not its place.    *)
LEMMA MemBooks ==
  ASSUME NEW s \in VcpuState, NEW n \in Nat, Going(s, n), s.has_pending,
         NEW r \in Record, r.pos = s.pending.pos
  PROVE  LET t == [s EXCEPT !.pending = r] IN Going(t, n) /\ Later(s, t)
<1> DEFINE t == [s EXCEPT !.pending = r]
           h == Held(s)
           p == s.pending
<1>1. /\ t.files = s.files /\ t.manifest = s.manifest /\ t.inbuf = s.inbuf
      /\ t.open = s.open /\ t.has_pending = s.has_pending /\ t.pending = r
      /\ t.chunk_index = s.chunk_index
      /\ t.chunk_start_insn = s.chunk_start_insn
      /\ t.manifest_fp = s.manifest_fp /\ t.insn_count = s.insn_count
  BY DEF VcpuState
<1>2. /\ t.limit_reached = s.limit_reached
      /\ t.sample_skipping = s.sample_skipping
      /\ t.stream_insns = s.stream_insns
      /\ t.chunk_insn_count = s.chunk_insn_count
  BY DEF VcpuState
<1> HIDE DEF t
<1>3. Books(s) /\ s.open
  BY DEF Going, Books, Layout
<1>4. h \in Seq(Record) /\ p \in Record
  BY <1>3, HeldTypes, FieldTypes DEF Books, Layout
<1>5. Captured(s) = Append(h, p) /\ Captured(t) = Append(h, r)
  BY <1>1 DEF Captured, Held, CurrentChunk
<1> HIDE DEF h, p
<1>6. /\ Len(h) \in Nat
      /\ Len(Captured(s)) = Len(h) + 1 /\ Len(Captured(t)) = Len(h) + 1
      /\ Captured(s) # << >> /\ Captured(t) # << >>
      /\ \A i \in 1 .. Len(h) + 1 : Captured(t)[i].pos = Captured(s)[i].pos
  <2>1. Len(h) \in Nat
    BY <1>4, LenProperties
  <2>2. /\ Len(Append(h, p)) = Len(h) + 1 /\ Len(Append(h, r)) = Len(h) + 1
        /\ Append(h, p) # << >> /\ Append(h, r) # << >>
    BY <1>4, AppendProperties
  <2>3. \A i \in 1 .. Len(h) + 1 :
          /\ Append(h, p)[i] = IF i = Len(h) + 1 THEN p ELSE h[i]
          /\ Append(h, r)[i] = IF i = Len(h) + 1 THEN r ELSE h[i]
    BY <1>4, <2>1
  <2>4. r.pos = p.pos
    BY DEF p
  <2>5. \A i \in 1 .. Len(h) + 1 : Append(h, r)[i].pos = Append(h, p)[i].pos
    BY <2>3, <2>4
  <2> QED BY <1>5, <2>1, <2>2, <2>5
<1>7. InOrder(Captured(s)) => InOrder(Captured(t))
  <2> DEFINE a == Captured(s)
             b == Captured(t)
             k == Len(h)
  <2>1. /\ k \in Nat /\ Len(a) = k + 1 /\ Len(b) = k + 1
        /\ \A i \in 1 .. k + 1 : b[i].pos = a[i].pos
    BY <1>6
  <2> HIDE DEF a, b, k
  <2>2. \A i \in 1 .. k : i \in 1 .. k + 1 /\ i + 1 \in 1 .. k + 1
    BY <2>1
  <2>3. Len(a) - 1 = k /\ Len(b) - 1 = k
    BY <2>1
  <2>4. InOrder(a) => InOrder(b)
    BY <2>1, <2>2, <2>3 DEF InOrder
  <2> QED BY <2>4 DEF a, b
<1>8. Slice(s) => Slice(t)
  BY <1>1, <1>6, <1>7 DEF Slice
<1>9. Front(t, n, n)
  BY <1>1, <1>2, <1>6 DEF Going, Front
<1>10. Layout(t) /\ FilesInOrder(t) /\ RowsOnce(t)
  BY <1>1, <1>2, <1>3 DEF Books, Layout, FilesInOrder, RowsOnce, CurrentChunk
<1>11. Covered(s) => Covered(t)
  BY <1>1 DEF Covered, Listing
<1>12. Quiet(t) /\ Recording(t)
  BY <1>1, <1>2 DEF Going, Quiet, Recording
<1>13. Later(s, t)
  BY <1>1, LaterSame
<1>14. Going(t, n)
  BY <1>3, <1>8, <1>9, <1>10, <1>11, <1>12 DEF Going, Books
<1> QED BY <1>13, <1>14 DEF t

(* At exit, a vCPU that is in a gap lists its last chunk again; one that   *)
(* has stopped without an open file does nothing.                          *)
LEMMA CloseIdle ==
  ASSUME NEW s \in VcpuState, ~s.open, Layout(s)
  PROVE  LET t == close_chunk(s)
         IN  /\ t.files = s.files /\ ~t.open
             /\ t.sample_skipping = s.sample_skipping
             /\ Later(s, t)
             /\ Covered(s) => Covered(t)
             /\ s.chunk_insn_count = 0 => t = s
<1> DEFINE t == close_chunk(s)
           l == Listed(s)
<1>1. finalize_pending_insn(s) = s
  BY FinalizeKeeps DEF Layout
<1>2. flush_buffer(s) = s
  BY FlushKeeps
<1>3. Closed(s) = s
  BY ClosedKeeps
<1>4. t = IF chunking_active /\ s.manifest_fp /\ s.chunk_insn_count > 0
          THEN l ELSE s
  BY <1>1, <1>2, <1>3 DEF close_chunk
<1>5. /\ l.files = s.files /\ l.open = s.open
      /\ l.sample_skipping = s.sample_skipping
      /\ l.chunk_index = s.chunk_index /\ l.manifest_fp = s.manifest_fp
      /\ Len(s.manifest) \in Nat
      /\ DOMAIN s.manifest = 1 .. Len(s.manifest)
      /\ DOMAIN l.manifest = 1 .. Len(s.manifest) + 1
      /\ Len(l.manifest) = Len(s.manifest) + 1
      /\ \A j \in 1 .. Len(s.manifest) : l.manifest[j] = s.manifest[j]
  BY ListedKeeps
<1> HIDE DEF t, l
<1>6. Later(s, l) /\ Later(s, s)
  BY <1>5, LaterSame DEF Later, Extends
<1>7. Covered(s) => Covered(l)
  <2> SUFFICES ASSUME chunking_active, l.manifest_fp, Covered(s),
                      NEW d \in DOMAIN s.files, s.files[d].recs # << >>
               PROVE  Listing(l, d)
    BY <1>5 DEF Covered
  <2>1. Listing(s, d)
    BY <1>5 DEF Covered
  <2>2. PICK j \in DOMAIN s.manifest :
          /\ s.manifest[j].chunk = d - 1
          /\ s.manifest[j].start = s.files[d].recs[1].pos - 1
    BY <2>1 DEF Listing
  <2>3. j \in DOMAIN l.manifest /\ l.manifest[j] = s.manifest[j]
    BY <1>5
  <2> QED BY <1>5, <2>2, <2>3 DEF Listing
<1>8. CASE chunking_active /\ s.manifest_fp /\ s.chunk_insn_count > 0
  BY <1>4, <1>5, <1>6, <1>7, <1>8 DEF t
<1>9. CASE ~(chunking_active /\ s.manifest_fp /\ s.chunk_insn_count > 0)
  BY <1>4, <1>6, <1>9 DEF t
<1> QED BY <1>8, <1>9

(* What the exit handler leaves of a vCPU, in files and rows.              *)
LEMMA ExitBooks ==
  ASSUME NEW s \in VcpuState, NEW n, Going(s, n), ~disk_full => Accounted(s)
  PROVE  LET t == close_chunk(s)
         IN  /\ ~t.open /\ FilesInOrder(t) /\ Later(s, t)
             /\ t.sample_skipping \/ RowsOnce(t)
             /\ ~disk_full => Covered(t)
<1>1. Books(s) /\ Quiet(s)
  BY DEF Going
<1>2. CASE s.open
  BY <1>1, <1>2, CloseBooks DEF Books
<1>3. CASE ~s.open
  <2> DEFINE t == close_chunk(s)
  <2>1. /\ t.files = s.files /\ ~t.open
        /\ t.sample_skipping = s.sample_skipping
        /\ Later(s, t)
        /\ Covered(s) => Covered(t)
        /\ s.chunk_insn_count = 0 => t = s
    BY <1>1, <1>3, CloseIdle DEF Books
  <2> HIDE DEF t
  <2>2. t.sample_skipping \/ RowsOnce(t)
    BY <1>1, <1>3, <2>1 DEF Quiet, Books
  <2> QED BY <1>1, <2>1, <2>2 DEF Books, FilesInOrder, t
<1> QED BY <1>2, <1>3

(* Going, in the next state.                                               *)
LEMMA GoingNext ==
  ASSUME knobs' = knobs, disk_full' = disk_full, NEW v,
         Going(vs'[v], Len(guest'[v].hist))
  PROVE  Going(vs[v], Len(guest[v].hist))'
<1>1. Layout(vs[v])' /\ FilesInOrder(vs[v])' /\ RowsOnce(vs[v])'
  BY DEF Going, Books, Layout, FilesInOrder, RowsOnce, CurrentChunk, InOrder
<1>2. (~disk_full => Slice(vs[v]))'
  BY DEF Going, Books, Slice, Captured, Held, CurrentChunk, InOrder
<1>3. (~disk_full => Covered(vs[v]))'
  BY DEF Going, Books, Covered, Listing, chunking_active
<1>4. Quiet(vs[v])' /\ Recording(vs[v])'
  BY DEF Going, Quiet, Recording, sampling
<1>5. Front(vs[v], Len(guest[v].hist), Len(guest[v].hist))'
  BY DEF Going, Front, Captured, Held, CurrentChunk, sampling
<1> QED BY <1>1, <1>2, <1>3, <1>4, <1>5 DEF Going, Books

(* While the guest runs, Going is all there is to BookInv.                 *)
LEMMA RunningBooks ==
  ASSUME knobs' = knobs, disk_full' = disk_full, run' = "running",
         \A v \in VCPUS : Going(vs'[v], Len(guest'[v].hist))
  PROVE  BookInv'
<1>1. ASSUME NEW v \in VCPUS
      PROVE  /\ Going(vs[v], Len(guest[v].hist))'
             /\ FilesInOrder(vs[v])' /\ RowsOnce(vs[v])'
  BY GoingNext DEF Going, Books
<1> QED BY <1>1 DEF BookInv

(* Every step keeps the books, and only adds to files and rows.            *)
LEMMA BookInductive ==
  ASSUME TypeOK, RecorderInv, BookInv, [Next]_vars
  PROVE  BookInv' /\ \A v \in VCPUS : Later(vs[v], vs'[v])
<1>1. \A v \in VCPUS : vs[v] \in VcpuState /\ Len(guest[v].hist) \in Nat
  BY LenProperties DEF TypeOK
<1>2. ASSUME vs' = vs PROVE \A v \in VCPUS : Later(vs[v], vs'[v])
  BY <1>1, <1>2, LaterSame
<1>3. ASSUME run = "running" PROVE \A v \in VCPUS : Going(vs[v], Len(guest[v].hist))
  BY <1>3 DEF BookInv
<1>4. ASSUME NEW v \in VCPUS, DormantInsn(v)
      PROVE  BookInv' /\ \A w \in VCPUS : Later(vs[w], vs'[w])
  <2>1. /\ run = "running" /\ run' = run /\ knobs' = knobs
        /\ disk_full' = disk_full /\ vs' = vs
        /\ \A w \in VCPUS : guest'[w].hist = guest[w].hist
    BY <1>4 DEF DormantInsn, TypeOK
  <2> QED BY <1>2, <1>3, <2>1, RunningBooks
<1>5. ASSUME NEW v \in VCPUS, NEW user \in BOOLEAN, StoppedInsn(v, user)
      PROVE  BookInv' /\ \A w \in VCPUS : Later(vs[w], vs'[w])
  <2>1. /\ run = "running" /\ run' = run /\ knobs' = knobs
        /\ disk_full' = disk_full /\ vs' = vs /\ vs[v].limit_reached
    BY <1>5 DEF StoppedInsn, Execute
  <2>2. \A w \in VCPUS : w # v => guest'[w] = guest[w]
    BY <1>5 DEF StoppedInsn, Execute, TypeOK
  <2>3. \A n, m : Front(vs[v], n, m)
    BY <2>1 DEF Front
  <2>4. ASSUME NEW w \in VCPUS PROVE Going(vs'[w], Len(guest'[w].hist))
    <3>1. CASE w = v
      BY <1>3, <2>1, <2>3, <3>1 DEF Going
    <3>2. CASE w # v
      BY <1>3, <2>1, <2>2, <3>2
    <3> QED BY <3>1, <3>2
  <2> QED BY <1>2, <2>1, <2>4, RunningBooks
<1>6. ASSUME NEW v \in VCPUS, NEW user \in BOOLEAN, NEW ok \in BOOLEAN,
             \/ SkipInsn(v, user) \/ AwaitUserInsn(v, user)
             \/ BeginWindowInsn(v, user, ok) \/ CaptureInsn(v, user, ok)
             \/ EndWindowInsn(v, user, ok)
      PROVE  BookInv' /\ \A w \in VCPUS : Later(vs[w], vs'[w])
  <2>1. run = "running" /\ Execute(v, user)
    BY <1>6 DEF SkipInsn, AwaitUserInsn, BeginWindowInsn, CaptureInsn,
       EndWindowInsn, Seen, Execute
  <2>2. PICK t : Update(v, t) /\ Goes(vs[v], t, Len(guest[v].hist) + 1)
    BY <1>3, <1>6, <2>1, InsnBooks
  <2>3. /\ vs'[v] = t
        /\ \A w \in VCPUS : w # v => vs'[w] = vs[w] /\ guest'[w] = guest[w]
        /\ run' = run /\ knobs' = knobs /\ disk_full' = disk_full
    BY <2>1, <2>2 DEF Update, Execute, TypeOK
  <2>4. Len(guest'[v].hist) = Len(guest[v].hist) + 1
    <3>1. guest'[v].hist = Append(guest[v].hist, user)
      BY <2>1 DEF Execute, TypeOK
    <3>2. guest[v].hist \in Seq(BOOLEAN)
      BY DEF TypeOK
    <3> QED BY <3>1, <3>2
  <2>5. ASSUME NEW w \in VCPUS
        PROVE  Going(vs'[w], Len(guest'[w].hist)) /\ Later(vs[w], vs'[w])
    <3>1. CASE w = v
      BY <2>2, <2>3, <2>4, <3>1 DEF Goes
    <3>2. CASE w # v
      BY <1>1, <1>3, <2>1, <2>3, <3>2, LaterSame
    <3> QED BY <3>1, <3>2
  <2> QED BY <2>1, <2>3, <2>5, RunningBooks
<1>7. ASSUME NEW v \in VCPUS, mem_cb(v)
      PROVE  BookInv' /\ \A w \in VCPUS : Later(vs[w], vs'[w])
  <2> DEFINE s == vs[v]
             o == Append(s.pending.ops, guest[v].cur)
             r == [s.pending EXCEPT !.ops = o]
             t == [s EXCEPT !.pending = r]
  <2>1. /\ run = "running" /\ run' = run /\ knobs' = knobs
        /\ disk_full' = disk_full
        /\ vs' = vs \/ (vs' = [vs EXCEPT ![v] = t] /\ s.has_pending)
        /\ \A w \in VCPUS : guest'[w].hist = guest[w].hist
    BY <1>7 DEF mem_cb, TypeOK
  <2>2. CASE vs' = vs
    BY <1>2, <1>3, <2>1, <2>2, RunningBooks
  <2>3. CASE vs' # vs
    <3>1. s.pending \in Record /\ guest[v].cur \in Nat
      BY <1>1, FieldTypes DEF TypeOK
    <3>2. o \in Seq(Nat)
      BY <3>1 DEF Record
    <3>3. r \in Record /\ r.pos = s.pending.pos
      <4> HIDE DEF o
      <4> QED BY <3>1, <3>2 DEF Record
    <3>4. s \in VcpuState /\ Going(s, Len(guest[v].hist)) /\ s.has_pending
      BY <1>1, <1>3, <2>1, <2>3
    <3> HIDE DEF r, s
    <3>5. Going(t, Len(guest[v].hist)) /\ Later(s, t)
      BY <1>1, <3>3, <3>4, MemBooks
    <3> HIDE DEF t
    <3>6. \A w \in VCPUS : vs'[w] = IF w = v THEN t ELSE vs[w]
      BY <2>1, <2>3 DEF TypeOK
    <3>7. ASSUME NEW w \in VCPUS
          PROVE  Going(vs'[w], Len(guest'[w].hist)) /\ Later(vs[w], vs'[w])
      <4>1. CASE w = v
        BY <2>1, <3>5, <3>6, <4>1 DEF s
      <4>2. CASE w # v
        BY <1>1, <1>3, <2>1, <3>6, <4>2, LaterSame
      <4> QED BY <4>1, <4>2
    <3> QED BY <2>1, <3>7, RunningBooks
  <2> QED BY <2>2, <2>3
<1>8. CASE plugin_atexit
  <2>1. /\ run = "running" /\ run' = "exited" /\ knobs' = knobs
        /\ disk_full' = disk_full
        /\ \A v \in VCPUS : vs'[v] = close_chunk(vs[v])
    BY <1>8 DEF plugin_atexit
  <2>2. ~disk_full => \A v \in VCPUS : Accounted(vs[v])
    BY RecorderInvIs DEF Sound
  <2>3. ASSUME NEW v \in VCPUS
        PROVE  LET t == vs'[v]
               IN  /\ ~t.open /\ FilesInOrder(t) /\ Later(vs[v], t)
                   /\ t.sample_skipping \/ RowsOnce(t)
                   /\ ~disk_full => Covered(t)
    BY <1>1, <1>3, <2>1, <2>2, ExitBooks
  <2>4. ASSUME NEW v \in VCPUS
        PROVE  /\ FilesInOrder(vs[v])'
               /\ (vs[v].sample_skipping \/ RowsOnce(vs[v]))'
               /\ (~disk_full => ~vs[v].open /\ Covered(vs[v]))'
    <3>1. FilesInOrder(vs[v])'
      BY <2>3 DEF FilesInOrder, InOrder
    <3>2. (vs[v].sample_skipping \/ RowsOnce(vs[v]))'
      BY <2>3 DEF RowsOnce
    <3>3. (~disk_full => ~vs[v].open /\ Covered(vs[v]))'
      BY <2>1, <2>3 DEF Covered, Listing, chunking_active
    <3> QED BY <3>1, <3>2, <3>3
  <2> QED BY <2>1, <2>3, <2>4 DEF BookInv
<1>9. CASE Kill
  <2>1. run = "running" /\ run' = "killed" /\ vs' = vs
    BY <1>9 DEF Kill
  <2>2. \A v \in VCPUS : FilesInOrder(vs[v]) /\ RowsOnce(vs[v])
    BY <1>3, <2>1 DEF Going, Books
  <2>3. \A v \in VCPUS : FilesInOrder(vs[v])' /\ RowsOnce(vs[v])'
    BY <2>1, <2>2 DEF FilesInOrder, InOrder, RowsOnce
  <2> QED BY <1>2, <2>1, <2>3 DEF BookInv
<1>10. CASE DiskFills
  <2>1. /\ run = "running" /\ run' = run /\ vs' = vs /\ guest' = guest
        /\ disk_full' /\ knobs' = knobs
    BY <1>10 DEF DiskFills
  <2>2. ASSUME NEW v \in VCPUS PROVE Going(vs[v], Len(guest[v].hist))'
    <3>1. Going(vs[v], Len(guest[v].hist))
      BY <1>3, <2>1
    <3>2. Layout(vs[v])' /\ FilesInOrder(vs[v])' /\ RowsOnce(vs[v])'
      BY <2>1, <3>1 DEF Going, Books, Layout, FilesInOrder, RowsOnce,
         CurrentChunk, InOrder
    <3>3. Quiet(vs[v])' /\ Recording(vs[v])'
      BY <2>1, <3>1 DEF Going, Quiet, Recording, sampling
    <3>4. Front(vs[v], Len(guest[v].hist), Len(guest[v].hist))'
      BY <2>1, <3>1 DEF Going, Front, sampling
    <3> QED BY <2>1, <3>2, <3>3, <3>4 DEF Going, Books
  <2>3. \A v \in VCPUS : FilesInOrder(vs[v])' /\ RowsOnce(vs[v])'
    BY <2>2 DEF Going, Books
  <2> QED BY <1>2, <2>1, <2>2, <2>3 DEF BookInv
<1>11. CASE UNCHANGED vars
  <2>1. /\ run' = run /\ knobs' = knobs /\ disk_full' = disk_full
        /\ vs' = vs /\ guest' = guest
    BY <1>11 DEF vars
  <2>2. BookInv'
    <3>1. ASSUME NEW v \in VCPUS, Going(vs[v], Len(guest[v].hist))
          PROVE  Going(vs[v], Len(guest[v].hist))'
      BY <2>1, <3>1, GoingNext
    <3>2. ASSUME NEW v \in VCPUS
          PROVE  /\ FilesInOrder(vs[v])'
                 /\ ((run = "exited" /\ vs[v].sample_skipping) \/ RowsOnce(vs[v]))'
                 /\ (run = "exited" /\ ~disk_full => ~vs[v].open /\ Covered(vs[v]))'
      <4>1. FilesInOrder(vs[v])'
        BY <2>1 DEF BookInv, FilesInOrder, InOrder
      <4>2. ((run = "exited" /\ vs[v].sample_skipping) \/ RowsOnce(vs[v]))'
        BY <2>1 DEF BookInv, RowsOnce
      <4>3. (run = "exited" /\ ~disk_full => ~vs[v].open /\ Covered(vs[v]))'
        BY <2>1 DEF BookInv, Covered, Listing, chunking_active
      <4> QED BY <4>1, <4>2, <4>3
    <3> QED BY <1>3, <2>1, <3>1, <3>2 DEF BookInv
  <2> QED BY <1>2, <2>1, <2>2
<1> QED BY <1>4, <1>5, <1>6, <1>7, <1>8, <1>9, <1>10, <1>11 DEF Next, insn_exec_cb

(* A new vCPU has captured nothing, and its first row will start at 0.     *)
LEMMA InitBooks ==
  ASSUME NEW fp \in BOOLEAN
  PROVE  Going(InitVcpu(fp), 0)
<1> DEFINE t == InitVcpu(fp)
<1>1. Created(<< >>, 0) = << EmptyChunk >>
  BY DEF Created
<1>2. /\ t.files = << EmptyChunk >> /\ t.manifest = << >> /\ t.chunk_index = 0
      /\ t.open = TRUE /\ t.inbuf = << >> /\ t.chunk_insn_count = 0
      /\ t.has_pending = FALSE /\ t.limit_reached = FALSE
      /\ t.sample_skipping = FALSE /\ t.insn_count = 0 /\ t.stream_insns = 0
      /\ t.chunk_start_insn = 0
  BY <1>1 DEF InitVcpu, open_chunk
<1> HIDE DEF t
<1>3. CurrentChunk(t) = EmptyChunk /\ EmptyChunk.recs = << >> /\ ~EmptyChunk.closed
  BY <1>2 DEF CurrentChunk, EmptyChunk
<1>4. Captured(t) = << >>
  <2>1. << >> \o << >> = << >>
    OBVIOUS
  <2> QED BY <1>2, <1>3, <2>1 DEF Captured, Held
<1>5. InOrder(<< >>)
  BY DEF InOrder
<1>6. Layout(t) /\ FilesInOrder(t) /\ RowsOnce(t)
  <2>1. Len(<< EmptyChunk >>) = 1 /\ DOMAIN << EmptyChunk >> = {1}
        /\ << EmptyChunk >>[1] = EmptyChunk
    OBVIOUS
  <2> QED BY <1>2, <1>3, <1>5, <2>1 DEF Layout, FilesInOrder, RowsOnce
<1>7. Slice(t) /\ Covered(t)
  <2>1. DOMAIN << EmptyChunk >> = {1}
    OBVIOUS
  <2> QED BY <1>2, <1>4, <1>5, <2>1 DEF Slice, Covered
<1>8. Quiet(t) /\ Recording(t) /\ Front(t, 0, 0)
  BY <1>2, <1>4 DEF Quiet, Recording, Front
<1> QED BY <1>6, <1>7, <1>8 DEF Going, Books, t

(* The accounts and the books together are inductive.                      *)
THEOREM BooksAreKept == Spec => [](RecorderInv /\ BookInv)
<1>1. Init => RecorderInv /\ BookInv
  <2> SUFFICES ASSUME Init PROVE RecorderInv /\ BookInv
    OBVIOUS
  <2>1. ~disk_full /\ \A v \in VCPUS : Sound(vs[v]) /\ Recording(vs[v])
    BY InitSound DEF Init
  <2>2. ASSUME NEW v \in VCPUS
        PROVE  Going(vs[v], Len(guest[v].hist)) /\ run = "running"
    <3>1. PICK fp \in BOOLEAN : vs[v] = InitVcpu(fp)
      BY DEF Init
    <3>2. Len(guest[v].hist) = 0 /\ run = "running"
      BY DEF Init
    <3> QED BY <3>1, <3>2, InitBooks
  <2>3. BookInv
    BY <2>2 DEF BookInv, Going, Books
  <2> QED BY <2>1, <2>3, RecorderInvIs
<1>2. TypeOK /\ RecorderInv /\ BookInv /\ [Next]_vars => RecorderInv' /\ BookInv'
  BY RecorderInductive, BookInductive
<1> QED BY <1>1, <1>2, TypeCorrect, PTL DEF Spec

(* A chunk is a slice of the execution without holes, duplicates or        *)
(* reorderings: flush_buffer, finalize_pending_insn and the rotation keep  *)
(* the order for any buffer size and any command line, and what a full     *)
(* disk refuses is lost at the end of a file, never in the middle.         *)
THEOREM ChunksAreContiguous == Spec => []ContiguousChunks
<1>1. BookInv => ContiguousChunks
  BY DEF BookInv, FilesInOrder, InOrder, ContiguousChunks
<1> QED BY <1>1, BooksAreKept, PTL

(* close_chunk lists a chunk once, but for an exit in a gap.               *)
THEOREM RowsAreUnique == Spec => []OneRowUnlessExitInGap
<1>1. BookInv => OneRowUnlessExitInGap
  BY DEF BookInv, RowsOnce, OneRowUnlessExitInGap
<1> QED BY <1>1, BooksAreKept, PTL

(* The manifest of a finished run lists every chunk with records in it,    *)
(* with the stream position of its first one, under rotation (which counts *)
(* captured instructions) and under sampling (which counts all of them).   *)
THEOREM ManifestIsComplete == Spec => []ManifestComplete
<1>1. TypeOK /\ BookInv => ManifestComplete
  <2> SUFFICES ASSUME TypeOK, BookInv, run = "exited", chunking_active, ~disk_full,
                      NEW v \in VCPUS, NEW c \in DOMAIN vs[v].files,
                      vs[v].files[c].recs # << >>, vs[v].manifest_fp
               PROVE  \E i \in DOMAIN vs[v].manifest :
                        /\ vs[v].manifest[i].chunk = c - 1
                        /\ vs[v].manifest[i].start = Head(vs[v].files[c].recs).pos - 1
    BY DEF ManifestComplete
  <2>1. Listing(vs[v], c)
    BY DEF BookInv, Covered
  <2>2. Head(vs[v].files[c].recs) = vs[v].files[c].recs[1]
    <3>1. vs[v].files \in Seq(Chunk)
      BY FieldTypes DEF TypeOK
    <3>2. vs[v].files[c] \in Chunk
      BY <3>1, LenProperties
    <3>3. vs[v].files[c].recs \in Seq(Record)
      BY <3>2 DEF Chunk
    <3> QED BY <3>3
  <2> QED BY <2>1, <2>2 DEF Listing
<1> QED BY <1>1, BooksAreKept, TypeCorrect, PTL

(* No step reopens, truncates or extends a closed chunk file, or changes a *)
(* row that was written: fopen(..., "wb") never meets an index that was    *)
(* used, because chunk_index only grows and no file is opened twice.       *)
THEOREM ClosedChunksStay == Spec => ClosedStays
<1>1. ASSUME TypeOK, TypeOK', RecorderInv, BookInv, [Next]_vars, NEW v \in VCPUS
      PROVE  /\ \A c \in DOMAIN vs[v].files :
                  vs[v].files[c].closed =>
                    c \in DOMAIN vs'[v].files /\ vs'[v].files[c] = vs[v].files[c]
             /\ SubSeq(vs'[v].manifest, 1, Len(vs[v].manifest)) = vs[v].manifest
  <2>1. Later(vs[v], vs'[v])
    BY <1>1, BookInductive
  <2> DEFINE m == vs[v].manifest
             k == vs'[v].manifest
  <2>2. m \in Seq(Row) /\ k \in Seq(Row)
    BY <1>1, FieldTypes DEF TypeOK
  <2>3. SubSeq(k, 1, Len(m)) = m
    <3>1. /\ Len(m) \in Nat /\ Len(m) <= Len(k)
          /\ \A i \in 1 .. Len(m) : k[i] = m[i]
      BY <2>1, <2>2, LenProperties DEF Later
    <3> HIDE DEF m, k
    <3>2. \A i \in 1 .. Len(m) : k[i] \in Row
      BY <2>2, <3>1, LenProperties
    <3>3. /\ SubSeq(k, 1, Len(m)) \in Seq(Row)
          /\ Len(SubSeq(k, 1, Len(m))) = Len(m)
          /\ \A i \in 1 .. Len(m) : SubSeq(k, 1, Len(m))[i] = k[i]
      BY <3>1, <3>2, <2>2
    <3> QED BY <2>2, <3>1, <3>3, SeqEqual
  <2> QED BY <2>1, <2>3 DEF Later, Extends
<1>2. TypeOK /\ TypeOK' /\ RecorderInv /\ BookInv /\ [Next]_vars =>
        [\A v \in VCPUS :
           /\ \A c \in DOMAIN vs[v].files :
                vs[v].files[c].closed =>
                  c \in DOMAIN vs'[v].files /\ vs'[v].files[c] = vs[v].files[c]
           /\ SubSeq(vs'[v].manifest, 1, Len(vs[v].manifest)) = vs[v].manifest]_vars
  BY <1>1
<1> QED BY <1>2, BooksAreKept, TypeCorrect, PTL DEF Spec, ClosedStays

---------------------------------------------------------------------------
(* ImplementsSchedule.                                                     *)

(* The records of chunk c, written or not.                                 *)
Content(s, c) == IF s.open /\ c = Len(s.files) THEN Captured(s) ELSE s.files[c].recs

(* ... are what ChunkRecords makes of them.                                *)
LEMMA ContentIs ==
  ASSUME NEW s \in VcpuState, Layout(s), NEW c \in 1 .. Len(s.files)
  PROVE  ChunkRecords(s, c) = Content(s, c) /\ Content(s, c) \in Seq(Record)
<1>1. s.files \in Seq(Chunk) /\ s.inbuf \in Seq(Record) /\ s.pending \in Record
  BY FieldTypes
<1>2. s.files[c].recs \in Seq(Record)
  <2>1. s.files[c] \in Chunk
    BY <1>1, LenProperties
  <2> QED BY <2>1 DEF Chunk
<1>3. CASE c # Len(s.files)
  BY <1>2, <1>3, ConcatEmptySeq DEF ChunkRecords, Content
<1>4. CASE c = Len(s.files) /\ ~s.open
  <2>1. ~s.has_pending /\ s.inbuf = << >>
    BY <1>4 DEF Layout
  <2>2. << >> \o << >> = << >>
    OBVIOUS
  <2> QED BY <1>2, <1>4, <2>1, <2>2, ConcatEmptySeq DEF ChunkRecords, Content
<1>5. CASE c = Len(s.files) /\ s.open
  <2>1. c = s.chunk_index + 1
    BY <1>5 DEF Layout
  <2>2. Captured(s) \in Seq(Record)
    BY <1>5, HeldTypes DEF Layout
  <2>3. CASE s.has_pending
    <3>1. s.inbuf \o << s.pending >> = Append(s.inbuf, s.pending)
      BY <1>1, AppendIsConcat
    <3>2. s.files[c].recs \o Append(s.inbuf, s.pending) = Captured(s)
      BY <1>1, <1>2, <2>1, <2>3, ConcatAppend DEF Captured, Held, CurrentChunk
    <3> QED BY <1>5, <2>2, <2>3, <3>1, <3>2 DEF ChunkRecords, Content
  <2>4. CASE ~s.has_pending
    <3>1. s.inbuf \o << >> = s.inbuf
      BY <1>1, ConcatEmptySeq
    <3> QED BY <1>5, <2>1, <2>2, <2>4, <3>1
         DEF ChunkRecords, Content, Captured, Held, CurrentChunk
  <2> QED BY <2>3, <2>4
<1> QED BY <1>3, <1>4, <1>5

(* How many chunks have a record.                                          *)
Begun(s) ==
  IF Content(s, Len(s.files)) = << >> THEN Len(s.files) - 1 ELSE Len(s.files)

(* The slices are those chunks.                                            *)
LEMMA SlicesAre ==
  ASSUME NEW s \in VcpuState, Layout(s), Len(s.files) > 0
  PROVE  /\ Slices(s) = [c \in 1 .. Begun(s) |-> Positions(Content(s, c))]
         /\ Begun(s) \in Nat /\ Begun(s) <= Len(s.files) /\ Len(s.files) \in Nat
<1>1. Len(s.files) \in Nat
  BY FieldTypes, LenProperties
<1>2. ChunkRecords(s, Len(s.files)) = Content(s, Len(s.files))
  BY <1>1, ContentIs
<1>3. \A c \in 1 .. Begun(s) : ChunkRecords(s, c) = Content(s, c)
  BY <1>1, ContentIs DEF Begun
<1>4. Slices(s) = [c \in 1 .. Begun(s) |-> Positions(ChunkRecords(s, c))]
  BY <1>2 DEF Slices, Begun
<1> QED BY <1>1, <1>3, <1>4 DEF Begun

(* Positions, as a sequence.                                               *)
LEMMA PositionsAre ==
  ASSUME NEW q \in Seq(Record)
  PROVE  /\ Positions(q) \in Seq(Nat) /\ Len(Positions(q)) = Len(q)
         /\ Len(q) \in Nat /\ DOMAIN q = 1 .. Len(q)
         /\ \A i \in 1 .. Len(q) : Positions(q)[i] = q[i].pos
         /\ Positions(q) = << >> <=> q = << >>
<1>1. /\ Len(q) \in Nat /\ DOMAIN q = 1 .. Len(q)
      /\ \A i \in 1 .. Len(q) : q[i] \in Record
  BY LenProperties
<1>2. \A r \in Record : r.pos \in Nat
  BY DEF Record
<1>3. Positions(q) = [i \in 1 .. Len(q) |-> q[i].pos]
  BY <1>1 DEF Positions
<1>4. /\ Positions(q) \in Seq(Nat) /\ Len(Positions(q)) = Len(q)
  BY <1>1, <1>2, <1>3
<1>5. Positions(q) = << >> <=> Len(Positions(q)) = 0
  BY <1>4, EmptySeq
<1>6. q = << >> <=> Len(q) = 0
  BY EmptySeq
<1> QED BY <1>1, <1>3, <1>4, <1>5, <1>6

(* One more record is one more position.                                   *)
LEMMA PositionsAppend ==
  ASSUME NEW q \in Seq(Record), NEW r \in Record
  PROVE  Positions(Append(q, r)) = Append(Positions(q), r.pos)
<1> DEFINE a == Append(q, r)
           x == Positions(a)
           y == Append(Positions(q), r.pos)
<1>1. /\ a \in Seq(Record) /\ Len(a) = Len(q) + 1 /\ Len(q) \in Nat
      /\ \A i \in 1 .. Len(q) : a[i] = q[i]
      /\ a[Len(q) + 1] = r
  BY AppendProperties, LenProperties
<1>2. r.pos \in Nat
  BY DEF Record
<1>3. /\ Positions(q) \in Seq(Nat) /\ Len(Positions(q)) = Len(q)
      /\ \A i \in 1 .. Len(q) : Positions(q)[i] = q[i].pos
  BY PositionsAre
<1> HIDE DEF a
<1>4. /\ x \in Seq(Nat) /\ Len(x) = Len(q) + 1
      /\ \A i \in 1 .. Len(a) : x[i] = a[i].pos
  BY <1>1, PositionsAre
<1>5. /\ y \in Seq(Nat) /\ Len(y) = Len(q) + 1
      /\ \A i \in 1 .. Len(q) : y[i] = Positions(q)[i]
      /\ y[Len(q) + 1] = r.pos
  BY <1>1, <1>2, <1>3, AppendProperties
<1> HIDE DEF x, y
<1>6. \A i \in 1 .. Len(q) + 1 : x[i] = y[i]
  <2> TAKE i \in 1 .. Len(q) + 1
  <2>1. i \in 1 .. Len(q) \/ i = Len(q) + 1
    BY <1>1
  <2> QED BY <1>1, <1>3, <1>4, <1>5, <2>1
<1>7. x = y
  BY <1>4, <1>5, <1>6, SeqEqual
<1> QED BY <1>7 DEF x, y, a

(* The slices as a sequence of sequences of positions.                     *)
LEMMA SlicesTypes ==
  ASSUME NEW s \in VcpuState, Layout(s), Len(s.files) > 0
  PROVE  /\ Slices(s) \in Seq(Seq(Nat)) /\ Len(Slices(s)) = Begun(s)
         /\ DOMAIN Slices(s) = 1 .. Begun(s)
         /\ \A c \in 1 .. Begun(s) : Slices(s)[c] = Positions(Content(s, c))
<1>1. /\ Slices(s) = [c \in 1 .. Begun(s) |-> Positions(Content(s, c))]
      /\ Begun(s) \in Nat /\ Begun(s) <= Len(s.files) /\ Len(s.files) \in Nat
  BY SlicesAre
<1>2. \A c \in 1 .. Begun(s) : Positions(Content(s, c)) \in Seq(Nat)
  <2> TAKE c \in 1 .. Begun(s)
  <2>1. Content(s, c) \in Seq(Record)
    BY <1>1, ContentIs
  <2> QED BY <2>1, PositionsAre
<1>3. Slices(s) \in Seq(Seq(Nat))
  BY <1>1, <1>2
<1> QED BY <1>1, <1>3

(* Where the records are does not matter, nor do their operands.           *)
LEMMA SlicesSame ==
  ASSUME NEW s \in VcpuState, NEW t \in VcpuState, Layout(s), Layout(t),
         Len(s.files) > 0, Len(t.files) = Len(s.files),
         \A c \in 1 .. Len(s.files) : Positions(Content(t, c)) = Positions(Content(s, c))
  PROVE  Slices(t) = Slices(s) /\ Begun(t) = Begun(s)
<1> DEFINE n == Len(s.files)
<1>1. /\ n \in 1 .. n /\ n \in Nat
      /\ Content(s, n) \in Seq(Record) /\ Content(t, n) \in Seq(Record)
  BY SlicesAre, ContentIs
<1>2. Content(t, n) = << >> <=> Content(s, n) = << >>
  BY <1>1, PositionsAre
<1>3. Begun(t) = Begun(s) /\ Begun(s) \in Nat /\ Begun(s) <= n
  BY <1>2, SlicesAre DEF Begun
<1>4. /\ Slices(s) = [c \in 1 .. Begun(s) |-> Positions(Content(s, c))]
      /\ Slices(t) = [c \in 1 .. Begun(s) |-> Positions(Content(t, c))]
  BY <1>3, SlicesAre
<1>5. \A c \in 1 .. Begun(s) : Positions(Content(t, c)) = Positions(Content(s, c))
  BY <1>1, <1>3
<1> QED BY <1>3, <1>4, <1>5

(* A chunk file without a record is no slice.                              *)
LEMMA SlicesNew ==
  ASSUME NEW s \in VcpuState, NEW t \in VcpuState, Layout(s), Layout(t),
         Len(s.files) > 0, Len(t.files) = Len(s.files) + 1,
         Content(s, Len(s.files)) # << >>, Content(t, Len(t.files)) = << >>,
         \A c \in 1 .. Len(s.files) : Content(t, c) = Content(s, c)
  PROVE  Slices(t) = Slices(s) /\ Begun(t) = Begun(s)
<1>1. Begun(s) = Len(s.files) /\ Begun(t) = Len(s.files) /\ Len(s.files) \in Nat
  BY SlicesAre DEF Begun
<1>2. /\ Slices(s) = [c \in 1 .. Len(s.files) |-> Positions(Content(s, c))]
      /\ Slices(t) = [c \in 1 .. Len(s.files) |-> Positions(Content(t, c))]
  BY <1>1, SlicesAre
<1> QED BY <1>1, <1>2

(* A record more either begins a slice or continues the last one.          *)
LEMMA SlicesStore ==
  ASSUME NEW s \in VcpuState, NEW t \in VcpuState, Layout(s), Layout(t),
         Len(s.files) > 0, Len(t.files) = Len(s.files), NEW r \in Record,
         Content(t, Len(s.files)) = Append(Content(s, Len(s.files)), r),
         \A c \in 1 .. Len(s.files) - 1 : Content(t, c) = Content(s, c)
  PROVE  LET sl == Slices(s)
         IN  /\ Content(s, Len(s.files)) = << >> => Slices(t) = Append(sl, << r.pos >>)
             /\ Content(s, Len(s.files)) # << >> =>
                  Slices(t) = [sl EXCEPT ![Len(sl)] = Append(@, r.pos)]
<1> DEFINE n == Len(s.files)
           sl == Slices(s)
           st == Slices(t)
           q == Content(s, n)
<1>1. n \in Nat /\ n \in 1 .. n /\ q \in Seq(Record) /\ r.pos \in Nat
  BY SlicesAre, ContentIs DEF Record
<1>2. Content(t, n) # << >>
  BY <1>1
<1>3. Begun(t) = n
  BY <1>2 DEF Begun
<1>4. /\ st \in Seq(Seq(Nat)) /\ Len(st) = n
      /\ \A c \in 1 .. n : st[c] = Positions(Content(t, c))
  BY <1>3, SlicesTypes
<1>5. st[n] = Append(Positions(q), r.pos)
  BY <1>1, <1>4, PositionsAppend
<1>6. /\ sl \in Seq(Seq(Nat)) /\ Len(sl) = Begun(s)
      /\ \A c \in 1 .. Begun(s) : sl[c] = Positions(Content(s, c))
  BY SlicesTypes
<1>7. CASE q = << >>
  <2>1. Begun(s) = n - 1
    BY <1>7 DEF Begun
  <2>2. st[n] = << r.pos >>
    <3>1. Positions(q) = << >>
      BY <1>1, <1>7, PositionsAre
    <3>2. Append(<< >>, r.pos) = << r.pos >>
      OBVIOUS
    <3> QED BY <1>5, <3>1, <3>2
  <2> DEFINE a == Append(sl, << r.pos >>)
  <2>3. << r.pos >> \in Seq(Nat)
    BY <1>1
  <2>4. /\ a \in Seq(Seq(Nat)) /\ Len(a) = n
        /\ \A c \in 1 .. n - 1 : a[c] = sl[c]
        /\ a[n] = << r.pos >>
    <3> HIDE DEF sl, n
    <3>1. n - 1 + 1 = n
      BY <1>1
    <3> QED BY <1>6, <2>1, <2>3, <3>1, AppendProperties
  <2> HIDE DEF a, st, sl, n
  <2>5. \A c \in 1 .. n : st[c] = a[c]
    <3> TAKE c \in 1 .. n
    <3>1. CASE c = n
      BY <2>2, <2>4, <3>1
    <3>2. CASE c # n
      <4>1. c \in 1 .. n - 1
        BY <1>1, <3>2
      <4>2. Content(t, c) = Content(s, c)
        BY <4>1 DEF n
      <4> QED BY <1>4, <1>6, <2>1, <2>4, <4>1, <4>2
    <3> QED BY <3>1, <3>2
  <2>6. st = a
    BY <1>4, <2>4, <2>5, SeqEqual
  <2> QED BY <1>7, <2>6 DEF a, st, sl, n
<1>8. CASE q # << >>
  <2>1. Begun(s) = n
    BY <1>8 DEF Begun
  <2> DEFINE x == Append(sl[n], r.pos)
             a == [sl EXCEPT ![n] = x]
  <2>2. x = st[n] /\ x \in Seq(Nat)
    <3>1. n \in 1 .. Begun(s)
      BY <1>1, <2>1
    <3>2. sl[n] = Positions(q) /\ Positions(q) \in Seq(Nat)
      <4> HIDE DEF sl, n
      <4> QED BY <1>1, <1>6, <3>1, PositionsAre DEF q, n
    <3> HIDE DEF st, sl, n, q
    <3> QED BY <1>1, <1>5, <3>2
  <2> HIDE DEF st, sl, n, x
  <2>3. /\ a \in Seq(Seq(Nat)) /\ Len(a) = n
        /\ \A c \in 1 .. n : a[c] = IF c = n THEN x ELSE sl[c]
    BY <1>1, <1>6, <2>1, <2>2, ExceptSeq
  <2> HIDE DEF a
  <2>4. \A c \in 1 .. n : st[c] = a[c]
    <3> TAKE c \in 1 .. n
    <3>1. CASE c = n
      BY <2>2, <2>3, <3>1
    <3>2. CASE c # n
      <4>1. c \in 1 .. n - 1
        BY <1>1, <3>2
      <4>2. Content(t, c) = Content(s, c)
        BY <4>1 DEF n
      <4> QED BY <1>4, <1>6, <2>1, <2>3, <3>2, <4>2
    <3> QED BY <3>1, <3>2
  <2>5. st = a
    BY <1>4, <2>3, <2>4, SeqEqual
  <2>6. Len(sl) = n
    BY <1>6, <2>1
  <2> QED BY <1>8, <2>5, <2>6 DEF a, x, st, sl, n
<1> QED BY <1>7, <1>8

(* The instructions in the slices, and one more of them.                   *)
KeptOf(sl) == UNION { {sl[i][j] : j \in DOMAIN sl[i]} : i \in DOMAIN sl }

(* A slice more, of one instruction.                                       *)
LEMMA KeptOpen ==
  ASSUME NEW sl \in Seq(Seq(Nat)), NEW p \in Nat
  PROVE  KeptOf(Append(sl, << p >>)) = KeptOf(sl) \cup {p}
<1> DEFINE a == Append(sl, << p >>)
           n == Len(sl)
<1>1. /\ n \in Nat /\ DOMAIN sl = 1 .. n /\ DOMAIN a = 1 .. n + 1
      /\ \A i \in 1 .. n : a[i] = sl[i]
      /\ a[n + 1] = << p >>
  <2>1. << p >> \in Seq(Nat)
    OBVIOUS
  <2> QED BY <2>1, AppendProperties, LenProperties
<1>2. DOMAIN << p >> = {1} /\ << p >>[1] = p
  OBVIOUS
<1> HIDE DEF a, n
<1>3. \A x \in KeptOf(a) : x \in KeptOf(sl) \cup {p}
  <2> TAKE x \in KeptOf(a)
  <2>1. PICK i \in DOMAIN a : x \in {a[i][j] : j \in DOMAIN a[i]}
    BY DEF KeptOf
  <2>2. CASE i = n + 1
    BY <1>1, <1>2, <2>1, <2>2
  <2>3. CASE i # n + 1
    <3>1. i \in DOMAIN sl
      BY <1>1, <2>1, <2>3
    <3> QED BY <1>1, <2>1, <3>1 DEF KeptOf
  <2> QED BY <2>2, <2>3
<1>4. \A x \in KeptOf(sl) : x \in KeptOf(a)
  <2> TAKE x \in KeptOf(sl)
  <2>1. PICK i \in DOMAIN sl : x \in {sl[i][j] : j \in DOMAIN sl[i]}
    BY DEF KeptOf
  <2>2. i \in DOMAIN a
    BY <1>1, <2>1
  <2> QED BY <1>1, <2>1, <2>2 DEF KeptOf
<1>5. p \in KeptOf(a)
  <2>1. n + 1 \in DOMAIN a
    BY <1>1
  <2>2. p \in {a[n + 1][j] : j \in DOMAIN a[n + 1]}
    BY <1>1, <1>2
  <2> QED BY <2>1, <2>2 DEF KeptOf
<1>6. KeptOf(a) = KeptOf(sl) \cup {p}
  BY <1>3, <1>4, <1>5
<1> QED BY <1>6 DEF a

(* One instruction more in the last slice.                                 *)
LEMMA KeptExtend ==
  ASSUME NEW sl \in Seq(Seq(Nat)), sl # << >>, NEW p \in Nat
  PROVE  KeptOf([sl EXCEPT ![Len(sl)] = Append(@, p)]) = KeptOf(sl) \cup {p}
<1> DEFINE n == Len(sl)
           l == sl[n]
           e == Append(l, p)
           a == [sl EXCEPT ![n] = e]
<1>1. n \in Nat /\ DOMAIN sl = 1 .. n /\ n \in 1 .. n
  BY LenProperties, EmptySeq
<1>2. l \in Seq(Nat)
  BY <1>1
<1>3. /\ Len(l) \in Nat /\ DOMAIN l = 1 .. Len(l) /\ DOMAIN e = 1 .. Len(l) + 1
      /\ \A j \in 1 .. Len(l) : e[j] = l[j]
      /\ e[Len(l) + 1] = p
  <2> HIDE DEF l
  <2> QED BY <1>2, AppendProperties, LenProperties
<1> HIDE DEF e
<1>4. /\ DOMAIN a = 1 .. n /\ a[n] = e
      /\ \A i \in 1 .. n : i # n => a[i] = sl[i]
  BY <1>1
<1> HIDE DEF a, n, l
<1>5. \A x \in KeptOf(a) : x \in KeptOf(sl) \cup {p}
  <2> TAKE x \in KeptOf(a)
  <2>1. PICK i \in DOMAIN a : x \in {a[i][j] : j \in DOMAIN a[i]}
    BY DEF KeptOf
  <2>2. CASE i = n
    <3>1. PICK j \in DOMAIN e : x = e[j]
      BY <1>4, <2>1, <2>2
    <3>2. CASE j = Len(l) + 1
      BY <1>3, <3>1, <3>2
    <3>3. CASE j # Len(l) + 1
      <4>3. j \in 1 .. Len(l)
        <5>1. j \in 1 .. Len(l) + 1 /\ Len(l) \in Nat
          BY <1>3
        <5> QED BY <3>3, <5>1
      <4>1. j \in DOMAIN l /\ x = l[j]
        BY <1>3, <3>1, <4>3
      <4>2. n \in DOMAIN sl /\ l = sl[n]
        BY <1>1 DEF l
      <4> QED BY <4>1, <4>2 DEF KeptOf
    <3> QED BY <3>2, <3>3
  <2>3. CASE i # n
    <3>1. i \in DOMAIN sl /\ a[i] = sl[i]
      BY <1>1, <1>4, <2>1, <2>3
    <3> QED BY <2>1, <3>1 DEF KeptOf
  <2> QED BY <2>2, <2>3
<1>6. \A x \in KeptOf(sl) : x \in KeptOf(a)
  <2> TAKE x \in KeptOf(sl)
  <2>1. PICK i \in DOMAIN sl : x \in {sl[i][j] : j \in DOMAIN sl[i]}
    BY DEF KeptOf
  <2>2. i \in DOMAIN a
    BY <1>1, <1>4, <2>1
  <2>3. CASE i = n
    <3>1. PICK j \in DOMAIN l : x = l[j]
      BY <2>1, <2>3 DEF l
    <3>2. j \in DOMAIN e /\ e[j] = l[j]
      BY <1>3, <3>1
    <3>3. x \in {a[i][k] : k \in DOMAIN a[i]}
      BY <1>4, <2>3, <3>1, <3>2
    <3> QED BY <2>2, <3>3 DEF KeptOf
  <2>4. CASE i # n
    <3>1. a[i] = sl[i]
      BY <1>1, <1>4, <2>1, <2>4
    <3> QED BY <2>1, <2>2, <3>1 DEF KeptOf
  <2> QED BY <2>3, <2>4
<1>7. p \in KeptOf(a)
  <2>1. n \in DOMAIN a
    BY <1>1, <1>4
  <2>2. Len(l) + 1 \in DOMAIN e
    BY <1>3
  <2>3. p \in {a[n][j] : j \in DOMAIN a[n]}
    BY <1>3, <1>4, <2>2
  <2> QED BY <2>1, <2>3 DEF KeptOf
<1>8. KeptOf(a) = KeptOf(sl) \cup {p}
  BY <1>5, <1>6, <1>7
<1> QED BY <1>8 DEF a, e, l, n

(* An instruction that was not executed before is not among the kept ones. *)
LEMMA KeptMore ==
  ASSUME NEW n \in Nat, NEW K \in SUBSET (1 .. n)
  PROVE  /\ IsFiniteSet(K) /\ Cardinality(K) \in Nat
         /\ K \cup {n + 1} \subseteq 1 .. n + 1
         /\ Cardinality(K \cup {n + 1}) = Cardinality(K) + 1
<1>1. IsFiniteSet(K)
  <2>1. IsFiniteSet(1 .. n)
    BY FS_Interval
  <2> QED BY <2>1, FS_Subset
<1>2. n + 1 \notin K
  BY SMT
<1> QED BY <1>1, <1>2, FS_AddElement, FS_CardinalityType

(* The counters of the gap and of the windows.                             *)
SameClock(s, t) ==
  /\ t.sample_windows_done = s.sample_windows_done
  /\ t.sample_phase_insns = s.sample_phase_insns

(* Storing, closing, listing and opening leave them alone.                 *)
LEMMA FlushClock ==
  ASSUME NEW s \in VcpuState PROVE SameClock(s, flush_buffer(s))
<1> DEFINE fs == [s.files EXCEPT ![s.chunk_index + 1].recs =
                     IF disk_full THEN @ ELSE @ \o s.inbuf]
           t == flush_buffer(s)
<1>1. t = IF ~s.open THEN s ELSE [s EXCEPT !.files = fs, !.inbuf = << >>]
  BY DEF flush_buffer
<1> HIDE DEF t, fs
<1>2. SameClock(s, t)
  BY <1>1 DEF SameClock, VcpuState
<1> QED BY <1>2 DEF t

(* finalize_pending_insn.                                                  *)
LEMMA FinalizeClock ==
  ASSUME NEW s \in VcpuState PROVE SameClock(s, finalize_pending_insn(s))
<1> DEFINE f == Room(s)
           q == Append(f.inbuf, s.pending)
           b == [f EXCEPT !.inbuf = q]
           t == finalize_pending_insn(s)
<1>1. f \in VcpuState /\ SameClock(s, f)
  BY RoomKeeps, FlushClock DEF Room, SameClock
<1>2. buffer_append(s, s.pending) = b
  BY DEF buffer_append, Room
<1> HIDE DEF f, q
<1>3. SameClock(f, b) /\ DOMAIN b = DOMAIN f
  BY <1>1 DEF SameClock, VcpuState
<1>4. t = IF ~s.has_pending THEN s
          ELSE [b EXCEPT !.insn_count = b.insn_count + 1,
                         !.chunk_insn_count = b.chunk_insn_count + 1,
                         !.has_pending = FALSE]
  <2> HIDE DEF b
  <2> QED BY <1>2 DEF finalize_pending_insn
<1>5. CASE ~s.has_pending
  BY <1>4, <1>5 DEF SameClock
<1>6. CASE s.has_pending
  <2> HIDE DEF t
  <2>1. SameClock(f, t)
    BY <1>1, <1>4, <1>6 DEF SameClock, VcpuState
  <2> QED BY <1>1, <2>1 DEF SameClock, t
<1> QED BY <1>5, <1>6

(* Closed.                                                                 *)
LEMMA ClosedClock ==
  ASSUME NEW s \in VcpuState PROVE SameClock(s, Closed(s))
<1> DEFINE fs == [s.files EXCEPT ![s.chunk_index + 1].closed = TRUE]
           t == Closed(s)
<1>1. t = IF ~s.open THEN s ELSE [s EXCEPT !.open = FALSE, !.files = fs]
  BY DEF Closed
<1> HIDE DEF t, fs
<1>2. SameClock(s, t)
  BY <1>1 DEF SameClock, VcpuState
<1> QED BY <1>2 DEF t

(* Listed.                                                                 *)
LEMMA ListedClock ==
  ASSUME NEW s \in VcpuState PROVE SameClock(s, Listed(s))
<1> DEFINE m == Append(s.manifest, [chunk |-> s.chunk_index,
                                    start |-> s.chunk_start_insn,
                                    count |-> s.chunk_insn_count])
           t == Listed(s)
<1>1. t = [s EXCEPT !.manifest = m]
  BY DEF Listed
<1> HIDE DEF t, m
<1>2. SameClock(s, t)
  BY <1>1 DEF SameClock, VcpuState
<1> QED BY <1>2 DEF t

(* next_chunk.                                                             *)
LEMMA NextClock ==
  ASSUME NEW s \in VcpuState, NEW ok \in BOOLEAN
  PROVE  SameClock(s, next_chunk(s, ok))
<1> DEFINE k == s.chunk_index + 1
           n == [s EXCEPT !.chunk_index = k]
           fs == Created(s.files, k)
           st == IF ~sampling THEN s.insn_count
                 ELSE IF s.stream_insns > 0 THEN s.stream_insns - 1 ELSE 0
           t == next_chunk(s, ok)
<1>1. /\ n.files = s.files /\ n.chunk_index = k /\ n.insn_count = s.insn_count
      /\ n.stream_insns = s.stream_insns /\ DOMAIN n = DOMAIN s
      /\ SameClock(s, n)
  <2> HIDE DEF k
  <2> QED BY DEF VcpuState, SameClock
<1>2. t = IF ok
          THEN [n EXCEPT !.inbuf = << >>, !.open = TRUE, !.files = fs,
                         !.chunk_insn_count = 0, !.chunk_start_insn = st]
          ELSE [n EXCEPT !.inbuf = << >>, !.chunk_insn_count = 0, !.limit_reached = TRUE]
  <2> HIDE DEF n, fs
  <2>1. t = IF ok THEN open_chunk(n) ELSE open_failed(n)
    BY DEF next_chunk, n
  <2> QED BY <1>1, <2>1 DEF open_chunk, open_failed, fs
<1> HIDE DEF t, fs, st, n
<1>3. SameClock(n, t)
  BY <1>1, <1>2 DEF SameClock, VcpuState
<1> QED BY <1>1, <1>3 DEF SameClock, t

(* The same records, at the same places of the slices.                     *)
SamePos(s, t) ==
  /\ Len(t.files) = Len(s.files)
  /\ \A c \in 1 .. Len(s.files) : Positions(Content(t, c)) = Positions(Content(s, c))

(* The newest chunk, and how many instructions were taken.                 *)
Newest(s) == Content(s, Len(s.files))
Taken(s) == s.insn_count + (IF s.has_pending THEN 1 ELSE 0)

(* No chunk but the newest is empty; the slices hold what was taken, out   *)
(* of the n instructions that were executed.                               *)
Sliced(s, n) ==
  /\ Len(s.files) > 0
  /\ \A c \in 1 .. Len(s.files) - 1 : Content(s, c) # << >>
  /\ KeptOf(Slices(s)) \subseteq 1 .. n
  /\ Cardinality(KeptOf(Slices(s))) = Taken(s)

(* SamePos is transitive.                                                  *)
LEMMA SamePosTwice ==
  ASSUME NEW s, NEW f, NEW t, SamePos(s, f), SamePos(f, t)
  PROVE  SamePos(s, t)
BY DEF SamePos

(* What only depends on the positions.                                     *)
LEMMA SamePosSlices ==
  ASSUME NEW s \in VcpuState, NEW t \in VcpuState, Layout(s), Layout(t),
         Len(s.files) > 0, SamePos(s, t)
  PROVE  /\ Slices(t) = Slices(s) /\ Len(t.files) = Len(s.files)
         /\ Len(Newest(t)) = Len(Newest(s))
         /\ Newest(t) = << >> <=> Newest(s) = << >>
         /\ Newest(s) # << >> =>
              Newest(t)[Len(Newest(t))].pos = Newest(s)[Len(Newest(s))].pos
<1> DEFINE a == Newest(s)
           b == Newest(t)
<1>1. Slices(t) = Slices(s) /\ Len(t.files) = Len(s.files)
  BY SlicesSame DEF SamePos
<1>2. Len(s.files) \in 1 .. Len(s.files)
  BY SlicesAre
<1>3. a \in Seq(Record) /\ b \in Seq(Record) /\ Positions(b) = Positions(a)
  BY <1>1, <1>2, ContentIs DEF Newest, SamePos
<1> HIDE DEF a, b
<1>4. /\ Len(Positions(a)) = Len(a) /\ Len(a) \in Nat
      /\ \A i \in 1 .. Len(a) : Positions(a)[i] = a[i].pos
      /\ Positions(a) = << >> <=> a = << >>
  BY <1>3, PositionsAre
<1>5. /\ Len(Positions(b)) = Len(b)
      /\ \A i \in 1 .. Len(b) : Positions(b)[i] = b[i].pos
      /\ Positions(b) = << >> <=> b = << >>
  BY <1>3, PositionsAre
<1>6. Len(b) = Len(a) /\ (b = << >> <=> a = << >>)
  BY <1>3, <1>4, <1>5
<1>7. a # << >> => Len(a) \in 1 .. Len(a)
  BY <1>3, <1>4, EmptySeq
<1>8. a # << >> => b[Len(b)].pos = a[Len(a)].pos
  BY <1>3, <1>4, <1>5, <1>6, <1>7
<1> QED BY <1>1, <1>6, <1>8 DEF a, b

(* ... and Sliced.                                                         *)
LEMMA SamePosSliced ==
  ASSUME NEW s \in VcpuState, NEW t \in VcpuState, Layout(s), Layout(t),
         SamePos(s, t), NEW n, Sliced(s, n), Taken(t) = Taken(s)
  PROVE  Sliced(t, n)
<1>1. Slices(t) = Slices(s) /\ Len(t.files) = Len(s.files) /\ Len(s.files) \in Nat
  BY SamePosSlices, SlicesAre DEF Sliced
<1>2. \A c \in 1 .. Len(s.files) - 1 : Content(t, c) # << >>
  <2> TAKE c \in 1 .. Len(s.files) - 1
  <2>1. c \in 1 .. Len(s.files)
    BY <1>1
  <2>2. /\ Content(s, c) \in Seq(Record) /\ Content(t, c) \in Seq(Record)
        /\ Content(s, c) # << >>
        /\ Positions(Content(t, c)) = Positions(Content(s, c))
    BY <1>1, <2>1, ContentIs DEF SamePos, Sliced
  <2> QED BY <2>2, PositionsAre
<1> QED BY <1>1, <1>2 DEF Sliced

(* Moving records from the buffer to a file with room keeps them in place. *)
LEMMA StoredPos ==
  ASSUME ~disk_full, NEW s \in VcpuState, NEW t \in VcpuState, s.open, Layout(s),
         Kept(s, t), Stored(s, t)
  PROVE  SamePos(s, t)
<1>1. /\ t.open /\ t.chunk_index = s.chunk_index /\ Len(s.files) = s.chunk_index + 1
      /\ Len(t.files) = Len(s.files)
  BY DEF Kept, Layout, Stored
<1>2. \A c \in 1 .. Len(s.files) : Content(t, c) = Content(s, c)
  BY <1>1 DEF Content, Stored
<1> QED BY <1>1, <1>2 DEF SamePos

(* finalize_pending_insn.                                                  *)
LEMMA FinalizePos ==
  ASSUME ~disk_full, NEW s \in VcpuState, Layout(s)
  PROVE  SamePos(s, finalize_pending_insn(s))
<1> DEFINE t == finalize_pending_insn(s)
<1>1. t \in VcpuState /\ Kept(s, t)
  BY FinalizeType, FinalizeKeeps
<1>2. CASE ~s.open
  <2>1. t = s
    BY <1>2, FinalizeKeeps DEF Layout
  <2> HIDE DEF t
  <2> QED BY <2>1 DEF SamePos, t
<1>3. CASE s.open
  <2>1. Stored(s, t)
    BY <1>3, FinalizeStored DEF Layout
  <2> HIDE DEF t
  <2> QED BY <1>1, <1>3, <2>1, StoredPos DEF t
<1> QED BY <1>2, <1>3

(* flush_buffer.                                                           *)
LEMMA FlushPos ==
  ASSUME ~disk_full, NEW s \in VcpuState, Layout(s)
  PROVE  SamePos(s, flush_buffer(s))
<1> DEFINE t == flush_buffer(s)
<1>1. t \in VcpuState /\ Kept(s, t)
  BY FlushType, FlushKeeps
<1>2. CASE ~s.open
  <2>1. t = s
    BY <1>2, FlushKeeps
  <2> HIDE DEF t
  <2> QED BY <2>1 DEF SamePos, t
<1>3. CASE s.open
  <2>1. Stored(s, t)
    BY <1>3, FlushStored DEF Layout
  <2> HIDE DEF t
  <2> QED BY <1>1, <1>3, <2>1, StoredPos DEF t
<1> QED BY <1>2, <1>3

(* A step that leaves the files and the buffer alone.                      *)
LEMMA UntouchedPos ==
  ASSUME NEW s, NEW t, Untouched(s, t)
  PROVE  SamePos(s, t) /\ Taken(t) = Taken(s)
<1>1. \A c \in 1 .. Len(s.files) : Content(t, c) = Content(s, c)
  BY DEF Untouched, Content, Captured, Held, CurrentChunk
<1> QED BY <1>1 DEF SamePos, Untouched, Taken

(* A drained file that is closed.                                          *)
LEMMA ClosedPos ==
  ASSUME NEW s \in VcpuState, s.open, Books(s), ~s.has_pending, s.inbuf = << >>
  PROVE  SamePos(s, Closed(s))
<1> DEFINE t == Closed(s)
           i == s.chunk_index + 1
<1>1. /\ t \in VcpuState /\ ~t.open
      /\ i \in DOMAIN t.files /\ DOMAIN t.files = DOMAIN s.files
      /\ t.files[i].recs = s.files[i].recs
      /\ \A c \in DOMAIN s.files : c # i => t.files[c] = s.files[c]
  BY ClosedBooks
<1>2. Captured(s) = s.files[i].recs
  BY Drained DEF Books
<1>3. Len(s.files) = i
  BY DEF Books, Layout
<1> HIDE DEF t
<1>4. /\ DOMAIN s.files = 1 .. Len(s.files) /\ DOMAIN t.files = 1 .. Len(t.files)
      /\ Len(s.files) \in Nat /\ Len(t.files) \in Nat
  BY <1>1, FieldTypes, LenProperties
<1>5. Len(t.files) = Len(s.files)
  BY <1>1, <1>4
<1>6. \A c \in 1 .. Len(s.files) : Content(t, c) = Content(s, c)
  <2> TAKE c \in 1 .. Len(s.files)
  <2>1. CASE c = i
    BY <1>1, <1>2, <1>3, <2>1 DEF Content
  <2>2. CASE c # i
    BY <1>1, <1>3, <1>4, <2>2 DEF Content
  <2> QED BY <2>1, <2>2
<1>7. SamePos(s, t)
  BY <1>5, <1>6 DEF SamePos
<1> QED BY <1>7 DEF t

(* The new chunk file of next_chunk.                                       *)
LEMMA NextFiles ==
  ASSUME NEW s \in VcpuState, Books(s), ~s.open, ~s.limit_reached,
         NEW ok \in BOOLEAN
  PROVE  LET t == next_chunk(s, ok)
         IN  t.files = IF ok THEN Append(s.files, EmptyChunk) ELSE s.files
<1> DEFINE k == s.chunk_index + 1
           n == [s EXCEPT !.chunk_index = k]
           fs == Append(s.files, EmptyChunk)
           st == IF ~sampling THEN s.insn_count
                 ELSE IF s.stream_insns > 0 THEN s.stream_insns - 1 ELSE 0
           t == next_chunk(s, ok)
<1>1. Len(s.files) = k /\ k \in Nat
  BY FieldTypes DEF Books, Layout
<1>2. Created(s.files, k) = fs
  BY <1>1 DEF Created
<1>3. /\ n.files = s.files /\ n.chunk_index = k /\ n.insn_count = s.insn_count
      /\ n.stream_insns = s.stream_insns /\ DOMAIN n = DOMAIN s
  <2> HIDE DEF k
  <2> QED BY DEF VcpuState
<1>4. t = IF ok
          THEN [n EXCEPT !.inbuf = << >>, !.open = TRUE, !.files = fs,
                         !.chunk_insn_count = 0, !.chunk_start_insn = st]
          ELSE [n EXCEPT !.inbuf = << >>, !.chunk_insn_count = 0, !.limit_reached = TRUE]
  <2> HIDE DEF n, fs
  <2>1. t = IF ok THEN open_chunk(n) ELSE open_failed(n)
    BY DEF next_chunk, n
  <2> QED BY <1>2, <1>3, <2>1 DEF open_chunk, open_failed
<1> HIDE DEF t, fs, st, n
<1>5. t.files = IF ok THEN fs ELSE s.files
  BY <1>3, <1>4 DEF VcpuState
<1> QED BY <1>5 DEF t, fs

(* Opening a chunk file after one with records, or failing to.             *)
LEMMA NextSliced ==
  ASSUME NEW s \in VcpuState, Books(s), ~s.open, ~s.limit_reached,
         NEW ok \in BOOLEAN, NEW n, Sliced(s, n), Newest(s) # << >>
  PROVE  LET t == next_chunk(s, ok)
         IN  /\ Sliced(t, n) /\ Slices(t) = Slices(s)
             /\ ok => Newest(t) = << >> /\ Len(t.files) = Len(s.files) + 1
<1> DEFINE t == next_chunk(s, ok)
<1>1. /\ t \in VcpuState /\ Books(t) /\ (t.open <=> ok) /\ ~t.has_pending
      /\ t.insn_count = s.insn_count
      /\ ok => Captured(t) = << >>
  BY NextChunkBooks
<1>2. t.files = IF ok THEN Append(s.files, EmptyChunk) ELSE s.files
  BY NextFiles
<1>3. /\ ~s.has_pending /\ s.files \in Seq(Chunk) /\ Len(s.files) \in Nat
      /\ Layout(s) /\ Len(s.files) > 0 /\ EmptyChunk \in Chunk
  BY FieldTypes, LenProperties DEF Books, Layout, Sliced, EmptyChunk, Chunk
<1> HIDE DEF t
<1>4. Layout(t) /\ Taken(t) = Taken(s)
  BY <1>1, <1>3 DEF Books, Taken
<1>5. CASE ~ok
  <2>1. SamePos(s, t)
    BY <1>1, <1>2, <1>5 DEF SamePos, Content
  <2>2. Sliced(t, n) /\ Slices(t) = Slices(s)
    BY <1>1, <1>3, <1>4, <2>1, SamePosSliced, SamePosSlices
  <2> QED BY <1>5, <2>2 DEF t
<1>6. CASE ok
  <2>1. /\ Len(t.files) = Len(s.files) + 1
        /\ \A c \in 1 .. Len(s.files) : t.files[c] = s.files[c]
    BY <1>2, <1>3, <1>6, AppendProperties
  <2>2. Newest(t) = << >>
    BY <1>1, <1>6 DEF Newest, Content
  <2>3. \A c \in 1 .. Len(s.files) : Content(t, c) = Content(s, c)
    <3> TAKE c \in 1 .. Len(s.files)
    <3>1. c # Len(t.files)
      BY <1>3, <2>1
    <3> QED BY <2>1, <3>1 DEF Content
  <2>4. Slices(t) = Slices(s)
    BY <1>1, <1>3, <1>4, <2>1, <2>2, <2>3, SlicesNew DEF Newest
  <2>5. \A c \in 1 .. Len(t.files) - 1 : Content(t, c) # << >>
    <3> TAKE c \in 1 .. Len(t.files) - 1
    <3>1. c \in 1 .. Len(s.files)
      BY <1>3, <2>1
    <3>2. CASE c = Len(s.files)
      BY <2>3, <3>1, <3>2 DEF Newest
    <3>3. CASE c # Len(s.files)
      <4>1. c \in 1 .. Len(s.files) - 1
        BY <1>3, <3>1, <3>3
      <4> QED BY <2>3, <3>1, <4>1 DEF Sliced
    <3> QED BY <3>2, <3>3
  <2>6. Len(t.files) > 0
    BY <1>3, <2>1
  <2>7. Sliced(t, n)
    BY <1>4, <2>4, <2>5, <2>6 DEF Sliced
  <2> QED BY <2>1, <2>2, <2>4, <2>7 DEF t
<1> QED BY <1>5, <1>6

(* An instruction stored is one more record of the newest chunk.           *)
LEMMA StoreSliced ==
  ASSUME NEW s \in VcpuState, s.open, ~s.has_pending, Layout(s), NEW n \in Nat,
         Sliced(s, n), NEW user \in BOOLEAN
  PROVE  LET t == store_pending(s, n + 1, user)
             sl == Slices(s)
         IN  /\ t \in VcpuState /\ Layout(t) /\ Sliced(t, n + 1)
             /\ t.open /\ t.has_pending /\ SameClock(s, t)
             /\ t.chunk_insn_count = s.chunk_insn_count
             /\ t.limit_reached = s.limit_reached
             /\ Len(t.files) = Len(s.files)
             /\ Newest(t) # << >> /\ Len(Newest(t)) = Len(Newest(s)) + 1
             /\ Newest(s) = << >> => Slices(t) = Append(sl, << n + 1 >>)
             /\ Newest(s) # << >> =>
                  Slices(t) = [sl EXCEPT ![Len(sl)] = Append(@, n + 1)]
<1> DEFINE t == store_pending(s, n + 1, user)
           p == [pos |-> n + 1, user |-> user, ops |-> << >>]
           sl == Slices(s)
<1>1. t \in VcpuState
  BY StoreType
<1>2. p \in Record /\ p.pos = n + 1
  BY DEF Record
<1>3. t = [s EXCEPT !.has_pending = TRUE, !.pending = p]
  BY DEF store_pending
<1> HIDE DEF t, p
<1>4. /\ t.open = s.open /\ t.has_pending /\ t.pending = p
      /\ t.inbuf = s.inbuf /\ t.files = s.files /\ t.chunk_index = s.chunk_index
      /\ t.insn_count = s.insn_count /\ t.limit_reached = s.limit_reached
      /\ t.chunk_insn_count = s.chunk_insn_count
  BY <1>3 DEF VcpuState
<1>5. SameClock(s, t)
  BY <1>3 DEF SameClock, VcpuState
<1>6. Layout(t)
  BY <1>4 DEF Layout, CurrentChunk
<1>7. /\ Len(s.files) \in Nat /\ Len(s.files) > 0
      /\ Newest(s) \in Seq(Record)
  BY SlicesAre, ContentIs DEF Sliced, Newest
<1>8. Newest(t) = Append(Newest(s), p)
  BY <1>4 DEF Newest, Content, Captured, Held, CurrentChunk
<1>9. \A c \in 1 .. Len(s.files) - 1 : Content(t, c) = Content(s, c)
  BY <1>4, <1>7 DEF Content
<1>10. /\ Newest(s) = << >> => Slices(t) = Append(sl, << n + 1 >>)
       /\ Newest(s) # << >> => Slices(t) = [sl EXCEPT ![Len(sl)] = Append(@, n + 1)]
  <2>1. /\ Len(t.files) = Len(s.files) /\ Len(s.files) > 0
        /\ Content(t, Len(s.files)) = Append(Content(s, Len(s.files)), p)
        /\ Newest(s) = Content(s, Len(s.files))
    BY <1>4, <1>7, <1>8 DEF Newest
  <2>2. /\ Content(s, Len(s.files)) = << >> => Slices(t) = Append(Slices(s), << p.pos >>)
        /\ Content(s, Len(s.files)) # << >> =>
             Slices(t) = [Slices(s) EXCEPT ![Len(Slices(s))] = Append(@, p.pos)]
    BY <1>1, <1>2, <1>6, <1>9, <2>1, SlicesStore
  <2> QED BY <1>2, <2>1, <2>2
<1>11. sl \in Seq(Seq(Nat)) /\ (Newest(s) # << >> => sl # << >>)
  <2>1. sl \in Seq(Seq(Nat)) /\ Len(sl) = Begun(s)
    BY <1>7, SlicesTypes
  <2>2. Newest(s) # << >> => Begun(s) = Len(s.files)
    BY DEF Begun, Newest
  <2> HIDE DEF sl
  <2> QED BY <1>7, <2>1, <2>2, EmptySeq
<1> HIDE DEF sl
<1>12. KeptOf(Slices(t)) = KeptOf(sl) \cup {n + 1}
  <2>1. n + 1 \in Nat
    OBVIOUS
  <2>2. CASE Newest(s) = << >>
    BY <1>10, <1>11, <2>1, <2>2, KeptOpen
  <2>3. CASE Newest(s) # << >>
    BY <1>10, <1>11, <2>1, <2>3, KeptExtend
  <2> QED BY <2>2, <2>3
<1>13. Sliced(t, n + 1)
  <2>1. KeptOf(sl) \in SUBSET (1 .. n) /\ Cardinality(KeptOf(sl)) = s.insn_count
    BY <1>4, FieldTypes DEF Sliced, Taken, sl
  <2>2. /\ KeptOf(Slices(t)) \subseteq 1 .. n + 1
        /\ Cardinality(KeptOf(Slices(t))) = s.insn_count + 1
    BY <1>12, <2>1, KeptMore
  <2>3. \A c \in 1 .. Len(t.files) - 1 : Content(t, c) # << >>
    BY <1>4, <1>9 DEF Sliced
  <2> QED BY <1>4, <1>7, <2>2, <2>3 DEF Sliced, Taken
<1>14. Newest(t) # << >> /\ Len(Newest(t)) = Len(Newest(s)) + 1
  BY <1>2, <1>7, <1>8, AppendProperties
<1> QED BY <1>1, <1>4, <1>5, <1>6, <1>10, <1>13, <1>14 DEF t, sl

---------------------------------------------------------------------------
(* The guards of the schedule, as predicates of slices and history.        *)
Ticks(p, h) == {k \in p + 1 .. Len(h) : ~Plan.clock_user \/ h[k]}

LastPos(sl) == sl[Len(sl)][Len(sl[Len(sl)])]

Filled(sl) == ~(sl # << >> /\ (Plan.len = 0 \/ Len(sl[Len(sl)]) < Plan.len))

Spent(sl) ==
  \/ Plan.limit > 0 /\ Cardinality(KeptOf(sl)) >= Plan.limit
  \/ Plan.count > 0 /\ Len(sl) >= Plan.count /\ Filled(sl)

MayOpen(sl, h, user) ==
  /\ Filled(sl) /\ ~Spent(sl)
  /\ sl = << >> \/ (/\ Cardinality(Ticks(LastPos(sl), h)) >= Plan.gap
                    /\ ~Plan.clock_user \/ user)

MayExtend(sl) == ~Filled(sl) /\ ~Spent(sl)

(* What the next instruction does to the slices and to the recorder.       *)
Moves(sl, h, user, new, stop) ==
  \/ /\ MayExtend(sl) /\ ~stop
     /\ new = [sl EXCEPT ![Len(sl)] = Append(@, Len(h) + 1)]
  \/ MayOpen(sl, h, user) /\ ~stop /\ new = Append(sl, << Len(h) + 1 >>)
  \/ MayOpen(sl, h, user) /\ stop /\ new = sl
  \/ ~MayExtend(sl) /\ ~MayOpen(sl, h, user) /\ (stop => Spent(sl)) /\ new = sl

(* The plan of the command line.                                           *)
LEMMA PlanIs ==
  /\ Plan.len = IF sampling THEN knobs.sample_len ELSE knobs.rotate_interval
  /\ Plan.gap = IF sampling THEN knobs.sample_gap ELSE 0
  /\ Plan.count = IF sampling THEN knobs.sample_count ELSE 0
  /\ Plan.limit = knobs.insn_limit
  /\ Plan.clock_user = (sampling /\ knobs.clock_user)
BY DEF Plan

(* Its numbers.                                                            *)
LEMMA KnobTypes ==
  ASSUME knobs \in Knobs
  PROVE  /\ knobs.sample_len \in Nat /\ knobs.rotate_interval \in Nat
         /\ knobs.sample_gap \in Nat /\ knobs.sample_count \in Nat
         /\ knobs.insn_limit \in Nat /\ knobs.clock_user \in BOOLEAN
         /\ ~(knobs.rotate_interval > 0 /\ knobs.sample_len > 0)
BY KnobsAssumption DEF Knob

(* The clock ticks at each instruction, or at each of user mode.           *)
LEMMA TickMore ==
  ASSUME NEW h \in Seq(BOOLEAN), NEW user \in BOOLEAN, NEW p \in Nat, p <= Len(h)
  PROVE  /\ Cardinality(Ticks(p, h)) \in Nat
         /\ Cardinality(Ticks(p, Append(h, user))) =
              Cardinality(Ticks(p, h)) + (IF ~Plan.clock_user \/ user THEN 1 ELSE 0)
<1> DEFINE n == Len(h)
           g == Append(h, user)
           A == Ticks(p, h)
           B == Ticks(p, g)
<1>1. /\ n \in Nat /\ Len(g) = n + 1 /\ g[n + 1] = user
      /\ \A k \in 1 .. n : g[k] = h[k]
  BY AppendProperties, LenProperties
<1>2. /\ A = {k \in p + 1 .. n : ~Plan.clock_user \/ h[k]}
      /\ B = {k \in p + 1 .. Len(g) : ~Plan.clock_user \/ g[k]}
  BY DEF Ticks
<1> HIDE DEF g, A, B, n
<1>3. A \subseteq p + 1 .. n /\ n + 1 \notin A
  BY <1>1, <1>2
<1>4. IsFiniteSet(A) /\ Cardinality(A) \in Nat
  <2>1. p + 1 \in Int /\ n \in Int
    BY <1>1
  <2>2. IsFiniteSet(p + 1 .. n)
    BY <2>1, FS_Interval
  <2>3. IsFiniteSet(A)
    BY <1>3, <2>2, FS_Subset
  <2> QED BY <2>3, FS_CardinalityType
<1>5. \A k \in p + 1 .. n : k \in A <=> k \in B
  <2> TAKE k \in p + 1 .. n
  <2>1. k \in 1 .. n /\ k \in p + 1 .. n + 1
    BY <1>1
  <2> QED BY <1>1, <1>2, <2>1
<1>6. n + 1 \in p + 1 .. n + 1
  BY <1>1 DEF n
<1>7. n + 1 \in B <=> (~Plan.clock_user \/ user)
  BY <1>1, <1>2, <1>6
<1>8. \A k \in B : k \in p + 1 .. n \/ k = n + 1
  BY <1>1, <1>2
<1>9. CASE ~Plan.clock_user \/ user
  <2>1. B = A \cup {n + 1}
    BY <1>3, <1>5, <1>7, <1>8, <1>9
  <2> QED BY <1>3, <1>4, <1>9, <2>1, FS_AddElement DEF A, B, g
<1>10. CASE ~(~Plan.clock_user \/ user)
  <2>1. B = A
    BY <1>3, <1>5, <1>7, <1>8, <1>10
  <2> QED BY <1>4, <1>10, <2>1 DEF A, B, g
<1> QED BY <1>9, <1>10

(* Nothing has ticked after the instruction that was executed last.        *)
LEMMA NoTicks ==
  ASSUME NEW h \in Seq(BOOLEAN)
  PROVE  Cardinality(Ticks(Len(h), h)) = 0
<1>1. Len(h) + 1 .. Len(h) = {}
  BY LenProperties
<1>2. Ticks(Len(h), h) = {}
  BY <1>1 DEF Ticks
<1> QED BY <1>2, FS_EmptySet

(* Another window is still allowed.                                        *)
MoreWindows(s) == knobs.sample_count > 0 => s.sample_windows_done < knobs.sample_count

(* The open chunk counts its records; the windows before it are done.      *)
Filling(s) ==
  /\ Len(Newest(s)) = s.chunk_insn_count + (IF s.has_pending THEN 1 ELSE 0)
  /\ sampling => s.sample_windows_done = Len(s.files) - 1 /\ MoreWindows(s)

(* In a gap: the last window is full, and the ticks since it are counted.  *)
Waiting(s, h) ==
  /\ Newest(s) # << >> /\ Len(Newest(s)) >= knobs.sample_len
  /\ s.sample_windows_done = Len(s.files) /\ MoreWindows(s)
  /\ s.sample_phase_insns = Cardinality(Ticks(Newest(s)[Len(Newest(s))].pos, h))

(* A vCPU that goes on is where the schedule is.                           *)
Progress(s, h) ==
  /\ Sliced(s, Len(h))
  /\ s.open => Filling(s) /\ (Newest(s) = << >> => Len(s.files) = 1)
  /\ ~s.open => Waiting(s, h)

(* The last slice is the newest chunk, once that has a record.             *)
LEMMA SlicesEnd ==
  ASSUME NEW s \in VcpuState, Layout(s), Len(s.files) > 0
  PROVE  LET sl == Slices(s)
         IN  /\ sl \in Seq(Seq(Nat)) /\ Len(s.files) \in Nat
             /\ Newest(s) \in Seq(Record) /\ Len(Newest(s)) \in Nat
             /\ Newest(s) = << >> => Len(sl) = Len(s.files) - 1
             /\ Newest(s) # << >> =>
                  /\ sl # << >> /\ Len(sl) = Len(s.files)
                  /\ Len(sl[Len(sl)]) = Len(Newest(s))
                  /\ LastPos(sl) = Newest(s)[Len(Newest(s))].pos
                  /\ Len(Newest(s)) \in 1 .. Len(Newest(s))
<1> DEFINE sl == Slices(s)
           q == Newest(s)
           n == Len(s.files)
<1>1. n \in Nat /\ n \in 1 .. n
  BY SlicesAre
<1>2. q \in Seq(Record) /\ q = Content(s, n)
  BY <1>1, ContentIs DEF Newest
<1>3. /\ sl \in Seq(Seq(Nat)) /\ Len(sl) = Begun(s)
      /\ \A c \in 1 .. Begun(s) : sl[c] = Positions(Content(s, c))
  BY SlicesTypes
<1>4. Begun(s) = IF q = << >> THEN n - 1 ELSE n
  BY DEF Begun, Newest
<1> HIDE DEF sl, q, n
<1>5. /\ Len(q) \in Nat /\ Len(Positions(q)) = Len(q)
      /\ \A i \in 1 .. Len(q) : Positions(q)[i] = q[i].pos
  BY <1>2, PositionsAre
<1>6. ASSUME q # << >>
      PROVE  /\ sl # << >> /\ Len(sl) = n /\ Len(sl[Len(sl)]) = Len(q)
             /\ LastPos(sl) = q[Len(q)].pos /\ Len(q) \in 1 .. Len(q)
  <2>1. Len(sl) = n /\ sl[n] = Positions(q)
    BY <1>1, <1>2, <1>3, <1>4, <1>6
  <2>2. sl # << >>
    BY <1>1, <2>1
  <2>3. Len(q) \in 1 .. Len(q)
    BY <1>2, <1>5, <1>6, EmptySeq
  <2> QED BY <1>5, <2>1, <2>2, <2>3 DEF LastPos
<1> QED BY <1>1, <1>2, <1>3, <1>4, <1>5, <1>6 DEF sl, q, n

(* Steps that change neither slices nor counters.                          *)
SameWindow(s, t) ==
  /\ SamePos(s, t) /\ SameClock(s, t) /\ Taken(t) = Taken(s) /\ t.open = s.open
  /\ t.chunk_insn_count + (IF t.has_pending THEN 1 ELSE 0)
       = s.chunk_insn_count + (IF s.has_pending THEN 1 ELSE 0)

(* ... keep Progress.                                                      *)
LEMMA ProgressSame ==
  ASSUME NEW s \in VcpuState, NEW t \in VcpuState, Layout(s), Layout(t),
         SameWindow(s, t), NEW h, Progress(s, h)
  PROVE  Progress(t, h) /\ Slices(t) = Slices(s) /\ Len(t.files) = Len(s.files)
<1>1. Sliced(s, Len(h)) /\ Len(s.files) > 0
  BY DEF Progress, Sliced
<1>2. /\ Slices(t) = Slices(s) /\ Len(t.files) = Len(s.files)
      /\ Len(Newest(t)) = Len(Newest(s))
      /\ Newest(t) = << >> <=> Newest(s) = << >>
      /\ Newest(s) # << >> =>
           Newest(t)[Len(Newest(t))].pos = Newest(s)[Len(Newest(s))].pos
  BY <1>1, SamePosSlices DEF SameWindow
<1>3. Sliced(t, Len(h))
  BY <1>1, SamePosSliced DEF SameWindow
<1>4. t.open = s.open /\ SameClock(s, t)
  BY DEF SameWindow
<1>5. s.open => Filling(t)
  BY <1>2, <1>4 DEF SameWindow, Progress, Filling, MoreWindows, SameClock
<1>6. ~s.open => Waiting(t, h)
  BY <1>2, <1>4 DEF Progress, Waiting, MoreWindows, SameClock
<1> QED BY <1>2, <1>3, <1>4, <1>5, <1>6 DEF Progress

(* The start of a callback.                                                *)
LEMMA SeenProgress ==
  ASSUME ~disk_full, NEW v, vs[v] \in VcpuState, Books(vs[v]), NEW h,
         Progress(vs[v], h)
  PROVE  LET t == finalize_pending_insn(Counted(v))
         IN  /\ Progress(t, h) /\ Slices(t) = Slices(vs[v])
             /\ SameClock(vs[v], t)
<1> DEFINE s == vs[v]
           k == Counted(v)
           x == s.stream_insns + 1
           t == finalize_pending_insn(k)
<1>1. k = [s EXCEPT !.stream_insns = x]
  BY DEF Counted
<1>2. k \in VcpuState
  BY CountedType
<1>3. s \in VcpuState /\ Books(s) /\ Progress(s, h)
  OBVIOUS
<1> HIDE DEF s, k, x
<1>4. /\ Untouched(s, k) /\ SameClock(s, k) /\ k.limit_reached = s.limit_reached
      /\ k.chunk_insn_count = s.chunk_insn_count
  BY <1>1, <1>3 DEF VcpuState, Untouched, SameClock
<1>5. SamePos(s, k) /\ Taken(k) = Taken(s)
  BY <1>4, UntouchedPos
<1>6. Books(k)
  BY <1>3, <1>4, UntouchedBooks
<1>7. /\ t \in VcpuState /\ Books(t) /\ Kept(k, t) /\ ~t.has_pending
      /\ t.insn_count = k.insn_count + (IF k.has_pending THEN 1 ELSE 0)
  BY <1>2, <1>6, FinalizeBooks
<1>8. t.chunk_insn_count = k.chunk_insn_count + (IF k.has_pending THEN 1 ELSE 0)
  BY <1>2, <1>7, FinalizeKeeps, FieldTypes
<1>9. SamePos(k, t) /\ SameClock(k, t)
  BY <1>2, <1>6, FinalizePos, FinalizeClock DEF Books
<1> HIDE DEF t
<1>10. t.insn_count \in Nat /\ t.chunk_insn_count \in Nat
  BY <1>7, FieldTypes
<1>11. Taken(t) = Taken(s) /\ Taken(s) = t.insn_count
  BY <1>5, <1>7, <1>10 DEF Taken
<1>12. SamePos(s, t)
  BY <1>5, <1>9, SamePosTwice
<1>13. SameWindow(s, t)
  BY <1>4, <1>7, <1>8, <1>9, <1>10, <1>11, <1>12
     DEF SameWindow, SameClock, Untouched, Kept
<1>14. Progress(t, h) /\ Slices(t) = Slices(s)
  BY <1>3, <1>7, <1>13, ProgressSame DEF Books
<1> QED BY <1>4, <1>9, <1>14 DEF t, s, k, SameClock

(* close_chunk.                                                            *)
LEMMA CloseProgress ==
  ASSUME ~disk_full, NEW s \in VcpuState, s.open, Books(s)
  PROVE  LET t == close_chunk(s) IN SamePos(s, t) /\ SameClock(s, t)
<1> DEFINE a == finalize_pending_insn(s)
           b == flush_buffer(a)
           c == Closed(b)
           l == Listed(c)
           t == close_chunk(s)
<1>1. t \in {c, l}
  BY DEF close_chunk
<1>2. /\ a \in VcpuState /\ Books(a) /\ ~a.has_pending /\ a.open
      /\ SamePos(s, a) /\ SameClock(s, a)
  BY FinalizeBooks, FinalizePos, FinalizeClock DEF Books, Kept
<1> HIDE DEF a, t
<1>3. /\ b \in VcpuState /\ Books(b) /\ ~b.has_pending /\ b.inbuf = << >>
      /\ b.open /\ SamePos(a, b) /\ SameClock(a, b)
  BY <1>2, FlushBooks, FlushPos, FlushClock DEF Books, Kept
<1> HIDE DEF b
<1>4. /\ c \in VcpuState /\ ~c.open /\ SamePos(b, c) /\ SameClock(b, c)
  BY <1>3, ClosedBooks, ClosedPos, ClosedClock
<1> HIDE DEF c
<1>5. SamePos(c, l) /\ SameClock(c, l)
  <2>1. l.files = c.files /\ l.open = c.open
    BY <1>4, ListedKeeps
  <2>2. SameClock(c, l)
    BY <1>4, ListedClock
  <2> HIDE DEF l
  <2>3. SamePos(c, l)
    BY <1>4, <2>1 DEF SamePos, Content
  <2> QED BY <2>2, <2>3
<1> HIDE DEF l
<1>6. SamePos(s, c) /\ SameClock(s, c)
  BY <1>2, <1>3, <1>4, SamePosTwice DEF SameClock
<1>7. SamePos(s, l) /\ SameClock(s, l)
  BY <1>5, <1>6, SamePosTwice DEF SameClock
<1> QED BY <1>1, <1>6, <1>7 DEF t

(* An instruction that finds its chunk open, with room and below limit=,   *)
(* continues the last slice or begins one that is due.                     *)
LEMMA StoreMoves ==
  ASSUME knobs \in Knobs, NEW s \in VcpuState, s.open, ~s.has_pending, Layout(s),
         NEW h \in Seq(BOOLEAN), Sliced(s, Len(h)), Filling(s),
         NEW user \in BOOLEAN,
         ~(knobs.insn_limit > 0 /\ s.insn_count >= knobs.insn_limit),
         Plan.len = 0 \/ s.chunk_insn_count < Plan.len,
         Newest(s) = << >> =>
           /\ Filled(Slices(s))
           /\ Slices(s) = << >> \/ (/\ Cardinality(Ticks(LastPos(Slices(s)), h)) >= Plan.gap
                                    /\ ~Plan.clock_user \/ user)
  PROVE  LET t == store_pending(s, Len(h) + 1, user)
         IN  /\ Progress(t, Append(h, user))
             /\ Moves(Slices(s), h, user, Slices(t), FALSE)
             /\ t.limit_reached = s.limit_reached
<1> DEFINE t == store_pending(s, Len(h) + 1, user)
           sl == Slices(s)
           n == Len(h)
<1>1. n \in Nat /\ Len(Append(h, user)) = n + 1
  BY LenProperties, AppendProperties
<1>2. /\ t \in VcpuState /\ Layout(t) /\ Sliced(t, n + 1)
      /\ t.open /\ t.has_pending /\ SameClock(s, t)
      /\ t.chunk_insn_count = s.chunk_insn_count
      /\ t.limit_reached = s.limit_reached
      /\ Len(t.files) = Len(s.files)
      /\ Newest(t) # << >> /\ Len(Newest(t)) = Len(Newest(s)) + 1
      /\ Newest(s) = << >> => Slices(t) = Append(sl, << n + 1 >>)
      /\ Newest(s) # << >> => Slices(t) = [sl EXCEPT ![Len(sl)] = Append(@, n + 1)]
  BY <1>1, StoreSliced
<1>3. /\ sl \in Seq(Seq(Nat)) /\ Len(s.files) \in Nat
      /\ Newest(s) \in Seq(Record) /\ Len(Newest(s)) \in Nat
      /\ Newest(s) = << >> => Len(sl) = Len(s.files) - 1
      /\ Newest(s) # << >> => sl # << >> /\ Len(sl[Len(sl)]) = Len(Newest(s))
  BY SlicesEnd DEF Sliced
<1>4. Len(Newest(s)) = s.chunk_insn_count /\ s.chunk_insn_count \in Nat
  BY <1>3, FieldTypes DEF Filling
<1> HIDE DEF t
<1>5. Progress(t, Append(h, user))
  <2>1. Filling(t)
    BY <1>2, <1>4 DEF Filling, MoreWindows, SameClock
  <2> QED BY <1>1, <1>2, <2>1 DEF Progress
<1> HIDE DEF sl
<1>6. ~(Plan.limit > 0 /\ Cardinality(KeptOf(sl)) >= Plan.limit)
  <2>1. Cardinality(KeptOf(sl)) = s.insn_count
    BY FieldTypes DEF Sliced, Taken, sl
  <2> QED BY <2>1, PlanIs
<1>7. CASE Newest(s) = << >>
  <2>1. ~(Plan.count > 0 /\ Len(sl) >= Plan.count)
    <3>1. CASE sampling
      <4>1. Len(sl) = s.sample_windows_done /\ MoreWindows(s)
        BY <1>3, <1>7, <3>1 DEF Filling
      <4>2. Plan.count = knobs.sample_count
        BY <3>1, PlanIs
      <4>3. s.sample_windows_done \in Nat /\ knobs.sample_count \in Nat
        BY KnobTypes, FieldTypes
      <4> QED BY <4>1, <4>2, <4>3 DEF MoreWindows
    <3>2. CASE ~sampling
      BY <3>2, PlanIs
    <3> QED BY <3>1, <3>2
  <2>2. ~Spent(sl)
    BY <1>6, <2>1 DEF Spent
  <2>3. MayOpen(sl, h, user)
    BY <1>7, <2>2 DEF MayOpen, sl
  <2>4. Moves(sl, h, user, Slices(t), FALSE)
    BY <1>2, <1>7, <2>3 DEF Moves, n
  <2> QED BY <1>2, <1>5, <2>4 DEF t, sl
<1>8. CASE Newest(s) # << >>
  <2>1. ~Filled(sl)
    BY <1>3, <1>4, <1>8 DEF Filled
  <2>2. MayExtend(sl)
    BY <1>6, <2>1 DEF MayExtend, Spent
  <2>3. Moves(sl, h, user, Slices(t), FALSE)
    BY <1>2, <1>8, <2>2 DEF Moves, n
  <2> QED BY <1>2, <1>5, <2>3 DEF t, sl
<1> QED BY <1>7, <1>8

(* At limit= the vCPU stops, and writes what it has.                       *)
LEMMA LimitMoves ==
  ASSUME ~disk_full, NEW s \in VcpuState, Books(s), ~s.has_pending, NEW h,
         Sliced(s, Len(h)), NEW user,
         knobs.insn_limit > 0 /\ s.insn_count >= knobs.insn_limit
  PROVE  LET t == flush_buffer([s EXCEPT !.limit_reached = TRUE])
         IN  /\ t.limit_reached = TRUE /\ Len(t.files) > 0
             /\ Moves(Slices(s), h, user, Slices(t), TRUE)
<1> DEFINE a == [s EXCEPT !.limit_reached = TRUE]
           t == flush_buffer(a)
           sl == Slices(s)
<1>1. /\ a \in VcpuState /\ Untouched(s, a) /\ a.limit_reached = TRUE
  <2>1. a \in VcpuState
    BY SetFlag
  <2> QED BY <2>1 DEF VcpuState, Untouched
<1> HIDE DEF a
<1>2. Books(a) /\ SamePos(s, a)
  BY <1>1, UntouchedBooks, UntouchedPos
<1>3. /\ t \in VcpuState /\ Books(t) /\ Kept(a, t) /\ SamePos(a, t)
  BY <1>1, <1>2, FlushBooks, FlushPos DEF Books
<1> HIDE DEF t
<1>4. SamePos(s, t)
  BY <1>2, <1>3, SamePosTwice
<1>5. Slices(t) = Slices(s) /\ Len(t.files) > 0
  BY <1>3, <1>4, SamePosSlices DEF Books, Sliced
<1>6. Cardinality(KeptOf(sl)) = s.insn_count
  BY FieldTypes DEF Sliced, Taken
<1> HIDE DEF sl
<1>7. Spent(sl)
  BY <1>6, PlanIs DEF Spent
<1>8. Moves(sl, h, user, Slices(t), TRUE)
  BY <1>5, <1>7 DEF Moves, MayOpen, MayExtend, sl
<1>9. t.limit_reached = TRUE
  BY <1>1, <1>3 DEF Kept
<1> QED BY <1>5, <1>8, <1>9 DEF t, a, sl

(* The slices of a vCPU in a gap.                                          *)
LEMMA WaitingSlices ==
  ASSUME knobs \in Knobs, sampling, NEW s \in VcpuState, Layout(s), NEW h \in Seq(BOOLEAN),
         ~s.open, Progress(s, h)
  PROVE  LET sl == Slices(s)
         IN  /\ Filled(sl) /\ sl # << >> /\ Newest(s) # << >>
             /\ LastPos(sl) = Newest(s)[Len(Newest(s))].pos
             /\ LastPos(sl) \in Nat /\ LastPos(sl) <= Len(h)
             /\ s.sample_phase_insns = Cardinality(Ticks(LastPos(sl), h))
             /\ Spent(sl) <=> (knobs.insn_limit > 0 /\ s.insn_count >= knobs.insn_limit)
<1> DEFINE sl == Slices(s)
           q == Newest(s)
<1>1. /\ Sliced(s, Len(h)) /\ Len(s.files) > 0
      /\ Waiting(s, h)
  BY DEF Progress, Sliced
<1>2. /\ q # << >> /\ Len(q) >= knobs.sample_len
      /\ s.sample_windows_done = Len(s.files) /\ MoreWindows(s)
      /\ s.sample_phase_insns = Cardinality(Ticks(q[Len(q)].pos, h))
  BY <1>1 DEF Waiting
<1>3. /\ sl \in Seq(Seq(Nat)) /\ Len(s.files) \in Nat
      /\ q \in Seq(Record) /\ Len(q) \in Nat
      /\ sl # << >> /\ Len(sl) = Len(s.files)
      /\ Len(sl[Len(sl)]) = Len(q)
      /\ LastPos(sl) = q[Len(q)].pos
      /\ Len(q) \in 1 .. Len(q)
  BY <1>1, <1>2, SlicesEnd
<1>4. Cardinality(KeptOf(sl)) = s.insn_count /\ KeptOf(sl) \subseteq 1 .. Len(h)
  BY <1>1, FieldTypes DEF Sliced, Taken, Layout
<1> HIDE DEF sl, q
<1>5. knobs.sample_len \in Nat /\ knobs.sample_len > 0 /\ knobs.sample_count \in Nat
  BY KnobTypes DEF sampling
<1>6. Filled(sl)
  BY <1>2, <1>3, <1>5, PlanIs DEF Filled
<1>7. LastPos(sl) \in Nat /\ LastPos(sl) <= Len(h)
  <2>1. Len(sl) \in DOMAIN sl
    BY <1>1, <1>3, LenProperties
  <2>2. sl[Len(sl)] \in Seq(Nat)
    BY <1>3, <2>1, LenProperties
  <2>3. Len(q) \in DOMAIN sl[Len(sl)]
    BY <1>3, <2>2, LenProperties
  <2>4. LastPos(sl) = sl[Len(sl)][Len(q)]
    BY <1>3 DEF LastPos
  <2>5. LastPos(sl) \in {sl[Len(sl)][j] : j \in DOMAIN sl[Len(sl)]}
    BY <2>3, <2>4
  <2>6. LastPos(sl) \in KeptOf(sl)
    BY <2>1, <2>5 DEF KeptOf
  <2> QED BY <1>4, <2>6, LenProperties
<1>8. ~(Plan.count > 0 /\ Len(sl) >= Plan.count)
  BY <1>2, <1>3, <1>5, PlanIs DEF MoreWindows
<1>9. Spent(sl) <=> (knobs.insn_limit > 0 /\ s.insn_count >= knobs.insn_limit)
  BY <1>4, <1>8, PlanIs DEF Spent
<1> QED BY <1>2, <1>3, <1>6, <1>7, <1>9 DEF sl, q

(* A gap goes on: its ticks are counted, and no slice is due.              *)
LEMMA TickMoves ==
  ASSUME knobs \in Knobs, sampling, NEW s \in VcpuState, Books(s), NEW h \in Seq(BOOLEAN),
         ~s.open, Progress(s, h), NEW user \in BOOLEAN,
         s.sample_phase_insns < knobs.sample_gap \/ ~starts_window(user)
  PROVE  LET t == tick_gap(s, user)
         IN  /\ Progress(t, Append(h, user))
             /\ Moves(Slices(s), h, user, Slices(t), FALSE)
             /\ t.limit_reached = s.limit_reached
             /\ ~starts_window(user) => t = s
<1> DEFINE sl == Slices(s)
           g == Append(h, user)
           x == s.sample_phase_insns + (IF ~knobs.clock_user \/ user THEN 1 ELSE 0)
           e == [s EXCEPT !.sample_phase_insns = x]
           t == tick_gap(s, user)
<1>1. s.sample_phase_insns \in Nat /\ x \in Nat
  BY FieldTypes
<1>2. [s EXCEPT !.sample_phase_insns = s.sample_phase_insns] = s
  BY DEF VcpuState
<1>3. t = e
  <2>1. CASE ~knobs.clock_user \/ user
    BY <2>1 DEF tick_gap
  <2>2. CASE ~(~knobs.clock_user \/ user)
    <3>1. x = s.sample_phase_insns
      BY <1>1, <2>2
    <3> HIDE DEF x
    <3> QED BY <1>2, <2>2, <3>1 DEF tick_gap
  <2> QED BY <2>1, <2>2
<1>4. e \in VcpuState
  <2> HIDE DEF x
  <2> QED BY <1>1, SetCounter
<1> HIDE DEF x, e
<1>5. /\ Untouched(s, e) /\ e.limit_reached = s.limit_reached
      /\ e.sample_windows_done = s.sample_windows_done
      /\ e.sample_phase_insns = x
  BY DEF VcpuState, Untouched, e
<1>6. /\ Layout(s) /\ Len(s.files) > 0
      /\ Sliced(s, Len(h)) /\ Waiting(s, h)
  BY DEF Books, Progress, Sliced
<1>7. Books(e) /\ SamePos(s, e) /\ Taken(e) = Taken(s) /\ ~e.open
  BY <1>5, UntouchedBooks, UntouchedPos DEF Untouched
<1>8. /\ Slices(e) = sl /\ Len(e.files) = Len(s.files)
      /\ Len(Newest(e)) = Len(Newest(s))
      /\ Newest(e) = << >> <=> Newest(s) = << >>
      /\ Newest(s) # << >> =>
           Newest(e)[Len(Newest(e))].pos = Newest(s)[Len(Newest(s))].pos
  BY <1>4, <1>6, <1>7, SamePosSlices DEF Books
<1>9. Sliced(e, Len(h))
  BY <1>4, <1>6, <1>7, SamePosSliced DEF Books
<1>10. Len(h) \in Nat /\ Len(g) = Len(h) + 1
  BY LenProperties, AppendProperties
<1>11. Sliced(e, Len(g))
  BY <1>9, <1>10 DEF Sliced
<1>12. /\ Filled(sl) /\ sl # << >> /\ Newest(s) # << >>
       /\ LastPos(sl) = Newest(s)[Len(Newest(s))].pos
       /\ LastPos(sl) \in Nat /\ LastPos(sl) <= Len(h)
       /\ s.sample_phase_insns = Cardinality(Ticks(LastPos(sl), h))
  BY <1>6, WaitingSlices
<1> HIDE DEF sl, g
<1>13. x = Cardinality(Ticks(LastPos(sl), g))
  BY <1>12, TickMore, PlanIs DEF x, g
<1>14. Waiting(e, g)
  BY <1>5, <1>6, <1>8, <1>12, <1>13 DEF Waiting, MoreWindows
<1>15. Progress(e, g)
  BY <1>7, <1>11, <1>14 DEF Progress
<1>16. ~MayExtend(sl)
  BY <1>12 DEF MayExtend
<1>17. ~MayOpen(sl, h, user)
  <2>1. knobs.sample_gap \in Nat
    BY KnobTypes
  <2>2. CASE s.sample_phase_insns < knobs.sample_gap
    <3>1. ~(Cardinality(Ticks(LastPos(sl), h)) >= Plan.gap)
      BY <1>1, <1>12, <2>1, <2>2, PlanIs
    <3> QED BY <1>12, <3>1 DEF MayOpen
  <2>3. CASE ~starts_window(user)
    <3>1. ~(~Plan.clock_user \/ user)
      BY <2>3, PlanIs DEF starts_window
    <3> QED BY <1>12, <3>1 DEF MayOpen
  <2> QED BY <2>2, <2>3
<1>18. Moves(sl, h, user, Slices(e), FALSE)
  BY <1>8, <1>16, <1>17 DEF Moves
<1>19. ~starts_window(user) => t = s
  BY DEF tick_gap, starts_window
<1> QED BY <1>3, <1>5, <1>15, <1>18, <1>19 DEF sl, g

(* The end of a full window, as far as the schedule is concerned.          *)
LEMMA EndProgress ==
  ASSUME ~disk_full, knobs \in Knobs, sampling, NEW s \in VcpuState, s.open,
         ~s.has_pending, Books(s), Accounted(s), NEW h, Sliced(s, Len(h)),
         Filling(s), window_full(s)
  PROVE  LET t == end_window(s)
             sl == Slices(s)
         IN  /\ t \in VcpuState /\ Layout(t) /\ ~t.open /\ SamePos(s, t)
             /\ Sliced(t, Len(h)) /\ Slices(t) = sl
             /\ t.insn_count = s.insn_count
             /\ t.sample_windows_done = Len(t.files) /\ t.sample_phase_insns = 0
             /\ t.sample_windows_done = s.sample_windows_done + 1
             /\ Filled(sl) /\ sl # << >> /\ Len(sl) = t.sample_windows_done
             /\ Newest(s) # << >> /\ Newest(t) # << >>
             /\ Len(Newest(t)) >= knobs.sample_len
             /\ Newest(t)[Len(Newest(t))].pos = Newest(s)[Len(Newest(s))].pos
<1> DEFINE c == close_chunk(s)
           d == s.sample_windows_done + 1
           t == end_window(s)
           sl == Slices(s)
<1>1. /\ c \in VcpuState /\ ~c.open /\ ~c.has_pending /\ Books(c)
      /\ c.insn_count = s.insn_count
      /\ SamePos(s, c) /\ SameClock(s, c)
  BY CloseBooks, CloseProgress, FieldTypes
<1>2. t = [c EXCEPT !.sample_windows_done = c.sample_windows_done + 1,
                    !.sample_phase_insns = 0]
  BY DEF end_window
<1>3. t \in VcpuState
  BY WindowTypes
<1> HIDE DEF c, t
<1>4. t = [c EXCEPT !.sample_windows_done = d, !.sample_phase_insns = 0]
  BY <1>1, <1>2 DEF SameClock
<1>5. s.sample_windows_done \in Nat /\ s.insn_count \in Nat /\ s.chunk_insn_count \in Nat
  BY FieldTypes
<1> HIDE DEF d
<1>6. /\ Untouched(c, t) /\ t.limit_reached = c.limit_reached
      /\ t.sample_windows_done = d /\ t.sample_phase_insns = 0
  BY <1>1, <1>4 DEF VcpuState, Untouched
<1>7. Books(t) /\ SamePos(c, t)
  BY <1>1, <1>6, UntouchedBooks, UntouchedPos
<1>8. ~t.open /\ ~t.has_pending /\ t.insn_count = s.insn_count /\ Layout(t) /\ Layout(s)
  BY <1>1, <1>6, <1>7 DEF Untouched, Books
<1>9. SamePos(s, t)
  BY <1>1, <1>7, SamePosTwice
<1>10. Taken(t) = Taken(s)
  BY <1>8 DEF Taken
<1>11. Len(s.files) > 0
  BY DEF Sliced
<1>12. Sliced(t, Len(h))
  BY <1>3, <1>8, <1>9, <1>10, SamePosSliced
<1>13. /\ Slices(t) = sl /\ Len(t.files) = Len(s.files)
       /\ Len(Newest(t)) = Len(Newest(s))
       /\ Newest(t) = << >> <=> Newest(s) = << >>
       /\ Newest(s) # << >> =>
            Newest(t)[Len(Newest(t))].pos = Newest(s)[Len(Newest(s))].pos
  BY <1>3, <1>8, <1>9, <1>11, SamePosSlices
<1>14. /\ sl \in Seq(Seq(Nat)) /\ Len(s.files) \in Nat
       /\ Newest(s) \in Seq(Record) /\ Len(Newest(s)) \in Nat
       /\ Newest(s) # << >> =>
            /\ sl # << >> /\ Len(sl) = Len(s.files)
            /\ Len(sl[Len(sl)]) = Len(Newest(s))
  BY <1>8, <1>11, SlicesEnd
<1> HIDE DEF sl
<1>15. knobs.sample_len \in Nat /\ knobs.sample_len > 0
  BY KnobTypes DEF sampling
<1>16. Len(Newest(s)) >= knobs.sample_len /\ s.sample_windows_done = Len(s.files) - 1
  BY <1>5, <1>14 DEF Filling, window_full
<1>17. Newest(s) # << >>
  BY <1>14, <1>15, <1>16, EmptySeq
<1>18. Filled(sl)
  BY <1>14, <1>15, <1>16, <1>17, PlanIs DEF Filled
<1>19. d = s.sample_windows_done + 1 /\ d = Len(s.files)
  BY <1>5, <1>14, <1>16 DEF d
<1> QED BY <1>3, <1>6, <1>8, <1>9, <1>12, <1>13, <1>14, <1>16, <1>17, <1>18, <1>19
        DEF t, sl

(* A gap begins after the last instruction that was executed.              *)
LEMMA GapProgress ==
  ASSUME ~disk_full, knobs \in Knobs, sampling, NEW s \in VcpuState, s.open,
         ~s.has_pending, Books(s), Accounted(s), NEW h \in Seq(BOOLEAN),
         Sliced(s, Len(h)), Filling(s), window_full(s), ~last_window(s),
         Captured(s) # << >> => Captured(s)[Len(Captured(s))].pos = Len(h)
  PROVE  LET t == enter_gap(s)
         IN  Progress(t, h) /\ Slices(t) = Slices(s) /\ t.sample_phase_insns = 0
<1> DEFINE w == end_window(s)
           t == enter_gap(s)
<1>1. /\ w \in VcpuState /\ Layout(w) /\ ~w.open
      /\ Sliced(w, Len(h)) /\ Slices(w) = Slices(s)
      /\ w.sample_windows_done = Len(w.files) /\ w.sample_phase_insns = 0
      /\ w.sample_windows_done = s.sample_windows_done + 1
      /\ Newest(s) # << >> /\ Newest(w) # << >>
      /\ Len(Newest(w)) >= knobs.sample_len
      /\ Newest(w)[Len(Newest(w))].pos = Newest(s)[Len(Newest(s))].pos
  BY EndProgress
<1>2. t = [w EXCEPT !.sample_skipping = TRUE]
  BY DEF enter_gap
<1>3. t \in VcpuState
  BY WindowTypes
<1> HIDE DEF w, t
<1>4. /\ Untouched(w, t) /\ t.limit_reached = w.limit_reached /\ SameClock(w, t)
  BY <1>1, <1>2 DEF VcpuState, Untouched, SameClock
<1>5. SamePos(w, t) /\ Taken(t) = Taken(w) /\ ~t.open
  BY <1>1, <1>4, UntouchedPos DEF Untouched
<1>6. Layout(t)
  BY <1>1, <1>4 DEF Layout, Untouched, CurrentChunk
<1>7. Newest(s)[Len(Newest(s))].pos = Len(h)
  BY <1>1 DEF Newest, Content
<1>8. MoreWindows(w)
  <2>1. s.sample_windows_done \in Nat /\ knobs.sample_count \in Nat
    BY FieldTypes, KnobTypes
  <2> QED BY <1>1, <2>1 DEF last_window, MoreWindows
<1>9. Waiting(w, h)
  BY <1>1, <1>7, <1>8, NoTicks DEF Waiting
<1>10. Progress(w, h)
  BY <1>1, <1>9 DEF Progress
<1>11. w.has_pending = t.has_pending /\ w.chunk_insn_count = t.chunk_insn_count
  BY <1>1, <1>2 DEF VcpuState
<1>12. SameWindow(w, t)
  BY <1>1, <1>4, <1>5, <1>11 DEF SameWindow, Untouched
<1>13. Progress(t, h) /\ Slices(t) = Slices(w)
  BY <1>1, <1>3, <1>6, <1>10, <1>12, ProgressSame
<1> QED BY <1>1, <1>4, <1>13 DEF t, SameClock

(* After the last window the vCPU stops.                                   *)
LEMMA FinishMoves ==
  ASSUME ~disk_full, knobs \in Knobs, sampling, NEW s \in VcpuState, s.open,
         ~s.has_pending, Books(s), Accounted(s), NEW h, Sliced(s, Len(h)),
         Filling(s), window_full(s), last_window(s), NEW user
  PROVE  LET t == finish_sampling(s)
         IN  /\ t.limit_reached = TRUE /\ Len(t.files) > 0
             /\ Moves(Slices(s), h, user, Slices(t), TRUE)
<1> DEFINE w == end_window(s)
           t == finish_sampling(s)
           sl == Slices(s)
<1>1. /\ w \in VcpuState /\ Layout(w) /\ ~w.open
      /\ Sliced(w, Len(h)) /\ Slices(w) = sl
      /\ w.sample_windows_done = s.sample_windows_done + 1
      /\ Filled(sl) /\ Len(sl) = w.sample_windows_done
  BY EndProgress
<1>2. t = [w EXCEPT !.sample_finished = TRUE, !.limit_reached = TRUE,
                    !.chunk_insn_count = 0]
  BY DEF finish_sampling
<1>3. t \in VcpuState
  BY WindowTypes
<1> HIDE DEF w, t
<1>4. Untouched(w, t) /\ t.limit_reached = TRUE
  BY <1>1, <1>2 DEF VcpuState, Untouched
<1>5. SamePos(w, t)
  BY <1>4, UntouchedPos
<1>6. Layout(t)
  BY <1>1, <1>4 DEF Layout, Untouched, CurrentChunk
<1>7. Slices(t) = sl /\ Len(t.files) > 0
  BY <1>1, <1>3, <1>5, <1>6, SamePosSlices DEF Sliced
<1> HIDE DEF sl
<1>8. Plan.count > 0 /\ Len(sl) >= Plan.count
  BY <1>1, PlanIs DEF last_window
<1>9. Spent(sl)
  BY <1>1, <1>8 DEF Spent
<1>10. Moves(sl, h, user, Slices(t), TRUE)
  BY <1>7, <1>9 DEF Moves, MayOpen, MayExtend
<1> QED BY <1>4, <1>7, <1>10 DEF t, sl

(* What a callback has to establish for the schedule.                      *)
Follows(s, t, h, user) ==
  /\ Moves(Slices(s), h, user, Slices(t), t.limit_reached)
  /\ Len(t.files) > 0
  /\ ~t.limit_reached => Progress(t, Append(h, user))

(* An instruction that is captured: below, at and above the limits.        *)
LEMMA CaptureMoves ==
  ASSUME ~disk_full, knobs \in Knobs, NEW s \in VcpuState, Books(s),
         ~sampling => Accounted(s), s.open, ~s.has_pending, ~s.limit_reached,
         NEW h \in Seq(BOOLEAN), Sliced(s, Len(h)), Filling(s),
         NEW user \in BOOLEAN, NEW ok \in BOOLEAN,
         sampling => ~window_full(s),
         Newest(s) = << >> =>
           /\ Filled(Slices(s))
           /\ Slices(s) = << >> \/ (/\ sampling
                                    /\ Cardinality(Ticks(LastPos(Slices(s)), h)) >= Plan.gap
                                    /\ ~Plan.clock_user \/ user)
  PROVE  Follows(s, capture(s, Len(h) + 1, user, ok), h, user)
<1> DEFINE t == capture(s, Len(h) + 1, user, ok)
           sl == Slices(s)
<1>1. Layout(s) /\ Len(h) \in Nat /\ s.insn_count \in Nat /\ s.chunk_insn_count \in Nat
  BY FieldTypes, LenProperties DEF Books
<1>2. CASE knobs.insn_limit > 0 /\ s.insn_count >= knobs.insn_limit
  <2> DEFINE b == flush_buffer([s EXCEPT !.limit_reached = TRUE])
  <2>1. t = b
    BY <1>2 DEF capture
  <2>2. /\ b.limit_reached = TRUE /\ Len(b.files) > 0
        /\ Moves(sl, h, user, Slices(b), TRUE)
    BY <1>2, LimitMoves
  <2> HIDE DEF b, t, sl
  <2> QED BY <2>1, <2>2 DEF Follows, t, sl
<1>3. CASE /\ ~(knobs.insn_limit > 0 /\ s.insn_count >= knobs.insn_limit)
           /\ knobs.rotate_interval > 0 /\ s.chunk_insn_count >= knobs.rotate_interval
  <2> DEFINE c == close_chunk(s)
             d == next_chunk(c, ok)
             e == store_pending(d, Len(h) + 1, user)
  <2>1. t = IF ok THEN e ELSE d
    BY <1>3 DEF capture
  <2>2. ~sampling /\ Plan.len = knobs.rotate_interval /\ knobs.rotate_interval \in Nat
    BY <1>3, PlanIs, KnobTypes DEF sampling
  <2>3. /\ c \in VcpuState /\ ~c.open /\ ~c.has_pending /\ Books(c)
        /\ c.limit_reached = s.limit_reached
        /\ c.insn_count = s.insn_count
        /\ SamePos(s, c)
    BY <2>2, CloseBooks, CloseProgress, FieldTypes
  <2> HIDE DEF c, t
  <2>4. Taken(c) = Taken(s)
    BY <2>3 DEF Taken
  <2>5. /\ Slices(c) = sl /\ (Newest(c) = << >> <=> Newest(s) = << >>)
        /\ Sliced(c, Len(h))
    BY <1>1, <2>3, <2>4, SamePosSlices, SamePosSliced DEF Sliced, Books
  <2>6. /\ sl \in Seq(Seq(Nat)) /\ Len(s.files) \in Nat
        /\ Newest(s) \in Seq(Record) /\ Len(Newest(s)) \in Nat
        /\ Newest(s) # << >> =>
             /\ sl # << >> /\ Len(sl) = Len(s.files)
             /\ Len(sl[Len(sl)]) = Len(Newest(s))
             /\ LastPos(sl) = Newest(s)[Len(Newest(s))].pos
             /\ Len(Newest(s)) \in 1 .. Len(Newest(s))
    BY <1>1, SlicesEnd DEF Sliced
  <2>7. Len(Newest(s)) = s.chunk_insn_count
    BY <1>1 DEF Filling
  <2> HIDE DEF sl
  <2>8. Newest(s) # << >>
    BY <1>3, <2>2, <2>6, <2>7, EmptySeq
  <2>9. Filled(sl)
    BY <1>3, <2>2, <2>6, <2>7, <2>8 DEF Filled
  <2>10. Cardinality(Ticks(LastPos(sl), h)) >= Plan.gap /\ ~Plan.clock_user
    <3>1. Plan.gap = 0 /\ ~Plan.clock_user
      BY <2>2, PlanIs
    <3>2. Ticks(LastPos(sl), h) \subseteq LastPos(sl) + 1 .. Len(h)
      BY DEF Ticks
    <3>3. LastPos(sl) \in Nat
      <4>1. Newest(s)[Len(Newest(s))] \in Record
        BY <2>6, <2>8, LenProperties
      <4> QED BY <2>6, <2>8, <4>1 DEF Record
    <3>4. IsFiniteSet(LastPos(sl) + 1 .. Len(h))
      <4>1. LastPos(sl) + 1 \in Int /\ Len(h) \in Int
        BY <1>1, <3>3
      <4> QED BY <4>1, FS_Interval
    <3>5. Cardinality(Ticks(LastPos(sl), h)) \in Nat
      BY <3>2, <3>4, FS_Subset, FS_CardinalityType
    <3> QED BY <3>1, <3>5
  <2>11. ~Spent(sl)
    <3>1. Cardinality(KeptOf(sl)) = s.insn_count
      BY <1>1 DEF Sliced, Taken, sl
    <3>2. Plan.count = 0
      BY <2>2, PlanIs
    <3> QED BY <1>3, <3>1, <3>2, PlanIs DEF Spent
  <2>12. MayOpen(sl, h, user)
    BY <2>9, <2>10, <2>11 DEF MayOpen
  <2>13. /\ d \in VcpuState /\ Books(d) /\ ~d.has_pending
         /\ d.open <=> ok
         /\ d.limit_reached <=> ~ok
         /\ d.chunk_insn_count = 0 /\ d.insn_count = c.insn_count
    BY <2>3, NextChunkBooks
  <2>14. /\ Sliced(d, Len(h)) /\ Slices(d) = sl
         /\ ok => Newest(d) = << >> /\ Len(d.files) = Len(c.files) + 1
    BY <2>3, <2>5, <2>8, NextSliced
  <2> HIDE DEF d
  <2>15. CASE ok
    <3>1. Filling(d)
      <4>1. Len(Newest(d)) = 0
        BY <2>14, <2>15
      <4> QED BY <2>2, <2>13, <4>1 DEF Filling
    <3>2. /\ ~(knobs.insn_limit > 0 /\ d.insn_count >= knobs.insn_limit)
          /\ d.chunk_insn_count < Plan.len
      BY <1>3, <2>2, <2>3, <2>13
    <3>3. /\ Filled(Slices(d))
          /\ Cardinality(Ticks(LastPos(Slices(d)), h)) >= Plan.gap
          /\ ~Plan.clock_user
      BY <2>9, <2>10, <2>14
    <3>4. /\ Progress(e, Append(h, user))
          /\ Moves(Slices(d), h, user, Slices(e), FALSE)
          /\ e.limit_reached = d.limit_reached
      BY <2>13, <2>14, <2>15, <3>1, <3>2, <3>3, StoreMoves DEF Books
    <3>5. t = e
      BY <2>1, <2>15
    <3> HIDE DEF e
    <3>6. t.limit_reached = FALSE
      BY <2>13, <2>15, <3>4, <3>5, FieldTypes
    <3> QED BY <2>14, <3>4, <3>5, <3>6 DEF Follows, Progress, Sliced, t, sl
  <2>16. CASE ~ok
    <3>1. t = d /\ t.limit_reached = TRUE
      BY <2>1, <2>13, <2>16, FieldTypes
    <3>2. Moves(sl, h, user, Slices(t), TRUE)
      BY <2>12, <2>14, <3>1 DEF Moves
    <3> QED BY <2>14, <3>1, <3>2 DEF Follows, Sliced, t, sl
  <2> QED BY <2>15, <2>16
<1>4. CASE /\ ~(knobs.insn_limit > 0 /\ s.insn_count >= knobs.insn_limit)
           /\ ~(knobs.rotate_interval > 0 /\ s.chunk_insn_count >= knobs.rotate_interval)
  <2> DEFINE e == store_pending(s, Len(h) + 1, user)
  <2>1. t = e
    BY <1>4 DEF capture
  <2>2. Plan.len = 0 \/ s.chunk_insn_count < Plan.len
    <3>1. CASE sampling
      <4>1. knobs.sample_len \in Nat
        BY KnobTypes
      <4> QED BY <1>1, <3>1, <4>1, PlanIs DEF window_full
    <3>2. CASE ~sampling
      <4>1. knobs.rotate_interval \in Nat
        BY KnobTypes
      <4> QED BY <1>1, <1>4, <3>2, <4>1, PlanIs
    <3> QED BY <3>1, <3>2
  <2>3. /\ Progress(e, Append(h, user))
        /\ Moves(sl, h, user, Slices(e), FALSE)
        /\ e.limit_reached = s.limit_reached
    BY <1>1, <1>4, <2>2, StoreMoves
  <2> HIDE DEF e, t, sl
  <2>4. t.limit_reached = FALSE
    BY <2>1, <2>3, FieldTypes
  <2> QED BY <2>1, <2>3, <2>4 DEF Follows, Progress, Sliced, t, sl
<1> QED BY <1>2, <1>3, <1>4

(* The end of a gap: the window that is due opens, or cannot.              *)
LEMMA BeginMoves ==
  ASSUME ~disk_full, knobs \in Knobs, sampling, NEW s \in VcpuState, Books(s),
         ~s.open, ~s.limit_reached, NEW h \in Seq(BOOLEAN), Progress(s, h),
         NEW user \in BOOLEAN, NEW ok \in BOOLEAN,
         s.sample_phase_insns >= knobs.sample_gap, starts_window(user)
  PROVE  Follows(s, begin_window(s, Len(h) + 1, user, ok), h, user)
<1> DEFINE a == [s EXCEPT !.sample_skipping = FALSE, !.sample_phase_insns = 0]
           d == next_chunk(a, ok)
           f == finalize_pending_insn(d)
           t == begin_window(s, Len(h) + 1, user, ok)
           sl == Slices(s)
<1>1. t = IF ok THEN capture(f, Len(h) + 1, user, ok) ELSE d
  BY DEF begin_window
<1>2. /\ a \in VcpuState /\ Untouched(s, a)
      /\ a.limit_reached = s.limit_reached
      /\ a.sample_windows_done = s.sample_windows_done
  <2>1. a \in VcpuState
    BY DEF VcpuState
  <2> QED BY <2>1 DEF VcpuState, Untouched
<1> HIDE DEF a, t
<1>3. Books(a) /\ ~a.open /\ ~a.limit_reached /\ SamePos(s, a) /\ Taken(a) = Taken(s)
  BY <1>2, UntouchedBooks, UntouchedPos DEF Untouched
<1>4. /\ Layout(s) /\ Layout(a) /\ Sliced(s, Len(h)) /\ Len(s.files) > 0
      /\ Waiting(s, h)
  BY <1>3 DEF Books, Progress, Sliced
<1>5. /\ Filled(sl) /\ sl # << >> /\ Newest(s) # << >>
      /\ s.sample_phase_insns = Cardinality(Ticks(LastPos(sl), h))
      /\ Spent(sl) <=> (knobs.insn_limit > 0 /\ s.insn_count >= knobs.insn_limit)
  BY <1>4, WaitingSlices
<1>6. /\ Slices(a) = sl /\ Len(a.files) = Len(s.files)
      /\ Newest(a) # << >> /\ Sliced(a, Len(h))
  BY <1>2, <1>3, <1>4, <1>5, SamePosSlices, SamePosSliced
<1>7. /\ d \in VcpuState /\ Books(d)
      /\ d.open <=> ok
      /\ d.limit_reached <=> ~ok
      /\ ~d.has_pending /\ d.chunk_insn_count = 0
      /\ d.insn_count = a.insn_count
      /\ SameClock(a, d)
  BY <1>2, <1>3, NextChunkBooks, NextClock
<1>8. /\ Sliced(d, Len(h)) /\ Slices(d) = sl
      /\ ok => Newest(d) = << >> /\ Len(d.files) = Len(a.files) + 1
  BY <1>2, <1>3, <1>6, NextSliced
<1>9. f = d
  BY <1>7, FinalizeKeeps
<1> HIDE DEF d, f, sl
<1>10. Cardinality(Ticks(LastPos(sl), h)) >= Plan.gap /\ (~Plan.clock_user \/ user)
  BY <1>5, PlanIs DEF starts_window
<1>11. CASE ok
  <2> DEFINE e == capture(d, Len(h) + 1, user, ok)
  <2>1. Filling(d)
    <3>1. Len(Newest(d)) = 0 /\ Len(s.files) \in Nat
      BY <1>4, <1>8, <1>11, SlicesAre
    <3>2. d.sample_windows_done = Len(d.files) - 1 /\ MoreWindows(d)
      BY <1>2, <1>4, <1>6, <1>7, <1>8, <1>11, <3>1 DEF Waiting, MoreWindows, SameClock
    <3> QED BY <1>7, <3>1, <3>2 DEF Filling
  <2>2. ~window_full(d)
    BY <1>7, KnobTypes DEF window_full, sampling
  <2>3. Follows(d, e, h, user)
    BY <1>5, <1>7, <1>8, <1>10, <1>11, <2>1, <2>2, CaptureMoves
  <2>4. t = e
    BY <1>1, <1>9, <1>11
  <2> HIDE DEF e
  <2> QED BY <1>8, <2>3, <2>4 DEF Follows, t, sl
<1>12. CASE ~ok
  <2>1. t = d /\ t.limit_reached = TRUE
    BY <1>1, <1>7, <1>12, FieldTypes
  <2>2. Moves(sl, h, user, Slices(t), TRUE)
    <3>1. CASE Spent(sl)
      BY <1>8, <2>1, <3>1 DEF Moves, MayOpen, MayExtend
    <3>2. CASE ~Spent(sl)
      <4>1. MayOpen(sl, h, user)
        BY <1>5, <1>10, <3>2 DEF MayOpen
      <4> QED BY <1>8, <2>1, <4>1 DEF Moves
    <3> QED BY <3>1, <3>2
  <2> QED BY <1>8, <2>1, <2>2 DEF Follows, Sliced, t, sl
<1> QED BY <1>11, <1>12

(* Every path through insn_exec_cb below the trigger is a step of the      *)
(* schedule.                                                               *)
LEMMA InsnMoves ==
  ASSUME ~disk_full, TypeOK, RecorderInv, NEW v \in VCPUS, NEW user \in BOOLEAN,
         NEW ok \in BOOLEAN, Going(vs[v], Len(guest[v].hist)),
         Progress(vs[v], guest[v].hist),
         \/ SkipInsn(v, user) \/ AwaitUserInsn(v, user)
         \/ BeginWindowInsn(v, user, ok) \/ CaptureInsn(v, user, ok)
         \/ EndWindowInsn(v, user, ok)
  PROVE  \E t : Update(v, t) /\ Follows(vs[v], t, guest[v].hist, user)
<1> DEFINE h == guest[v].hist
           c == finalize_pending_insn(Counted(v))
           g == enter_gap(c)
<1>1. run = "running" /\ ~vs[v].limit_reached /\ knobs \in Knobs
  BY DEF SkipInsn, AwaitUserInsn, BeginWindowInsn, CaptureInsn, EndWindowInsn,
         Seen, Execute, TypeOK
<1>2. vs[v] \in VcpuState /\ h \in Seq(BOOLEAN) /\ Len(h) \in Nat
  BY LenProperties DEF TypeOK
<1>3. /\ Books(vs[v]) /\ Front(vs[v], Len(h), Len(h))
      /\ vs[v].sample_skipping => sampling
      /\ ~vs[v].open => vs[v].sample_skipping
      /\ vs[v].sample_skipping => ~vs[v].open
      /\ Progress(vs[v], h)
  BY <1>1 DEF Going, Recording
<1>4. Sound(vs[v])
  BY RecorderInvIs
<1> HIDE DEF h
<1>5. /\ c \in VcpuState /\ Books(c)
      /\ ~c.has_pending /\ c.open = vs[v].open
      /\ ~c.limit_reached
      /\ c.sample_skipping = vs[v].sample_skipping
      /\ Front(c, Len(h), Len(h) + 1)
      /\ Accounted(c)
  BY <1>1, <1>2, <1>3, <1>4, SeenBooks
<1>6. Progress(c, h) /\ Slices(c) = Slices(vs[v]) /\ SameClock(vs[v], c)
  BY <1>2, <1>3, SeenProgress
<1> HIDE DEF c
<1>7. Layout(c) /\ Sliced(c, Len(h)) /\ c.sample_phase_insns = vs[v].sample_phase_insns
  BY <1>5, <1>6 DEF Books, Progress, SameClock
<1> SUFFICES \E t : Update(v, t) /\ Follows(c, t, h, user)
  BY <1>6 DEF h, Follows
<1>8. ASSUME NEW s, NEW t, Progress(t, Append(h, user)), ~t.limit_reached,
             t.limit_reached \in BOOLEAN, Slices(s) = Slices(c),
             Moves(Slices(s), h, user, Slices(t), FALSE)
      PROVE  Follows(c, t, h, user)
  <2>1. t.limit_reached = FALSE
    BY <1>8
  <2> QED BY <1>8, <2>1 DEF Follows, Progress, Sliced
<1>9. CASE SkipInsn(v, user) \/ AwaitUserInsn(v, user)
  <2> DEFINE t == tick_gap(c, user)
  <2>1. /\ sampling /\ vs[v].sample_skipping
        /\ Update(v, t) \/ (Update(v, c) /\ ~starts_window(user))
        /\ c.sample_phase_insns < knobs.sample_gap \/ ~starts_window(user)
    BY <1>7, <1>9 DEF SkipInsn, AwaitUserInsn, InGap, c
  <2>2. /\ Progress(t, Append(h, user))
        /\ Moves(Slices(c), h, user, Slices(t), FALSE)
        /\ t.limit_reached = c.limit_reached
        /\ ~starts_window(user) => t = c
    BY <1>1, <1>2, <1>3, <1>5, <1>6, <2>1, TickMoves
  <2> HIDE DEF t
  <2>3. Update(v, t)
    BY <2>1, <2>2
  <2>4. t.limit_reached \in BOOLEAN
    BY <1>5, <2>2, FieldTypes
  <2>5. Follows(c, t, h, user)
    BY <1>5, <1>8, <2>2, <2>4
  <2> QED BY <2>3, <2>5
<1>10. CASE BeginWindowInsn(v, user, ok)
  <2>1. /\ Update(v, begin_window(c, Len(h) + 1, user, ok))
        /\ sampling /\ vs[v].sample_skipping
        /\ c.sample_phase_insns >= knobs.sample_gap /\ starts_window(user)
    BY <1>7, <1>10 DEF BeginWindowInsn, InGap, c, h
  <2>2. Follows(c, begin_window(c, Len(h) + 1, user, ok), h, user)
    BY <1>1, <1>2, <1>3, <1>5, <1>6, <2>1, BeginMoves
  <2> QED BY <2>1, <2>2
<1>11. ASSUME InWindow(v)
       PROVE  c.open /\ Filling(c) /\ (Newest(c) = << >> => Len(c.files) = 1)
  BY <1>3, <1>5, <1>6, <1>11 DEF InWindow, Progress
<1>12. CASE CaptureInsn(v, user, ok)
  <2>1. /\ Update(v, capture(c, Len(h) + 1, user, ok)) /\ InWindow(v)
        /\ sampling => ~window_full(c)
    BY <1>12 DEF CaptureInsn, c, h
  <2>2. ASSUME Newest(c) = << >> PROVE Slices(c) = << >> /\ Filled(Slices(c))
    <3>1. Slices(c) \in Seq(Seq(Nat)) /\ Len(Slices(c)) = Len(c.files) - 1
      BY <1>5, <1>7, <2>2, SlicesEnd DEF Sliced
    <3>2. Len(Slices(c)) = 0
      BY <1>11, <2>1, <2>2, <3>1
    <3>3. Slices(c) = << >>
      BY <3>1, <3>2, EmptySeq
    <3> QED BY <3>3 DEF Filled
  <2>3. Follows(c, capture(c, Len(h) + 1, user, ok), h, user)
    BY <1>1, <1>2, <1>5, <1>7, <1>11, <2>1, <2>2, CaptureMoves
  <2> QED BY <2>1, <2>3
<1>13. CASE EndWindowInsn(v, user, ok)
  <2>1. /\ InWindow(v) /\ sampling /\ window_full(c)
        /\ \/ last_window(c) /\ Update(v, finish_sampling(c))
           \/ /\ ~last_window(c) /\ knobs.sample_gap > 0
              /\ Update(v, tick_gap(g, user))
           \/ /\ ~last_window(c) /\ knobs.sample_gap = 0 /\ ~starts_window(user)
              /\ Update(v, g)
           \/ /\ ~last_window(c) /\ knobs.sample_gap = 0 /\ starts_window(user)
              /\ Update(v, begin_window(g, Len(h) + 1, user, ok))
    BY <1>13 DEF EndWindowInsn, c, g, h
  <2>2. c.open /\ Filling(c)
    BY <1>11, <2>1
  <2>3. CASE last_window(c) /\ Update(v, finish_sampling(c))
    <3> DEFINE t == finish_sampling(c)
    <3>1. /\ t.limit_reached = TRUE /\ Len(t.files) > 0
          /\ Moves(Slices(c), h, user, Slices(t), TRUE)
      BY <1>1, <1>5, <1>7, <2>1, <2>2, <2>3, FinishMoves
    <3>2. Follows(c, t, h, user)
      BY <3>1 DEF Follows
    <3> QED BY <2>3, <3>2
  <2>4. CASE ~last_window(c)
    <3>1. Captured(c) # << >> => Captured(c)[Len(Captured(c))].pos = Len(h)
      BY <1>5, <2>2 DEF Front
    <3>2. Progress(g, h) /\ Slices(g) = Slices(c) /\ g.sample_phase_insns = 0
      BY <1>1, <1>2, <1>5, <1>7, <2>1, <2>2, <2>4, <3>1, GapProgress
    <3>3. /\ g \in VcpuState /\ ~g.open /\ Books(g)
          /\ g.limit_reached = c.limit_reached
      BY <1>5, <2>2, EnterGapBooks
    <3> HIDE DEF g
    <3>4. CASE knobs.sample_gap > 0 \/ ~starts_window(user)
      <4> DEFINE t == tick_gap(g, user)
      <4>1. Update(v, t) \/ (Update(v, g) /\ ~starts_window(user))
        BY <2>1, <2>4, <3>4
      <4>2. /\ Progress(t, Append(h, user))
            /\ Moves(Slices(g), h, user, Slices(t), FALSE)
            /\ t.limit_reached = g.limit_reached
            /\ ~starts_window(user) => t = g
        <5>1. g.sample_phase_insns < knobs.sample_gap \/ ~starts_window(user)
          BY <3>2, <3>4
        <5> QED BY <1>1, <1>2, <2>1, <3>2, <3>3, <5>1, TickMoves
      <4> HIDE DEF t
      <4>3. Update(v, t)
        BY <4>1, <4>2
      <4>4. t.limit_reached \in BOOLEAN
        BY <3>3, <4>2, FieldTypes
      <4>5. Follows(c, t, h, user)
        BY <1>5, <1>8, <3>2, <3>3, <4>2, <4>4
      <4> QED BY <4>3, <4>5
    <3>5. CASE ~(knobs.sample_gap > 0) /\ starts_window(user)
      <4> DEFINE t == begin_window(g, Len(h) + 1, user, ok)
      <4>1. Update(v, t)
        BY <2>1, <2>4, <3>5
      <4>2. g.sample_phase_insns >= knobs.sample_gap
        <5>1. knobs.sample_gap \in Nat
          BY <1>1, KnobTypes
        <5> QED BY <3>2, <3>5, <5>1
      <4>3. Follows(g, t, h, user)
        BY <1>1, <1>2, <1>5, <2>1, <3>2, <3>3, <3>5, <4>2, BeginMoves
      <4>4. Follows(c, t, h, user)
        BY <3>2, <4>3 DEF Follows
      <4> QED BY <4>1, <4>4
    <3> QED BY <3>4, <3>5
  <2> QED BY <2>1, <2>3, <2>4
<1> QED BY <1>9, <1>10, <1>12, <1>13

(* The size of a set is the same in the schedule.                          *)
LEMMA SameCardinality ==
  ASSUME NEW v, NEW S PROVE Schedule(v)!Cardinality(S) = Cardinality(S)
BY DEF Schedule!Cardinality, Cardinality

(* The schedule's own predicates are those of the slices.                  *)
LEMMA ScheduleGuards ==
  ASSUME NEW v, NEW user
  PROVE  LET sl == Slices(vs[v])
             h == guest[v].hist
         IN  /\ Schedule(v)!InSlice <=> ~Filled(sl)
             /\ Schedule(v)!Exhausted <=> Spent(sl)
             /\ Schedule(v)!Opens(user) <=> MayOpen(sl, h, user)
             /\ Schedule(v)!Extends <=> MayExtend(sl)
<1> DEFINE sl == Slices(vs[v])
           h == guest[v].hist
<1>1. Schedule(v)!InSlice <=> ~Filled(sl)
  BY DEF Schedule!InSlice, Schedule!Current, Filled
<1>2. Schedule(v)!Kept = KeptOf(sl)
  BY DEF Schedule!Kept, KeptOf
<1>3. Schedule(v)!Exhausted <=> Spent(sl)
  BY <1>1, <1>2, SameCardinality DEF Schedule!Exhausted, Spent
<1>4. Schedule(v)!Clock(user) <=> (~Plan.clock_user \/ user)
  BY DEF Schedule!Clock
<1>5. sl # << >> =>
        {k \in Schedule(v)!Since : Schedule(v)!Clock(h[k])} = Ticks(LastPos(sl), h)
  BY DEF Schedule!Since, Schedule!Current, Schedule!Clock, Ticks, LastPos
<1>6. Schedule(v)!Opens(user) <=> MayOpen(sl, h, user)
  BY <1>1, <1>3, <1>4, <1>5, SameCardinality DEF Schedule!Opens, MayOpen
<1>7. Schedule(v)!Extends <=> MayExtend(sl)
  BY <1>1, <1>3 DEF Schedule!Extends, MayExtend
<1> QED BY <1>1, <1>3, <1>6, <1>7

(* Slices, in the next state.                                              *)
LEMMA SlicesNext ==
  ASSUME NEW v PROVE Slices(vs[v])' = Slices(vs'[v])
BY DEF Slices, ChunkRecords, Positions

(* Moves is a step of the schedule.                                        *)
LEMMA MovesAreNext ==
  ASSUME NEW v, NEW user \in BOOLEAN, knobs' = knobs, vs[v].limit_reached = FALSE,
         vs'[v].limit_reached \in BOOLEAN,
         guest'[v].hist = Append(guest[v].hist, user),
         Moves(Slices(vs[v]), guest[v].hist, user, Slices(vs'[v]), vs'[v].limit_reached)
  PROVE  Schedule(v)!Next
<1> DEFINE sl == Slices(vs[v])
           h == guest[v].hist
           new == Slices(vs'[v])
           stop == vs'[v].limit_reached
<1>1. Plan' = Plan
  BY DEF Plan, sampling
<1>2. Schedule(v)!Executed(user)
  BY <1>1 DEF Schedule!Executed
<1>3. Slices(vs[v])' = new
  BY SlicesNext
<1>4. CASE MayExtend(sl) /\ ~stop /\ new = [sl EXCEPT ![Len(sl)] = Append(@, Len(h) + 1)]
  <2>1. Schedule(v)!Extends
    BY <1>4, ScheduleGuards
  <2>2. Schedule(v)!Extend(user)
    BY <1>2, <1>3, <1>4, <2>1 DEF Schedule!Extend
  <2> QED BY <2>2 DEF Schedule!Next
<1>5. CASE MayOpen(sl, h, user) /\ ~stop /\ new = Append(sl, << Len(h) + 1 >>)
  <2>1. Schedule(v)!Opens(user)
    BY <1>5, ScheduleGuards
  <2>2. Schedule(v)!Open(user)
    BY <1>2, <1>3, <1>5, <2>1 DEF Schedule!Open
  <2> QED BY <2>2 DEF Schedule!Next
<1>6. CASE MayOpen(sl, h, user) /\ stop /\ new = sl
  <2>1. Schedule(v)!Opens(user)
    BY <1>6, ScheduleGuards
  <2>2. Schedule(v)!Fail(user)
    BY <1>2, <1>3, <1>6, <2>1 DEF Schedule!Fail
  <2> QED BY <2>2 DEF Schedule!Next
<1>7. CASE /\ ~MayExtend(sl) /\ ~MayOpen(sl, h, user) /\ (stop => Spent(sl))
           /\ new = sl
  <2>1. /\ ~Schedule(v)!Extends /\ ~Schedule(v)!Opens(user)
        /\ stop => Schedule(v)!Exhausted
    BY <1>7, ScheduleGuards
  <2>2. Schedule(v)!Skip(user)
    BY <1>2, <1>3, <1>7, <2>1 DEF Schedule!Skip
  <2> QED BY <2>2 DEF Schedule!Next
<1> QED BY <1>4, <1>5, <1>6, <1>7 DEF Moves

(* A recorder that has stopped lets the instruction pass.                  *)
LEMMA StoppedIsNext ==
  ASSUME NEW v, NEW user \in BOOLEAN, knobs' = knobs, vs[v].limit_reached = TRUE,
         vs'[v] = vs[v], guest'[v].hist = Append(guest[v].hist, user)
  PROVE  Schedule(v)!Next
<1>1. Plan' = Plan
  BY DEF Plan, sampling
<1>2. Schedule(v)!Executed(user)
  BY <1>1 DEF Schedule!Executed
<1>3. Slices(vs[v])' = Slices(vs[v])
  BY SlicesNext
<1>4. Schedule(v)!Skip(user)
  BY <1>2, <1>3 DEF Schedule!Skip
<1> QED BY <1>4 DEF Schedule!Next

(* What the schedule asks of a vCPU between two callbacks.                 *)
PlannedAt(s, h) == Len(s.files) > 0 /\ (~s.limit_reached => Progress(s, h))

PlanInv ==
  run = "running" /\ ~disk_full =>
    \A v \in VCPUS : PlannedAt(vs[v], guest[v].hist)

(* A step, as the schedule sees it.                                        *)
StepsTo(s, h, t, g) ==
  \/ g = h /\ Slices(t) = Slices(s) /\ t.limit_reached = s.limit_reached
  \/ \E user \in BOOLEAN :
       /\ g = Append(h, user)
       /\ \/ s.limit_reached /\ t = s
          \/ ~s.limit_reached /\ Follows(s, t, h, user)

(* An access leaves the positions alone.                                   *)
LEMMA MemPos ==
  ASSUME NEW s \in VcpuState, s.open, s.has_pending, Layout(s), NEW r \in Record,
         r.pos = s.pending.pos
  PROVE  LET t == [s EXCEPT !.pending = r]
         IN  /\ SameWindow(s, t) /\ Layout(t)
             /\ t.limit_reached = s.limit_reached
<1> DEFINE t == [s EXCEPT !.pending = r]
           q == Held(s)
<1>1. /\ t.files = s.files /\ t.inbuf = s.inbuf /\ t.open = s.open
      /\ t.has_pending = s.has_pending /\ t.pending = r
      /\ t.chunk_index = s.chunk_index /\ t.insn_count = s.insn_count
      /\ t.chunk_insn_count = s.chunk_insn_count
      /\ t.limit_reached = s.limit_reached
  BY DEF VcpuState
<1>2. SameClock(s, t)
  BY DEF VcpuState, SameClock
<1> HIDE DEF t
<1>3. q \in Seq(Record) /\ s.pending \in Record
  BY HeldTypes, FieldTypes DEF Layout
<1>4. Captured(s) = Append(q, s.pending) /\ Captured(t) = Append(q, r)
  BY <1>1 DEF Captured, Held, CurrentChunk
<1> HIDE DEF q
<1>5. Positions(Captured(t)) = Positions(Captured(s))
  BY <1>3, <1>4, PositionsAppend
<1>6. \A c \in 1 .. Len(s.files) : Positions(Content(t, c)) = Positions(Content(s, c))
  BY <1>1, <1>5 DEF Content
<1>7. SamePos(s, t)
  BY <1>1, <1>6 DEF SamePos
<1>8. SameWindow(s, t)
  BY <1>1, <1>2, <1>7 DEF SameWindow, Taken
<1>9. Layout(t)
  BY <1>1 DEF Layout, CurrentChunk
<1> QED BY <1>1, <1>8, <1>9 DEF t

(* The exit handler closes the chunks and leaves the slices alone.         *)
LEMMA ExitSlices ==
  ASSUME ~disk_full, NEW s \in VcpuState, Books(s), Accounted(s), Len(s.files) > 0
  PROVE  LET t == close_chunk(s)
         IN  Slices(t) = Slices(s) /\ t.limit_reached = s.limit_reached
<1> DEFINE t == close_chunk(s)
           l == Listed(s)
<1>1. t \in VcpuState /\ Layout(s)
  BY CloseType DEF Books
<1>2. CASE s.open
  <2>1. Books(t) /\ t.limit_reached = s.limit_reached /\ SamePos(s, t)
    BY <1>2, CloseBooks, CloseProgress
  <2> HIDE DEF t
  <2> QED BY <1>1, <2>1, SamePosSlices DEF Books, t
<1>3. CASE ~s.open
  <2>1. finalize_pending_insn(s) = s /\ flush_buffer(s) = s /\ Closed(s) = s
    BY <1>1, <1>3, FinalizeKeeps, FlushKeeps, ClosedKeeps DEF Layout
  <2>2. t \in {s, l}
    BY <2>1 DEF close_chunk
  <2>3. /\ l.files = s.files /\ l.open = s.open /\ l.inbuf = s.inbuf
        /\ l.has_pending = s.has_pending /\ l.chunk_index = s.chunk_index
        /\ l.limit_reached = s.limit_reached
    BY ListedKeeps
  <2> HIDE DEF t, l
  <2>4. /\ t.files = s.files /\ t.open = s.open /\ t.inbuf = s.inbuf
        /\ t.has_pending = s.has_pending /\ t.chunk_index = s.chunk_index
        /\ t.limit_reached = s.limit_reached
    BY <2>2, <2>3
  <2>5. Layout(t)
    BY <1>1, <2>4 DEF Layout, CurrentChunk
  <2>6. SamePos(s, t)
    BY <1>3, <2>4 DEF SamePos, Content
  <2> QED BY <1>1, <2>4, <2>5, <2>6, SamePosSlices DEF t
<1> QED BY <1>2, <1>3

(* Every step of the tracer, as the schedule sees it.                      *)
LEMMA PlanSteps ==
  ASSUME TypeOK, RecorderInv, BookInv, PlanInv, Next, ~disk_full'
  PROVE  /\ ~disk_full /\ knobs' = knobs /\ run = "running"
         /\ \A v \in VCPUS :
              /\ StepsTo(vs[v], guest[v].hist, vs'[v], guest'[v].hist)
              /\ run' = "running" => PlannedAt(vs'[v], guest'[v].hist)
<1> DEFINE At(v) ==
             /\ StepsTo(vs[v], guest[v].hist, vs'[v], guest'[v].hist)
             /\ run' = "running" => PlannedAt(vs'[v], guest'[v].hist)
<1>1. ~disk_full
  BY DiskStaysFull
<1>2. run = "running" /\ knobs' = knobs
  <2>1. ASSUME NEW v \in VCPUS, insn_exec_cb(v) PROVE run = "running" /\ knobs' = knobs
    <3>1. CASE DormantInsn(v)
      BY <3>1 DEF DormantInsn
    <3>2. ASSUME NEW user \in BOOLEAN, StoppedInsn(v, user)
          PROVE  run = "running" /\ knobs' = knobs
      BY <3>2 DEF StoppedInsn, Execute
    <3>3. ASSUME NEW user \in BOOLEAN, NEW ok \in BOOLEAN,
                 \/ SkipInsn(v, user) \/ AwaitUserInsn(v, user)
                 \/ BeginWindowInsn(v, user, ok) \/ CaptureInsn(v, user, ok)
                 \/ EndWindowInsn(v, user, ok)
          PROVE  run = "running" /\ knobs' = knobs
      BY <3>3 DEF SkipInsn, AwaitUserInsn, BeginWindowInsn, CaptureInsn,
         EndWindowInsn, Seen, Execute, Update
    <3> QED BY <2>1, <3>1, <3>2, <3>3 DEF insn_exec_cb
  <2>2. ASSUME NEW v \in VCPUS, mem_cb(v) PROVE run = "running" /\ knobs' = knobs
    BY <2>2 DEF mem_cb
  <2>3. CASE plugin_atexit \/ Kill \/ DiskFills
    BY <2>3 DEF plugin_atexit, Kill, DiskFills
  <2> QED BY <2>1, <2>2, <2>3 DEF Next
<1>3. \A v \in VCPUS : vs[v] \in VcpuState /\ Len(guest[v].hist) \in Nat
  BY LenProperties DEF TypeOK
<1>4. \A v \in VCPUS : /\ Going(vs[v], Len(guest[v].hist)) /\ Sound(vs[v])
                       /\ PlannedAt(vs[v], guest[v].hist)
  BY <1>1, <1>2, RecorderInvIs DEF BookInv, PlanInv
<1>5. ASSUME NEW w \in VCPUS, vs'[w] = vs[w], guest'[w].hist = guest[w].hist
      PROVE  At(w)
  BY <1>4, <1>5 DEF StepsTo
<1>6. ASSUME NEW v \in VCPUS, DormantInsn(v), NEW w \in VCPUS PROVE At(w)
  <2>1. vs' = vs /\ guest'[w].hist = guest[w].hist
    BY <1>6 DEF DormantInsn, TypeOK
  <2> QED BY <1>5, <2>1
<1>7. ASSUME NEW v \in VCPUS, NEW user \in BOOLEAN, StoppedInsn(v, user),
             NEW w \in VCPUS
      PROVE  At(w)
  <2>1. /\ vs' = vs /\ vs[v].limit_reached
        /\ guest'[v].hist = Append(guest[v].hist, user)
        /\ w # v => guest'[w] = guest[w]
    BY <1>7 DEF StoppedInsn, Execute, TypeOK
  <2>2. CASE w = v
    <3>1. StepsTo(vs[v], guest[v].hist, vs'[v], guest'[v].hist)
      BY <2>1 DEF StepsTo
    <3>2. PlannedAt(vs'[v], guest'[v].hist)
      BY <1>4, <2>1 DEF PlannedAt
    <3> QED BY <2>2, <3>1, <3>2
  <2>3. CASE w # v
    BY <1>5, <2>1, <2>3
  <2> QED BY <2>2, <2>3
<1>8. ASSUME NEW v \in VCPUS, NEW user \in BOOLEAN, NEW ok \in BOOLEAN,
             \/ SkipInsn(v, user) \/ AwaitUserInsn(v, user)
             \/ BeginWindowInsn(v, user, ok) \/ CaptureInsn(v, user, ok)
             \/ EndWindowInsn(v, user, ok),
             NEW w \in VCPUS
      PROVE  At(w)
  <2>1. Execute(v, user) /\ ~vs[v].limit_reached
    BY <1>8 DEF SkipInsn, AwaitUserInsn, BeginWindowInsn, CaptureInsn,
       EndWindowInsn, Seen
  <2>2. PICK t : Update(v, t) /\ Follows(vs[v], t, guest[v].hist, user)
    BY <1>1, <1>4, <1>8, <2>1, InsnMoves DEF PlannedAt
  <2>4. /\ vs'[v] = t
        /\ guest'[v].hist = Append(guest[v].hist, user)
        /\ w # v => vs'[w] = vs[w] /\ guest'[w] = guest[w]
    BY <2>1, <2>2 DEF Update, Execute, TypeOK
  <2>5. CASE w = v
    <3>1. StepsTo(vs[v], guest[v].hist, t, guest'[v].hist)
      BY <2>1, <2>2, <2>4 DEF StepsTo
    <3>2. PlannedAt(t, guest'[v].hist)
      BY <2>2, <2>4 DEF Follows, PlannedAt
    <3> QED BY <2>4, <2>5, <3>1, <3>2
  <2>6. CASE w # v
    BY <1>5, <2>4, <2>6
  <2> QED BY <2>5, <2>6
<1>9. ASSUME NEW v \in VCPUS, mem_cb(v), NEW w \in VCPUS PROVE At(w)
  <2> DEFINE s == vs[v]
             o == Append(s.pending.ops, guest[v].cur)
             r == [s.pending EXCEPT !.ops = o]
             t == [s EXCEPT !.pending = r]
  <2>1. /\ \/ vs' = vs
           \/ vs' = [vs EXCEPT ![v] = t] /\ s.has_pending /\ ~s.limit_reached
        /\ guest'[w].hist = guest[w].hist
    BY <1>9 DEF mem_cb, TypeOK
  <2>2. CASE vs' = vs \/ w # v
    <3>1. vs'[w] = vs[w]
      BY <2>1, <2>2 DEF TypeOK
    <3> QED BY <1>5, <2>1, <3>1
  <2>3. CASE vs' # vs /\ w = v
    <3>1. s.pending \in Record /\ guest[v].cur \in Nat
      BY <1>3, FieldTypes DEF TypeOK
    <3>2. o \in Seq(Nat)
      BY <3>1 DEF Record
    <3>3. r \in Record /\ r.pos = s.pending.pos
      <4> HIDE DEF o
      <4> QED BY <3>1, <3>2 DEF Record
    <3>4. /\ s \in VcpuState /\ s.has_pending /\ ~s.limit_reached /\ Layout(s)
          /\ PlannedAt(s, guest[v].hist)
      BY <1>3, <1>4, <2>1, <2>3 DEF Going, Books
    <3>5. vs'[v] = t
      BY <2>1, <2>3 DEF TypeOK
    <3> HIDE DEF r, s
    <3>6. /\ SameWindow(s, t) /\ Layout(t) /\ t \in VcpuState
          /\ t.limit_reached = s.limit_reached
      BY <3>3, <3>4, MemPos, SetPending DEF Layout
    <3> HIDE DEF t
    <3>7. /\ Progress(t, guest[v].hist) /\ Slices(t) = Slices(s)
          /\ Len(t.files) = Len(s.files)
      BY <3>4, <3>6, ProgressSame DEF PlannedAt
    <3>8. StepsTo(s, guest[v].hist, t, guest'[v].hist)
      BY <2>1, <2>3, <3>6, <3>7 DEF StepsTo
    <3>9. PlannedAt(t, guest'[v].hist)
      BY <2>1, <2>3, <3>4, <3>7 DEF PlannedAt
    <3> QED BY <2>3, <3>5, <3>8, <3>9 DEF s
  <2> QED BY <2>2, <2>3
<1>10. ASSUME plugin_atexit, NEW w \in VCPUS PROVE At(w)
  <2>1. run' = "exited" /\ guest' = guest /\ vs'[w] = close_chunk(vs[w])
    BY <1>10 DEF plugin_atexit
  <2>2. Slices(vs'[w]) = Slices(vs[w]) /\ vs'[w].limit_reached = vs[w].limit_reached
    BY <1>1, <1>3, <1>4, <2>1, ExitSlices DEF Going, Sound, PlannedAt
  <2> QED BY <2>1, <2>2 DEF StepsTo
<1>11. ASSUME Kill \/ DiskFills, NEW w \in VCPUS PROVE At(w)
  BY <1>5, <1>11 DEF Kill, DiskFills
<1>12. \A w \in VCPUS : At(w)
  <2> HIDE DEF At
  <2> QED BY <1>6, <1>7, <1>8, <1>9, <1>10, <1>11 DEF Next, insn_exec_cb
<1> QED BY <1>1, <1>2, <1>12

(* What the next state has planned.                                        *)
LEMMA PlannedNext ==
  ASSUME knobs' = knobs, NEW v, PlannedAt(vs'[v], guest'[v].hist)
  PROVE  PlannedAt(vs[v], guest[v].hist)'
<1>1. Newest(vs[v])' = Newest(vs'[v])
  BY DEF Newest, Content, Captured, Held, CurrentChunk
<1>2. \A c : Content(vs[v], c)' = Content(vs'[v], c)
  BY DEF Content, Captured, Held, CurrentChunk
<1>3. Sliced(vs'[v], Len(guest'[v].hist)) => Sliced(vs[v], Len(guest[v].hist))'
  BY <1>2, SlicesNext DEF Sliced, Taken, KeptOf
<1>4. Filling(vs'[v]) => Filling(vs[v])'
  BY <1>1 DEF Filling, MoreWindows, sampling
<1>5. Waiting(vs'[v], guest'[v].hist) => Waiting(vs[v], guest[v].hist)'
  BY <1>1 DEF Waiting, MoreWindows, Ticks, Plan, sampling
<1>6. Progress(vs'[v], guest'[v].hist) => Progress(vs[v], guest[v].hist)'
  BY <1>1, <1>3, <1>4, <1>5 DEF Progress
<1> QED BY <1>6 DEF PlannedAt

(* The plan is kept.                                                       *)
LEMMA PlanInductive ==
  ASSUME TypeOK, RecorderInv, BookInv, PlanInv, [Next]_vars
  PROVE  PlanInv'
<1>1. CASE vars' = vars
  <2>1. /\ run' = run /\ disk_full' = disk_full /\ knobs' = knobs
        /\ vs' = vs /\ guest' = guest
    BY <1>1 DEF vars
  <2>2. ASSUME run = "running", ~disk_full, NEW v \in VCPUS
        PROVE  PlannedAt(vs[v], guest[v].hist)'
    <3>1. PlannedAt(vs'[v], guest'[v].hist)
      BY <2>1, <2>2 DEF PlanInv
    <3> QED BY <2>1, <3>1, PlannedNext
  <2> QED BY <2>1, <2>2 DEF PlanInv
<1>2. CASE Next /\ ~disk_full'
  <2>1. /\ knobs' = knobs
        /\ \A v \in VCPUS : run' = "running" => PlannedAt(vs'[v], guest'[v].hist)
    BY <1>2, PlanSteps
  <2>2. ASSUME run' = "running", NEW v \in VCPUS
        PROVE  PlannedAt(vs[v], guest[v].hist)'
    BY <2>1, <2>2, PlannedNext
  <2> QED BY <2>2 DEF PlanInv
<1>3. CASE disk_full'
  BY <1>3 DEF PlanInv
<1> QED BY <1>1, <1>2, <1>3

(* A new vCPU has no slice yet.                                            *)
LEMMA InitSlices ==
  ASSUME knobs \in Knobs, NEW fp \in BOOLEAN
  PROVE  LET t == InitVcpu(fp)
         IN  /\ Slices(t) = << >> /\ t.limit_reached = FALSE
             /\ PlannedAt(t, << >>)
<1> DEFINE t == InitVcpu(fp)
<1>1. Created(<< >>, 0) = << EmptyChunk >>
  BY DEF Created
<1>2. /\ t.files = << EmptyChunk >> /\ t.chunk_index = 0 /\ t.open = TRUE
      /\ t.inbuf = << >> /\ t.chunk_insn_count = 0 /\ t.has_pending = FALSE
      /\ t.limit_reached = FALSE /\ t.insn_count = 0 /\ t.sample_windows_done = 0
  BY <1>1 DEF InitVcpu, open_chunk
<1>3. t \in VcpuState /\ Layout(t)
  BY InitVcpuType, InitBooks DEF Going, Books
<1> HIDE DEF t
<1>4. Captured(t) = << >>
  <2>1. CurrentChunk(t) = EmptyChunk /\ EmptyChunk.recs = << >>
    BY <1>2 DEF CurrentChunk, EmptyChunk
  <2>2. << >> \o << >> = << >>
    OBVIOUS
  <2> QED BY <1>2, <2>1, <2>2 DEF Captured, Held
<1>5. Len(t.files) = 1
  BY <1>2
<1>6. Content(t, 1) = << >> /\ Newest(t) = << >> /\ Begun(t) = 0
  BY <1>2, <1>4, <1>5 DEF Content, Newest, Begun
<1>7. Slices(t) = << >>
  BY <1>3, <1>5, <1>6, SlicesTypes, EmptySeq
<1>8. Sliced(t, Len(<< >>))
  <2>1. KeptOf(<< >>) = {}
    BY DEF KeptOf
  <2>2. Taken(t) = 0
    BY <1>2 DEF Taken
  <2>3. Cardinality(KeptOf(Slices(t))) = Taken(t)
    BY <1>7, <2>1, <2>2, FS_EmptySet
  <2>4. KeptOf(Slices(t)) \subseteq 1 .. Len(<< >>)
    BY <1>7, <2>1
  <2>5. \A c \in 1 .. Len(t.files) - 1 : Content(t, c) # << >>
    BY <1>5
  <2> QED BY <1>5, <2>3, <2>4, <2>5 DEF Sliced
<1>9. Filling(t)
  <2>1. knobs.sample_count \in Nat
    BY KnobTypes
  <2> QED BY <1>2, <1>5, <1>6, <2>1 DEF Filling, MoreWindows
<1> QED BY <1>2, <1>5, <1>6, <1>7, <1>8, <1>9 DEF PlannedAt, Progress, t

(* The first state of the tracer is one of the schedule.                   *)
LEMMA InitSchedule ==
  ASSUME Init
  PROVE  PlanInv /\ \A v \in VCPUS : Schedule(v)!Init
<1>1. knobs \in Knobs
  BY DEF Init
<1>2. ASSUME NEW v \in VCPUS
      PROVE  PlannedAt(vs[v], guest[v].hist) /\ Schedule(v)!Init
  <2>1. PICK fp \in BOOLEAN : vs[v] = InitVcpu(fp)
    BY DEF Init
  <2>2. guest[v].hist = << >>
    BY DEF Init
  <2>3. /\ Slices(vs[v]) = << >> /\ vs[v].limit_reached = FALSE
        /\ PlannedAt(vs[v], << >>)
    BY <1>1, <2>1, InitSlices
  <2>4. Plan \in [len : Nat, gap : Nat, count : Nat, limit : Nat,
                  clock_user : BOOLEAN]
    BY <1>1, KnobTypes DEF Plan
  <2> QED BY <2>2, <2>3, <2>4 DEF Schedule!Init
<1> QED BY <1>2 DEF PlanInv

(* While the guest runs and the disk takes what is written, every vCPU     *)
(* that has not stopped is where its schedule is.                          *)
THEOREM PlanIsKept == Spec => []PlanInv
<1>1. Init => PlanInv
  BY InitSchedule
<1>2. TypeOK /\ RecorderInv /\ BookInv /\ PlanInv /\ [Next]_vars => PlanInv'
  BY PlanInductive
<1> QED BY <1>1, <1>2, BooksAreKept, TypeCorrect, PTL DEF Spec

(* A step of the tracer is a step of the schedule of every vCPU.           *)
LEMMA ScheduleStep ==
  ASSUME TypeOK, TypeOK', RecorderInv, BookInv, PlanInv, Next, ~disk_full',
         NEW v \in VCPUS
  PROVE  Schedule(v)!Next \/ UNCHANGED Schedule(v)!schedule
<1>1. knobs' = knobs /\ StepsTo(vs[v], guest[v].hist, vs'[v], guest'[v].hist)
  BY PlanSteps
<1>2. vs[v].limit_reached \in BOOLEAN /\ vs'[v].limit_reached \in BOOLEAN
  <2>1. vs[v] \in VcpuState /\ vs'[v] \in VcpuState
    BY DEF TypeOK, VcpuState, Record, Chunk, Row
  <2> QED BY <2>1 DEF VcpuState
<1>3. CASE /\ guest'[v].hist = guest[v].hist /\ Slices(vs'[v]) = Slices(vs[v])
           /\ vs'[v].limit_reached = vs[v].limit_reached
  <2>1. Plan' = Plan
    BY <1>1 DEF Plan, sampling
  <2> QED BY <1>3, <2>1, SlicesNext DEF Schedule!schedule
<1>4. ASSUME NEW user \in BOOLEAN, guest'[v].hist = Append(guest[v].hist, user),
             vs[v].limit_reached, vs'[v] = vs[v]
      PROVE  Schedule(v)!Next
  BY <1>1, <1>2, <1>4, StoppedIsNext
<1>5. ASSUME NEW user \in BOOLEAN, guest'[v].hist = Append(guest[v].hist, user),
             ~vs[v].limit_reached, Follows(vs[v], vs'[v], guest[v].hist, user)
      PROVE  Schedule(v)!Next
  BY <1>1, <1>2, <1>5, MovesAreNext DEF Follows
<1> QED BY <1>1, <1>3, <1>4, <1>5 DEF StepsTo

(* The recorder, with its pending instruction, its buffer and the two      *)
(* places that leave a gap, captures the slices of the plan.               *)
THEOREM TracerImplementsSchedule == Spec => ImplementsSchedule
<1>1. Init => \A v \in VCPUS : Schedule(v)!Init
  BY InitSchedule
<1>2. TypeOK /\ TypeOK' /\ RecorderInv /\ BookInv /\ PlanInv /\ [Next]_vars =>
        [\A v \in VCPUS :
           disk_full' \/ [Schedule(v)!Next]_(Schedule(v)!schedule)]_vars
  BY ScheduleStep
<1> QED BY <1>1, <1>2, BooksAreKept, PlanIsKept, TypeCorrect, PTL
        DEF Spec, ImplementsSchedule
==========================================================================
