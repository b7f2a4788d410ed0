------------------------ MODULE TracePipeline_proofs ------------------------
(***************************************************************************)
(* For every guest program and every trace captured of it: what the filter *)
(* removes, what the converter says of branches and of what it leaves out, *)
(* what the sanity check makes of that, and what the cutter cuts.          *)
(*                                                                         *)
(*   - FilterInv: the one-pass filter has decided the records it has       *)
(*     written or dropped, and FilterExact follows where the trace ends.   *)
(*   - ConvInv: the record in hand is that of the last raw record read,    *)
(*     those before it are written and right.                              *)
(*   - ReportInv: the report is what is written, and the record in hand.   *)
(*   - Checked: what the check has counted is what is written.             *)
(*   - FlowInv: what each tool finds when its turn comes.                  *)
(*   - MapsInv: the maps behind the report on indirect branches are those  *)
(*     of the whole trace.                                                 *)
(*   - CutInv: the chunks and the carried bytes are the stream so far.     *)
(*   - GuestInput: the converter reads what the guest retired, so that its *)
(*     branches have the operands that the disassembler lists (Holds: the  *)
(*     slots have all registers, each once).                               *)
(*                                                                         *)
(* The loops of the two tools over a sequence are recursive functions.     *)
(* That there is one for every length, and what it says, is shown on the   *)
(* least number for which it would not be so (LeastNat).                   *)
(***************************************************************************)
EXTENDS TracePipeline, TLAPS, SequenceTheorems, FiniteSetTheorems, WellFoundedInduction

fall == <<files, fvars>>

(* Writing the positions m + 1 .. m + Len(y) behind a selection from       *)
(* 1 .. m leaves an increasing selection that holds both.                  *)
LEMMA WriteBehind ==
  ASSUME NEW m \in Nat, NEW y \in Seq(Nat), NEW t \in Seq(Nat),
         \A j \in DOMAIN t : t[j] \in 1 .. m,
         Increasing(t),
         \A k \in DOMAIN y : y[k] = m + k
  PROVE  /\ t \o y \in Seq(Nat)
         /\ Len(t \o y) = Len(t) + Len(y)
         /\ \A j \in DOMAIN (t \o y) : (t \o y)[j] \in 1 .. m + Len(y)
         /\ Increasing(t \o y)
         /\ \A i \in 1 .. m + Len(y) :
              (\E j \in DOMAIN (t \o y) : (t \o y)[j] = i)
                <=> ((\E j \in DOMAIN t : t[j] = i) \/ i > m)
<1> DEFINE c == t \o y
           p == Len(t)
           q == Len(y)
<1>1. /\ p \in Nat /\ q \in Nat
      /\ c \in Seq(Nat) /\ Len(c) = p + q
      /\ \A i \in 1 .. p + q : c[i] = IF i <= p THEN t[i] ELSE y[i - p]
  BY ConcatProperties
<1>2. DOMAIN t = 1 .. p /\ DOMAIN y = 1 .. q /\ DOMAIN c = 1 .. p + q
  BY <1>1
<1>3. /\ \A j \in 1 .. p : t[j] \in 1 .. m
      /\ \A i, j \in 1 .. p : i < j => t[i] < t[j]
      /\ \A k \in 1 .. q : y[k] = m + k
  BY <1>2 DEF Increasing
<1> HIDE DEF c, p, q
<1>4. \A j \in 1 .. p : c[j] = t[j] /\ c[j] \in 1 .. m
  BY <1>1, <1>3
<1>5. \A j \in p + 1 .. p + q : c[j] = m + (j - p)
  <2> TAKE j \in p + 1 .. p + q
  <2>1. j - p \in 1 .. q /\ j \in 1 .. p + q /\ ~(j <= p)
    BY <1>1
  <2>2. c[j] = y[j - p]
    BY <2>1, <1>1, Zenon
  <2> QED
    BY <2>1, <2>2, <1>3, Zenon
<1>6. \A j \in 1 .. p + q : c[j] \in 1 .. m + q
  <2> TAKE j \in 1 .. p + q
  <2>1. CASE j <= p
    <3>1. c[j] \in 1 .. m
      BY <2>1, <1>1, <1>4
    <3> QED
      BY <3>1, <1>1
  <2>2. CASE j > p
    <3>1. j \in p + 1 .. p + q
      BY <2>2, <1>1
    <3>2. c[j] = m + (j - p)
      BY <3>1, <1>5
    <3> QED
      BY <3>1, <3>2, <1>1
  <2> QED
    BY <2>1, <2>2, <1>1
<1>7. \A i, j \in 1 .. p + q : i < j => c[i] < c[j]
  <2> SUFFICES ASSUME NEW i \in 1 .. p + q, NEW j \in 1 .. p + q, i < j
               PROVE  c[i] < c[j]
    OBVIOUS
  <2>1. CASE j <= p
    BY <2>1, <1>1, <1>3, <1>4
  <2>2. CASE j > p
    <3>1. j \in p + 1 .. p + q /\ c[j] = m + (j - p) /\ j - p > 0
      BY <2>2, <1>1, <1>5
    <3>2. CASE i <= p
      <4>1. i \in 1 .. p /\ c[i] <= m
        BY <3>2, <1>1, <1>4
      <4> QED
        BY <4>1, <3>1, <1>1
    <3>3. CASE i > p
      <4>1. c[i] = m + (i - p)
        BY <3>3, <1>1, <1>5
      <4> QED
        BY <4>1, <3>1, <1>1
    <3> QED
      BY <3>2, <3>3, <1>1
  <2> QED
    BY <2>1, <2>2, <1>1
<1>8. ASSUME NEW i \in 1 .. m + q
      PROVE  (\E j \in 1 .. p + q : c[j] = i) <=> ((\E j \in 1 .. p : t[j] = i) \/ i > m)
  <2>1. ASSUME NEW j \in 1 .. p + q, c[j] = i
        PROVE  (\E k \in 1 .. p : t[k] = i) \/ i > m
    <3>1. CASE j <= p
      <4>1. j \in 1 .. p /\ t[j] = i
        BY <3>1, <2>1, <1>1, <1>4
      <4> QED
        BY <4>1
    <3>2. CASE j > p
      <4>1. c[j] = m + (j - p) /\ j - p > 0
        BY <3>2, <1>1, <1>5
      <4> QED
        BY <4>1, <2>1, <1>1
    <3> QED
      BY <3>1, <3>2, <1>1
  <2>2. ASSUME NEW j \in 1 .. p, t[j] = i
        PROVE  \E k \in 1 .. p + q : c[k] = i
    BY <2>2, <1>1, <1>4
  <2>3. ASSUME i > m
        PROVE  \E k \in 1 .. p + q : c[k] = i
    <3>1. p + (i - m) \in p + 1 .. p + q /\ p + (i - m) \in 1 .. p + q
      BY <2>3, <1>1
    <3>2. c[p + (i - m)] = i
      BY <3>1, <1>1, <1>5
    <3> QED
      BY <3>1, <3>2
  <2> QED
    BY <2>1, <2>2, <2>3
<1> QED
  BY <1>1, <1>2, <1>6, <1>7, <1>8 DEF c, p, q, Increasing

(* What is not read is not a HLT: no iteration ends in it.                 *)
LEMMA NoHltEndsNothing ==
  ASSUME NEW n \in Nat, ~raw.recs[n + 1].hlt, NEW i \in 1 .. n + 1
  PROVE  IdleBefore(i, n + 1) <=> IdleBefore(i, n)
BY DEF IdleBefore

(* Nothing after the last HLT belongs to an iteration yet.                 *)
LEMMA BehindTheLastHlt ==
  ASSUME NEW n \in Nat, NEW m \in Nat, \A k \in m + 2 .. n : ~raw.recs[k].hlt,
         NEW i \in m + 1 .. n
  PROVE  ~IdleBefore(i, n)
BY DEF IdleBefore

(* The records that are neither dropped nor held back go on the right way. *)
LEMMA WrittenAre ==
  ASSUME NEW m \in Nat, NEW n \in Nat, NEW o \in Seq(Nat), NEW y \in Seq(Nat),
         m <= n, DecidedUpTo(m, n, o),
         \A k \in DOMAIN y : y[k] = m + k,
         NEW l \in Nat, l = n \/ (l = n + 1 /\ ~raw.recs[l].hlt), m + Len(y) = l,
         \A k \in m + 2 .. n : ~raw.recs[k].hlt
  PROVE  o \o y \in Seq(Nat) /\ DecidedUpTo(l, l, o \o y)
<1>1. /\ o \o y \in Seq(Nat)
      /\ \A j \in DOMAIN (o \o y) : (o \o y)[j] \in 1 .. l
      /\ Increasing(o \o y)
      /\ \A i \in 1 .. l :
           (\E j \in DOMAIN (o \o y) : (o \o y)[j] = i)
             <=> ((\E j \in DOMAIN o : o[j] = i) \/ i > m)
  <2>1. Increasing(o) /\ \A j \in DOMAIN o : o[j] \in 1 .. m
    BY DEF DecidedUpTo
  <2>2. /\ o \o y \in Seq(Nat)
        /\ \A j \in DOMAIN (o \o y) : (o \o y)[j] \in 1 .. m + Len(y)
        /\ Increasing(o \o y)
        /\ \A i \in 1 .. m + Len(y) :
             (\E j \in DOMAIN (o \o y) : (o \o y)[j] = i)
               <=> ((\E j \in DOMAIN o : o[j] = i) \/ i > m)
    BY <2>1, WriteBehind, ZenonT(60)
  <2>3. m + Len(y) = l
    OBVIOUS
  <2> QED
    BY <2>2, <2>3, Zenon
<1>2. ASSUME NEW i \in 1 .. l
      PROVE  IdleBefore(i, l) <=> (i <= m /\ IdleBefore(i, n))
  <2>1. IdleBefore(i, l) <=> IdleBefore(i, n)
    <3>1. CASE l = n
      BY <3>1
    <3>2. CASE l = n + 1 /\ ~raw.recs[l].hlt
      BY <3>2, NoHltEndsNothing
    <3> QED
      BY <3>1, <3>2
  <2>2. i > m /\ i <= n => ~IdleBefore(i, n)
    <3>1. ASSUME i > m, i <= n
          PROVE  i \in m + 1 .. n
      BY <3>1
    <3> QED
      BY <3>1, BehindTheLastHlt
  <2>3. i > n => ~IdleBefore(i, n)
    BY DEF IdleBefore
  <2> QED
    BY <2>1, <2>2, <2>3
<1>3. \A j \in DOMAIN o : o[j] \in 1 .. m
  BY DEF DecidedUpTo
<1>4. ASSUME NEW i \in 1 .. l
      PROVE  ((\E j \in DOMAIN o : o[j] = i) \/ i > m) <=> ~IdleBefore(i, l)
  <2>1. CASE i <= m
    BY <2>1, <1>2 DEF DecidedUpTo
  <2>2. CASE i > m
    BY <2>2, <1>2
  <2> QED
    BY <2>1, <2>2
<1> QED
  BY <1>1, <1>4 DEF DecidedUpTo

(* A HLT right after decided records, each HLT among them woken up: none   *)
(* of them is dropped on its account.                                      *)
LEMMA HltAfterWork ==
  ASSUME NEW n \in Nat, NEW o, DecidedUpTo(n, n, o),
         \A a \in 1 .. n : raw.recs[a].hlt => \E k \in a .. n : raw.recs[k].user
  PROVE  DecidedUpTo(n, n + 1, o)
<1>1. ASSUME NEW i \in 1 .. n
      PROVE  IdleBefore(i, n + 1) <=> IdleBefore(i, n)
  <2>1. ASSUME NEW a \in 1 .. i, NEW b \in i + 1 .. n + 1,
               raw.recs[a].hlt, \A k \in a .. b : ~raw.recs[k].user
        PROVE  b \in i + 1 .. n
    <3>1. PICK k \in a .. n : raw.recs[k].user
      BY <2>1
    <3> QED
      BY <3>1, <2>1
  <2> QED
    BY <2>1 DEF IdleBefore
<1> QED
  BY <1>1 DEF DecidedUpTo

(* A HLT after a HLT, all in kernel mode: what lies between is dropped.    *)
LEMMA HltAfterHlt ==
  ASSUME NEW m \in Nat, NEW n \in Nat, NEW o, m < n, DecidedUpTo(m, n, o),
         raw.recs[m + 1].hlt, raw.recs[n + 1].hlt,
         \A k \in m + 1 .. n + 1 : ~raw.recs[k].user
  PROVE  DecidedUpTo(n, n + 1, o)
<1>1. ASSUME NEW i \in 1 .. m
      PROVE  IdleBefore(i, n + 1) <=> IdleBefore(i, n)
  <2>1. ASSUME NEW a \in 1 .. i, NEW b \in i + 1 .. n + 1, raw.recs[a].hlt,
               raw.recs[b].hlt, \A k \in a .. b : ~raw.recs[k].user
        PROVE  \E c \in i + 1 .. n : raw.recs[c].hlt /\ \A k \in a .. c : ~raw.recs[k].user
    <3>1. CASE b <= n
      BY <3>1, <2>1
    <3>2. CASE b = n + 1
      <4>1. m + 1 \in i + 1 .. n /\ \A k \in a .. m + 1 : k \in a .. b
        BY <3>2
      <4> QED
        BY <4>1, <2>1
    <3> QED
      BY <3>1, <3>2
  <2> QED
    BY <2>1 DEF IdleBefore
<1>2. ASSUME NEW i \in m + 1 .. n
      PROVE  IdleBefore(i, n + 1)
  <2>1. m + 1 \in 1 .. i /\ n + 1 \in i + 1 .. n + 1
    OBVIOUS
  <2> QED
    BY <2>1 DEF IdleBefore
<1>3. \A j \in DOMAIN o : o[j] \in 1 .. m /\ o[j] \in 1 .. n
  BY DEF DecidedUpTo
<1>4. ASSUME NEW i \in 1 .. n
      PROVE  (\E j \in DOMAIN o : o[j] = i) <=> ~IdleBefore(i, n + 1)
  <2>1. CASE i <= m
    BY <2>1, <1>1 DEF DecidedUpTo
  <2>2. CASE i > m
    BY <2>2, <1>2, <1>3
  <2> QED
    BY <2>1, <2>2
<1> QED
  BY <1>3, <1>4 DEF DecidedUpTo

(* Anything but a HLT decides nothing about the records before it.         *)
LEMMA NoHltDecidesNothing ==
  ASSUME NEW m \in Nat, NEW n \in Nat, NEW o, m <= n, DecidedUpTo(m, n, o),
         ~raw.recs[n + 1].hlt
  PROVE  DecidedUpTo(m, n + 1, o)
<1>1. \A i \in 1 .. m : IdleBefore(i, n + 1) <=> IdleBefore(i, n)
  BY NoHltEndsNothing
<1> QED
  BY <1>1 DEF DecidedUpTo

---------------------------------------------------------------------------
(* The record that is read is one of the trace.                            *)
LEMMA RecordRead ==
  ASSUME FilterTypeOK, raw \in RawFile, ReadRecord
  PROVE  /\ pos \in Nat /\ pos' = pos + 1 /\ pos + 1 \in DOMAIN raw.recs
         /\ rec = raw.recs[pos + 1] /\ rec.hlt \in BOOLEAN /\ rec.user \in BOOLEAN
         /\ filter = "running" /\ filter' = filter
<1>1. raw.recs \in Seq(Insns)
  BY DEF RawFile
<1>2. pos \in Nat /\ pos + 1 \in 1 .. Len(raw.recs) /\ DOMAIN raw.recs = 1 .. Len(raw.recs)
  BY <1>1 DEF FilterTypeOK, ReadRecord
<1>3. rec \in Insns
  BY <1>1, <1>2 DEF rec
<1> QED
  BY <1>2, <1>3, InsnsAssumption DEF rec, ReadRecord

(* The counters of what is read stay numbers.                              *)
LEMMA SeenCounts ==
  ASSUME stats \in Stats, rec.user \in BOOLEAN
  PROVE  Seen \in Stats
BY DEF Seen, Stats, Counter, Plus, One

(* ... whatever numbers are added to some of them.                         *)
LEMMA PlusCounts ==
  ASSUME NEW y \in Stats, NEW inc, \A c \in DOMAIN inc : inc[c] \in Nat
  PROVE  Plus(y, inc) \in Stats
BY DEF Plus, Stats

(* Every step keeps the types.                                             *)
LEMMA TypeStep ==
  ASSUME FilterTypeOK, raw \in RawFile, [FilterNext]_fall
  PROVE  FilterTypeOK' /\ (raw \in RawFile)'
<1> USE DEF FilterTypeOK
<1>1. CASE UNCHANGED fall
  BY <1>1 DEF fall, files, fvars
<1>2. CASE FilterNext
  <2>1. raw' = raw
    BY <1>2 DEF FilterNext, files
  <2>2. ASSUME ReadRecord
        PROVE  /\ pos' \in 0 .. Len(raw.recs) /\ filter' \in {"waiting", "running"}
               /\ Seen \in Stats
    BY <2>2, RecordRead, SeenCounts DEF RawFile
  <2>3. ASSUME ReadRecord, NEW b \in IdleBuffer, NEW k
        PROVE  idle_buffer_append(b, k) \in IdleBuffer
    <3>1. Append(b.slots, pos + 1) \in Seq(Nat)
      BY <2>3, RecordRead DEF IdleBuffer
    <3>2. b.kernel_count + One(k) \in Nat
      BY DEF One, IdleBuffer
    <3> QED
      BY <3>1, <3>2 DEF idle_buffer_append, IdleBuffer
  <2>4. EmptyBuffer \in IdleBuffer
    BY DEF EmptyBuffer, IdleBuffer
  <2>5. CASE OpenRaw
    BY <2>1, <2>5 DEF OpenRaw
  <2>6. CASE Copy
    <3>1. stats' \in Stats
      BY <2>2, <2>6, PlusCounts DEF Copy, One
    <3>2. out' \in Seq(Nat)
      BY <2>6, RecordRead DEF Copy
    <3> QED
      BY <2>1, <2>2, <2>6, <3>1, <3>2 DEF Copy
  <2>7. CASE FirstHlt
    BY <2>1, <2>2, <2>3, <2>4, <2>7 DEF FirstHlt
  <2>8. CASE NextHlt
    <3>1. stats' \in Stats
      BY <2>2, <2>8, PlusCounts DEF NextHlt, IdleBuffer
    <3> QED
      BY <2>1, <2>2, <2>3, <2>4, <2>8, <3>1 DEF NextHlt
  <2>9. CASE WakeUp
    <3>1. idle.slots \in Seq(Nat) /\ pos + 1 \in Nat
      BY <2>9, RecordRead DEF IdleBuffer, WakeUp
    <3>2. out \o Append(idle.slots, pos + 1) \in Seq(Nat) /\ Len(idle.slots) \in Nat
      BY <3>1
    <3>3. stats' \in Stats
      BY <2>2, <2>9, <3>2, PlusCounts DEF WakeUp
    <3> QED
      BY <2>1, <2>2, <2>4, <2>9, <3>2, <3>3 DEF WakeUp
  <2>10. CASE Buffer
    BY <2>1, <2>2, <2>3, <2>10 DEF Buffer
  <2>11. CASE Finish
    <3>1. idle.slots \in Seq(Nat) /\ Len(idle.slots) \in Nat
      BY DEF IdleBuffer
    <3>2. out \o idle.slots \in Seq(Nat)
      BY <3>1
    <3>3. stats' \in Stats
      BY <2>11, <3>1, PlusCounts DEF Finish
    <3> QED
      BY <2>1, <2>11, <3>2, <3>3 DEF Finish
  <2>12. CASE Abort
    <3>1. PICK n \in 0 .. Len(out) : out' = SubSeq(out, 1, n)
      BY <2>12 DEF Abort
    <3>2. out' \in Seq(Nat)
      <4>1. \A i \in 1 .. n : out[i] \in Nat
        OBVIOUS
      <4> QED
        BY <3>1, <4>1, SubSeqProperties
    <3> QED
      BY <2>1, <2>12, <3>2 DEF Abort
  <2> QED
    BY <1>2, <2>5, <2>6, <2>7, <2>8, <2>9, <2>10, <2>11, <2>12 DEF FilterNext
<1> QED
  BY <1>1, <1>2

(* The filter's variables keep their types, for every input.               *)
THEOREM FilterTypes == FilterSpec => []FilterTypeOK
<1> DEFINE I == FilterTypeOK /\ raw \in RawFile
<1>1. raw \in RawFile /\ FilterInit => I
  BY DEF FilterInit, FilterTypeOK, EmptyBuffer, NoStats, RawFile, IdleBuffer, Stats
<1>2. I /\ [FilterNext]_fall => I'
  BY TypeStep
<1> QED
  BY <1>1, <1>2, PTL DEF FilterSpec, fall

---------------------------------------------------------------------------
Inv == Undecided /\ Decided /\ Tallied

Running == FilterTypeOK /\ raw \in RawFile /\ HltIsKernel /\ Inv

(* The facts every step starts from.                                       *)
LEMMA Facts ==
  ASSUME Running
  PROVE  /\ idle.slots \in Seq(Nat) /\ Len(idle.slots) \in Nat /\ out \in Seq(Nat)
         /\ DOMAIN idle.slots = 1 .. Len(idle.slots)
         /\ Len(out) \in Nat /\ pos \in Nat /\ idle.kernel_count \in Nat
         /\ Settled \in Nat /\ Settled <= pos /\ Settled + Len(idle.slots) = pos
         /\ \A c \in Counter : stats[c] \in Nat
         /\ raw.recs \in Seq(Insns)
<1>1. raw.recs \in Seq(Insns)
  BY DEF Running, RawFile
<1>2. pos \in Nat
  BY <1>1 DEF Running, FilterTypeOK
<1>3. /\ idle.slots \in Seq(Nat) /\ out \in Seq(Nat) /\ idle.kernel_count \in Nat
      /\ \A c \in Counter : stats[c] \in Nat
  BY DEF Running, FilterTypeOK, IdleBuffer, Stats
<1>4. Len(idle.slots) \in Nat /\ DOMAIN idle.slots = 1 .. Len(idle.slots) /\ Len(out) \in Nat
  BY <1>3
<1>5. Len(idle.slots) <= pos
  BY DEF Running, Inv, Undecided
<1> QED
  BY <1>1, <1>2, <1>3, <1>4, <1>5 DEF Settled

(* ... and what it knows about the record it reads.                        *)
LEMMA Next ==
  ASSUME Running, ReadRecord
  PROVE  /\ pos' = pos + 1 /\ pos + 1 \in DOMAIN raw.recs
         /\ rec = raw.recs[pos + 1] /\ rec.hlt \in BOOLEAN /\ rec.user \in BOOLEAN
         /\ rec.hlt => ~rec.user
<1>1. /\ pos \in Nat /\ pos' = pos + 1 /\ pos + 1 \in DOMAIN raw.recs
      /\ rec = raw.recs[pos + 1] /\ rec.hlt \in BOOLEAN /\ rec.user \in BOOLEAN
  BY RecordRead DEF Running
<1> QED
  BY <1>1 DEF Running, HltIsKernel

(* The counters one by one.                                                *)
LEMMA Seen_is ==
  ASSUME Running, ReadRecord
  PROVE  /\ Seen \in Stats
         /\ Seen.in_user = stats.in_user + One(rec.user)
         /\ Seen.out_user = stats.out_user /\ Seen.out_kernel = stats.out_kernel
         /\ Seen.idle_discarded = stats.idle_discarded
<1>1. stats \in Stats
  BY DEF Running, FilterTypeOK
<1>2. \A c \in Counter : stats[c] \in Nat
  BY <1>1 DEF Stats
<1>3. Seen \in Stats
  BY <1>1, Next, SeenCounts
<1> QED
  BY <1>2, <1>3 DEF Seen, Plus, Counter

(* The trace stays what it is, and so does what is idle in it.             *)
LEMMA SameTrace ==
  ASSUME raw' = raw, NEW m, NEW n, NEW o, Settled' = m, pos' = n, out' = o,
         DecidedUpTo(m, n, o)
  PROVE  Decided'
BY DEF Decided, DecidedUpTo, Increasing, IdleBefore

(* What has been counted so far; and a record counts once.                 *)
CountedSoFar ==
  /\ stats.in_user \in Nat /\ stats.out_user \in Nat /\ stats.out_kernel \in Nat
  /\ stats.idle_discarded \in Nat /\ Len(out) \in Nat /\ pos \in Nat
  /\ Len(idle.slots) \in Nat

Places ==
  /\ Len(out) + stats.idle_discarded + Len(idle.slots) = pos
  /\ idle.kernel_count = Len(idle.slots)

Modes ==
  stats.out_user + stats.out_kernel = Len(out) /\ stats.out_user = stats.in_user

(* What the invariant says of the numbers.                                 *)
LEMMA Numbers == Running => CountedSoFar /\ Places /\ Modes
<1> SUFFICES ASSUME Running PROVE CountedSoFar /\ Places /\ Modes
  OBVIOUS
<1>1. Tallied
  BY DEF Running, Inv
<1> QED
  BY <1>1, Facts DEF Counter, Tallied, CountedSoFar, Places, Modes

(* One more or one less.                                                   *)
LEMMA Ones ==
  \A b \in BOOLEAN : One(b) \in Nat /\ One(~b) \in Nat /\ One(b) + One(~b) = 1
BY DEF One

(* The sums of Places and Modes, when a record goes to one of the lists or *)
(* when the list that is held back is written.                             *)
LEMMA PlacesSums ==
  ASSUME Running
  PROVE  /\ (Len(out) + 1) + stats.idle_discarded + Len(idle.slots) = pos + 1
         /\ Len(out) + stats.idle_discarded + (Len(idle.slots) + 1) = pos + 1
         /\ (Len(out) + (Len(idle.slots) + 1)) + stats.idle_discarded + 0 = pos + 1
         /\ (Len(out) + Len(idle.slots)) + stats.idle_discarded = pos
<1> DEFINE a == Len(out)
           b == stats.idle_discarded
           c == Len(idle.slots)
<1>1. a \in Nat /\ b \in Nat /\ c \in Nat
  BY Numbers DEF CountedSoFar
<1>2. a + b + c = pos
  BY Numbers DEF Places
<1> HIDE DEF a, b, c
<1>3. /\ (a + 1) + b + c = pos + 1 /\ a + b + (c + 1) = pos + 1
      /\ (a + (c + 1)) + b + 0 = pos + 1 /\ (a + c) + b = pos
  BY <1>1, <1>2
<1> QED
  BY <1>3, Zenon DEF a, b, c

(* The counters of one mode, together.                                     *)
LEMMA ModesSums ==
  ASSUME Running
  PROVE  /\ (stats.out_user + 1) + (stats.out_kernel + Len(idle.slots))
               = Len(out) + (Len(idle.slots) + 1)
         /\ stats.out_user + (stats.out_kernel + Len(idle.slots)) = Len(out) + Len(idle.slots)
<1> DEFINE a == stats.out_user
           b == stats.out_kernel
           c == Len(idle.slots)
           n == Len(out)
<1>1. a \in Nat /\ b \in Nat /\ c \in Nat /\ n \in Nat
  BY Numbers DEF CountedSoFar
<1>2. a + b = n
  BY Numbers DEF Modes
<1> HIDE DEF a, b, c, n
<1>3. (a + 1) + (b + c) = n + (c + 1) /\ a + (b + c) = n + c
  BY <1>1, <1>2
<1> QED
  BY <1>3, Zenon DEF a, b, c, n

(* An instruction of the working CPU.                                      *)
LEMMA CopyKeeps == Running /\ Copy /\ UNCHANGED files => Inv'
<1> SUFFICES ASSUME Running, Copy, raw' = raw PROVE Inv'
  BY DEF files
<1>0. CountedSoFar /\ Places /\ Modes
  BY Numbers
<1>1. ReadRecord /\ state = "ACTIVE" /\ ~rec.hlt /\ out' = Append(out, pos + 1)
      /\ idle' = idle /\ state' = state
  BY DEF Copy
<1>2. /\ pos' = pos + 1 /\ ~raw.recs[pos + 1].hlt /\ idle.slots = << >> /\ Settled = pos
      /\ Settled' = pos + 1 /\ pos \in Nat /\ Len(idle.slots) = 0
  <2>1. pos' = pos + 1 /\ ~raw.recs[pos + 1].hlt
    BY <1>1, Next
  <2>2. idle.slots = << >>
    BY <1>1 DEF Running, Inv, Undecided
  <2> QED
    BY <1>1, <2>1, <2>2, Facts DEF Settled
<1>3. Undecided'
  BY <1>1, <1>2, Facts DEF Undecided, Running, Inv
<1>4. Decided'
  <2>1. out' = out \o <<pos + 1>>
    BY <1>1, <1>2, Facts
  <2>2. /\ <<pos + 1>> \in Seq(Nat) /\ Len(<<pos + 1>>) = 1
        /\ \A k \in DOMAIN <<pos + 1>> : <<pos + 1>>[k] = pos + k
    BY <1>2
  <2>3. DecidedUpTo(pos, pos, out)
    BY <1>2 DEF Running, Inv, Decided
  <2>4. pos + 1 \in Nat /\ \A k \in pos + 2 .. pos : ~raw.recs[k].hlt
    BY <1>2
  <2>5. DecidedUpTo(pos + 1, pos + 1, out \o <<pos + 1>>)
    BY <2>2, <2>3, <2>4, <1>2, Facts, WrittenAre
  <2> QED
    BY <2>1, <2>5, <1>2, SameTrace
<1>5. Tallied'
  <2>1. /\ stats'.out_user = Seen.out_user + One(rec.user)
        /\ stats'.out_kernel = Seen.out_kernel + One(~rec.user)
        /\ stats'.idle_discarded = Seen.idle_discarded + 0
        /\ stats'.in_user = Seen.in_user + 0
    BY DEF Copy, Plus, Counter
  <2>2. Len(out') = Len(out) + 1
    BY <1>1, <1>2, Facts
  <2>3. One(rec.user) \in Nat /\ One(~rec.user) \in Nat /\ One(rec.user) + One(~rec.user) = 1
    BY <1>1, Next, Ones
  <2>4. /\ stats'.out_user = stats.out_user + One(rec.user)
        /\ stats'.out_kernel = stats.out_kernel + One(~rec.user)
        /\ stats'.idle_discarded = stats.idle_discarded
        /\ stats'.in_user = stats.in_user + One(rec.user)
    BY <1>0, <2>1, <2>3, <1>1, Seen_is DEF CountedSoFar
  <2>5. idle'.kernel_count = idle.kernel_count /\ Len(idle'.slots) = Len(idle.slots)
    BY <1>1
  <2> QED
    <3>1. Places'
      <4>1. (Len(out) + 1) + stats.idle_discarded + Len(idle.slots) = pos + 1
        BY PlacesSums
      <4> QED
        BY <4>1, <1>0, <2>2, <2>4, <2>5, <1>2, Zenon DEF Places
    <3>2. Modes'
      BY <1>0, <2>2, <2>3, <2>4 DEF CountedSoFar, Modes
    <3> QED
      BY <3>1, <3>2 DEF Tallied, Places, Modes
<1> QED
  BY <1>3, <1>4, <1>5 DEF Inv

(* Held back alone: the HLT a candidate starts with.                       *)
LEMMA Alone ==
  ASSUME Running, ReadRecord, rec.hlt, idle' = idle_buffer_append(EmptyBuffer, ~rec.user)
  PROVE  idle'.slots = <<pos + 1>> /\ Len(idle'.slots) = 1 /\ idle'.kernel_count = 1
BY Next DEF idle_buffer_append, EmptyBuffer, One

(* The working CPU halts: its HLT is held back, nothing else changes.      *)
LEMMA FirstHltKeeps == Running /\ FirstHlt /\ UNCHANGED files => Inv'
<1> SUFFICES ASSUME Running, FirstHlt, raw' = raw PROVE Inv'
  BY DEF files
<1>0. CountedSoFar /\ Places /\ Modes
  BY Numbers
<1>1. /\ ReadRecord /\ state = "ACTIVE" /\ rec.hlt /\ out' = out /\ stats' = Seen
      /\ state' = "IDLE_CANDIDATE"
  BY DEF FirstHlt
<1>2. idle'.slots = <<pos + 1>> /\ Len(idle'.slots) = 1 /\ idle'.kernel_count = 1
  BY <1>1, Alone DEF FirstHlt
<1>3. /\ pos' = pos + 1 /\ raw.recs[pos + 1].hlt /\ ~raw.recs[pos + 1].user /\ pos \in Nat
      /\ ~rec.user
  BY <1>1, Next, Facts
<1>4. idle.slots = << >> /\ Settled = pos /\ Settled' = pos
  BY <1>1, <1>2, <1>3 DEF Running, Inv, Undecided, Settled
<1>5. Undecided'
  BY <1>1, <1>2, <1>3, <1>4 DEF Undecided
<1>6. Decided'
  <2>1. DecidedUpTo(pos, pos, out)
    BY <1>4 DEF Running, Inv, Decided
  <2>2. \A a \in 1 .. pos : raw.recs[a].hlt => \E k \in a .. pos : raw.recs[k].user
    BY <1>1 DEF Running, Inv, Undecided
  <2>3. DecidedUpTo(pos, pos + 1, out)
    BY <2>1, <2>2, <1>3, HltAfterWork
  <2> QED
    BY <2>3, <1>1, <1>3, <1>4, SameTrace
<1>7. Tallied'
  <2>1. One(rec.user) = 0
    BY <1>3 DEF One
  <2>2. Len(idle.slots) = 0
    BY <1>4
  <2> QED
    <3>1. Places'
      BY <1>0, <2>1, <2>2, <1>1, <1>2, <1>3, Seen_is DEF CountedSoFar, Places
    <3>2. Modes'
      BY <1>0, <2>1, <2>2, <1>1, <1>2, <1>3, Seen_is DEF CountedSoFar, Modes
    <3> QED
      BY <3>1, <3>2 DEF Tallied, Places, Modes
<1> QED
  BY <1>5, <1>6, <1>7 DEF Inv

(* A HLT after the HLT: the iteration in between is dropped.               *)
LEMMA NextHltKeeps == Running /\ NextHlt /\ UNCHANGED files => Inv'
<1> SUFFICES ASSUME Running, NextHlt, raw' = raw PROVE Inv'
  BY DEF files
<1>0. CountedSoFar /\ Places /\ Modes
  BY Numbers
<1>1. /\ ReadRecord /\ state = "IDLE_CANDIDATE" /\ rec.hlt /\ out' = out
      /\ state' = "IDLE_CANDIDATE"
  BY DEF NextHlt
<1>2. idle'.slots = <<pos + 1>> /\ Len(idle'.slots) = 1 /\ idle'.kernel_count = 1
  BY <1>1, Alone DEF NextHlt
<1>3. /\ pos' = pos + 1 /\ raw.recs[pos + 1].hlt /\ ~raw.recs[pos + 1].user /\ pos \in Nat
      /\ ~rec.user
  BY <1>1, Next, Facts
<1>4. Settled' = pos
  BY <1>2, <1>3 DEF Settled
<1>5. Undecided'
  BY <1>1, <1>2, <1>3, <1>4 DEF Undecided
<1>6. Decided'
  <2>1. /\ raw.recs[Settled + 1].hlt /\ idle.slots # << >>
        /\ \A k \in Settled + 1 .. pos : ~raw.recs[k].user
    BY <1>1 DEF Running, Inv, Undecided
  <2>2. Settled < pos /\ Settled \in Nat
    BY <2>1, Facts
  <2>3. \A k \in Settled + 1 .. pos + 1 : ~raw.recs[k].user
    BY <2>1, <2>2, <1>3
  <2>4. DecidedUpTo(Settled, pos, out)
    BY DEF Running, Inv, Decided
  <2>5. DecidedUpTo(pos, pos + 1, out)
    BY <2>1, <2>2, <2>3, <2>4, <1>3, HltAfterHlt
  <2> QED
    BY <2>5, <1>1, <1>3, <1>4, SameTrace
<1>7. Tallied'
  <2>1. One(rec.user) = 0
    BY <1>3 DEF One
  <2>2. /\ stats'.out_user = Seen.out_user + 0
        /\ stats'.out_kernel = Seen.out_kernel + 0
        /\ stats'.idle_discarded = Seen.idle_discarded + idle.kernel_count
        /\ stats'.in_user = Seen.in_user + 0
    BY DEF NextHlt, Plus, Counter
  <2>3. /\ stats'.out_user = stats.out_user /\ stats'.out_kernel = stats.out_kernel
        /\ stats'.idle_discarded = stats.idle_discarded + Len(idle.slots)
        /\ stats'.in_user = stats.in_user
    <3>1. idle.kernel_count = Len(idle.slots)
      BY <1>0 DEF Places
    <3> QED
      BY <1>0, <2>1, <2>2, <3>1, <1>1, Seen_is DEF CountedSoFar
  <2> QED
    <3>1. Places'
      BY <1>0, <2>3, <1>1, <1>2, <1>3 DEF CountedSoFar, Places
    <3>2. Modes'
      BY <1>0, <2>3, <1>1, <1>2, <1>3 DEF CountedSoFar, Modes
    <3> QED
      BY <3>1, <3>2 DEF Tallied, Places, Modes
<1> QED
  BY <1>5, <1>6, <1>7 DEF Inv

(* The kernel goes on: its instruction is held back with the others.       *)
LEMMA BufferKeeps == Running /\ Buffer /\ UNCHANGED files => Inv'
<1> SUFFICES ASSUME Running, Buffer, raw' = raw PROVE Inv'
  BY DEF files
<1>0. CountedSoFar /\ Places /\ Modes
  BY Numbers
<1>1. /\ ReadRecord /\ state = "IDLE_CANDIDATE" /\ ~rec.hlt /\ ~rec.user /\ out' = out
      /\ state' = state /\ stats' = Seen /\ idle' = idle_buffer_append(idle, TRUE)
  BY DEF Buffer
<1>2. /\ pos' = pos + 1 /\ ~raw.recs[pos + 1].hlt /\ ~raw.recs[pos + 1].user
      /\ pos \in Nat
  BY <1>1, Next, Facts
<1>3. /\ idle'.slots = Append(idle.slots, pos + 1)
      /\ idle'.kernel_count = idle.kernel_count + 1
  BY <1>1 DEF idle_buffer_append, One
<1>4. /\ Len(idle'.slots) = Len(idle.slots) + 1 /\ DOMAIN idle'.slots = 1 .. Len(idle.slots) + 1
      /\ idle'.slots # << >>
      /\ \A k \in 1 .. Len(idle.slots) : idle'.slots[k] = idle.slots[k]
      /\ idle'.slots[Len(idle.slots) + 1] = pos + 1
  <2>1. pos + 1 \in Nat /\ idle.slots \in Seq(Nat)
    BY <1>2, Facts
  <2> QED
    <3>1. /\ idle'.slots \in Seq(Nat) /\ idle'.slots # << >>
          /\ Len(idle'.slots) = Len(idle.slots) + 1
          /\ \A k \in 1 .. Len(idle.slots) : idle'.slots[k] = idle.slots[k]
          /\ idle'.slots[Len(idle.slots) + 1] = pos + 1
      <4>1. /\ Append(idle.slots, pos + 1) \in Seq(Nat)
            /\ Append(idle.slots, pos + 1) # << >>
            /\ Len(Append(idle.slots, pos + 1)) = Len(idle.slots) + 1
            /\ \A k \in 1 .. Len(idle.slots) :
                 Append(idle.slots, pos + 1)[k] = idle.slots[k]
            /\ Append(idle.slots, pos + 1)[Len(idle.slots) + 1] = pos + 1
        BY <2>1, AppendProperties
      <4>2. idle'.slots = Append(idle.slots, pos + 1)
        BY <1>3
      <4> QED
        BY <4>1, <4>2, Zenon
    <3>2. DOMAIN idle'.slots = 1 .. Len(idle'.slots)
      BY <3>1, LenProperties
    <3> QED
      BY <3>1, <3>2
<1>5. Settled' = Settled
  BY <1>2, <1>4, Facts DEF Settled
<1>6. Undecided'
  <2>1. /\ \A k \in 1 .. Len(idle.slots) : idle.slots[k] = Settled + k
        /\ \A k \in Settled + 2 .. pos : ~raw.recs[k].hlt
        /\ raw.recs[Settled + 1].hlt
        /\ \A k \in Settled + 1 .. pos : ~raw.recs[k].user
    BY <1>1, Facts DEF Running, Inv, Undecided
  <2>2. \A k \in DOMAIN idle'.slots : idle'.slots[k] = Settled' + k
    <3>1. pos + 1 = Settled + (Len(idle.slots) + 1)
      BY Facts
    <3>2. ASSUME NEW k \in 1 .. Len(idle.slots) + 1
          PROVE  k \in 1 .. Len(idle.slots) \/ k = Len(idle.slots) + 1
      BY Facts
    <3>3. ASSUME NEW k \in 1 .. Len(idle.slots) + 1
          PROVE  idle'.slots[k] = Settled + k
      BY <3>1, <3>2, <2>1, <1>4
    <3> QED
      BY <3>3, <1>4, <1>5
  <2>3. \A k \in Settled + 2 .. pos + 1 : ~raw.recs[k].hlt
    <3>1. ASSUME NEW k \in Settled + 2 .. pos + 1
          PROVE  k \in Settled + 2 .. pos \/ k = pos + 1
      BY <1>2, Facts
    <3> QED
      BY <3>1, <2>1, <1>2
  <2>4. \A k \in Settled + 1 .. pos + 1 : ~raw.recs[k].user
    <3>1. ASSUME NEW k \in Settled + 1 .. pos + 1
          PROVE  k \in Settled + 1 .. pos \/ k = pos + 1
      BY <1>2, Facts
    <3> QED
      BY <3>1, <2>1, <1>2
  <2>5. Len(idle'.slots) <= pos'
    BY <1>2, <1>4, Facts
  <2> QED
    BY <2>1, <2>2, <2>3, <2>4, <2>5, <1>1, <1>2, <1>4, <1>5 DEF Undecided
<1>7. Decided'
  <2>1. DecidedUpTo(Settled, pos, out)
    BY DEF Running, Inv, Decided
  <2>2. DecidedUpTo(Settled, pos + 1, out)
    BY <2>1, <1>2, Facts, NoHltDecidesNothing
  <2> QED
    BY <2>2, <1>1, <1>2, <1>5, SameTrace
<1>8. Tallied'
  <2>1. One(rec.user) = 0
    BY <1>1 DEF One
  <2> QED
    <3>1. /\ stats'.out_user = stats.out_user /\ stats'.out_kernel = stats.out_kernel
          /\ stats'.idle_discarded = stats.idle_discarded /\ stats'.in_user = stats.in_user
          /\ Len(out') = Len(out)
      BY <1>0, <2>1, <1>1, Seen_is DEF CountedSoFar
    <3>2. Len(idle'.slots) = Len(idle.slots) + 1 /\ idle'.kernel_count = Len(idle.slots) + 1
      BY <1>0, <1>3, <1>4 DEF Places
    <3>3. Places'
      <4>1. Len(out) + stats.idle_discarded + (Len(idle.slots) + 1) = pos + 1
        BY PlacesSums
      <4> QED
        BY <4>1, <3>1, <3>2, <1>2, Zenon DEF Places
    <3>4. Modes'
      BY <1>0, <3>1 DEF CountedSoFar, Modes
    <3> QED
      BY <3>3, <3>4 DEF Tallied, Places, Modes
<1> QED
  BY <1>6, <1>7, <1>8 DEF Inv

(* What is written behind the decided records, when the machine makes up   *)
(* its mind in favour of what it holds back: all of it, and one record     *)
(* more when it is woken by that.                                          *)
LEMMA Released ==
  ASSUME Running, NEW y \in Seq(Nat), NEW l \in Nat, Settled + Len(y) = l,
         \A k \in DOMAIN y : y[k] = Settled + k,
         l = pos \/ (l = pos + 1 /\ ~raw.recs[l].hlt)
  PROVE  /\ out \o y \in Seq(Nat) /\ DecidedUpTo(l, l, out \o y)
         /\ Len(out \o y) = Len(out) + Len(y)
<1>1. DecidedUpTo(Settled, pos, out) /\ \A k \in Settled + 2 .. pos : ~raw.recs[k].hlt
  BY DEF Running, Inv, Decided, Undecided
<1>2. out \o y \in Seq(Nat) /\ DecidedUpTo(l, l, out \o y)
  BY <1>1, Facts, WrittenAre
<1>3. Len(out \o y) = Len(out) + Len(y)
  BY Facts, ConcatProperties
<1> QED
  BY <1>2, <1>3

(* User mode: the CPU was woken for something, and everything is kept.     *)
LEMMA WakeUpKeeps == Running /\ WakeUp /\ UNCHANGED files => Inv'
<1> SUFFICES ASSUME Running, WakeUp, raw' = raw PROVE Inv'
  BY DEF files
<1>0. CountedSoFar /\ Places /\ Modes
  BY Numbers
<1> DEFINE y == Append(idle.slots, pos + 1)
<1>1. /\ ReadRecord /\ state = "IDLE_CANDIDATE" /\ ~rec.hlt /\ rec.user
      /\ out' = out \o y /\ state' = "ACTIVE" /\ idle' = EmptyBuffer
  BY DEF WakeUp
<1>2. /\ pos' = pos + 1 /\ ~raw.recs[pos + 1].hlt /\ raw.recs[pos + 1].user
      /\ pos \in Nat
  BY <1>1, Next, Facts
<1>3. /\ y \in Seq(Nat) /\ Len(y) = Len(idle.slots) + 1
      /\ \A k \in 1 .. Len(idle.slots) : y[k] = idle.slots[k]
      /\ y[Len(idle.slots) + 1] = pos + 1
  <2>1. pos + 1 \in Nat /\ idle.slots \in Seq(Nat)
    BY <1>2, Facts
  <2> QED
    BY <2>1, AppendProperties
<1> HIDE DEF y
<1>4. /\ idle'.slots = << >> /\ Len(idle'.slots) = 0 /\ idle'.kernel_count = 0
      /\ Settled' = pos + 1
  BY <1>1, <1>2 DEF EmptyBuffer, Settled
<1>5. Undecided'
  <2>1. \A a \in 1 .. pos + 1 : \E k \in a .. pos + 1 : raw.recs[k].user
    BY <1>2
  <2> QED
    BY <2>1, <1>1, <1>2, <1>4 DEF Undecided
<1>6. DecidedUpTo(pos + 1, pos + 1, out \o y) /\ Len(out \o y) = Len(out) + Len(y)
  <2>1. DOMAIN y = 1 .. Len(idle.slots) + 1
    BY <1>3
  <2>2. ASSUME NEW k \in DOMAIN y
        PROVE  y[k] = Settled + k
    <3>1. k \in 1 .. Len(idle.slots) \/ k = Len(idle.slots) + 1
      BY <2>1, Facts
    <3>2. pos + 1 = Settled + (Len(idle.slots) + 1)
      BY Facts
    <3>3. \A j \in 1 .. Len(idle.slots) : idle.slots[j] = Settled + j
      BY Facts DEF Running, Inv, Undecided
    <3> QED
      BY <3>1, <3>2, <3>3, <1>3
  <2>3. Settled + Len(y) = pos + 1 /\ pos + 1 \in Nat
    <3>1. Settled + Len(idle.slots) = pos /\ Settled \in Nat /\ Len(idle.slots) \in Nat
      BY Facts
    <3>2. Settled + (Len(idle.slots) + 1) = pos + 1
      BY <3>1
    <3> QED
      BY <3>2, <1>2, <1>3
  <2> QED
    BY <2>2, <2>3, <1>2, <1>3, Released
<1>7. Decided'
  BY <1>1, <1>2, <1>4, <1>6, SameTrace
<1>8. Tallied'
  <2>1. One(rec.user) = 1
    BY <1>1 DEF One
  <2>2. /\ stats'.out_user = Seen.out_user + 1
        /\ stats'.out_kernel = Seen.out_kernel + Len(idle.slots)
        /\ stats'.idle_discarded = Seen.idle_discarded + 0
        /\ stats'.in_user = Seen.in_user + 0
    BY DEF WakeUp, Plus, Counter
  <2>3. /\ stats'.out_user = stats.out_user + 1
        /\ stats'.out_kernel = stats.out_kernel + Len(idle.slots)
        /\ stats'.idle_discarded = stats.idle_discarded
        /\ stats'.in_user = stats.in_user + 1
    BY <1>0, <2>1, <2>2, <1>1, Seen_is DEF CountedSoFar
  <2>4. Len(out') = Len(out) + (Len(idle.slots) + 1)
    BY <1>1, <1>3, <1>6
  <2> QED
    <3>1. Places'
      <4>1. (Len(out) + (Len(idle.slots) + 1)) + stats.idle_discarded + 0 = pos + 1
        BY PlacesSums
      <4>2. /\ Len(out') + stats'.idle_discarded + Len(idle'.slots) = pos'
            /\ idle'.kernel_count = Len(idle'.slots)
        BY <4>1, <2>3, <2>4, <1>2, <1>4, Zenon
      <4> QED
        BY <4>2 DEF Places
    <3>2. Modes'
      <4>1. (stats.out_user + 1) + (stats.out_kernel + Len(idle.slots))
              = Len(out) + (Len(idle.slots) + 1)
        BY ModesSums
      <4>2. stats.out_user = stats.in_user
        BY <1>0 DEF Modes
      <4> QED
        BY <4>1, <4>2, <2>3, <2>4, Zenon DEF Modes
    <3> QED
      BY <3>1, <3>2 DEF Tallied, Places, Modes
<1> QED
  BY <1>5, <1>7, <1>8 DEF Inv

(* The end of the input, wherever it is: what is held back is flushed, and *)
(* the output is exact.                                                    *)
LEMMA FinishExact == Running /\ Finish /\ UNCHANGED files => FilterExact'
<1> SUFFICES ASSUME Running, Finish, raw' = raw PROVE FilterExact'
  BY DEF files
<1>0. CountedSoFar /\ Places /\ Modes
  BY Numbers
<1>1. /\ pos = Len(raw.recs) /\ out' = out \o idle.slots
      /\ stats' = Plus(stats, [ out_kernel |-> Len(idle.slots) ])
  BY DEF Finish
<1>2. DecidedUpTo(pos, pos, out \o idle.slots)
      /\ Len(out \o idle.slots) = Len(out) + Len(idle.slots)
  <2>1. \A k \in DOMAIN idle.slots : idle.slots[k] = Settled + k
    BY DEF Running, Inv, Undecided
  <2> QED
    <3>1. /\ idle.slots \in Seq(Nat) /\ pos \in Nat
          /\ Settled + Len(idle.slots) = pos
      BY Facts
    <3> QED
      BY <2>1, <3>1, Released
<1>3. DOMAIN raw.recs = 1 .. pos
  BY <1>1, Facts
<1>4. \A i \in DOMAIN raw.recs : (\E j \in DOMAIN out' : out'[j] = i) <=> ~IdleBefore(i, pos)
  BY <1>1, <1>2, <1>3 DEF DecidedUpTo
<1>5. Removed = {i \in DOMAIN raw.recs : IdleBefore(i, pos)}
  BY <1>1 DEF Removed, IdleIteration, IdleBefore
<1>6. Removed' = Removed
  BY DEF Removed, IdleIteration
<1>7. Increasing(out')
  BY <1>1, <1>2 DEF DecidedUpTo
<1>8. /\ Len(out') + stats'.idle_discarded = Len(raw.recs)
      /\ stats'.out_user + stats'.out_kernel = Len(out')
      /\ stats'.out_user = stats'.in_user
  <2>1. /\ stats'.out_user = stats.out_user + 0
        /\ stats'.out_kernel = stats.out_kernel + Len(idle.slots)
        /\ stats'.idle_discarded = stats.idle_discarded + 0
        /\ stats'.in_user = stats.in_user + 0
    BY <1>1 DEF Plus, Counter
  <2>2. Len(out') = Len(out) + Len(idle.slots)
    BY <1>1, <1>2
  <2> QED
    <3>1. /\ stats'.out_user = stats.out_user
          /\ stats'.out_kernel = stats.out_kernel + Len(idle.slots)
          /\ stats'.idle_discarded = stats.idle_discarded /\ stats'.in_user = stats.in_user
      BY <1>0, <2>1 DEF CountedSoFar
    <3>2. Len(out') + stats'.idle_discarded = Len(raw.recs)
      <4>1. (Len(out) + Len(idle.slots)) + stats.idle_discarded = pos
        BY PlacesSums
      <4> QED
        BY <4>1, <3>1, <2>2, <1>1, Zenon
    <3>3. stats'.out_user + stats'.out_kernel = Len(out') /\ stats'.out_user = stats'.in_user
      <4>1. stats.out_user + (stats.out_kernel + Len(idle.slots)) = Len(out) + Len(idle.slots)
        BY ModesSums
      <4>2. stats.out_user = stats.in_user
        BY <1>0 DEF Modes
      <4> QED
        BY <4>1, <4>2, <3>1, <2>2, Zenon
    <3> QED
      BY <3>2, <3>3
<1> QED
  BY <1>4, <1>5, <1>6, <1>7, <1>8 DEF FilterExact, Increasing

(* The machine starts with nothing read, held back or written.             *)
LEMMA StartsEmpty == raw \in RawFile /\ FilterInit => Inv
<1> SUFFICES ASSUME raw \in RawFile, FilterInit PROVE Inv
  OBVIOUS
<1>1. /\ pos = 0 /\ idle.slots = << >> /\ idle.kernel_count = 0 /\ out = << >>
      /\ Len(idle.slots) = 0
      /\ state = "ACTIVE" /\ \A c \in Counter : stats[c] = 0
  BY DEF FilterInit, EmptyBuffer, NoStats
<1>2. Settled = 0
  <2>1. pos = 0 /\ Len(idle.slots) = 0
    BY <1>1
  <2> QED
    BY <2>1 DEF Settled
<1>3. Undecided
  BY <1>1, <1>2 DEF Undecided
<1>4. Decided
  BY <1>1, <1>2 DEF Decided, DecidedUpTo, Increasing
<1>5. Tallied
  BY <1>1 DEF Tallied, Counter
<1> QED
  BY <1>3, <1>4, <1>5 DEF Inv

(* OnePass is inductive, and FilterExact holds with it.                    *)
FilterInv == FilterTypeOK /\ raw \in RawFile /\ OnePass /\ FilterExact

(* Every step of the filter keeps FilterInv.                               *)
LEMMA FilterInvStep == FilterInv /\ [FilterNext]_fall => FilterInv'
<1> SUFFICES ASSUME FilterInv, [FilterNext]_fall PROVE FilterInv'
  OBVIOUS
<1>1. FilterTypeOK' /\ (raw \in RawFile)'
  BY TypeStep DEF FilterInv
<1>2. CASE UNCHANGED fall
  <2>1. OnePass'
    BY <1>2 DEF FilterInv, OnePass, HltIsKernel, Undecided, Decided, DecidedUpTo,
                Increasing, IdleBefore, Tallied, Settled, fall, files, fvars
  <2>2. FilterExact'
    <3>1. UNCHANGED <<raw, filter, out, stats>>
      BY <1>2 DEF fall, files, fvars
    <3>2. HltIsKernel' = HltIsKernel /\ Removed' = Removed
      BY <3>1 DEF HltIsKernel, Removed, IdleIteration
    <3>3. FilterExact
      BY DEF FilterInv
    <3> QED
      BY <3>1, <3>2, <3>3 DEF FilterExact, Increasing
  <2> QED
    BY <1>1, <2>1, <2>2 DEF FilterInv
<1>3. CASE FilterNext
  <2>1. UNCHANGED files /\ raw' = raw
    BY <1>3 DEF FilterNext, files
  <2>2. HltIsKernel' <=> HltIsKernel
    BY <2>1 DEF HltIsKernel
  <2>3. CASE HltIsKernel /\ filter \in {"waiting", "running"}
    <3> SUFFICES OnePass' /\ FilterExact'
      BY <1>1 DEF FilterInv
    <3>1. Running /\ HltIsKernel'
      BY <2>2, <2>3 DEF Running, FilterInv, OnePass, Inv
    <3>2. filter' # "done" /\ Inv' => OnePass' /\ FilterExact'
      BY DEF OnePass, FilterExact, Inv
    <3>3. CASE OpenRaw
      <4>1. UNCHANGED <<state, pos, idle, out, stats>> /\ filter' # "done"
        BY <3>3 DEF OpenRaw
      <4>2. Inv'
        BY <3>1, <4>1, <2>1 DEF Running, Inv, Undecided, Decided, DecidedUpTo,
                                Increasing, IdleBefore, Tallied, Settled
      <4> QED
        BY <4>1, <4>2, <3>2
    <3>4. ASSUME ReadRecord
          PROVE  filter' # "done"
      BY <3>4, <2>3 DEF ReadRecord
    <3>5. CASE Copy
      BY <3>1, <3>2, <3>4, <3>5, <2>1, CopyKeeps DEF Copy
    <3>6. CASE FirstHlt
      BY <3>1, <3>2, <3>4, <3>6, <2>1, FirstHltKeeps DEF FirstHlt
    <3>7. CASE NextHlt
      BY <3>1, <3>2, <3>4, <3>7, <2>1, NextHltKeeps DEF NextHlt
    <3>8. CASE WakeUp
      BY <3>1, <3>2, <3>4, <3>8, <2>1, WakeUpKeeps DEF WakeUp
    <3>9. CASE Buffer
      BY <3>1, <3>2, <3>4, <3>9, <2>1, BufferKeeps DEF Buffer
    <3>10. CASE Finish
      <4>1. FilterExact'
        BY <3>1, <3>10, <2>1, FinishExact
      <4>2. filter' = "done"
        BY <3>10 DEF Finish
      <4> QED
        BY <4>1, <4>2 DEF OnePass
    <3>11. CASE Abort
      BY <3>11 DEF Abort, OnePass, FilterExact
    <3> QED
      BY <1>3, <3>3, <3>5, <3>6, <3>7, <3>8, <3>9, <3>10, <3>11 DEF FilterNext
  <2>4. CASE ~HltIsKernel
    BY <1>1, <2>2, <2>4 DEF FilterInv, OnePass, FilterExact
  <2>5. CASE filter \notin {"waiting", "running"}
    BY <1>3, <2>5 DEF FilterNext, OpenRaw, Copy, FirstHlt, NextHlt, WakeUp, Buffer,
                      ReadRecord, Finish, Abort
  <2> QED
    BY <1>1, <2>3, <2>4, <2>5 DEF FilterInv
<1> QED
  BY <1>2, <1>3

(* The one-pass machine removes exactly the idle iterations of its input,  *)
(* keeps the rest in its order and accounts for the difference, for every  *)
(* raw trace whose HLTs are in kernel mode.                                *)
THEOREM FilterIsExact == FilterSpec => []FilterExact
<1>1. raw \in RawFile /\ FilterInit => FilterInv
  <2> SUFFICES ASSUME raw \in RawFile, FilterInit PROVE FilterInv
    OBVIOUS
  <2>1. FilterTypeOK
    BY DEF FilterInit, FilterTypeOK, EmptyBuffer, NoStats, RawFile, IdleBuffer, Stats
  <2>2. Inv
    BY StartsEmpty
  <2>3. filter = "waiting"
    BY DEF FilterInit
  <2> QED
    BY <2>1, <2>2, <2>3 DEF FilterInv, OnePass, Inv, FilterExact
<1>2. FilterInv /\ [FilterNext]_fall => FilterInv'
  BY FilterInvStep
<1>3. FilterInv => FilterExact
  BY DEF FilterInv
<1> QED
  BY <1>1, <1>2, <1>3, PTL DEF FilterSpec, fall

---------------------------------------------------------------------------
(* Every non-empty set of numbers has a least one.                         *)
LEMMA LeastNat ==
  ASSUME NEW T, T \subseteq Nat, T # {}
  PROVE  \E x \in T : \A y \in T : x <= y
<1> DEFINE R == OpToRel(<, Nat)
<1>1. IsWellFoundedOn(R, Nat)
  BY NatLessThanWellFounded
<1> HIDE DEF R
<1>2. PICK x \in T : \A y \in T : ~(<<y, x>> \in R)
  BY <1>1, WFMin
<1>3. ASSUME NEW y \in T PROVE x <= y
  <2>1. ~(<<y, x>> \in OpToRel(<, Nat))
    BY <1>2 DEF R
  <2>2. ~(y < x)
    BY <2>1 DEF OpToRel
  <2> QED
    BY <2>2
<1> QED
  BY <1>3

(* Counting the members of X one number at a time.                         *)
LEMMA CountNext ==
  ASSUME NEW X, NEW k \in Nat
  PROVE  /\ Cardinality(X \cap (1 .. k)) \in 0 .. k
         /\ Cardinality(X \cap (1 .. k + 1))
              = Cardinality(X \cap (1 .. k)) + one(k + 1 \in X)
<1> DEFINE A == X \cap (1 .. k)
<1>1. /\ IsFiniteSet(1 .. k) /\ Cardinality(1 .. k) = k
  BY FS_Interval
<1>2. IsFiniteSet(A) /\ Cardinality(A) <= k /\ Cardinality(A) \in Nat
  BY <1>1, FS_Subset, FS_CardinalityType
<1>3. CASE k + 1 \in X
  <2>1. X \cap (1 .. k + 1) = A \cup {k + 1} /\ k + 1 \notin A
    BY <1>3
  <2>2. Cardinality(A \cup {k + 1}) = Cardinality(A) + 1
    BY <1>2, <2>1, FS_AddElement
  <2> QED
    BY <1>2, <1>3, <2>1, <2>2 DEF one
<1>4. CASE k + 1 \notin X
  <2>1. X \cap (1 .. k + 1) = A
    BY <1>4
  <2> QED
    BY <1>2, <1>4, <2>1 DEF one
<1> QED
  BY <1>3, <1>4

(* ... from none.                                                          *)
LEMMA CountNone == \A X : Cardinality(X \cap (1 .. 0)) = 0
BY FS_EmptySet

---------------------------------------------------------------------------
(* The decoders leave the branch type alone once it is known.              *)
HasFields(d) == DOMAIN d = {"ok", "is_branch", "instr_type", "src", "dst"}

(* add_reg touches the registers only.                                     *)
LEMMA SlotsKeepType ==
  ASSUME NEW d, HasFields(d), NEW reg
  PROVE  /\ HasFields(src(d, reg)) /\ src(d, reg).is_branch = d.is_branch
         /\ HasFields(dst(d, reg)) /\ dst(d, reg).is_branch = d.is_branch
BY DEF HasFields, src, dst

(* The type is that of the mnemonic, for x86 ...                           *)
LEMMA X86Type ==
  ASSUME NEW c
  PROVE  decode_x86(c).is_branch = IF c.mnem = "bad" THEN 0 ELSE classify_branch(c)
<1>1. CASE c.mnem = "bad"
  BY <1>1 DEF decode_x86, NoDecode
<1>2. CASE c.mnem # "bad"
  <2> DEFINE a == X86Operands(c)
             b == ReadFlags(c, a)
             e == UseStack(b)
             f == ReadPC(e)
  <2>1. HasFields(a) /\ a.is_branch = classify_branch(c)
    BY DEF X86Operands, Decoded, HasFields
  <2>2. decode_x86(c) = WritePC(f)
    BY <1>2 DEF decode_x86
  <2> HIDE DEF a
  <2>3. HasFields(b) /\ b.is_branch = a.is_branch
    BY <2>1, SlotsKeepType DEF ReadFlags
  <2> HIDE DEF b
  <2>4. HasFields(e) /\ e.is_branch = b.is_branch
    BY <2>3, SlotsKeepType DEF UseStack
  <2> HIDE DEF e
  <2>5. HasFields(f) /\ f.is_branch = e.is_branch
    BY <2>4, SlotsKeepType DEF ReadPC
  <2> HIDE DEF f
  <2>6. WritePC(f).is_branch = f.is_branch
    BY <2>5, SlotsKeepType DEF WritePC
  <2> QED
    BY <1>2, <2>1, <2>2, <2>3, <2>4, <2>5, <2>6
<1> QED
  BY <1>1, <1>2

(* ... and for AArch64.                                                    *)
LEMMA A64Type ==
  ASSUME NEW c
  PROVE  decode_aarch64(c).is_branch = IF c.mnem = "bad" THEN 0 ELSE classify_arm64_branch(c)
<1>1. CASE c.mnem = "bad"
  BY <1>1 DEF decode_aarch64, NoDecode
<1>2. CASE c.mnem # "bad"
  <2> DEFINE a == Implicit(c, A64Operands(c))
             b == UseLR(a)
             e == ReadNZCV(c, b)
             f == Redirect(e)
  <2>1. HasFields(a) /\ a.is_branch = classify_arm64_branch(c)
    BY DEF Implicit, Decoded, HasFields
  <2>2. decode_aarch64(c) = Typed(f)
    BY <1>2 DEF decode_aarch64
  <2> HIDE DEF a
  <2>3. HasFields(b) /\ b.is_branch = a.is_branch
    BY <2>1, SlotsKeepType DEF UseLR
  <2> HIDE DEF b
  <2>4. HasFields(e) /\ e.is_branch = b.is_branch
    BY <2>3, SlotsKeepType DEF ReadNZCV
  <2> HIDE DEF e
  <2>5. HasFields(f) /\ f.is_branch = e.is_branch
    BY <2>4 DEF Redirect, HasFields
  <2> HIDE DEF f
  <2>6. Typed(f).is_branch = f.is_branch
    BY <2>5 DEF Typed, HasFields
  <2> QED
    BY <1>2, <2>1, <2>2, <2>3, <2>4, <2>5, <2>6
<1> QED
  BY <1>1, <1>2

(* Both classifications have seven types of branch.                        *)
LEMMA Classes ==
  ASSUME NEW c
  PROVE  classify_branch(c) \in 0 .. 7 /\ classify_arm64_branch(c) \in 0 .. 7
BY DEF classify_branch, classify_arm64_branch

---------------------------------------------------------------------------
(* What retires is the branch its mnemonic says, as is what the decoder    *)
(* makes of it, and took says where it went.                               *)
Decoder(f, c) == IF f = "aarch64" THEN decode_aarch64(c) ELSE decode_x86(c)

Honest(f, r) ==
  /\ r.branch = Decoder(f, r.code).is_branch
  /\ r.branch \in 0 .. 7
  /\ r.took = (r.branch \notin {3, 7} \/ r.to # r.ip + r.size)

(* Everything the guest retires is honest.                                 *)
LEMMA Retires ==
  ASSUME NEW f \in Formats, NEW r \in Retired(f)
  PROVE  r \in Insns /\ Honest(f, r)
<1>1. PICK a \in DOMAIN Program[f], to \in DOMAIN Program[f] : r = Retire(f, a, to)
  BY DEF Retired
<1> DEFINE i == Program[f][a]
           c == i.code
<1>2. /\ r.branch = i.branch /\ r.code = c /\ r.to = to /\ r.ip = a /\ r.size = i.size
      /\ r.took = (i.branch \notin {3, 7} \/ to # a + i.size)
  BY <1>1 DEF Retire
<1>3. i.branch = IF c.mnem = "bad" THEN 0
                 ELSE IF f = "aarch64" THEN classify_arm64_branch(c) ELSE classify_branch(c)
  BY ProgramAssumption
<1>4. r \in Insns
  BY ProgramAssumption
<1> HIDE DEF c
<1>5. i.branch = Decoder(f, c).is_branch
  BY <1>3, X86Type, A64Type DEF Decoder
<1>6. i.branch \in 0 .. 7
  BY <1>3, Classes
<1> HIDE DEF i
<1> QED
  BY <1>2, <1>4, <1>5, <1>6 DEF Honest

(* What the converter may have in hand or write.                           *)
Decodes == {Decoder(f, r.code) : f \in RawFormat, r \in Insns}

Plain == {Record(r, d) : r \in Insns, d \in Decodes}

Written == Plain \cup {[p EXCEPT !.branch_taken = b] : p \in Plain, b \in BOOLEAN}

(* The record of r, and what its direction becomes.                        *)
Made(r) == Record(r, decode(r.code))

(* The record of r says what r is; its direction is still open.            *)
LEMMA MadeIs ==
  ASSUME NEW r \in Insns, input.format \in RawFormat, Honest(input.format, r)
  PROVE  LET p == Made(r)
         IN  /\ p \in Plain
             /\ p.ip = r.ip /\ p.size = r.size /\ p.branch_taken = FALSE
             /\ p.is_branch = (r.branch # 0)
             /\ p.is_branch => p.branch_type = r.branch - 1
             /\ \A b \in BOOLEAN :
                  LET q == [p EXCEPT !.branch_taken = b]
                  IN /\ q \in Written /\ q.branch_taken = b
                     /\ q.ip = p.ip /\ q.is_branch = p.is_branch
                     /\ q.branch_type = p.branch_type
<1> DEFINE d == decode(r.code)
<1>1. d = Decoder(input.format, r.code)
  BY DEF decode, Decoder
<1>2. d \in Decodes /\ d.is_branch = r.branch
  BY <1>1 DEF Decodes, Honest
<1> HIDE DEF d
<1> DEFINE p == Record(r, d)
<1>3. Made(r) = p
  BY DEF Made, d
<1>4. p \in Plain
  BY <1>2 DEF Plain
<1>5. /\ DOMAIN p = {"ip", "size", "user", "is_branch", "branch_taken", "branch_type",
                     "features", "instr_type", "src", "dst", "source_memory",
                     "destination_memory"}
      /\ p.ip = r.ip /\ p.size = r.size /\ p.branch_taken = FALSE
      /\ p.is_branch = (r.branch # 0)
      /\ p.is_branch => p.branch_type = r.branch - 1
  BY <1>2 DEF Record
<1> HIDE DEF p
<1>6. ASSUME NEW b \in BOOLEAN
      PROVE  LET q == [p EXCEPT !.branch_taken = b]
             IN /\ q \in Written /\ q.branch_taken = b
                /\ q.ip = p.ip /\ q.is_branch = p.is_branch
                /\ q.branch_type = p.branch_type
  BY <1>4, <1>5 DEF Written
<1> QED
  BY <1>3, <1>4, <1>5, <1>6

(* A record that is written when record i + 1 has been read is right.      *)
LEMMA DirectedRight ==
  ASSUME NEW r \in Insns, input.format \in RawFormat, Honest(input.format, r), NEW ip
  PROVE  LET w == Direction(Made(r), ip)
         IN  /\ w \in Written
             /\ w.ip = r.ip /\ w.is_branch = (r.branch # 0)
             /\ w.is_branch => /\ w.branch_type = r.branch - 1
                               /\ w.branch_taken # r.took =>
                                    w.branch_type \in {2, 6} /\ ip # r.to
<1> DEFINE p == Made(r)
           b == BRANCH_DIRECTION_IS_KNOWN_TAKEN(p.branch_type) \/ ip # p.ip + p.size
           w == Direction(p, ip)
<1>1. /\ p \in Plain
      /\ p.ip = r.ip /\ p.size = r.size /\ p.branch_taken = FALSE
      /\ p.is_branch = (r.branch # 0)
      /\ p.is_branch => p.branch_type = r.branch - 1
  BY MadeIs
<1>2. \A x \in BOOLEAN :
         LET q == [p EXCEPT !.branch_taken = x]
         IN /\ q \in Written /\ q.branch_taken = x
            /\ q.ip = p.ip /\ q.is_branch = p.is_branch /\ q.branch_type = p.branch_type
  BY MadeIs
<1>3. w = IF p.is_branch THEN [p EXCEPT !.branch_taken = b] ELSE p
  BY DEF Direction
<1>4. b \in BOOLEAN
  BY DEF BRANCH_DIRECTION_IS_KNOWN_TAKEN
<1>5. b <=> (p.branch_type \in {0, 1, 3, 4, 5} \/ ip # r.ip + r.size)
  BY <1>1 DEF BRANCH_DIRECTION_IS_KNOWN_TAKEN
<1> HIDE DEF p, b
<1>6. CASE ~p.is_branch
  <2>1. w = p
    BY <1>3, <1>6, Zenon
  <2>2. p \in Written
    BY <1>1 DEF Written
  <2> QED
    BY <1>1, <1>6, <2>1, <2>2, Zenon DEF p
<1>7. CASE p.is_branch
  <2>1. /\ w \in Written /\ w.branch_taken = b /\ w.ip = p.ip
        /\ w.is_branch = p.is_branch /\ w.branch_type = p.branch_type
    BY <1>2, <1>3, <1>4, <1>7
  <2> HIDE DEF w
  <2>2. r.branch # 0 /\ p.branch_type = r.branch - 1
    BY <1>1, <1>7, Zenon
  <2>5. r.branch \in 1 .. 7
    BY <2>2 DEF Honest
  <2>3. p.branch_type \in {0, 1, 3, 4, 5} <=> r.branch \notin {3, 7}
    BY <2>2, <2>5
  <2>6. r.branch \in {3, 7} => p.branch_type \in {2, 6}
    BY <2>2, <2>5
  <2>4. b # r.took => r.branch \in {3, 7} /\ ip # r.to
    BY <1>5, <2>3 DEF Honest
  <2> QED
    <3>1. w.is_branch = (r.branch # 0)
      BY <1>1, <2>1, Zenon
    <3>2. w.branch_taken # r.took => w.branch_type \in {2, 6} /\ ip # r.to
      BY <2>1, <2>4, <2>6, Zenon
    <3> QED
      BY <1>1, <2>1, <2>2, <3>1, <3>2, Zenon DEF p, w
<1> QED
  BY <1>6, <1>7

(* A last record without a successor is right unless its direction is open.*)
LEMMA LastRight ==
  ASSUME NEW r \in Insns, input.format \in RawFormat, Honest(input.format, r),
         Made(r).is_branch => BRANCH_DIRECTION_IS_KNOWN_TAKEN(Made(r).branch_type)
  PROVE  LET p == Made(r)
             w == [p EXCEPT !.branch_taken = @ \/ p.is_branch]
         IN  /\ w \in Written
             /\ w.ip = r.ip /\ w.is_branch = (r.branch # 0)
             /\ w.is_branch => w.branch_type = r.branch - 1 /\ w.branch_taken = r.took
<1> DEFINE p == Made(r)
           w == [p EXCEPT !.branch_taken = @ \/ p.is_branch]
<1>1. /\ p \in Plain
      /\ p.ip = r.ip /\ p.size = r.size /\ p.branch_taken = FALSE
      /\ p.is_branch = (r.branch # 0)
      /\ p.is_branch => p.branch_type = r.branch - 1
  BY MadeIs
<1>2. \A x \in BOOLEAN :
         LET q == [p EXCEPT !.branch_taken = x]
         IN /\ q \in Written /\ q.branch_taken = x
            /\ q.ip = p.ip /\ q.is_branch = p.is_branch /\ q.branch_type = p.branch_type
  BY MadeIs
<1>3. p.is_branch => p.branch_type \in {0, 1, 3, 4, 5}
  BY DEF BRANCH_DIRECTION_IS_KNOWN_TAKEN
<1> HIDE DEF p
<1>4. (p.branch_taken \/ p.is_branch) \in BOOLEAN
  OBVIOUS
<1>5. /\ w \in Written /\ w.branch_taken = (p.branch_taken \/ p.is_branch) /\ w.ip = p.ip
      /\ w.is_branch = p.is_branch /\ w.branch_type = p.branch_type
  BY <1>2, <1>4
<1> HIDE DEF w
<1>6. ASSUME p.is_branch PROVE r.took = (p.branch_taken \/ p.is_branch)
  <2>1. r.branch # 0 /\ p.branch_type = r.branch - 1
    BY <1>1, <1>6, Zenon
  <2>2. r.branch \notin {3, 7}
    BY <1>3, <1>6, <2>1 DEF Honest
  <2> QED
    BY <1>6, <2>2 DEF Honest
<1>7. w.is_branch = (r.branch # 0)
  BY <1>1, <1>5, Zenon
<1> QED
  BY <1>1, <1>5, <1>6, <1>7, Zenon DEF w, p

---------------------------------------------------------------------------
(* The memory slots.                                                       *)
NoSlots == [ source |-> << >>, destination |-> << >>, overflow |-> 0 ]

PlacedUpTo(g, ops, n) ==
  g = [k \in 0 .. n |-> IF k = 0 THEN NoSlots ELSE place(g[k - 1], ops[k])]

(* The loop over the memory operands ends.                                 *)
LEMMA LoopPlaces ==
  ASSUME NEW ops, NEW n \in Nat
  PROVE  \E g : PlacedUpTo(g, ops, n)
<1> DEFINE T == {m \in Nat : ~ \E g : PlacedUpTo(g, ops, m)}
<1>1. CASE T = {}
  BY <1>1
<1>2. CASE T # {}
  <2>1. PICK m \in T : \A y \in T : m <= y
    <3> HIDE DEF T
    <3>1. T \subseteq Nat
      BY DEF T
    <3> QED
      BY <1>2, <3>1, LeastNat
  <2>2. m \in Nat /\ ~ \E g : PlacedUpTo(g, ops, m)
    OBVIOUS
  <2>3. m # 0
    <3> DEFINE h == [k \in 0 .. 0 |-> NoSlots]
    <3>1. PlacedUpTo(h, ops, 0)
      BY DEF PlacedUpTo
    <3> QED
      BY <2>2, <3>1
  <2>4. m - 1 \in Nat /\ m - 1 \notin T
    BY <2>1, <2>2, <2>3
  <2>5. PICK g : PlacedUpTo(g, ops, m - 1)
    BY <2>4
  <2> DEFINE next(q, k) == IF k = 0 THEN NoSlots ELSE place(q[k - 1], ops[k])
             h == [k \in 0 .. m |-> IF k = m THEN next(g, m) ELSE g[k]]
  <2>6. g = [k \in 0 .. m - 1 |-> next(g, k)]
    BY <2>5 DEF PlacedUpTo
  <2>7. ASSUME NEW k \in 0 .. m
        PROVE  h[k] = next(h, k)
    <3>1. k # 0 => k - 1 \in 0 .. m /\ k - 1 # m /\ h[k - 1] = g[k - 1]
      BY <2>2
    <3>2. next(h, k) = next(g, k)
      BY <3>1
    <3>3. CASE k = m
      BY <3>2, <3>3
    <3>4. CASE k # m
      <4>1. k \in 0 .. m - 1 /\ h[k] = g[k]
        BY <2>2, <3>4
      <4> HIDE DEF next, h
      <4>2. g[k] = next(g, k)
        BY <2>6, <4>1
      <4> QED
        BY <3>2, <4>1, <4>2
    <3> QED
      BY <3>3, <3>4
  <2>8. h = [k \in 0 .. m |-> h[k]]
    OBVIOUS
  <2> HIDE DEF h
  <2>9. h = [k \in 0 .. m |-> next(h, k)]
    <3> HIDE DEF next
    <3> QED
      BY <2>7, <2>8
  <2>10. PlacedUpTo(h, ops, m)
    BY <2>9 DEF PlacedUpTo
  <2> QED
    BY <2>2, <2>10
<1> QED
  BY <1>1, <1>2

AtMost(n, cap) == IF n > cap THEN cap ELSE n

(* What o holds after w writes and q reads.                                *)
Filled(o, S, w, q) ==
  /\ o.source \in Seq(S) /\ o.destination \in Seq(S)
  /\ Len(o.destination) = AtMost(w, 2) /\ Len(o.source) = AtMost(q, 4)
  /\ o.overflow = Beyond(w, 2) + Beyond(q, 4)

(* One operand more, after w writes and q reads.                           *)
LEMMA PlaceOne ==
  ASSUME NEW S, NEW o, NEW m, Slot(m) \in S, NEW w \in Nat, NEW q \in Nat,
         Filled(o, S, w, q), m.is_write \in BOOLEAN, NEW v, NEW u,
         IF m.is_write THEN v = w + 1 /\ u = q ELSE v = w /\ u = q + 1
  PROVE  Filled(place(o, m), S, v, u)
<1> USE DEF Filled
<1> USE DEF NUM_INSTR_DESTINATIONS, NUM_INSTR_SOURCES
<1> DEFINE a == Append(o.source, Slot(m))
           b == Append(o.destination, Slot(m))
<1>1. /\ a \in Seq(S) /\ Len(a) = Len(o.source) + 1
      /\ b \in Seq(S) /\ Len(b) = Len(o.destination) + 1
  OBVIOUS
<1>2. Beyond(w, 2) \in Nat /\ Beyond(q, 4) \in Nat
  BY DEF Beyond
<1> HIDE DEF a, b
<1>3. CASE m.is_write /\ w < 2
  <2>1. LET p == place(o, m)
        IN p.source = o.source /\ p.destination = b /\ p.overflow = o.overflow
    BY <1>3 DEF place, b, AtMost
  <2>2. Len(b) = AtMost(v, 2) /\ Beyond(v, 2) = Beyond(w, 2)
    BY <1>1, <1>3 DEF AtMost, Beyond
  <2> QED
    BY <1>1, <1>3, <2>1, <2>2
<1>4. CASE m.is_write /\ w >= 2
  <2>1. LET p == place(o, m)
        IN p.source = o.source /\ p.destination = o.destination /\ p.overflow = o.overflow + 1
    BY <1>4 DEF place, AtMost
  <2>2. AtMost(v, 2) = AtMost(w, 2) /\ Beyond(v, 2) = Beyond(w, 2) + 1
    BY <1>4 DEF AtMost, Beyond
  <2>3. Beyond(u, 4) = Beyond(q, 4)
    BY <1>4
  <2> QED
    BY <1>2, <2>1, <2>2, <2>3
<1>5. CASE ~m.is_write /\ q < 4
  <2>1. LET p == place(o, m)
        IN p.source = a /\ p.destination = o.destination /\ p.overflow = o.overflow
    BY <1>5 DEF place, a, AtMost
  <2>2. Len(a) = AtMost(u, 4) /\ Beyond(u, 4) = Beyond(q, 4)
    BY <1>1, <1>5 DEF AtMost, Beyond
  <2> QED
    BY <1>1, <1>5, <2>1, <2>2
<1>6. CASE ~m.is_write /\ q >= 4
  <2>1. LET p == place(o, m)
        IN p.source = o.source /\ p.destination = o.destination /\ p.overflow = o.overflow + 1
    BY <1>6 DEF place, AtMost
  <2>2. AtMost(u, 4) = AtMost(q, 4) /\ Beyond(u, 4) = Beyond(q, 4) + 1
    BY <1>6 DEF AtMost, Beyond
  <2>3. Beyond(v, 2) = Beyond(w, 2)
    BY <1>6
  <2> QED
    BY <1>2, <1>6, <2>1, <2>2, <2>3
<1> QED
  BY <1>3, <1>4, <1>5, <1>6

(* The loop fills the slots with the first operands, and counts the others.*)
LEMMA SlotsFilled ==
  ASSUME NEW r \in Insns
  PROVE  \E S : /\ Slots(r.mem).source \in Seq(S) /\ Slots(r.mem).destination \in Seq(S)
                /\ Slots(r.mem).overflow = Slotless(r) /\ Slotless(r) \in Nat
<1> DEFINE ops == r.mem
           n == Len(ops)
           f == placed(ops)
           S == {Slot(ops[j]) : j \in 1 .. n}
           X == {k \in 1 .. n : ops[k].is_write}
           W(k) == Cardinality(X \cap (1 .. k))
<1>1. n \in Nat /\ \A k \in 1 .. n : ops[k].is_write \in BOOLEAN
  <2> DEFINE M == [ is_write : BOOLEAN, addr : Int, pa : {"ram", "io", "none"} ]
  <2>1. ops \in Seq(M)
    BY MemOpsAssumption
  <2>2. n \in Nat /\ \A k \in 1 .. n : ops[k] \in M
    <3> HIDE DEF M, ops
    <3> QED
      BY <2>1
  <2>3. \A m \in M : m.is_write \in BOOLEAN
    OBVIOUS
  <2> QED
    BY <2>2, <2>3
<1>2. PlacedUpTo(f, ops, n)
  <2>1. f = CHOOSE g : PlacedUpTo(g, ops, n)
    BY DEF placed, PlacedUpTo, NoSlots
  <2> HIDE DEF f, ops, n
  <2> QED
    BY <1>1, <2>1, LoopPlaces
<1>3. X \cap (1 .. n) = X
  OBVIOUS
<1>4. W(n) = Cardinality({k \in 1 .. Len(r.mem) : r.mem[k].is_write})
  BY <1>3
<1>5. Slots(r.mem) = f[n]
  BY DEF Slots
<1>6. \A k \in 1 .. n : Slot(ops[k]) \in S
  OBVIOUS
<1>7. \A k \in 1 .. n : k \in X <=> ops[k].is_write
  OBVIOUS
<1>8. Slotless(r) = Beyond(W(n), 2) + Beyond(n - W(n), 4)
  BY <1>4 DEF Slotless, NUM_INSTR_DESTINATIONS, NUM_INSTR_SOURCES
<1> HIDE DEF f, n, ops, S, X
<1>9. \A k \in 0 .. n : W(k) \in 0 .. k
  <2> TAKE k \in 0 .. n
  <2>1. k \in Nat
    BY <1>1
  <2> QED
    BY <2>1, CountNext
<1>10. \A k \in 0 .. n : f[k] = IF k = 0 THEN NoSlots ELSE place(f[k - 1], ops[k])
  BY <1>2 DEF PlacedUpTo
<1> DEFINE Good(k) == Filled(f[k], S, W(k), k - W(k))
           T == {k \in 0 .. n : ~Good(k)}
<1> HIDE DEF Good
<1>11. T = {}
  <2> SUFFICES ASSUME T # {} PROVE FALSE
    OBVIOUS
  <2>1. PICK k \in T : \A y \in T : k <= y
    <3> HIDE DEF T
    <3>1. T \subseteq Nat
      BY <1>1 DEF T
    <3> QED
      BY <3>1, LeastNat
  <2>2. k \in 0 .. n /\ ~Good(k)
    OBVIOUS
  <2>3. k # 0
    <3>1. f[0] = NoSlots
      BY <1>1, <1>10
    <3>2. W(0) = 0
      BY CountNone
    <3>3. Good(0)
      BY <3>1, <3>2 DEF NoSlots, AtMost, Beyond, Good, Filled
    <3> QED
      BY <2>2, <3>3
  <2>4. k - 1 \in 0 .. n /\ Good(k - 1) /\ k \in 1 .. n /\ k - 1 \in Nat
    <3>1. k - 1 \in 0 .. n /\ k - 1 < k /\ k \in 1 .. n /\ k - 1 \in Nat
      BY <1>1, <2>2, <2>3
    <3>2. k - 1 \notin T
      <4> HIDE DEF T
      <4> QED
        BY <2>1, <2>2, <3>1
    <3> QED
      BY <3>1, <3>2
  <2>5. f[k] = place(f[k - 1], ops[k])
    BY <1>10, <2>2, <2>3
  <2>6. W(k - 1) \in 0 .. k - 1 /\ W(k) = W(k - 1) + one(ops[k].is_write)
    <3>1. Cardinality(X \cap (1 .. (k - 1) + 1))
            = Cardinality(X \cap (1 .. k - 1)) + one((k - 1) + 1 \in X)
      BY <2>4, CountNext
    <3>2. (k - 1) + 1 = k
      BY <2>2
    <3>3. k \in X <=> ops[k].is_write
      BY <1>7, <2>4
    <3>4. one(k \in X) = one(ops[k].is_write)
      BY <3>3 DEF one
    <3> QED
      BY <1>9, <2>4, <3>1, <3>2, <3>4
  <2>7. Good(k)
    <3> DEFINE w == W(k - 1)
               q == (k - 1) - W(k - 1)
               v == W(k)
               u == k - W(k)
               o == f[k - 1]
               m == ops[k]
    <3>1. Slot(m) \in S /\ m.is_write \in BOOLEAN /\ f[k] = place(o, m)
      BY <1>1, <1>6, <2>4, <2>5
    <3>2. Filled(o, S, w, q)
      BY <2>4 DEF Good
    <3>3. w \in Nat /\ q \in Nat
      BY <2>4, <2>6
    <3>4. IF m.is_write THEN v = w + 1 /\ u = q ELSE v = w /\ u = q + 1
      BY <2>4, <2>6 DEF one
    <3>5. Good(k) <=> Filled(f[k], S, v, u)
      BY DEF Good
    <3> HIDE DEF w, q, o, m, v, u, W, Good
    <3>6. Filled(place(o, m), S, v, u)
      BY <3>1, <3>2, <3>3, <3>4, PlaceOne
    <3> QED
      BY <3>1, <3>5, <3>6
  <2> QED
    BY <2>2, <2>7
<1>12. Good(n)
  BY <1>1, <1>11
<1>13. Slotless(r) \in Nat
  <2>1. W(n) \in 0 .. n
    BY <1>1, <1>9
  <2> HIDE DEF W
  <2>2. W(n) \in Nat /\ n - W(n) \in Nat
    BY <1>1, <2>1
  <2>3. \A x \in Nat : Beyond(x, 2) \in Nat /\ Beyond(x, 4) \in Nat
    BY DEF Beyond
  <2> QED
    BY <1>8, <2>2, <2>3
<1> QED
  BY <1>5, <1>8, <1>12, <1>13 DEF Good, Filled

SumUpTo(g, recs, n) ==
  g = [k \in 0 .. n |-> IF k = 0 THEN 0 ELSE g[k - 1] + Slotless(recs[k])]

(* The sum over the records ends, ...                                      *)
LEMMA LoopSums ==
  ASSUME NEW recs, NEW n \in Nat
  PROVE  \E g : SumUpTo(g, recs, n)
<1> DEFINE T == {m \in Nat : ~ \E g : SumUpTo(g, recs, m)}
<1>1. CASE T = {}
  BY <1>1
<1>2. CASE T # {}
  <2>1. PICK m \in T : \A y \in T : m <= y
    <3> HIDE DEF T
    <3>1. T \subseteq Nat
      BY DEF T
    <3> QED
      BY <1>2, <3>1, LeastNat
  <2>2. m \in Nat /\ ~ \E g : SumUpTo(g, recs, m)
    OBVIOUS
  <2>3. m # 0
    <3> DEFINE h == [k \in 0 .. 0 |-> 0]
    <3>1. SumUpTo(h, recs, 0)
      BY DEF SumUpTo
    <3> QED
      BY <2>2, <3>1
  <2>4. m - 1 \in Nat /\ m - 1 \notin T
    BY <2>1, <2>2, <2>3
  <2>5. PICK g : SumUpTo(g, recs, m - 1)
    BY <2>4
  <2> DEFINE next(q, k) == IF k = 0 THEN 0 ELSE q[k - 1] + Slotless(recs[k])
             h == [k \in 0 .. m |-> IF k = m THEN next(g, m) ELSE g[k]]
  <2>6. g = [k \in 0 .. m - 1 |-> next(g, k)]
    BY <2>5 DEF SumUpTo
  <2>7. ASSUME NEW k \in 0 .. m
        PROVE  h[k] = next(h, k)
    <3>1. k # 0 => k - 1 \in 0 .. m /\ k - 1 # m /\ h[k - 1] = g[k - 1]
      BY <2>2
    <3>2. next(h, k) = next(g, k)
      BY <3>1
    <3>3. CASE k = m
      BY <3>2, <3>3
    <3>4. CASE k # m
      <4>1. k \in 0 .. m - 1 /\ h[k] = g[k]
        BY <2>2, <3>4
      <4> HIDE DEF next, h
      <4>2. g[k] = next(g, k)
        BY <2>6, <4>1
      <4> QED
        BY <3>2, <4>1, <4>2
    <3> QED
      BY <3>3, <3>4
  <2>8. h = [k \in 0 .. m |-> h[k]]
    OBVIOUS
  <2> HIDE DEF h
  <2>9. h = [k \in 0 .. m |-> next(h, k)]
    <3> HIDE DEF next
    <3> QED
      BY <2>7, <2>8
  <2>10. SumUpTo(h, recs, m)
    BY <2>9 DEF SumUpTo
  <2> QED
    BY <2>2, <2>10
<1> QED
  BY <1>1, <1>2

(* ... and is the sum of one record more after each.                       *)
LEMMA SlotlessSums ==
  ASSUME NEW recs, Len(recs) \in Nat
  PROVE  /\ SlotlessIn(recs)[0] = 0
         /\ \A n \in 0 .. Len(recs) - 1 :
              SlotlessIn(recs)[n + 1] = SlotlessIn(recs)[n] + Slotless(recs[n + 1])
<1> DEFINE l == Len(recs)
           f == SlotlessIn(recs)
<1>1. SumUpTo(f, recs, l)
  <2>1. f = CHOOSE g : SumUpTo(g, recs, l)
    BY DEF SlotlessIn, SumUpTo
  <2> HIDE DEF f, l
  <2>2. l \in Nat
    BY DEF l
  <2> QED
    BY <2>1, <2>2, LoopSums
<1> HIDE DEF f
<1>2. \A k \in 0 .. l : f[k] = IF k = 0 THEN 0 ELSE f[k - 1] + Slotless(recs[k])
  BY <1>1 DEF SumUpTo
<1>3. f[0] = 0
  BY <1>2
<1>4. ASSUME NEW n \in 0 .. l - 1
      PROVE  f[n + 1] = f[n] + Slotless(recs[n + 1])
  <2>1. n + 1 \in 0 .. l /\ n + 1 # 0 /\ (n + 1) - 1 = n
    OBVIOUS
  <2>2. f[n + 1] = IF n + 1 = 0 THEN 0 ELSE f[(n + 1) - 1] + Slotless(recs[n + 1])
    BY <1>2, <2>1
  <2> QED
    BY <2>1, <2>2
<1> QED
  BY <1>3, <1>4 DEF f

---------------------------------------------------------------------------
(* What the sanity check asks of a record, and what it counts of it.       *)
Fits(w) ==
  /\ "EXPLICIT_BRANCH_TYPE" \in w.features
  /\ w.is_branch \in BOOLEAN /\ w.user \in BOOLEAN /\ w.branch_taken \in BOOLEAN
  /\ w.branch_type \in 0 .. 7
  /\ (w.is_branch <=> w.branch_type # 7)
  /\ w.branch_type \in {0, 1, 3, 4, 5} => w.branch_taken

HasMem(w) == w.source_memory # << >> \/ w.destination_memory # << >>

CountsAs(w, p) ==
  /\ w.user = p.user /\ w.is_branch = p.is_branch
  /\ w.source_memory = p.source_memory /\ w.destination_memory = p.destination_memory

(* The record that is made is counted by the converter as the check will.  *)
LEMMA MadeCounts ==
  ASSUME NEW r \in Insns, input.format \in RawFormat, Honest(input.format, r)
  PROVE  LET p == Made(r)
             c == Counted(r, decode(r.code), p)
         IN  /\ p.user = r.user
             /\ c.total_insns = cstats.total_insns + 1
             /\ c.kernel_insns = cstats.kernel_insns + one(~p.user)
             /\ c.branch_insns = cstats.branch_insns + one(p.is_branch)
             /\ c.mem_insns = cstats.mem_insns + one(HasMem(p))
             /\ c.mem_overflow = cstats.mem_overflow + Slotless(r)
<1> DEFINE d == decode(r.code)
           o == Slots(r.mem)
           p == Record(r, d)
<1>1. PICK S : o.source \in Seq(S) /\ o.destination \in Seq(S) /\ o.overflow = Slotless(r)
  BY SlotsFilled
<1>2. /\ p.user = r.user /\ p.is_branch = (d.is_branch # 0)
      /\ p.source_memory = o.source /\ p.destination_memory = o.destination
  BY DEF Record
<1>3. Made(r) = p
  BY DEF Made
<1> HIDE DEF d, o, p
<1>4. HasMem(p) <=> Len(o.source) + Len(o.destination) > 0
  <2>1. /\ Len(o.source) \in Nat /\ Len(o.destination) \in Nat
        /\ o.source = << >> <=> Len(o.source) = 0
        /\ o.destination = << >> <=> Len(o.destination) = 0
    BY <1>1
  <2>2. HasMem(p) <=> o.source # << >> \/ o.destination # << >>
    BY <1>2, Zenon DEF HasMem
  <2>3. Len(o.source) + Len(o.destination) > 0
          <=> (Len(o.source) # 0 \/ Len(o.destination) # 0)
    <3> DEFINE a == Len(o.source)
               b == Len(o.destination)
    <3>1. a \in Nat /\ b \in Nat
      BY <2>1, Zenon
    <3> HIDE DEF a, b
    <3>2. a + b > 0 <=> (a # 0 \/ b # 0)
      BY <3>1
    <3> QED
      BY <3>2 DEF a, b
  <2> QED
    BY <2>1, <2>2, <2>3, Zenon
<1> DEFINE c == Counted(r, d, p)
<1>5. /\ c.total_insns = cstats.total_insns + 1
      /\ c.kernel_insns = cstats.kernel_insns + (IF ~r.user THEN 1 ELSE 0)
      /\ c.branch_insns = cstats.branch_insns + (IF d.is_branch # 0 THEN 1 ELSE 0)
      /\ c.mem_insns = cstats.mem_insns
                         + (IF Len(o.source) + Len(o.destination) > 0 THEN 1 ELSE 0)
      /\ c.mem_overflow = cstats.mem_overflow + o.overflow
  BY <1>2 DEF Counted, o
<1> HIDE DEF c
<1>6. /\ one(~p.user) = IF ~r.user THEN 1 ELSE 0
      /\ one(p.is_branch) = IF d.is_branch # 0 THEN 1 ELSE 0
      /\ one(HasMem(p)) = IF Len(o.source) + Len(o.destination) > 0 THEN 1 ELSE 0
  BY <1>2, <1>4 DEF one
<1> QED
  BY <1>1, <1>2, <1>3, <1>5, <1>6 DEF c, d

(* What is written fits, and counts as the record that was made.           *)
LEMMA WrittenFits ==
  ASSUME NEW r \in Insns, input.format \in RawFormat, Honest(input.format, r)
  PROVE  LET p == Made(r)
             Ok(w) == Fits(w) /\ CountsAs(w, p)
         IN  /\ \A ip : Ok(Direction(p, ip))
             /\ (p.is_branch => BRANCH_DIRECTION_IS_KNOWN_TAKEN(p.branch_type))
                  => Ok([p EXCEPT !.branch_taken = @ \/ p.is_branch])
<1> DEFINE d == decode(r.code)
           p == Record(r, d)
<1>1. d.is_branch \in 0 .. 7
  BY DEF decode, Decoder, Honest
<1>2. /\ DOMAIN p = {"ip", "size", "user", "is_branch", "branch_taken", "branch_type",
                     "features", "instr_type", "src", "dst", "source_memory",
                     "destination_memory"}
      /\ p.user = r.user /\ p.is_branch = (d.is_branch # 0) /\ p.branch_taken = FALSE
      /\ p.branch_type = IF d.is_branch # 0 THEN d.is_branch - 1 ELSE CS_BRANCH_NOT_BRANCH
      /\ "EXPLICIT_BRANCH_TYPE" \in p.features
  BY DEF Record
<1>3. Made(r) = p
  BY DEF Made
<1> HIDE DEF d, p
<1>4. /\ p.user \in BOOLEAN /\ p.is_branch \in BOOLEAN /\ p.branch_type \in 0 .. 7
      /\ (p.is_branch <=> p.branch_type # 7)
  <2>1. p.user \in BOOLEAN
    BY <1>2, InsnsAssumption
  <2>2. p.is_branch \in BOOLEAN
    BY <1>2
  <2>3. CASE d.is_branch # 0
    <3>1. p.is_branch
      BY <1>2, <2>3
    <3>2. p.branch_type = d.is_branch - 1 /\ d.is_branch \in 1 .. 7
      BY <1>1, <1>2, <2>3
    <3>3. p.branch_type \in 0 .. 7 /\ p.branch_type # 7
      BY <3>2
    <3> QED
      BY <2>1, <2>2, <3>1, <3>3, Zenon
  <2>4. CASE d.is_branch = 0
    <3>1. ~p.is_branch
      BY <1>2, <2>4
    <3>2. p.branch_type = 7
      BY <1>2, <2>4 DEF CS_BRANCH_NOT_BRANCH
    <3>3. p.branch_type \in 0 .. 7
      BY <3>2
    <3> QED
      BY <2>1, <2>2, <3>1, <3>2, <3>3, Zenon
  <2> QED
    BY <2>3, <2>4
<1>5. ASSUME NEW b \in BOOLEAN
      PROVE  LET w == [p EXCEPT !.branch_taken = b]
             IN  /\ CountsAs(w, p) /\ w.features = p.features
                 /\ w.branch_type = p.branch_type /\ w.branch_taken = b
  BY <1>2 DEF CountsAs
<1>6. ASSUME NEW b \in BOOLEAN, p.branch_type \in {0, 1, 3, 4, 5} => b
      PROVE  Fits([p EXCEPT !.branch_taken = b]) /\ CountsAs([p EXCEPT !.branch_taken = b], p)
  <2> DEFINE w == [p EXCEPT !.branch_taken = b]
  <2>1. /\ CountsAs(w, p) /\ w.features = p.features
        /\ w.branch_type = p.branch_type /\ w.branch_taken = b
    BY <1>5
  <2> HIDE DEF w
  <2>2. Fits(w)
    BY <1>2, <1>4, <1>6, <2>1 DEF Fits, CountsAs
  <2> QED
    BY <2>1, <2>2 DEF w
<1>7. ASSUME NEW ip
      PROVE  Fits(Direction(p, ip)) /\ CountsAs(Direction(p, ip), p)
  <2> DEFINE b == BRANCH_DIRECTION_IS_KNOWN_TAKEN(p.branch_type) \/ ip # p.ip + p.size
  <2>1. CASE p.is_branch
    <3>1. b \in BOOLEAN /\ (p.branch_type \in {0, 1, 3, 4, 5} => b)
      BY DEF BRANCH_DIRECTION_IS_KNOWN_TAKEN
    <3>2. Direction(p, ip) = [p EXCEPT !.branch_taken = b]
      BY <2>1 DEF Direction
    <3> HIDE DEF b
    <3> QED
      BY <1>6, <3>1, <3>2
  <2>2. CASE ~p.is_branch
    <3>1. Direction(p, ip) = p
      BY <2>2 DEF Direction
    <3>2. p.branch_type = 7 /\ p.branch_taken \in BOOLEAN
      BY <1>2, <1>4, <2>2
    <3>3. Fits(p)
      BY <1>2, <1>4, <3>2 DEF Fits
    <3> QED
      BY <3>1, <3>3 DEF CountsAs
  <2> QED
    BY <1>4, <2>1, <2>2
<1>8. ASSUME p.is_branch => BRANCH_DIRECTION_IS_KNOWN_TAKEN(p.branch_type)
      PROVE  LET w == [p EXCEPT !.branch_taken = @ \/ p.is_branch]
             IN  Fits(w) /\ CountsAs(w, p)
  <2> DEFINE b == p.branch_taken \/ p.is_branch
  <2>1. b \in BOOLEAN /\ (p.branch_type \in {0, 1, 3, 4, 5} => b)
    BY <1>4
  <2>2. [p EXCEPT !.branch_taken = @ \/ p.is_branch] = [p EXCEPT !.branch_taken = b]
    OBVIOUS
  <2> HIDE DEF b
  <2> QED
    BY <1>6, <2>1, <2>2
<1> QED
  BY <1>3, <1>7, <1>8

---------------------------------------------------------------------------
(* The converter: what it has in hand, that what it has written is right,  *)
(* and how far it has come.                                                *)
ConvTypes ==
  /\ conv \in {"waiting", "loop", "final", "done", "exited"}
  /\ input.recs \in Seq(Insns) /\ input.format \in RawFormat /\ input.tail \in RawTail
  /\ \A i \in 1 .. Len(input.recs) : Honest(input.format, input.recs[i])
  /\ champsim \in [ recs : Seq(Written), tail : ChampSimTail ]
  /\ cstats.total_insns \in 0 .. Len(input.recs)
  /\ max_insns \in Nat /\ exit_status \in {0, 1}

Behind ==
  LET n == cstats.total_insns
  IN IF n = 0 THEN prev_record = << >> /\ champsim.recs = << >>
     ELSE prev_record = << Made(input.recs[n]) >> /\ Len(champsim.recs) = n - 1

InStep ==
  /\ conv = "waiting" => champsim = NoTrace
  /\ conv \in {"waiting", "loop", "final"} => champsim.tail = "cut" /\ Behind

AllRight ==
  \A i \in 1 .. Len(champsim.recs) : i <= Len(input.recs) /\ RightRecord(champsim.recs[i], i)

Accounts ==
  /\ conv \in {"waiting", "loop"} => exit_status = 0
  /\ conv = "waiting" => max_insns = 0 /\ cstats.total_insns = 0
  /\ conv = "loop" /\ max_insns > 0 => cstats.total_insns <= max_insns
  /\ conv = "final" =>
       /\ cstats.total_insns = Wanted
       /\ exit_status = 1 => input.tail \in {"bytes", "garbled"}
  /\ conv = "done" => champsim.tail \in {"cut", "corrupt"}
  /\ (conv = "done" /\ champsim.tail = "cut") \/ (conv = "exited" /\ champsim.tail = "end")
       => RecordsAccounted

ConvInv == ConvTypes /\ InStep /\ AllRight /\ Accounts

(* A record that fits is appended.                                         *)
LEMMA WriteRight ==
  ASSUME ConvTypes, AllRight, NEW w \in Written, writer_write(w), UNCHANGED input,
         Len(champsim.recs) < Len(input.recs),
         RightRecord(w, Len(champsim.recs) + 1)
  PROVE  /\ champsim' \in [ recs : Seq(Written), tail : ChampSimTail ]
         /\ champsim'.tail = champsim.tail
         /\ Len(champsim'.recs) = Len(champsim.recs) + 1
         /\ AllRight'
<1> DEFINE q == champsim.recs
           a == Append(q, w)
           n == Len(q)
<1>1. q \in Seq(Written) /\ n \in Nat /\ champsim.tail \in ChampSimTail
  BY DEF ConvTypes
<1>2. /\ a \in Seq(Written) /\ Len(a) = n + 1 /\ a[n + 1] = w
      /\ \A i \in 1 .. n : a[i] = q[i]
  BY <1>1
<1>3. champsim' = [champsim EXCEPT !.recs = a]
  BY DEF writer_write
<1> HIDE DEF a
<1>4. /\ champsim' \in [ recs : Seq(Written), tail : ChampSimTail ]
      /\ champsim'.recs = a /\ champsim'.tail = champsim.tail
  BY <1>2, <1>3 DEF ConvTypes
<1>5. ASSUME NEW i \in 1 .. n + 1 PROVE i <= Len(input.recs) /\ RightRecord(a[i], i)
  <2>1. CASE i = n + 1
    BY <1>2, <2>1, <1>1 DEF ConvTypes
  <2>2. CASE i # n + 1
    <3>1. i \in 1 .. n
      BY <1>1, <2>2
    <3> QED
      BY <1>2, <3>1 DEF AllRight
  <2> QED
    BY <2>1, <2>2
<1> HIDE DEF q, n
<1> QED
  BY <1>2, <1>4, <1>5 DEF AllRight, RightRecord, Successor, q, n

(* What can be read of a torn stream is right.                             *)
LEMMA TornRight ==
  ASSUME ConvTypes, AllRight, Torn, UNCHANGED input
  PROVE  /\ champsim' \in [ recs : Seq(Written), tail : ChampSimTail ]
         /\ champsim'.tail = "corrupt"
         /\ AllRight'
<1> DEFINE q == champsim.recs
<1>1. q \in Seq(Written) /\ Len(q) \in Nat
  BY DEF ConvTypes
<1>2. PICK n \in 0 .. Len(q) : champsim' = [ recs |-> SubSeq(q, 1, n), tail |-> "corrupt" ]
  BY DEF Torn
<1>3. /\ SubSeq(q, 1, n) \in Seq(Written) /\ Len(SubSeq(q, 1, n)) = n
      /\ \A i \in 1 .. n : SubSeq(q, 1, n)[i] = q[i]
  BY <1>1, <1>2
<1>4. /\ champsim' \in [ recs : Seq(Written), tail : ChampSimTail ]
      /\ champsim'.tail = "corrupt" /\ champsim'.recs = SubSeq(q, 1, n)
  BY <1>2, <1>3 DEF ChampSimTail
<1>5. \A i \in 1 .. n : i <= Len(input.recs) /\ RightRecord(champsim.recs[i], i)
  BY <1>1, <1>2 DEF AllRight
<1> QED
  BY <1>3, <1>4, <1>5 DEF AllRight, RightRecord, Successor

(* What the converter reads.                                               *)
LEMMA Reads ==
  ASSUME ConvInv, conv = "loop", ~AtLimit, ~AtTail
  PROVE  LET n == cstats.total_insns
             r == input.recs[n + 1]
         IN  /\ n \in Nat /\ n + 1 \in 1 .. Len(input.recs) /\ Len(input.recs) \in Nat
             /\ r \in Insns /\ Honest(input.format, r)
<1>1. Len(input.recs) \in Nat /\ cstats.total_insns \in 0 .. Len(input.recs)
  BY DEF ConvInv, ConvTypes
<1>2. cstats.total_insns + 1 \in 1 .. Len(input.recs)
  BY <1>1 DEF AtTail
<1> QED
  BY <1>1, <1>2 DEF ConvInv, ConvTypes

(* Step by step: the header is read, ...                                   *)
LEMMA OpenStep ==
  ASSUME ConvInv, OpenInput
  PROVE  ConvInv'
<1>1. /\ conv = "waiting" /\ UNCHANGED <<cstats, prev_record, input, champsim>>
      /\ \/ conv' = "loop" /\ max_insns' \in CountArgs /\ exit_status' = exit_status
         \/ conv' = "exited" /\ exit_status' = 1 /\ max_insns' = max_insns
  BY DEF OpenInput, files
<1>2. ConvTypes'
  BY <1>1, CountArgsAssumption DEF ConvInv, ConvTypes
<1>3. InStep'
  BY <1>1 DEF ConvInv, InStep, Behind, Made, decode
<1>4. AllRight'
  BY <1>1 DEF ConvInv, AllRight, RightRecord, Successor
<1>5. Accounts'
  BY <1>1, <1>2 DEF ConvInv, Accounts, InStep, ConvTypes
<1> QED
  BY <1>2, <1>3, <1>4, <1>5 DEF ConvInv

(* ... a record is read and the one before it is written, ...              *)
LEMMA RecordStep ==
  ASSUME ConvInv, ConvertRecord
  PROVE  ConvInv'
<1> DEFINE n == cstats.total_insns
           r == input.recs[n + 1]
           l == Len(champsim.recs)
<1>1. /\ conv = "loop" /\ ~AtLimit /\ ~AtTail
      /\ UNCHANGED <<conv, max_insns, exit_status, input>>
      /\ prev_record' = << Made(r) >>
      /\ cstats'.total_insns = n + 1
  BY DEF ConvertRecord, Made, Counted
<1>2. /\ n \in Nat /\ n + 1 \in 1 .. Len(input.recs) /\ Len(input.recs) \in Nat
      /\ r \in Insns /\ Honest(input.format, r)
  BY <1>1, Reads
<1>3. l \in Nat /\ champsim.tail = "cut" /\ Behind /\ input.format \in RawFormat
  BY <1>1 DEF ConvInv, InStep, ConvTypes
<1>4. /\ champsim' \in [ recs : Seq(Written), tail : ChampSimTail ]
      /\ champsim'.tail = "cut" /\ Len(champsim'.recs) = n
      /\ AllRight'
  <2>1. CASE n = 0
    <3>1. prev_record = << >> /\ champsim.recs = << >>
      BY <1>3, <2>1 DEF Behind
    <3>2. champsim' = champsim
      BY <3>1 DEF ConvertRecord
    <3> QED
      BY <1>1, <1>3, <2>1, <3>1, <3>2 DEF ConvInv, ConvTypes, AllRight, RightRecord, Successor
  <2>2. CASE n # 0
    <3> DEFINE p == input.recs[n]
               w == Direction(Made(p), r.ip)
    <3>1. prev_record = << Made(p) >> /\ l = n - 1 /\ n \in 1 .. Len(input.recs)
      BY <1>2, <1>3, <2>2 DEF Behind
    <3>2. writer_write(w)
      BY <3>1 DEF ConvertRecord
    <3>3. p \in Insns /\ Honest(input.format, p)
      BY <3>1 DEF ConvInv, ConvTypes
    <3>4. /\ w \in Written
          /\ w.ip = p.ip /\ w.is_branch = (p.branch # 0)
          /\ w.is_branch => /\ w.branch_type = p.branch - 1
                            /\ w.branch_taken # p.took =>
                                 w.branch_type \in {2, 6} /\ r.ip # p.to
      BY <1>3, <3>3, DirectedRight
    <3> HIDE DEF w
    <3>5. n < Len(input.recs) /\ (r.ip # p.to => ~Successor(n))
      BY <1>2 DEF Successor
    <3> HIDE DEF r
    <3>6. RightRecord(w, n)
      BY <3>4, <3>5 DEF RightRecord
    <3> HIDE DEF p, n
    <3>7. l < Len(input.recs) /\ RightRecord(w, l + 1)
      BY <1>2, <1>3, <3>1, <3>5, <3>6
    <3> QED
      BY <1>1, <1>2, <1>3, <3>1, <3>2, <3>4, <3>7, WriteRight DEF ConvInv
  <2> QED
    BY <2>1, <2>2
<1>5. ConvTypes'
  BY <1>1, <1>2, <1>4 DEF ConvInv, ConvTypes
<1>6. Behind'
  <2>1. /\ cstats'.total_insns = n + 1 /\ n + 1 # 0 /\ n + 1 - 1 = n
        /\ input'.recs[n + 1] = r
    BY <1>1, <1>2
  <2>2. Made(input.recs[cstats.total_insns])' = Made(r)
    BY <1>1, <2>1 DEF Made, decode
  <2> HIDE DEF r, n
  <2> QED
    BY <1>1, <1>4, <2>1, <2>2 DEF Behind
<1>7. Accounts'
  BY <1>1, <1>2, <1>4 DEF ConvInv, Accounts, ConvTypes, AtLimit
<1> QED
  BY <1>1, <1>4, <1>5, <1>6, <1>7 DEF ConvInv, InStep

(* ... writing fails, ...                                                  *)
LEMMA WriteFailsStep ==
  ASSUME ConvInv, WriteFails
  PROVE  ConvInv'
<1>1. /\ conv' = "done" /\ exit_status' = 1 /\ Torn
      /\ UNCHANGED <<max_insns, cstats, input>>
  BY DEF WriteFails
<1>2. /\ champsim' \in [ recs : Seq(Written), tail : ChampSimTail ]
      /\ champsim'.tail = "corrupt" /\ AllRight'
  BY <1>1, TornRight DEF ConvInv
<1>3. ConvTypes'
  BY <1>1, <1>2 DEF ConvInv, ConvTypes
<1>4. InStep' /\ Accounts'
  BY <1>1, <1>2 DEF InStep, Accounts
<1> QED
  BY <1>2, <1>3, <1>4 DEF ConvInv

(* The three ends of the loop write nothing.                               *)
LEMMA LoopEnds ==
  ASSUME ConvInv, EndOfTrace \/ BadRecord \/ BadMemOp
  PROVE  ConvInv'
<1> DEFINE n == cstats.total_insns
<1>1. /\ conv = "loop" /\ conv' \in {"final", "done"}
      /\ UNCHANGED <<max_insns, cstats, prev_record, input, champsim>>
  BY DEF EndOfTrace, BadRecord, BadMemOp, files
<1>2. /\ n \in Nat /\ n <= Len(input.recs) /\ Len(input.recs) \in Nat
      /\ max_insns \in Nat /\ exit_status = 0
      /\ max_insns > 0 => n <= max_insns
      /\ champsim.tail = "cut" /\ Behind
  BY <1>1 DEF ConvInv, ConvTypes, Accounts, InStep
<1>3. n = Wanted
  BY <1>2 DEF EndOfTrace, BadRecord, BadMemOp, AtLimit, AtTail, Wanted
<1>4. /\ ConvTypes'
      /\ AllRight'
  BY <1>1 DEF ConvInv, ConvTypes, AllRight, RightRecord, Successor, EndOfTrace, BadRecord, BadMemOp
<1>5. InStep'
  BY <1>1, <1>2 DEF InStep, Behind, Made, decode
<1>6. Accounts'
  <2>1. CASE EndOfTrace \/ BadRecord
    BY <1>1, <1>2, <1>3, <2>1 DEF EndOfTrace, BadRecord, Accounts, Wanted
  <2>2. CASE BadMemOp
    <3>1. n - Len(champsim.recs) \in {0, 1}
      <4>1. CASE n = 0
        BY <1>2, <4>1 DEF Behind
      <4>2. CASE n # 0
        BY <1>2, <4>2 DEF Behind
      <4> QED
        BY <4>1, <4>2
    <3>2. /\ conv' = "done" /\ exit_status' = 1 /\ input.tail \in {"memop", "value"}
      BY <2>2 DEF BadMemOp
    <3>3. RecordsAccounted'
      BY <1>1, <1>3, <3>1, <3>2 DEF RecordsAccounted, Wanted
    <3> QED
      BY <1>1, <1>2, <3>2, <3>3 DEF Accounts
  <2> QED
    BY <2>1, <2>2
<1> QED
  BY <1>4, <1>5, <1>6 DEF ConvInv

(* The last record is written, left out, or torn.                          *)
LEMMA FinalStep ==
  ASSUME ConvInv, FinalRecord
  PROVE  ConvInv'
<1> DEFINE n == cstats.total_insns
           r == input.recs[n]
           l == Len(champsim.recs)
<1>1. /\ conv = "final" /\ conv' = "done"
      /\ UNCHANGED <<max_insns, cstats, prev_record, exit_status, input>>
  BY DEF FinalRecord
<1>2. /\ n \in Nat /\ n <= Len(input.recs) /\ Len(input.recs) \in Nat
      /\ n = Wanted /\ exit_status \in {0, 1} /\ input.format \in RawFormat
      /\ exit_status = 1 => input.tail \in {"bytes", "garbled"}
      /\ champsim.tail = "cut" /\ Behind /\ l \in Nat
  BY <1>1 DEF ConvInv, ConvTypes, Accounts, InStep
<1>3. n # 0 => /\ prev_record = << Made(r) >> /\ l = n - 1
               /\ r \in Insns /\ Honest(input.format, r)
  BY <1>2 DEF ConvInv, ConvTypes, Behind
<1>4. n = 0 => prev_record = << >> /\ l = 0
  BY <1>2 DEF Behind
<1>5. CASE UNCHANGED champsim /\ (prev_record = << >> \/ DropFinal)
  <2>1. ConvTypes' /\ AllRight'
    BY <1>1, <1>5 DEF ConvInv, ConvTypes, AllRight, RightRecord, Successor
  <2>2. n - l = 1 => r.branch \in {3, 7}
    <3> SUFFICES ASSUME n - l = 1 PROVE r.branch \in {3, 7}
      OBVIOUS
    <3>1. n # 0
      BY <1>4
    <3>2. DropFinal /\ prev_record = << Made(r) >>
      <4>1. prev_record = << Made(r) >>
        BY <1>3, <3>1
      <4>2. << Made(r) >> # << >>
        OBVIOUS
      <4> QED
        BY <1>5, <4>1, <4>2, Zenon
    <3>3. Made(r).is_branch /\ ~BRANCH_DIRECTION_IS_KNOWN_TAKEN(Made(r).branch_type)
      BY <3>2 DEF DropFinal
    <3>4. r.branch # 0 /\ Made(r).branch_type = r.branch - 1
      BY <1>2, <1>3, <3>1, <3>3, MadeIs
    <3>5. r.branch \in 1 .. 7
      BY <1>3, <3>1, <3>4 DEF Honest
    <3> QED
      BY <3>3, <3>4, <3>5 DEF BRANCH_DIRECTION_IS_KNOWN_TAKEN
  <2>3. n - l \in {0, 1}
    BY <1>2, <1>3, <1>4
  <2>4. RecordsAccounted'
    BY <1>1, <1>2, <1>5, <2>2, <2>3 DEF RecordsAccounted, Wanted
  <2>5. InStep' /\ Accounts'
    BY <1>1, <1>2, <1>5, <2>4 DEF InStep, Accounts
  <2> QED
    BY <2>1, <2>5 DEF ConvInv
<1>6. CASE /\ prev_record # << >> /\ ~DropFinal
           /\ writer_write([prev_record[1] EXCEPT !.branch_taken = @ \/ prev_record[1].is_branch])
  <2> DEFINE p == Made(r)
             w == [p EXCEPT !.branch_taken = @ \/ p.is_branch]
  <2>1. n # 0 /\ prev_record = << p >>
    BY <1>3, <1>4, <1>6
  <2>2. /\ p.is_branch => BRANCH_DIRECTION_IS_KNOWN_TAKEN(p.branch_type)
        /\ writer_write(w)
    BY <1>6, <2>1 DEF DropFinal
  <2>3. /\ w \in Written
        /\ w.ip = r.ip /\ w.is_branch = (r.branch # 0)
        /\ w.is_branch => w.branch_type = r.branch - 1 /\ w.branch_taken = r.took
    BY <1>2, <1>3, <2>1, <2>2, LastRight
  <2> HIDE DEF w
  <2>4. RightRecord(w, n)
    BY <2>3 DEF RightRecord
  <2>5. l = n - 1 /\ l < Len(input.recs) /\ l + 1 = n
    BY <1>2, <1>3, <2>1
  <2>6. /\ champsim' \in [ recs : Seq(Written), tail : ChampSimTail ]
        /\ champsim'.tail = "cut" /\ Len(champsim'.recs) = n /\ AllRight'
    BY <1>1, <1>2, <2>2, <2>3, <2>4, <2>5, WriteRight DEF ConvInv
  <2>7. ConvTypes'
    BY <1>1, <2>6 DEF ConvInv, ConvTypes
  <2>8. RecordsAccounted'
    BY <1>1, <1>2, <2>6 DEF RecordsAccounted, Wanted
  <2>9. InStep' /\ Accounts'
    BY <1>1, <1>2, <2>6, <2>8 DEF InStep, Accounts
  <2> QED
    BY <2>6, <2>7, <2>9 DEF ConvInv
<1>7. CASE Torn
  <2>1. /\ champsim' \in [ recs : Seq(Written), tail : ChampSimTail ]
        /\ champsim'.tail = "corrupt" /\ AllRight'
    BY <1>1, <1>7, TornRight DEF ConvInv
  <2>2. ConvTypes'
    BY <1>1, <2>1 DEF ConvInv, ConvTypes
  <2>3. InStep' /\ Accounts'
    BY <1>1, <2>1 DEF InStep, Accounts
  <2> QED
    BY <2>1, <2>2, <2>3 DEF ConvInv
<1> QED
  BY <1>5, <1>6, <1>7 DEF FinalRecord

(* The frame is finished, or not.                                          *)
LEMMA FinalizeStep ==
  ASSUME ConvInv, Finalize
  PROVE  ConvInv'
<1>1. /\ conv = "done" /\ conv' = "exited"
      /\ UNCHANGED <<max_insns, cstats, prev_record, exit_status, input>>
  BY DEF Finalize
<1>2. CASE champsim.tail = "cut" /\ champsim' = [champsim EXCEPT !.tail = "end"]
  <2>1. /\ champsim' \in [ recs : Seq(Written), tail : ChampSimTail ]
        /\ champsim'.tail = "end" /\ champsim'.recs = champsim.recs
    BY <1>2 DEF ConvInv, ConvTypes, ChampSimTail
  <2>2. ConvTypes' /\ AllRight'
    BY <1>1, <2>1 DEF ConvInv, ConvTypes, AllRight, RightRecord, Successor
  <2>3. RecordsAccounted
    BY <1>1, <1>2 DEF ConvInv, Accounts
  <2>4. RecordsAccounted'
    BY <1>1, <2>1, <2>3 DEF RecordsAccounted, Wanted
  <2>5. InStep' /\ Accounts'
    BY <1>1, <2>4 DEF InStep, Accounts
  <2> QED
    BY <2>2, <2>5 DEF ConvInv
<1>3. CASE Torn
  <2>1. /\ champsim' \in [ recs : Seq(Written), tail : ChampSimTail ]
        /\ champsim'.tail = "corrupt" /\ AllRight'
    BY <1>1, <1>3, TornRight DEF ConvInv
  <2>2. ConvTypes'
    BY <1>1, <2>1 DEF ConvInv, ConvTypes
  <2>3. InStep' /\ Accounts'
    BY <1>1, <2>1 DEF InStep, Accounts
  <2> QED
    BY <2>1, <2>2, <2>3 DEF ConvInv
<1>4. CASE champsim.tail = "corrupt" /\ UNCHANGED champsim
  <2>1. ConvTypes' /\ AllRight'
    BY <1>1, <1>4 DEF ConvInv, ConvTypes, AllRight, RightRecord, Successor
  <2>2. InStep' /\ Accounts'
    BY <1>1, <1>4 DEF InStep, Accounts
  <2> QED
    BY <2>1, <2>2 DEF ConvInv
<1> QED
  BY <1>2, <1>3, <1>4 DEF Finalize

(* Every step of the converter keeps ConvInv.                              *)
LEMMA ConvStep ==
  ASSUME ConvInv, ConvertNext
  PROVE  ConvInv'
BY OpenStep, RecordStep, WriteFailsStep, LoopEnds, FinalStep, FinalizeStep DEF ConvertNext

---------------------------------------------------------------------------
(* The records that the report of the converter is about.                  *)
KernelRecs(q) == {i \in 1 .. Len(q) : ~q[i].user}
BranchRecs(q) == {i \in 1 .. Len(q) : q[i].is_branch}
MemRecs(q) == {i \in 1 .. Len(q) : HasMem(q[i])}

(* A set of positions that grows by the next one, or does not.             *)
LEMMA CountGrows ==
  ASSUME NEW n \in Nat, NEW A, NEW B, A \subseteq 1 .. n, B \subseteq 1 .. n + 1,
         B \cap (1 .. n) = A
  PROVE  /\ Cardinality(A) \in Nat /\ Cardinality(B) \in Nat
         /\ Cardinality(B) = Cardinality(A) + one(n + 1 \in B)
<1>1. B \cap (1 .. n + 1) = B
  OBVIOUS
<1>2. /\ Cardinality(B \cap (1 .. n)) \in 0 .. n
      /\ Cardinality(B \cap (1 .. n + 1)) = Cardinality(B \cap (1 .. n)) + one(n + 1 \in B)
  BY CountNext
<1> QED
  BY <1>1, <1>2 DEF one

(* Counts of records are numbers.                                          *)
LEMMA CountedAre ==
  ASSUME NEW q \in Seq(Written)
  PROVE  /\ Cardinality(KernelRecs(q)) \in Nat
         /\ Cardinality(BranchRecs(q)) \in Nat
         /\ Cardinality(MemRecs(q)) \in Nat
<1>1. IsFiniteSet(1 .. Len(q))
  BY FS_Interval
<1>2. KernelRecs(q) \subseteq 1 .. Len(q) /\ BranchRecs(q) \subseteq 1 .. Len(q)
      /\ MemRecs(q) \subseteq 1 .. Len(q)
  BY DEF KernelRecs, BranchRecs, MemRecs
<1> QED
  BY <1>1, <1>2, FS_Subset, FS_CardinalityType

(* One record more is counted.                                             *)
LEMMA CountAppended ==
  ASSUME NEW q \in Seq(Written), NEW w \in Written
  PROVE  LET a == Append(q, w)
         IN /\ Cardinality(KernelRecs(a)) = Cardinality(KernelRecs(q)) + one(~w.user)
            /\ Cardinality(BranchRecs(a)) = Cardinality(BranchRecs(q)) + one(w.is_branch)
            /\ Cardinality(MemRecs(a)) = Cardinality(MemRecs(q)) + one(HasMem(w))
<1> DEFINE a == Append(q, w)
           n == Len(q)
<1>1. /\ n \in Nat /\ Len(a) = n + 1 /\ a[n + 1] = w
      /\ \A i \in 1 .. n : a[i] = q[i]
  OBVIOUS
<1> HIDE DEF a, n
<1>2. /\ KernelRecs(q) \subseteq 1 .. n /\ KernelRecs(a) \subseteq 1 .. n + 1
      /\ KernelRecs(a) \cap (1 .. n) = KernelRecs(q)
      /\ n + 1 \in KernelRecs(a) <=> ~w.user
  BY <1>1 DEF KernelRecs, n
<1>3. /\ BranchRecs(q) \subseteq 1 .. n /\ BranchRecs(a) \subseteq 1 .. n + 1
      /\ BranchRecs(a) \cap (1 .. n) = BranchRecs(q)
      /\ n + 1 \in BranchRecs(a) <=> w.is_branch
  BY <1>1 DEF BranchRecs, n
<1>4. /\ MemRecs(q) \subseteq 1 .. n /\ MemRecs(a) \subseteq 1 .. n + 1
      /\ MemRecs(a) \cap (1 .. n) = MemRecs(q)
      /\ n + 1 \in MemRecs(a) <=> HasMem(w)
  BY <1>1 DEF MemRecs, n
<1>5. Cardinality(KernelRecs(a)) = Cardinality(KernelRecs(q)) + one(~w.user)
  BY <1>1, <1>2, CountGrows DEF one
<1>6. Cardinality(BranchRecs(a)) = Cardinality(BranchRecs(q)) + one(w.is_branch)
  BY <1>1, <1>3, CountGrows DEF one
<1>7. Cardinality(MemRecs(a)) = Cardinality(MemRecs(q)) + one(HasMem(w))
  BY <1>1, <1>4, CountGrows DEF one
<1> QED
  BY <1>5, <1>6, <1>7 DEF a

(* What the report says beyond what is written.                            *)
Reported(k, b, m) ==
  /\ cstats.kernel_insns = Cardinality(KernelRecs(champsim.recs)) + k
  /\ cstats.branch_insns = Cardinality(BranchRecs(champsim.recs)) + b
  /\ cstats.mem_insns = Cardinality(MemRecs(champsim.recs)) + m

ReportedWith(p) == Reported(one(~p.user), one(p.is_branch), one(HasMem(p)))

AllFit == \A i \in 1 .. Len(champsim.recs) : Fits(champsim.recs[i])

Report ==
  /\ cstats.mem_overflow = SlotlessIn(input.recs)[cstats.total_insns]
  /\ conv \in {"waiting", "loop", "final"} =>
       IF cstats.total_insns = 0 THEN Reported(0, 0, 0)
       ELSE ReportedWith(Made(input.recs[cstats.total_insns]))
  /\ (conv = "done" /\ champsim.tail = "cut") \/ (conv = "exited" /\ champsim.tail = "end") =>
       (cstats.total_insns = Len(champsim.recs) => Reported(0, 0, 0))

ReportInv == AllFit /\ Report

(* A record that is written takes what was pending into the trace.         *)
LEMMA WriteReported ==
  ASSUME ConvTypes, AllFit, NEW p, NEW w \in Written, writer_write(w),
         Fits(w), CountsAs(w, p), ReportedWith(p)
  PROVE  /\ AllFit'
         /\ cstats.kernel_insns = Cardinality(KernelRecs(champsim'.recs))
         /\ cstats.branch_insns = Cardinality(BranchRecs(champsim'.recs))
         /\ cstats.mem_insns = Cardinality(MemRecs(champsim'.recs))
<1> DEFINE q == champsim.recs
           a == Append(q, w)
<1>1. q \in Seq(Written) /\ champsim \in [ recs : Seq(Written), tail : ChampSimTail ]
  BY DEF ConvTypes
<1>2. champsim'.recs = a
  BY <1>1 DEF writer_write
<1>3. AllFit'
  <2>1. /\ Len(q) \in Nat /\ Len(a) = Len(q) + 1 /\ a[Len(q) + 1] = w
        /\ \A i \in 1 .. Len(q) : a[i] = q[i]
    BY <1>1
  <2>2. ASSUME NEW i \in 1 .. Len(q) + 1 PROVE Fits(a[i])
    <3>1. CASE i = Len(q) + 1
      BY <2>1, <3>1, Zenon
    <3>2. CASE i # Len(q) + 1
      <4>1. i \in 1 .. Len(q)
        BY <2>1, <3>2
      <4> QED
        BY <2>1, <4>1 DEF AllFit
    <3> QED
      BY <3>1, <3>2
  <2> QED
    BY <1>2, <2>1, <2>2 DEF AllFit, Fits
<1>4. one(~w.user) = one(~p.user) /\ one(w.is_branch) = one(p.is_branch)
      /\ one(HasMem(w)) = one(HasMem(p))
  BY DEF CountsAs, HasMem
<1>5. /\ Cardinality(KernelRecs(a)) = Cardinality(KernelRecs(q)) + one(~w.user)
      /\ Cardinality(BranchRecs(a)) = Cardinality(BranchRecs(q)) + one(w.is_branch)
      /\ Cardinality(MemRecs(a)) = Cardinality(MemRecs(q)) + one(HasMem(w))
  BY <1>1, CountAppended
<1> HIDE DEF a
<1> QED
  BY <1>2, <1>3, <1>4, <1>5 DEF ReportedWith, Reported

(* The first records of a trace that fits fit.                             *)
LEMMA TornFits ==
  ASSUME ConvTypes, AllFit, Torn
  PROVE  AllFit' /\ champsim'.tail = "corrupt"
<1> DEFINE q == champsim.recs
<1>1. q \in Seq(Written) /\ Len(q) \in Nat
  BY DEF ConvTypes
<1>2. PICK n \in 0 .. Len(q) : champsim' = [ recs |-> SubSeq(q, 1, n), tail |-> "corrupt" ]
  BY DEF Torn
<1>3. Len(SubSeq(q, 1, n)) = n /\ \A i \in 1 .. n : SubSeq(q, 1, n)[i] = q[i]
  BY <1>1, <1>2
<1>4. \A i \in 1 .. n : Fits(q[i])
  BY <1>1, <1>2 DEF AllFit
<1>5. champsim'.recs = SubSeq(q, 1, n) /\ champsim'.tail = "corrupt"
  BY <1>2
<1> QED
  BY <1>3, <1>4, <1>5 DEF AllFit, Fits

(* A record is read: the one before it is written, it is the pending one.  *)
LEMMA RecordReported ==
  ASSUME ConvInv, ReportInv, ConvertRecord
  PROVE  ReportInv'
<1> DEFINE n == cstats.total_insns
           r == input.recs[n + 1]
           p == Made(r)
<1>1. /\ conv = "loop" /\ ~AtLimit /\ ~AtTail /\ UNCHANGED <<conv, input>>
      /\ cstats' = Counted(r, decode(r.code), p)
  BY DEF ConvertRecord, Made
<1>2. /\ n \in Nat /\ n + 1 \in 1 .. Len(input.recs) /\ Len(input.recs) \in Nat
      /\ r \in Insns /\ Honest(input.format, r)
  BY <1>1, Reads
<1>3. input.format \in RawFormat /\ Behind /\ ConvTypes /\ AllFit /\ Report
  BY <1>1 DEF ConvInv, ConvTypes, InStep, ReportInv
<1>4. /\ p.user = r.user
      /\ cstats'.total_insns = n + 1
      /\ cstats'.kernel_insns = cstats.kernel_insns + one(~p.user)
      /\ cstats'.branch_insns = cstats.branch_insns + one(p.is_branch)
      /\ cstats'.mem_insns = cstats.mem_insns + one(HasMem(p))
      /\ cstats'.mem_overflow = cstats.mem_overflow + Slotless(r)
  BY <1>1, <1>2, <1>3, MadeCounts
<1>5. cstats'.mem_overflow = SlotlessIn(input'.recs)[cstats'.total_insns]
  <2>1. n \in 0 .. Len(input.recs) - 1
    BY <1>2
  <2>2. SlotlessIn(input.recs)[n + 1] = SlotlessIn(input.recs)[n] + Slotless(r)
    BY <1>2, <2>1, SlotlessSums
  <2> QED
    BY <1>1, <1>3, <1>4, <2>2 DEF Report
<1>6. Made(input.recs[cstats.total_insns])' = p
  <2> HIDE DEF n
  <2> QED
    BY <1>1, <1>4 DEF Made, decode
<1>7. /\ AllFit'
      /\ cstats.kernel_insns = Cardinality(KernelRecs(champsim'.recs))
      /\ cstats.branch_insns = Cardinality(BranchRecs(champsim'.recs))
      /\ cstats.mem_insns = Cardinality(MemRecs(champsim'.recs))
  <2>1. CASE n = 0
    <3>1. champsim' = champsim
      <4>1. prev_record = << >>
        BY <1>3, <2>1 DEF Behind
      <4> QED
        BY <4>1 DEF ConvertRecord
    <3>2. Reported(0, 0, 0)
      BY <1>1, <1>3, <2>1 DEF Report
    <3>3. champsim.recs \in Seq(Written)
      BY <1>3 DEF ConvTypes
    <3>4. /\ Cardinality(KernelRecs(champsim.recs)) \in Nat
          /\ Cardinality(BranchRecs(champsim.recs)) \in Nat
          /\ Cardinality(MemRecs(champsim.recs)) \in Nat
      BY <3>3, CountedAre
    <3> QED
      BY <1>3, <3>1, <3>2, <3>4 DEF AllFit, Fits, Reported
  <2>2. CASE n # 0
    <3> DEFINE y == input.recs[n]
               w == Direction(Made(y), r.ip)
    <3>1. prev_record = << Made(y) >> /\ n \in 1 .. Len(input.recs)
      BY <1>2, <1>3, <2>2 DEF Behind
    <3>2. writer_write(w)
      BY <3>1 DEF ConvertRecord
    <3>3. y \in Insns /\ Honest(input.format, y)
      BY <1>3, <3>1 DEF ConvTypes
    <3>4. w \in Written
      BY <1>3, <3>3, DirectedRight
    <3>5. Fits(w) /\ CountsAs(w, Made(y))
      BY <1>3, <3>3, WrittenFits
    <3>6. ReportedWith(Made(y))
      BY <1>1, <1>3, <2>2 DEF Report
    <3> HIDE DEF w, y
    <3> QED
      BY <1>3, <3>2, <3>4, <3>5, <3>6, WriteReported
  <2> QED
    BY <2>1, <2>2
<1>8. (ReportedWith(Made(input.recs[cstats.total_insns])))'
  <2> HIDE DEF n, p
  <2>1. /\ cstats'.kernel_insns = Cardinality(KernelRecs(champsim'.recs)) + one(~p.user)
        /\ cstats'.branch_insns = Cardinality(BranchRecs(champsim'.recs)) + one(p.is_branch)
        /\ cstats'.mem_insns = Cardinality(MemRecs(champsim'.recs)) + one(HasMem(p))
    BY <1>4, <1>7
  <2> QED
    BY <1>6, <2>1 DEF ReportedWith, Reported, HasMem, KernelRecs, BranchRecs, MemRecs
<1>9. (cstats.total_insns)' # 0
  BY <1>2, <1>4
<1> HIDE DEF n, p, r
<1> QED
  BY <1>1, <1>5, <1>7, <1>8, <1>9 DEF ReportInv, Report

(* A loop that ends leaves the report as it is; behind a broken operand    *)
(* the pending record stays out of the trace.                              *)
LEMMA EndsReported ==
  ASSUME ConvInv, ReportInv, OpenInput \/ EndOfTrace \/ BadRecord \/ BadMemOp
  PROVE  ReportInv'
<1> DEFINE n == cstats.total_insns
<1>1. /\ conv \in {"waiting", "loop"} /\ UNCHANGED <<cstats, input, champsim>>
      /\ conv' \in {"loop", "final", "done", "exited"}
      /\ conv' = "exited" => champsim.tail # "end"
  <2>1. conv = "waiting" => champsim.tail = "cut"
    BY DEF ConvInv, InStep
  <2> QED
    BY <2>1 DEF OpenInput, EndOfTrace, BadRecord, BadMemOp, files
<1>2. n \in Nat /\ Behind /\ Report /\ AllFit
  BY <1>1 DEF ConvInv, ConvTypes, InStep, ReportInv
<1>3. n = Len(champsim.recs) => n = 0
  BY <1>2 DEF Behind
<1>4. n = 0 => Reported(0, 0, 0)
  BY <1>1, <1>2 DEF Report
<1>5. Reported(0, 0, 0) => Reported(0, 0, 0)'
  BY <1>1 DEF Reported
<1>6. n # 0 => (ReportedWith(Made(input.recs[cstats.total_insns])))'
  <2>1. n # 0 => ReportedWith(Made(input.recs[n]))
    BY <1>1, <1>2 DEF Report
  <2>2. Made(input.recs[cstats.total_insns])' = Made(input.recs[n])
    BY <1>1 DEF Made, decode
  <2> QED
    BY <1>1, <2>1, <2>2 DEF ReportedWith, Reported, HasMem
<1>7. AllFit'
  BY <1>1, <1>2 DEF AllFit, Fits
<1>8. Report'
  BY <1>1, <1>2, <1>3, <1>4, <1>5, <1>6 DEF Report
<1> QED
  BY <1>7, <1>8 DEF ReportInv

(* A stream that breaks has no report to agree with.                       *)
LEMMA BrokenReported ==
  ASSUME ConvTypes, ReportInv, UNCHANGED <<cstats, input>>, conv' \in {"done", "exited"},
         AllFit', champsim'.tail = "corrupt"
  PROVE  ReportInv'
BY DEF ReportInv, Report

(* The last record is written with what was pending, or left out.          *)
LEMMA FinalReported ==
  ASSUME ConvInv, ReportInv, FinalRecord
  PROVE  ReportInv'
<1> DEFINE n == cstats.total_insns
           r == input.recs[n]
           p == Made(r)
           w == [p EXCEPT !.branch_taken = @ \/ p.is_branch]
<1>1. /\ conv = "final" /\ conv' = "done" /\ UNCHANGED <<cstats, input>>
  BY DEF FinalRecord
<1>2. /\ n \in Nat /\ n <= Len(input.recs) /\ Len(input.recs) \in Nat
      /\ input.format \in RawFormat /\ Behind /\ Report /\ AllFit /\ ConvTypes
  BY <1>1 DEF ConvInv, ConvTypes, InStep, ReportInv
<1>3. n # 0 => /\ prev_record = << p >> /\ Len(champsim.recs) = n - 1
               /\ r \in Insns /\ Honest(input.format, r)
               /\ ReportedWith(p)
  BY <1>1, <1>2 DEF ConvTypes, Behind, Report
<1>4. n = 0 => Reported(0, 0, 0) /\ prev_record = << >>
  BY <1>1, <1>2 DEF Behind, Report
<1>5. SlotlessIn(input.recs)[n] = cstats.mem_overflow
  BY <1>2 DEF Report
<1>6. CASE UNCHANGED champsim
  <2>1. n = Len(champsim.recs) => Reported(0, 0, 0)
    BY <1>2, <1>3, <1>4
  <2>2. AllFit'
    BY <1>2, <1>6 DEF AllFit, Fits
  <2>3. Report'
    BY <1>1, <1>5, <1>6, <2>1 DEF Report, Reported
  <2> QED
    BY <2>2, <2>3 DEF ReportInv
<1>7. CASE /\ prev_record # << >> /\ ~DropFinal
           /\ writer_write([prev_record[1] EXCEPT !.branch_taken = @ \/ prev_record[1].is_branch])
  <2>1. n # 0 /\ prev_record = << p >>
    BY <1>3, <1>4, <1>7
  <2>2. /\ p.is_branch => BRANCH_DIRECTION_IS_KNOWN_TAKEN(p.branch_type)
        /\ writer_write(w)
    BY <1>7, <2>1 DEF DropFinal
  <2>3. w \in Written
    BY <1>2, <1>3, <2>1, <2>2, LastRight
  <2>4. Fits(w) /\ CountsAs(w, p)
    BY <1>2, <1>3, <2>1, <2>2, WrittenFits
  <2>5. ReportedWith(p)
    BY <1>3, <2>1
  <2> HIDE DEF p, w
  <2>6. /\ AllFit'
        /\ cstats.kernel_insns = Cardinality(KernelRecs(champsim'.recs))
        /\ cstats.branch_insns = Cardinality(BranchRecs(champsim'.recs))
        /\ cstats.mem_insns = Cardinality(MemRecs(champsim'.recs))
    BY <1>2, <2>2, <2>3, <2>4, <2>5, WriteReported
  <2>7. champsim'.recs \in Seq(Written)
    <3>1. Append(champsim.recs, w) \in Seq(Written)
      BY <1>2, <2>3 DEF ConvTypes
    <3> QED
      BY <1>2, <2>2, <3>1 DEF writer_write, ConvTypes
  <2>8. /\ Cardinality(KernelRecs(champsim'.recs)) \in Nat
        /\ Cardinality(BranchRecs(champsim'.recs)) \in Nat
        /\ Cardinality(MemRecs(champsim'.recs)) \in Nat
    BY <2>7, CountedAre
  <2>9. Reported(0, 0, 0)'
    BY <1>1, <2>6, <2>8 DEF Reported, KernelRecs, BranchRecs, MemRecs, HasMem
  <2> QED
    BY <1>1, <1>5, <2>6, <2>9 DEF ReportInv, Report
<1>8. CASE Torn
  BY <1>1, <1>2, <1>8, TornFits, BrokenReported
<1> QED
  BY <1>6, <1>7, <1>8 DEF FinalRecord

(* Every step of the converter keeps the report.                           *)
LEMMA ReportStep ==
  ASSUME ConvInv, ReportInv, ConvertNext
  PROVE  ReportInv'
<1>1. ConvTypes /\ AllFit /\ Report
  BY DEF ConvInv, ReportInv
<1>2. CASE WriteFails
  <2>1. Torn /\ UNCHANGED <<cstats, input>> /\ conv' = "done"
    BY <1>2 DEF WriteFails
  <2> QED
    BY <1>1, <2>1, TornFits, BrokenReported
<1>3. CASE Finalize
  <2>1. conv = "done" /\ conv' = "exited" /\ UNCHANGED <<cstats, input>>
    BY <1>3 DEF Finalize
  <2>2. CASE champsim.tail = "cut" /\ champsim' = [champsim EXCEPT !.tail = "end"]
    <3>1. champsim'.recs = champsim.recs /\ champsim'.tail = "end"
      BY <1>1, <2>2 DEF ConvTypes
    <3>2. cstats.total_insns = Len(champsim.recs) => Reported(0, 0, 0)
      BY <1>1, <2>1, <2>2 DEF Report
    <3>3. AllFit'
      BY <1>1, <3>1 DEF AllFit, Fits
    <3> QED
      BY <1>1, <2>1, <3>1, <3>2, <3>3 DEF ReportInv, Report, Reported
  <2>3. CASE Torn
    BY <1>1, <2>1, <2>3, TornFits, BrokenReported
  <2>4. CASE champsim.tail = "corrupt" /\ UNCHANGED champsim
    <3>1. AllFit' /\ champsim'.tail = "corrupt"
      BY <1>1, <2>4 DEF AllFit, Fits
    <3> QED
      BY <1>1, <2>1, <3>1, BrokenReported
  <2> QED
    BY <1>3, <2>2, <2>3, <2>4 DEF Finalize
<1> QED
  BY <1>2, <1>3, RecordReported, EndsReported, FinalReported DEF ConvertNext

---------------------------------------------------------------------------
(* g is what the check has counted after each of the first n records.      *)
CountsUpTo(g, want, n) ==
  g = [k \in 0 .. n |-> IF k = 0 THEN NoStats_v2
                        ELSE update_v2(want, g[k - 1], champsim.recs[k])]

(* The loop over the records ends: there is such a count for each number.  *)
LEMMA LoopCounts ==
  ASSUME NEW want, NEW n \in Nat
  PROVE  \E g : CountsUpTo(g, want, n)
<1> DEFINE T == {m \in Nat : ~ \E g : CountsUpTo(g, want, m)}
<1>1. CASE T = {}
  BY <1>1
<1>2. CASE T # {}
  <2>1. PICK m \in T : \A y \in T : m <= y
    <3> HIDE DEF T
    <3>1. T \subseteq Nat
      BY DEF T
    <3> QED
      BY <1>2, <3>1, LeastNat
  <2>2. m \in Nat /\ ~ \E g : CountsUpTo(g, want, m)
    OBVIOUS
  <2>3. m # 0
    <3> DEFINE h == [k \in 0 .. 0 |-> NoStats_v2]
    <3>1. CountsUpTo(h, want, 0)
      BY DEF CountsUpTo
    <3> QED
      BY <2>2, <3>1
  <2>4. m - 1 \in Nat /\ m - 1 \notin T
    BY <2>1, <2>2, <2>3
  <2>5. PICK g : CountsUpTo(g, want, m - 1)
    BY <2>4
  <2> DEFINE next(q, k) == IF k = 0 THEN NoStats_v2 ELSE update_v2(want, q[k - 1], champsim.recs[k])
             h == [k \in 0 .. m |-> IF k = m THEN next(g, m) ELSE g[k]]
  <2>6. g = [k \in 0 .. m - 1 |-> next(g, k)]
    BY <2>5 DEF CountsUpTo
  <2>7. ASSUME NEW k \in 0 .. m
        PROVE  h[k] = next(h, k)
    <3>1. k # 0 => k - 1 \in 0 .. m /\ k - 1 # m /\ h[k - 1] = g[k - 1]
      BY <2>2
    <3>2. next(h, k) = next(g, k)
      BY <3>1
    <3>3. CASE k = m
      BY <3>2, <3>3
    <3>4. CASE k # m
      <4>1. k \in 0 .. m - 1 /\ h[k] = g[k]
        BY <2>2, <3>4
      <4> HIDE DEF next, h
      <4>2. g[k] = next(g, k)
        BY <2>6, <4>1
      <4> QED
        BY <3>2, <4>1, <4>2
    <3> QED
      BY <3>3, <3>4
  <2>8. h = [k \in 0 .. m |-> h[k]]
    OBVIOUS
  <2> HIDE DEF h
  <2>9. h = [k \in 0 .. m |-> next(h, k)]
    <3> HIDE DEF next
    <3> QED
      BY <2>7, <2>8
  <2>10. CountsUpTo(h, want, m)
    BY <2>9 DEF CountsUpTo
  <2> QED
    BY <2>2, <2>10
<1> QED
  BY <1>1, <1>2

(* One record more, field by field.                                        *)
LEMMA UpdateAdds ==
  ASSUME NEW want, NEW g, DOMAIN g = DOMAIN NoStats_v2, NEW r
  PROVE  LET u == update_v2(want, g, r)
         IN /\ DOMAIN u = DOMAIN NoStats_v2
            /\ u.records = g.records + 1
            /\ u.branch_inst = g.branch_inst + one(r.is_branch)
            /\ u.mem_inst = g.mem_inst + one(HasMem(r))
            /\ u.kernel_inst = g.kernel_inst + one(~r.user)
            /\ u.btype_hist = [g.btype_hist EXCEPT ![r.branch_type] = @ + 1]
            /\ u.btype_taken = [g.btype_taken EXCEPT ![r.branch_type] = @ + one(r.branch_taken)]
            /\ u.explicit_bt_records
                 = g.explicit_bt_records + one("EXPLICIT_BRANCH_TYPE" \in r.features)
            /\ u.call_ret_not_flagged
                 = g.call_ret_not_flagged + one(r.branch_type \in {3, 4, 5} /\ ~r.is_branch)
<1> DEFINE Fields == DOMAIN NoStats_v2
           i == IF want THEN indirect(g, r) ELSE g
           c == update_common(i, r)
           u == update_v2(want, g, r)
<1>1. Fields = {"records", "branch_inst", "kernel_inst", "mem_inst", "btype_hist", "btype_taken",
                "explicit_bt_records", "call_ret_not_flagged", "flags_in_src", "flags_in_dst",
                "ind_targets", "ind_exec", "ind_pending", "ind_dangling"}
  BY DEF NoStats_v2
<1> HIDE DEF Fields
<1>2. DOMAIN g = Fields
  BY DEF Fields
<1>3. /\ DOMAIN i = Fields
      /\ \A x \in Fields \ {"ind_targets", "ind_exec", "ind_pending"} : i[x] = g[x]
  BY <1>1, <1>2 DEF indirect
<1>4. u = [c EXCEPT
       !.kernel_inst = @ + one(~r.user),
       !.btype_hist[r.branch_type] = @ + 1,
       !.btype_taken[r.branch_type] = @ + one(r.branch_taken),
       !.explicit_bt_records = @ + one("EXPLICIT_BRANCH_TYPE" \in r.features),
       !.call_ret_not_flagged = @ + one(r.branch_type \in {3, 4, 5} /\ ~r.is_branch),
       !.flags_in_src = @ + one(REG_FLAGS \in Range(r.src)),
       !.flags_in_dst = @ + one(REG_FLAGS \in Range(r.dst))]
  BY DEF update_v2, BT_DIRECT_CALL, BT_INDIRECT_CALL, BT_RETURN
<1> HIDE DEF i, u
<1>5. /\ DOMAIN c = Fields
      /\ c.records = i.records + 1
      /\ c.branch_inst = i.branch_inst + one(r.is_branch)
      /\ c.mem_inst = i.mem_inst + one(HasMem(r))
      /\ \A x \in Fields \ {"records", "branch_inst", "mem_inst"} : c[x] = i[x]
  BY <1>1, <1>3 DEF update_common, HasMem
<1> HIDE DEF c
<1>6. /\ c.records = g.records + 1
      /\ c.branch_inst = g.branch_inst + one(r.is_branch)
      /\ c.mem_inst = g.mem_inst + one(HasMem(r))
      /\ c.kernel_inst = g.kernel_inst
      /\ c.btype_hist = g.btype_hist /\ c.btype_taken = g.btype_taken
      /\ c.explicit_bt_records = g.explicit_bt_records
      /\ c.call_ret_not_flagged = g.call_ret_not_flagged
  BY <1>1, <1>3, <1>5
<1>7. /\ DOMAIN u = Fields
      /\ u.records = c.records /\ u.branch_inst = c.branch_inst /\ u.mem_inst = c.mem_inst
      /\ u.kernel_inst = c.kernel_inst + one(~r.user)
      /\ u.btype_hist = [c.btype_hist EXCEPT ![r.branch_type] = @ + 1]
      /\ u.btype_taken = [c.btype_taken EXCEPT ![r.branch_type] = @ + one(r.branch_taken)]
      /\ u.explicit_bt_records
           = c.explicit_bt_records + one("EXPLICIT_BRANCH_TYPE" \in r.features)
      /\ u.call_ret_not_flagged
           = c.call_ret_not_flagged + one(r.branch_type \in {3, 4, 5} /\ ~r.is_branch)
  BY <1>1, <1>4, <1>5
<1> QED
  BY <1>6, <1>7 DEF u, Fields

(* What the check has counted of k records that fit, of which K are of the *)
(* kernel, B are branches and M have memory operands.                      *)
Tallies(e, k, K, B, M) ==
  /\ DOMAIN e = DOMAIN NoStats_v2
  /\ e.records = k /\ e.explicit_bt_records = k /\ e.call_ret_not_flagged = 0
  /\ e.kernel_inst = K /\ e.branch_inst = B /\ e.mem_inst = M
  /\ e.btype_hist \in [0 .. 7 -> Nat] /\ e.btype_taken \in [0 .. 7 -> Nat]
  /\ \A t \in {0, 1, 3, 4, 5} : e.btype_taken[t] = e.btype_hist[t]
  /\ e.btype_hist[7] + B = k

(* ... and of one more.                                                    *)
LEMMA TallyNext ==
  ASSUME NEW want, NEW e, NEW k \in Nat, NEW K \in Nat, NEW B \in Nat, NEW M \in Nat,
         Tallies(e, k, K, B, M), NEW r, Fits(r)
  PROVE  Tallies(update_v2(want, e, r), k + 1, K + one(~r.user), B + one(r.is_branch),
                 M + one(HasMem(r)))
<1> DEFINE u == update_v2(want, e, r)
           t == r.branch_type
<1>1. /\ DOMAIN u = DOMAIN NoStats_v2
      /\ u.records = e.records + 1
      /\ u.branch_inst = e.branch_inst + one(r.is_branch)
      /\ u.mem_inst = e.mem_inst + one(HasMem(r))
      /\ u.kernel_inst = e.kernel_inst + one(~r.user)
      /\ u.btype_hist = [e.btype_hist EXCEPT ![t] = @ + 1]
      /\ u.btype_taken = [e.btype_taken EXCEPT ![t] = @ + one(r.branch_taken)]
      /\ u.explicit_bt_records
           = e.explicit_bt_records + one("EXPLICIT_BRANCH_TYPE" \in r.features)
      /\ u.call_ret_not_flagged
           = e.call_ret_not_flagged + one(t \in {3, 4, 5} /\ ~r.is_branch)
  <2>1. DOMAIN e = DOMAIN NoStats_v2
    BY DEF Tallies
  <2> QED
    BY <2>1, UpdateAdds
<1> HIDE DEF u
<1>2. t \in 0 .. 7 /\ (t # 7 => r.is_branch) /\ (t = 7 => ~r.is_branch)
  BY DEF Fits
<1>3. one("EXPLICIT_BRANCH_TYPE" \in r.features) = 1
  BY DEF Fits, one
<1>4. one(t \in {3, 4, 5} /\ ~r.is_branch) = 0
  BY <1>2 DEF one
<1>5. one(r.branch_taken) \in {0, 1} /\ (t \in {0, 1, 3, 4, 5} => one(r.branch_taken) = 1)
  BY DEF Fits, one
<1>6. one(r.is_branch) = IF t = 7 THEN 0 ELSE 1
  BY <1>2 DEF one
<1> HIDE DEF t
<1>7. /\ u.btype_hist \in [0 .. 7 -> Nat] /\ u.btype_taken \in [0 .. 7 -> Nat]
      /\ \A x \in {0, 1, 3, 4, 5} : u.btype_taken[x] = u.btype_hist[x]
      /\ u.btype_hist[7] = e.btype_hist[7] + (IF t = 7 THEN 1 ELSE 0)
  BY <1>1, <1>2, <1>5 DEF Tallies
<1> QED
  BY <1>1, <1>3, <1>4, <1>6, <1>7 DEF Tallies, u, t

(* The pass over a trace whose records fit counts all of it.               *)
LEMMA PassTallies ==
  ASSUME NEW want, champsim.recs \in Seq(Written), AllFit
  PROVE  Tallies(run_v2(want), Len(champsim.recs), Cardinality(KernelRecs(champsim.recs)),
                 Cardinality(BranchRecs(champsim.recs)), Cardinality(MemRecs(champsim.recs)))
<1> DEFINE q == champsim.recs
           n == Len(q)
           f == after_records(want)
           X == KernelRecs(q)
           Y == BranchRecs(q)
           Z == MemRecs(q)
<1>1. n \in Nat
  OBVIOUS
<1>2. CountsUpTo(f, want, n)
  <2>1. f = CHOOSE g : CountsUpTo(g, want, n)
    BY DEF after_records, CountsUpTo
  <2> HIDE DEF f
  <2> QED
    BY <1>1, <2>1, LoopCounts
<1>3. /\ \A k \in 1 .. n : Fits(q[k])
      /\ \A k \in 1 .. n : k \in X <=> ~q[k].user
      /\ \A k \in 1 .. n : k \in Y <=> q[k].is_branch
      /\ \A k \in 1 .. n : k \in Z <=> HasMem(q[k])
      /\ X \cap (1 .. n) = X /\ Y \cap (1 .. n) = Y /\ Z \cap (1 .. n) = Z
  BY DEF AllFit, KernelRecs, BranchRecs, MemRecs
<1>4. \A k \in 0 .. n : f[k] = IF k = 0 THEN NoStats_v2 ELSE update_v2(want, f[k - 1], q[k])
  <2> HIDE DEF f, n
  <2> QED
    BY <1>2 DEF CountsUpTo
<1>5. run_v2(want) = [f[n] EXCEPT !.ind_dangling = one(f[n].ind_pending # {}), !.ind_pending = {}]
  BY DEF run_v2
<1> HIDE DEF f, n, q, X, Y, Z
<1> DEFINE C(S, k) == Cardinality(S \cap (1 .. k))
           Good(k) == Tallies(f[k], k, C(X, k), C(Y, k), C(Z, k))
           T == {k \in 0 .. n : ~Good(k)}
<1>6. ASSUME NEW S, NEW k \in Nat
      PROVE  C(S, k) \in Nat /\ C(S, k + 1) = C(S, k) + one(k + 1 \in S)
  <2>1. /\ Cardinality(S \cap (1 .. k)) \in 0 .. k
        /\ Cardinality(S \cap (1 .. k + 1)) = Cardinality(S \cap (1 .. k)) + one(k + 1 \in S)
    BY CountNext
  <2> QED
    BY <2>1
<1>7. \A S : C(S, 0) = 0
  BY CountNone
<1> HIDE DEF Good, C
<1>8. T = {}
  <2> SUFFICES ASSUME T # {} PROVE FALSE
    OBVIOUS
  <2>1. PICK m \in T : \A y \in T : m <= y
    <3> HIDE DEF T
    <3>1. T \subseteq Nat
      BY <1>1 DEF T
    <3> QED
      BY <3>1, LeastNat
  <2>2. m \in 0 .. n /\ ~Good(m)
    OBVIOUS
  <2>3. m # 0
    <3>1. f[0] = NoStats_v2
      BY <1>1, <1>4
    <3>2. Good(0)
      BY <1>7, <3>1 DEF Good, Tallies, NoStats_v2, BranchTypes
    <3> QED
      BY <2>2, <3>2
  <2>4. m - 1 \in 0 .. n /\ m - 1 \in Nat /\ m \in 1 .. n /\ m - 1 < m /\ (m - 1) + 1 = m
    BY <1>1, <2>2, <2>3
  <2>5. Good(m - 1)
    <3>1. m - 1 \notin T
      <4> HIDE DEF T
      <4> QED
        BY <2>1, <2>2, <2>4
    <3> QED
      BY <2>4, <3>1
  <2> DEFINE l == m - 1
             g == f[l]
             r == q[m]
  <2>6. f[m] = update_v2(want, g, r) /\ Fits(r)
    BY <1>3, <1>4, <2>2, <2>3, <2>4
  <2>7. /\ C(X, l) \in Nat /\ C(X, m) = C(X, l) + one(m \in X)
        /\ C(Y, l) \in Nat /\ C(Y, m) = C(Y, l) + one(m \in Y)
        /\ C(Z, l) \in Nat /\ C(Z, m) = C(Z, l) + one(m \in Z)
    <3>1. l \in Nat /\ l + 1 = m
      BY <2>4
    <3> HIDE DEF l
    <3> QED
      BY <1>6, <3>1
  <2>8. /\ one(m \in X) = one(~r.user) /\ one(m \in Y) = one(r.is_branch)
        /\ one(m \in Z) = one(HasMem(r))
    BY <1>3, <2>4 DEF one
  <2>9. Tallies(g, l, C(X, l), C(Y, l), C(Z, l)) /\ l \in Nat
    BY <2>4, <2>5 DEF Good
  <2>10. l + 1 = m
    BY <2>4
  <2> HIDE DEF l, g, r
  <2>11. Tallies(update_v2(want, g, r), l + 1, C(X, l) + one(~r.user), C(Y, l) + one(r.is_branch),
                 C(Z, l) + one(HasMem(r)))
    BY <2>6, <2>7, <2>9, TallyNext
  <2>12. Good(m)
    BY <2>6, <2>7, <2>8, <2>10, <2>11, Zenon DEF Good
  <2> QED
    BY <2>2, <2>12
<1>9. n \in 0 .. n
  BY <1>1
<1>10. Good(n)
  BY <1>8, <1>9
<1>11. C(X, n) = Cardinality(X) /\ C(Y, n) = Cardinality(Y) /\ C(Z, n) = Cardinality(Z)
  BY <1>3 DEF C
<1>12. Tallies(f[n], n, Cardinality(X), Cardinality(Y), Cardinality(Z))
  BY <1>10, <1>11, Zenon DEF Good
<1> DEFINE e == f[n]
<1>13. DOMAIN e = DOMAIN NoStats_v2
  BY <1>12 DEF Tallies
<1>14. Tallies([e EXCEPT !.ind_dangling = one(e.ind_pending # {}), !.ind_pending = {}],
               n, Cardinality(X), Cardinality(Y), Cardinality(Z))
  <2> HIDE DEF e
  <2>1. Tallies(e, n, Cardinality(X), Cardinality(Y), Cardinality(Z))
    BY <1>12 DEF e
  <2> QED
    BY <1>13, <2>1 DEF Tallies, NoStats_v2
<1> QED
  BY <1>5, <1>14 DEF n, q, X, Y, Z

---------------------------------------------------------------------------
(* What the filter holds back or has written are records of its input.     *)
Drawn ==
  /\ out \in Seq(DOMAIN raw.recs)
  /\ idle.slots \in Seq(DOMAIN raw.recs)

(* ... and stay so with every step.                                        *)
LEMMA DrawnStep ==
  ASSUME FilterTypeOK, raw \in RawFile, Drawn, FilterNext
  PROVE  Drawn'
<1> DEFINE D == DOMAIN raw.recs
           h == idle.slots
<1>1. out \in Seq(D) /\ h \in Seq(D) /\ raw' = raw
  BY DEF Drawn, FilterNext, files
<1> HIDE DEF D
<1>2. << >> \in Seq(D)
  OBVIOUS
<1>3. CASE OpenRaw
  BY <1>1, <1>3 DEF OpenRaw, Drawn, D
<1>4. CASE Copy \/ FirstHlt \/ NextHlt \/ WakeUp \/ Buffer
  <2>1. pos + 1 \in D
    BY <1>4, RecordRead DEF Copy, FirstHlt, NextHlt, WakeUp, Buffer, D
  <2>2. /\ Append(out, pos + 1) \in Seq(D) /\ Append(h, pos + 1) \in Seq(D)
        /\ Append(<< >>, pos + 1) \in Seq(D)
    BY <1>1, <1>2, <2>1
  <2>3. out \o Append(h, pos + 1) \in Seq(D)
    BY <1>1, <2>2
  <2>4. CASE Copy
    BY <1>1, <2>2, <2>4 DEF Copy, Drawn, D
  <2>5. CASE FirstHlt \/ NextHlt
    <3>1. out' = out /\ idle'.slots = Append(<< >>, pos + 1)
      BY <2>5 DEF FirstHlt, NextHlt, idle_buffer_append, EmptyBuffer
    <3> QED
      BY <1>1, <2>2, <3>1 DEF Drawn, D
  <2>6. CASE WakeUp
    <3>1. out' = out \o Append(h, pos + 1) /\ idle'.slots = << >>
      BY <2>6 DEF WakeUp, EmptyBuffer
    <3> QED
      BY <1>1, <1>2, <2>3, <3>1 DEF Drawn, D
  <2>7. CASE Buffer
    <3>1. out' = out /\ idle'.slots = Append(h, pos + 1)
      BY <2>7 DEF Buffer, idle_buffer_append
    <3> QED
      BY <1>1, <2>2, <3>1 DEF Drawn, D
  <2> QED
    BY <1>4, <2>4, <2>5, <2>6, <2>7
<1>5. CASE Finish
  <2>1. out \o h \in Seq(D)
    BY <1>1
  <2> QED
    BY <1>1, <1>5, <2>1 DEF Finish, Drawn, D
<1>6. CASE Abort
  <2>1. PICK n \in 0 .. Len(out) : out' = SubSeq(out, 1, n)
    BY <1>6 DEF Abort
  <2>2. SubSeq(out, 1, n) \in Seq(D)
    BY <1>1, <2>1
  <2> QED
    BY <1>1, <1>6, <2>1, <2>2 DEF Abort, Drawn, D
<1> QED
  BY <1>3, <1>4, <1>5, <1>6 DEF FilterNext

---------------------------------------------------------------------------
(* The whole pipeline: what each tool finds when its turn comes.           *)
FromGuest(f) ==
  f \in RawFile /\ f.format \in Formats /\ f.recs \in Seq(Retired(f.format))

InGuest ==
  /\ cpu.pc \in DOMAIN Program[raw.format]
  /\ Range(cpu.irq) \subseteq DOMAIN Program[raw.format]

Unconverted == ConvertInit /\ champsim = NoTrace

(* What the sanity check has to go by.                                     *)
Checked ==
  /\ champsim.recs \in Seq(Written) /\ AllFit /\ cstats.total_insns \in Nat
  /\ champsim.tail = "end" /\ cstats.total_insns = Len(champsim.recs) => Reported(0, 0, 0)
  /\ chk # "waiting" =>
       /\ stream = StreamEnd(chkargs.format)
       /\ chkargs.format = "v2" =>
            Tallies(s, Len(champsim.recs), Cardinality(KernelRecs(champsim.recs)),
                    Cardinality(BranchRecs(champsim.recs)), Cardinality(MemRecs(champsim.recs)))
       /\ champsim.recs = << >> => s.records = 0
  /\ chk = "exited" /\ chk_exit = 0 =>
       /\ s.records # 0 /\ stream.status = 0
       /\ chkargs.check => chkargs.format = "v2"

FlowInv ==
  /\ stage \in {"capture", "filter", "convert", "cut", "check"}
  /\ stage \in {"capture", "filter"} => FromGuest(raw) /\ Unconverted
  /\ stage = "capture" => InGuest /\ FilterInit
  /\ stage = "filter" => FilterInv /\ Drawn
  /\ stage = "convert" => ConvInv /\ ReportInv /\ FilterExact
  /\ stage = "check" => Checked
  /\ stage # "check" => chk = "waiting"
  /\ stage \in {"cut", "check"} => conv = "waiting" /\ filter = "waiting"

(* A capture that ends is one that the filter and the converter can begin  *)
(* with.                                                                   *)
LEMMA FilterBegins == FilterInit /\ raw \in RawFile => FilterInv /\ Drawn
<1> SUFFICES ASSUME FilterInit, raw \in RawFile PROVE FilterInv /\ Drawn
  OBVIOUS
<1>1. FilterTypeOK
  BY DEF FilterInit, FilterTypeOK, EmptyBuffer, NoStats, RawFile, IdleBuffer, Stats
<1>2. Inv
  BY StartsEmpty
<1>3. filter = "waiting"
  BY DEF FilterInit
<1>4. Drawn
  BY DEF FilterInit, EmptyBuffer, Drawn
<1> QED
  BY <1>1, <1>2, <1>3, <1>4 DEF FilterInv, OnePass, Inv, FilterExact

HonestTrace(f) ==
  /\ f.recs \in Seq(Insns) /\ f.format \in RawFormat /\ f.tail \in RawTail
  /\ \A i \in 1 .. Len(f.recs) : Honest(f.format, f.recs[i])

(* The converter can begin with a trace that is honest.                    *)
LEMMA ConverterBegins == Unconverted /\ HonestTrace(input) => ConvInv
<1> SUFFICES ASSUME Unconverted, HonestTrace(input) PROVE ConvInv
  OBVIOUS
<1> USE DEF HonestTrace
<1>1. champsim \in [ recs : Seq(Written), tail : ChampSimTail ]
  BY DEF Unconverted, NoTrace, ChampSimTail
<1>2. champsim.recs = << >> /\ champsim.tail = "cut" /\ cstats.total_insns = 0
  BY DEF Unconverted, NoTrace, ConvertInit, NoCStats
<1>3. ConvTypes
  BY <1>1, <1>2 DEF ConvTypes, Unconverted, ConvertInit
<1> QED
  BY <1>2, <1>3 DEF ConvInv, Unconverted, ConvertInit, InStep, Behind, AllRight, Accounts

(* What comes from the guest is honest.                                    *)
LEMMA GuestIsHonest ==
  ASSUME NEW f, FromGuest(f)
  PROVE  HonestTrace(f)
<1>1. f.recs \in Seq(Retired(f.format)) /\ f.format \in Formats
  BY DEF FromGuest
<1>2. \A i \in 1 .. Len(f.recs) : f.recs[i] \in Retired(f.format)
  BY <1>1
<1> QED
  BY <1>1, <1>2, Retires DEF FromGuest, RawFile, HonestTrace

(* Before the first record the report is empty, as is the trace.           *)
LEMMA ReportBegins == Unconverted /\ HonestTrace(input) => ReportInv
<1> SUFFICES ASSUME Unconverted, HonestTrace(input) PROVE ReportInv
  OBVIOUS
<1>1. /\ champsim = NoTrace /\ cstats = NoCStats /\ conv = "waiting"
      /\ Len(input.recs) \in Nat
  BY DEF Unconverted, ConvertInit, HonestTrace
<1>2. SlotlessIn(input.recs)[0] = 0
  BY <1>1, SlotlessSums
<1>3. Len(champsim.recs) = 0
  BY <1>1 DEF NoTrace
<1>4. /\ KernelRecs(champsim.recs) = {} /\ BranchRecs(champsim.recs) = {}
      /\ MemRecs(champsim.recs) = {}
  BY <1>3 DEF KernelRecs, BranchRecs, MemRecs
<1>5. Reported(0, 0, 0)
  BY <1>1, <1>4, FS_EmptySet DEF Reported, NoCStats
<1>6. AllFit
  BY <1>3 DEF AllFit
<1>7. cstats.mem_overflow = SlotlessIn(input.recs)[cstats.total_insns]
  BY <1>1, <1>2 DEF NoCStats
<1> QED
  BY <1>1, <1>5, <1>6, <1>7 DEF ReportInv, Report, NoCStats

---------------------------------------------------------------------------
(* The pipeline, stage by stage.                                           *)
LEMMA CaptureBegins == PipelineInit => FlowInv
<1> SUFFICES ASSUME PipelineInit PROVE FlowInv
  OBVIOUS
<1>1. PICK f \in Formats :
        /\ raw = [ format |-> f, recs |-> << >>, tail |-> "end" ]
        /\ \E a \in DOMAIN Program[f] :
             cpu = [ pc |-> a, irq |-> << >>, halted |-> FALSE ]
  BY DEF PipelineInit
<1>2. FromGuest(raw)
  BY <1>1, ProgramAssumption DEF FromGuest, RawFile, RawTail
<1>3. InGuest
  <2>1. PICK a \in DOMAIN Program[f] : cpu = [ pc |-> a, irq |-> << >>, halted |-> FALSE ]
    BY <1>1
  <2> QED
    BY <1>1, <2>1 DEF InGuest, Range
<1> QED
  BY <1>2, <1>3 DEF FlowInv, PipelineInit, Unconverted, CheckInit

(* An instruction of the guest is appended to what came from the guest.    *)
LEMMA ExecuteStep == FlowInv /\ Execute => FlowInv'
<1> SUFFICES ASSUME FlowInv, Execute PROVE FlowInv'
  OBVIOUS
<1> DEFINE f == raw.format
           i == Program[f][cpu.pc]
<1>1. /\ stage = "capture" /\ UNCHANGED <<input, champsim, fvars, cvars, stage, chk>>
      /\ FromGuest(raw) /\ Unconverted /\ InGuest /\ FilterInit
  BY DEF Execute, FlowInv, svars
<1>2. PICK to \in (IF i.next = {} THEN Range(cpu.irq) ELSE i.next) :
        /\ cpu' = [ pc |-> to, halted |-> i.hlt,
                    irq |-> IF i.next = {} THEN << >> ELSE cpu.irq ]
        /\ raw' = [raw EXCEPT !.recs = Append(@, Retire(f, cpu.pc, to))]
  BY DEF Execute
<1>3. f \in Formats /\ cpu.pc \in DOMAIN Program[f] /\ Range(cpu.irq) \subseteq DOMAIN Program[f]
  BY <1>1 DEF FromGuest, InGuest
<1>4. i.next \subseteq DOMAIN Program[f]
  BY <1>3, ProgramAssumption
<1> HIDE DEF i
<1>5. to \in DOMAIN Program[f]
  BY <1>2, <1>3, <1>4
<1> DEFINE r == Retire(f, cpu.pc, to)
           a == Append(raw.recs, r)
<1>6. r \in Retired(f) /\ r \in Insns
  BY <1>3, <1>5, ProgramAssumption DEF Retired
<1> HIDE DEF r
<1>7. a \in Seq(Retired(f)) /\ a \in Seq(Insns)
  BY <1>1, <1>6 DEF FromGuest, RawFile
<1>8. raw' = [raw EXCEPT !.recs = a]
  BY <1>2 DEF r
<1> HIDE DEF a
<1>9. FromGuest(raw')
  <2>1. raw'.format = f /\ raw'.recs = a /\ raw' \in RawFile
    BY <1>1, <1>7, <1>8 DEF FromGuest, RawFile
  <2> QED
    BY <1>3, <1>7, <2>1 DEF FromGuest
<1>10. InGuest'
  <2>1. raw'.format = f
    BY <1>1, <1>8 DEF FromGuest, RawFile
  <2>2. Range(<< >>) = {}
    BY DEF Range
  <2> QED
    BY <1>2, <1>3, <1>5, <2>1, <2>2 DEF InGuest
<1>11. Unconverted' /\ FilterInit'
  BY <1>1 DEF Unconverted, ConvertInit, cvars, FilterInit, fvars
<1> QED
  BY <1>1, <1>9, <1>10, <1>11 DEF FlowInv

(* ... and so it is with an interrupt.                                     *)
LEMMA InterruptStep == FlowInv /\ Interrupt => FlowInv'
<1> SUFFICES ASSUME FlowInv, Interrupt PROVE FlowInv'
  OBVIOUS
<1>1. /\ stage = "capture" /\ UNCHANGED <<raw, champsim, fvars, cvars, stage, chk>>
      /\ FromGuest(raw) /\ Unconverted /\ InGuest /\ FilterInit
      /\ cpu' = [ pc |-> Handler, irq |-> <<cpu.pc>>, halted |-> FALSE ]
  BY DEF Interrupt, FlowInv, files, svars
<1>2. Handler \in DOMAIN Program[raw.format]
  BY <1>1, ProgramAssumption DEF FromGuest
<1>3. Range(<<cpu.pc>>) = {cpu.pc}
  BY DEF Range
<1>4. InGuest'
  BY <1>1, <1>2, <1>3 DEF InGuest
<1>5. Unconverted' /\ FilterInit' /\ FromGuest(raw')
  BY <1>1 DEF Unconverted, ConvertInit, cvars, FilterInit, fvars
<1> QED
  BY <1>1, <1>4, <1>5 DEF FlowInv

(* However the capture ends, the tool that comes next can begin.           *)
LEMMA StopStep == FlowInv /\ StopCapture => FlowInv'
<1> SUFFICES ASSUME FlowInv, StopCapture PROVE FlowInv'
  OBVIOUS
<1>1. /\ stage = "capture" /\ stage' \in {"filter", "convert"}
      /\ UNCHANGED <<champsim, fvars, cvars, chk>> /\ input' = raw'
      /\ FromGuest(raw) /\ Unconverted /\ FilterInit
  BY DEF StopCapture, FlowInv, svars
<1>2. PICK t \in RawTail : raw' = [raw EXCEPT !.tail = t]
  BY DEF StopCapture
<1>3. FromGuest(raw')
  BY <1>1, <1>2 DEF FromGuest, RawFile
<1>4. Unconverted' /\ FilterInit'
  BY <1>1 DEF Unconverted, ConvertInit, cvars, FilterInit, fvars
<1>5. FilterInv' /\ Drawn'
  <2>1. (FilterInit /\ raw \in RawFile => FilterInv /\ Drawn)'
    BY FilterBegins, PTL
  <2>2. raw' \in RawFile
    BY <1>3 DEF FromGuest
  <2> QED
    BY <1>4, <2>1, <2>2
<1>6. ConvInv' /\ ReportInv'
  <2>1. (Unconverted /\ HonestTrace(input) => ConvInv /\ ReportInv)'
    BY ConverterBegins, ReportBegins, PTL
  <2>2. HonestTrace(input')
    BY <1>1, <1>3, GuestIsHonest
  <2>3. HonestTrace(input)' = HonestTrace(input')
    BY DEF HonestTrace, Honest, Decoder
  <2> QED
    BY <1>4, <2>1, <2>2, <2>3
<1>7. FilterExact'
  BY <1>5 DEF FilterInv
<1> QED
  BY <1>1, <1>3, <1>4, <1>5, <1>6, <1>7 DEF FlowInv

(* Whole or cut, what the filter leaves begins with what it wrote first.   *)
LEMMA FilteredIsOnDisk ==
  ASSUME Len(out) \in Nat, NEW f \in Filtered
  PROVE  \E n \in 0 .. Len(out), t \in RawTail : f = OnDisk(n, t)
<1>1. CASE f = OnDisk(Len(out), "end")
  BY <1>1 DEF RawTail
<1>2. CASE \E n \in 0 .. Len(out), t \in {"cut", "header", "bytes", "memop"} : f = OnDisk(n, t)
  BY <1>2 DEF RawTail
<1> QED
  BY <1>1, <1>2 DEF Filtered

(* The filter leaves records of its input, which the converter begins with.*)
LEMMA FilteredStep == FlowInv /\ (RunFilter \/ UseFiltered) => FlowInv'
<1> SUFFICES ASSUME FlowInv, RunFilter \/ UseFiltered PROVE FlowInv'
  OBVIOUS
<1>1. /\ stage = "filter" /\ FromGuest(raw) /\ Unconverted /\ FilterInv /\ Drawn
  BY DEF FlowInv, RunFilter, UseFiltered
<1>0. chk' = chk /\ chk = "waiting"
  BY <1>1 DEF FlowInv, RunFilter, UseFiltered, svars
<1>2. CASE RunFilter
  <2>1. /\ FilterNext /\ UNCHANGED <<raw, champsim, cvars, stage>>
    BY <1>2 DEF RunFilter, FilterNext, files
  <2>2. FilterInv'
    BY <1>1, <2>1, FilterInvStep
  <2>3. Drawn'
    BY <1>1, <2>1, DrawnStep DEF FilterInv
  <2>4. Unconverted' /\ FromGuest(raw')
    BY <1>1, <2>1 DEF Unconverted, ConvertInit, cvars
  <2> QED
    BY <1>0, <1>1, <2>1, <2>2, <2>3, <2>4 DEF FlowInv
<1>3. CASE UseFiltered
  <2>1. /\ input' \in Filtered /\ stage' = "convert" /\ filter' = "waiting"
        /\ UNCHANGED <<champsim, cvars>>
    BY <1>3 DEF UseFiltered, DropRaw
  <2>3. HonestTrace(raw)
    BY <1>1, GuestIsHonest
  <2>4. /\ \A i \in 1 .. Len(out) : out[i] \in 1 .. Len(raw.recs)
        /\ Len(out) \in Nat
    BY <1>1, <2>3 DEF Drawn, HonestTrace
  <2>0. PICK n \in 0 .. Len(out), t \in RawTail : input' = OnDisk(n, t)
    BY <2>1, <2>4, FilteredIsOnDisk
  <2> DEFINE g == [i \in 1 .. n |-> raw.recs[out[i]]]
  <2>2. /\ input'.format = raw.format /\ input'.tail = t /\ input'.recs = g
    BY <2>0 DEF OnDisk
  <2>5. g \in [1 .. n -> Insns]
    BY <2>3, <2>4 DEF HonestTrace
  <2>6. g \in Seq(Insns) /\ Len(g) = n
    BY <2>4, <2>5
  <2>7. \A i \in 1 .. n : g[i] = raw.recs[out[i]]
    BY <2>4
  <2> HIDE DEF g
  <2>8. HonestTrace(input')
    BY <2>2, <2>3, <2>4, <2>6, <2>7 DEF HonestTrace
  <2>9. HonestTrace(input)' = HonestTrace(input')
    BY DEF HonestTrace, Honest, Decoder
  <2>10. Unconverted'
    BY <1>1, <2>1 DEF Unconverted, ConvertInit, cvars
  <2>11. (Unconverted /\ HonestTrace(input) => ConvInv /\ ReportInv)'
    BY ConverterBegins, ReportBegins, PTL
  <2>12. ConvInv' /\ ReportInv'
    BY <2>8, <2>9, <2>10, <2>11
  <2>13. FilterExact'
    BY <2>1 DEF FilterExact
  <2> QED
    BY <1>0, <2>1, <2>12, <2>13 DEF FlowInv
<1> QED
  BY <1>2, <1>3

(* The sanity check finds what the converter left, ...                     *)
LEMMA CheckBegins == FlowInv /\ CheckIt => Checked'
<1> SUFFICES ASSUME FlowInv, CheckIt PROVE Checked'
  OBVIOUS
<1>1. /\ stage = "convert" /\ conv = "exited" /\ UNCHANGED <<champsim, cstats, chk>>
      /\ ConvTypes /\ AllFit /\ Report /\ chk = "waiting"
  BY DEF CheckIt, KeepTrace, DropRaw, FlowInv, ConvInv, ReportInv, svars
<1>2. /\ champsim.recs \in Seq(Written) /\ cstats.total_insns \in Nat
      /\ champsim.tail = "end" /\ cstats.total_insns = Len(champsim.recs) => Reported(0, 0, 0)
  BY <1>1 DEF ConvTypes, Report
<1>3. AllFit'
  BY <1>1 DEF AllFit, Fits
<1> QED
  BY <1>1, <1>2, <1>3 DEF Checked, Reported

(* ... counts it, and decides.                                             *)
LEMMA CheckStep == Checked /\ CheckNext /\ UNCHANGED cstats => Checked'
<1> SUFFICES ASSUME Checked, CheckNext, UNCHANGED cstats PROVE Checked'
  OBVIOUS
<1> DEFINE q == champsim.recs
<1>1. /\ UNCHANGED <<champsim, cstats>> /\ q \in Seq(Written) /\ AllFit
      /\ cstats.total_insns \in Nat
      /\ champsim.tail = "end" /\ cstats.total_insns = Len(q) => Reported(0, 0, 0)
  BY DEF Checked, CheckNext, files
<1>2. AllFit' /\ (Reported(0, 0, 0) => Reported(0, 0, 0)')
  BY <1>1 DEF AllFit, Fits, Reported
<1>3. CASE ReadTrace
  <2>1. /\ chk' = "read" /\ stream' = StreamEnd(chkargs'.format)
        /\ s' = CASE chkargs'.format = "v2" -> run_v2(chkargs'.ind_targets)
                  [] chkargs'.format = "v1" -> run_other(64)
                  [] OTHER -> run_other(96)
    BY <1>3 DEF ReadTrace
  <2>2. StreamEnd(chkargs.format)' = StreamEnd(chkargs'.format)
    BY <1>1 DEF StreamEnd
  <2>3. Tallies(run_v2(chkargs'.ind_targets), Len(q), Cardinality(KernelRecs(q)),
                Cardinality(BranchRecs(q)), Cardinality(MemRecs(q)))
    BY <1>1, PassTallies
  <2>4. chkargs'.format = "v2" =>
          Tallies(s', Len(q), Cardinality(KernelRecs(q)), Cardinality(BranchRecs(q)),
                  Cardinality(MemRecs(q)))
    BY <2>1, <2>3
  <2>5. q = << >> => s'.records = 0
    <3> SUFFICES ASSUME q = << >> PROVE s'.records = 0
      OBVIOUS
    <3>1. Len(q) = 0
      OBVIOUS
    <3>2. run_other(64).records = 0 /\ run_other(96).records = 0
      BY <3>1 DEF run_other, NoStats_v2
    <3>3. run_v2(chkargs'.ind_targets).records = 0
      BY <2>3, <3>1 DEF Tallies
    <3> QED
      BY <2>1, <3>2, <3>3
  <2> QED
    BY <1>1, <1>2, <2>1, <2>2, <2>4, <2>5
       DEF Checked, Tallies, KernelRecs, BranchRecs, MemRecs, HasMem
<1>4. CASE ExitStatus
  <2>1. /\ chk = "read" /\ chk' = "exited" /\ UNCHANGED <<chkargs, s, stream>>
        /\ chk_exit' = 0 =>
             /\ s.records # 0 /\ stream.status = 0
             /\ chkargs.check => chkargs.format = "v2"
    BY <1>4 DEF ExitStatus
  <2>2. StreamEnd(chkargs.format)' = StreamEnd(chkargs.format)
    BY <1>1, <2>1 DEF StreamEnd
  <2>3. /\ stream = StreamEnd(chkargs.format)
        /\ chkargs.format = "v2" =>
             Tallies(s, Len(q), Cardinality(KernelRecs(q)), Cardinality(BranchRecs(q)),
                     Cardinality(MemRecs(q)))
        /\ q = << >> => s.records = 0
    BY <2>1 DEF Checked
  <2>4. stream' = StreamEnd(chkargs.format)'
    BY <2>1, <2>2, <2>3, Zenon
  <2>6. (q = << >> => s.records = 0)'
    BY <1>1, <2>1, <2>3
  <2>7. (chk = "exited" /\ chk_exit = 0 =>
           /\ s.records # 0 /\ stream.status = 0
           /\ chkargs.check => chkargs.format = "v2")'
    BY <2>1
  <2>5. (chkargs.format = "v2" =>
           Tallies(s, Len(q), Cardinality(KernelRecs(q)), Cardinality(BranchRecs(q)),
                   Cardinality(MemRecs(q))))'
    BY <1>1, <2>1, <2>3 DEF Tallies, KernelRecs, BranchRecs, MemRecs, HasMem
  <2> QED
    BY <1>1, <1>2, <2>1, <2>4, <2>5, <2>6, <2>7 DEF Checked
<1> QED
  BY <1>3, <1>4 DEF CheckNext

(* Every step of the pipeline keeps FlowInv.                               *)
LEMMA FlowStep == FlowInv /\ [PipelineNext]_pvars => FlowInv'
<1> SUFFICES ASSUME FlowInv, [PipelineNext]_pvars PROVE FlowInv'
  OBVIOUS
<1>1. CASE RunConverter
  <2>1. /\ stage = "convert" /\ stage' = stage /\ ConvertNext /\ ConvInv /\ FilterExact
        /\ ReportInv /\ UNCHANGED fvars /\ chk' = chk /\ chk = "waiting"
    BY <1>1 DEF RunConverter, FlowInv, svars
  <2>2. ConvInv' /\ ReportInv'
    BY <2>1, ConvStep, ReportStep
  <2>3. raw' = raw
    BY <2>1 DEF ConvertNext, OpenInput, ConvertRecord, WriteFails, EndOfTrace, BadRecord,
                BadMemOp, FinalRecord, Finalize, files
  <2>4. FilterExact'
    BY <2>1, <2>3 DEF FilterExact, HltIsKernel, Removed, IdleIteration, Increasing, fvars
  <2> QED
    BY <2>1, <2>2, <2>4 DEF FlowInv
<1>2. CASE CheckIt
  <2>1. Checked'
    BY <1>2, CheckBegins
  <2> QED
    BY <1>2, <2>1 DEF CheckIt, KeepTrace, DropRaw, FlowInv
<1>3. CASE CutIt
  BY <1>3 DEF CutIt, KeepTrace, DropRaw, FlowInv, svars
<1>4. CASE RunCutter
  BY <1>4 DEF RunCutter, fvars, cvars, svars, FlowInv
<1>5. CASE RunCheck
  <2>1. /\ stage = "check" /\ stage' = stage /\ conv' = conv /\ filter' = filter
        /\ Checked /\ CheckNext /\ UNCHANGED cstats
    BY <1>5 DEF RunCheck, fvars, cvars, FlowInv
  <2>2. Checked'
    BY <2>1, CheckStep
  <2> QED
    BY <2>1, <2>2 DEF FlowInv
<1>6. CASE UNCHANGED pvars
  <2>1. UNCHANGED <<files, fvars, cvars, svars, cpu, stage>>
    BY <1>6 DEF pvars
  <2>2. FromGuest(raw) => FromGuest(raw')
    BY <2>1 DEF files
  <2>3. (Unconverted => Unconverted') /\ (InGuest => InGuest') /\ (FilterInit => FilterInit')
    BY <2>1 DEF files, fvars, cvars, Unconverted, ConvertInit, InGuest, FilterInit
  <2>4. FilterInv => FilterInv'
    BY <2>1, FilterInvStep DEF fall
  <2>5. Drawn => Drawn'
    BY <2>1 DEF files, fvars, Drawn
  <2>6. FilterExact => FilterExact'
    BY <2>1 DEF FilterExact, HltIsKernel, Removed, IdleIteration, Increasing, fvars, files
  <2>7. ConvInv => ConvInv'
    <3>1. UNCHANGED <<input, champsim, conv, max_insns, cstats, prev_record, exit_status>>
      BY <2>1 DEF files, cvars
    <3>2. (ConvTypes => ConvTypes') /\ (AllRight => AllRight')
      BY <3>1 DEF ConvTypes, AllRight, RightRecord, Successor
    <3>3. (InStep => InStep') /\ (Accounts => Accounts')
      BY <3>1 DEF InStep, Behind, Made, decode, Accounts, RecordsAccounted, Wanted
    <3> QED
      BY <3>2, <3>3 DEF ConvInv
  <2>8. UNCHANGED <<stage, conv, filter, chk>>
    BY <2>1 DEF fvars, cvars, svars
  <2>9. (AllFit => AllFit') /\ (Reported(0, 0, 0) => Reported(0, 0, 0)')
    BY <2>1 DEF files, cvars, AllFit, Fits, Reported
  <2>10. ReportInv => ReportInv'
    <3>1. Made(input.recs[cstats.total_insns])' = Made(input.recs[cstats.total_insns])
      BY <2>1 DEF Made, decode, files, cvars
    <3>2. ReportedWith(Made(input.recs[cstats.total_insns]))
            => ReportedWith(Made(input.recs[cstats.total_insns]))'
      BY <2>1, <3>1 DEF ReportedWith, Reported, HasMem, files, cvars
    <3> QED
      BY <2>1, <2>9, <3>2 DEF ReportInv, Report, files, cvars
  <2>11. Checked => Checked'
    <3>1. StreamEnd(chkargs.format)' = StreamEnd(chkargs.format)
      BY <2>1 DEF StreamEnd, files, svars
    <3> QED
      BY <2>1, <2>9, <3>1 DEF Checked, Tallies, KernelRecs, BranchRecs, MemRecs, HasMem, files,
                              cvars, svars
  <2> QED
    BY <2>2, <2>3, <2>4, <2>5, <2>6, <2>7, <2>8, <2>10, <2>11 DEF FlowInv
<1>7. CASE Execute \/ Interrupt \/ StopCapture \/ RunFilter \/ UseFiltered
  BY <1>7, ExecuteStep, InterruptStep, StopStep, FilteredStep
<1> QED
  BY <1>1, <1>2, <1>3, <1>4, <1>5, <1>6, <1>7 DEF PipelineNext, End

(* At any time, the pipeline has kept FlowInv.                             *)
LEMMA FlowIs == PipelineSpec => []FlowInv
BY CaptureBegins, FlowStep, PTL DEF PipelineSpec

(* What FlowInv says of the filter and of the converter.                   *)
LEMMA FlowGives == FlowInv => DirectionsTrue /\ LossAccounted /\ FilterExact
<1> SUFFICES ASSUME FlowInv PROVE DirectionsTrue /\ LossAccounted /\ FilterExact
  OBVIOUS
<1>1. stage \in {"capture", "filter"} => conv = "waiting"
  BY DEF FlowInv, Unconverted, ConvertInit
<1>2. CASE stage = "convert"
  <2>1. ConvTypes /\ AllRight /\ Accounts /\ Report /\ FilterExact
    BY <1>2 DEF FlowInv, ConvInv, ReportInv
  <2>2. DOMAIN champsim.recs = 1 .. Len(champsim.recs)
    BY <2>1 DEF ConvTypes
  <2>3. DirectionsTrue
    BY <2>1, <2>2 DEF DirectionsTrue, AllRight
  <2>4. LossAccounted
    BY <2>1 DEF LossAccounted, Accounts, Report
  <2> QED
    BY <2>1, <2>3, <2>4
<1>3. CASE stage # "convert"
  <2>1. conv # "exited"
    BY <1>1, <1>3 DEF FlowInv
  <2>2. FilterExact
    <3>1. CASE stage = "filter"
      BY <3>1 DEF FlowInv, FilterInv
    <3>2. CASE stage # "filter"
      BY <1>3, <3>2 DEF FlowInv, FilterInit, FilterExact
    <3> QED
      BY <3>1, <3>2
  <2> QED
    BY <2>1, <2>2 DEF DirectionsTrue, LossAccounted
<1> QED
  BY <1>2, <1>3

(* ... and of the sanity check: what it certifies is whole, ...            *)
LEMMA FlowCertifies == FlowInv => CertifiedIsWhole
<1> SUFFICES ASSUME FlowInv, chk = "exited", chk_exit = 0
             PROVE  /\ champsim.tail = "end" /\ champsim.recs # << >>
                    /\ chkargs.format = "v2" => s.records = Len(champsim.recs)
                    /\ chkargs.check => chkargs.format = "v2"
  BY DEF CertifiedIsWhole
<1>1. Checked
  BY DEF FlowInv
<1>2. /\ stream = StreamEnd(chkargs.format) /\ stream.status = 0 /\ s.records # 0
      /\ champsim.recs = << >> => s.records = 0
      /\ chkargs.check => chkargs.format = "v2"
  BY <1>1 DEF Checked
<1>3. champsim.tail = "end"
  BY <1>2 DEF StreamEnd, one
<1>4. chkargs.format = "v2" => s.records = Len(champsim.recs)
  BY <1>1 DEF Checked, Tallies
<1> QED
  BY <1>2, <1>3, <1>4

(* ... and what the converter finished passes, with the same report.       *)
LEMMA FlowPasses == FlowInv => ConvertedPasses
<1> DEFINE q == champsim.recs
           lost == cstats.total_insns - Len(q)
<1> SUFFICES ASSUME FlowInv, chk # "waiting", champsim.tail = "end", chkargs.format = "v2"
             PROVE  /\ q # << >> => run_checks \cap {1, 5} = {}
                    /\ sum(s.btype_taken) = sum(s.btype_hist)
                    /\ lost = 0 =>
                         /\ s.kernel_inst = cstats.kernel_insns
                         /\ s.branch_inst = cstats.branch_insns
                         /\ s.branch_inst = s.records - s.btype_hist[BT_NOT_BRANCH]
                         /\ s.mem_inst = cstats.mem_insns
  BY DEF ConvertedPasses
<1>1. Checked
  BY DEF FlowInv
<1>2. q \in Seq(Written) /\ Len(q) \in Nat /\ cstats.total_insns \in Nat
  BY <1>1 DEF Checked
<1>3. /\ Cardinality(KernelRecs(q)) \in Nat /\ Cardinality(BranchRecs(q)) \in Nat
      /\ Cardinality(MemRecs(q)) \in Nat
  BY <1>2, CountedAre
<1>4. Tallies(s, Len(q), Cardinality(KernelRecs(q)), Cardinality(BranchRecs(q)),
              Cardinality(MemRecs(q)))
  BY <1>1 DEF Checked
<1>5. ASSUME q # << >>
      PROVE  run_checks \cap {1, 5} = {}
  <2>1. s.records > 0 /\ s.explicit_bt_records = s.records /\ s.call_ret_not_flagged = 0
    BY <1>2, <1>4, <1>5 DEF Tallies
  <2>2. 1 \notin run_checks /\ 5 \notin run_checks
    BY <2>1 DEF run_checks
  <2> QED
    BY <2>2
<1>6. sum(s.btype_taken) = sum(s.btype_hist)
  <2> DEFINE U == {x \in BranchTypes : is_unconditional_transfer(x)}
  <2>1. \A t \in U : s.btype_taken[t] = s.btype_hist[t]
    BY <1>4 DEF Tallies, is_unconditional_transfer, BT_DIRECT_JUMP, BT_INDIRECT, BT_DIRECT_CALL,
                BT_INDIRECT_CALL, BT_RETURN
  <2> HIDE DEF U
  <2>2. [t \in U |-> s.btype_taken[t]] = [t \in U |-> s.btype_hist[t]]
    BY <2>1
  <2> QED
    BY <2>2 DEF sum, U
<1>7. ASSUME lost = 0
      PROVE  /\ s.kernel_inst = cstats.kernel_insns
             /\ s.branch_inst = cstats.branch_insns
             /\ s.branch_inst = s.records - s.btype_hist[BT_NOT_BRANCH]
             /\ s.mem_inst = cstats.mem_insns
  <2>1. cstats.total_insns = Len(q)
    BY <1>2, <1>7
  <2>2. Reported(0, 0, 0)
    BY <1>1, <2>1 DEF Checked
  <2>3. /\ cstats.kernel_insns = Cardinality(KernelRecs(q))
        /\ cstats.branch_insns = Cardinality(BranchRecs(q))
        /\ cstats.mem_insns = Cardinality(MemRecs(q))
    BY <1>3, <2>2 DEF Reported
  <2>4. s.branch_inst = s.records - s.btype_hist[7]
    <3> DEFINE h == s.btype_hist[7]
    <3>1. /\ s.records = Len(q) /\ s.branch_inst = Cardinality(BranchRecs(q))
          /\ s.btype_hist \in [0 .. 7 -> Nat] /\ h + Cardinality(BranchRecs(q)) = Len(q)
      BY <1>4 DEF Tallies
    <3>2. h \in Nat
      BY <3>1
    <3> DEFINE C == Cardinality(BranchRecs(q))
               l == Len(q)
    <3>3. C \in Nat /\ l \in Nat /\ h + C = l
      BY <1>2, <1>3, <3>1
    <3> HIDE DEF h, C, l
    <3>4. C = l - h
      BY <3>2, <3>3
    <3> QED
      BY <3>1, <3>4, Zenon DEF h, C, l
  <2> QED
    BY <1>4, <2>3, <2>4 DEF Tallies, BT_NOT_BRANCH
<1> QED
  BY <1>5, <1>6, <1>7

(* A ChampSim trace that the converter leaves tells the truth about every  *)
(* branch of the capture (DirectionsTrue): its type, and whether it was    *)
(* taken, although raw2champsim.c only learns that from the record behind  *)
(* it -- for any guest program, with interrupts at any point, filtered or  *)
(* not, and for any -n.  Only a conditional behind which an interrupt or   *)
(* the filter put another instruction is exempt.                           *)
THEOREM DirectionsAreTrue == PipelineSpec => []DirectionsTrue
BY FlowIs, FlowGives, PTL

(* What is missing from a trace whose frame the converter finished is      *)
(* accounted for (LossAccounted): it has converted the records it was      *)
(* asked for, at most the last of them is not in the trace, for one of two *)
(* reasons, an exit status of 1 has a reason in the input, and the memory  *)
(* operands without a slot are those the report counts.                    *)
THEOREM LossIsAccounted == PipelineSpec => []LossAccounted
BY FlowIs, FlowGives, PTL

(* In the pipeline too the filter writes what it was given without the     *)
(* whole idle iterations, in order and each record once (FilterExact),     *)
(* wherever the capture breaks off and the filter fails.                   *)
THEOREM CapturesAreFilteredExactly == PipelineSpec => []FilterExact
BY FlowIs, FlowGives, PTL

(* A trace that trace_sanity_check accepts with exit status 0 is whole     *)
(* (CertifiedIsWhole): finished, not empty, and counted to its last record.*)
THEOREM CertifiedTracesAreWhole == PipelineSpec => []CertifiedIsWhole
BY FlowIs, FlowCertifies, PTL

(* What the converter finished passes the checks that do not ask for       *)
(* variety, and the two tools, written apart, count the same kernel        *)
(* instructions, branches and memory instructions (ConvertedPasses).       *)
THEOREM ConvertedTracesPass == PipelineSpec => []ConvertedPasses
BY FlowIs, FlowPasses, PTL

---------------------------------------------------------------------------
(* The cutter.                                                             *)

(* A quotient and a remainder are found by what they add up to.            *)
LEMMA Quotient ==
  ASSUME NEW n \in Nat \ {0}, NEW q \in Nat, NEW r \in 0 .. n - 1, NEW a,
         a = n * q + r
  PROVE  a \div n = q /\ a % n = r
OBVIOUS

(* ... and there are such.                                                 *)
LEMMA Divided ==
  ASSUME NEW n \in Nat \ {0}, NEW a \in Nat, NEW q, q = a \div n, NEW r, r = a % n
  PROVE  q \in Int /\ r \in 0 .. n - 1 /\ a = n * q + r
OBVIOUS

(* ... both numbers.                                                       *)
LEMMA Division ==
  ASSUME NEW n \in Nat \ {0}, NEW a \in Nat
  PROVE  \E q \in Nat, r \in 0 .. n - 1 :
           a \div n = q /\ a % n = r /\ a = n * q + r
<1> DEFINE q == a \div n
           r == a % n
           p == -1 - q
<1>1. q = a \div n /\ r = a % n
  OBVIOUS
<1> HIDE DEF q, r
<1>2. q \in Int /\ r \in 0 .. n - 1 /\ a = n * q + r
  BY <1>1, Divided
<1>3. ASSUME ~(q \in Nat) PROVE FALSE
  <2>1. p \in Nat /\ q = -1 - p
    BY <1>2, <1>3
  <2> HIDE DEF p
  <2>2. n * p \in Nat /\ n * q = -n - n * p
    BY <2>1
  <2> QED BY <1>2, <2>2
<1>4. q \in Nat
  BY <1>3
<1> QED BY <1>1, <1>2, <1>4

(* Products of numbers.                                                    *)
LEMMA Products ==
  ASSUME NEW a \in Nat, NEW b \in Nat, NEW c \in Nat
  PROVE  /\ a * b \in Nat /\ a * (b + 1) = a * b + a
         /\ a * (b + c) = a * b + a * c /\ a * (b * c) = (a * b) * c
         /\ a * 0 = 0
<1>1. a * b \in Nat /\ a * 0 = 0
  OBVIOUS
<1>2. a * (b + 1) = a * b + a
  OBVIOUS
<1>3. a * (b + c) = a * b + a * c
  OBVIOUS
<1>4. a * (b * c) = (a * b) * c
  OBVIOUS
<1> QED BY <1>1, <1>2, <1>3, <1>4

(* n bytes of the stream, behind the first a.                              *)
Span(a, n) == [k \in 1 .. n |-> a + k]

(* They are a sequence.                                                    *)
LEMMA SpanIs ==
  ASSUME NEW a \in Nat, NEW n \in Nat
  PROVE  /\ Span(a, n) \in Seq(Nat) /\ Len(Span(a, n)) = n
         /\ \A k \in 1 .. n : Span(a, n)[k] = a + k
         /\ n = 0 => Span(a, n) = << >>
         /\ n > 0 => Span(a, n) # << >>
<1>1. Span(a, n) = [k \in 1 .. n |-> a + k]
  BY DEF Span
<1>2. /\ Span(a, n) \in Seq(Nat) /\ Len(Span(a, n)) = n
      /\ \A k \in 1 .. n : Span(a, n)[k] = a + k
  <2>1. \A k \in 1 .. n : a + k \in Nat
    OBVIOUS
  <2> QED BY <1>1, <2>1
<1> QED BY <1>2, EmptySeq

(* \o and SubSeq by a name, which the provers leave alone.                 *)
Join(x, y) == x \o y
Part(x, i, j) == SubSeq(x, i, j)

(* Neighbours make one piece.                                              *)
LEMMA SpanJoins ==
  ASSUME NEW a \in Nat, NEW n \in Nat, NEW m \in Nat,
         NEW b, b = a + n, NEW k, k = n + m
  PROVE  Join(Span(a, n), Span(b, m)) = Span(a, k)
<1> DEFINE x == Span(a, n)
           y == Span(b, m)
           z == Span(a, k)
<1>1. /\ x \in Seq(Nat) /\ Len(x) = n /\ \A i \in 1 .. n : x[i] = a + i
      /\ y \in Seq(Nat) /\ Len(y) = m /\ \A i \in 1 .. m : y[i] = b + i
      /\ z \in Seq(Nat) /\ Len(z) = k /\ \A i \in 1 .. k : z[i] = a + i
  <2>1. b \in Nat /\ k \in Nat
    OBVIOUS
  <2> QED BY <2>1, SpanIs
<1> HIDE DEF x, y, z
<1>2. /\ x \o y \in Seq(Nat) /\ Len(x \o y) = k
      /\ \A i \in 1 .. k : (x \o y)[i] = IF i <= n THEN x[i] ELSE y[i - n]
  <2>1. /\ x \o y \in Seq(Nat) /\ Len(x \o y) = Len(x) + Len(y)
        /\ \A i \in 1 .. Len(x) + Len(y) :
             (x \o y)[i] = IF i <= Len(x) THEN x[i] ELSE y[i - Len(x)]
    <3>1. x \in Seq(Nat) /\ y \in Seq(Nat)
      BY <1>1
    <3> QED BY <3>1, ConcatProperties
  <2>2. k = Len(x) + Len(y) /\ Len(x) = n
    BY <1>1
  <2> QED BY <2>1, <2>2
<1>3. \A i \in 1 .. k : (x \o y)[i] = z[i]
  <2> TAKE i \in 1 .. k
  <2>1. CASE i <= n
    BY <1>1, <1>2, <2>1
  <2>2. CASE ~(i <= n)
    <3>1. i - n \in 1 .. m
      BY <2>2
    <3>2. (x \o y)[i] = b + (i - n)
      BY <1>1, <1>2, <2>2, <3>1
    <3> QED BY <1>1, <3>2
  <2> QED BY <2>1, <2>2
<1> QED BY <1>1, <1>2, <1>3, SeqEqual DEF x, y, z, Join

(* A part of a piece is a piece.                                           *)
LEMMA SpanPart ==
  ASSUME NEW a \in Nat, NEW n \in Nat, NEW i \in Nat, NEW m \in Nat,
         NEW j, j = i + m, j <= n, NEW b, b = a + i
  PROVE  Part(Span(a, n), i + 1, j) = Span(b, m)
<1> DEFINE x == Span(a, n)
           y == SubSeq(x, i + 1, j)
           z == Span(b, m)
<1>1. /\ x \in Seq(Nat) /\ Len(x) = n /\ \A k \in 1 .. n : x[k] = a + k
      /\ z \in Seq(Nat) /\ Len(z) = m /\ \A k \in 1 .. m : z[k] = b + k
  <2>1. b \in Nat
    OBVIOUS
  <2> QED BY <2>1, SpanIs
<1> HIDE DEF x, z
<1>2. \A k \in 1 .. m : x[k + i] = b + k
  BY <1>1
<1>3. /\ y \in Seq(Nat) /\ Len(y) = m
      /\ \A k \in 1 .. m : y[k] = x[k + i]
  BY <1>1
<1> HIDE DEF y
<1>4. \A k \in 1 .. m : y[k] = b + k
  BY <1>2, <1>3
<1>5. \A k \in 1 .. m : y[k] = z[k]
  BY <1>1, <1>4
<1> QED BY <1>1, <1>3, <1>5, SeqEqual DEF x, y, z, Part

(* A sequence is all but its last element, and that.                       *)
LEMMA ButLast ==
  ASSUME NEW S, NEW f \in Seq(S), NEW q \in Nat, Len(f) = q + 1,
         NEW g, g = [c \in 1 .. q |-> f[c]]
  PROVE  Append(g, f[q + 1]) = f
<1>1. f[q + 1] \in S /\ \A c \in 1 .. q : f[c] \in S
  BY LenProperties
<1>2. g \in Seq(S) /\ Len(g) = q
  BY <1>1
<1>3. /\ Append(g, f[q + 1]) \in Seq(S) /\ Len(Append(g, f[q + 1])) = q + 1
      /\ \A c \in 1 .. q : Append(g, f[q + 1])[c] = f[c]
      /\ Append(g, f[q + 1])[q + 1] = f[q + 1]
  BY <1>1, <1>2, AppendProperties
<1>4. \A c \in 1 .. q + 1 : c \in 1 .. q \/ c = q + 1
  OBVIOUS
<1> QED BY <1>3, <1>4, SeqEqual

(* The same two, in a form that the provers find at once.                  *)
Joins(a, n, m) == Join(Span(a, n), Span(a + n, m)) = Span(a, n + m)

(* Neighbours join ...                                                     *)
LEMMA JoinsSpans ==
  ASSUME NEW a \in Nat, NEW n \in Nat, NEW m \in Nat
  PROVE  Joins(a, n, m)
BY SpanJoins DEF Joins

Parts(a, n, i, m) == Part(Span(a, n), i + 1, i + m) = Span(a + i, m)

(* ... and parts are pieces.                                               *)
LEMMA PartsSpans ==
  ASSUME NEW a \in Nat, NEW n \in Nat, NEW i \in Nat, NEW m \in Nat, i + m <= n
  PROVE  Parts(a, n, i, m)
BY SpanPart DEF Parts

(* The length of m records.                                                *)
Bytes(m) == RECORD_SIZE * m

(* Where chunk c begins, and what is in it when it is full.                *)
Start(n, c) == RECORD_SIZE * n * (c - 1)
Full(n, c) == Span(Start(n, c), Bytes(n))

(* The chunker after q full chunks of n records and r records more.        *)
ChunkerAt(n, q, r) ==
  [ writer |-> IF r = 0 THEN Closed
               ELSE [ open |-> TRUE, chunk_records |-> r,
                      bytes |-> Span(Start(n, q + 1), Bytes(r)) ],
    parts |-> IF cutargs.dry_run THEN << >> ELSE [c \in 1 .. q |-> Full(n, c)],
    counts |-> [c \in 1 .. q |-> n] ]

(* Starts are numbers, a chunk apart.                                      *)
LEMMA StartIs ==
  ASSUME NEW n \in Nat, NEW c \in Nat \ {0}
  PROVE  /\ Start(n, c) \in Nat /\ RECORD_SIZE * n \in Nat
         /\ Start(n, c + 1) = Start(n, c) + RECORD_SIZE * n
         /\ Start(n, c) = RECORD_SIZE * (n * (c - 1))
         /\ Start(n, 1) = 0
<1> DEFINE b == RECORD_SIZE * n
           d == c - 1
<1>1. RECORD_SIZE \in Nat /\ b \in Nat
  BY Products, CutterAssumption
<1>2. d \in Nat /\ c = d + 1
  OBVIOUS
<1>3. Start(n, c) = b * d /\ Start(n, c + 1) = b * c /\ Start(n, 1) = b * 0
  BY DEF Start
<1>4. b * d = RECORD_SIZE * (n * d)
  BY <1>1, <1>2, Products
<1> HIDE DEF b, d
<1>5. b * d \in Nat /\ b * c = b * d + b /\ b * 0 = 0
  BY <1>1, <1>2, Products
<1> QED BY <1>3, <1>4, <1>5, <1>1 DEF b, d

(* The chunks so far, and one more.                                        *)
LEMMA OneMoreChunk ==
  ASSUME NEW n \in Nat, NEW q \in Nat
  PROVE  /\ Append([c \in 1 .. q |-> n], n) = [c \in 1 .. q + 1 |-> n]
         /\ Append([c \in 1 .. q |-> Full(n, c)], Full(n, q + 1))
              = [c \in 1 .. q + 1 |-> Full(n, c)]
<1> DEFINE f == [c \in 1 .. q + 1 |-> n]
           h == [c \in 1 .. q + 1 |-> Full(n, c)]
<1>1. f \in Seq(Nat) /\ Len(f) = q + 1 /\ f[q + 1] = n
  OBVIOUS
<1>2. h \in Seq(Seq(Nat)) /\ Len(h) = q + 1 /\ h[q + 1] = Full(n, q + 1)
  <2>1. \A c \in 1 .. q + 1 : Full(n, c) \in Seq(Nat)
    <3> TAKE c \in 1 .. q + 1
    <3>0. c \in Nat \ {0}
      OBVIOUS
    <3>1. Start(n, c) \in Nat /\ Bytes(n) \in Nat
      BY <3>0, StartIs DEF Bytes
    <3> QED BY <3>1, SpanIs DEF Full
  <2> QED BY <2>1
<1>3. [c \in 1 .. q |-> n] = [c \in 1 .. q |-> f[c]]
  OBVIOUS
<1>4. [c \in 1 .. q |-> Full(n, c)] = [c \in 1 .. q |-> h[c]]
  OBVIOUS
<1> HIDE DEF f, h
<1>5. Append([c \in 1 .. q |-> f[c]], f[q + 1]) = f
  BY <1>1, ButLast
<1>6. Append([c \in 1 .. q |-> h[c]], h[q + 1]) = h
  BY <1>2, ButLast
<1> QED BY <1>1, <1>2, <1>3, <1>4, <1>5, <1>6 DEF f, h

(* One record more, which may fill its chunk.                              *)
LEMMA EmitOne ==
  ASSUME NEW n \in Nat \ {0}, n = cutargs.chunk_records,
         NEW q \in Nat, NEW r \in 0 .. n - 1,
         NEW a, a = Start(n, q + 1) + Bytes(r)
  PROVE  emit_record(ChunkerAt(n, q, r), Span(a, RECORD_SIZE))
           = IF r + 1 = n THEN ChunkerAt(n, q + 1, 0) ELSE ChunkerAt(n, q, r + 1)
<1> DEFINE c == ChunkerAt(n, q, r)
           z == Start(n, q + 1)
           y == Bytes(r)
           b == Span(z, Bytes(r + 1))
           w == [ open |-> TRUE, chunk_records |-> r + 1, bytes |-> b ]
           e == emit_record(c, Span(a, RECORD_SIZE))
           d == [ writer |-> w, parts |-> c.parts, counts |-> c.counts ]
<1>1. /\ RECORD_SIZE \in Nat /\ r \in Nat /\ z \in Nat /\ y \in Nat
      /\ Bytes(r + 1) = y + RECORD_SIZE
      /\ r = 0 => y = 0
  <2>1. q + 1 \in Nat \ {0}
    OBVIOUS
  <2>2. z \in Nat
    BY <2>1, StartIs
  <2>3. RECORD_SIZE \in Nat /\ r \in Nat
    BY CutterAssumption
  <2>4. y \in Nat /\ Bytes(r + 1) = y + RECORD_SIZE /\ Bytes(0) = 0
    BY <2>3, Products DEF Bytes
  <2> QED BY <2>2, <2>3, <2>4
<1>2. a = z + y
  OBVIOUS
<1>3. c.writer.chunk_records = r /\ c.writer.bytes = Span(z, y)
  <2>1. CASE r = 0
    <3>1. y = 0
      BY <1>1, <2>1
    <3>2. Span(z, y) = << >>
      BY <1>1, <3>1, SpanIs
    <3> QED BY <2>1, <3>2 DEF ChunkerAt, Closed
  <2>2. CASE r # 0
    BY <2>2 DEF ChunkerAt
  <2> QED BY <2>1, <2>2
<1>4. c.writer.bytes \o Span(a, RECORD_SIZE) = b
  <2> DEFINE k == Bytes(r + 1)
             x == RECORD_SIZE
  <2>1. x \in Nat /\ z \in Nat /\ y \in Nat /\ k = y + x /\ a = z + y
    BY <1>1, <1>2
  <2>2. c.writer.bytes = Span(z, y)
    BY <1>3
  <2>3. Span(z, k) = b
    OBVIOUS
  <2>4. Span(a, RECORD_SIZE) = Span(a, x)
    OBVIOUS
  <2> HIDE DEF z, y, c, k, x, b
  <2>5. Join(Span(z, y), Span(a, x)) = Span(z, k)
    <3>1. Joins(z, y, x)
      BY <2>1, JoinsSpans, Zenon
    <3> QED BY <2>1, <3>1, Zenon DEF Joins
  <2>6. c.writer.bytes \o Span(a, x) = b
    BY <2>2, <2>3, <2>5, Zenon DEF Join
  <2> QED BY <2>4, <2>6, Zenon
<1>5. [c EXCEPT !.writer = w] = d
  <2>1. c = [ writer |-> c.writer, parts |-> c.parts, counts |-> c.counts ]
    BY DEF ChunkerAt
  <2> HIDE DEF w, c
  <2> QED BY <2>1
<1>6. e = IF r + 1 = n THEN finalize_current_chunk(d) ELSE d
  <2> DEFINE x == Span(a, RECORD_SIZE)
  <2>1. [ open |-> TRUE, chunk_records |-> c.writer.chunk_records + 1,
          bytes |-> c.writer.bytes \o x ] = w
    BY <1>3, <1>4
  <2>2. w.chunk_records = r + 1
    OBVIOUS
  <2> HIDE DEF x, w, c, d, b
  <2> QED BY <1>5, <2>1, <2>2 DEF emit_record, x
<1>7. CASE r + 1 = n
  <2>1. b = Full(n, q + 1)
    BY <1>7 DEF Full
  <2>2. finalize_current_chunk(d) =
          [ writer |-> Closed,
            parts |-> IF cutargs.dry_run THEN c.parts ELSE Append(c.parts, b),
            counts |-> Append(c.counts, n) ]
    <3> HIDE DEF c, b
    <3> QED BY <1>7 DEF finalize_current_chunk
  <2>3. /\ c.counts = [i \in 1 .. q |-> n]
        /\ c.parts = IF cutargs.dry_run THEN << >> ELSE [i \in 1 .. q |-> Full(n, i)]
    BY DEF ChunkerAt
  <2>4. /\ Append(c.counts, n) = [i \in 1 .. q + 1 |-> n]
        /\ ~cutargs.dry_run => Append(c.parts, b) = [i \in 1 .. q + 1 |-> Full(n, i)]
    <3> HIDE DEF c, b
    <3> QED BY <2>1, <2>3, OneMoreChunk
  <2>5. ChunkerAt(n, q + 1, 0) =
          [ writer |-> Closed,
            parts |-> IF cutargs.dry_run THEN << >> ELSE [i \in 1 .. q + 1 |-> Full(n, i)],
            counts |-> [i \in 1 .. q + 1 |-> n] ]
    BY DEF ChunkerAt
  <2> HIDE DEF c, b, e, d
  <2> QED BY <1>6, <1>7, <2>2, <2>3, <2>4, <2>5 DEF e, c
<1>8. CASE r + 1 # n
  <2>1. d = ChunkerAt(n, q, r + 1)
    <3>1. r + 1 # 0
      OBVIOUS
    <3>2. /\ c.counts = [i \in 1 .. q |-> n]
          /\ c.parts = IF cutargs.dry_run THEN << >> ELSE [i \in 1 .. q |-> Full(n, i)]
      BY DEF ChunkerAt
    <3> HIDE DEF c
    <3> QED BY <3>1, <3>2 DEF ChunkerAt
  <2> HIDE DEF d, e
  <2> QED BY <1>6, <1>8, <2>1 DEF e
<1> QED BY <1>7, <1>8

(* The chunker after m records.                                            *)
CutAt(n, m) == ChunkerAt(n, m \div n, m % n)

(* Lengths add up.                                                         *)
LEMMA BytesAdd ==
  ASSUME NEW a \in Nat, NEW b \in Nat
  PROVE  /\ Bytes(a) \in Nat /\ Bytes(a + b) = Bytes(a) + Bytes(b)
         /\ Bytes(0) = 0 /\ Bytes(1) = RECORD_SIZE /\ RECORD_SIZE \in Nat \ {0, 1}
         /\ Bytes(a) + RECORD_SIZE = Bytes(a + 1)
<1>1. RECORD_SIZE \in Nat \ {0, 1}
  BY CutterAssumption
<1>2. Bytes(a) \in Nat /\ Bytes(a + b) = Bytes(a) + Bytes(b) /\ Bytes(0) = 0
  BY <1>1, Products DEF Bytes
<1>3. Bytes(1) = RECORD_SIZE
  BY <1>1 DEF Bytes
<1>4. Bytes(a + 1) = Bytes(a) + RECORD_SIZE
  BY <1>1, Products DEF Bytes
<1> QED BY <1>1, <1>2, <1>3, <1>4

(* Quotient and remainder, in a form that is found at once.                *)
Parted(a, n, q, r) == a = n * q + r

(* Whoever parts a number has its quotient and remainder ...               *)
LEMMA PartedQuotient ==
  ASSUME NEW n \in Nat \ {0}, NEW q \in Nat, NEW r \in 0 .. n - 1, NEW a,
         Parted(a, n, q, r)
  PROVE  a \div n = q /\ a % n = r
BY Quotient DEF Parted

(* ... and every number can be parted.                                     *)
LEMMA PartedIs ==
  ASSUME NEW n \in Nat \ {0}, NEW a \in Nat
  PROVE  \E q \in Nat, r \in 0 .. n - 1 : a \div n = q /\ a % n = r /\ Parted(a, n, q, r)
BY Division DEF Parted

(* The next number has the next remainder, or begins the next quotient.    *)
LEMMA PartedNext ==
  ASSUME NEW n \in Nat \ {0}, NEW q \in Nat, NEW r \in 0 .. n - 1, NEW a \in Nat,
         Parted(a, n, q, r)
  PROVE  /\ r + 1 = n => Parted(a + 1, n, q + 1, 0)
         /\ Parted(a + 1, n, q, r + 1)
<1> DEFINE t == n * q
<1>1. t \in Nat /\ n * (q + 1) = t + n
  BY Products
<1>2. a = t + r
  BY DEF Parted
<1>3. a + 1 = t + (r + 1)
  <2> HIDE DEF t
  <2> QED BY <1>1, <1>2
<1>4. ASSUME r + 1 = n PROVE a + 1 = n * (q + 1) + 0
  <2> HIDE DEF t
  <2> QED BY <1>1, <1>3, <1>4
<1> QED BY <1>3, <1>4 DEF Parted

(* One record more, wherever it falls.                                     *)
LEMMA EmitAt ==
  ASSUME NEW n \in Nat \ {0}, n = cutargs.chunk_records, NEW m \in Nat
  PROVE  emit_record(CutAt(n, m), Span(Bytes(m), RECORD_SIZE)) = CutAt(n, m + 1)
<1>0. \E q \in Nat, r \in 0 .. n - 1 : m \div n = q /\ m % n = r /\ Parted(m, n, q, r)
  BY PartedIs, Zenon
<1>1. PICK q \in Nat, r \in 0 .. n - 1 : m \div n = q /\ m % n = r /\ Parted(m, n, q, r)
  BY <1>0
<1>2. CutAt(n, m) = ChunkerAt(n, q, r)
  BY <1>1 DEF CutAt
<1> DEFINE a == Bytes(m)
<1>3. a = Start(n, q + 1) + Bytes(r)
  <2> DEFINE k == q + 1
             t == n * q
  <2>1. k \in Nat \ {0} /\ k - 1 = q /\ r \in Nat
    OBVIOUS
  <2>2. Start(n, k) = RECORD_SIZE * (n * (k - 1))
    <3> HIDE DEF k
    <3> QED BY <2>1, StartIs
  <2>3. Start(n, k) = Bytes(t)
    BY <2>1, <2>2 DEF Bytes
  <2>4. t \in Nat
    BY Products
  <2>5. Bytes(m) = Bytes(t + r)
    BY <1>1 DEF Parted
  <2> HIDE DEF t, k
  <2>6. Bytes(t + r) = Bytes(t) + Bytes(r)
    BY <2>1, <2>4, BytesAdd
  <2> QED BY <2>3, <2>5, <2>6 DEF k
<1> HIDE DEF a
<1>4. emit_record(ChunkerAt(n, q, r), Span(a, RECORD_SIZE))
        = IF r + 1 = n THEN ChunkerAt(n, q + 1, 0) ELSE ChunkerAt(n, q, r + 1)
  BY <1>3, EmitOne
<1>7. Parted(m, n, q, r)
  BY <1>1
<1> DEFINE p == m + 1
<1>5. CASE r + 1 = n
  <2>1. Parted(p, n, q + 1, 0)
    BY <1>5, <1>7, PartedNext
  <2>2. p \div n = q + 1 /\ p % n = 0
    <3> DEFINE k == q + 1
               o == 0
    <3>1. k \in Nat /\ o \in 0 .. n - 1 /\ Parted(p, n, k, o)
      BY <2>1
    <3> HIDE DEF k, p, o
    <3>2. p \div n = k /\ p % n = o
      BY <3>1, PartedQuotient, Zenon
    <3> QED BY <3>2 DEF k, o
  <2>3. CutAt(n, p) = ChunkerAt(n, q + 1, 0)
    <3> HIDE DEF p
    <3> QED BY <2>2 DEF CutAt
  <2> QED BY <1>2, <1>4, <1>5, <2>3 DEF a
<1>6. CASE r + 1 # n
  <2>1. Parted(p, n, q, r + 1)
    BY <1>7, PartedNext
  <2>2. p \div n = q /\ p % n = r + 1
    <3> DEFINE k == r + 1
    <3>1. k \in 0 .. n - 1 /\ Parted(p, n, q, k)
      BY <1>6, <2>1
    <3> HIDE DEF k, p
    <3>2. p \div n = q /\ p % n = k
      BY <3>1, PartedQuotient, Zenon
    <3> QED BY <3>2 DEF k
  <2>3. CutAt(n, p) = ChunkerAt(n, q, r + 1)
    <3> HIDE DEF p
    <3> QED BY <2>2 DEF CutAt
  <2> QED BY <1>2, <1>4, <1>6, <2>3 DEF a
<1> QED BY <1>5, <1>6

(* f is what emit_records makes of c over the first j records of p.        *)
Emitting(f, c, p, j) ==
  f = [k \in 0 .. j |->
         IF k = 0 THEN c
         ELSE emit_record(f[k - 1], Part(p, RECORD_SIZE * (k - 1) + 1, RECORD_SIZE * k))]

(* j whole records, behind the first m.                                    *)
LEMMA EmitAll ==
  ASSUME NEW n \in Nat \ {0}, n = cutargs.chunk_records, NEW m \in Nat, NEW j \in Nat
  PROVE  emit_records(CutAt(n, m), Span(Bytes(m), Bytes(j))) = CutAt(n, m + j)
<1> DEFINE c == CutAt(n, m)
           p == Span(Bytes(m), Bytes(j))
           R == RECORD_SIZE
           f == emitted(c, p)
           g == [k \in 0 .. j |-> CutAt(n, m + k)]
<1>1. /\ Bytes(m) \in Nat /\ Bytes(j) \in Nat /\ R \in Nat \ {0, 1}
      /\ Len(p) = Bytes(j)
  BY BytesAdd, SpanIs
<1>2. Len(p) \div RECORD_SIZE = j
  <2> DEFINE l == Len(p)
  <2>1. l = R * j + 0 /\ 0 \in 0 .. R - 1
    BY <1>1 DEF Bytes
  <2> HIDE DEF l, R
  <2>2. l \div R = j
    BY <1>1, <2>1, Quotient
  <2> QED BY <2>2 DEF l, R
<1>3. f = CHOOSE h : Emitting(h, c, p, j)
  <2>1. f = CHOOSE h : Emitting(h, c, p, Len(p) \div RECORD_SIZE)
    BY DEF emitted, Emitting, Part
  <2> HIDE DEF f, p, c
  <2> QED BY <1>2, <2>1
<1>4. ASSUME NEW k \in 1 .. j
      PROVE  Part(p, RECORD_SIZE * (k - 1) + 1, RECORD_SIZE * k)
               = Span(Bytes(m + (k - 1)), RECORD_SIZE)
  <2> DEFINE i == k - 1
             d == j - k
             a == Bytes(m)
             b == Bytes(m + i)
             u == Bytes(i)
             v == Bytes(k)
             w == Bytes(j)
  <2>1. i \in Nat /\ d \in Nat /\ k \in Nat /\ k = i + 1 /\ j = k + d
    OBVIOUS
  <2>2. b = a + u /\ v = u + R /\ w = v + Bytes(d) /\ Bytes(d) \in Nat /\ u \in Nat
    <3> HIDE DEF i, d
    <3> QED BY <2>1, BytesAdd
  <2>3. /\ a \in Nat /\ w \in Nat /\ R \in Nat /\ v \in Nat /\ v <= w /\ b \in Nat
    <3> HIDE DEF u, v, w, a, b
    <3> QED BY <1>1, <2>2 DEF a, w
  <2>4. Part(Span(a, w), u + 1, v) = Span(b, R)
    <3> HIDE DEF u, v, w, a, b, R
    <3> QED BY <2>2, <2>3, SpanPart
  <2>5. RECORD_SIZE * (k - 1) + 1 = u + 1 /\ RECORD_SIZE * k = v
    BY DEF Bytes
  <2> QED BY <2>4, <2>5
<1> HIDE DEF p, R
<1>5. \A k \in 1 .. j : g[k] = emit_record(g[k - 1], Part(p, RECORD_SIZE * (k - 1) + 1, RECORD_SIZE * k))
  <2> TAKE k \in 1 .. j
  <2> DEFINE i == k - 1
  <2>1. i \in 0 .. j /\ k \in 0 .. j /\ m + i \in Nat /\ (m + i) + 1 = m + k
    OBVIOUS
  <2>2. g[i] = CutAt(n, m + i) /\ g[k] = CutAt(n, m + k)
    BY <2>1
  <2>3. Part(p, RECORD_SIZE * (k - 1) + 1, RECORD_SIZE * k) = Span(Bytes(m + i), RECORD_SIZE)
    BY <1>4
  <2> HIDE DEF i, g
  <2> DEFINE o == m + i
  <2>4. emit_record(CutAt(n, o), Span(Bytes(o), RECORD_SIZE)) = CutAt(n, o + 1)
    <3>1. o \in Nat
      BY <2>1
    <3> HIDE DEF o
    <3> QED BY <3>1, EmitAt
  <2> QED BY <2>1, <2>2, <2>3, <2>4 DEF i
<1>6. g[0] = c
  OBVIOUS
<1>7. Emitting(g, c, p, j)
  <2> DEFINE h == [k \in 0 .. j |->
                     IF k = 0 THEN c
                     ELSE emit_record(g[k - 1], Part(p, RECORD_SIZE * (k - 1) + 1, RECORD_SIZE * k))]
  <2>1. \A k \in 0 .. j : g[k] = h[k]
    <3> TAKE k \in 0 .. j
    <3>1. CASE k = 0
      BY <1>6, <3>1
    <3>2. CASE k # 0
      <4>1. k \in 1 .. j
        BY <3>2
      <4>2. h[k] = emit_record(g[k - 1], Part(p, RECORD_SIZE * (k - 1) + 1, RECORD_SIZE * k))
        BY <3>2
      <4> HIDE DEF g, h
      <4> QED BY <1>5, <4>1, <4>2
    <3> QED BY <3>1, <3>2
  <2>2. g = [k \in 0 .. j |-> g[k]] /\ h = [k \in 0 .. j |-> h[k]]
    OBVIOUS
  <2>3. g = h
    <3> HIDE DEF g, h
    <3> QED BY <2>1, <2>2
  <2> HIDE DEF g, c
  <2> QED BY <2>3 DEF Emitting
<1> HIDE DEF f, g, c
<1>8. Emitting(f, c, p, j)
  BY <1>3, <1>7
<1>9. \A k \in 0 .. j :
        f[k] = IF k = 0 THEN c
               ELSE emit_record(f[k - 1], Part(p, RECORD_SIZE * (k - 1) + 1, RECORD_SIZE * k))
  BY <1>8 DEF Emitting
<1> DEFINE T == {k \in 0 .. j : f[k] # g[k]}
<1>10. T = {}
  <2> SUFFICES ASSUME T # {} PROVE FALSE
    OBVIOUS
  <2>1. PICK k \in T : \A y \in T : k <= y
    <3>1. T \subseteq Nat
      OBVIOUS
    <3> HIDE DEF T
    <3> QED BY <3>1, LeastNat
  <2>2. k \in 0 .. j /\ f[k] # g[k]
    OBVIOUS
  <2>3. k # 0
    BY <1>6, <1>9, <2>2
  <2>4. k \in 1 .. j /\ k - 1 \in 0 .. j /\ ~(k <= k - 1)
    BY <2>2, <2>3
  <2>5. f[k - 1] = g[k - 1]
    BY <2>1, <2>4
  <2> HIDE DEF T
  <2>6. f[k] = emit_record(f[k - 1], Part(p, RECORD_SIZE * (k - 1) + 1, RECORD_SIZE * k))
    BY <1>9, <2>2, <2>3
  <2> QED BY <1>5, <2>2, <2>4, <2>5, <2>6
<1>11. f[j] = g[j] /\ g[j] = CutAt(n, m + j)
  <2>1. j \in 0 .. j
    OBVIOUS
  <2> QED BY <1>10, <2>1 DEF g
<1>12. emit_records(c, p) = f[j]
  BY <1>2 DEF emit_records, f
<1> QED BY <1>11, <1>12 DEF c, p

(* The piece that completes the carried record completes it.               *)
Completes(m, l, x, len, need, u) ==
  /\ Bytes(u) = x + need
  /\ (IF need > 0 THEN Join(Span(Bytes(m), l), Part(Span(x, len), 1, need))
                  ELSE << >>) = Span(Bytes(m), Bytes(u - m))
  /\ u - m \in Nat

(* ... with what is carried, as far as the first u records.                *)
LEMMA Completed ==
  ASSUME NEW m \in Nat, NEW l \in 0 .. RECORD_SIZE - 1, NEW x, x = Bytes(m) + l,
         NEW len \in Nat, NEW need \in Nat,
         need = IF l = 0 THEN 0 ELSE RECORD_SIZE - l, need <= len,
         NEW u \in Nat, u = IF l = 0 THEN m ELSE m + 1
  PROVE  Completes(m, l, x, len, need, u)
<1> USE DEF Completes
<1> DEFINE R == RECORD_SIZE
           b == Bytes(m)
<1>1. /\ R \in Nat \ {0, 1} /\ b \in Nat /\ Bytes(m + 1) = b + R
      /\ Bytes(0) = 0 /\ Bytes(1) = R /\ l \in Nat
  BY BytesAdd
<1>2. u - m \in Nat
  OBVIOUS
<1>3. Bytes(u) = x + need
  <2>1. CASE l = 0
    <3> HIDE DEF b, R
    <3> QED BY <1>1, <2>1 DEF b
  <2>2. CASE l # 0
    <3> HIDE DEF b
    <3> QED BY <1>1, <2>2 DEF b
  <2> QED BY <2>1, <2>2
<1>4. CASE l = 0
  <2>1. u - m = 0 /\ need = 0
    BY <1>4
  <2>2. Span(b, 0) = << >>
    BY <1>1, SpanIs
  <2> QED BY <1>1, <1>2, <1>3, <2>1, <2>2
<1>5. CASE l # 0
  <2>1. u - m = 1 /\ need > 0 /\ R = l + need /\ x \in Nat
    <3> HIDE DEF b
    <3> QED BY <1>1, <1>5 DEF b
  <2>2. Part(Span(x, len), 1, need) = Span(x, need)
    <3> DEFINE i == 0
    <3>1. i \in Nat /\ i + 1 = 1 /\ need = i + need /\ x = x + i /\ i + need <= len
      BY <2>1
    <3> HIDE DEF i
    <3>2. Parts(x, len, i, need)
      BY <2>1, <3>1, PartsSpans, Zenon
    <3>3. Part(Span(x, len), i + 1, i + need) = Span(x + i, need)
      BY <3>2 DEF Parts
    <3> QED BY <3>1, <3>3, Zenon
  <2>3. Join(Span(b, l), Span(x, need)) = Span(b, R)
    <3>1. Joins(b, l, need)
      BY <1>1, JoinsSpans, Zenon
    <3>2. x = b + l
      OBVIOUS
    <3> HIDE DEF b, R
    <3> QED BY <2>1, <3>1, <3>2, Zenon DEF Joins
  <2> QED BY <1>1, <1>2, <1>3, <2>1, <2>2, <2>3
<1> QED BY <1>4, <1>5

(* Behind a piece, what is written and what is carried are the stream as   *)
(* far as it came.                                                         *)
LEMMA ConsumeIs ==
  ASSUME NEW n \in Nat \ {0}, n = cutargs.chunk_records,
         NEW m \in Nat, NEW l \in 0 .. RECORD_SIZE - 1,
         fed = Bytes(m) + l, carry = Span(Bytes(m), l), Chunker = CutAt(n, m),
         NEW len \in Nat
  PROVE  LET r == consume_decompressed(Span(fed, len))
         IN \E v \in Nat, k \in 0 .. RECORD_SIZE - 1 :
              /\ fed + len = Bytes(v) + k /\ r.carry = Span(Bytes(v), k)
              /\ r.chunker = CutAt(n, v)
<1> PICK x : x = fed
  OBVIOUS
<1> DEFINE R == RECORD_SIZE
           b == Bytes(m)
           dp == Span(x, len)
           need == IF carry = << >> THEN 0 ELSE R - Len(carry)
           r == consume_decompressed(dp)
           u == IF l = 0 THEN m ELSE m + 1
<1>1. R \in Nat \ {0, 1} /\ b \in Nat /\ l \in Nat /\ x \in Nat
  <2>1. R \in Nat \ {0, 1} /\ b \in Nat /\ l \in Nat
    BY BytesAdd
  <2> HIDE DEF b
  <2> QED BY <2>1 DEF b
<1>2. Len(dp) = len
  BY <1>1, SpanIs
<1>3. need \in Nat /\ need = IF l = 0 THEN 0 ELSE R - l
  <2>1. carry = Span(b, l)
    OBVIOUS
  <2>2. Len(carry) = l
    <3> HIDE DEF b
    <3> QED BY <1>1, <2>1, SpanIs
  <2>3. CASE l = 0
    <3>1. carry = << >>
      <4> HIDE DEF b
      <4> QED BY <1>1, <2>1, <2>3, SpanIs
    <3> QED BY <2>3, <3>1
  <2>4. CASE l # 0
    <3>1. carry # << >>
      BY <2>2, <2>4
    <3> QED BY <1>1, <2>2, <2>4, <3>1
  <2> QED BY <2>3, <2>4
<1>4. u \in Nat
  OBVIOUS
<1> DEFINE first == emit_records(Chunker, IF need > 0 THEN carry \o SubSeq(dp, 1, need) ELSE << >>)
           whole == ((len - need) \div R) * R
<1>5. r = IF len < need
          THEN [ chunker |-> Chunker, carry |-> carry \o dp ]
          ELSE [ chunker |-> emit_records(first, SubSeq(dp, need + 1, need + whole)),
                 carry |-> SubSeq(dp, need + whole + 1, len) ]
  <2> HIDE DEF dp
  <2> QED BY <1>2 DEF consume_decompressed
<1>6. CASE len < need
  <2>1. r.chunker = CutAt(n, m) /\ r.carry = Join(carry, dp)
    <3> HIDE DEF r, dp, need, first, whole
    <3> QED BY <1>5, <1>6 DEF Join
  <2> DEFINE k == l + len
  <2>2. k \in 0 .. R - 1 /\ x + len = b + k
    <3>1. l # 0
      BY <1>3, <1>6
    <3> HIDE DEF b, need, dp
    <3> QED BY <1>1, <1>3, <1>6, <3>1 DEF b
  <2>3. Join(Span(b, l), Span(x, len)) = Span(b, k)
    <3>1. Joins(b, l, len)
      BY <1>1, JoinsSpans, Zenon
    <3>2. x = b + l
      OBVIOUS
    <3> HIDE DEF b
    <3> QED BY <3>1, <3>2, Zenon DEF Joins
  <2>4. r.carry = Span(b, k)
    <3> HIDE DEF r, k
    <3> QED BY <2>1, <2>3 DEF dp, b
  <2> HIDE DEF r, k
  <2> QED BY <2>1, <2>2, <2>4 DEF b, r, dp
<1>7. CASE ~(len < need)
  <2>1. need <= len
    BY <1>3, <1>7
  <2>2. /\ Bytes(u) = x + need /\ u - m \in Nat
        /\ (IF need > 0 THEN Join(Span(Bytes(m), l), Part(Span(x, len), 1, need))
                        ELSE << >>) = Span(Bytes(m), Bytes(u - m))
    <3> HIDE DEF need, u
    <3>1. Completes(m, l, x, len, need, u)
      BY <1>3, <1>4, <2>1, Completed, Zenon DEF R, u
    <3> QED BY <3>1, Zenon DEF Completes
  <2>3. first = CutAt(n, u)
    <3> DEFINE d == u - m
               y == IF need > 0 THEN carry \o SubSeq(dp, 1, need) ELSE << >>
    <3>1. y = Span(Bytes(m), Bytes(d))
      <4> HIDE DEF need, u
      <4> QED BY <2>2 DEF Join, Part
    <3>2. d \in Nat /\ u = m + d
      <4> HIDE DEF need
      <4> QED BY <1>4, <2>2
    <3>3. first = emit_records(CutAt(n, m), y)
      OBVIOUS
    <3> HIDE DEF d, first, u, y
    <3> QED BY <3>1, <3>2, <3>3, EmitAll
  <2> DEFINE a == len - need
  <2>4. a \in Nat
    BY <1>3, <2>1
  <2>5. PICK j \in Nat, k \in 0 .. R - 1 : a \div R = j /\ a % R = k /\ Parted(a, R, j, k)
    <3>1. R \in Nat \ {0}
      BY <1>1
    <3> HIDE DEF a, R
    <3> QED BY <2>4, <3>1, PartedIs, Zenon
  <2>6. whole = Bytes(j)
    <3>1. whole = (a \div R) * R
      OBVIOUS
    <3> HIDE DEF a, whole
    <3>2. whole = j * R
      <4> HIDE DEF R
      <4> QED BY <2>5, <3>1, Zenon
    <3>3. j * R = R * j
      BY <1>1
    <3> QED BY <3>2, <3>3 DEF Bytes
  <2>7. Bytes(j) \in Nat /\ Bytes(u + j) = Bytes(u) + Bytes(j)
    BY <1>4, BytesAdd
  <2>8. a = Bytes(j) + k
    BY <2>5 DEF Bytes, Parted
  <2> DEFINE w == Bytes(j)
             f == Bytes(u)
             e == need + w
             t == Bytes(u + j)
  <2>9. /\ w \in Nat /\ f = x + need /\ t = f + w /\ len = need + (w + k)
        /\ k \in Nat
    <3> HIDE DEF need, w
    <3> QED BY <1>1, <1>3, <2>2, <2>7, <2>8 DEF w
  <2>10. e \in Nat /\ e <= len /\ len = e + k /\ t = x + e
    <3> HIDE DEF need, w, f, t
    <3> QED BY <1>1, <1>3, <2>9
  <2>11. Part(dp, need + 1, e) = Span(f, w)
    <3> HIDE DEF need, w, f, t
    <3>1. Parts(x, len, need, w)
      BY <1>1, <1>3, <2>9, <2>10, PartsSpans
    <3> QED BY <2>9, <3>1 DEF Parts, e
  <2>12. Part(dp, e + 1, len) = Span(t, k)
    <3> HIDE DEF need, w, f, t, e
    <3>1. Parts(x, len, e, k)
      BY <1>1, <2>9, <2>10, PartsSpans
    <3> QED BY <2>10, <3>1, Zenon DEF Parts
  <2>13. emit_records(CutAt(n, u), Span(f, w)) = CutAt(n, u + j)
    <3> HIDE DEF u
    <3> QED BY <1>4, EmitAll
  <2>14. r.chunker = CutAt(n, u + j) /\ r.carry = Span(t, k)
    <3>1. /\ r.chunker = emit_records(first, Part(dp, need + 1, need + w))
          /\ r.carry = Part(dp, need + w + 1, len)
      <4> HIDE DEF r, dp, need, first
      <4> QED BY <1>5, <1>7, <2>6 DEF Part
    <3> HIDE DEF r, dp, need, first, u, w, f, t
    <3> QED BY <2>3, <2>11, <2>12, <2>13, <3>1
  <2>15. x + len = t + k /\ u + j \in Nat
    <3>1. u + j \in Nat
      BY <1>4
    <3> HIDE DEF e, t, w, f, need, u
    <3> QED BY <1>1, <2>9, <2>10, <3>1
  <2> HIDE DEF r, u
  <2> QED BY <2>14, <2>15 DEF r, dp
<1> QED BY <1>6, <1>7

NothingCut == [ writer |-> Closed, parts |-> << >>, counts |-> << >> ]

(* What is written and what is carried is the stream as far as it came.    *)
CutHolds(n, m, l) ==
  /\ n = cutargs.chunk_records
  /\ fed = Bytes(m) + l /\ carry = Span(Bytes(m), l)
  /\ n = 0 => m = 0 /\ Chunker = NothingCut /\ cut \notin {"running", "done"}
  /\ n # 0 => /\ cut # "waiting"
              /\ Chunker = IF cut = "done" THEN finalize_current_chunk(CutAt(n, m))
                                           ELSE CutAt(n, m)

CutInv == \E n \in Nat, m \in Nat, l \in 0 .. RECORD_SIZE - 1 : CutHolds(n, m, l)

(* Nothing is written of no record.                                        *)
LEMMA CutAtNone ==
  ASSUME NEW n \in Nat \ {0}
  PROVE  CutAt(n, 0) = NothingCut
<1>1. 0 \div n = 0 /\ 0 % n = 0
  <2>1. Parted(0, n, 0, 0)
    BY Products DEF Parted
  <2>2. 0 \in Nat /\ 0 \in 0 .. n - 1
    OBVIOUS
  <2> QED BY <2>1, <2>2, PartedQuotient, Zenon
<1>2. [c \in 1 .. 0 |-> n] = << >> /\ [c \in 1 .. 0 |-> Full(n, c)] = << >>
  <2>1. 1 .. 0 = {}
    OBVIOUS
  <2> QED BY <2>1
<1> QED BY <1>1, <1>2 DEF CutAt, ChunkerAt, NothingCut

(* ... nor in the next state.                                              *)
LEMMA CutAtNoneThen == (\A n \in Nat \ {0} : CutAt(n, 0) = NothingCut)'
<1>1. \A n \in Nat \ {0} : CutAt(n, 0) = NothingCut
  BY CutAtNone
<1> QED BY <1>1, PTL

(* The chunker is made of its parts.                                       *)
LEMMA CutAtIs ==
  ASSUME NEW n, NEW m
  PROVE  LET c == CutAt(n, m)
             d == finalize_current_chunk(c)
         IN /\ c = [ writer |-> c.writer, parts |-> c.parts, counts |-> c.counts ]
            /\ d = [ writer |-> d.writer, parts |-> d.parts, counts |-> d.counts ]
<1> DEFINE c == CutAt(n, m)
<1>1. c = [ writer |-> c.writer, parts |-> c.parts, counts |-> c.counts ]
  BY DEF CutAt, ChunkerAt
<1> HIDE DEF c
<1> QED BY <1>1 DEF finalize_current_chunk, c

(* It holds before anything is cut.                                        *)
LEMMA CutBegins == CutInit => CutInv
<1> SUFFICES ASSUME CutInit PROVE CutInv
  OBVIOUS
<1>1. 0 \in Nat /\ 0 \in 0 .. RECORD_SIZE - 1 /\ Bytes(0) = 0
  <2>1. 0 \in Nat
    OBVIOUS
  <2>2. Bytes(0) = 0 /\ RECORD_SIZE \in Nat \ {0, 1}
    BY <2>1, BytesAdd
  <2> QED BY <2>2
<1>2. Span(0, 0) = << >>
  BY SpanIs
<1>3. fed = Bytes(0) + 0 /\ carry = Span(Bytes(0), 0)
  BY <1>1, <1>2 DEF CutInit
<1>4. CutHolds(0, 0, 0)
  BY <1>3 DEF CutHolds, CutInit, Chunker, NothingCut
<1> QED BY <1>1, <1>4 DEF CutInv

(* The chunker reads nothing but its options.                              *)
LEMMA CutAtStays ==
  ASSUME NEW n, NEW m, cutargs' = cutargs
  PROVE  /\ CutAt(n, m)' = CutAt(n, m)
         /\ finalize_current_chunk(CutAt(n, m))' = finalize_current_chunk(CutAt(n, m))
<1>1. CutAt(n, m)' = CutAt(n, m)
  BY DEF CutAt, ChunkerAt, Closed, Full, Bytes, Start, Span
<1> QED BY <1>1 DEF finalize_current_chunk, Closed

(* The cutter keeps it.                                                    *)
LEMMA CutStep == CutInv /\ CutNext => CutInv'
<1> SUFFICES ASSUME CutInv, CutNext PROVE CutInv'
  OBVIOUS
<1>1. PICK n \in Nat, m \in Nat, l \in 0 .. RECORD_SIZE - 1 : CutHolds(n, m, l)
  BY DEF CutInv
<1>2. /\ n = cutargs.chunk_records
      /\ fed = Bytes(m) + l /\ carry = Span(Bytes(m), l)
      /\ n = 0 => m = 0 /\ Chunker = NothingCut /\ cut \notin {"running", "done"}
      /\ n # 0 => /\ cut # "waiting"
                  /\ Chunker = IF cut = "done" THEN finalize_current_chunk(CutAt(n, m))
                                               ELSE CutAt(n, m)
  BY <1>1 DEF CutHolds
<1>3. CASE StartCut
  <2>1. m = 0 /\ Chunker = NothingCut
    BY <1>2, <1>3 DEF StartCut
  <2>2. PICK q \in Nat : q = cutargs'.chunk_records
    BY <1>3, CutterAssumption DEF StartCut
  <2>3. /\ Chunker' = Chunker /\ fed' = fed /\ carry' = carry
        /\ cut' = IF q = 0 THEN "failed" ELSE "running"
    BY <1>3, <2>2 DEF StartCut, Chunker
  <2>4. q # 0 => CutAt(q, 0)' = NothingCut
    BY CutAtNoneThen DEF NothingCut, Closed
  <2>5. CutHolds(q, m, l)'
    BY <1>2, <2>1, <2>2, <2>3, <2>4 DEF CutHolds, Bytes, Span, NothingCut, Closed
  <2> QED BY <2>5 DEF CutInv
<1>4. CASE Consume
  <2>1. /\ cut = "running" /\ cut' = cut /\ cutargs' = cutargs
        /\ n # 0 /\ Chunker = CutAt(n, m)
    BY <1>2, <1>4 DEF Consume
  <2>2. PICK len \in Nat :
          LET r == consume_decompressed(Span(fed, len))
          IN /\ writer' = r.chunker.writer /\ parts' = r.chunker.parts
             /\ counts' = r.chunker.counts /\ carry' = r.carry /\ fed' = fed + len
    BY <1>4, CutterAssumption DEF Consume, Span
  <2> DEFINE r == consume_decompressed(Span(fed, len))
  <2>3. PICK v \in Nat, k \in 0 .. RECORD_SIZE - 1 :
          fed + len = Bytes(v) + k /\ r.carry = Span(Bytes(v), k) /\ r.chunker = CutAt(n, v)
    <3>1. n \in Nat \ {0}
      BY <2>1
    <3> QED BY <1>2, <2>1, <3>1, ConsumeIs, Zenon
  <2>4. Chunker' = CutAt(n, v)
    <3>1. CutAt(n, v) = [ writer |-> writer', parts |-> parts', counts |-> counts' ]
      BY <2>2, <2>3, CutAtIs
    <3> QED BY <3>1 DEF Chunker
  <2>5. fed' = Bytes(v) + k /\ carry' = Span(Bytes(v), k)
    BY <2>2, <2>3
  <2>6. CutHolds(n, v, k)'
    BY <1>2, <2>1, <2>4, <2>5, CutAtStays DEF CutHolds, Bytes, Span, NothingCut, Closed
  <2> QED BY <2>6 DEF CutInv
<1>5. CASE FinishCut
  <2>1. /\ cut = "running" /\ cut' = "done" /\ cutargs' = cutargs /\ carry' = carry /\ fed' = fed
        /\ n # 0 /\ Chunker = CutAt(n, m)
    BY <1>2, <1>5 DEF FinishCut
  <2>2. Chunker' = finalize_current_chunk(CutAt(n, m))
    BY <1>5, <2>1, CutAtIs DEF FinishCut, Chunker
  <2>3. CutHolds(n, m, l)'
    BY <1>2, <2>1, <2>2, CutAtStays DEF CutHolds, Bytes, Span, NothingCut, Closed
  <2> QED BY <2>3 DEF CutInv
<1>6. CASE CutFails
  <2>1. /\ cut = "running" /\ cut' = "failed" /\ cutargs' = cutargs /\ carry' = carry /\ fed' = fed
        /\ n # 0 /\ Chunker = CutAt(n, m) /\ Chunker' = Chunker
    BY <1>2, <1>6 DEF CutFails, Chunker
  <2>2. CutHolds(n, m, l)'
    BY <1>2, <2>1, CutAtStays DEF CutHolds, Bytes, Span, NothingCut, Closed
  <2> QED BY <2>2 DEF CutInv
<1> QED BY <1>3, <1>4, <1>5, <1>6 DEF CutNext

(* What the chunks of q full ones, and of r records more, have to be.      *)
ChunksOf(n, q, tail) ==
  /\ counts = [c \in 1 .. q |-> n] \o tail
  /\ parts = IF cutargs.dry_run THEN << >>
             ELSE [c \in 1 .. Len(counts) |->
                     [k \in 1 .. RECORD_SIZE * counts[c] |-> RECORD_SIZE * n * (c - 1) + k]]

(* They are, of full chunks only ...                                       *)
LEMMA FullChunks ==
  ASSUME NEW n \in Nat, NEW q \in Nat, counts = [c \in 1 .. q |-> n],
         parts = IF cutargs.dry_run THEN << >> ELSE [c \in 1 .. q |-> Full(n, c)]
  PROVE  ChunksOf(n, q, << >>)
<1>1. counts \in Seq(Nat) /\ Len(counts) = q /\ \A c \in 1 .. q : counts[c] = n
  OBVIOUS
<1>2. counts \o << >> = counts
  BY <1>1
<1>3. \A c \in 1 .. q : Full(n, c) = [k \in 1 .. RECORD_SIZE * counts[c] |-> RECORD_SIZE * n * (c - 1) + k]
  BY <1>1 DEF Full, Span, Start, Bytes
<1>4. [c \in 1 .. q |-> Full(n, c)] = [c \in 1 .. Len(counts) |->
         [k \in 1 .. RECORD_SIZE * counts[c] |-> RECORD_SIZE * n * (c - 1) + k]]
  BY <1>1, <1>3
<1> QED BY <1>2, <1>4 DEF ChunksOf

(* ... and with one more, which is not full.                               *)
LEMMA LastChunk ==
  ASSUME NEW n \in Nat, NEW q \in Nat, NEW r \in Nat,
         counts = Append([c \in 1 .. q |-> n], r),
         parts = IF cutargs.dry_run THEN << >>
                 ELSE Append([c \in 1 .. q |-> Full(n, c)], Span(Start(n, q + 1), Bytes(r)))
  PROVE  ChunksOf(n, q, << r >>)
<1> DEFINE f == [c \in 1 .. q |-> n]
           h == [c \in 1 .. q |-> Full(n, c)]
           x == Span(Start(n, q + 1), Bytes(r))
           o == [c \in 1 .. Len(counts) |->
                   [k \in 1 .. RECORD_SIZE * counts[c] |-> RECORD_SIZE * n * (c - 1) + k]]
<1>1. f \in Seq(Nat) /\ Len(f) = q /\ \A c \in 1 .. q : f[c] = n
  OBVIOUS
<1>2. counts = f \o << r >>
  BY <1>1
<1>3. /\ Len(counts) = q + 1 /\ \A c \in 1 .. q : counts[c] = n
      /\ counts[q + 1] = r
  <2> HIDE DEF f
  <2> QED BY <1>1, AppendProperties DEF f
<1>4. \A c \in 1 .. q : h[c] = [k \in 1 .. RECORD_SIZE * counts[c] |-> RECORD_SIZE * n * (c - 1) + k]
  BY <1>3 DEF Full, Span, Start, Bytes
<1>5. x = [k \in 1 .. RECORD_SIZE * counts[q + 1] |-> RECORD_SIZE * n * ((q + 1) - 1) + k]
  BY <1>3 DEF Span, Start, Bytes
<1>6. o[q + 1] = x /\ \A c \in 1 .. q : o[c] = h[c]
  <2>1. \A c \in 1 .. q : c \in 1 .. Len(counts)
    BY <1>3
  <2>2. q + 1 \in 1 .. Len(counts)
    BY <1>3
  <2> HIDE DEF h, x
  <2> QED BY <1>4, <1>5, <2>1, <2>2
<1>7. o \in Seq(Range(o)) /\ Len(o) = q + 1
  <2> DEFINE S == Range(o)
  <2>1. \A c \in 1 .. Len(counts) : o[c] \in S
    BY DEF Range
  <2>2. o = [c \in 1 .. q + 1 |-> o[c]]
    BY <1>3
  <2> HIDE DEF o, S
  <2>3. o \in [1 .. q + 1 -> S]
    BY <1>3, <2>1, <2>2
  <2> QED BY <2>3, <2>2 DEF S
<1>8. h = [c \in 1 .. q |-> o[c]]
  <2> HIDE DEF o
  <2>1. h = [c \in 1 .. q |-> h[c]]
    OBVIOUS
  <2> HIDE DEF h
  <2> QED BY <1>6, <2>1
<1>9. Append(h, x) = o
  <2> HIDE DEF o, h, x
  <2> QED BY <1>6, <1>7, <1>8, ButLast
<1> QED BY <1>2, <1>9 DEF ChunksOf

(* The chunks are the trace as far as it came.                             *)
LEMMA CutGives == CutInv => CutExact
<1> SUFFICES ASSUME CutInv PROVE CutExact
  OBVIOUS
<1>1. PICK n \in Nat, m \in Nat, l \in 0 .. RECORD_SIZE - 1 : CutHolds(n, m, l)
  BY DEF CutInv
<1>2. /\ n = cutargs.chunk_records
      /\ fed = Bytes(m) + l /\ carry = Span(Bytes(m), l)
      /\ n = 0 => m = 0 /\ Chunker = NothingCut /\ cut \notin {"running", "done"}
      /\ n # 0 => /\ cut # "waiting"
                  /\ Chunker = IF cut = "done" THEN finalize_current_chunk(CutAt(n, m))
                                               ELSE CutAt(n, m)
  BY <1>1 DEF CutHolds
<1>3. fed \div RECORD_SIZE = m /\ fed % RECORD_SIZE = l
  <2>1. Parted(fed, RECORD_SIZE, m, l)
    BY <1>2 DEF Parted, Bytes
  <2>2. RECORD_SIZE \in Nat \ {0}
    BY CutterAssumption
  <2> QED BY <2>1, <2>2, PartedQuotient, Zenon
<1>4. Len(carry) = fed % RECORD_SIZE
  <2>1. Bytes(m) \in Nat /\ l \in Nat
    BY BytesAdd, CutterAssumption
  <2>2. Len(Span(Bytes(m), l)) = l
    BY <2>1, SpanIs
  <2> QED BY <1>2, <1>3, <2>2
<1> DEFINE full == IF n = 0 THEN 0 ELSE m \div n
           last == IF n = 0 THEN 0 ELSE m % n
           tail == IF cut = "done" /\ last > 0 THEN << last >> ELSE << >>
<1>5. ASSUME n = 0 PROVE ChunksOf(n, full, tail)
  <2>1. counts = << >> /\ parts = << >> /\ tail = << >> /\ full = 0
    BY <1>2, <1>5 DEF Chunker, NothingCut
  <2>2. counts = [c \in 1 .. 0 |-> n] /\ << >> = [c \in 1 .. 0 |-> Full(n, c)]
    <3>1. 1 .. 0 = {}
      OBVIOUS
    <3> QED BY <2>1, <3>1
  <2>3. ChunksOf(n, 0, << >>)
    <3>1. 0 \in Nat /\ parts = IF cutargs.dry_run THEN << >> ELSE [c \in 1 .. 0 |-> Full(n, c)]
      BY <2>1, <2>2
    <3> QED BY <2>2, <3>1, FullChunks
  <2> HIDE DEF full, tail
  <2> QED BY <2>1, <2>3
<1>6. ASSUME n # 0 PROVE ChunksOf(n, full, tail)
  <2>1. PICK q \in Nat, r \in 0 .. n - 1 : m \div n = q /\ m % n = r /\ Parted(m, n, q, r)
    <3>1. n \in Nat \ {0}
      BY <1>6
    <3> QED BY <3>1, PartedIs, Zenon
  <2>2. full = q /\ last = r
    BY <1>6, <2>1
  <2> HIDE DEF full, last
  <2> DEFINE c0 == ChunkerAt(n, q, r)
  <2>3. CutAt(n, m) = c0
    BY <2>1 DEF CutAt
  <2>4. /\ c0.counts = [c \in 1 .. q |-> n]
        /\ c0.parts = IF cutargs.dry_run THEN << >> ELSE [c \in 1 .. q |-> Full(n, c)]
        /\ c0.writer = IF r = 0 THEN Closed
                       ELSE [ open |-> TRUE, chunk_records |-> r,
                              bytes |-> Span(Start(n, q + 1), Bytes(r)) ]
    BY DEF ChunkerAt
  <2> HIDE DEF c0
  <2>5. ASSUME cut # "done" \/ r = 0 PROVE ChunksOf(n, full, tail)
    <3>1. finalize_current_chunk(c0) = c0 \/ cut # "done"
      BY <2>4, <2>5 DEF finalize_current_chunk, Closed
    <3>2. Chunker = c0
      BY <1>2, <1>6, <2>3, <3>1
    <3>3. counts = c0.counts /\ parts = c0.parts
      BY <3>2 DEF Chunker
    <3>4. tail = << >>
      BY <2>2, <2>5
    <3> HIDE DEF tail
    <3> QED BY <2>2, <2>4, <3>3, <3>4, FullChunks
  <2>6. ASSUME cut = "done" /\ r # 0 PROVE ChunksOf(n, full, tail)
    <3>1. Chunker = finalize_current_chunk(c0)
      BY <1>2, <1>6, <2>3, <2>6
    <3>2. /\ c0.writer.open /\ c0.writer.chunk_records = r
          /\ c0.writer.bytes = Span(Start(n, q + 1), Bytes(r))
      BY <2>4, <2>6
    <3>3. /\ counts = Append(c0.counts, r)
          /\ parts = IF cutargs.dry_run THEN c0.parts
                     ELSE Append(c0.parts, Span(Start(n, q + 1), Bytes(r)))
      BY <3>1, <3>2 DEF Chunker, finalize_current_chunk
    <3>4. r \in Nat /\ r > 0 /\ tail = << r >>
      BY <2>2, <2>6
    <3>5. /\ counts = Append([c \in 1 .. q |-> n], r)
          /\ parts = IF cutargs.dry_run THEN << >>
                     ELSE Append([c \in 1 .. q |-> Full(n, c)], Span(Start(n, q + 1), Bytes(r)))
      BY <2>4, <3>3, Zenon
    <3> HIDE DEF tail
    <3> QED BY <2>2, <3>4, <3>5, LastChunk
  <2> QED BY <2>5, <2>6
<1>7. ChunksOf(n, full, tail)
  BY <1>5, <1>6
<1> QED BY <1>2, <1>3, <1>4, <1>7, Zenon DEF CutExact, ChunksOf

(* Only the cutter touches what is its own.                                *)
LEMMA CutFlows == CutInv /\ [PipelineNext]_pvars => CutInv'
<1> SUFFICES ASSUME CutInv, [PipelineNext]_pvars PROVE CutInv'
  OBVIOUS
<1>1. ASSUME UNCHANGED tvars PROVE CutInv'
  <2>1. PICK n \in Nat, m \in Nat, l \in 0 .. RECORD_SIZE - 1 : CutHolds(n, m, l)
    BY DEF CutInv
  <2>2. /\ Chunker' = Chunker /\ cut' = cut /\ cutargs' = cutargs /\ fed' = fed
        /\ carry' = carry
    BY <1>1 DEF tvars, Chunker
  <2>3. CutHolds(n, m, l)'
    BY <2>1, <2>2, CutAtStays DEF CutHolds, Bytes, Span, NothingCut, Closed
  <2> QED BY <2>3 DEF CutInv
<1>2. CutNext \/ UNCHANGED tvars
  BY DEF PipelineNext, pvars, Execute, Interrupt, StopCapture, RunFilter, UseFiltered,
         RunConverter, CheckIt, CutIt, KeepTrace, DropRaw, RunCutter, RunCheck, End, tvars
<1> QED BY <1>1, <1>2, CutStep

(* Whatever the guest, the capture and the pieces that the decompressor    *)
(* delivers: the finished chunks hold every whole record once, in its      *)
(* place, -n of them in each but the last, and none is empty; a dry run    *)
(* counts the same (consume_decompressed and emit_record of the cutter).   *)
THEOREM ChunksAreTheTrace == PipelineSpec => []CutExact
<1>1. PipelineInit => CutInv
  BY CutBegins DEF PipelineInit
<1>2. CutInv /\ [PipelineNext]_pvars => CutInv'
  BY CutFlows
<1>3. CutInv => CutExact
  BY CutGives
<1> QED BY <1>1, <1>2, <1>3, PTL DEF PipelineSpec

---------------------------------------------------------------------------
(* The report on indirect branches.                                        *)

(* The indirect branches among the first k records, those at address p,    *)
(* and the addresses behind these as far as there is a record.             *)
IndUpTo(k) == {i \in 1 .. k : champsim.recs[i].branch_type \in {1, 4}}
ExecutedAt(k, p) == {i \in IndUpTo(k) : champsim.recs[i].ip = p}
TargetsUpTo(k, p) == {champsim.recs[i + 1].ip : i \in ExecutedAt(k - 1, p)}

(* What the report is made from, after k records.                          *)
Resolved(g, k) ==
  /\ DOMAIN g = DOMAIN NoStats_v2
  /\ IsFiniteSet(DOMAIN g.ind_exec)
  /\ \A p : p \in DOMAIN g.ind_exec <=> ExecutedAt(k, p) # {}
  /\ \A p : p \in DOMAIN g.ind_targets <=> ExecutedAt(k - 1, p) # {}
  /\ \A p : At(g.ind_exec, p, 0) = Cardinality(ExecutedAt(k, p))
  /\ \A p : At(g.ind_targets, p, {}) = TargetsUpTo(k, p)
  /\ \A p : p \in g.ind_pending <=> (k \in IndUpTo(k) /\ p = champsim.recs[k].ip)
  /\ g.ind_dangling = 0

(* What one more record changes of the maps.                               *)
LEMMA IndirectAdds ==
  ASSUME NEW g, DOMAIN g = DOMAIN NoStats_v2, NEW r
  PROVE  LET u == update_v2(TRUE, g, r)
             i == indirect(g, r)
         IN /\ DOMAIN u = DOMAIN NoStats_v2
            /\ u.ind_targets = i.ind_targets /\ u.ind_exec = i.ind_exec
            /\ u.ind_pending = i.ind_pending /\ u.ind_dangling = g.ind_dangling
<1> DEFINE Fields == DOMAIN NoStats_v2
           i == indirect(g, r)
           c == update_common(i, r)
           u == update_v2(TRUE, g, r)
<1>1. Fields = {"records", "branch_inst", "kernel_inst", "mem_inst", "btype_hist", "btype_taken",
                "explicit_bt_records", "call_ret_not_flagged", "flags_in_src", "flags_in_dst",
                "ind_targets", "ind_exec", "ind_pending", "ind_dangling"}
  BY DEF NoStats_v2
<1> HIDE DEF Fields
<1>2. DOMAIN g = Fields
  BY DEF Fields
<1>3. DOMAIN i = Fields /\ i.ind_dangling = g.ind_dangling
  BY <1>1, <1>2 DEF indirect
<1>4. u = [c EXCEPT
       !.kernel_inst = @ + one(~r.user),
       !.btype_hist[r.branch_type] = @ + 1,
       !.btype_taken[r.branch_type] = @ + one(r.branch_taken),
       !.explicit_bt_records = @ + one("EXPLICIT_BRANCH_TYPE" \in r.features),
       !.call_ret_not_flagged = @ + one(r.branch_type \in {3, 4, 5} /\ ~r.is_branch),
       !.flags_in_src = @ + one(REG_FLAGS \in Range(r.src)),
       !.flags_in_dst = @ + one(REG_FLAGS \in Range(r.dst))]
  BY DEF update_v2, BT_DIRECT_CALL, BT_INDIRECT_CALL, BT_RETURN
<1> HIDE DEF i, u
<1>5. /\ DOMAIN c = Fields
      /\ \A x \in Fields \ {"records", "branch_inst", "mem_inst"} : c[x] = i[x]
  BY <1>1, <1>3 DEF update_common
<1> HIDE DEF c
<1>6. /\ DOMAIN u = Fields
      /\ u.ind_targets = c.ind_targets /\ u.ind_exec = c.ind_exec
      /\ u.ind_pending = c.ind_pending /\ u.ind_dangling = c.ind_dangling
  BY <1>1, <1>4, <1>5
<1>7. /\ c.ind_targets = i.ind_targets /\ c.ind_exec = i.ind_exec
      /\ c.ind_pending = i.ind_pending /\ c.ind_dangling = i.ind_dangling
  BY <1>1, <1>5
<1> QED BY <1>3, <1>6, <1>7 DEF u, i, Fields

(* One record more among the indirect branches.                            *)
LEMMA IndMore ==
  ASSUME NEW k \in Nat, NEW m, m = k + 1
  PROVE  LET ind == champsim.recs[m].branch_type \in {1, 4}
         IN
         /\ IndUpTo(m) = IndUpTo(k) \cup (IF ind THEN {m} ELSE {})
         /\ \A p : ExecutedAt(m, p) = ExecutedAt(k, p)
                     \cup (IF ind /\ champsim.recs[m].ip = p THEN {m} ELSE {})
         /\ \A p : ExecutedAt(k, p) \subseteq 1 .. k
         /\ \A p : IsFiniteSet(ExecutedAt(k, p))
<1> DEFINE ind == champsim.recs[m].branch_type \in {1, 4}
<1>1. 1 .. m = (1 .. k) \cup {m}
  OBVIOUS
<1>2. IndUpTo(m) = IndUpTo(k) \cup (IF ind THEN {m} ELSE {})
  BY <1>1 DEF IndUpTo
<1>3. ASSUME NEW p PROVE ExecutedAt(m, p) = ExecutedAt(k, p)
                           \cup (IF ind /\ champsim.recs[m].ip = p THEN {m} ELSE {})
  BY <1>2 DEF ExecutedAt
<1>4. ASSUME NEW p PROVE ExecutedAt(k, p) \subseteq 1 .. k /\ IsFiniteSet(ExecutedAt(k, p))
  <2>1. ExecutedAt(k, p) \subseteq 1 .. k
    BY DEF ExecutedAt, IndUpTo
  <2> QED BY <2>1, FS_Interval, FS_Subset
<1> QED BY <1>2, <1>3, <1>4

(* The maps after one record more.                                         *)
LEMMA ResolvedNext ==
  ASSUME NEW k \in Nat, NEW g, Resolved(g, k), NEW m, m = k + 1
  PROVE  Resolved(update_v2(TRUE, g, champsim.recs[m]), m)
<1> DEFINE r == champsim.recs[m]
           ind == r.branch_type \in {1, 4}
           u == update_v2(TRUE, g, r)
           i == indirect(g, r)
<1>0. DOMAIN g = DOMAIN NoStats_v2 /\ m \in Nat /\ m - 1 = k
  BY DEF Resolved
<1>1. /\ DOMAIN u = DOMAIN NoStats_v2
      /\ u.ind_targets = i.ind_targets /\ u.ind_exec = i.ind_exec
      /\ u.ind_pending = i.ind_pending /\ u.ind_dangling = g.ind_dangling
  BY <1>0, IndirectAdds
<1>2. {"ind_targets", "ind_exec", "ind_pending"} \subseteq DOMAIN g
  BY <1>0 DEF NoStats_v2
<1>3. /\ i.ind_targets = IF g.ind_pending = {} THEN g.ind_targets
                         ELSE LET p == CHOOSE x \in g.ind_pending : TRUE
                              IN Set(g.ind_targets, p, At(g.ind_targets, p, {}) \cup {r.ip})
      /\ i.ind_exec = IF ind THEN Set(g.ind_exec, r.ip, At(g.ind_exec, r.ip, 0) + 1) ELSE g.ind_exec
      /\ i.ind_pending = IF ind THEN {r.ip} ELSE {}
  BY <1>2 DEF indirect, BT_INDIRECT, BT_INDIRECT_CALL
<1> HIDE DEF u, i
<1>4. /\ IndUpTo(m) = IndUpTo(k) \cup (IF ind THEN {m} ELSE {})
      /\ \A p : ExecutedAt(m, p) = ExecutedAt(k, p) \cup (IF ind /\ r.ip = p THEN {m} ELSE {})
      /\ \A p : ExecutedAt(k, p) \subseteq 1 .. k /\ IsFiniteSet(ExecutedAt(k, p))
  BY IndMore
<1>5. /\ \A p : p \in DOMAIN u.ind_exec <=> ExecutedAt(m, p) # {}
      /\ \A p : At(u.ind_exec, p, 0) = Cardinality(ExecutedAt(m, p))
      /\ IsFiniteSet(DOMAIN u.ind_exec)
  <2>0. /\ \A p : p \in DOMAIN g.ind_exec <=> ExecutedAt(k, p) # {}
        /\ \A p : At(g.ind_exec, p, 0) = Cardinality(ExecutedAt(k, p))
        /\ IsFiniteSet(DOMAIN g.ind_exec)
    BY DEF Resolved
  <2>1. CASE ~ind
    BY <1>1, <1>3, <1>4, <2>0, <2>1
  <2>2. CASE ind
    <3> DEFINE v == At(g.ind_exec, r.ip, 0) + 1
    <3>1. u.ind_exec = Set(g.ind_exec, r.ip, v)
      BY <1>1, <1>3, <2>2
    <3>2. /\ DOMAIN u.ind_exec = DOMAIN g.ind_exec \cup {r.ip}
          /\ \A p : At(u.ind_exec, p, 0) = IF p = r.ip THEN v ELSE At(g.ind_exec, p, 0)
      <4> DEFINE x == u.ind_exec
                 y == g.ind_exec
                 e == r.ip
                 z == 0
      <4>1. x = Set(y, e, v)
        BY <3>1
      <4>2. \A p : At(x, p, z) = IF p = e THEN v ELSE At(y, p, z)
        <5> HIDE DEF v, x, y, e, z
        <5> QED BY <4>1 DEF Set, At
      <4>3. DOMAIN x = DOMAIN y \cup {e}
        <5> HIDE DEF v, x, y, e
        <5> QED BY <4>1 DEF Set
      <4> QED BY <4>2, <4>3
    <3>3. IsFiniteSet(DOMAIN u.ind_exec)
      BY <2>0, <3>2, FS_AddElement
    <3>4. ASSUME NEW p PROVE p \in DOMAIN u.ind_exec <=> ExecutedAt(m, p) # {}
      BY <1>4, <2>0, <2>2, <3>2
    <3>5. Cardinality(ExecutedAt(m, r.ip)) = v
      <4>1. ExecutedAt(m, r.ip) = ExecutedAt(k, r.ip) \cup {m} /\ m \notin ExecutedAt(k, r.ip)
        BY <1>4, <2>2
      <4>2. Cardinality(ExecutedAt(m, r.ip)) = Cardinality(ExecutedAt(k, r.ip)) + 1
        BY <1>4, <4>1, FS_AddElement
      <4> QED BY <2>0, <4>2
    <3>6. ASSUME NEW p PROVE At(u.ind_exec, p, 0) = Cardinality(ExecutedAt(m, p))
      <4> HIDE DEF v
      <4>1. CASE p = r.ip
        BY <3>2, <3>5, <4>1
      <4>2. CASE p # r.ip
        <5>1. ExecutedAt(m, p) = ExecutedAt(k, p)
          BY <1>4, <4>2
        <5> QED BY <2>0, <3>2, <4>2, <5>1
      <4> QED BY <4>1, <4>2
    <3> QED BY <3>3, <3>4, <3>6
  <2> QED BY <2>1, <2>2
<1>6. /\ \A p : p \in DOMAIN u.ind_targets <=> ExecutedAt(m - 1, p) # {}
      /\ \A p : At(u.ind_targets, p, {}) = TargetsUpTo(m, p)
  <2> DEFINE old == k \in IndUpTo(k)
             a == champsim.recs[k].ip
  <2>0. /\ \A p : p \in DOMAIN g.ind_targets <=> ExecutedAt(k - 1, p) # {}
        /\ \A p : At(g.ind_targets, p, {}) = TargetsUpTo(k, p)
        /\ \A p : p \in g.ind_pending <=> (old /\ p = a)
    BY DEF Resolved
  <2>1. ASSUME NEW p
        PROVE  ExecutedAt(k, p) = ExecutedAt(k - 1, p) \cup (IF old /\ a = p THEN {k} ELSE {})
    BY DEF ExecutedAt, IndUpTo
  <2>2. ASSUME NEW p
        PROVE  TargetsUpTo(m, p) = TargetsUpTo(k, p) \cup (IF old /\ a = p THEN {r.ip} ELSE {})
    <3>1. TargetsUpTo(m, p) = {champsim.recs[j + 1].ip : j \in ExecutedAt(k, p)}
      BY <1>0 DEF TargetsUpTo
    <3>2. TargetsUpTo(k, p) = {champsim.recs[j + 1].ip : j \in ExecutedAt(k - 1, p)}
      BY DEF TargetsUpTo
    <3>3. champsim.recs[k + 1].ip = r.ip
      OBVIOUS
    <3> HIDE DEF old, a, r
    <3> QED BY <2>1, <3>1, <3>2, <3>3
  <2>3. CASE ~old
    <3>1. g.ind_pending = {} /\ u.ind_targets = g.ind_targets
      <4>1. g.ind_pending = {}
        BY <2>0, <2>3
      <4> QED BY <1>1, <1>3, <4>1
    <3> HIDE DEF old
    <3> QED BY <1>0, <2>0, <2>1, <2>2, <2>3, <3>1
  <2>4. CASE old
    <3> HIDE DEF a
    <3>1. g.ind_pending = {a}
      BY <2>0, <2>4
    <3>2. (CHOOSE x \in g.ind_pending : TRUE) = a
      BY <3>1
    <3> DEFINE v == At(g.ind_targets, a, {}) \cup {r.ip}
    <3>3. u.ind_targets = Set(g.ind_targets, a, v)
      BY <1>1, <1>3, <3>1, <3>2
    <3>4. /\ DOMAIN u.ind_targets = DOMAIN g.ind_targets \cup {a}
          /\ \A p : At(u.ind_targets, p, {}) = IF p = a THEN v ELSE At(g.ind_targets, p, {})
      <4> DEFINE x == u.ind_targets
                 y == g.ind_targets
                 e == a
                 z == {}
      <4>1. x = Set(y, e, v)
        BY <3>3
      <4>2. \A p : At(x, p, z) = IF p = e THEN v ELSE At(y, p, z)
        <5> HIDE DEF v, x, y, e, z
        <5> QED BY <4>1 DEF Set, At
      <4>3. DOMAIN x = DOMAIN y \cup {e}
        <5> HIDE DEF v, x, y, e
        <5> QED BY <4>1 DEF Set
      <4> QED BY <4>2, <4>3
    <3>5. ASSUME NEW p PROVE p \in DOMAIN u.ind_targets <=> ExecutedAt(m - 1, p) # {}
      <4> HIDE DEF old
      <4> QED BY <1>0, <2>0, <2>1, <2>4, <3>4
    <3>6. ASSUME NEW p PROVE At(u.ind_targets, p, {}) = TargetsUpTo(m, p)
      <4>1. TargetsUpTo(m, p) = TargetsUpTo(k, p) \cup (IF a = p THEN {r.ip} ELSE {})
        <5> HIDE DEF r
        <5> QED BY <2>2, <2>4
      <4>2. CASE p = a
        <5>1. At(u.ind_targets, p, {}) = v
          BY <3>4, <4>2
        <5> HIDE DEF old, r
        <5> QED BY <2>0, <4>1, <4>2, <5>1
      <4>3. CASE p # a
        <5>1. At(u.ind_targets, p, {}) = At(g.ind_targets, p, {})
          BY <3>4, <4>3
        <5> HIDE DEF old, r
        <5> QED BY <2>0, <4>1, <4>3, <5>1
      <4> QED BY <4>2, <4>3
    <3> QED BY <3>5, <3>6
  <2> QED BY <2>3, <2>4
<1>7. \A p : p \in u.ind_pending <=> (m \in IndUpTo(m) /\ p = champsim.recs[m].ip)
  <2>1. m \in IndUpTo(m) <=> ind
    BY <1>0 DEF IndUpTo
  <2> HIDE DEF ind, r
  <2> QED BY <1>1, <1>3, <2>1 DEF r
<1>8. g.ind_dangling = 0
  BY DEF Resolved
<1> QED BY <1>1, <1>5, <1>6, <1>7, <1>8 DEF Resolved, u

(* The maps after the last record.                                         *)
LEMMA PassResolves ==
  ASSUME champsim.recs \in Seq(Written)
  PROVE  Resolved(after_records(TRUE)[Len(champsim.recs)], Len(champsim.recs))
<1> DEFINE q == champsim.recs
           n == Len(q)
           f == after_records(TRUE)
           T == {k \in 0 .. n : ~Resolved(f[k], k)}
<1>1. n \in Nat
  OBVIOUS
<1>2. CountsUpTo(f, TRUE, n)
  <2>1. f = CHOOSE g : CountsUpTo(g, TRUE, n)
    BY DEF after_records, CountsUpTo
  <2> HIDE DEF f
  <2> QED BY <1>1, <2>1, LoopCounts
<1>3. \A k \in 0 .. n : f[k] = IF k = 0 THEN NoStats_v2 ELSE update_v2(TRUE, f[k - 1], q[k])
  <2> HIDE DEF f, n
  <2> QED BY <1>2 DEF CountsUpTo
<1> HIDE DEF f, n, q
<1>4. T = {}
  <2> SUFFICES ASSUME T # {} PROVE FALSE
    OBVIOUS
  <2>1. PICK m \in T : \A y \in T : m <= y
    <3> HIDE DEF T
    <3>1. T \subseteq Nat
      BY <1>1 DEF T
    <3> QED BY <3>1, LeastNat
  <2>2. m \in 0 .. n /\ ~Resolved(f[m], m)
    OBVIOUS
  <2>3. m # 0
    <3>1. f[0] = NoStats_v2
      <4>1. 0 \in 0 .. n
        BY <1>1
      <4> QED BY <1>3, <4>1, Zenon
    <3>2. \A p : ExecutedAt(0, p) = {} /\ ExecutedAt(0 - 1, p) = {} /\ ~(0 \in IndUpTo(0))
      BY DEF ExecutedAt, IndUpTo
    <3>3. \A p : TargetsUpTo(0, p) = {}
      BY <3>2 DEF TargetsUpTo
    <3>4. /\ DOMAIN << >> = {} /\ NoStats_v2.ind_exec = << >> /\ NoStats_v2.ind_targets = << >>
          /\ NoStats_v2.ind_pending = {} /\ NoStats_v2.ind_dangling = 0
      BY DEF NoStats_v2
    <3>5. \A p, d : At(<< >>, p, d) = d
      BY <3>4 DEF At
    <3>6. Resolved(NoStats_v2, 0)
      BY <3>2, <3>3, <3>4, <3>5, FS_EmptySet DEF Resolved
    <3> QED BY <2>2, <3>1, <3>6
  <2>4. m - 1 \in 0 .. n /\ m - 1 \in Nat /\ m = (m - 1) + 1 /\ ~(m <= m - 1)
    BY <1>1, <2>2, <2>3
  <2>5. Resolved(f[m - 1], m - 1)
    <3>1. m - 1 \notin T
      <4> HIDE DEF T
      <4> QED BY <2>1, <2>4
    <3> QED BY <2>4, <3>1
  <2>6. Resolved(update_v2(TRUE, f[m - 1], champsim.recs[m]), m)
    BY <2>4, <2>5, ResolvedNext
  <2>7. f[m] = update_v2(TRUE, f[m - 1], champsim.recs[m])
    BY <1>3, <2>2, <2>3 DEF q
  <2> QED BY <2>2, <2>6, <2>7
<1>5. n \in 0 .. n
  BY <1>1
<1> QED BY <1>4, <1>5 DEF f, n, q

(* h sums f over each part of S.                                           *)
Summing(h, f, S) ==
  h = [t \in SUBSET S |-> IF t = {} THEN 0
                          ELSE f[CHOOSE x \in t : TRUE] + h[t \ {CHOOSE x \in t : TRUE}]]

(* The folds of the community modules are such sums ...                    *)
LEMMA SumIs ==
  ASSUME NEW f, NEW S
  PROVE  SumFunctionOnSet(f, S) = (CHOOSE h : Summing(h, f, S))[S]
BY DEF SumFunctionOnSet, FoldFunctionOnSet, MapThenFoldSet, Summing

(* ... over the whole domain, or a part of it.                             *)
LEMMA FoldIs ==
  ASSUME NEW f
  PROVE  FoldFunction(+, 0, f) = SumFunctionOnSet(f, DOMAIN f)
BY DEF SumFunctionOnSet, FoldFunction

(* A sum of the sizes of classes is the size of what they cover.           *)
LEMMA SumByKey ==
  ASSUME NEW I, IsFiniteSet(I), NEW k, NEW f, NEW S, IsFiniteSet(S),
         \A p \in S : f[p] = Cardinality({i \in I : k[i] = p})
  PROVE  SumFunctionOnSet(f, S) = Cardinality({i \in I : k[i] \in S})
<1> DEFINE X(t) == {i \in I : k[i] \in t}
           Y(p) == {i \in I : k[i] = p}
           el(t) == CHOOSE x \in t : TRUE
           g == [t \in SUBSET S |-> Cardinality(X(t))]
           h == CHOOSE h : Summing(h, f, S)
<1>1. \A t : X(t) \subseteq I /\ IsFiniteSet(X(t)) /\ Cardinality(X(t)) \in Nat
  <2> TAKE t
  <2>1. X(t) \subseteq I
    OBVIOUS
  <2> HIDE DEF X
  <2> QED BY <2>1, FS_Subset, FS_CardinalityType
<1>2. \A p : IsFiniteSet(Y(p)) /\ Cardinality(Y(p)) \in Nat
  <2> TAKE p
  <2>1. Y(p) \subseteq I
    OBVIOUS
  <2> HIDE DEF Y
  <2> QED BY <2>1, FS_Subset, FS_CardinalityType
<1>3. ASSUME NEW t \in SUBSET S, t # {}
      PROVE  /\ el(t) \in t /\ t \ {el(t)} \in SUBSET S
             /\ g[t] = f[el(t)] + g[t \ {el(t)}]
  <2> DEFINE x == el(t)
             r == t \ {x}
  <2>1. x \in t
    BY <1>3
  <2> HIDE DEF x
  <2>2. r \in SUBSET S /\ x \in S
    BY <2>1
  <2>3. X(t) = X(r) \cup Y(x) /\ X(r) \cap Y(x) = {}
    BY <2>1
  <2>4. f[x] = Cardinality(Y(x))
    BY <2>2
  <2>5. g[t] = Cardinality(X(t)) /\ g[r] = Cardinality(X(r))
    BY <2>2
  <2> HIDE DEF X, Y, r, g
  <2>6. Cardinality(X(t)) = Cardinality(X(r)) + Cardinality(Y(x))
    <3>1. /\ IsFiniteSet(X(r)) /\ IsFiniteSet(Y(x))
          /\ Cardinality(X(r)) \in Nat /\ Cardinality(Y(x)) \in Nat
      BY <1>1, <1>2
    <3>2. Cardinality(X(r) \cup Y(x))
            = Cardinality(X(r)) + Cardinality(Y(x)) - Cardinality(X(r) \cap Y(x))
      BY <3>1, FS_Union
    <3>3. Cardinality(X(r) \cap Y(x)) = 0
      BY <2>3, FS_EmptySet
    <3> QED BY <2>3, <3>1, <3>2, <3>3
  <2>7. g[t] = f[x] + g[r]
    <3>1. Cardinality(X(r)) \in Nat /\ Cardinality(Y(x)) \in Nat
      BY <1>1, <1>2
    <3> QED BY <2>4, <2>5, <2>6, <3>1
  <2> QED BY <2>1, <2>2, <2>7 DEF x, r
<1>4. g[{}] = 0
  <2>1. X({}) = {}
    OBVIOUS
  <2> QED BY <2>1, FS_EmptySet
<1>5. Summing(g, f, S)
  <2> DEFINE o == [t \in SUBSET S |-> IF t = {} THEN 0 ELSE f[el(t)] + g[t \ {el(t)}]]
  <2>1. \A t \in SUBSET S : g[t] = o[t]
    <3> TAKE t \in SUBSET S
    <3>1. CASE t = {}
      BY <1>4, <3>1
    <3>2. CASE t # {}
      <4>1. o[t] = f[el(t)] + g[t \ {el(t)}]
        BY <3>2
      <4> HIDE DEF g, o, el
      <4> QED BY <1>3, <3>2, <4>1
    <3> QED BY <3>1, <3>2
  <2>2. g = [t \in SUBSET S |-> g[t]] /\ o = [t \in SUBSET S |-> o[t]]
    OBVIOUS
  <2>3. g = o
    <3> HIDE DEF g, o
    <3> QED BY <2>1, <2>2
  <2> HIDE DEF g
  <2> QED BY <2>3 DEF Summing
<1>6. Summing(h, f, S)
  <2> HIDE DEF g
  <2> QED BY <1>5
<1> HIDE DEF g, h
<1>7. \A t \in SUBSET S : h[t] = IF t = {} THEN 0 ELSE f[el(t)] + h[t \ {el(t)}]
  BY <1>6 DEF Summing
<1> HIDE DEF el
<1> DEFINE T == {c \in Nat : \E t \in SUBSET S : Cardinality(t) = c /\ h[t] # g[t]}
<1>8. T = {}
  <2> SUFFICES ASSUME T # {} PROVE FALSE
    OBVIOUS
  <2>1. PICK c \in T : \A y \in T : c <= y
    <3>1. T \subseteq Nat
      OBVIOUS
    <3> HIDE DEF T
    <3> QED BY <3>1, LeastNat
  <2>2. PICK t \in SUBSET S : Cardinality(t) = c /\ h[t] # g[t]
    OBVIOUS
  <2>3. t # {}
    BY <1>4, <1>7, <2>2
  <2> DEFINE r == t \ {el(t)}
  <2>4. el(t) \in t /\ r \in SUBSET S /\ g[t] = f[el(t)] + g[r]
    BY <1>3, <2>3
  <2>5. Cardinality(r) \in Nat /\ ~(c <= Cardinality(r))
    <3>1. IsFiniteSet(t)
      BY FS_Subset
    <3>2. Cardinality(t) \in Nat /\ IsFiniteSet(r) /\ Cardinality(r) = Cardinality(t) - 1
      BY <2>4, <3>1, FS_CardinalityType, FS_RemoveElement
    <3>3. Cardinality(r) \in Nat
      BY <3>2, FS_CardinalityType
    <3> QED BY <2>2, <3>2, <3>3
  <2>6. h[r] = g[r]
    <3>1. Cardinality(r) \notin T
      <4> HIDE DEF T
      <4> QED BY <2>1, <2>5
    <3> HIDE DEF r
    <3> QED BY <2>4, <2>5, <3>1
  <2>7. h[t] = f[el(t)] + h[r]
    BY <1>7, <2>3
  <2> HIDE DEF r
  <2> QED BY <2>2, <2>4, <2>6, <2>7
<1>9. h[S] = g[S]
  <2>1. S \in SUBSET S /\ Cardinality(S) \in Nat
    BY FS_CardinalityType
  <2> QED BY <1>8, <2>1
<1>10. SumFunctionOnSet(f, S) = h[S]
  BY SumIs DEF h
<1> QED BY <1>9, <1>10 DEF g

(* If each key has two, there are twice as many.                           *)
LEMMA TwoEach ==
  ASSUME NEW J, IsFiniteSet(J), NEW P, NEW k \in [J -> P],
         \A p \in P : \E i, j \in J : i # j /\ k[i] = p /\ k[j] = p
  PROVE  /\ IsFiniteSet(P) /\ Cardinality(P) \in Nat /\ Cardinality(J) \in Nat
         /\ 2 * Cardinality(P) <= Cardinality(J)
<1> DEFINE a(p) == CHOOSE i \in J : k[i] = p
           A == {a(p) : p \in P}
           B == J \ A
           ka == [i \in A |-> k[i]]
           kb == [i \in B |-> k[i]]
<1>1. \A p \in P : a(p) \in J /\ k[a(p)] = p
  OBVIOUS
<1> HIDE DEF a
<1>2. A \subseteq J /\ IsFiniteSet(A) /\ IsFiniteSet(B)
  <2>1. A \subseteq J /\ B \subseteq J
    BY <1>1
  <2> HIDE DEF A, B
  <2> QED BY <2>1, FS_Subset
<1>3. ka \in Surjection(A, P)
  <2>1. ka \in [A -> P] /\ \A p \in P : \E i \in A : ka[i] = p
    BY <1>1
  <2> QED BY <2>1 DEF Surjection
<1>4. kb \in Surjection(B, P)
  <2>1. kb \in [B -> P]
    OBVIOUS
  <2>2. ASSUME NEW p \in P PROVE \E i \in B : kb[i] = p
    <3>1. PICK j \in J : j # a(p) /\ k[j] = p
      OBVIOUS
    <3>2. j \notin A
      BY <1>1, <3>1
    <3> QED BY <3>1, <3>2
  <2> QED BY <2>1, <2>2 DEF Surjection
<1>5. Cardinality(J) = Cardinality(A) + Cardinality(B)
  <2>1. J = A \cup B /\ A \cap B = {}
    BY <1>2
  <2> HIDE DEF A, B
  <2>2. /\ Cardinality(A \cup B) = Cardinality(A) + Cardinality(B) - Cardinality(A \cap B)
        /\ Cardinality(A \cap B) = 0
        /\ Cardinality(A) \in Nat /\ Cardinality(B) \in Nat
    BY <1>2, <2>1, FS_Union, FS_EmptySet, FS_CardinalityType
  <2> QED BY <2>1, <2>2
<1> HIDE DEF A, B, ka, kb
<1>6. /\ IsFiniteSet(P) /\ Cardinality(P) <= Cardinality(A) /\ Cardinality(P) <= Cardinality(B)
      /\ Cardinality(P) \in Nat /\ Cardinality(A) \in Nat /\ Cardinality(B) \in Nat
  BY <1>2, <1>3, <1>4, FS_Surjection, FS_CardinalityType
<1> QED BY <1>5, <1>6

(* From the maps after the last record to the report.                      *)
LEMMA ResolvedIsTrue ==
  ASSUME champsim.recs \in Seq(Written), s = run_v2(TRUE)
  PROVE  IndirectTargetsTrue
<1> DEFINE n == Len(champsim.recs)
           e == after_records(TRUE)[n]
           Ind == IndUpTo(n)
           k == [i \in 1 .. n |-> champsim.recs[i].ip]
           ex == s.ind_exec
           tg == s.ind_targets
<1>1. n \in Nat
  OBVIOUS
<1>2. Resolved(e, n)
  BY PassResolves
<1>3. s = [e EXCEPT !.ind_dangling = one(e.ind_pending # {}), !.ind_pending = {}]
  BY DEF run_v2
<1> HIDE DEF n, e, k
<1>4. ex = e.ind_exec /\ tg = e.ind_targets /\ s.ind_dangling = one(e.ind_pending # {})
  <2>1. DOMAIN e = DOMAIN NoStats_v2
    BY <1>2 DEF Resolved
  <2>2. {"ind_exec", "ind_targets", "ind_dangling", "ind_pending"} \subseteq DOMAIN e
    BY <2>1 DEF NoStats_v2
  <2> QED BY <1>3, <2>2
<1> HIDE DEF ex, tg
<1>5. /\ IsFiniteSet(DOMAIN ex)
      /\ \A p : p \in DOMAIN ex <=> ExecutedAt(n, p) # {}
      /\ \A p : p \in DOMAIN tg <=> ExecutedAt(n - 1, p) # {}
      /\ \A p : At(ex, p, 0) = Cardinality(ExecutedAt(n, p))
      /\ \A p : At(tg, p, {}) = TargetsUpTo(n, p)
      /\ \A p : p \in e.ind_pending <=> (n \in Ind /\ p = champsim.recs[n].ip)
  BY <1>2, <1>4 DEF Resolved
<1>6. /\ Ind \subseteq 1 .. n
      /\ \A p : ExecutedAt(n, p) = {i \in Ind : k[i] = p}
      /\ \A p : ExecutedAt(n - 1, p) = {i \in Ind \ {n} : k[i] = p}
      /\ \A i \in Ind : k[i] = champsim.recs[i].ip
  <2>1. Ind \subseteq 1 .. n
    BY DEF IndUpTo
  <2>2. \A i \in Ind : k[i] = champsim.recs[i].ip
    BY <2>1 DEF k
  <2>3. IndUpTo(n - 1) = Ind \ {n}
    BY <1>1 DEF IndUpTo
  <2> HIDE DEF Ind
  <2>4. ASSUME NEW p PROVE ExecutedAt(n, p) = {i \in Ind : k[i] = p}
    BY <2>2 DEF ExecutedAt, Ind
  <2>5. ASSUME NEW p PROVE ExecutedAt(n - 1, p) = {i \in Ind \ {n} : k[i] = p}
    BY <2>2, <2>3 DEF ExecutedAt
  <2> QED BY <2>1, <2>2, <2>4, <2>5 DEF Ind
<1>7. IsFiniteSet(Ind) /\ Cardinality(Ind) \in Nat
  <2> HIDE DEF Ind
  <2>1. IsFiniteSet(1 .. n) /\ Ind \in SUBSET (1 .. n)
    BY <1>1, <1>6, FS_Interval
  <2>2. IsFiniteSet(Ind)
    BY <2>1, FS_Subset
  <2> QED BY <2>2, FS_CardinalityType
<1>8. Ind = {i \in 1 .. n : champsim.recs[i].branch_type \in {1, 4}}
  BY DEF IndUpTo
<1> HIDE DEF Ind
<1>9. \A i \in Ind : k[i] \in DOMAIN ex
  BY <1>5, <1>6
<1>10. \A p \in DOMAIN ex : ex[p] = Cardinality({i \in Ind : k[i] = p})
  <2> TAKE p \in DOMAIN ex
  <2>1. At(ex, p, 0) = ex[p]
    BY DEF At
  <2>2. At(ex, p, 0) = Cardinality(ExecutedAt(n, p))
    BY <1>5
  <2>3. ExecutedAt(n, p) = {i \in Ind : k[i] = p}
    BY <1>6
  <2> QED BY <2>1, <2>2, <2>3
<1>11. \A S \in SUBSET DOMAIN ex :
         SumFunctionOnSet(ex, S) = Cardinality({i \in Ind : k[i] \in S})
  <2> TAKE S \in SUBSET DOMAIN ex
  <2>1. IsFiniteSet(S)
    BY <1>5, FS_Subset
  <2>2. \A p \in S : ex[p] = Cardinality({i \in Ind : k[i] = p})
    BY <1>10
  <2> QED BY <1>7, <2>1, <2>2, SumByKey
<1>12. FoldFunction(+, 0, ex) = Cardinality(Ind)
  <2>1. {i \in Ind : k[i] \in DOMAIN ex} = Ind
    BY <1>9
  <2>2. FoldFunction(+, 0, ex) = SumFunctionOnSet(ex, DOMAIN ex)
    BY FoldIs
  <2>3. SumFunctionOnSet(ex, DOMAIN ex) = Cardinality({i \in Ind : k[i] \in DOMAIN ex})
    BY <1>11
  <2> QED BY <2>1, <2>2, <2>3
<1>13. DOMAIN tg \subseteq DOMAIN ex
  BY <1>5, <1>6
<1>14. \A p : At(tg, p, {}) = {champsim.recs[i + 1].ip : i \in {j \in Ind \ {n} : champsim.recs[j].ip = p}}
  <2> TAKE p
  <2>1. {j \in Ind \ {n} : champsim.recs[j].ip = p} = ExecutedAt(n - 1, p)
    <3>1. ExecutedAt(n - 1, p) = {j \in Ind \ {n} : k[j] = p}
      BY <1>6
    <3>2. \A j \in Ind : k[j] = champsim.recs[j].ip
      BY <1>6
    <3> QED BY <3>1, <3>2
  <2> QED BY <1>5, <2>1 DEF TargetsUpTo
<1>15. s.ind_dangling = Cardinality(Ind \cap {n})
  <2>1. CASE n \in Ind
    <3>1. e.ind_pending # {}
      BY <1>5, <2>1
    <3>2. Ind \cap {n} = {n}
      BY <2>1
    <3>3. Cardinality({n}) = 1
      BY FS_Singleton
    <3> QED BY <1>4, <3>1, <3>2, <3>3 DEF one
  <2>2. CASE n \notin Ind
    <3>1. e.ind_pending = {}
      BY <1>5, <2>2
    <3>2. Ind \cap {n} = {}
      BY <2>2
    <3>3. Cardinality({}) = 0
      BY FS_EmptySet
    <3> QED BY <1>4, <3>1, <3>2, <3>3 DEF one
  <2> QED BY <2>1, <2>2
<1> DEFINE pcs == {p \in DOMAIN ex : At(tg, p, {}) # {}}
           mono == {p \in pcs : Cardinality(tg[p]) = 1}
           poly == pcs \ mono
           r == report_indirect_targets
           In(S) == {i \in Ind : k[i] \in S}
<1>16. /\ r.total_pcs = Cardinality(pcs) /\ r.total_exec = SumFunctionOnSet(ex, pcs)
       /\ r.mono_pcs = Cardinality(mono) /\ r.mono_exec = SumFunctionOnSet(ex, mono)
  BY DEF report_indirect_targets, ex, tg
<1>17. /\ mono \subseteq pcs /\ pcs \subseteq DOMAIN ex
       /\ \A S : IsFiniteSet(In(S)) /\ Cardinality(In(S)) \in Nat /\ In(S) \subseteq Ind
  <2>1. mono \subseteq pcs /\ pcs \subseteq DOMAIN ex
    OBVIOUS
  <2>2. ASSUME NEW S
        PROVE IsFiniteSet(In(S)) /\ Cardinality(In(S)) \in Nat /\ In(S) \subseteq Ind
    <3>1. In(S) \subseteq Ind
      OBVIOUS
    <3> HIDE DEF In
    <3> QED BY <1>7, <3>1, FS_Subset, FS_CardinalityType
  <2> QED BY <2>1, <2>2
<1>18. r.total_exec = Cardinality(In(pcs)) /\ r.mono_exec = Cardinality(In(mono))
  <2>1. pcs \in SUBSET DOMAIN ex /\ mono \in SUBSET DOMAIN ex
    BY <1>17
  <2> HIDE DEF pcs, mono, r
  <2> QED BY <1>11, <1>16, <2>1
<1> HIDE DEF r
<1>19. \A p \in pcs : /\ tg[p] # {} /\ p \in DOMAIN tg
                      /\ tg[p] = {champsim.recs[i + 1].ip : i \in {j \in Ind \ {n} : champsim.recs[j].ip = p}}
  <2> TAKE p \in pcs
  <2>1. At(tg, p, {}) # {}
    OBVIOUS
  <2>2. p \in DOMAIN tg /\ At(tg, p, {}) = tg[p]
    BY <2>1 DEF At
  <2> QED BY <1>14, <2>1, <2>2
<1>20. r.total_exec \in {Cardinality(Ind), Cardinality(Ind) - s.ind_dangling}
  <2>1. \A i \in Ind \ {n} : i \in In(pcs)
    <3> TAKE i \in Ind \ {n}
    <3>1. champsim.recs[i + 1].ip \in At(tg, k[i], {})
      BY <1>6, <1>14
    <3> QED BY <1>9, <3>1
  <2> HIDE DEF In, pcs
  <2>2. In(pcs) = Ind \/ (n \in Ind /\ In(pcs) = Ind \ {n})
    <3> DEFINE A == In(pcs)
    <3>1. A \subseteq Ind /\ \A i \in Ind \ {n} : i \in A
      BY <1>17, <2>1
    <3> HIDE DEF A
    <3>2. A = Ind \/ (n \in Ind /\ A = Ind \ {n})
      <4>1. CASE n \in A \/ n \notin Ind
        BY <3>1, <4>1
      <4>2. CASE n \notin A /\ n \in Ind
        BY <3>1, <4>2
      <4> QED BY <4>1, <4>2
    <3> QED BY <3>2 DEF A
  <2>3. CASE In(pcs) = Ind
    BY <1>18, <2>3
  <2>4. CASE n \in Ind /\ In(pcs) = Ind \ {n}
    <3>1. Cardinality(Ind \ {n}) = Cardinality(Ind) - 1
      BY <1>7, <2>4, FS_RemoveElement
    <3>2. s.ind_dangling = 1
      <4>1. Ind \cap {n} = {n}
        BY <2>4
      <4>2. Cardinality({n}) = 1
        BY FS_Singleton
      <4> QED BY <1>15, <4>1, <4>2
    <3> QED BY <1>18, <2>4, <3>1, <3>2
  <2> QED BY <2>2, <2>3, <2>4
<1>21. Cardinality(In(pcs)) - Cardinality(In(mono)) = Cardinality(In(poly))
  <2>1. In(pcs) = In(mono) \cup In(poly) /\ In(mono) \cap In(poly) = {}
    OBVIOUS
  <2> HIDE DEF In, pcs, mono, poly
  <2>2. Cardinality(In(mono) \cup In(poly))
          = Cardinality(In(mono)) + Cardinality(In(poly)) - Cardinality(In(mono) \cap In(poly))
    BY <1>17, FS_Union
  <2>3. Cardinality(In(mono) \cap In(poly)) = 0
    BY <2>1, FS_EmptySet
  <2>4. Cardinality(In(mono)) \in Nat /\ Cardinality(In(poly)) \in Nat
    BY <1>17
  <2> QED BY <2>1, <2>2, <2>3, <2>4
<1>22. Cardinality(pcs) - Cardinality(mono) = Cardinality(poly)
  <2>1. IsFiniteSet(pcs)
    <3> HIDE DEF pcs, mono
    <3> QED BY <1>5, <1>17, FS_Subset
  <2>2. pcs \cap mono = mono
    BY <1>17
  <2> HIDE DEF pcs, mono
  <2>3. Cardinality(pcs \ mono) = Cardinality(pcs) - Cardinality(pcs \cap mono)
    BY <2>1, FS_Difference
  <2> QED BY <2>2, <2>3
<1>23. 2 * Cardinality(poly) <= Cardinality(In(poly))
  <2> DEFINE J == In(poly)
             kj == [i \in J |-> k[i]]
  <2>1. kj \in [J -> poly]
    OBVIOUS
  <2>2. ASSUME NEW p \in poly
        PROVE  \E i, j \in J : i # j /\ kj[i] = p /\ kj[j] = p
    <3> DEFINE E == {j \in Ind \ {n} : champsim.recs[j].ip = p}
               t(i) == champsim.recs[i + 1].ip
    <3>1. p \in pcs /\ Cardinality(tg[p]) # 1
      OBVIOUS
    <3>2. tg[p] = {t(i) : i \in E} /\ tg[p] # {}
      BY <1>19, <3>1
    <3>3. PICK i \in E : t(i) \in tg[p]
      BY <3>2
    <3>4. tg[p] # {t(i)}
      BY <3>1, FS_Singleton
    <3>5. PICK j \in E : t(j) # t(i)
      <4> HIDE DEF t, E
      <4> QED BY <3>2, <3>3, <3>4
    <3>6. i # j
      BY <3>5
    <3>7. \A x \in E : x \in J /\ kj[x] = p
      BY <1>6
    <3> HIDE DEF E, J, kj
    <3> QED BY <3>3, <3>5, <3>6, <3>7
  <2>3. IsFiniteSet(J)
    BY <1>17
  <2> HIDE DEF J, kj, poly
  <2> QED BY <2>1, <2>2, <2>3, TwoEach DEF J
<1>24. r.total_exec - r.mono_exec >= 2 * (r.total_pcs - r.mono_pcs)
  <2>1. Cardinality(poly) \in Nat /\ Cardinality(In(poly)) \in Nat
    <3>1. IsFiniteSet(poly)
      <4> HIDE DEF pcs, mono
      <4> QED BY <1>5, <1>17, FS_Subset
    <3> HIDE DEF poly
    <3> QED BY <1>17, <3>1, FS_CardinalityType
  <2> HIDE DEF poly, In, pcs, mono
  <2> QED BY <1>16, <1>18, <1>21, <1>22, <1>23, <2>1
<1> QED
  <2>1. \A i \in Ind : champsim.recs[i].ip \in DOMAIN ex
    BY <1>6, <1>9
  <2> QED BY <1>8, <1>12, <1>13, <1>14, <1>15, <1>20, <1>24, <2>1
          DEF IndirectTargetsTrue, r, ex, tg, n

(* What the check has counted, with --indirect-targets, is run_v2.         *)
MapsInv == chk # "waiting" /\ chkargs.ind_targets => s = run_v2(TRUE)

(* The pass reads nothing but the trace.                                   *)
LEMMA PassStays ==
  ASSUME champsim' = champsim
  PROVE  run_v2(TRUE)' = run_v2(TRUE)
<1>1. after_records(TRUE)' = after_records(TRUE)
  BY DEF after_records
<1> QED BY <1>1 DEF run_v2

(* Nothing else counts.                                                    *)
LEMMA MapsStep == FlowInv /\ MapsInv /\ [PipelineNext]_pvars => MapsInv'
<1> SUFFICES ASSUME FlowInv, MapsInv, [PipelineNext]_pvars PROVE MapsInv'
  OBVIOUS
<1>1. CASE RunCheck
  <2>1. champsim' = champsim /\ (ReadTrace \/ ExitStatus)
    BY <1>1 DEF RunCheck, CheckNext, files
  <2>2. run_v2(TRUE)' = run_v2(TRUE)
    BY <2>1, PassStays
  <2>3. CASE ReadTrace
    <3>1. /\ chkargs'.ind_targets \in BOOLEAN
          /\ chkargs'.ind_targets => chkargs'.format = "v2"
          /\ s' = CASE chkargs'.format = "v2" -> run_v2(chkargs'.ind_targets)
                    [] chkargs'.format = "v1" -> run_other(64)
                    [] OTHER -> run_other(96)
      BY <2>3 DEF ReadTrace, CheckArgs
    <3>2. ASSUME chkargs'.ind_targets PROVE s' = run_v2(TRUE)
      <4>1. s' = run_v2(chkargs'.ind_targets) /\ chkargs'.ind_targets = TRUE
        BY <3>1, <3>2
      <4> QED BY <4>1, Zenon
    <3> QED BY <2>2, <3>2 DEF MapsInv
  <2>4. CASE ExitStatus
    BY <2>2, <2>4 DEF ExitStatus, MapsInv
  <2> QED BY <2>1, <2>3, <2>4
<1>2. CASE UNCHANGED pvars
  <2>1. champsim' = champsim /\ UNCHANGED svars
    BY <1>2 DEF pvars, files
  <2>2. run_v2(TRUE)' = run_v2(TRUE)
    BY <2>1, PassStays
  <2> QED BY <2>1, <2>2 DEF MapsInv, svars
<1>3. CASE /\ PipelineNext /\ ~RunCheck /\ ~UNCHANGED pvars
  <2>1. stage # "check" /\ UNCHANGED svars
    BY <1>3 DEF PipelineNext, Execute, Interrupt, StopCapture, RunFilter, UseFiltered,
                RunConverter, CheckIt, CutIt, KeepTrace, DropRaw, RunCutter, End
  <2>2. chk' = "waiting"
    BY <2>1 DEF FlowInv, svars
  <2> QED BY <2>2 DEF MapsInv
<1> QED BY <1>1, <1>2, <1>3

(* For every guest and every trace of it: the maps of --indirect-targets   *)
(* hold every execution of an indirect branch and every address behind     *)
(* one, and no other, also where indirect branches follow each other; the  *)
(* report leaves out at most a branch at the very end, and what it calls   *)
(* polymorphic is executed twice or more (update and the report of         *)
(* trace_sanity_check).                                                    *)
THEOREM IndirectTargetsAreTrue == PipelineSpec => []IndirectTargetsTrue
<1>1. PipelineInit => MapsInv
  BY DEF PipelineInit, CheckInit, MapsInv
<1>2. FlowInv /\ MapsInv /\ [PipelineNext]_pvars => MapsInv'
  BY MapsStep
<1>3. FlowInv /\ MapsInv => IndirectTargetsTrue
  <2> SUFFICES ASSUME FlowInv, MapsInv PROVE IndirectTargetsTrue
    OBVIOUS
  <2>1. CASE chk # "waiting" /\ chkargs.ind_targets
    <3>1. champsim.recs \in Seq(Written) /\ s = run_v2(TRUE)
      BY <2>1 DEF FlowInv, Checked, MapsInv
    <3> QED BY <3>1, ResolvedIsTrue
  <2>2. CASE ~(chk # "waiting" /\ chkargs.ind_targets)
    BY <2>2 DEF IndirectTargetsTrue
  <2> QED BY <2>1, <2>2
<1> QED BY <1>1, <1>2, <1>3, FlowIs, PTL DEF PipelineSpec

---------------------------------------------------------------------------
(* A list of slots holds the registers of a set, each once.                *)
Holds(q, X) ==
  /\ q \in Seq(X) /\ Range(q) = X
  /\ IsFiniteSet(X) /\ Cardinality(X) = Len(q)

With(X, reg) == X \cup ({reg} \ {0})

(* The registers of X are some of F, which has at most cap.                *)
Fitting(X, F, cap) == X \subseteq F /\ IsFiniteSet(F) /\ Cardinality(F) <= cap

(* No register is dropped as long as there are slots for all of them.      *)
LEMMA AddRegHolds ==
  ASSUME NEW q, NEW X, Holds(q, X), NEW reg, NEW F, NEW cap \in Nat,
         Fitting(With(X, reg), F, cap)
  PROVE  Holds(add_reg(q, cap, reg), With(X, reg))
<1>1. /\ q \in Seq(X) /\ Range(q) = X /\ IsFiniteSet(X) /\ Cardinality(X) = Len(q)
      /\ Len(q) \in Nat
  BY DEF Holds
<1>2. CASE reg = 0 \/ reg \in X
  <2>1. With(X, reg) = X
    BY <1>2 DEF With
  <2>2. add_reg(q, cap, reg) = q
    BY <1>1, <1>2 DEF add_reg
  <2> QED BY <2>1, <2>2
<1>3. CASE reg # 0 /\ reg \notin X
  <2> DEFINE Y == With(X, reg)
  <2>1. Y = X \cup {reg}
    BY <1>3 DEF With
  <2>2. IsFiniteSet(Y) /\ Cardinality(Y) = Len(q) + 1
    <3>1. /\ IsFiniteSet(X \cup {reg})
          /\ Cardinality(X \cup {reg}) = Cardinality(X) + 1
      BY <1>1, <1>3, FS_AddElement
    <3> QED BY <1>1, <2>1, <3>1
  <2>3. IsFiniteSet(F) /\ Y \subseteq F /\ Cardinality(F) <= cap /\ Cardinality(F) \in Nat
    BY FS_CardinalityType DEF Fitting
  <2>4. Cardinality(Y) <= Cardinality(F)
    BY <2>3, FS_Subset
  <2>5. Len(q) < cap
    BY <1>1, <2>2, <2>3, <2>4
  <2>6. add_reg(q, cap, reg) = Append(q, reg)
    BY <1>1, <1>3, <2>5 DEF add_reg
  <2>7. reg \in Y /\ X \subseteq Y
    BY <2>1
  <2> DEFINE p == Append(q, reg)
  <2>8. q \in Seq(Y)
    BY <1>1, <2>7
  <2>9. /\ p \in Seq(Y) /\ Len(p) = Len(q) + 1
        /\ \A i \in 1 .. Len(q) : p[i] = q[i]
        /\ p[Len(q) + 1] = reg
    BY <2>7, <2>8
  <2>10. DOMAIN q = 1 .. Len(q) /\ DOMAIN p = 1 .. Len(q) + 1
    BY <2>8, <2>9
  <2> HIDE DEF p, Y
  <2>11. Range(p) = Range(q) \cup {reg}
    <3>1. Range(p) = {p[i] : i \in 1 .. Len(q) + 1} /\ Range(q) = {q[i] : i \in 1 .. Len(q)}
      BY <2>10 DEF Range
    <3>2. ASSUME NEW x \in Range(p) PROVE x \in Range(q) \cup {reg}
      <4>1. PICK i \in 1 .. Len(q) + 1 : x = p[i]
        BY <3>1
      <4>2. CASE i = Len(q) + 1
        BY <4>1, <4>2, <2>9
      <4>3. CASE i # Len(q) + 1
        <5>1. i \in 1 .. Len(q)
          BY <4>1, <4>3, <1>1
        <5> QED BY <5>1, <4>1, <2>9, <3>1
      <4> QED BY <4>2, <4>3
    <3>3. ASSUME NEW x \in Range(q) PROVE x \in Range(p)
      <4>1. PICK i \in 1 .. Len(q) : x = q[i]
        BY <3>1
      <4>2. i \in 1 .. Len(q) + 1 /\ x = p[i]
        BY <4>1, <1>1, <2>9
      <4> QED BY <4>2, <3>1
    <3>4. reg \in Range(p)
      <4>1. Len(q) + 1 \in 1 .. Len(q) + 1
        BY <1>1
      <4> QED BY <4>1, <2>9, <3>1
    <3> QED BY <3>2, <3>3, <3>4
  <2>12. Holds(p, Y)
    BY <2>1, <2>2, <2>9, <2>11, <1>1 DEF Holds
  <2> QED BY <2>12, <2>6 DEF p, Y
<1> QED BY <1>2, <1>3

(* Both lists of a decoded instruction.                                    *)
Slotted(d, X, Y) ==
  /\ {"src", "dst"} \subseteq DOMAIN d
  /\ Holds(d.src, X) /\ Holds(d.dst, Y)

(* A source is added, ...                                                  *)
LEMMA SrcSlotted ==
  ASSUME NEW d, NEW X, NEW Y, Slotted(d, X, Y), NEW reg, NEW A,
         Fitting(With(X, reg), A, NUM_INSTR_SOURCES)
  PROVE  Slotted(src(d, reg), With(X, reg), Y)
<1> DEFINE q == add_reg(d.src, NUM_INSTR_SOURCES, reg)
<1>1. Holds(q, With(X, reg))
  BY AddRegHolds DEF Slotted, NUM_INSTR_SOURCES
<1>2. src(d, reg) = [d EXCEPT !.src = q]
  BY DEF src
<1> HIDE DEF q
<1>3. [d EXCEPT !.src = q].src = q /\ [d EXCEPT !.src = q].dst = d.dst
  BY DEF Slotted
<1> QED BY <1>1, <1>2, <1>3 DEF Slotted

(* ... or a destination.                                                   *)
LEMMA DstSlotted ==
  ASSUME NEW d, NEW X, NEW Y, Slotted(d, X, Y), NEW reg, NEW B,
         Fitting(With(Y, reg), B, NUM_INSTR_DESTINATIONS)
  PROVE  Slotted(dst(d, reg), X, With(Y, reg))
<1> DEFINE q == add_reg(d.dst, NUM_INSTR_DESTINATIONS, reg)
<1>1. Holds(q, With(Y, reg))
  BY AddRegHolds DEF Slotted, NUM_INSTR_DESTINATIONS
<1>2. dst(d, reg) = [d EXCEPT !.dst = q]
  BY DEF dst
<1> HIDE DEF q
<1>3. [d EXCEPT !.dst = q].dst = q /\ [d EXCEPT !.dst = q].src = d.src
  BY DEF Slotted
<1> QED BY <1>1, <1>2, <1>3 DEF Slotted

(* An operand adds the registers it reads and writes.                      *)
LEMMA OperandSlotted ==
  ASSUME NEW d, NEW X, NEW Y, Slotted(d, X, Y), NEW op, NEW A, NEW B,
         Fitting(X \cup OpReads(op), A, NUM_INSTR_SOURCES),
         Fitting(Y \cup OpWrites(op), B, NUM_INSTR_DESTINATIONS)
  PROVE  Slotted(X86Operand(d, op), X \cup OpReads(op), Y \cup OpWrites(op))
<1>1. CASE op.kind = "reg"
  <2> DEFINE w == IF op.write THEN dst(d, X86Reg(op.reg)) ELSE d
  <2>1. OpReads(op) = (IF op.read THEN {X86Reg(op.reg)} ELSE {}) \ {0}
    BY <1>1 DEF OpReads
  <2>2. OpWrites(op) = IF op.write THEN {X86Reg(op.reg)} \ {0} ELSE {}
    BY <1>1 DEF OpWrites
  <2>3. X86Operand(d, op) = IF op.read THEN src(w, X86Reg(op.reg)) ELSE w
    BY <1>1 DEF X86Operand
  <2>4. Slotted(w, X, Y \cup OpWrites(op))
    <3>1. CASE op.write
      <4>1. Y \cup OpWrites(op) = With(Y, X86Reg(op.reg))
        BY <2>2, <3>1 DEF With
      <4>2. Slotted(dst(d, X86Reg(op.reg)), X, With(Y, X86Reg(op.reg)))
        BY <4>1, DstSlotted
      <4> QED BY <4>1, <4>2, <3>1
    <3>2. CASE ~op.write
      BY <2>2, <3>2
    <3> QED BY <3>1, <3>2
  <2> HIDE DEF w
  <2>5. CASE op.read
    <3>1. X \cup OpReads(op) = With(X, X86Reg(op.reg))
      BY <2>1, <2>5 DEF With
    <3>2. Slotted(src(w, X86Reg(op.reg)), With(X, X86Reg(op.reg)), Y \cup OpWrites(op))
      BY <3>1, <2>4, SrcSlotted
    <3> QED BY <3>1, <3>2, <2>3, <2>5
  <2>6. CASE ~op.read
    <3>1. X \cup OpReads(op) = X
      BY <2>1, <2>6
    <3> QED BY <3>1, <2>4, <2>3, <2>6
  <2> QED BY <2>5, <2>6
<1>2. CASE op.kind = "mem"
  <2> DEFINE b == X86Reg(op.base)
             i == X86Reg(op.index)
             ip == op.base[1] = "ip"
             w == IF ip THEN d ELSE src(d, b)
             Z == IF ip THEN X ELSE With(X, b)
  <2>1. OpReads(op) = ({i} \cup (IF ip THEN {} ELSE {b})) \ {0}
    BY <1>2 DEF OpReads
  <2>2. OpWrites(op) = {}
    BY <1>2 DEF OpWrites
  <2>3. X86Operand(d, op) = src(w, i)
    BY <1>2 DEF X86Operand
  <2> HIDE DEF b, i
  <2>4. With(Z, i) = X \cup OpReads(op) /\ Z \subseteq With(Z, i)
    BY <2>1 DEF With
  <2>5. Fitting(With(Z, i), A, NUM_INSTR_SOURCES) /\ Fitting(Z, A, NUM_INSTR_SOURCES)
    <3>1. Fitting(With(Z, i), A, NUM_INSTR_SOURCES)
      BY <2>4
    <3> QED BY <3>1, <2>4 DEF Fitting
  <2>6. Slotted(w, Z, Y)
    <3>1. CASE ip
      BY <3>1
    <3>2. CASE ~ip
      BY <3>2, <2>5, SrcSlotted
    <3> QED BY <3>1, <3>2
  <2> HIDE DEF w, Z
  <2>7. Slotted(src(w, i), With(Z, i), Y)
    BY <2>5, <2>6, SrcSlotted
  <2>8. Y \cup OpWrites(op) = Y
    BY <2>2
  <2> QED BY <2>3, <2>4, <2>7, <2>8
<1>3. CASE op.kind \notin {"reg", "mem"}
  <2>1. OpReads(op) = {} /\ OpWrites(op) = {}
    BY <1>3 DEF OpReads, OpWrites
  <2>2. X86Operand(d, op) = d
    BY <1>3 DEF X86Operand
  <2>3. X \cup OpReads(op) = X /\ Y \cup OpWrites(op) = Y
    BY <2>1
  <2> QED BY <2>2, <2>3
<1> QED BY <1>1, <1>2, <1>3

---------------------------------------------------------------------------
OperandsUpTo(g, ops, n) ==
  g = [k \in 0 .. n |-> IF k = 0 THEN NoRegs ELSE X86Operand(g[k - 1], ops[k])]

(* The loop over the operands ends.                                        *)
LEMMA LoopOperands ==
  ASSUME NEW ops, NEW n \in Nat
  PROVE  \E g : OperandsUpTo(g, ops, n)
<1> DEFINE T == {m \in Nat : ~ \E g : OperandsUpTo(g, ops, m)}
<1>1. CASE T = {}
  BY <1>1
<1>2. CASE T # {}
  <2>1. PICK m \in T : \A y \in T : m <= y
    <3> HIDE DEF T
    <3>1. T \subseteq Nat
      BY DEF T
    <3> QED
      BY <1>2, <3>1, LeastNat
  <2>2. m \in Nat /\ ~ \E g : OperandsUpTo(g, ops, m)
    OBVIOUS
  <2>3. m # 0
    <3> DEFINE h == [k \in 0 .. 0 |-> NoRegs]
    <3>1. OperandsUpTo(h, ops, 0)
      BY DEF OperandsUpTo
    <3> QED
      BY <2>2, <3>1
  <2>4. m - 1 \in Nat /\ m - 1 \notin T
    BY <2>1, <2>2, <2>3
  <2>5. PICK g : OperandsUpTo(g, ops, m - 1)
    BY <2>4
  <2> DEFINE next(q, k) == IF k = 0 THEN NoRegs ELSE X86Operand(q[k - 1], ops[k])
             h == [k \in 0 .. m |-> IF k = m THEN next(g, m) ELSE g[k]]
  <2>6. g = [k \in 0 .. m - 1 |-> next(g, k)]
    BY <2>5 DEF OperandsUpTo
  <2>7. ASSUME NEW k \in 0 .. m
        PROVE  h[k] = next(h, k)
    <3>1. k # 0 => k - 1 \in 0 .. m /\ k - 1 # m /\ h[k - 1] = g[k - 1]
      BY <2>2
    <3>2. next(h, k) = next(g, k)
      BY <3>1
    <3>3. CASE k = m
      BY <3>2, <3>3
    <3>4. CASE k # m
      <4>1. k \in 0 .. m - 1 /\ h[k] = g[k]
        BY <2>2, <3>4
      <4> HIDE DEF next, h
      <4>2. g[k] = next(g, k)
        BY <2>6, <4>1
      <4> QED
        BY <3>2, <4>1, <4>2
    <3> QED
      BY <3>3, <3>4
  <2>8. h = [k \in 0 .. m |-> h[k]]
    OBVIOUS
  <2> HIDE DEF h
  <2>9. h = [k \in 0 .. m |-> next(h, k)]
    <3> HIDE DEF next
    <3> QED
      BY <2>7, <2>8
  <2>10. OperandsUpTo(h, ops, m)
    BY <2>9 DEF OperandsUpTo
  <2> QED
    BY <2>2, <2>10
<1> QED
  BY <1>1, <1>2

(* The registers of the first k operands.                                  *)
ReadUpTo(ops, k) == UNION {OpReads(ops[j]) : j \in 1 .. k}
WrittenUpTo(ops, k) == UNION {OpWrites(ops[j]) : j \in 1 .. k}

Reads86(c) == UNION {OpReads(op) : op \in Range(c.ops)}
Writes86(c) == UNION {OpWrites(op) : op \in Range(c.ops)}

(* Nothing is in a slot of no operand.                                     *)
LEMMA NoneSlotted == Slotted(NoRegs, {}, {})
<1>1. /\ << >> \in Seq({}) /\ Range(<< >>) = {} /\ Len(<< >>) = 0
  BY DEF Range
<1>2. IsFiniteSet({}) /\ Cardinality({}) = 0
  BY FS_EmptySet
<1> QED BY <1>1, <1>2 DEF Slotted, Holds, NoRegs

(* The loop over the operands gives every register its slot.               *)
LEMMA OperandsSlotted ==
  ASSUME NEW c, c.ops \in Seq(Range(c.ops)), NEW A, NEW B,
         Fitting(Reads86(c), A, NUM_INSTR_SOURCES),
         Fitting(Writes86(c), B, NUM_INSTR_DESTINATIONS)
  PROVE  Slotted(after_operands(c)[Len(c.ops)], Reads86(c), Writes86(c))
<1> DEFINE n == Len(c.ops)
           ops == c.ops
           R(k) == ReadUpTo(ops, k)
           W(k) == WrittenUpTo(ops, k)
<1>1. n \in Nat /\ DOMAIN ops = 1 .. n
  OBVIOUS
<1> HIDE DEF n, ops
<1>2. Range(ops) = {ops[j] : j \in 1 .. n}
  BY <1>1 DEF Range
<1>3. Reads86(c) = R(n) /\ Writes86(c) = W(n)
  BY <1>2 DEF Reads86, Writes86, ReadUpTo, WrittenUpTo, ops
<1>4. PICK g : OperandsUpTo(g, ops, n)
  BY <1>1, LoopOperands
<1>5. OperandsUpTo(after_operands(c), ops, n)
  <2>1. after_operands(c) = CHOOSE f : OperandsUpTo(f, ops, n)
    BY Zenon DEF after_operands, OperandsUpTo, n, ops
  <2> QED BY <1>4, <2>1
<1> DEFINE e == after_operands(c)
<1> HIDE DEF e
<1>6. \A k \in 0 .. n : e[k] = IF k = 0 THEN NoRegs ELSE X86Operand(e[k - 1], ops[k])
  BY <1>5 DEF OperandsUpTo, e
<1> DEFINE T == {k \in Nat : k <= n /\ ~ Slotted(e[k], R(k), W(k))}
<1>7. CASE T = {}
  <2>1. Slotted(e[n], R(n), W(n))
    BY <1>1, <1>7
  <2> QED BY <2>1, <1>3 DEF e, n
<1>8. CASE T # {}
  <2>1. PICK m \in T : \A y \in T : m <= y
    <3> HIDE DEF T
    <3>1. T \subseteq Nat
      BY DEF T
    <3> QED BY <1>8, <3>1, LeastNat
  <2>2. m \in Nat /\ m <= n /\ ~ Slotted(e[m], R(m), W(m))
    BY <2>1
  <2>3. m # 0
    <3>1. R(0) = {} /\ W(0) = {}
      BY DEF ReadUpTo, WrittenUpTo
    <3>2. e[0] = NoRegs
      BY <1>1, <1>6
    <3> QED BY <2>2, <3>1, <3>2, NoneSlotted
  <2>4. m - 1 \in Nat /\ m - 1 <= n /\ ~(m <= m - 1)
    BY <1>1, <2>2, <2>3
  <2>5. Slotted(e[m - 1], R(m - 1), W(m - 1))
    BY <2>1, <2>4
  <2>6. R(m) = R(m - 1) \cup OpReads(ops[m]) /\ R(m) \subseteq R(n)
    BY <1>1, <2>2, <2>3 DEF ReadUpTo
  <2>7. W(m) = W(m - 1) \cup OpWrites(ops[m]) /\ W(m) \subseteq W(n)
    BY <1>1, <2>2, <2>3 DEF WrittenUpTo
  <2>8. e[m] = X86Operand(e[m - 1], ops[m])
    BY <1>1, <1>6, <2>2, <2>3
  <2>9. Fitting(R(m), A, NUM_INSTR_SOURCES) /\ Fitting(W(m), B, NUM_INSTR_DESTINATIONS)
    BY <1>3, <2>6, <2>7 DEF Fitting
  <2> HIDE DEF R, W, T
  <2>10. Slotted(X86Operand(e[m - 1], ops[m]), R(m), W(m))
    BY <2>5, <2>6, <2>7, <2>9, OperandSlotted
  <2> QED BY <2>2, <2>8, <2>10
<1> QED BY <1>7, <1>8

---------------------------------------------------------------------------
(* One element more.                                                       *)
LEMMA OneMore ==
  ASSUME NEW S, IsFiniteSet(S), NEW n \in Nat, Cardinality(S) <= n, NEW x
  PROVE  IsFiniteSet(S \cup {x}) /\ Cardinality(S \cup {x}) <= n + 1
<1>1. Cardinality(S) \in Nat
  BY FS_CardinalityType
<1>2. /\ IsFiniteSet(S \cup {x})
      /\ Cardinality(S \cup {x}) = IF x \in S THEN Cardinality(S) ELSE Cardinality(S) + 1
  BY FS_AddElement
<1> QED BY <1>1, <1>2

(* Two elements and four.                                                  *)
LEMMA Few ==
  ASSUME NEW a, NEW b, NEW x, NEW y
  PROVE  /\ IsFiniteSet({a, b}) /\ Cardinality({a, b}) <= 2
         /\ IsFiniteSet({a, b, x, y}) /\ Cardinality({a, b, x, y}) <= 4
<1>1. IsFiniteSet({}) /\ Cardinality({}) <= 0
  BY FS_EmptySet
<1>2. IsFiniteSet({} \cup {a}) /\ Cardinality({} \cup {a}) <= 0 + 1
  BY <1>1, OneMore
<1>3. {} \cup {a} = {a} /\ 0 + 1 = 1
  OBVIOUS
<1>4. IsFiniteSet({a} \cup {b}) /\ Cardinality({a} \cup {b}) <= 1 + 1
  BY <1>2, <1>3, OneMore
<1>5. {a} \cup {b} = {a, b} /\ 1 + 1 = 2
  OBVIOUS
<1>6. IsFiniteSet({a, b} \cup {x}) /\ Cardinality({a, b} \cup {x}) <= 2 + 1
  BY <1>4, <1>5, OneMore
<1>7. {a, b} \cup {x} = {a, b, x} /\ 2 + 1 = 3
  OBVIOUS
<1>8. IsFiniteSet({a, b, x} \cup {y}) /\ Cardinality({a, b, x} \cup {y}) <= 3 + 1
  BY <1>6, <1>7, OneMore
<1>9. {a, b, x} \cup {y} = {a, b, x, y} /\ 3 + 1 = 4
  OBVIOUS
<1> QED BY <1>4, <1>5, <1>8, <1>9

(* The registers that a branch of type k has in the end.                   *)
FlagsOf(c) ==
  IF classify_branch(c) = 3 /\ c.mnem \notin CountConditionals THEN {CS_REG_FLAGS} ELSE {}
StackOf(c) == IF classify_branch(c) \in {4, 5, 6} THEN {CS_REG_SP} ELSE {}
PCOf(c) == IF classify_branch(c) \in {3, 4, 5} THEN {CS_REG_PC} ELSE {}

Sources86(c) == Reads86(c) \cup FlagsOf(c) \cup StackOf(c) \cup PCOf(c)
Destinations86(c) == Writes86(c) \cup StackOf(c) \cup {CS_REG_PC}

Special == {CS_REG_SP, CS_REG_PC, CS_REG_FLAGS}

(* What is listed, by type.                                                *)
LEMMA Listed ==
  ASSUME NEW c, ListedOperands(c)
  PROVE  LET k == classify_branch(c)
             R == Reads86(c)
         IN /\ c.ops \in Seq(Range(c.ops))
            /\ Writes86(c) \subseteq {CS_REG_PC}
                 \cup (IF k = 3 THEN {CS_REG_RCX} ELSE IF k \in {4, 5, 6} THEN {CS_REG_SP} ELSE {})
            /\ k = 1 => R \subseteq {CS_REG_PC}
            /\ k = 2 => \E a, b \in R \ Special : R = {a, b}
            /\ k = 3 => /\ R \subseteq {CS_REG_PC, CS_REG_FLAGS, CS_REG_RCX}
                        /\ c.mnem \in CountConditionals => CS_REG_RCX \in R
            /\ k = 4 => R \subseteq {CS_REG_SP, CS_REG_PC}
            /\ k = 5 => \E a, b \in R \ Special : R \subseteq {a, b, CS_REG_SP, CS_REG_PC}
            /\ k = 6 => R \subseteq {CS_REG_SP}
<1> DEFINE k == classify_branch(c)
           R == Reads86(c)
           W == Writes86(c)
<1>1. /\ c.ops \in Seq(Range(c.ops))
      /\ W \subseteq {CS_REG_PC}
           \cup (CASE k = 3 -> {CS_REG_RCX} [] k \in {4, 5, 6} -> {CS_REG_SP} [] OTHER -> {})
      /\ k = 1 => R \subseteq {CS_REG_PC}
      /\ k = 2 => \E a, b \in R \ Special : R = {a, b}
      /\ k = 3 => /\ R \subseteq {CS_REG_PC, CS_REG_FLAGS, CS_REG_RCX}
                  /\ c.mnem \in CountConditionals => CS_REG_RCX \in R
      /\ k = 4 => R \subseteq {CS_REG_SP, CS_REG_PC}
      /\ k = 5 => \E a, b \in R \ Special : R \subseteq {a, b, CS_REG_SP, CS_REG_PC}
      /\ k = 6 => R \subseteq {CS_REG_SP}
  BY Zenon DEF ListedOperands, Reads86, Writes86, Special
<1> HIDE DEF k, R, W
<1>2. (CASE k = 3 -> {CS_REG_RCX} [] k \in {4, 5, 6} -> {CS_REG_SP} [] OTHER -> {})
        = IF k = 3 THEN {CS_REG_RCX} ELSE IF k \in {4, 5, 6} THEN {CS_REG_SP} ELSE {}
  OBVIOUS
<1> QED BY <1>1, <1>2, Zenon DEF k, R, W

(* All of them fit.                                                        *)
LEMMA ListedFit ==
  ASSUME NEW c, ListedOperands(c), classify_branch(c) \in 1 .. 6
  PROVE  /\ Fitting(Sources86(c), Sources86(c), NUM_INSTR_SOURCES)
         /\ Fitting(Destinations86(c), Destinations86(c), NUM_INSTR_DESTINATIONS)
<1> DEFINE k == classify_branch(c)
           R == Reads86(c)
           S == Sources86(c)
           D == Destinations86(c)
<1>1. \E a, b, x, y : S \subseteq {a, b, x, y}
  <2>1. CASE k = 1
    <3>1. S \subseteq {CS_REG_PC}
      BY <2>1, Listed DEF Sources86, FlagsOf, StackOf, PCOf
    <3>2. S \subseteq {CS_REG_PC, CS_REG_PC, CS_REG_PC, CS_REG_PC}
      BY <3>1
    <3> QED BY <3>2
  <2>2. CASE k = 2
    <3>1. PICK a, b : R = {a, b}
      BY <2>2, Listed
    <3>2. S \subseteq {a, b, CS_REG_SP, CS_REG_PC}
      BY <2>2, <3>1 DEF Sources86, FlagsOf, StackOf, PCOf
    <3> QED BY <3>2
  <2>3. CASE k = 3
    <3>1. R \subseteq {CS_REG_PC, CS_REG_FLAGS, CS_REG_RCX}
      BY <2>3, Listed
    <3>2. S \subseteq {CS_REG_PC, CS_REG_FLAGS, CS_REG_RCX, CS_REG_RCX}
      BY <2>3, <3>1 DEF Sources86, FlagsOf, StackOf, PCOf
    <3> QED BY <3>2
  <2>4. CASE k = 4
    <3>1. R \subseteq {CS_REG_SP, CS_REG_PC}
      BY <2>4, Listed
    <3>2. S \subseteq {CS_REG_SP, CS_REG_SP, CS_REG_SP, CS_REG_PC}
      BY <2>4, <3>1 DEF Sources86, FlagsOf, StackOf, PCOf
    <3> QED BY <3>2
  <2>5. CASE k = 5
    <3>1. PICK a, b : R \subseteq {a, b, CS_REG_SP, CS_REG_PC}
      BY <2>5, Listed
    <3>2. S \subseteq {a, b, CS_REG_SP, CS_REG_PC}
      BY <2>5, <3>1 DEF Sources86, FlagsOf, StackOf, PCOf
    <3> QED BY <3>2
  <2>6. CASE k = 6
    <3>1. R \subseteq {CS_REG_SP}
      BY <2>6, Listed
    <3>2. S \subseteq {CS_REG_SP, CS_REG_SP, CS_REG_SP, CS_REG_PC}
      BY <2>6, <3>1 DEF Sources86, FlagsOf, StackOf, PCOf
    <3> QED BY <3>2
  <2>7. k = 1 \/ k = 2 \/ k = 3 \/ k = 4 \/ k = 5 \/ k = 6
    <3>1. k \in 1 .. 6
      OBVIOUS
    <3> HIDE DEF k
    <3> QED BY <3>1
  <2> HIDE DEF k, S
  <2> QED BY <2>1, <2>2, <2>3, <2>4, <2>5, <2>6, <2>7, Zenon
<1>2. \E a, b : D \subseteq {a, b}
  <2>1. Writes86(c) \subseteq {CS_REG_PC}
          \cup (IF k = 3 THEN {CS_REG_RCX} ELSE IF k \in {4, 5, 6} THEN {CS_REG_SP} ELSE {})
    BY Listed
  <2>2. CASE k = 3
    <3>1. D \subseteq {CS_REG_PC, CS_REG_RCX}
      BY <2>1, <2>2 DEF Destinations86, StackOf
    <3> QED BY <3>1
  <2>3. CASE k # 3
    <3>1. D \subseteq {CS_REG_PC, CS_REG_SP}
      BY <2>1, <2>3 DEF Destinations86, StackOf
    <3> QED BY <3>1
  <2> QED BY <2>2, <2>3
<1> HIDE DEF S, D
<1>3. Fitting(S, S, 4)
  <2>1. PICK a, b, x, y : S \subseteq {a, b, x, y}
    BY <1>1
  <2> DEFINE F == {a, b, x, y}
  <2>2. S \subseteq F /\ IsFiniteSet(F) /\ Cardinality(F) <= 4 /\ Cardinality(F) \in Nat
    BY <2>1, Few, FS_CardinalityType
  <2> HIDE DEF F
  <2>3. IsFiniteSet(S) /\ Cardinality(S) <= Cardinality(F) /\ Cardinality(S) \in Nat
    BY <2>2, FS_Subset, FS_CardinalityType
  <2> QED BY <2>2, <2>3 DEF Fitting
<1>4. Fitting(D, D, 2)
  <2>1. PICK a, b : D \subseteq {a, b}
    BY <1>2
  <2> DEFINE F == {a, b}
  <2>2. D \subseteq F /\ IsFiniteSet(F) /\ Cardinality(F) <= 2 /\ Cardinality(F) \in Nat
    BY <2>1, Few, FS_CardinalityType
  <2> HIDE DEF F
  <2>3. IsFiniteSet(D) /\ Cardinality(D) <= Cardinality(F) /\ Cardinality(D) \in Nat
    BY <2>2, FS_Subset, FS_CardinalityType
  <2> QED BY <2>2, <2>3 DEF Fitting
<1> QED BY <1>3, <1>4 DEF S, D, NUM_INSTR_SOURCES, NUM_INSTR_DESTINATIONS

(* Less fits where more does.                                              *)
LEMMA FitsToo ==
  ASSUME NEW X, NEW F, NEW cap, Fitting(F, F, cap), X \subseteq F
  PROVE  Fitting(X, F, cap)
BY DEF Fitting

(* Every register of a branch has its slot: those of its operands and      *)
(* those that are added behind them.                                       *)
LEMMA BranchSlotted ==
  ASSUME NEW c, ListedOperands(c), classify_branch(c) \in 1 .. 6, c.mnem # "bad"
  PROVE  Slotted(decode_x86(c), Sources86(c), Destinations86(c))
<1> DEFINE k == classify_branch(c)
           a == X86Operands(c)
           b == ReadFlags(c, a)
           e == UseStack(b)
           f == ReadPC(e)
           S == Sources86(c)
           D == Destinations86(c)
           S0 == Reads86(c)
           S1 == S0 \cup FlagsOf(c)
           S2 == S1 \cup StackOf(c)
           D0 == Writes86(c)
           D1 == D0 \cup StackOf(c)
<1>1. Fitting(S, S, NUM_INSTR_SOURCES) /\ Fitting(D, D, NUM_INSTR_DESTINATIONS)
  BY ListedFit
<1>2. S = S2 \cup PCOf(c) /\ D = D1 \cup {CS_REG_PC}
  BY DEF Sources86, Destinations86
<1>3. decode_x86(c) = WritePC(f)
  BY DEF decode_x86
<1>4. k \in 1 .. 6
  OBVIOUS
<1>5. S0 \subseteq S /\ S1 \subseteq S /\ S2 \subseteq S /\ D0 \subseteq D /\ D1 \subseteq D
  BY <1>2
<1>6. /\ CS_REG_SP # 0 /\ CS_REG_PC # 0 /\ CS_REG_FLAGS # 0
  BY DEF CS_REG_SP, CS_REG_PC, CS_REG_FLAGS
<1>7. HasFields(a) /\ a.is_branch = k /\ Slotted(a, S0, D0)
  <2> DEFINE o == after_operands(c)[Len(c.ops)]
  <2>1. c.ops \in Seq(Range(c.ops))
    BY Listed
  <2>2. Fitting(S0, S, NUM_INSTR_SOURCES) /\ Fitting(D0, D, NUM_INSTR_DESTINATIONS)
    BY <1>1, <1>5, FitsToo
  <2>3. Slotted(o, S0, D0)
    BY <2>1, <2>2, OperandsSlotted
  <2>4. a = Decoded(k, classify_instr_type(c), o)
    BY DEF X86Operands
  <2> HIDE DEF o
  <2>5. HasFields(a) /\ a.is_branch = k /\ a.src = o.src /\ a.dst = o.dst
    BY <2>4 DEF Decoded, HasFields
  <2> HIDE DEF a, S0, D0
  <2> QED BY <2>3, <2>5 DEF Slotted, HasFields
<1> HIDE DEF a, S, D, k
<1>8. HasFields(b) /\ b.is_branch = k /\ Slotted(b, S1, D0)
  <2>1. CASE k = 3 /\ c.mnem \notin CountConditionals
    <3>1. b = src(a, CS_REG_FLAGS)
      BY <1>7, <2>1 DEF ReadFlags
    <3>2. S1 = With(S0, CS_REG_FLAGS)
      BY <1>6, <2>1 DEF With, FlagsOf, k
    <3> HIDE DEF b, S1, S0, D0
    <3>3. Fitting(With(S0, CS_REG_FLAGS), S, NUM_INSTR_SOURCES)
      BY <1>1, <1>5, <3>2, FitsToo
    <3>4. Slotted(src(a, CS_REG_FLAGS), With(S0, CS_REG_FLAGS), D0)
      BY <1>7, <3>3, SrcSlotted
    <3> QED BY <1>7, <3>1, <3>2, <3>4, SlotsKeepType
  <2>2. CASE ~(k = 3 /\ c.mnem \notin CountConditionals)
    <3>1. b = a
      BY <1>7, <2>2 DEF ReadFlags
    <3>2. S1 = S0
      BY <2>2 DEF FlagsOf, k
    <3> QED BY <1>7, <3>1, <3>2
  <2> QED BY <2>1, <2>2
<1> HIDE DEF b, S1, S0, D0
<1>9. HasFields(e) /\ e.is_branch = k /\ Slotted(e, S2, D1)
  <2>1. CASE k \in {4, 5, 6}
    <3>1. e = dst(src(b, CS_REG_SP), CS_REG_SP)
      BY <1>8, <2>1 DEF UseStack
    <3>2. S2 = With(S1, CS_REG_SP) /\ D1 = With(D0, CS_REG_SP)
      BY <1>6, <2>1 DEF With, StackOf, k
    <3> HIDE DEF e, S2, D1
    <3>3. /\ Fitting(With(S1, CS_REG_SP), S, NUM_INSTR_SOURCES)
          /\ Fitting(With(D0, CS_REG_SP), D, NUM_INSTR_DESTINATIONS)
      BY <1>1, <1>5, <3>2, FitsToo
    <3> DEFINE b1 == src(b, CS_REG_SP)
    <3>4. Slotted(b1, With(S1, CS_REG_SP), D0)
      BY <1>8, <3>3, SrcSlotted
    <3>5. HasFields(b1) /\ b1.is_branch = k
      BY <1>8, SlotsKeepType
    <3> HIDE DEF b1
    <3>6. Slotted(dst(b1, CS_REG_SP), With(S1, CS_REG_SP), With(D0, CS_REG_SP))
      BY <3>3, <3>4, DstSlotted
    <3>7. HasFields(dst(b1, CS_REG_SP)) /\ dst(b1, CS_REG_SP).is_branch = k
      BY <3>5, SlotsKeepType
    <3>8. e = dst(b1, CS_REG_SP)
      BY <3>1 DEF b1
    <3> QED BY <3>2, <3>6, <3>7, <3>8
  <2>2. CASE k \notin {4, 5, 6}
    <3>1. e = b
      BY <1>8, <2>2 DEF UseStack
    <3>2. S2 = S1 /\ D1 = D0
      BY <2>2 DEF StackOf, k
    <3> QED BY <1>8, <3>1, <3>2
  <2> QED BY <2>1, <2>2
<1> HIDE DEF e, S2, D1
<1>10. HasFields(f) /\ f.is_branch = k /\ Slotted(f, S, D1)
  <2>1. CASE k \in {3, 4, 5}
    <3>1. f = src(e, CS_REG_PC)
      BY <1>9, <2>1 DEF ReadPC
    <3>2. S = With(S2, CS_REG_PC)
      BY <1>2, <1>6, <2>1 DEF With, PCOf, k
    <3> HIDE DEF f
    <3>3. Fitting(With(S2, CS_REG_PC), S, NUM_INSTR_SOURCES)
      BY <1>1, <3>2
    <3>4. Slotted(src(e, CS_REG_PC), With(S2, CS_REG_PC), D1)
      BY <1>9, <3>3, SrcSlotted
    <3> QED BY <1>9, <3>1, <3>2, <3>4, SlotsKeepType
  <2>2. CASE k \notin {3, 4, 5}
    <3>1. f = e
      BY <1>9, <2>2 DEF ReadPC
    <3>2. S = S2
      BY <1>2, <2>2 DEF PCOf, k
    <3> QED BY <1>9, <3>1, <3>2
  <2> QED BY <2>1, <2>2
<1> HIDE DEF f
<1>11. WritePC(f) = dst(f, CS_REG_PC)
  BY <1>4, <1>10 DEF WritePC
<1>12. D = With(D1, CS_REG_PC)
  BY <1>2, <1>6 DEF With
<1>13. Fitting(With(D1, CS_REG_PC), D, NUM_INSTR_DESTINATIONS)
  BY <1>1, <1>12
<1>14. Slotted(dst(f, CS_REG_PC), S, With(D1, CS_REG_PC))
  BY <1>10, <1>13, DstSlotted
<1> QED BY <1>3, <1>11, <1>12, <1>14 DEF S, D

(* ChampSim guesses the type of a branch from what it reads and writes.    *)
LEMMA GuessIsRight ==
  ASSUME NEW c, ListedOperands(c), classify_branch(c) \in 1 .. 6, NEW w,
         Range(w.src) = Sources86(c), Range(w.dst) = Destinations86(c)
  PROVE  Inferred(w) = classify_branch(c)
<1> DEFINE k == classify_branch(c)
           R == Reads86(c)
           S == Sources86(c)
           D == Destinations86(c)
           reads_sp == CS_REG_SP \in S
           reads_ip == CS_REG_PC \in S
           reads_flags == CS_REG_FLAGS \in S
           reads_other == S \ {CS_REG_SP, CS_REG_PC, CS_REG_FLAGS} # {}
           writes_sp == CS_REG_SP \in D
<1>1. Inferred(w) =
       CASE CS_REG_PC \notin D -> 0
         [] ~reads_sp /\ ~reads_flags /\ ~reads_other -> 1
         [] ~reads_sp /\ ~reads_ip /\ ~reads_flags /\ reads_other -> 2
         [] ~reads_sp /\ reads_ip /\ (reads_flags \/ reads_other) -> 3
         [] reads_sp /\ reads_ip /\ writes_sp /\ ~reads_other -> 4
         [] reads_sp /\ reads_ip /\ writes_sp /\ reads_other -> 5
         [] reads_sp /\ ~reads_ip /\ writes_sp -> 6
         [] OTHER -> 7
  BY Zenon DEF Inferred
<1>2. CS_REG_PC \in D
  BY DEF Destinations86
<1>3. S = R \cup FlagsOf(c) \cup StackOf(c) \cup PCOf(c)
  BY DEF Sources86
<1> USE DEF CS_REG_SP, CS_REG_PC, CS_REG_FLAGS, CS_REG_RCX
<1> HIDE DEF R, S, D
<1>4. CASE k = 1
  <2>1. S \subseteq {CS_REG_PC}
    BY <1>3, <1>4, Listed DEF FlagsOf, StackOf, PCOf, R
  <2>2. ~reads_sp /\ ~reads_flags /\ ~reads_other
    <3>1. \A x \in S : x = CS_REG_PC
      BY <2>1
    <3>2. S \ {CS_REG_SP, CS_REG_PC, CS_REG_FLAGS} = {}
      BY <3>1
    <3> QED BY <3>1, <3>2
  <2> QED BY <1>1, <1>2, <1>4, <2>2
<1>5. CASE k = 2
  <2>1. PICK a, b \in R \ Special : R = {a, b}
    BY <1>5, Listed DEF R
  <2>2. S = R
    BY <1>3, <1>5 DEF FlagsOf, StackOf, PCOf
  <2>3. ~reads_sp /\ ~reads_ip /\ ~reads_flags /\ reads_other
    BY <2>1, <2>2 DEF Special
  <2> QED BY <1>1, <1>2, <1>5, <2>3
<1>6. CASE k = 3
  <2>1. R \subseteq {CS_REG_PC, CS_REG_FLAGS, CS_REG_RCX}
    BY <1>6, Listed DEF R
  <2>2. c.mnem \in CountConditionals => CS_REG_RCX \in R
    BY <1>6, Listed DEF R
  <2>3. S = R \cup {CS_REG_PC}
              \cup (IF c.mnem \notin CountConditionals THEN {CS_REG_FLAGS} ELSE {})
    BY <1>3, <1>6 DEF FlagsOf, StackOf, PCOf
  <2>4. ~reads_sp /\ reads_ip
    BY <2>1, <2>3
  <2>5. reads_flags \/ reads_other
    BY <2>2, <2>3
  <2> QED BY <1>1, <1>2, <1>6, <2>4, <2>5
<1>7. CASE k \in {4, 5, 6}
  <2>1. CS_REG_SP \in D /\ CS_REG_SP \in S
    BY <1>3, <1>7 DEF StackOf, Destinations86, D
  <2>2. CASE k = 4
    <3>1. S \subseteq {CS_REG_SP, CS_REG_PC} /\ CS_REG_PC \in S
      BY <1>3, <2>2, Listed DEF FlagsOf, StackOf, PCOf, R
    <3>2. ~reads_other
      BY <3>1
    <3> QED BY <1>1, <1>2, <2>1, <2>2, <3>1, <3>2
  <2>3. CASE k = 5
    <3>1. PICK a, b \in R \ Special : R \subseteq {a, b, CS_REG_SP, CS_REG_PC}
      BY <2>3, Listed DEF R
    <3>2. CS_REG_PC \in S /\ R \subseteq S
      BY <1>3, <2>3 DEF PCOf
    <3>3. reads_other
      BY <3>1, <3>2 DEF Special
    <3> QED BY <1>1, <1>2, <2>1, <2>3, <3>2, <3>3
  <2>4. CASE k = 6
    <3>1. S \subseteq {CS_REG_SP}
      BY <1>3, <2>4, Listed DEF FlagsOf, StackOf, PCOf, R
    <3>2. ~reads_ip
      BY <3>1
    <3> QED BY <1>1, <1>2, <2>1, <2>4, <3>2
  <2> QED BY <1>7, <2>2, <2>3, <2>4
<1>8. k \in 1 .. 6
  OBVIOUS
<1> HIDE DEF k
<1> QED BY <1>4, <1>5, <1>6, <1>7, <1>8 DEF k

(* A branch that retires on x86 has its operands listed.                   *)
OperandsListed(r) ==
  r.branch \in 1 .. 6 =>
    /\ r.code.mnem # "bad" /\ r.branch = classify_branch(r.code)
    /\ ListedOperands(r.code)

(* So has all that retires.                                                *)
LEMMA RetiredListed ==
  ASSUME "x86_64" \in Formats, NEW r \in Retired("x86_64")
  PROVE  OperandsListed(r)
<1> DEFINE f == "x86_64"
<1>1. PICK a \in DOMAIN Program[f], to \in DOMAIN Program[f] : r = Retire(f, a, to)
  BY DEF Retired
<1> DEFINE i == Program[f][a]
           c == i.code
<1>2. r.branch = i.branch /\ r.code = c
  BY <1>1 DEF Retire
<1>3. i.branch = IF c.mnem = "bad" THEN 0 ELSE classify_branch(c)
  BY ProgramAssumption
<1>4. c.mnem # "bad" /\ classify_branch(c) \in 1 .. 6 => ListedOperands(c)
  BY OperandsAssumption
<1> HIDE DEF i, c
<1> QED BY <1>2, <1>3, <1>4 DEF OperandsListed

(* A record whose type can be guessed.                                     *)
Guessed(w) == w.branch_type < 6 => Inferred(w) = w.branch_type + 1

(* So can that of what the converter makes of an honest instruction,       *)
(* whatever the direction.                                                 *)
LEMMA MadeGuessed ==
  ASSUME input.format = "x86_64", NEW r \in Insns, Honest(input.format, r),
         OperandsListed(r)
  PROVE  /\ Guessed(Made(r))
         /\ \A b : Guessed([Made(r) EXCEPT !.branch_taken = b])
<1> DEFINE d == decode_x86(r.code)
           p == Record(r, d)
           k == classify_branch(r.code)
<1>1. Made(r) = p
  BY DEF Made, decode
<1>2. r.branch = d.is_branch /\ r.branch \in 0 .. 7
  BY DEF Honest, Decoder
<1>3. r.branch \in 1 .. 6 =>
        /\ r.code.mnem # "bad" /\ r.branch = k /\ ListedOperands(r.code)
  BY DEF OperandsListed
<1>4. r.branch \in 1 .. 6 => Slotted(d, Sources86(r.code), Destinations86(r.code))
  <2> HIDE DEF d
  <2>1. r.branch \in 1 .. 6 => k \in 1 .. 6
    BY <1>3
  <2> QED BY <1>3, <2>1, BranchSlotted DEF d
<1> HIDE DEF d
<1>5. /\ p.branch_type = IF r.branch # 0 THEN r.branch - 1 ELSE 7
      /\ p.src = d.src /\ p.dst = d.dst
      /\ \A b : LET q == [p EXCEPT !.branch_taken = b]
                IN q.branch_type = p.branch_type /\ q.src = p.src /\ q.dst = p.dst
  BY <1>2 DEF Record, CS_BRANCH_NOT_BRANCH
<1> HIDE DEF p
<1>6. ASSUME NEW q, q.branch_type = p.branch_type, q.src = p.src, q.dst = p.dst
      PROVE  Guessed(q)
  <2> SUFFICES ASSUME q.branch_type < 6 PROVE Inferred(q) = q.branch_type + 1
    BY DEF Guessed
  <2>1. r.branch \in 1 .. 6 /\ q.branch_type + 1 = r.branch
    BY <1>2, <1>5, <1>6
  <2>2. Range(q.src) = Sources86(r.code) /\ Range(q.dst) = Destinations86(r.code)
    BY <1>4, <1>5, <1>6, <2>1 DEF Slotted, Holds
  <2>3. k \in 1 .. 6 /\ ListedOperands(r.code)
    BY <1>3, <2>1
  <2>4. Inferred(q) = k
    BY <2>2, <2>3, GuessIsRight
  <2> QED BY <1>3, <2>1, <2>4
<1>7. Guessed(p)
  BY <1>6
<1>8. \A b : Guessed([p EXCEPT !.branch_taken = b])
  BY <1>5, <1>6
<1> QED BY <1>1, <1>7, <1>8

AllGuessed(t) == \A i \in DOMAIN t.recs : Guessed(t.recs[i])

(* One that can be guessed is appended.                                    *)
LEMMA WriteGuessed ==
  ASSUME champsim \in [ recs : Seq(Written), tail : ChampSimTail ], AllGuessed(champsim),
         NEW w, Guessed(w), writer_write(w)
  PROVE  AllGuessed(champsim')
<1> DEFINE q == champsim.recs
           a == Append(q, w)
<1>1. q \in Seq(Written) /\ Len(q) \in Nat
  OBVIOUS
<1>2. /\ DOMAIN a = 1 .. Len(q) + 1 /\ DOMAIN q = 1 .. Len(q)
      /\ a[Len(q) + 1] = w /\ \A i \in 1 .. Len(q) : a[i] = q[i]
  BY <1>1
<1>3. champsim'.recs = a
  BY DEF writer_write
<1> HIDE DEF a
<1>4. ASSUME NEW i \in 1 .. Len(q) + 1 PROVE Guessed(a[i])
  <2>1. CASE i = Len(q) + 1
    BY <1>2, <2>1
  <2>2. CASE i # Len(q) + 1
    <3>1. i \in 1 .. Len(q)
      BY <1>1, <2>2
    <3> QED BY <1>2, <3>1 DEF AllGuessed
  <2> QED BY <2>1, <2>2
<1> QED BY <1>2, <1>3, <1>4 DEF AllGuessed

(* What can be read of a torn stream was written.                          *)
LEMMA TornGuessed ==
  ASSUME champsim \in [ recs : Seq(Written), tail : ChampSimTail ], AllGuessed(champsim), Torn
  PROVE  AllGuessed(champsim')
<1> DEFINE q == champsim.recs
<1>1. q \in Seq(Written) /\ Len(q) \in Nat /\ DOMAIN q = 1 .. Len(q)
  OBVIOUS
<1>2. PICK n \in 0 .. Len(q) : champsim' = [ recs |-> SubSeq(q, 1, n), tail |-> "corrupt" ]
  BY DEF Torn
<1>3. DOMAIN SubSeq(q, 1, n) = 1 .. n /\ \A i \in 1 .. n : SubSeq(q, 1, n)[i] = q[i]
  BY <1>1, <1>2
<1> QED BY <1>1, <1>2, <1>3 DEF AllGuessed

(* The converter writes only such records of an x86 trace.                 *)
LEMMA ConvGuessed ==
  ASSUME ConvInv, ConvertNext, input.format = "x86_64", AllGuessed(champsim),
         \A i \in 1 .. Len(input.recs) : OperandsListed(input.recs[i])
  PROVE  AllGuessed(champsim')
<1>1. champsim \in [ recs : Seq(Written), tail : ChampSimTail ]
  BY DEF ConvInv, ConvTypes
<1>2. ASSUME conv \in {"loop", "final"}, prev_record # << >>
      PROVE  /\ Guessed(prev_record[1])
             /\ \A b : Guessed([prev_record[1] EXCEPT !.branch_taken = b])
  <2> DEFINE n == cstats.total_insns
             r == input.recs[n]
  <2>1. n # 0 /\ prev_record = << Made(r) >>
    BY <1>2 DEF ConvInv, InStep, Behind
  <2>2. n \in 1 .. Len(input.recs)
    BY <2>1 DEF ConvInv, ConvTypes
  <2>3. r \in Insns /\ Honest(input.format, r) /\ OperandsListed(r)
    BY <2>2 DEF ConvInv, ConvTypes
  <2> HIDE DEF r
  <2>4. prev_record[1] = Made(r)
    BY <2>1
  <2> QED BY <2>3, <2>4, MadeGuessed
<1>3. CASE ConvertRecord
  <2> DEFINE ip == input.recs[cstats.total_insns + 1].ip
             w == Direction(prev_record[1], ip)
  <2>1. CASE prev_record = << >>
    <3>1. champsim' = champsim
      BY <1>3, <2>1 DEF ConvertRecord
    <3> QED BY <3>1
  <2>2. CASE prev_record # << >>
    <3>1. conv = "loop" /\ writer_write(w)
      BY <1>3, <2>2 DEF ConvertRecord
    <3>2. Guessed(w)
      BY <1>2, <2>2, <3>1 DEF Direction
    <3> HIDE DEF w
    <3> QED BY <1>1, <3>1, <3>2, WriteGuessed
  <2> QED BY <2>1, <2>2
<1>4. CASE FinalRecord
  <2> DEFINE p == prev_record[1]
             w == [p EXCEPT !.branch_taken = @ \/ p.is_branch]
  <2>1. \/ champsim' = champsim
        \/ prev_record # << >> /\ writer_write(w)
        \/ Torn
    BY <1>4 DEF FinalRecord
  <2>2. CASE champsim' = champsim
    BY <2>2
  <2>3. CASE prev_record # << >> /\ writer_write(w)
    <3>1. conv = "final"
      BY <1>4 DEF FinalRecord
    <3>2. Guessed(w)
      BY <1>2, <2>3, <3>1
    <3> HIDE DEF w
    <3> QED BY <1>1, <2>3, <3>2, WriteGuessed
  <2>4. CASE Torn
    BY <1>1, <2>4, TornGuessed
  <2> QED BY <2>1, <2>2, <2>3, <2>4
<1>5. CASE WriteFails
  BY <1>1, <1>5, TornGuessed DEF WriteFails
<1>6. CASE Finalize
  <2>1. \/ champsim' = [champsim EXCEPT !.tail = "end"]
        \/ Torn
        \/ champsim' = champsim
    BY <1>6 DEF Finalize
  <2>2. CASE Torn
    BY <1>1, <2>2, TornGuessed
  <2>3. CASE champsim' = [champsim EXCEPT !.tail = "end"]
    <3>1. champsim'.recs = champsim.recs
      BY <1>1, <2>3
    <3> QED BY <3>1 DEF AllGuessed
  <2> QED BY <2>1, <2>2, <2>3
<1>7. CASE OpenInput \/ EndOfTrace \/ BadRecord \/ BadMemOp
  <2>1. champsim' = champsim
    BY <1>7 DEF OpenInput, EndOfTrace, BadRecord, BadMemOp, files
  <2> QED BY <2>1
<1> QED BY <1>3, <1>4, <1>5, <1>6, <1>7 DEF ConvertNext

(* FallbackAgrees in these terms.                                          *)
LEMMA FallbackIs == FallbackAgrees <=> (input.format = "x86_64" => AllGuessed(champsim))
BY DEF FallbackAgrees, AllGuessed, Guessed

(* ... and after a step.                                                   *)
LEMMA FallbackThen ==
  FallbackAgrees' <=> (input'.format = "x86_64" => AllGuessed(champsim'))
BY DEF FallbackAgrees, AllGuessed, Guessed

(* Nothing is wrong about an empty trace.                                  *)
LEMMA NothingGuessed == AllGuessed(NoTrace)
<1>1. DOMAIN NoTrace.recs = {}
  BY DEF NoTrace
<1> QED BY <1>1 DEF AllGuessed

(* What the converter reads comes from the guest.                          *)
GuestInput ==
  stage = "convert" =>
    /\ input.format \in Formats
    /\ \A i \in 1 .. Len(input.recs) : input.recs[i] \in Retired(input.format)

(* ... and stays so.                                                       *)
LEMMA GuestInputStep == FlowInv /\ GuestInput /\ [PipelineNext]_pvars => GuestInput'
<1>0. Retired(input.format)' = Retired(input'.format)
  BY DEF Retired, Retire
<1> SUFFICES ASSUME FlowInv, GuestInput, [PipelineNext]_pvars, stage' = "convert"
             PROVE  /\ input'.format \in Formats
                    /\ \A i \in 1 .. Len(input'.recs) : input'.recs[i] \in Retired(input'.format)
  BY <1>0 DEF GuestInput
<1>1. CASE StopCapture
  <2>1. stage = "capture" /\ input' = raw' /\ FromGuest(raw)
    BY <1>1 DEF StopCapture, FlowInv
  <2>2. PICK t \in RawTail : raw' = [raw EXCEPT !.tail = t]
    BY <1>1 DEF StopCapture
  <2>3. input'.format = raw.format /\ input'.recs = raw.recs
    BY <2>1, <2>2 DEF FromGuest, RawFile
  <2>4. \A i \in 1 .. Len(raw.recs) : raw.recs[i] \in Retired(raw.format)
    BY <2>1 DEF FromGuest
  <2> QED BY <2>1, <2>3, <2>4 DEF FromGuest
<1>2. CASE UseFiltered
  <2>1. stage = "filter" /\ input' \in Filtered /\ FromGuest(raw) /\ Drawn
    BY <1>2 DEF UseFiltered, FlowInv
  <2>3. /\ \A i \in 1 .. Len(raw.recs) : raw.recs[i] \in Retired(raw.format)
        /\ DOMAIN raw.recs = 1 .. Len(raw.recs)
    BY <2>1 DEF FromGuest
  <2>4. /\ \A i \in 1 .. Len(out) : out[i] \in 1 .. Len(raw.recs)
        /\ Len(out) \in Nat
    BY <2>1, <2>3 DEF Drawn
  <2>0. PICK n \in 0 .. Len(out), t \in RawTail : input' = OnDisk(n, t)
    BY <2>1, <2>4, FilteredIsOnDisk
  <2> DEFINE g == [i \in 1 .. n |-> raw.recs[out[i]]]
  <2>2. input'.format = raw.format /\ input'.recs = g
    BY <2>0 DEF OnDisk
  <2>5. g \in [1 .. n -> Retired(raw.format)]
    BY <2>3, <2>4
  <2>6. Len(g) = n /\ \A i \in 1 .. n : g[i] \in Retired(raw.format)
    BY <2>4, <2>5
  <2> QED BY <2>1, <2>2, <2>6 DEF FromGuest
<1>3. CASE RunConverter
  <2>1. stage = "convert" /\ ConvertNext
    BY <1>3 DEF RunConverter
  <2>2. input' = input
    BY <2>1 DEF ConvertNext, OpenInput, ConvertRecord, WriteFails, EndOfTrace, BadRecord,
                BadMemOp, FinalRecord, Finalize, files
  <2> QED BY <2>1, <2>2 DEF GuestInput
<1>4. CASE UNCHANGED pvars
  BY <1>4 DEF pvars, files, GuestInput
<1>5. CASE Execute \/ Interrupt \/ RunFilter \/ CheckIt \/ CutIt \/ RunCutter \/ RunCheck
  BY <1>5 DEF Execute, Interrupt, RunFilter, CheckIt, CutIt, RunCutter, RunCheck
<1> QED BY <1>1, <1>2, <1>3, <1>4, <1>5 DEF PipelineNext, End

(* Every step keeps the guesses right.                                     *)
LEMMA GuessStep ==
  FlowInv /\ GuestInput /\ FallbackAgrees /\ [PipelineNext]_pvars => FallbackAgrees'
<1> SUFFICES ASSUME FlowInv, GuestInput, FallbackAgrees, [PipelineNext]_pvars,
                    input'.format = "x86_64"
             PROVE  AllGuessed(champsim')
  BY FallbackThen
<1>1. CASE Execute \/ Interrupt \/ StopCapture \/ RunFilter \/ UseFiltered
  <2>1. stage \in {"capture", "filter"} /\ champsim' = champsim
    BY <1>1 DEF Execute, Interrupt, StopCapture, RunFilter, UseFiltered, FilterNext, files
  <2>2. champsim = NoTrace
    BY <2>1 DEF FlowInv, Unconverted
  <2> QED BY <2>1, <2>2, NothingGuessed
<1>2. CASE RunConverter
  <2>1. stage = "convert" /\ ConvertNext
    BY <1>2 DEF RunConverter
  <2>2. ConvInv
    BY <2>1 DEF FlowInv
  <2>3. input' = input
    BY <2>1 DEF ConvertNext, OpenInput, ConvertRecord, WriteFails, EndOfTrace, BadRecord,
                BadMemOp, FinalRecord, Finalize, files
  <2>4. AllGuessed(champsim)
    BY <2>3, FallbackIs
  <2>5. \A i \in 1 .. Len(input.recs) : OperandsListed(input.recs[i])
    BY <2>1, <2>3, RetiredListed DEF GuestInput
  <2> QED BY <2>1, <2>2, <2>3, <2>4, <2>5, ConvGuessed
<1>3. CASE CheckIt \/ CutIt
  <2>1. input'.format = "unknown"
    BY <1>3 DEF CheckIt, CutIt, KeepTrace, DropRaw, Deleted
  <2> QED BY <2>1
<1>4. CASE UNCHANGED <<input, champsim>>
  BY <1>4, FallbackIs
<1>5. CASE RunCutter \/ RunCheck
  <2>1. UNCHANGED files
    BY <1>5 DEF RunCutter, RunCheck, CutNext, CheckNext
  <2> QED BY <1>4, <2>1 DEF files
<1>6. CASE UNCHANGED pvars
  BY <1>4, <1>6 DEF pvars, files
<1> QED BY <1>1, <1>2, <1>3, <1>5, <1>6 DEF PipelineNext, End

(* For every x86 program, the type that ChampSim guesses from the          *)
(* registers of a record is the one it states: registers that an operand   *)
(* list repeats do not push FLAGS, SP or IP out of their slots             *)
(* (decode_x86.c).                                                         *)
THEOREM FallbackIsRight == PipelineSpec => []FallbackAgrees
<1>1. PipelineInit => FallbackAgrees
  <2> SUFFICES ASSUME PipelineInit PROVE FallbackAgrees
    OBVIOUS
  <2>1. champsim = NoTrace
    BY DEF PipelineInit
  <2> QED BY <2>1, NothingGuessed, FallbackIs
<1>2. PipelineInit => GuestInput
  BY DEF PipelineInit, GuestInput
<1>3. FlowInv /\ GuestInput /\ FallbackAgrees /\ [PipelineNext]_pvars
        => (GuestInput /\ FallbackAgrees)'
  BY GuessStep, GuestInputStep
<1> QED BY <1>1, <1>2, <1>3, FlowIs, PTL DEF PipelineSpec
=============================================================================
