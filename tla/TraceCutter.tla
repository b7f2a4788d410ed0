---------------------------- MODULE TraceCutter ----------------------------
(***************************************************************************)
(* The trace cutter (src/tools/trace_cutter/trace_cutter.cpp): a ChampSim  *)
(* trace split into chunks of -n records, from a stream of bytes that the  *)
(* decompressor delivers in pieces with no regard for records.             *)
(*                                                                         *)
(* A byte is its position in the stream.                                   *)
(***************************************************************************)
EXTENDS TraceFiles

CONSTANTS
  RECORD_SIZE,   \* 512 in the code
  ChunkRecords,  \* values of -n
  Pieces         \* lengths the decompressor may deliver

ASSUME CutterAssumption ==
  RECORD_SIZE \in Nat \ {0, 1} /\ ChunkRecords \subseteq Nat /\ Pieces \subseteq Nat

VARIABLES
  cut,       \* "waiting", "running", then "done" or "failed"
  cutargs,   \* [chunk_records, dry_run]
  carry,     \* the bytes of a record that is not whole yet
  fed,       \* bytes decompressed
  writer,    \* the chunk being written: [open, chunk_records, bytes]
  parts,     \* the files of the finished chunks, in the order of part_idx
  counts     \* chunk_records_list

tvars == <<cut, cutargs, carry, fed, writer, parts, counts>>

Closed == [ open |-> FALSE, chunk_records |-> 0, bytes |-> << >> ]

CutInit ==
  /\ cut = "waiting" /\ cutargs = [ chunk_records |-> 0, dry_run |-> FALSE ]
  /\ carry = << >> /\ fed = 0 /\ writer = Closed /\ parts = << >> /\ counts = << >>

(* Bytes the stream has to give: of a record it stops in, the first ones.  *)
StreamBytes == RECORD_SIZE * Len(champsim.recs)
                 + (IF champsim.tail = "partial" THEN RECORD_SIZE - 1 ELSE 0)

StartCut ==
  /\ cut = "waiting"
  /\ cutargs' \in [ chunk_records : ChunkRecords, dry_run : BOOLEAN ]
  /\ cut' = IF cutargs'.chunk_records = 0 THEN "failed" ELSE "running"
  /\ UNCHANGED <<carry, fed, writer, parts, counts>>

---------------------------------------------------------------------------
(* The chunker on c = [writer, parts, counts]; a dry run only counts.      *)
finalize_current_chunk(c) ==
  IF ~c.writer.open THEN c
  ELSE [ writer |-> Closed,
         parts  |-> IF cutargs.dry_run THEN c.parts ELSE Append(c.parts, c.writer.bytes),
         counts |-> Append(c.counts, c.writer.chunk_records) ]

emit_record(c, bytes) ==
  LET w == [ open |-> TRUE, chunk_records |-> c.writer.chunk_records + 1,
             bytes |-> c.writer.bytes \o bytes ]
      d == [c EXCEPT !.writer = w]
  IN IF w.chunk_records = cutargs.chunk_records THEN finalize_current_chunk(d) ELSE d

(* The chunker behind each of the whole records of p.                      *)
emitted(c, p) ==
  LET after[k \in 0 .. Len(p) \div RECORD_SIZE] ==
        IF k = 0 THEN c
        ELSE emit_record(after[k - 1], SubSeq(p, RECORD_SIZE * (k - 1) + 1, RECORD_SIZE * k))
  IN after

emit_records(c, p) == emitted(c, p)[Len(p) \div RECORD_SIZE]

Chunker == [ writer |-> writer, parts |-> parts, counts |-> counts ]

\* Mutant: the carried bytes are not reset when their record is complete.
consume_decompressed_stale(dp) ==
  LET need == IF carry = << >> THEN 0 ELSE RECORD_SIZE - Len(carry)
      off == IF need > 0 THEN need ELSE 0
      c == IF need > 0 THEN emit_records(Chunker, carry \o SubSeq(dp, 1, need)) ELSE Chunker
      whole == ((Len(dp) - off) \div RECORD_SIZE) * RECORD_SIZE
      rest == SubSeq(dp, off + whole + 1, Len(dp))
  IN IF need > 0 /\ Len(dp) < need
     THEN [ chunker |-> Chunker, carry |-> carry \o dp ]
     ELSE [ chunker |-> emit_records(c, SubSeq(dp, off + 1, off + whole)),
            carry |-> IF rest = << >> THEN carry ELSE rest ]

(* First the carried record, then a run of whole ones, and what is left    *)
(* over is carried.                                                        *)
consume_decompressed(dp) ==
  LET need == IF carry = << >> THEN 0 ELSE RECORD_SIZE - Len(carry)
      c == emit_records(Chunker, IF need > 0 THEN carry \o SubSeq(dp, 1, need) ELSE << >>)
      whole == ((Len(dp) - need) \div RECORD_SIZE) * RECORD_SIZE
  IN IF Len(dp) < need
     THEN [ chunker |-> Chunker, carry |-> carry \o dp ]
     ELSE [ chunker |-> emit_records(c, SubSeq(dp, need + 1, need + whole)),
            carry |-> SubSeq(dp, need + whole + 1, Len(dp)) ]

Consume ==
  /\ cut = "running"
  /\ \E n \in Pieces \cap 1 .. StreamBytes - fed :
       LET r == consume_decompressed([k \in 1 .. n |-> fed + k])
       IN /\ carry' = r.carry
          /\ writer' = r.chunker.writer
          /\ parts' = r.chunker.parts
          /\ counts' = r.chunker.counts
          /\ fed' = fed + n
  /\ UNCHANGED <<cut, cutargs>>

(* The end of the input is the end of the trace, even in the middle of a   *)
(* frame; left-over bytes are only worth a warning.                        *)
FinishCut ==
  /\ cut = "running" /\ fed = StreamBytes /\ champsim.tail # "corrupt"
  /\ cut' = "done"
  /\ LET c == finalize_current_chunk(Chunker)
     IN writer' = c.writer /\ parts' = c.parts /\ counts' = c.counts
  /\ UNCHANGED <<cutargs, carry, fed>>

(* A decompression error leaves the open chunk without its end.            *)
CutFails ==
  /\ cut = "running" /\ fed = StreamBytes /\ champsim.tail = "corrupt"
  /\ cut' = "failed"
  /\ UNCHANGED <<cutargs, carry, fed, writer, parts, counts>>

CutNext ==
  /\ StartCut \/ Consume \/ FinishCut \/ CutFails
  /\ UNCHANGED files

---------------------------------------------------------------------------
(* However the stream is cut into pieces, the finished chunks are the      *)
(* trace: every whole record once, in its place, -n of them in each chunk  *)
(* but the last, and no chunk is empty; a dry run reports the same counts. *)
CutExact ==
  LET n == cutargs.chunk_records
      whole == fed \div RECORD_SIZE
      full == IF n = 0 THEN 0 ELSE whole \div n
      last == IF n = 0 THEN 0 ELSE whole % n
  IN /\ Len(carry) = fed % RECORD_SIZE
     /\ counts = [c \in 1 .. full |-> n]
                   \o (IF cut = "done" /\ last > 0 THEN <<last>> ELSE << >>)
     /\ parts = IF cutargs.dry_run THEN << >>
                ELSE [c \in 1 .. Len(counts) |->
                        [k \in 1 .. RECORD_SIZE * counts[c] |-> RECORD_SIZE * n * (c - 1) + k]]
===========================================================================
