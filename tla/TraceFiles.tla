---------------------------- MODULE TraceFiles ----------------------------
(***************************************************************************)
(* The files that the tools behind a capture hand to each other: the raw   *)
(* trace of one vCPU, and the ChampSim v2 trace made from it.              *)
(*                                                                         *)
(* A raw record is a member of Insns; the tools look at its fields hlt     *)
(* (one byte, 0xF4), user (privilege bit clear), ip, size, code (what the  *)
(* disassembler makes of the bytes) and mem (the memory operands).         *)
(***************************************************************************)
EXTENDS Integers, Sequences

CONSTANTS
  Insns  \* what a raw record can say

ASSUME InsnsAssumption ==
  \A r \in Insns : r.hlt \in BOOLEAN /\ r.user \in BOOLEAN

RawFormat == {"x86_64", "aarch64", "unknown"}

(* What follows the last whole record: "end" when the zstd frame was       *)
(* finished, "cut" when the stream just stops between two records,         *)
(* "header", "bytes", "memop" when it stops inside the four header bytes,  *)
(* the address and instruction bytes, or a memory operand; "garbled" when  *)
(* a record with an impossible size follows, "value" when one whose operand*)
(* has a value in a file without values.  (The readers take a              *)
(* decompression error for the end of the stream, so it is one of these.)  *)
RawTail == {"end", "cut", "header", "bytes", "memop", "garbled", "value"}

RawFile == [ format : RawFormat, recs : Seq(Insns), tail : RawTail ]

(* Records of fixed size: the frame is finished, or the stream stops after *)
(* a record or in one, or the decompressor gives up.                       *)
ChampSimTail == {"end", "cut", "partial", "corrupt"}

NoTrace == [ recs |-> << >>, tail |-> "cut" ]

VARIABLES
  raw,      \* the raw trace of the capture
  input,    \* the raw trace the converter is given: that one, or the filtered
  champsim  \* the ChampSim trace: [recs, tail]

files == <<raw, input, champsim>>
===========================================================================
