-------------------------- MODULE MCTracePipeline --------------------------
(* A guest for the pipeline: a user-mode loop and a kernel with an idle    *)
(* loop on x86-64, a few instructions of each kind on AArch64.             *)
EXTENDS TracePipeline

gpr(n) == <<"gpr", n>>
rip == RegOp(<<"ip", 0>>, "rw")
ripW == RegOp(<<"ip", 0>>, "w")
rsp == RegOp(gpr(4), "rw")
flags == RegOp(<<"flags", 0>>, "r")
flagsW == RegOp(<<"flags", 0>>, "w")

x86(m, ops) == [ mnem |-> m, ext |-> "int", ops |-> ops ]
load(a, how) == [ is_write |-> FALSE, addr |-> a, pa |-> how ]
store(a) == [ is_write |-> TRUE, addr |-> a, pa |-> "ram" ]

insn(b, nx, c) == [ user |-> TRUE, hlt |-> FALSE, size |-> 1, branch |-> b,
                    next |-> nx, code |-> c, mem |-> << >> ]
kernel(i) == [i EXCEPT !.user = FALSE]
mem(i, ops) == [i EXCEPT !.mem = ops]

X86 ==
  <<\* 1 jz; 2 a gather; 3 call *(%rax,%rcx); 4 jmp *%rbx; 5 syscall
    insn(3, {2, 4}, x86("jcc", <<ImmOp, rip, flags>>)),
    mem(insn(0, {3}, [x86("vgather", <<RegOp(<<"vec", 1>>, "rw"), MemOp(gpr(3), <<"vec", 2>>),
                       RegOp(<<"vec", 3>>, "rw")>>) EXCEPT !.ext = "simd"]),
        <<load(1, "ram"), load(2, "io"), load(3, "none"), load(4, "ram"), load(5, "ram"),
          store(1), store(2), store(3)>>),
    mem(insn(5, {6}, x86("call", <<MemOp(gpr(0), gpr(1)), ripW, rsp, MemOp(gpr(4), none)>>)),
        <<load(1, "ram"), store(6)>>),
    insn(2, {3, 5}, x86("jmp", <<RegOp(gpr(3), "r"), ripW>>)),
    insn(0, {8}, x86("syscall", << >>)),
    \* 6 cmp; 7 ret
    mem(insn(0, {7}, x86("cmp", <<MemOp(gpr(5), none), RegOp(gpr(8), "r"), flagsW>>)),
        <<load(3, "ram")>>),
    mem(insn(6, {4}, x86("ret", <<ripW, rsp, MemOp(gpr(4), none)>>)), <<load(6, "ram")>>),
    \* kernel: 8 jmp .+0; 9 hlt; 10 iretq, to the idle loop or to user mode
    kernel(insn(1, {9}, x86("jmp", <<ImmOp, rip>>))),
    [kernel(insn(0, {10}, x86("hlt", << >>))) EXCEPT !.hlt = TRUE],
    kernel(insn(0, {1, 9}, x86("iretq", << >>))),
    \* 11 jrcxz
    insn(3, {1, 4}, x86("jrcxz", <<ImmOp, RegOp(gpr(1), "r"), rip>>)),
    \* 12 the interrupt handler, which the disassembler does not know
    kernel(insn(0, {}, x86("bad", << >>))),
    \* 13 call; 14 loope; 15 xbegin
    mem(insn(4, {1}, x86("call", <<ImmOp, rip, rsp, MemOp(gpr(4), none)>>)), <<store(6)>>),
    insn(3, {14, 15}, x86("loope", <<ImmOp, RegOp(gpr(1), "rw"), rip, flags>>)),
    insn(7, {4}, x86("xbegin", <<ImmOp, rip>>))>>

a64(m, ops) == [ mnem |-> m, cond |-> FALSE, writeback |-> FALSE, ops |-> ops,
                 reads |-> << >>, writes |-> << >> ]
x(n) == <<"x", n>>

A64 ==
  <<\* 1 b.eq; 2 ldp x0, x1, [x2], #16; 3 blr x3; 4 ret; 5 cbz x4
    insn(3, {2, 5}, [a64("b", <<ImmOp>>) EXCEPT !.cond = TRUE, !.reads = <<<<"nzcv", 0>>>>]),
    mem(insn(0, {3}, [a64("ldp", <<RegOp(x(0), "w"), RegOp(x(1), "w"), MemOp(x(2), none)>>)
                      EXCEPT !.writeback = TRUE]),
        <<load(1, "ram"), load(2, "ram")>>),
    insn(5, {4}, [a64("blr", <<RegOp(x(3), "r")>>) EXCEPT !.writes = <<<<"x", 30>>>>]),
    insn(6, {1, 5}, a64("ret", << >>)),
    insn(3, {1, 6}, a64("cbz", <<RegOp(x(4), "r")>>)),
    insn(0, {7}, a64("fadd", <<RegOp(<<"v", 1>>, "w"), RegOp(<<"v", 2>>, "r")>>)),
    insn(7, {8}, a64("svc", <<ImmOp>>)),
    kernel(insn(4, {10}, a64("bl", <<ImmOp>>))),
    kernel(insn(2, {1}, a64("br", <<RegOp(x(5), "r")>>))),
    kernel(insn(1, {9}, a64("b", <<ImmOp>>))),
    kernel(insn(0, {1}, a64("subs", <<RegOp(x(6), "w"), RegOp(<<"nzcv", 0>>, "w")>>))),
    kernel(insn(0, {}, a64("bad", << >>)))>>

Guest == [f \in RawFormat |-> IF f = "aarch64" THEN A64 ELSE X86]

Handles == 12
Idle == {9, 10, 12}

(* What the program's instructions look like in a raw trace.               *)
GuestInsns == UNION {Retired(f) : f \in RawFormat}

Counts == {0, 2}
ChunkSizes == {0, 2}
PieceLengths == {1, 5}
===========================================================================
