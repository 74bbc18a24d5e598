------------------------------- MODULE LitmusAsm -------------------------------
(***************************************************************************)
(* The notation the tests of litmus/litmus_tests are written in here: the  *)
(* macros of a litmus_test_t (inc/litmus/litmus_macros.h,                  *)
(* inc/litmus/litmus_test_def.h) and the instructions of its assembly      *)
(* (A64, as used by the tests).                                            *)
(*                                                                         *)
(* Barriers, TLB and cache maintenance, hints, interrupt masks and writes  *)
(* of VBAR, SCTLR, MAIR and ESR are left out of the code: they order or    *)
(* change nothing that the sequentially consistent machine of Litmus.tla   *)
(* has not ordered or fixed already.                                       *)
(***************************************************************************)
EXTENDS Integers, Sequences

(* Operands: registers, constants and what the C code binds to %[...].     *)
(* Ci is the register the compiler picks for the i-th output of an asm     *)
(* statement; reading Sys gives the value of a system register that no     *)
(* output of a test depends on.                                            *)
Reg(n) == <<"x", n>>
X0  == Reg(0)
X1  == Reg(1)
X2  == Reg(2)
X3  == Reg(3)
X4  == Reg(4)
X5  == Reg(5)
X6  == Reg(6)
X7  == Reg(7)
X8  == Reg(8)
X9  == Reg(9)
X10 == Reg(10)
X11 == Reg(11)
X12 == Reg(12)
C0  == Reg(40)
C1  == Reg(41)
Imm(n)     == <<"imm", n>>
Va(v)      == <<"va", v>>
Pte(v)     == <<"pte", v>>
Pmd(v)     == <<"pmd", v>>
Desc(v)    == <<"desc", v>>
PmdDesc(v) == <<"pmddesc", v>>
Page(v)    == <<"page", v>>
Out(i)     == <<"out", i>>
Elr        == <<"sys", "elr_el1">>
Esr        == <<"sys", "esr_el1">>
Sys        == <<"sys", "other">>

(* Instructions: op d, a, b.                                               *)
Ins(op, d, a, b) == [op |-> op, d |-> d, a |-> a, b |-> b]
Zero == Imm(0)
Set(d, n)     == Ins("mov", d, Imm(n), Zero)
Mov(d, a)     == Ins("mov", d, a, Zero)
Add(d, a, b)  == Ins("add", d, a, b)
Sub(d, a, b)  == Ins("sub", d, a, b)
Eor(d, a, b)  == Ins("eor", d, a, b)
Band(d, a, b) == Ins("and", d, a, b)
Lsl(d, a, n)  == Ins("lsl", d, a, Imm(n))
Lsr(d, a, n)  == Ins("lsr", d, a, Imm(n))
Bfc(d, n, w)  == Ins("bfc", d, Imm(n), Imm(w))   \* bfm d, xzr: clears w bits from bit n
Ldr(d, a)     == Ins("ldr", d, a, Zero)
Ldrx(d, a, b) == Ins("ldr", d, a, b)
Str(s, a)     == Ins("str", s, a, Zero)
Strx(s, a, b) == Ins("str", s, a, b)
Cas(d, s, a)  == Ins("cas", d, s, a)
Cmp(a, n)     == Ins("cmp", Zero, a, Imm(n))
Cbz(a, to)    == Ins("cbz", Zero, a, Imm(to))
Cbnz(a, to)   == Ins("cbnz", Zero, a, Imm(to))
Beq(to)       == Ins("b.eq", Zero, Zero, Imm(to))
Bne(to)       == Ins("b.ne", Zero, Zero, Imm(to))
B(to)         == Ins("b", Zero, Zero, Imm(to))
Svc(n)        == Ins("svc", Zero, Imm(n), Zero)
Eret          == Ins("eret", Zero, Zero, Zero)
MsrElr(a)     == Ins("msr elr_el1", Zero, a, Zero)

(* Mutation of EretToNext: always the same scratch register. *)
EretToNextByX9(r) == <<Mov(X9, Elr), Add(X9, X9, Imm(4)), MsrElr(X9), Eret>>

(* ERET_TO_NEXT: return to the instruction after the one that faulted.     *)
EretToNext(r) == <<Mov(r, Elr), Add(r, r, Imm(4)), MsrElr(r), Eret>>

(* C code after the asm statement: output i becomes whether it is o.      *)
OutIs(code, i, o) ==
  LET n == Len(code)
  IN  code \o <<Ldr(C0, Out(i)), Ins("cmp", Zero, C0, o), Set(C1, 1), Beq(n + 6), Set(C1, 0), Str(C1, Out(i))>>

(* The initial state of the variables.                                     *)
InitVar(v, val)          == [type |-> "TYPE_HEAP", var |-> v, value |-> val]
InitUnmapped(v)          == [type |-> "TYPE_UNMAPPED", var |-> v]
InitAlias(v, of)         == [type |-> "TYPE_ALIAS", var |-> v, other |-> of]
InitIdentityMap(v)       == [type |-> "TYPE_IDENTITY_MAP", var |-> v]
InitAttrIdx(v, n)        == [type |-> "TYPE_ATTRS", var |-> v, value |-> n]
InitMair(n)              == [type |-> "TYPE_MAIR", value |-> n]
InitOwn(v, lvl)          == [type |-> "TYPE_REGION_OWN", var |-> v, level |-> lvl]
InitPin(v, of, lvl)      == [type |-> "TYPE_REGION_PIN", var |-> v, other |-> of, level |-> lvl]
InitOffset(v, of, lvl)   == [type |-> "TYPE_REGION_OFFSET", var |-> v, other |-> of, level |-> lvl]

(* One thread: its code, the registers its asm statement says it clobbers, *)
(* the exception level it starts at, the handlers it installs for          *)
(* exceptions from EL0 and from EL1 (empty: none).                         *)
ThreadH(code, clobbers, el, h0, h1) ==
  [code |-> code, clobbers |-> clobbers, el |-> el, handlers |-> <<h0, h1>>]
Thread(code, clobbers) == ThreadH(code, clobbers, 0, <<>>, <<>>)

(* A litmus_test_t: interesting is its set of interesting results, sc its  *)
(* no_sc_results (0: not given).                                           *)
Test(name, vars, regs, init, threads, interesting, sc) ==
  [name |-> name, vars |-> vars, regs |-> regs, init |-> init, threads |-> threads,
   interesting |-> interesting, no_sc_results |-> sc, teardown |-> FALSE]
===============================================================================
