---------------------------- MODULE LitmusTrans ----------------------------
(* Tests of litmus/litmus_tests/pgtable: translations of pages that a test remaps. *)
EXTENDS LitmusAsm

CoRT_dsbisb ==
  Test("CoRT+dsb-isb", <<"x", "y">>, <<"p1:x0", "p1:x2">>,
    <<InitVar("x", 0), InitVar("y", 1)>>,
    <<Thread(<<Mov(X0, Desc("y")), Mov(X1, Pte("x")), Str(X0, X1)>>, {0, 1}),
      Thread(OutIs(<<Mov(X1, Pte("x")), Mov(X3, Va("x")), Ldr(X0, X1), Ldr(X2, X3), Str(X0, Out(1)),
        Str(X2, Out(2))>>, 1, Desc("y")), {0, 1, 2, 3, 4})>>,
    {<<1, 0>>}, 3)

CoRT ==
  Test("CoRT", <<"x", "y">>, <<"p1:x0", "p1:x2">>,
    <<InitVar("x", 0), InitVar("y", 1)>>,
    <<Thread(<<Mov(X0, Desc("y")), Mov(X1, Pte("x")), Str(X0, X1)>>, {0, 1}),
      Thread(OutIs(<<Mov(X1, Pte("x")), Mov(X3, Va("x")), Ldr(X0, X1), Ldr(X2, X3), Str(X0, Out(1)),
        Str(X2, Out(2))>>, 1, Desc("y")), {0, 1, 2, 3, 4})>>,
    {<<1, 0>>}, 3)

CoTR_addr ==
  Test("CoTR+addr", <<"x", "y">>, <<"p1:x0", "p1:x2">>,
    <<InitVar("x", 0), InitVar("y", 1)>>,
    <<Thread(<<Mov(X0, Desc("y")), Mov(X1, Pte("x")), Str(X0, X1)>>, {0, 1}),
      Thread(<<Mov(X1, Va("x")), Mov(X3, Pte("x")), Ldr(X0, X1), Eor(X4, X0, X0), Add(X4, X4, X3),
        Ldr(X2, X4), Str(X0, Out(1)), Eor(X2, X2, Desc("y")), Cbz(X2, 11), Set(X2, 1), Eor(X2, X2, Imm(1)),
        Str(X2, Out(2))>>, {0, 1, 2, 3, 4})>>,
    {<<1, 0>>}, 3)

CoTR_dmb ==
  Test("CoTR+dmb", <<"x", "y">>, <<"p1:x0", "p1:x2">>,
    <<InitVar("x", 0), InitVar("y", 1)>>,
    <<Thread(<<Mov(X0, Desc("y")), Mov(X1, Pte("x")), Str(X0, X1)>>, {0, 1}),
      Thread(<<Mov(X1, Va("x")), Mov(X3, Pte("x")), Mov(X4, Desc("y")), Ldr(X0, X1), Ldr(X2, X3),
        Eor(X2, X2, X4), Cbz(X2, 9), Set(X2, 1), Eor(X2, X2, Imm(1)), Str(X0, Out(1)), Str(X2, Out(2))>>,
        {0, 1, 2, 3, 4})>>,
    {<<1, 0>>}, 3)

CoTR_dsbisb ==
  Test("CoTR+dsb-isb", <<"x", "y">>, <<"p1:x0", "p1:x2">>,
    <<InitVar("x", 0), InitVar("y", 1)>>,
    <<Thread(<<Mov(X0, Desc("y")), Mov(X1, Pte("x")), Str(X0, X1)>>, {0, 1}),
      Thread(<<Mov(X1, Va("x")), Mov(X3, Pte("x")), Ldr(X0, X1), Ldr(X2, X3), Str(X0, Out(1)),
        Eor(X2, X2, Desc("y")), Cbz(X2, 9), Set(X2, 1), Eor(X2, X2, Imm(1)), Str(X2, Out(2))>>, {0, 1, 2,
        3})>>,
    {<<1, 0>>}, 3)

CoTR_dsb ==
  Test("CoTR+dsb", <<"x", "y">>, <<"p1:x0", "p1:x2">>,
    <<InitVar("x", 0), InitVar("y", 1)>>,
    <<Thread(<<Mov(X0, Desc("y")), Mov(X1, Pte("x")), Str(X0, X1)>>, {0, 1}),
      Thread(<<Mov(X1, Va("x")), Mov(X3, Pte("x")), Ldr(X0, X1), Ldr(X2, X3), Str(X0, Out(1)),
        Eor(X2, X2, Desc("y")), Cbz(X2, 9), Set(X2, 1), Eor(X2, X2, Imm(1)), Str(X2, Out(2))>>, {0, 1, 2,
        3})>>,
    {<<1, 0>>}, 3)

CoTR ==
  Test("CoTR", <<"x", "y">>, <<"p1:x0", "p1:x2">>,
    <<InitVar("x", 0), InitVar("y", 1)>>,
    <<Thread(<<Mov(X0, Desc("y")), Mov(X1, Pte("x")), Str(X0, X1)>>, {0, 1}),
      Thread(<<Mov(X1, Va("x")), Mov(X3, Pte("x")), Ldr(X0, X1), Ldr(X2, X3), Str(X0, Out(1)),
        Eor(X2, X2, Desc("y")), Cbz(X2, 9), Set(X2, 1), Eor(X2, X2, Imm(1)), Str(X2, Out(2))>>, {0, 1, 2,
        3})>>,
    {<<1, 0>>}, 3)

CoTRinv_dsbisb ==
  Test("CoTR.inv+dsb-isb", <<"x", "y">>, <<"p1:x0", "p1:x2">>,
    <<InitUnmapped("x"), InitVar("y", 1)>>,
    <<Thread(<<Mov(X0, Desc("y")), Mov(X1, Pte("x")), Str(X0, X1)>>, {0, 1}),
      ThreadH(<<Mov(X1, Va("x")), Mov(X3, Pte("x")), Ldr(X0, X1), Ldr(X2, X3), Str(X0, Out(1)), Cbz(X2, 8),
        Set(X2, 1), Str(X2, Out(2))>>, {0, 1, 2, 3, 10}, 0, <<Set(X0, 0)>> \o EretToNext(X10), <<>>)>>,
    {<<1, 0>>}, 3)

CoTRinv ==
  Test("CoTR.inv", <<"x", "y">>, <<"p1:x0", "p1:x2">>,
    <<InitUnmapped("x"), InitVar("y", 1)>>,
    <<Thread(<<Mov(X0, Desc("y")), Mov(X1, Pte("x")), Str(X0, X1)>>, {0, 1}),
      ThreadH(<<Mov(X1, Va("x")), Mov(X3, Pte("x")), Ldr(X0, X1), Ldr(X2, X3), Str(X0, Out(1)), Cbz(X2, 8),
        Set(X2, 1), Str(X2, Out(2))>>, {0, 1, 2, 3, 10}, 0, <<Set(X0, 0)>> \o EretToNext(X10), <<>>)>>,
    {<<1, 0>>}, 3)

CoTR1_dsbdcdsbtlbidsbisb ==
  Test("CoTR1+dsb-dc-dsb-tlbi-dsb-isb", <<"x", "y">>, <<"p1:x0", "p1:x2">>,
    <<InitVar("x", 0), InitVar("y", 1)>>,
    <<Thread(<<Mov(X0, Desc("y")), Mov(X1, Pte("x")), Str(X0, X1)>>, {0, 1}),
      ThreadH(<<Mov(X1, Va("x")), Mov(X3, Pte("x")), Mov(X4, Page("x")), Ldr(X0, X1), Ldr(X2, X3),
        Str(X0, Out(1)), Eor(X2, X2, Desc("y")), Cbz(X2, 10), Set(X2, 1), Eor(X2, X2, Imm(1)),
        Str(X2, Out(2))>>, {0, 1, 2, 3, 4}, 1, <<>>, <<>>)>>,
    {<<1, 0>>}, 3)

CoTR1_dsbtlbidsbisb ==
  Test("CoTR1+dsb-tlbi-dsb-isb", <<"x", "y">>, <<"p1:x0", "p1:x2">>,
    <<InitVar("x", 0), InitVar("y", 1)>>,
    <<Thread(<<Mov(X0, Desc("y")), Mov(X1, Pte("x")), Str(X0, X1)>>, {0, 1}),
      ThreadH(<<Mov(X1, Va("x")), Mov(X3, Pte("x")), Mov(X4, Page("x")), Ldr(X0, X1), Ldr(X2, X3),
        Str(X0, Out(1)), Eor(X2, X2, Desc("y")), Cbz(X2, 10), Set(X2, 1), Eor(X2, X2, Imm(1)),
        Str(X2, Out(2))>>, {0, 1, 2, 3, 4}, 1, <<>>, <<>>)>>,
    {<<1, 0>>}, 3)

CoTR1tlbi_dsbdsbisb ==
  Test("CoTR1.tlbi+dsb-isb", <<"x", "y">>, <<"p1:x0", "p1:x2">>,
    <<InitVar("x", 0), InitVar("y", 1)>>,
    <<Thread(<<Mov(X0, Desc("y")), Mov(X1, Pte("x")), Str(X0, X1)>>, {0, 1}),
      ThreadH(<<Mov(X1, Va("x")), Mov(X3, Pte("x")), Mov(X4, Desc("y")), Ldr(X0, X1), Ldr(X2, X3),
        Eor(X2, X2, X4), Cbz(X2, 9), Set(X2, 1), Eor(X2, X2, Imm(1)), Str(X0, Out(1)), Str(X2, Out(2))>>,
        {0, 1, 2, 3, 4}, 1, <<>>, <<>>)>>,
    {<<1, 0>>}, 3)

CoTT ==
  Test("CoTT", <<"x", "y">>, <<"p1:x0", "p1:x2">>,
    <<InitVar("x", 0), InitVar("y", 1)>>,
    <<Thread(<<Mov(X0, Desc("y")), Mov(X1, Pte("x")), Str(X0, X1)>>, {0, 1}),
      Thread(<<Mov(X1, Va("x")), Mov(X3, Va("x")), Ldr(X0, X1), Ldr(X2, X3), Str(X0, Out(1)),
        Str(X2, Out(2))>>, {0, 1, 2, 3})>>,
    {<<1, 0>>}, 3)

CoTW ==
  Test("CoTW", <<"x", "y">>, <<"p0:x2">>,
    <<InitVar("x", 0), InitVar("y", 1)>>,
    <<Thread(<<Mov(X0, Desc("y")), Mov(X1, Pte("x")), Mov(X3, Va("x")), Ldr(X2, X3), Str(X0, X1),
        Str(X2, Out(1))>>, {0, 1, 2, 3})>>,
    {<<1>>}, 1)

CoWT_dsbisb ==
  Test("CoWT+dsb-isb", <<"x", "y">>, <<"p0:x2">>,
    <<InitVar("x", 1), InitVar("y", 2)>>,
    <<Thread(<<Mov(X0, Desc("y")), Mov(X1, Pte("x")), Mov(X3, Va("x")), Str(X0, X1), Ldr(X2, X3),
        Str(X2, Out(1))>>, {0, 1, 2, 3})>>,
    {<<1>>}, 1)

CoWT_dsbsvctlbidsb ==
  Test("CoWT+dsb-svc-tlbi-dsb", <<"x", "y">>, <<"p0:x2">>,
    <<InitVar("x", 1), InitVar("y", 2)>>,
    <<ThreadH(<<Mov(X0, Desc("y")), Mov(X1, Pte("x")), Mov(X3, Va("x")), Mov(X4, X3), Lsr(X4, X4, 12),
        Str(X0, X1), Svc(0), Str(X2, Out(1))>>, {0, 1, 2, 3, 4}, 0, <<Ldr(X2, X3), Eret>>, <<>>)>>,
    {<<1>>}, 1)

CoWT_dsb ==
  Test("CoWT+dsb", <<"x", "y">>, <<"p0:x2">>,
    <<InitVar("x", 1), InitVar("y", 2)>>,
    <<Thread(<<Mov(X0, Desc("y")), Mov(X1, Pte("x")), Mov(X3, Va("x")), Str(X0, X1), Ldr(X2, X3),
        Str(X2, Out(1))>>, {0, 1, 2, 3})>>,
    {<<1>>}, 1)

CoWT ==
  Test("CoWT", <<"x", "y">>, <<"p0:x2">>,
    <<InitVar("x", 1), InitVar("y", 2)>>,
    <<Thread(<<Mov(X0, Desc("y")), Mov(X1, Pte("x")), Mov(X3, Va("x")), Str(X0, X1), Ldr(X2, X3),
        Str(X2, Out(1))>>, {0, 1, 2, 3})>>,
    {<<1>>}, 1)

CoWTinv_dmb ==
  Test("CoWT.inv+dmb", <<"x", "y">>, <<"p0:x2">>,
    <<InitUnmapped("x"), InitVar("y", 1)>>,
    <<ThreadH(<<Mov(X0, Desc("y")), Mov(X1, Pte("x")), Mov(X3, Va("x")), Str(X0, X1), Ldr(X2, X3),
        Str(X2, Out(1))>>, {0, 1, 2, 3, 10}, 0, <<Set(X2, 0)>> \o EretToNext(X10), <<>>)>>,
    {<<0>>}, 1)

CoWTinv_dsbisb ==
  Test("CoWT.inv+dsb-isb", <<"x", "y">>, <<"p0:x2">>,
    <<InitUnmapped("x"), InitVar("y", 1)>>,
    <<ThreadH(<<Mov(X0, Desc("y")), Mov(X1, Pte("x")), Mov(X3, Va("x")), Str(X0, X1), Ldr(X2, X3),
        Str(X2, Out(1))>>, {0, 1, 2, 3, 10}, 0, <<Set(X2, 0)>> \o EretToNext(X10), <<>>)>>,
    {<<0>>}, 1)

CoWTinv_dsb ==
  Test("CoWT.inv+dsb", <<"x", "y">>, <<"p0:x2">>,
    <<InitUnmapped("x"), InitVar("y", 1)>>,
    <<ThreadH(<<Mov(X0, Desc("y")), Mov(X1, Pte("x")), Mov(X3, Va("x")), Str(X0, X1), Ldr(X2, X3),
        Str(X2, Out(1))>>, {0, 1, 2, 3, 10}, 0, <<Set(X2, 0)>> \o EretToNext(X10), <<>>)>>,
    {<<0>>}, 1)

CoWTinv ==
  Test("CoWT.inv", <<"x", "y">>, <<"p0:x2">>,
    <<InitUnmapped("x"), InitVar("y", 1)>>,
    <<ThreadH(<<Mov(X0, Desc("y")), Mov(X1, Pte("x")), Mov(X3, Va("x")), Str(X0, X1), Ldr(X2, X3),
        Str(X2, Out(1))>>, {0, 1, 2, 3, 10}, 0, <<Set(X2, 0)>> \o EretToNext(X10), <<>>)>>,
    {<<0>>}, 1)

CoWT1_dsbtlbidsbisb ==
  Test("CoWT1+dsb-tlbi-dsb-isb", <<"x", "y">>, <<"p0:x3">>,
    <<InitVar("x", 0), InitVar("y", 1)>>,
    <<ThreadH(<<Mov(X0, Desc("y")), Mov(X1, Pte("x")), Mov(X2, Page("x")), Mov(X4, Va("x")), Str(X0, X1),
        Ldr(X3, X4), Str(X3, Out(1))>>, {0, 1, 2, 3, 4}, 1, <<>>, <<>>)>>,
    {<<0>>}, 1)

CoWT1_dsbtlbidsb ==
  Test("CoWT1+dsb-tlbi-dsb", <<"x", "y">>, <<"p0:x3">>,
    <<InitVar("x", 0), InitVar("y", 1)>>,
    <<ThreadH(<<Mov(X0, Desc("y")), Mov(X1, Pte("x")), Mov(X2, Page("x")), Mov(X4, Va("x")), Str(X0, X1),
        Ldr(X3, X4), Str(X3, Out(1))>>, {0, 1, 2, 3, 4}, 1, <<>>, <<>>)>>,
    {<<0>>}, 1)

CoWinvT_dsbisb ==
  Test("CoWinvT+dsb-isb", <<"x">>, <<"p0:x2">>,
    <<InitVar("x", 0)>>,
    <<ThreadH(<<Set(X0, 0), Mov(X1, Pte("x")), Mov(X3, Va("x")), Str(X0, X1), Ldr(X2, X3), Str(X2, Out(1))>>,
        {0, 1, 2, 3, 10}, 0, <<Set(X2, 1)>> \o EretToNext(X10), <<>>)>>,
    {<<0>>}, 1)

CoWinvT ==
  Test("CoWinvT", <<"x">>, <<"p0:x2">>,
    <<InitVar("x", 0)>>,
    <<ThreadH(<<Set(X0, 0), Mov(X1, Pte("x")), Mov(X3, Va("x")), Str(X0, X1), Ldr(X2, X3), Str(X2, Out(1))>>,
        {0, 1, 2, 3, 10}, 0, <<Set(X2, 1)>> \o EretToNext(X10), <<>>)>>,
    {<<0>>}, 1)

CoWinvT1_dsbtlbidsb ==
  Test("CoWinvT1+dsb-tlbi-dsb", <<"x">>, <<"p0:x2">>,
    <<InitVar("x", 0)>>,
    <<ThreadH(<<Set(X0, 0), Mov(X1, Pte("x")), Mov(X3, Va("x")), Mov(X4, Page("x")), Str(X0, X1), Ldr(X2, X3),
        Str(X2, Out(1))>>, {0, 1, 2, 3, 4, 10}, 1, <<>>, <<Set(X2, 1)>> \o EretToNext(X10))>>,
    {<<0>>}, 1)

CoWinvT1_tlbidsbisb ==
  Test("CoWinvT1+tlbi-dsb-isb", <<"x">>, <<"p0:x2">>,
    <<InitVar("x", 0)>>,
    <<ThreadH(<<Set(X0, 0), Mov(X1, Pte("x")), Mov(X3, Va("x")), Mov(X4, Page("x")), Str(X0, X1), Ldr(X2, X3),
        Str(X2, Out(1))>>, {0, 1, 2, 3, 4, 10}, 1, <<>>, <<Set(X2, 1)>> \o EretToNext(X10))>>,
    {<<0>>}, 1)

CoWinvT1_tlbidsb ==
  Test("CoWinvT1+tlbi-dsb", <<"x">>, <<"p0:x2">>,
    <<InitVar("x", 0)>>,
    <<ThreadH(<<Set(X0, 0), Mov(X1, Pte("x")), Mov(X3, Va("x")), Mov(X4, Page("x")), Str(X0, X1), Ldr(X2, X3),
        Str(X2, Out(1))>>, {0, 1, 2, 3, 4, 10}, 1, <<>>, <<Set(X2, 1)>> \o EretToNext(X10))>>,
    {<<0>>}, 1)

CoWinvWT1_dsbtlbidsbdsbisb ==
  Test("CoWinvWT1+dsb-tlbi-dsb-dsb-isb", <<"x", "y">>, <<"p0:x5">>,
    <<InitVar("x", 0), InitVar("y", 1)>>,
    <<ThreadH(<<Set(X0, 0), Mov(X1, Pte("x")), Mov(X2, Page("x")), Mov(X3, Desc("y")), Mov(X4, Pte("x")),
        Mov(X6, Va("x")), Str(X0, X1), Str(X3, X4), Ldr(X5, X6), Str(X5, Out(1))>>, {0, 1, 2, 3, 4, 5, 6, 10},
        1, <<>>, <<Set(X5, 2)>> \o EretToNext(X10))>>,
    {<<0>>, <<2>>}, 1)

ISA2trr_dmb_po_dmb ==
  Test("ISA2.TRR+dmb+po+dmb", <<"x", "y", "z", "yprime">>, <<"p1:x0", "p2:x0", "p2:x2">>,
    <<InitVar("x", 0), InitVar("y", 0), InitVar("yprime", 1), InitVar("z", 0)>>,
    <<Thread(<<Set(X0, 1), Mov(X1, Va("x")), Mov(X2, Desc("yprime")), Mov(X3, Pte("y")), Str(X0, X1),
        Str(X2, X3)>>, {0, 1, 2, 3}),
      Thread(<<Mov(X1, Va("y")), Set(X2, 1), Mov(X3, Va("z")), Ldr(X0, X1), Str(X2, X3), Str(X0, Out(1))>>,
        {0, 1, 2, 3}),
      Thread(<<Mov(X1, Va("z")), Mov(X3, Va("x")), Ldr(X0, X1), Ldr(X2, X3), Str(X0, Out(2)),
        Str(X2, Out(3))>>, {0, 1, 2, 3})>>,
    {<<1, 1, 0>>}, 7)

MPRT_dmbs ==
  Test("MP.RT+dmbs", <<"x", "y", "z">>, <<"p1:x0", "p1:x2">>,
    <<InitVar("x", 0), InitVar("y", 0), InitVar("z", 1)>>,
    <<Thread(<<Mov(X0, Desc("z")), Mov(X1, Pte("x")), Set(X3, 1), Mov(X4, Va("y")), Str(X0, X1),
        Str(X3, X4)>>, {0, 1, 2, 3, 4}),
      Thread(<<Mov(X1, Va("y")), Mov(X3, Va("x")), Ldr(X0, X1), Ldr(X2, X3), Str(X0, Out(1)),
        Str(X2, Out(2))>>, {0, 1, 2, 3, 4})>>,
    {<<1, 0>>}, 3)

MPRT_svcdsbtlbidsb_dsbisb ==
  Test("MP.RT+svc-dsb-tlbi-dsb+dsb-isb", <<"x", "y", "z">>, <<"p1:x0", "p1:x2">>,
    <<InitVar("x", 0), InitVar("y", 0), InitVar("z", 1)>>,
    <<ThreadH(<<Mov(X0, Desc("z")), Mov(X1, Pte("x")), Mov(X2, Page("x")), Set(X3, 1), Mov(X4, Va("y")),
        Svc(0)>>, {0, 1, 2, 3, 4}, 0, <<Str(X0, X1), Str(X3, X4), Eret>>, <<>>),
      Thread(<<Mov(X1, Va("y")), Mov(X3, Va("x")), Ldr(X0, X1), Ldr(X2, X3), Str(X0, Out(1)),
        Str(X2, Out(2))>>, {0, 1, 2, 3, 4})>>,
    {<<1, 0>>}, 3)

MPRT_svcdsbtlbiisdsb_dsbisb ==
  Test("MP.RT+svc-dsb-tlbiis-dsb+dsb-isb", <<"x", "y", "z">>, <<"p1:x0", "p1:x2">>,
    <<InitVar("x", 0), InitVar("y", 0), InitVar("z", 1)>>,
    <<ThreadH(<<Mov(X0, Desc("z")), Mov(X1, Pte("x")), Mov(X2, Page("x")), Set(X3, 1), Mov(X4, Va("y")),
        Svc(0)>>, {0, 1, 2, 3, 4}, 0, <<Str(X0, X1), Str(X3, X4), Eret>>, <<>>),
      Thread(<<Mov(X1, Va("y")), Mov(X3, Va("x")), Ldr(X0, X1), Ldr(X2, X3), Str(X0, Out(1)),
        Str(X2, Out(2))>>, {0, 1, 2, 3, 4})>>,
    {<<1, 0>>}, 3)

MPRTinv_dmb_addr ==
  Test("MP.RT.inv+dmb+addr", <<"x", "y", "z">>, <<"p1:x0", "p1:x2">>,
    <<InitUnmapped("x"), InitVar("y", 0), InitVar("z", 1)>>,
    <<Thread(<<Mov(X0, Desc("z")), Mov(X1, Pte("x")), Set(X2, 1), Mov(X3, Va("y")), Str(X0, X1),
        Str(X2, X3)>>, {0, 1, 2, 3}),
      ThreadH(<<Mov(X1, Va("y")), Mov(X3, Va("x")), Ldr(X0, X1), Eor(X4, X0, X0), Add(X4, X4, X3),
        Ldr(X2, X4), Str(X0, Out(1)), Str(X2, Out(2))>>, {0, 1, 2, 3, 4, 10, 11}, 0,
        <<Set(X2, 0)>> \o EretToNext(X10), <<>>)>>,
    {<<1, 0>>}, 3)

MPRTinv_dmb_po ==
  Test("MP.RT.inv+dmb+po", <<"x", "y", "z">>, <<"p1:x0", "p1:x2">>,
    <<InitUnmapped("x"), InitVar("y", 0), InitVar("z", 1)>>,
    <<Thread(<<Mov(X0, Desc("z")), Mov(X1, Pte("x")), Set(X2, 1), Mov(X3, Va("y")), Str(X0, X1),
        Str(X2, X3)>>, {0, 1, 2, 3}),
      ThreadH(<<Mov(X1, Va("y")), Mov(X3, Va("x")), Ldr(X0, X1), Ldr(X2, X3), Str(X0, Out(1)),
        Str(X2, Out(2))>>, {0, 1, 2, 3, 4, 10, 11}, 0, <<Set(X2, 0)>> \o EretToNext(X10), <<>>)>>,
    {<<1, 0>>}, 3)

MPRT1_dsbdmblddmb_dsbisb ==
  Test("MP.RT1+[dmb.ld]-dmb+dsb-isb", <<"x", "y", "z", "p">>, <<"p0:x2", "p1:x0", "p2:x0", "p2:x2">>,
    <<InitVar("x", 0), InitVar("y", 0), InitVar("z", 1), InitVar("p", 0)>>,
    <<ThreadH(<<Mov(X0, Desc("z")), Mov(X1, Pte("x")), Mov(X3, Va("p")), Set(X5, 1), Mov(X6, Va("y")),
        Str(X0, X1), Ldr(X2, X3), Str(X5, X6), Str(X2, Out(1))>>, {0, 1, 2, 3, 4, 5, 6}, 1, <<>>, <<>>),
      Thread(OutIs(<<Mov(X1, Pte("x")), Set(X2, 1), Mov(X3, Va("p")), Ldr(X0, X1), Str(X2, X3),
        Str(X0, Out(2))>>, 2, Desc("z")), {0, 1, 2, 3, 4}),
      Thread(<<Mov(X1, Va("y")), Mov(X3, Va("x")), Ldr(X0, X1), Ldr(X2, X3), Str(X0, Out(3)),
        Str(X2, Out(4))>>, {0, 1, 2, 3, 4})>>,
    {<<1, 1, 1, 0>>}, 12)

MPRT1_dsbdmblddsbisbtlbiisdsbisb_dmb ==
  Test("MP.RT1+[dmb.ld]-dsb-isb-tlbiis-dsb-isb+dmb", <<"x", "y", "z", "p">>, <<"p0:x2", "p1:x0", "p2:x0", "p2:x2">>,
    <<InitVar("x", 0), InitVar("y", 0), InitVar("z", 1), InitVar("p", 0)>>,
    <<ThreadH(<<Mov(X0, Desc("z")), Mov(X1, Pte("x")), Mov(X3, Va("p")), Mov(X4, Page("x")), Set(X5, 1),
        Mov(X6, Va("y")), Str(X0, X1), Ldr(X2, X3), Str(X5, X6), Str(X2, Out(1))>>, {0, 1, 2, 3, 4, 5, 6}, 1,
        <<>>, <<>>),
      Thread(OutIs(<<Mov(X1, Pte("x")), Set(X2, 1), Mov(X3, Va("p")), Ldr(X0, X1), Str(X2, X3),
        Str(X0, Out(2))>>, 2, Desc("z")), {0, 1, 2, 3, 4}),
      Thread(<<Mov(X1, Va("y")), Mov(X3, Va("x")), Ldr(X0, X1), Ldr(X2, X3), Str(X0, Out(3)),
        Str(X2, Out(4))>>, {0, 1, 2, 3, 4})>>,
    {<<1, 1, 1, 0>>}, 12)

MPRT1_dsbdmblddsbisbtlbiisdsbisb_dsbisb ==
  Test("MP.RT1+[dmb.ld]-dsb-isb-tlbiis-dsb-isb+dsb-isb", <<"x", "y", "z", "p">>, <<"p0:x2", "p1:x0", "p2:x0", "p2:x2">>,
    <<InitVar("x", 0), InitVar("y", 0), InitVar("z", 1), InitVar("p", 0)>>,
    <<ThreadH(<<Mov(X0, Desc("z")), Mov(X1, Pte("x")), Mov(X3, Va("p")), Mov(X4, Page("x")), Set(X5, 1),
        Mov(X6, Va("y")), Str(X0, X1), Ldr(X2, X3), Str(X5, X6), Str(X2, Out(1))>>, {0, 1, 2, 3, 4, 5, 6}, 1,
        <<>>, <<>>),
      Thread(OutIs(<<Mov(X1, Pte("x")), Set(X2, 1), Mov(X3, Va("p")), Ldr(X0, X1), Str(X2, X3),
        Str(X0, Out(2))>>, 2, Desc("z")), {0, 1, 2, 3, 4}),
      Thread(<<Mov(X1, Va("y")), Mov(X3, Va("x")), Ldr(X0, X1), Ldr(X2, X3), Str(X0, Out(3)),
        Str(X2, Out(4))>>, {0, 1, 2, 3, 4})>>,
    {<<1, 1, 1, 0>>}, 12)

MPRT1_dsbdmblddsbtlbiisdsbisb_dmb ==
  Test("MP.RT1+[dmb.ld]-dsb-tlbiis-dsb-isb+dmb", <<"x", "y", "z", "p">>, <<"p0:x2", "p1:x0", "p2:x0", "p2:x2">>,
    <<InitVar("x", 0), InitVar("y", 0), InitVar("z", 1), InitVar("p", 0)>>,
    <<ThreadH(<<Mov(X0, Desc("z")), Mov(X1, Pte("x")), Mov(X3, Va("p")), Mov(X4, Page("x")), Set(X5, 1),
        Mov(X6, Va("y")), Str(X0, X1), Ldr(X2, X3), Str(X5, X6), Str(X2, Out(1))>>, {0, 1, 2, 3, 4, 5, 6}, 1,
        <<>>, <<>>),
      Thread(OutIs(<<Mov(X1, Pte("x")), Set(X2, 1), Mov(X3, Va("p")), Ldr(X0, X1), Str(X2, X3),
        Str(X0, Out(2))>>, 2, Desc("z")), {0, 1, 2, 3, 4}),
      Thread(<<Mov(X1, Va("y")), Mov(X3, Va("x")), Ldr(X0, X1), Ldr(X2, X3), Str(X0, Out(3)),
        Str(X2, Out(4))>>, {0, 1, 2, 3, 4})>>,
    {<<1, 1, 1, 0>>}, 12)

MPRT1_dcdsbtlbialldsb_dsbisb ==
  Test("MP.RT1+dc-dsb-tlbiall-dsb+dsb-isb", <<"x", "y", "z">>, <<"p1:x0", "p1:x2">>,
    <<InitVar("x", 0), InitVar("y", 0), InitVar("z", 1)>>,
    <<ThreadH(<<Mov(X0, Desc("z")), Mov(X1, Pte("x")), Set(X3, 1), Mov(X4, Va("y")), Str(X0, X1),
        Str(X3, X4)>>, {0, 1, 2, 3, 4}, 1, <<>>, <<>>),
      Thread(<<Mov(X1, Va("y")), Mov(X3, Va("x")), Ldr(X0, X1), Ldr(X2, X3), Str(X0, Out(1)),
        Str(X2, Out(2))>>, {0, 1, 2, 3, 4})>>,
    {<<1, 0>>}, 3)

MPRT1_dcdsbtlbialldsbisb_dsbisb ==
  Test("MP.RT1+dc-dsb-tlbiall-dsb-isb+dsb-isb", <<"x", "y", "z">>, <<"p1:x0", "p1:x2">>,
    <<InitVar("x", 0), InitVar("y", 0), InitVar("z", 1)>>,
    <<ThreadH(<<Mov(X0, Desc("z")), Mov(X1, Pte("x")), Set(X3, 1), Mov(X4, Va("y")), Str(X0, X1),
        Str(X3, X4)>>, {0, 1, 2, 3, 4}, 1, <<>>, <<>>),
      Thread(<<Mov(X1, Va("y")), Mov(X3, Va("x")), Ldr(X0, X1), Ldr(X2, X3), Str(X0, Out(1)),
        Str(X2, Out(2))>>, {0, 1, 2, 3, 4})>>,
    {<<1, 0>>}, 3)

MPRT1_dsbisbtlbiisdsbisb_dsbisb ==
  Test("MP.RT1+dsb-isb-tlbiis-dsb-isb+dsb-isb", <<"x", "y", "z">>, <<"p1:x0", "p1:x2">>,
    <<InitVar("x", 0), InitVar("y", 0), InitVar("z", 1)>>,
    <<ThreadH(<<Mov(X0, Desc("z")), Mov(X1, Pte("x")), Mov(X2, Page("x")), Set(X3, 1), Mov(X4, Va("y")),
        Str(X0, X1), Str(X3, X4)>>, {0, 1, 2, 3, 4}, 1, <<>>, <<>>),
      Thread(<<Mov(X1, Va("y")), Mov(X3, Va("x")), Ldr(X0, X1), Ldr(X2, X3), Str(X0, Out(1)),
        Str(X2, Out(2))>>, {0, 1, 2, 3, 4})>>,
    {<<1, 0>>}, 3)

MPRT1_dsbtlbidsb_dsbisb ==
  Test("MP.RT1+dsb-tlbi-dsb+dsb-isb", <<"x", "y", "z">>, <<"p1:x0", "p1:x2">>,
    <<InitVar("x", 0), InitVar("y", 0), InitVar("z", 1)>>,
    <<ThreadH(<<Mov(X0, Desc("z")), Mov(X1, Pte("x")), Mov(X2, Page("x")), Set(X3, 1), Mov(X4, Va("y")),
        Str(X0, X1), Str(X3, X4)>>, {0, 1, 2, 3, 4}, 1, <<>>, <<>>),
      Thread(<<Mov(X1, Va("y")), Mov(X3, Va("x")), Ldr(X0, X1), Ldr(X2, X3), Str(X0, Out(1)),
        Str(X2, Out(2))>>, {0, 1, 2, 3, 4})>>,
    {<<1, 0>>}, 3)

MPRT1_dsbtlbialldsb_dsbisb ==
  Test("MP.RT1+dsb-tlbiall-dsb+dsb-isb", <<"x", "y", "z">>, <<"p1:x0", "p1:x2">>,
    <<InitVar("x", 0), InitVar("y", 0), InitVar("z", 1)>>,
    <<ThreadH(<<Mov(X0, Desc("z")), Mov(X1, Pte("x")), Set(X3, 1), Mov(X4, Va("y")), Str(X0, X1),
        Str(X3, X4)>>, {0, 1, 2, 3, 4}, 1, <<>>, <<>>),
      Thread(<<Mov(X1, Va("y")), Mov(X3, Va("x")), Ldr(X0, X1), Ldr(X2, X3), Str(X0, Out(1)),
        Str(X2, Out(2))>>, {0, 1, 2, 3, 4})>>,
    {<<1, 0>>}, 3)

MPRT1_dsbtlbiallisdsb_dsbisb ==
  Test("MP.RT1+dsb-tlbiallis-dsb+dsb-isb", <<"x", "y", "z">>, <<"p1:x0", "p1:x2">>,
    <<InitVar("x", 0), InitVar("y", 0), InitVar("z", 1)>>,
    <<ThreadH(<<Mov(X0, Desc("z")), Mov(X1, Pte("x")), Set(X3, 1), Mov(X4, Va("y")), Str(X0, X1),
        Str(X3, X4)>>, {0, 1, 2, 3, 4}, 1, <<>>, <<>>),
      Thread(<<Mov(X1, Va("y")), Mov(X3, Va("x")), Ldr(X0, X1), Ldr(X2, X3), Str(X0, Out(1)),
        Str(X2, Out(2))>>, {0, 1, 2, 3, 4})>>,
    {<<1, 0>>}, 3)

MPRT1_dsbtlbiisdsb_dsbisb ==
  Test("MP.RT1+dsb-tlbiis-dsb+dsb-isb", <<"x", "y", "z">>, <<"p1:x0", "p1:x2">>,
    <<InitVar("x", 0), InitVar("y", 0), InitVar("z", 1)>>,
    <<ThreadH(<<Mov(X0, Desc("z")), Mov(X1, Pte("x")), Mov(X2, Page("x")), Set(X3, 1), Mov(X4, Va("y")),
        Str(X0, X1), Str(X3, X4)>>, {0, 1, 2, 3, 4}, 1, <<>>, <<>>),
      Thread(<<Mov(X1, Va("y")), Mov(X3, Va("x")), Ldr(X0, X1), Ldr(X2, X3), Str(X0, Out(1)),
        Str(X2, Out(2))>>, {0, 1, 2, 3, 4})>>,
    {<<1, 0>>}, 3)

MPRT1_dsbtlbiisdsbisb_dmb ==
  Test("MP.RT1+dsb-tlbiis-dsb-isb+dmb", <<"x", "y", "z">>, <<"p1:x0", "p1:x2">>,
    <<InitVar("x", 0), InitVar("y", 0), InitVar("z", 1)>>,
    <<ThreadH(<<Mov(X0, Desc("z")), Mov(X1, Pte("x")), Mov(X2, Page("x")), Set(X3, 1), Mov(X4, Va("y")),
        Str(X0, X1), Str(X3, X4)>>, {0, 1, 2, 3, 4}, 1, <<>>, <<>>),
      Thread(<<Mov(X1, Va("y")), Mov(X3, Va("x")), Ldr(X0, X1), Ldr(X2, X3), Str(X0, Out(1)),
        Str(X2, Out(2))>>, {0, 1, 2, 3, 4})>>,
    {<<1, 0>>}, 3)

MPRT1_dsbtlbiisdsbisb_dsbisb ==
  Test("MP.RT1+dsb-tlbiis-dsb-isb+dsb-isb", <<"x", "y", "z">>, <<"p1:x0", "p1:x2">>,
    <<InitVar("x", 0), InitVar("y", 0), InitVar("z", 1)>>,
    <<ThreadH(<<Mov(X0, Desc("z")), Mov(X1, Pte("x")), Mov(X2, Page("x")), Set(X3, 1), Mov(X4, Va("y")),
        Str(X0, X1), Str(X3, X4)>>, {0, 1, 2, 3, 4}, 1, <<>>, <<>>),
      Thread(<<Mov(X1, Va("y")), Mov(X3, Va("x")), Ldr(X0, X1), Ldr(X2, X3), Str(X0, Out(1)),
        Str(X2, Out(2))>>, {0, 1, 2, 3, 4})>>,
    {<<1, 0>>}, 3)

MPRT1_dsbtlbiisdsbtlbiisdsb_dsbisb ==
  Test("MP.RT1+dsb-tlbiis-dsb-tlbiis-dsb+dsb-isb", <<"x", "y", "z">>, <<"p1:x0", "p1:x2">>,
    <<InitVar("x", 0), InitVar("y", 0), InitVar("z", 1)>>,
    <<ThreadH(<<Mov(X0, Desc("z")), Mov(X1, Pte("x")), Mov(X2, Page("x")), Set(X3, 1), Mov(X4, Va("y")),
        Str(X0, X1), Str(X3, X4)>>, {0, 1, 2, 3, 4}, 1, <<>>, <<>>),
      Thread(<<Mov(X1, Va("y")), Mov(X3, Va("x")), Ldr(X0, X1), Ldr(X2, X3), Str(X0, Out(1)),
        Str(X2, Out(2))>>, {0, 1, 2, 3, 4})>>,
    {<<1, 0>>}, 3)

MPTT_WinvdmbWinv_tpo ==
  Test("MP.TT+Winv-dmb-Winv+tpo", <<"a", "b", "c", "d">>, <<"p1:x0", "p1:x2">>,
    <<InitVar("a", 0), InitVar("b", 0), InitUnmapped("c"), InitUnmapped("d")>>,
    <<Thread(<<Mov(X0, Desc("c")), Mov(X1, Pte("a")), Mov(X2, Desc("d")), Mov(X3, Pte("b")), Str(X0, X1),
        Str(X2, X3)>>, {0, 1, 2, 3}),
      ThreadH(<<Mov(X1, Va("b")), Mov(X3, Va("a")), Set(X8, 0), Ldr(X7, X1), Mov(X0, X8), Set(X8, 0),
        Ldr(X7, X3), Mov(X2, X8), Str(X0, Out(1)), Str(X2, Out(2))>>, {0, 1, 2, 3, 7, 8, 10}, 0,
        <<Set(X8, 1)>> \o EretToNext(X10), <<>>)>>,
    {<<1, 0>>}, 3)

MPTT_dmb_dsbisb ==
  Test("MP.TT+dmb+dsb-isb", <<"a", "b", "c", "d">>, <<"p1:x0", "p1:x2">>,
    <<InitVar("a", 0), InitVar("b", 0), InitVar("c", 1), InitVar("d", 1)>>,
    <<Thread(<<Mov(X0, Desc("c")), Mov(X1, Pte("a")), Mov(X2, Desc("d")), Mov(X3, Pte("b")), Str(X0, X1),
        Str(X2, X3)>>, {0, 1, 2, 3}),
      Thread(<<Mov(X1, Va("b")), Mov(X3, Va("a")), Ldr(X0, X1), Ldr(X2, X3), Str(X0, Out(1)),
        Str(X2, Out(2))>>, {0, 1, 2, 3})>>,
    {<<1, 0>>}, 3)

MPTT_dmb_tpo ==
  Test("MP.TT+dmb+tpo", <<"a", "b", "c", "d">>, <<"p1:x0", "p1:x2">>,
    <<InitVar("a", 0), InitVar("b", 0), InitVar("c", 1), InitVar("d", 1)>>,
    <<Thread(<<Mov(X0, Desc("c")), Mov(X1, Pte("a")), Mov(X2, Desc("d")), Mov(X3, Pte("b")), Str(X0, X1),
        Str(X2, X3)>>, {0, 1, 2, 3}),
      Thread(<<Mov(X1, Va("b")), Mov(X3, Va("a")), Ldr(X0, X1), Ldr(X2, X3), Str(X0, Out(1)),
        Str(X2, Out(2))>>, {0, 1, 2, 3})>>,
    {<<1, 0>>}, 3)

MPTTinv_dmb_dsbisb ==
  Test("MP.TT.inv+dmb+dsb-isb", <<"a", "b", "c", "d">>, <<"p1:x0", "p1:x2">>,
    <<InitUnmapped("a"), InitUnmapped("b"), InitVar("c", 1), InitVar("d", 1)>>,
    <<Thread(<<Mov(X0, Desc("c")), Mov(X1, Pte("a")), Mov(X2, Desc("d")), Mov(X3, Pte("b")), Str(X0, X1),
        Str(X2, X3)>>, {0, 1, 2, 3}),
      ThreadH(<<Mov(X1, Va("b")), Mov(X3, Va("a")), Set(X8, 1), Ldr(X7, X1), Mov(X0, X8), Set(X8, 1),
        Ldr(X7, X3), Mov(X2, X8), Str(X0, Out(1)), Str(X2, Out(2))>>, {0, 1, 2, 3, 7, 8, 10}, 0,
        <<Set(X8, 0)>> \o EretToNext(X10), <<>>)>>,
    {<<1, 0>>}, 3)

MPTTinv_dmb_tpo ==
  Test("MP.TT.inv+dmb+tpo", <<"a", "b", "c", "d">>, <<"p1:x0", "p1:x2">>,
    <<InitUnmapped("a"), InitUnmapped("b"), InitVar("c", 1), InitVar("d", 1)>>,
    <<Thread(<<Mov(X0, Desc("c")), Mov(X1, Pte("a")), Mov(X2, Desc("d")), Mov(X3, Pte("b")), Str(X0, X1),
        Str(X2, X3)>>, {0, 1, 2, 3}),
      ThreadH(<<Mov(X1, Va("b")), Mov(X3, Va("a")), Set(X8, 1), Ldr(X7, X1), Mov(X0, X8), Set(X8, 1),
        Ldr(X7, X3), Mov(X2, X8), Str(X0, Out(1)), Str(X2, Out(2))>>, {0, 1, 2, 3, 7, 8, 10}, 0,
        <<Set(X8, 0)>> \o EretToNext(X10), <<>>)>>,
    {<<1, 0>>}, 3)

MPinvRT_dsb_dsbisb ==
  Test("MP.invRT+dsb+dsb-isb", <<"x", "y">>, <<"p1:x0", "p1:x2">>,
    <<InitVar("x", 0), InitVar("y", 0)>>,
    <<Thread(<<Set(X0, 0), Mov(X1, Pte("x")), Set(X3, 1), Mov(X4, Va("y")), Str(X0, X1), Str(X3, X4)>>,
        {0, 1, 2, 3, 4}),
      ThreadH(<<Mov(X1, Va("y")), Mov(X3, Va("x")), Ldr(X0, X1), Ldr(X2, X3), Str(X0, Out(1)),
        Str(X2, Out(2))>>, {0, 1, 2, 3, 10}, 0, <<Set(X2, 1)>> \o EretToNext(X10),
        <<Set(X2, 1)>> \o EretToNext(X10))>>,
    {<<1, 0>>}, 3)

MPinvRT1_dsbisbtlbiisdsbisb_dsbisb ==
  Test("MP.invRT1+dsb-isb-tlbiis-dsb-isb+dsb-isb", <<"x", "y">>, <<"p1:x0", "p1:x2">>,
    <<InitVar("x", 0), InitVar("y", 0)>>,
    <<ThreadH(<<Set(X0, 0), Mov(X1, Pte("x")), Mov(X2, Page("x")), Set(X3, 1), Mov(X4, Va("y")), Str(X0, X1),
        Str(X3, X4)>>, {0, 1, 2, 3, 4}, 1, <<>>, <<>>),
      ThreadH(<<Mov(X1, Va("y")), Mov(X3, Va("x")), Ldr(X0, X1), Ldr(X2, X3), Str(X0, Out(1)),
        Str(X2, Out(2))>>, {0, 1, 2, 3, 10}, 1, <<Set(X2, 1)>> \o EretToNext(X10),
        <<Set(X2, 1)>> \o EretToNext(X10))>>,
    {<<1, 0>>}, 3)

MPinvRT1_dsbtlbiisdsb_dsbisb ==
  Test("MP.invRT1+dsb-tlbiis-dsb+dsb-isb", <<"x", "y">>, <<"p1:x0", "p1:x2">>,
    <<InitVar("x", 0), InitVar("y", 0)>>,
    <<ThreadH(<<Set(X0, 0), Mov(X1, Pte("x")), Mov(X2, Page("x")), Set(X3, 1), Mov(X4, Va("y")), Str(X0, X1),
        Str(X3, X4)>>, {0, 1, 2, 3, 4}, 1, <<>>, <<>>),
      ThreadH(<<Mov(X1, Va("y")), Mov(X3, Va("x")), Ldr(X0, X1), Ldr(X2, X3), Str(X0, Out(1)),
        Str(X2, Out(2))>>, {0, 1, 2, 3, 10}, 1, <<Set(X2, 1)>> \o EretToNext(X10),
        <<Set(X2, 1)>> \o EretToNext(X10))>>,
    {<<1, 0>>}, 3)

MPinvRT1_dsbtlbiisdsb_dsb ==
  Test("MP.invRT1+dsb-tlbiis-dsb+dsb", <<"x", "y">>, <<"p1:x0", "p1:x2">>,
    <<InitVar("x", 0), InitVar("y", 0)>>,
    <<ThreadH(<<Set(X0, 0), Mov(X1, Pte("x")), Mov(X2, Page("x")), Set(X3, 1), Mov(X4, Va("y")), Str(X0, X1),
        Str(X3, X4)>>, {0, 1, 2, 3, 4}, 1, <<>>, <<>>),
      ThreadH(<<Mov(X1, Va("y")), Mov(X3, Va("x")), Ldr(X0, X1), Ldr(X2, X3), Str(X0, Out(1)),
        Str(X2, Out(2))>>, {0, 1, 2, 3, 10}, 1, <<Set(X2, 1)>> \o EretToNext(X10),
        <<Set(X2, 1)>> \o EretToNext(X10))>>,
    {<<1, 0>>}, 3)

WRCat_ctrl_dsb ==
  Test("WRC.AT+ctrl+dsb", <<"x", "y", "z">>, <<"p1:x2", "p2:x0", "p2:x2">>,
    <<InitVar("x", 0), InitVar("y", 0), InitVar("z", 1)>>,
    <<Thread(<<Mov(X0, Desc("z")), Mov(X1, Pte("x")), Str(X0, X1)>>, {0, 1}),
      Thread(<<Mov(X1, Pte("x")), Set(X2, 1), Mov(X3, Va("y")), Mov(X4, Desc("z")), Ldr(X0, X1),
        Eor(X0, X4, X0), Cbz(X0, 9), Set(X0, 1), Str(X2, X3), Str(X0, Out(1))>>, {0, 1, 2, 3, 4}),
      Thread(<<Mov(X1, Va("y")), Mov(X3, Va("x")), Ldr(X0, X1), Ldr(X2, X3), Str(X0, Out(2)),
        Str(X2, Out(3))>>, {0, 1, 2, 3})>>,
    {<<0, 1, 0>>}, 7)

WRCtrr_addr_dmb ==
  Test("WRC.TRR+addr+dmb", <<"x", "y", "z">>, <<"p1:x0", "p2:x0", "p2:x2">>,
    <<InitVar("x", 0), InitVar("y", 0), InitVar("z", 1)>>,
    <<Thread(<<Mov(X0, Desc("z")), Mov(X1, Pte("x")), Str(X0, X1)>>, {0, 1}),
      Thread(<<Mov(X1, Va("x")), Set(X2, 1), Mov(X3, Va("y")), Ldr(X0, X1), Eor(X4, X0, X0), Add(X4, X4, X3),
        Str(X2, X4), Str(X0, Out(1))>>, {0, 1, 2, 3, 4}),
      Thread(<<Mov(X1, Va("y")), Mov(X3, Pte("x")), Mov(X4, Desc("z")), Ldr(X0, X1), Ldr(X2, X3),
        Str(X0, Out(2)), Eor(X2, X2, X4), Cbz(X2, 10), Set(X2, 0), Eor(X2, X2, Imm(1)), Str(X2, Out(3))>>,
        {0, 1, 2, 3, 4})>>,
    {<<1, 1, 0>>}, 7)

WRCtrrinv_addrs ==
  Test("WRC.TRR.inv+addrs", <<"x", "y", "z">>, <<"p1:x0", "p2:x0", "p2:x2">>,
    <<InitUnmapped("x"), InitVar("y", 0), InitVar("z", 1)>>,
    <<Thread(<<Mov(X0, Desc("z")), Mov(X1, Pte("x")), Str(X0, X1)>>, {0, 1}),
      ThreadH(<<Mov(X1, Va("x")), Set(X2, 1), Mov(X3, Va("y")), Ldr(X0, X1), Eor(X4, X0, X0), Add(X4, X4, X3),
        Str(X2, X4), Str(X0, Out(1))>>, {0, 1, 2, 3, 4, 10}, 0, <<Set(X0, 0)>> \o EretToNext(X10), <<>>),
      Thread(<<Mov(X1, Va("y")), Mov(X3, Pte("x")), Mov(X5, Desc("z")), Ldr(X0, X1), Eor(X4, X0, X0),
        Add(X4, X4, X3), Ldr(X2, X4), Str(X0, Out(2)), Eor(X2, X2, X5), Cbz(X2, 12), Set(X2, 0),
        Eor(X2, X2, Imm(1)), Str(X2, Out(3))>>, {0, 1, 2, 3, 4, 5})>>,
    {<<1, 1, 0>>}, 7)

WRCtrt_addr_dmb ==
  Test("WRC.TRT+addr+dmb", <<"x", "y", "z">>, <<"p1:x0", "p2:x0", "p2:x2">>,
    <<InitVar("x", 0), InitVar("y", 0), InitVar("z", 1)>>,
    <<Thread(<<Mov(X0, Desc("z")), Mov(X1, Pte("x")), Str(X0, X1)>>, {0, 1}),
      Thread(<<Mov(X1, Va("x")), Set(X2, 1), Mov(X3, Va("y")), Ldr(X0, X1), Eor(X4, X0, X0), Add(X4, X4, X3),
        Str(X2, X4), Str(X0, Out(1))>>, {0, 1, 2, 3, 4}),
      Thread(<<Mov(X1, Va("y")), Mov(X3, Va("x")), Ldr(X0, X1), Ldr(X2, X3), Str(X0, Out(2)),
        Str(X2, Out(3))>>, {0, 1, 2, 3})>>,
    {<<1, 1, 0>>}, 7)

WRCtrt_dmbs ==
  Test("WRC.TRT+dmbs", <<"x", "y", "z">>, <<"p1:x0", "p2:x0", "p2:x2">>,
    <<InitVar("x", 0), InitVar("y", 0), InitVar("z", 1)>>,
    <<Thread(<<Mov(X0, Desc("z")), Mov(X1, Pte("x")), Str(X0, X1)>>, {0, 1}),
      Thread(<<Mov(X1, Va("x")), Set(X2, 1), Mov(X3, Va("y")), Ldr(X0, X1), Str(X2, X3), Str(X0, Out(1))>>,
        {0, 1, 2, 3}),
      Thread(<<Mov(X1, Va("y")), Mov(X3, Va("x")), Ldr(X0, X1), Ldr(X2, X3), Str(X0, Out(2)),
        Str(X2, Out(3))>>, {0, 1, 2, 3})>>,
    {<<1, 1, 0>>}, 7)

WRCtrt_dsbisbs ==
  Test("WRC.TRT+dsb-isbs", <<"x", "y", "z">>, <<"p1:x0", "p2:x0", "p2:x2">>,
    <<InitVar("x", 0), InitVar("y", 0), InitVar("z", 1)>>,
    <<Thread(<<Mov(X0, Desc("z")), Mov(X1, Pte("x")), Str(X0, X1)>>, {0, 1}),
      Thread(<<Mov(X1, Va("x")), Set(X2, 1), Mov(X3, Va("y")), Ldr(X0, X1), Str(X2, X3), Str(X0, Out(1))>>,
        {0, 1, 2, 3}),
      Thread(<<Mov(X1, Va("y")), Mov(X3, Va("x")), Ldr(X0, X1), Ldr(X2, X3), Str(X0, Out(2)),
        Str(X2, Out(3))>>, {0, 1, 2, 3})>>,
    {<<1, 1, 0>>}, 7)

WRCtrtinv_addrs ==
  Test("WRC.TRT.inv+addrs", <<"x", "y", "z">>, <<"p1:x0", "p2:x0", "p2:x2">>,
    <<InitUnmapped("x"), InitVar("y", 0), InitVar("z", 1)>>,
    <<Thread(<<Mov(X0, Desc("z")), Mov(X1, Pte("x")), Str(X0, X1)>>, {0, 1}),
      ThreadH(<<Mov(X1, Va("x")), Set(X2, 1), Mov(X3, Va("y")), Ldr(X0, X1), Eor(X4, X0, X0), Add(X4, X4, X3),
        Str(X2, X4), Str(X0, Out(1))>>, {0, 1, 2, 3, 4, 10}, 0, <<Set(X0, 0)>> \o EretToNext(X10), <<>>),
      ThreadH(<<Mov(X1, Va("y")), Mov(X3, Va("x")), Ldr(X0, X1), Eor(X4, X0, X0), Add(X4, X4, X3),
        Ldr(X2, X4), Str(X0, Out(2)), Str(X2, Out(3))>>, {0, 1, 2, 3, 4, 10}, 0,
        <<Set(X2, 0)>> \o EretToNext(X10), <<>>)>>,
    {<<1, 1, 0>>}, 7)

WRCtrtinv_dsbisbs ==
  Test("WRC.TRT.inv+dsb-isbs", <<"x", "y", "z">>, <<"p1:x0", "p2:x0", "p2:x2">>,
    <<InitUnmapped("x"), InitVar("y", 0), InitVar("z", 1)>>,
    <<Thread(<<Mov(X0, Desc("z")), Mov(X1, Pte("x")), Str(X0, X1)>>, {0, 1}),
      ThreadH(<<Mov(X1, Va("x")), Set(X2, 1), Mov(X3, Va("y")), Ldr(X0, X1), Str(X2, X3)>>,
        {0, 1, 2, 3, 10, 11}, 0, <<Set(X0, 0)>> \o EretToNext(X10), <<>>),
      ThreadH(<<Mov(X1, Va("y")), Mov(X3, Va("x")), Ldr(X0, X1), Ldr(X2, X3), Str(X0, Out(2)),
        Str(X2, Out(3))>>, {0, 1, 2, 3, 10, 11}, 0, <<Set(X2, 0)>> \o EretToNext(X10), <<>>)>>,
    {<<1, 1, 0>>}, 7)

WRCtrtinv_po_addr ==
  Test("WRC.TRT.inv+po+addr", <<"x", "y", "z">>, <<"p1:x0", "p2:x0", "p2:x2">>,
    <<InitUnmapped("x"), InitVar("y", 0), InitVar("z", 1)>>,
    <<Thread(<<Mov(X0, Desc("z")), Mov(X1, Pte("x")), Str(X0, X1)>>, {0, 1}),
      ThreadH(<<Mov(X1, Va("x")), Set(X2, 1), Mov(X3, Va("y")), Ldr(X0, X1), Str(X2, X3)>>,
        {0, 1, 2, 3, 10, 11}, 0, <<Set(X0, 0)>> \o EretToNext(X10), <<>>),
      ThreadH(<<Mov(X1, Va("y")), Mov(X3, Va("x")), Ldr(X0, X1), Eor(X4, X0, X0), Ldrx(X2, X3, X4),
        Str(X0, Out(2)), Str(X2, Out(3))>>, {0, 1, 2, 3, 4, 10}, 0, <<Set(X2, 0)>> \o EretToNext(X10),
        <<>>)>>,
    {<<1, 1, 0>>}, 7)

WRCtrtinv_po_dmb ==
  Test("WRC.TRT.inv+po+dmb", <<"x", "y", "z">>, <<"p1:x0", "p2:x0", "p2:x2">>,
    <<InitUnmapped("x"), InitVar("y", 0), InitVar("z", 1)>>,
    <<Thread(<<Mov(X0, Desc("z")), Mov(X1, Pte("x")), Str(X0, X1)>>, {0, 1}),
      ThreadH(<<Mov(X1, Va("x")), Set(X2, 1), Mov(X3, Va("y")), Ldr(X0, X1), Str(X2, X3)>>,
        {0, 1, 2, 3, 10, 11}, 0, <<Set(X0, 0)>> \o EretToNext(X10), <<>>),
      ThreadH(<<Mov(X1, Va("y")), Mov(X3, Va("x")), Ldr(X0, X1), Ldr(X2, X3), Str(X0, Out(2)),
        Str(X2, Out(3))>>, {0, 1, 2, 3, 10, 11}, 0, <<Set(X2, 0)>> \o EretToNext(X10), <<>>)>>,
    {<<1, 1, 0>>}, 7)

WRCtrt1_dsbtlbiisdsb_dmb ==
  Test("WRC.TRT1+dsb-tlbiis-dsb+dmb", <<"x", "y", "z">>, <<"p1:x0", "p2:x0", "p2:x2">>,
    <<InitVar("x", 0), InitVar("y", 0), InitVar("z", 1)>>,
    <<Thread(<<Mov(X0, Desc("z")), Mov(X1, Pte("x")), Str(X0, X1)>>, {0, 1}),
      ThreadH(<<Mov(X1, Va("x")), Set(X2, 1), Mov(X3, Va("y")), Mov(X4, Page("x")), Ldr(X0, X1), Str(X2, X3),
        Str(X0, Out(1))>>, {0, 1, 2, 3, 4}, 1, <<>>, <<>>),
      Thread(<<Mov(X1, Va("y")), Mov(X3, Va("x")), Ldr(X0, X1), Ldr(X2, X3), Str(X0, Out(2)),
        Str(X2, Out(3))>>, {0, 1, 2, 3})>>,
    {<<1, 1, 0>>}, 7)

WRCtrt1_dsbtlbiisdsb_dsbisb ==
  Test("WRC.TRT1+dsb-tlbiis-dsb+dsb-isb", <<"x", "y", "z">>, <<"p1:x0", "p2:x0", "p2:x2">>,
    <<InitVar("x", 0), InitVar("y", 0), InitVar("z", 1)>>,
    <<Thread(<<Mov(X0, Desc("z")), Mov(X1, Pte("x")), Str(X0, X1)>>, {0, 1}),
      ThreadH(<<Mov(X1, Va("x")), Set(X2, 1), Mov(X3, Va("y")), Mov(X4, Page("x")), Ldr(X0, X1), Str(X2, X3),
        Str(X0, Out(1))>>, {0, 1, 2, 3, 4}, 1, <<>>, <<>>),
      Thread(<<Mov(X1, Va("y")), Mov(X3, Va("x")), Ldr(X0, X1), Ldr(X2, X3), Str(X0, Out(2)),
        Str(X2, Out(3))>>, {0, 1, 2, 3})>>,
    {<<1, 1, 0>>}, 7)

TransTests == {CoRT_dsbisb, CoRT, CoTR_addr, CoTR_dmb, CoTR_dsbisb, CoTR_dsb, CoTR, CoTRinv_dsbisb, CoTRinv,
  CoTR1_dsbdcdsbtlbidsbisb, CoTR1_dsbtlbidsbisb, CoTR1tlbi_dsbdsbisb, CoTT, CoTW, CoWT_dsbisb,
  CoWT_dsbsvctlbidsb, CoWT_dsb, CoWT, CoWTinv_dmb, CoWTinv_dsbisb, CoWTinv_dsb, CoWTinv, CoWT1_dsbtlbidsbisb,
  CoWT1_dsbtlbidsb, CoWinvT_dsbisb, CoWinvT, CoWinvT1_dsbtlbidsb, CoWinvT1_tlbidsbisb, CoWinvT1_tlbidsb,
  CoWinvWT1_dsbtlbidsbdsbisb, ISA2trr_dmb_po_dmb, MPRT_dmbs, MPRT_svcdsbtlbidsb_dsbisb,
  MPRT_svcdsbtlbiisdsb_dsbisb, MPRTinv_dmb_addr, MPRTinv_dmb_po, MPRT1_dsbdmblddmb_dsbisb,
  MPRT1_dsbdmblddsbisbtlbiisdsbisb_dmb, MPRT1_dsbdmblddsbisbtlbiisdsbisb_dsbisb,
  MPRT1_dsbdmblddsbtlbiisdsbisb_dmb, MPRT1_dcdsbtlbialldsb_dsbisb, MPRT1_dcdsbtlbialldsbisb_dsbisb,
  MPRT1_dsbisbtlbiisdsbisb_dsbisb, MPRT1_dsbtlbidsb_dsbisb, MPRT1_dsbtlbialldsb_dsbisb,
  MPRT1_dsbtlbiallisdsb_dsbisb, MPRT1_dsbtlbiisdsb_dsbisb, MPRT1_dsbtlbiisdsbisb_dmb,
  MPRT1_dsbtlbiisdsbisb_dsbisb, MPRT1_dsbtlbiisdsbtlbiisdsb_dsbisb, MPTT_WinvdmbWinv_tpo, MPTT_dmb_dsbisb,
  MPTT_dmb_tpo, MPTTinv_dmb_dsbisb, MPTTinv_dmb_tpo, MPinvRT_dsb_dsbisb, MPinvRT1_dsbisbtlbiisdsbisb_dsbisb,
  MPinvRT1_dsbtlbiisdsb_dsbisb, MPinvRT1_dsbtlbiisdsb_dsb, WRCat_ctrl_dsb, WRCtrr_addr_dmb, WRCtrrinv_addrs,
  WRCtrt_addr_dmb, WRCtrt_dmbs, WRCtrt_dsbisbs, WRCtrtinv_addrs, WRCtrtinv_dsbisbs, WRCtrtinv_po_addr,
  WRCtrtinv_po_dmb, WRCtrt1_dsbtlbiisdsb_dmb, WRCtrt1_dsbtlbiisdsb_dsbisb}
===============================================================================
