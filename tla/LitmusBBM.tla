---------------------------- MODULE LitmusBBM ----------------------------
(* Tests of litmus/litmus_tests/pgtable: break-before-make. *)
EXTENDS LitmusAsm

MPBBM_dmbdmb_dmb ==
  Test("MP.BBM+dmb-dmb+dmb", <<"x", "y", "z">>, <<"p1:x0", "p1:x2">>,
    <<InitVar("x", 0), InitVar("y", 0), InitVar("z", 1)>>,
    <<Thread(<<Set(X0, 0), Mov(X1, Pte("x")), Mov(X3, Desc("z")), Mov(X4, Pte("x")), Set(X5, 1),
        Mov(X6, Va("y")), Str(X0, X1), Str(X3, X4), Str(X5, X6)>>, {0, 1, 2, 3, 4, 5, 6}),
      ThreadH(<<Mov(X1, Va("y")), Mov(X3, Va("x")), Ldr(X0, X1), Ldr(X2, X3), Str(X0, Out(1)),
        Str(X2, Out(2))>>, {0, 1, 2, 3, 10}, 0, <<Set(X2, 2)>> \o EretToNext(X10), <<>>)>>,
    {<<1, 0>>, <<1, 2>>}, 4)

BBM1_dmblddsbtlbiisdsbisbdsbisb_dsbisb ==
  Test("MP.BBM1+[dmb.ld]-dsb-tlbiis-dsb-isb-dsb-isb+dsb-isb", <<"x", "y", "z", "a">>, <<"p0:x7", "p1:x0", "p1:x2", "p2:x0">>,
    <<InitVar("x", 0), InitVar("y", 0), InitVar("a", 0), InitVar("z", 1)>>,
    <<ThreadH(<<Set(X0, 0), Mov(X1, Pte("x")), Mov(X2, Page("x")), Mov(X3, Desc("z")), Mov(X4, Pte("x")),
        Set(X5, 1), Mov(X6, Va("y")), Mov(X8, Va("a")), Str(X0, X1), Ldr(X7, X8), Str(X3, X4), Str(X5, X6),
        Str(X7, Out(1))>>, {0, 1, 2, 3, 4, 5, 6, 7, 8}, 1, <<>>, <<>>),
      ThreadH(<<Mov(X1, Va("y")), Mov(X3, Va("x")), Ldr(X0, X1), Ldr(X2, X3), Str(X0, Out(2)),
        Str(X2, Out(3))>>, {0, 1, 2, 3, 10}, 0, <<Set(X2, 2)>> \o EretToNext(X10), <<>>),
      Thread(OutIs(<<Mov(X1, Pte("x")), Set(X2, 1), Mov(X3, Va("a")), Ldr(X0, X1), Str(X2, X3),
        Str(X0, Out(4))>>, 4, Imm(0)), {0, 1, 2, 3})>>,
    {<<1, 1, 0, 1>>, <<1, 1, 2, 1>>}, 16)

BBM1_dmbldtlbiisdsbisbdsbisb_dsbisb ==
  Test("MP.BBM1+[dmb.ld]-tlbiis-dsb-isb-dsb-isb+dsb-isb", <<"x", "y", "z", "a">>, <<"p0:x7", "p1:x0", "p1:x2", "p2:x0">>,
    <<InitVar("x", 0), InitVar("y", 0), InitVar("a", 0), InitVar("z", 1)>>,
    <<ThreadH(<<Set(X0, 0), Mov(X1, Pte("x")), Mov(X2, Page("x")), Mov(X3, Desc("z")), Mov(X4, Pte("x")),
        Set(X5, 1), Mov(X6, Va("y")), Mov(X8, Va("a")), Str(X0, X1), Ldr(X7, X8), Str(X3, X4), Str(X5, X6),
        Str(X7, Out(1))>>, {0, 1, 2, 3, 4, 5, 6, 7, 8}, 1, <<>>, <<>>),
      ThreadH(<<Mov(X1, Va("y")), Mov(X3, Va("x")), Ldr(X0, X1), Ldr(X2, X3), Str(X0, Out(2)),
        Str(X2, Out(3))>>, {0, 1, 2, 3, 10}, 0, <<Set(X2, 2)>> \o EretToNext(X10), <<>>),
      Thread(OutIs(<<Mov(X1, Pte("x")), Set(X2, 1), Mov(X3, Va("a")), Ldr(X0, X1), Str(X2, X3),
        Str(X0, Out(4))>>, 4, Imm(0)), {0, 1, 2, 3})>>,
    {<<1, 1, 0, 1>>, <<1, 1, 2, 1>>}, 16)

BBM1_podetourdsbtlbiisdsbisbdsbisb_dsbisb ==
  Test("MP.BBM1+[po]-dsb-tlbiis-dsb-isb-dsb-isb+dsb-isb", <<"x", "y", "z", "a">>, <<"p0:x7", "p1:x0", "p1:x2", "p2:x0">>,
    <<InitVar("x", 0), InitVar("y", 0), InitVar("a", 0), InitVar("z", 1)>>,
    <<ThreadH(<<Set(X0, 0), Mov(X1, Pte("x")), Mov(X2, Page("x")), Mov(X3, Desc("z")), Mov(X4, Pte("x")),
        Set(X5, 1), Mov(X6, Va("y")), Mov(X8, Va("a")), Str(X0, X1), Ldr(X7, X8), Str(X3, X4), Str(X5, X6),
        Str(X7, Out(1))>>, {0, 1, 2, 3, 4, 5, 6, 7, 8}, 1, <<>>, <<>>),
      ThreadH(<<Mov(X1, Va("y")), Mov(X3, Va("x")), Ldr(X0, X1), Ldr(X2, X3), Str(X0, Out(2)),
        Str(X2, Out(3))>>, {0, 1, 2, 3, 10}, 0, <<Set(X2, 2)>> \o EretToNext(X10), <<>>),
      Thread(OutIs(<<Mov(X1, Pte("x")), Set(X2, 1), Mov(X3, Va("a")), Set(X0, 0), Str(X2, X3),
        Str(X0, Out(4))>>, 4, Imm(0)), {0, 1, 2, 3})>>,
    {<<1, 1, 0, 1>>, <<1, 1, 2, 1>>}, 16)

BBM1_dmbtlbiisdmbdmb_dmb ==
  Test("MP.BBM1+dmb-tlbiis-dmb-dmb+dmb", <<"x", "y", "z">>, <<"p1:x0", "p1:x2">>,
    <<InitVar("x", 0), InitVar("y", 0), InitVar("z", 1)>>,
    <<ThreadH(<<Set(X0, 0), Mov(X1, Pte("x")), Mov(X2, Page("x")), Mov(X3, Desc("z")), Mov(X4, Pte("x")),
        Set(X5, 1), Mov(X6, Va("y")), Str(X0, X1), Str(X3, X4), Str(X5, X6)>>, {0, 1, 2, 3, 4, 5, 6}, 1, <<>>,
        <<>>),
      ThreadH(<<Mov(X1, Va("y")), Mov(X3, Va("x")), Ldr(X0, X1), Ldr(X2, X3), Str(X0, Out(1)),
        Str(X2, Out(2))>>, {0, 1, 2, 3, 10}, 0, <<Set(X2, 2)>> \o EretToNext(X10), <<>>)>>,
    {<<1, 0>>, <<1, 2>>}, 4)

BBM1_dsbisbtlbiisdsbisbdsbisb_dsbisb ==
  Test("MP.BBM1+dsb-isb-tlbiis-dsb-isb-dsb-isb+dsb-isb", <<"x", "y", "z">>, <<"p1:x0", "p1:x2">>,
    <<InitVar("x", 0), InitVar("y", 0), InitVar("z", 1)>>,
    <<ThreadH(<<Set(X0, 0), Mov(X1, Pte("x")), Mov(X2, Page("x")), Mov(X3, Desc("z")), Mov(X4, Pte("x")),
        Set(X5, 1), Mov(X6, Va("y")), Str(X0, X1), Str(X3, X4), Str(X5, X6)>>, {0, 1, 2, 3, 4, 5, 6}, 1, <<>>,
        <<>>),
      ThreadH(<<Mov(X1, Va("y")), Mov(X3, Va("x")), Ldr(X0, X1), Ldr(X2, X3), Str(X0, Out(1)),
        Str(X2, Out(2))>>, {0, 1, 2, 3, 10}, 0, <<Set(X2, 2)>> \o EretToNext(X10), <<>>)>>,
    {<<1, 0>>, <<1, 2>>}, 4)

MPBBM1_dsbtlbiisdsbdmb_dmb ==
  Test("MP.BBM1+dsb-tlbiis-dsb-dmb+dmb", <<"x", "y", "z">>, <<"p1:x0", "p1:x2">>,
    <<InitVar("x", 0), InitVar("y", 0), InitVar("z", 1)>>,
    <<ThreadH(<<Set(X0, 0), Mov(X1, Pte("x")), Mov(X2, Page("x")), Mov(X3, Desc("z")), Mov(X4, Pte("x")),
        Set(X5, 1), Mov(X6, Va("y")), Str(X0, X1), Str(X3, X4), Str(X5, X6)>>, {0, 1, 2, 3, 4, 5, 6}, 1, <<>>,
        <<>>),
      ThreadH(<<Mov(X1, Va("y")), Mov(X3, Va("x")), Ldr(X0, X1), Ldr(X2, X3), Str(X0, Out(1)),
        Str(X2, Out(2))>>, {0, 1, 2, 3, 10}, 0, <<Set(X2, 2)>> \o EretToNext(X10), <<>>)>>,
    {<<1, 0>>, <<1, 2>>}, 4)

BBM1_dsbtlbiisdsbdsb_addr ==
  Test("MP.BBM1+dsb-tlbiis-dsb-dsb+addr", <<"x", "y", "z">>, <<"p1:x0", "p1:x2">>,
    <<InitVar("x", 0), InitVar("y", 0), InitVar("z", 1)>>,
    <<ThreadH(<<Set(X0, 0), Mov(X1, Pte("x")), Mov(X2, Page("x")), Mov(X3, Desc("z")), Mov(X4, Pte("x")),
        Set(X5, 1), Mov(X6, Va("y")), Str(X0, X1), Str(X3, X4), Str(X5, X6)>>, {0, 1, 2, 3, 4, 5, 6}, 1, <<>>,
        <<>>),
      ThreadH(<<Mov(X1, Va("y")), Mov(X3, Va("x")), Ldr(X0, X1), Eor(X4, X0, X0), Ldrx(X2, X3, X4),
        Str(X0, Out(1)), Str(X2, Out(2))>>, {0, 1, 2, 3, 4, 10}, 0, <<Set(X2, 2)>> \o EretToNext(X10),
        <<>>)>>,
    {<<1, 0>>, <<1, 2>>}, 4)

BBM1_dsbtlbiisdsbdsb_dsbisb ==
  Test("MP.BBM1+dsb-tlbiis-dsb-dsb+dsb-isb", <<"x", "y", "z">>, <<"p1:x0", "p1:x2">>,
    <<InitVar("x", 0), InitVar("y", 0), InitVar("z", 1)>>,
    <<ThreadH(<<Set(X0, 0), Mov(X1, Pte("x")), Mov(X2, Page("x")), Mov(X3, Desc("z")), Mov(X4, Pte("x")),
        Set(X5, 1), Mov(X6, Va("y")), Str(X0, X1), Str(X3, X4), Str(X5, X6)>>, {0, 1, 2, 3, 4, 5, 6}, 1, <<>>,
        <<>>),
      ThreadH(<<Mov(X1, Va("y")), Mov(X3, Va("x")), Ldr(X0, X1), Ldr(X2, X3), Str(X0, Out(1)),
        Str(X2, Out(2))>>, {0, 1, 2, 3, 10}, 0, <<Set(X2, 2)>> \o EretToNext(X10), <<>>)>>,
    {<<1, 0>>, <<1, 2>>}, 4)

BBM1_dsbtlbiisdsbdsb_dsb ==
  Test("MP.BBM1+dsb-tlbiis-dsb-dsb+dsb", <<"x", "y", "z">>, <<"p1:x0", "p1:x2">>,
    <<InitVar("x", 0), InitVar("y", 0), InitVar("z", 1)>>,
    <<ThreadH(<<Set(X0, 0), Mov(X1, Pte("x")), Mov(X2, Page("x")), Mov(X3, Desc("z")), Mov(X4, Pte("x")),
        Set(X5, 1), Mov(X6, Va("y")), Str(X0, X1), Str(X3, X4), Str(X5, X6)>>, {0, 1, 2, 3, 4, 5, 6}, 1, <<>>,
        <<>>),
      ThreadH(<<Mov(X1, Va("y")), Mov(X3, Va("x")), Ldr(X0, X1), Ldr(X2, X3), Str(X0, Out(1)),
        Str(X2, Out(2))>>, {0, 1, 2, 3, 10}, 0, <<Set(X2, 2)>> \o EretToNext(X10), <<>>)>>,
    {<<1, 0>>, <<1, 2>>}, 4)

BBM1_dsbtlbiisdsbdsbisb_dsbisb ==
  Test("MP.BBM1+dsb-tlbiis-dsb-dsb-isb+dsb-isb", <<"x", "y", "z">>, <<"p1:x0", "p1:x2">>,
    <<InitVar("x", 0), InitVar("y", 0), InitVar("z", 1)>>,
    <<ThreadH(<<Set(X0, 0), Mov(X1, Pte("x")), Mov(X2, Page("x")), Mov(X3, Desc("z")), Mov(X4, Pte("x")),
        Set(X5, 1), Mov(X6, Va("y")), Str(X0, X1), Str(X3, X4), Str(X5, X6)>>, {0, 1, 2, 3, 4, 5, 6}, 1, <<>>,
        <<>>),
      ThreadH(<<Mov(X1, Va("y")), Mov(X3, Va("x")), Ldr(X0, X1), Ldr(X2, X3), Str(X0, Out(1)),
        Str(X2, Out(2))>>, {0, 1, 2, 3, 10}, 0, <<Set(X2, 2)>> \o EretToNext(X10), <<>>)>>,
    {<<1, 0>>, <<1, 2>>}, 4)

BBM1_dsbtlbiisdsbdsbisb_dsb ==
  Test("MP.BBM1+dsb-tlbiis-dsb-dsb-isb+dsb", <<"x", "y", "z">>, <<"p1:x0", "p1:x2">>,
    <<InitVar("x", 0), InitVar("y", 0), InitVar("z", 1)>>,
    <<ThreadH(<<Set(X0, 0), Mov(X1, Pte("x")), Mov(X2, Page("x")), Mov(X3, Desc("z")), Mov(X4, Pte("x")),
        Set(X5, 1), Mov(X6, Va("y")), Str(X0, X1), Str(X3, X4), Str(X5, X6)>>, {0, 1, 2, 3, 4, 5, 6}, 1, <<>>,
        <<>>),
      ThreadH(<<Mov(X1, Va("y")), Mov(X3, Va("x")), Ldr(X0, X1), Ldr(X2, X3), Str(X0, Out(1)),
        Str(X2, Out(2))>>, {0, 1, 2, 3, 10}, 0, <<Set(X2, 2)>> \o EretToNext(X10), <<>>)>>,
    {<<1, 0>>, <<1, 2>>}, 4)

BBM1_podsbtlbiisdsbisbdsbisb_dsbisb ==
  Test("MP.BBM1+po-dsb-tlbiis-dsb-isb-dsb-isb+dsb-isb", <<"x", "y", "z", "a">>, <<"p0:x7", "p1:x0", "p1:x2">>,
    <<InitVar("x", 0), InitVar("y", 0), InitVar("a", 1), InitVar("z", 1)>>,
    <<ThreadH(<<Set(X0, 0), Mov(X1, Pte("x")), Mov(X2, Page("x")), Mov(X3, Desc("z")), Mov(X4, Pte("x")),
        Set(X5, 1), Mov(X6, Va("y")), Mov(X8, Va("a")), Str(X0, X1), Ldr(X7, X8), Str(X3, X4), Str(X5, X6),
        Str(X7, Out(1))>>, {0, 1, 2, 3, 4, 5, 6, 7, 8}, 1, <<>>, <<>>),
      ThreadH(<<Mov(X1, Va("y")), Mov(X3, Va("x")), Ldr(X0, X1), Ldr(X2, X3), Str(X0, Out(2)),
        Str(X2, Out(3))>>, {0, 1, 2, 3, 10}, 0, <<Set(X2, 2)>> \o EretToNext(X10), <<>>)>>,
    {<<1, 1, 0>>, <<1, 1, 2>>}, 4)

BBM1_potlbiispopo_po ==
  Test("MP.BBM1+po-tlbiis-po-po+po", <<"x", "y", "z">>, <<"p1:x0", "p1:x2">>,
    <<InitVar("x", 0), InitVar("y", 0), InitVar("z", 1)>>,
    <<ThreadH(<<Set(X0, 0), Mov(X1, Pte("x")), Mov(X2, Page("x")), Mov(X3, Desc("z")), Mov(X4, Pte("x")),
        Set(X5, 1), Mov(X6, Va("y")), Str(X0, X1), Str(X3, X4), Str(X5, X6)>>, {0, 1, 2, 3, 4, 5, 6}, 1, <<>>,
        <<>>),
      ThreadH(<<Mov(X1, Va("y")), Mov(X3, Va("x")), Ldr(X0, X1), Ldr(X2, X3), Str(X0, Out(1)),
        Str(X2, Out(2))>>, {0, 1, 2, 3, 10}, 0, <<Set(X2, 2)>> \o EretToNext(X10), <<>>)>>,
    {<<1, 0>>, <<1, 2>>}, 4)

BBM1_tlbiisdsbdsb_dsbisb ==
  Test("MP.BBM1+tlbiis-dsb-dsb+dsb-isb", <<"x", "y", "z">>, <<"p1:x0", "p1:x2">>,
    <<InitVar("x", 0), InitVar("y", 0), InitVar("z", 1)>>,
    <<ThreadH(<<Set(X0, 0), Mov(X1, Pte("x")), Mov(X2, Page("x")), Mov(X3, Desc("z")), Mov(X4, Pte("x")),
        Set(X5, 1), Mov(X6, Va("y")), Str(X0, X1), Str(X3, X4), Str(X5, X6)>>, {0, 1, 2, 3, 4, 5, 6}, 1, <<>>,
        <<>>),
      ThreadH(<<Mov(X1, Va("y")), Mov(X3, Va("x")), Ldr(X0, X1), Ldr(X2, X3), Str(X0, Out(1)),
        Str(X2, Out(2))>>, {0, 1, 2, 3, 10}, 0, <<Set(X2, 2)>> \o EretToNext(X10), <<>>)>>,
    {<<1, 0>>, <<1, 2>>}, 4)

BBM1dud_podetourdsbtlbiisdsbisbdsbisb_dsbisb ==
  Test("MP.BBM1.dud+[po]-dsb-tlbiis-dsb-isb-dsb-isb+dsb-isb", <<"x", "y", "z", "a">>, <<"p0:x7", "p1:x0", "p1:x2", "p2:x0">>,
    <<InitVar("x", 0), InitVar("y", 0), InitVar("a", 0), InitVar("z", 1)>>,
    <<ThreadH(<<Set(X0, 0), Mov(X1, Pte("x")), Mov(X2, Page("x")), Mov(X3, Desc("z")), Mov(X4, Pte("x")),
        Set(X5, 1), Mov(X6, Va("y")), Mov(X8, Va("a")), Str(X0, X1), Ldr(X7, X8), Str(X3, X4), Str(X5, X6),
        Str(X7, Out(1))>>, {0, 1, 2, 3, 4, 5, 6, 7, 8}, 1, <<>>, <<>>),
      ThreadH(<<Mov(X1, Va("y")), Mov(X3, Va("x")), Ldr(X0, X1), Ldr(X2, X3), Str(X0, Out(2)),
        Str(X2, Out(3))>>, {0, 1, 2, 3, 10}, 0, <<Set(X2, 2)>> \o EretToNext(X10), <<>>),
      Thread(OutIs(<<Mov(X1, Pte("x")), Set(X2, 1), Mov(X3, Va("a")), Set(X0, 1), Str(X2, X3),
        Str(X0, Out(4))>>, 4, Imm(0)), {0, 1, 2, 3})>>,
    {<<1, 1, 0, 0>>, <<1, 1, 2, 0>>}, 12)

BBM1dud_dsbtlbiisdsbisbdsbisb_dsbisb ==
  Test("MP.BBM1.dud+dsb-tlbiis-dsb-isb-dsb-isb+dsb-isb", <<"x", "y", "z", "a">>, <<"p0:x7", "p1:x0", "p1:x2", "p2:x0">>,
    <<InitVar("x", 0), InitVar("y", 0), InitVar("a", 0), InitVar("z", 1)>>,
    <<ThreadH(<<Set(X0, 0), Mov(X1, Pte("x")), Mov(X2, Page("x")), Mov(X3, Desc("z")), Mov(X4, Pte("x")),
        Set(X5, 1), Mov(X6, Va("y")), Str(X0, X1), Set(X7, 1), Str(X3, X4), Str(X5, X6), Str(X7, Out(1))>>,
        {0, 1, 2, 3, 4, 5, 6, 7, 8}, 1, <<>>, <<>>),
      ThreadH(<<Mov(X1, Va("y")), Mov(X3, Va("x")), Ldr(X0, X1), Ldr(X2, X3), Str(X0, Out(2)),
        Str(X2, Out(3))>>, {0, 1, 2, 3, 10}, 0, <<Set(X2, 2)>> \o EretToNext(X10), <<>>),
      Thread(OutIs(<<Set(X0, 1), Str(X0, Out(4))>>, 4, Imm(0)), {0, 1, 2, 3})>>,
    {<<1, 1, 0, 0>>, <<1, 1, 2, 0>>}, 4)

BBM1id_dsbtlbiisdsbdsb_dsbisb ==
  Test("MP.BBM1.id+dsb-tlbiis-dsb-dsb+dsb-isb", <<"x", "y", "z">>, <<"p1:x0", "p1:x2">>,
    <<InitVar("x", 0), InitVar("y", 0), InitVar("z", 1), InitIdentityMap("x"), InitIdentityMap("y"),
      InitIdentityMap("z")>>,
    <<ThreadH(<<Set(X0, 0), Mov(X1, Pte("x")), Mov(X2, Page("x")), Mov(X3, Desc("z")), Mov(X4, Pte("x")),
        Set(X5, 1), Mov(X6, Va("y")), Str(X0, X1), Str(X3, X4), Str(X5, X6)>>, {0, 1, 2, 3, 4, 5, 6}, 1, <<>>,
        <<>>),
      ThreadH(<<Mov(X1, Va("y")), Mov(X3, Va("x")), Ldr(X0, X1), Ldr(X2, X3), Str(X0, Out(1)),
        Str(X2, Out(2))>>, {0, 1, 2, 3, 10}, 0, <<Set(X2, 2)>> \o EretToNext(X10), <<>>)>>,
    {<<1, 0>>, <<1, 2>>}, 4)

BBM1id_dsbtlbiisdsbdsb_dsb ==
  Test("MP.BBM1.id+dsb-tlbiis-dsb-dsb+dsb", <<"x", "y", "z">>, <<"p1:x0", "p1:x2">>,
    <<InitVar("x", 0), InitVar("y", 0), InitVar("z", 1), InitIdentityMap("x"), InitIdentityMap("y"),
      InitIdentityMap("z")>>,
    <<ThreadH(<<Set(X0, 0), Mov(X1, Pte("x")), Mov(X2, Page("x")), Mov(X3, Desc("z")), Mov(X4, Pte("x")),
        Set(X5, 1), Mov(X6, Va("y")), Str(X0, X1), Str(X3, X4), Str(X5, X6)>>, {0, 1, 2, 3, 4, 5, 6}, 1, <<>>,
        <<>>),
      ThreadH(<<Mov(X1, Va("y")), Mov(X3, Va("x")), Ldr(X0, X1), Ldr(X2, X3), Str(X0, Out(1)),
        Str(X2, Out(2))>>, {0, 1, 2, 3, 10}, 0, <<Set(X2, 2)>> \o EretToNext(X10), <<>>)>>,
    {<<1, 0>>, <<1, 2>>}, 4)

BBMTests == {MPBBM_dmbdmb_dmb, BBM1_dmblddsbtlbiisdsbisbdsbisb_dsbisb, BBM1_dmbldtlbiisdsbisbdsbisb_dsbisb,
  BBM1_podetourdsbtlbiisdsbisbdsbisb_dsbisb, BBM1_dmbtlbiisdmbdmb_dmb, BBM1_dsbisbtlbiisdsbisbdsbisb_dsbisb,
  MPBBM1_dsbtlbiisdsbdmb_dmb, BBM1_dsbtlbiisdsbdsb_addr, BBM1_dsbtlbiisdsbdsb_dsbisb,
  BBM1_dsbtlbiisdsbdsb_dsb, BBM1_dsbtlbiisdsbdsbisb_dsbisb, BBM1_dsbtlbiisdsbdsbisb_dsb,
  BBM1_podsbtlbiisdsbisbdsbisb_dsbisb, BBM1_potlbiispopo_po, BBM1_tlbiisdsbdsb_dsbisb,
  BBM1dud_podetourdsbtlbiisdsbisbdsbisb_dsbisb, BBM1dud_dsbtlbiisdsbisbdsbisb_dsbisb,
  BBM1id_dsbtlbiisdsbdsb_dsbisb, BBM1id_dsbtlbiisdsbdsb_dsb}
===============================================================================
