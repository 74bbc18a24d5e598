---------------------------- MODULE LitmusData ----------------------------
(* Tests of litmus/litmus_tests/data and amo: plain and atomic accesses. *)
EXTENDS LitmusAsm

MP_pop_amoswap_pl_coi_addr ==
  Test("MP+po_p_amoswap_pl-coi+addr", <<"x", "y">>, <<"p1:x2", "p1:x4">>,
    <<InitVar("x", 0), InitVar("y", 0)>>,
    <<Thread(<<Mov(X0, Va("x")), Mov(X1, Va("y")), Set(X2, 1), Set(X3, 0), Set(X4, 0), Str(X2, X0),
        Cas(X3, X4, X1), Str(X2, X1)>>, {0, 1, 2, 3, 4}),
      Thread(<<Mov(X0, Va("x")), Mov(X1, Va("y")), Ldr(X2, X1), Eor(X3, X2, X2), Ldrx(X4, X0, X3),
        Str(X0, Out(1)), Str(X2, Out(2))>>, {0, 1, 2, 3, 4})>>,
    {<<1, 0>>}, 3)

LB_pos ==
  Test("LB+pos", <<"x", "y">>, <<"p0:x2", "p1:x2">>,
    <<InitVar("x", 0), InitVar("y", 0)>>,
    <<Thread(<<Mov(X1, Va("x")), Set(X2, 1), Mov(X3, Va("y")), Ldr(X0, X1), Str(X2, X3), Str(X0, Out(1))>>,
        {0, 1, 2, 3}),
      Thread(<<Mov(X1, Va("y")), Set(X2, 1), Mov(X3, Va("x")), Ldr(X0, X1), Str(X2, X3), Str(X0, Out(2))>>,
        {0, 1, 2, 3})>>,
    {<<1, 1>>}, 3)

MP_dmb_po ==
  Test("MP+dmb+po", <<"x", "y">>, <<"p1:x0", "p1:x2">>,
    <<InitVar("x", 0), InitVar("y", 0)>>,
    <<Thread(<<Set(X0, 1), Str(X0, Va("x")), Set(X2, 1), Str(X2, Va("y"))>>, {0, 2}),
      Thread(<<Ldr(C0, Va("y")), Ldr(C1, Va("x")), Str(C0, Out(1)), Str(C1, Out(2))>>, {})>>,
    {<<1, 0>>}, 3)

MP_dmbs ==
  Test("MP+dmbs", <<"x", "y">>, <<"p1:x0", "p1:x2">>,
    <<InitVar("x", 0), InitVar("y", 0)>>,
    <<Thread(<<Set(X0, 1), Str(X0, Va("x")), Set(X2, 1), Str(X2, Va("y"))>>, {0, 2}),
      Thread(<<Ldr(C0, Va("y")), Ldr(C1, Va("x")), Str(C0, Out(1)), Str(C1, Out(2))>>, {})>>,
    {<<1, 0>>}, 3)

MP_po_dmb ==
  Test("MP+po+dmb", <<"x", "y">>, <<"p1:x0", "p1:x2">>,
    <<InitVar("x", 0), InitVar("y", 0)>>,
    <<Thread(<<Set(X0, 1), Str(X0, Va("x")), Set(X2, 1), Str(X2, Va("y"))>>, {0, 2}),
      Thread(<<Ldr(C0, Va("y")), Ldr(C1, Va("x")), Str(C0, Out(1)), Str(C1, Out(2))>>, {})>>,
    {<<1, 0>>}, 3)

MP_podata_dmb ==
  Test("MP+po-data+dmb", <<"x", "y">>, <<"p1:x0", "p1:x2">>,
    <<InitVar("x", 0), InitVar("y", 0)>>,
    <<Thread(<<Set(X0, 1), Mov(X1, Va("x")), Mov(X3, Va("x")), Mov(X5, Va("y")), Str(X0, X1), Ldr(X2, X3),
        Mov(X4, X2), Str(X4, X5)>>, {0, 1, 2, 3, 4, 5}),
      Thread(<<Mov(X1, Va("y")), Mov(X3, Va("x")), Ldr(X0, X1), Ldr(X2, X3), Str(X0, Out(1)),
        Str(X2, Out(2))>>, {0, 1, 2, 3})>>,
    {<<1, 0>>}, 3)

MP_pos ==
  Test("MP+pos", <<"x", "y">>, <<"p1:x0", "p1:x2">>,
    <<InitVar("x", 0), InitVar("y", 0)>>,
    <<Thread(<<Mov(X1, Va("x")), Mov(X3, Va("y")), Set(X0, 1), Str(X0, X1), Set(X2, 1), Str(X2, X3)>>,
        {0, 1, 2, 3}),
      Thread(<<Mov(X1, Va("y")), Mov(X3, Va("x")), Ldr(X0, X1), Ldr(X2, X3), Str(X0, Out(1)),
        Str(X2, Out(2))>>, {0, 1, 2, 3})>>,
    {<<1, 0>>}, 3)

MP_rfidata_dmb ==
  Test("MP+rfi-data+dmb", <<"x", "y">>, <<"p0:x2", "p1:x0", "p1:x2">>,
    <<InitVar("x", 0), InitVar("y", 0)>>,
    <<Thread(<<Set(X0, 1), Mov(X1, Va("x")), Mov(X3, Va("x")), Mov(X5, Va("y")), Str(X0, X1), Ldr(X2, X3),
        Mov(X4, X2), Str(X4, X5), Str(X2, Out(1))>>, {0, 1, 2, 3, 4, 5}),
      Thread(<<Mov(X1, Va("y")), Mov(X3, Va("x")), Ldr(X0, X1), Ldr(X2, X3), Str(X0, Out(2)),
        Str(X2, Out(3))>>, {0, 1, 2, 3})>>,
    {<<1, 1, 0>>}, 3)

SB_dmbs ==
  Test("SB+dmbs", <<"x", "y">>, <<"p0:x2", "p1:x2">>,
    <<InitVar("x", 0), InitVar("y", 0)>>,
    <<Thread(<<Mov(X1, Va("x")), Mov(X3, Va("y")), Set(X0, 1), Str(X0, X1), Ldr(X2, X3), Str(X2, Out(1))>>,
        {0, 1, 2, 3}),
      Thread(<<Mov(X1, Va("y")), Mov(X3, Va("x")), Set(X0, 1), Str(X0, X1), Ldr(X2, X3), Str(X2, Out(2))>>,
        {0, 1, 2, 3})>>,
    {<<0, 0>>}, 3)

(* Mutation of SB_pos: each thread loads before it stores. *)
SB_posLoadsFirst ==
  Test("SB+pos", <<"x", "y">>, <<"p0:x2", "p1:x2">>,
    <<InitVar("x", 0), InitVar("y", 0)>>,
    <<Thread(<<Set(X0, 1), Mov(X1, Va("x")), Mov(X3, Va("y")), Ldr(X2, X3), Str(X0, X1), Str(X2, Out(1))>>,
        {0, 1, 2, 3}),
      Thread(<<Set(X0, 1), Mov(X1, Va("y")), Mov(X3, Va("x")), Ldr(X2, X3), Str(X0, X1), Str(X2, Out(2))>>,
        {0, 1, 2, 3})>>,
    {<<0, 0>>}, 3)

SB_pos ==
  Test("SB+pos", <<"x", "y">>, <<"p0:x2", "p1:x2">>,
    <<InitVar("x", 0), InitVar("y", 0)>>,
    <<Thread(<<Set(X0, 1), Mov(X1, Va("x")), Mov(X3, Va("y")), Str(X0, X1), Ldr(X2, X3), Str(X2, Out(1))>>,
        {0, 1, 2, 3}),
      Thread(<<Set(X0, 1), Mov(X1, Va("y")), Mov(X3, Va("x")), Str(X0, X1), Ldr(X2, X3), Str(X2, Out(2))>>,
        {0, 1, 2, 3})>>,
    {<<0, 0>>}, 3)

WRC_addrs ==
  Test("WRC+addrs", <<"x", "y">>, <<"p1:x0", "p2:x0", "p2:x2">>,
    <<InitVar("x", 0), InitVar("y", 0)>>,
    <<Thread(<<Set(X0, 1), Mov(X1, Va("x")), Str(X0, X1)>>, {0, 1}),
      Thread(<<Mov(X1, Va("x")), Set(X2, 1), Mov(X3, Va("y")), Ldr(X0, X1), Eor(X4, X0, X0), Add(X4, X4, X3),
        Str(X2, X4), Str(X0, Out(1))>>, {0, 1, 2, 3, 4}),
      Thread(<<Mov(X1, Va("y")), Mov(X3, Va("x")), Ldr(X0, X1), Eor(X4, X0, X0), Add(X4, X4, X3), Ldr(X2, X4),
        Str(X0, Out(2)), Str(X2, Out(3))>>, {0, 1, 2, 3, 4})>>,
    {<<1, 1, 0>>}, 7)

WRC_pos ==
  Test("WRC+pos", <<"x", "y">>, <<"p1:x0", "p2:x0", "p2:x2">>,
    <<InitVar("x", 0), InitVar("y", 0)>>,
    <<Thread(<<Set(X0, 1), Mov(X1, Va("x")), Str(X0, X1)>>, {0, 1}),
      Thread(<<Mov(X1, Va("x")), Set(X2, 1), Mov(X3, Va("y")), Ldr(X0, X1), Str(X2, X3), Str(X0, Out(1))>>,
        {0, 1, 2, 3}),
      Thread(<<Mov(X1, Va("y")), Mov(X3, Va("x")), Ldr(X0, X1), Ldr(X2, X3), Str(X0, Out(2)),
        Str(X2, Out(3))>>, {0, 1, 2, 3})>>,
    {<<1, 1, 0>>}, 7)

DataTests == {MP_pop_amoswap_pl_coi_addr, LB_pos, MP_dmb_po, MP_dmbs, MP_po_dmb, MP_podata_dmb, MP_pos,
  MP_rfidata_dmb, SB_dmbs, SB_pos, WRC_addrs, WRC_pos}
===============================================================================
