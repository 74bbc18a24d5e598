---------------------------- MODULE LitmusExc ----------------------------
(* Tests of litmus/litmus_tests/exc: exceptions, and what they order. *)
EXTENDS LitmusAsm

LB_svcdmberets ==
  Test("LB+svc-dmb-erets", <<"x", "y">>, <<"p0:x0", "p1:x0">>,
    <<InitVar("x", 0), InitVar("y", 0)>>,
    <<ThreadH(<<Set(X2, 1), Mov(X1, Va("x")), Mov(X3, Va("y")), Ldr(X0, X1), Svc(0), Str(X2, X3),
        Str(X0, Out(1))>>, {0, 1, 2, 3}, 0, <<Eret>>, <<>>),
      ThreadH(<<Set(X2, 1), Mov(X1, Va("y")), Mov(X3, Va("x")), Ldr(X0, X1), Svc(0), Str(X2, X3),
        Str(X0, Out(2))>>, {0, 1, 2, 3, 4, 5, 6, 7}, 0, <<Eret>>, <<>>)>>,
    {<<1, 1>>}, 3)

LB_svcerets ==
  Test("LB+svc-erets", <<"x", "y">>, <<"p0:x0", "p1:x0">>,
    <<InitVar("x", 0), InitVar("y", 0)>>,
    <<ThreadH(<<Set(X2, 1), Mov(X1, Va("x")), Mov(X3, Va("y")), Ldr(X0, X1), Svc(0), Str(X2, X3),
        Str(X0, Out(1))>>, {0, 1, 2, 3}, 0, <<Eret>>, <<>>),
      ThreadH(<<Set(X2, 1), Mov(X1, Va("y")), Mov(X3, Va("x")), Ldr(X0, X1), Svc(0), Str(X2, X3),
        Str(X0, Out(2))>>, {0, 1, 2, 3, 4, 5, 6, 7}, 0, <<Eret>>, <<>>)>>,
    {<<1, 1>>}, 3)

LB_svcs ==
  Test("LB+svcs", <<"x", "y">>, <<"p0:x0", "p1:x0">>,
    <<InitVar("x", 0), InitVar("y", 0)>>,
    <<ThreadH(<<Set(X2, 1), Mov(X1, Va("x")), Mov(X3, Va("y")), Ldr(X0, X1), Svc(0), Str(X0, Out(1))>>,
        {0, 1, 2, 3}, 0, <<Str(X2, X3), Eret>>, <<>>),
      ThreadH(<<Set(X2, 1), Mov(X1, Va("y")), Mov(X3, Va("x")), Ldr(X0, X1), Svc(0), Str(X0, Out(2))>>,
        {0, 1, 2, 3, 4, 5, 6, 7}, 0, <<Str(X2, X3), Eret>>, <<>>)>>,
    {<<1, 1>>}, 3)

MP_daifset_dmb ==
  Test("MP+daifset+dmb", <<"x", "y">>, <<"p1:x0", "p1:x2">>,
    <<InitVar("x", 0), InitVar("y", 0)>>,
    <<ThreadH(<<Set(X0, 1), Str(X0, Va("x")), Set(X2, 1), Str(X2, Va("y"))>>, {0, 2}, 1, <<>>, <<>>),
      ThreadH(<<Mov(X1, Va("y")), Mov(X3, Va("x")), Ldr(X0, X1), Ldr(X2, X3), Str(X0, Out(1)),
        Str(X2, Out(2))>>, {0, 1, 2, 3, 4, 5, 6, 7}, 1, <<>>, <<>>)>>,
    {<<1, 0>>}, 0)

MP_dmb_ctrleret ==
  Test("MP+dmb+ctrl-eret", <<"x", "y">>, <<"p1:x0", "p1:x2">>,
    <<InitVar("x", 0), InitVar("y", 0)>>,
    <<Thread(<<Set(X0, 1), Str(X0, Va("x")), Set(X2, 1), Str(X2, Va("y"))>>, {0, 2}),
      ThreadH(<<Mov(X1, Va("y")), Mov(X3, Va("x")), Svc(0), Ldr(X2, X3), Str(X0, Out(1)), Str(X2, Out(2))>>,
        {0, 1, 2, 3, 4, 5, 6, 7}, 0, <<Ldr(X0, X1), Cbz(X0, 3), Eret>>, <<>>)>>,
    {<<1, 0>>}, 3)

MP_dmb_ctrlrfisvceretaddr ==
  Test("MP+dmb+ctrl-rfisvceret-addr", <<"x", "y", "z">>, <<"p1:x0", "p1:x2", "p1:x4">>,
    <<InitVar("x", 0), InitVar("y", 0), InitVar("z", 0)>>,
    <<Thread(<<Set(X0, 1), Str(X0, Va("x")), Set(X2, 1), Str(X2, Va("y"))>>, {0, 2}),
      ThreadH(<<Mov(X1, Va("y")), Mov(X3, Va("x")), Mov(X5, Va("z")), Ldr(X0, X1), Cbz(X0, 6), Set(X4, 1),
        Str(X4, X5), Svc(0), Ldr(X4, X5), Eor(X6, X4, X4), Ldrx(X2, X3, X6), Str(X0, Out(1)), Str(X2, Out(2)),
        Str(X4, Out(3))>>, {0, 1, 2, 3, 4, 5, 6, 7}, 0, <<Eret>>, <<>>)>>,
    {<<1, 0, 1>>}, 3)

MP_dmb_ctrl_svc ==
  Test("MP+dmb+ctrl-svc", <<"x", "y">>, <<"p1:x0", "p1:x2">>,
    <<InitVar("x", 0), InitVar("y", 0)>>,
    <<Thread(<<Set(X0, 1), Str(X0, Va("x")), Set(X2, 1), Str(X2, Va("y"))>>, {0, 2}),
      ThreadH(<<Mov(X1, Va("y")), Mov(X3, Va("x")), Ldr(X0, X1), Cbz(X0, 5), Svc(0), Str(X0, Out(1)),
        Str(X2, Out(2))>>, {0, 1, 2, 3, 4, 5, 6, 7}, 0, <<Ldr(X2, X3), Eret>>, <<>>)>>,
    {<<1, 0>>}, 3)

MP_dmb_ctrlelr ==
  Test("MP+dmb+ctrlelr", <<"x", "y">>, <<"p1:x0", "p1:x2">>,
    <<InitVar("x", 0), InitVar("y", 0)>>,
    <<Thread(<<Set(X0, 1), Str(X0, Va("x")), Set(X2, 1), Str(X2, Va("y"))>>, {0, 2}),
      ThreadH(<<Mov(X1, Va("y")), Mov(X3, Va("x")), Svc(0), Ldr(X2, X3), Str(X0, Out(1)), Str(X2, Out(2))>>,
        {0, 1, 2, 3, 4, 5, 6, 7}, 0, <<Ldr(X0, X1), Mov(X4, Elr), Eor(X5, X0, X0), Add(X4, X4, X5),
        MsrElr(X4), Eret>>, <<>>)>>,
    {<<1, 0>>}, 0)

MP_dmb_daifset ==
  Test("MP+dmb+daifset", <<"x", "y">>, <<"p1:x0", "p1:x2">>,
    <<InitVar("x", 0), InitVar("y", 0)>>,
    <<ThreadH(<<Set(X0, 1), Str(X0, Va("x")), Set(X2, 1), Str(X2, Va("y"))>>, {0, 2}, 1, <<>>, <<>>),
      ThreadH(<<Mov(X1, Va("y")), Mov(X3, Va("x")), Ldr(X0, X1), Ldr(X2, X3), Str(X0, Out(1)),
        Str(X2, Out(2))>>, {0, 1, 2, 3, 4, 5, 6, 7}, 1, <<>>, <<>>)>>,
    {<<1, 0>>}, 0)

MP_dmb_datasvc ==
  Test("MP+dmb+data-svc", <<"x", "y", "z">>, <<"p1:x0", "p1:x2">>,
    <<InitVar("x", 0), InitVar("y", 0), InitVar("z", 0)>>,
    <<Thread(<<Set(X0, 1), Str(X0, Va("x")), Set(X2, 1), Str(X2, Va("y"))>>, {0, 2}),
      ThreadH(<<Mov(X1, Va("y")), Mov(X3, Va("x")), Mov(X5, Va("z")), Ldr(X0, X1), Mov(X4, X0), Str(X4, X5),
        Svc(0), Str(X0, Out(1)), Str(X2, Out(2))>>, {0, 1, 2, 3, 4, 5, 6, 7}, 0, <<Ldr(X2, X3), Eret>>,
        <<>>)>>,
    {<<1, 0>>}, 3)

MP_dmb_dmberet ==
  Test("MP+dmb+dmb-eret", <<"x", "y">>, <<"p1:x0", "p1:x2">>,
    <<InitVar("x", 0), InitVar("y", 0)>>,
    <<Thread(<<Set(X0, 1), Str(X0, Va("x")), Set(X2, 1), Str(X2, Va("y"))>>, {0, 2}),
      ThreadH(<<Mov(X1, Va("y")), Mov(X3, Va("x")), Svc(0), Ldr(X2, X3), Str(X0, Out(1)), Str(X2, Out(2))>>,
        {0, 1, 2, 3, 4, 5, 6, 7}, 0, <<Ldr(X0, X1), Eret>>, <<>>)>>,
    {<<1, 0>>}, 3)

MP_dmb_eretdmb ==
  Test("MP+dmb+eret-dmb", <<"x", "y">>, <<"p1:x0", "p1:x2">>,
    <<InitVar("x", 0), InitVar("y", 0)>>,
    <<Thread(<<Set(X0, 1), Str(X0, Va("x")), Set(X2, 1), Str(X2, Va("y"))>>, {0, 2}),
      ThreadH(<<Mov(X1, Va("y")), Mov(X3, Va("x")), Svc(0), Ldr(X2, X3), Str(X0, Out(1)), Str(X2, Out(2))>>,
        {0, 1, 2, 3, 4, 5, 6, 7}, 0, <<Ldr(X0, X1), Eret>>, <<>>)>>,
    {<<1, 0>>}, 0)

MP_dmb_eretsvc ==
  Test("MP+dmb+eret-svc", <<"x", "y">>, <<"p1:x0", "p1:x2">>,
    <<InitVar("x", 0), InitVar("y", 0)>>,
    <<Thread(<<Mov(X4, Va("x")), Mov(X6, Va("y")), Set(X0, 1), Str(X0, X4), Set(X2, 1), Str(X2, X6)>>,
        {0, 2, 4, 6}),
      ThreadH(<<Mov(X1, Va("y")), Mov(X3, Va("x")), Svc(0), Svc(1), Str(X0, Out(1)), Str(X2, Out(2))>>,
        {0, 1, 2, 3, 4, 5, 6, 7}, 0, <<Mov(X4, Esr), Band(X4, X4, Imm(1)), Cbnz(X4, 6), Ldr(X0, X1), Eret,
        Ldr(X2, X3), Eret>>, <<>>)>>,
    {<<1, 0>>}, 3)

MP_dmb_eret ==
  Test("MP+dmb+eret", <<"x", "y">>, <<"p1:x0", "p1:x2">>,
    <<InitVar("x", 0), InitVar("y", 0)>>,
    <<Thread(<<Set(X0, 1), Str(X0, Va("x")), Set(X2, 1), Str(X2, Va("y"))>>, {0, 2}),
      ThreadH(<<Mov(X1, Va("y")), Mov(X3, Va("x")), Svc(0), Ldr(X2, X3), Str(X0, Out(1)), Str(X2, Out(2))>>,
        {0, 1, 2, 3, 4, 5, 6, 7}, 0, <<Ldr(X0, X1), Eret>>, <<>>)>>,
    {<<1, 0>>}, 0)

MP_dmb_eretaddr ==
  Test("MP+dmb+eret=addr", <<"x", "y">>, <<"p1:x0", "p1:x2">>,
    <<InitVar("x", 0), InitVar("y", 0)>>,
    <<Thread(<<Set(X0, 1), Str(X0, Va("x")), Set(X2, 1), Str(X2, Va("y"))>>, {0, 2}),
      ThreadH(<<Mov(X1, Va("y")), Mov(X3, Va("x")), Svc(0), Eor(X4, X0, X0), Ldrx(X2, X3, X4),
        Str(X0, Out(1)), Str(X2, Out(2))>>, {0, 1, 2, 3, 4, 5, 6, 7}, 0, <<Ldr(X0, X1), Eret>>, <<>>)>>,
    {<<1, 0>>}, 3)

MP_dmb_svcaddreret ==
  Test("MP+dmb+svc-addreret", <<"x", "y", "z">>, <<"p1:x0", "p1:x2">>,
    <<InitVar("x", 0), InitVar("y", 0), InitVar("z", 0)>>,
    <<Thread(<<Set(X0, 1), Str(X0, Va("x")), Set(X2, 1), Str(X2, Va("y"))>>, {0, 2}),
      ThreadH(<<Mov(X1, Va("y")), Mov(X3, Va("x")), Mov(X5, Va("z")), Ldr(X0, X1), Svc(0), Ldr(X2, X3),
        Str(X0, Out(1)), Str(X2, Out(2))>>, {0, 1, 2, 3, 4, 5, 6, 7, 8, 10}, 0, <<Ldr(X4, X5), Mov(X6, Elr),
        Eor(X8, X4, X4), Add(X10, X6, X8), MsrElr(X10), Eret>>, <<>>)>>,
    {<<1, 0>>}, 3)

MP_dmb_svcdmberet ==
  Test("MP+dmb+svc-dmb-eret", <<"x", "y">>, <<"p1:x0", "p1:x2">>,
    <<InitVar("x", 0), InitVar("y", 0)>>,
    <<Thread(<<Set(X0, 1), Str(X0, Va("x")), Set(X2, 1), Str(X2, Va("y"))>>, {0, 2}),
      ThreadH(<<Mov(X1, Va("y")), Mov(X3, Va("x")), Ldr(X0, X1), Svc(0), Ldr(X2, X3), Str(X0, Out(1)),
        Str(X2, Out(2))>>, {0, 1, 2, 3, 4, 5, 6, 7}, 0, <<Eret>>, <<>>)>>,
    {<<1, 0>>}, 3)

MP_dmb_svcdmb ==
  Test("MP+dmb+svc-dmb", <<"x", "y">>, <<"p1:x0", "p1:x2">>,
    <<InitVar("x", 0), InitVar("y", 0)>>,
    <<Thread(<<Set(X0, 1), Str(X0, Va("x")), Set(X2, 1), Str(X2, Va("y"))>>, {0, 2}),
      ThreadH(<<Mov(X1, Va("y")), Mov(X3, Va("x")), Ldr(X0, X1), Svc(0), Str(X0, Out(1)), Str(X2, Out(2))>>,
        {0, 1, 2, 3, 4, 5, 6, 7}, 0, <<Ldr(X2, X3), Eret>>, <<>>)>>,
    {<<1, 0>>}, 0)

MP_dmb_svceret ==
  Test("MP+dmb+svc-eret", <<"x", "y">>, <<"p1:x0", "p1:x2">>,
    <<InitVar("x", 0), InitVar("y", 0)>>,
    <<Thread(<<Set(X0, 1), Str(X0, Va("x")), Set(X2, 1), Str(X2, Va("y"))>>, {0, 2}),
      ThreadH(<<Mov(X1, Va("y")), Mov(X3, Va("x")), Ldr(X0, X1), Svc(0), Ldr(X2, X3), Str(X0, Out(1)),
        Str(X2, Out(2))>>, {0, 1, 2, 3, 4, 5, 6, 7}, 0, <<Eret>>, <<>>)>>,
    {<<1, 0>>}, 3)

MP_dmb_svc ==
  Test("MP+dmb+svc", <<"x", "y">>, <<"p1:x0", "p1:x2">>,
    <<InitVar("x", 0), InitVar("y", 0)>>,
    <<Thread(<<Set(X0, 1), Str(X0, Va("x")), Set(X2, 1), Str(X2, Va("y"))>>, {0, 2}),
      ThreadH(<<Mov(X1, Va("y")), Mov(X3, Va("x")), Ldr(X0, X1), Svc(0), Str(X0, Out(1)), Str(X2, Out(2))>>,
        {0, 1, 2, 3, 4, 5, 6, 7}, 0, <<Ldr(X2, X3), Eret>>, <<>>)>>,
    {<<1, 0>>}, 0)

MP_dmb_svcnoeis ==
  Test("MP+dmb+svcnoeis", <<"x", "y">>, <<"p1:x0", "p1:x2">>,
    <<InitVar("x", 0), InitVar("y", 0)>>,
    <<Thread(<<Set(X0, 1), Str(X0, Va("x")), Set(X2, 1), Str(X2, Va("y"))>>, {0, 2}),
      ThreadH(<<Mov(X1, Va("y")), Mov(X3, Va("x")), Set(X4, 0), Svc(0), Ldr(X0, X1), Svc(0), Svc(0),
        Str(X0, Out(1)), Str(X2, Out(2))>>, {0, 1, 2, 3, 4, 5, 6, 7}, 0, <<Cmp(X4, 0), Beq(6), Cmp(X4, 1),
        Beq(10), B(12), Mov(X5, Sys), Set(X6, 0), Mov(X5, Sys), B(15), Ldr(X2, X3), B(15), Mov(X5, Sys),
        Set(X6, 1), Mov(X5, Sys), Add(X4, X4, Imm(1)), Eret>>, <<>>)>>,
    {<<1, 0>>}, 0)

MP_eret_addr ==
  Test("MP+eret+addr", <<"x", "y">>, <<"p1:x0", "p1:x2">>,
    <<InitVar("x", 0), InitVar("y", 0)>>,
    <<ThreadH(<<Mov(X1, Va("x")), Mov(X3, Va("y")), Svc(0), Set(X2, 1), Str(X2, X3)>>, {0, 1, 2, 3}, 0,
        <<Set(X0, 1), Str(X0, X1), Eret>>, <<>>),
      Thread(<<Mov(X1, Va("y")), Mov(X3, Va("x")), Ldr(X0, X1), Eor(X4, X0, X0), Ldrx(X2, X3, X4),
        Str(X0, Out(1)), Str(X2, Out(2))>>, {0, 1, 2, 3, 4, 5, 6, 7})>>,
    {<<1, 0>>}, 3)

MP_eret_dmb ==
  Test("MP+eret+dmb", <<"x", "y">>, <<"p1:x0", "p1:x2">>,
    <<InitVar("x", 0), InitVar("y", 0)>>,
    <<ThreadH(<<Mov(X1, Va("x")), Mov(X3, Va("y")), Svc(0), Set(X2, 1), Str(X2, X3)>>, {0, 1, 2, 3}, 0,
        <<Set(X0, 1), Str(X0, X1), Eret>>, <<>>),
      Thread(<<Mov(X1, Va("y")), Mov(X3, Va("x")), Ldr(X0, X1), Ldr(X2, X3), Str(X0, Out(1)),
        Str(X2, Out(2))>>, {0, 1, 2, 3, 4, 5, 6, 7})>>,
    {<<1, 0>>}, 3)

MP_eret_svc ==
  Test("MP+eret+svc", <<"x", "y">>, <<"p1:x0", "p1:x2">>,
    <<InitVar("x", 0), InitVar("y", 0)>>,
    <<ThreadH(<<Mov(X1, Va("x")), Mov(X3, Va("y")), Svc(0), Set(X2, 1), Str(X2, X3)>>, {0, 1, 2, 3}, 0,
        <<Set(X0, 1), Str(X0, X1), Eret>>, <<>>),
      ThreadH(<<Mov(X1, Va("y")), Mov(X3, Va("x")), Ldr(X0, X1), Svc(0), Str(X0, Out(1)), Str(X2, Out(2))>>,
        {0, 1, 2, 3, 4, 5, 6, 7}, 0, <<Ldr(X2, X3), Eret>>, <<>>)>>,
    {<<1, 0>>}, 3)

MP_erets ==
  Test("MP+erets", <<"x", "y">>, <<"p1:x0", "p1:x2">>,
    <<InitVar("x", 0), InitVar("y", 0)>>,
    <<ThreadH(<<Mov(X4, Va("x")), Mov(X6, Va("y")), Svc(0), Set(X2, 1), Str(X2, X6)>>, {0, 2, 4, 6}, 0,
        <<Set(X0, 1), Str(X0, X4), Eret>>, <<>>),
      ThreadH(<<Mov(X1, Va("y")), Mov(X3, Va("x")), Svc(0), Ldr(X2, X3), Str(X0, Out(1)), Str(X2, Out(2))>>,
        {0, 1, 2, 3, 4, 5, 6, 7}, 0, <<Ldr(X0, X1), Eret>>, <<>>)>>,
    {<<1, 0>>}, 3)

MP_svc_addr ==
  Test("MP+svc+addr", <<"x", "y">>, <<"p1:x0", "p1:x2">>,
    <<InitVar("x", 0), InitVar("y", 0)>>,
    <<ThreadH(<<Mov(X1, Va("x")), Mov(X3, Va("y")), Set(X0, 1), Str(X0, X1), Svc(0)>>, {0, 1, 2, 3}, 0,
        <<Set(X2, 1), Str(X2, X3), Eret>>, <<>>),
      Thread(<<Mov(X1, Va("y")), Mov(X3, Va("x")), Ldr(X0, X1), Eor(X5, X0, X0), Ldrx(X2, X3, X5),
        Str(X0, Out(1)), Str(X2, Out(2))>>, {0, 1, 2, 3, 4, 5, 6, 7})>>,
    {<<1, 0>>}, 0)

MP_svc_dmb ==
  Test("MP+svc+dmb", <<"x", "y">>, <<"p1:x0", "p1:x2">>,
    <<InitVar("x", 0), InitVar("y", 0)>>,
    <<ThreadH(<<Mov(X1, Va("x")), Mov(X3, Va("y")), Set(X0, 1), Str(X0, X1), Svc(0)>>, {0, 1, 2, 3}, 0,
        <<Set(X2, 1), Str(X2, X3), Eret>>, <<>>),
      Thread(<<Mov(X1, Va("y")), Mov(X3, Va("x")), Ldr(X0, X1), Ldr(X2, X3), Str(X0, Out(1)),
        Str(X2, Out(2))>>, {0, 1, 2, 3, 4, 5, 6, 7})>>,
    {<<1, 0>>}, 0)

MP_svc_eret ==
  Test("MP+svc+eret", <<"x", "y">>, <<"p1:x0", "p1:x2">>,
    <<InitVar("x", 0), InitVar("y", 0)>>,
    <<ThreadH(<<Mov(X1, Va("x")), Mov(X3, Va("y")), Set(X0, 1), Str(X0, X1), Svc(0)>>, {0, 1, 2, 3}, 0,
        <<Set(X2, 1), Str(X2, X3), Eret>>, <<>>),
      ThreadH(<<Mov(X1, Va("y")), Mov(X3, Va("x")), Svc(0), Ldr(X2, X3), Str(X0, Out(1)), Str(X2, Out(2))>>,
        {0, 1, 2, 3, 4, 5, 6, 7}, 0, <<Ldr(X0, X1), Eret>>, <<>>)>>,
    {<<1, 0>>}, 3)

MP_svcdmb_addr ==
  Test("MP+svc-dmb+addr", <<"x", "y">>, <<"p1:x0", "p1:x2">>,
    <<InitVar("x", 0), InitVar("y", 0)>>,
    <<ThreadH(<<Mov(X1, Va("x")), Mov(X3, Va("y")), Set(X0, 1), Str(X0, X1), Svc(0)>>, {0, 1, 2, 3}, 0,
        <<Set(X2, 1), Str(X2, X3), Eret>>, <<>>),
      Thread(<<Mov(X1, Va("y")), Mov(X3, Va("x")), Ldr(X0, X1), Eor(X5, X0, X0), Ldrx(X2, X3, X5),
        Str(X0, Out(1)), Str(X2, Out(2))>>, {0, 1, 2, 3, 4, 5, 6, 7})>>,
    {<<1, 0>>}, 0)

MP_svcdmberet_addr ==
  Test("MP+svc-dmb-eret+addr", <<"x", "y">>, <<"p1:x0", "p1:x2">>,
    <<InitVar("x", 0), InitVar("y", 0)>>,
    <<ThreadH(<<Mov(X1, Va("x")), Mov(X3, Va("y")), Set(X0, 1), Str(X0, X1), Svc(0), Set(X2, 1),
        Str(X2, X3)>>, {0, 1, 2, 3}, 0, <<Eret>>, <<>>),
      Thread(<<Mov(X1, Va("y")), Mov(X3, Va("x")), Ldr(X0, X1), Eor(X5, X0, X0), Ldrx(X2, X3, X5),
        Str(X0, Out(1)), Str(X2, Out(2))>>, {0, 1, 2, 3, 4, 5, 6, 7})>>,
    {<<1, 0>>}, 0)

MP_svceret_addr ==
  Test("MP+svc-eret+addr", <<"x", "y">>, <<"p1:x0", "p1:x2">>,
    <<InitVar("x", 0), InitVar("y", 0)>>,
    <<ThreadH(<<Mov(X1, Va("x")), Mov(X3, Va("y")), Set(X0, 1), Str(X0, X1), Svc(0), Set(X2, 1),
        Str(X2, X3)>>, {0, 1, 2, 3}, 0, <<Eret>>, <<>>),
      Thread(<<Mov(X1, Va("y")), Mov(X3, Va("x")), Ldr(X0, X1), Eor(X5, X0, X0), Ldrx(X2, X3, X5),
        Str(X0, Out(1)), Str(X2, Out(2))>>, {0, 1, 2, 3, 4, 5, 6, 7})>>,
    {<<1, 0>>}, 0)

MP_svcerets ==
  Test("MP+svc-erets", <<"x", "y">>, <<"p1:x0", "p1:x2">>,
    <<InitVar("x", 0), InitVar("y", 0)>>,
    <<ThreadH(<<Mov(X4, Va("x")), Mov(X6, Va("y")), Set(X0, 1), Str(X0, X4), Svc(0), Set(X2, 1),
        Str(X2, X6)>>, {0, 2, 4, 6}, 0, <<Eret>>, <<>>),
      ThreadH(<<Mov(X1, Va("y")), Mov(X3, Va("x")), Ldr(X0, X1), Svc(0), Ldr(X2, X3), Str(X0, Out(1)),
        Str(X2, Out(2))>>, {0, 1, 2, 3, 4, 5, 6, 7}, 0, <<Eret>>, <<>>)>>,
    {<<1, 0>>}, 3)

MP_svcs ==
  Test("MP+svcs", <<"x", "y">>, <<"p1:x0", "p1:x2">>,
    <<InitVar("x", 0), InitVar("y", 0)>>,
    <<ThreadH(<<Mov(X4, Va("x")), Mov(X6, Va("y")), Set(X0, 1), Str(X0, X4), Svc(0)>>, {0, 2, 4, 6}, 0,
        <<Set(X2, 1), Str(X2, X6), Eret>>, <<>>),
      ThreadH(<<Mov(X1, Va("y")), Mov(X3, Va("x")), Ldr(X0, X1), Svc(0), Str(X0, Out(1)), Str(X2, Out(2))>>,
        {0, 1, 2, 3, 4, 5, 6, 7}, 0, <<Ldr(X2, X3), Eret>>, <<>>)>>,
    {<<1, 0>>}, 3)

MP1_dmb_ctrlvbarsvc ==
  Test("MP.EL1+dmb+ctrlvbarsvc", <<"x", "y">>, <<"p1:x0", "p1:x2">>,
    <<InitVar("x", 0), InitVar("y", 0)>>,
    <<Thread(<<Set(X0, 1), Str(X0, Va("x")), Set(X2, 1), Str(X2, Va("y"))>>, {0, 2}),
      ThreadH(<<Mov(X1, Va("y")), Mov(X3, Va("x")), Ldr(X0, X1), Mov(X4, Sys), Eor(X5, X0, X0),
        Add(X4, X4, X5), Svc(0), Str(X0, Out(1)), Str(X2, Out(2))>>, {0, 1, 2, 3, 4, 5, 6, 7}, 1, <<>>,
        <<Ldr(X2, X3), Eret>>)>>,
    {<<1, 0>>}, 0)

MPEL1_dmb_dataesrsvc ==
  Test("MP.EL1+dmb+dataesrsvc", <<"x", "y">>, <<"p1:x0", "p1:x2">>,
    <<InitVar("x", 0), InitVar("y", 0)>>,
    <<Thread(<<Set(X0, 1), Str(X0, Va("x")), Set(X2, 1), Str(X2, Va("y"))>>, {0, 2}),
      ThreadH(<<Mov(X1, Va("y")), Mov(X3, Va("x")), Ldr(X0, X1), Mov(X4, Esr), Eor(X5, X0, X0),
        Add(X5, X4, X4), Svc(0), Str(X0, Out(1)), Str(X2, Out(2))>>, {0, 1, 2, 3, 4, 5, 6, 7}, 1, <<>>,
        <<Ldr(X2, X3), Eret>>)>>,
    {<<1, 0>>}, 3)

MPEL1_dmb_eretsvc ==
  Test("MP.EL1+dmb+eret-svc", <<"x", "y">>, <<"p1:x0", "p1:x2">>,
    <<InitVar("x", 0), InitVar("y", 0)>>,
    <<Thread(<<Set(X0, 1), Str(X0, Va("x")), Set(X2, 1), Str(X2, Va("y"))>>, {0, 2}),
      ThreadH(<<Mov(X1, Va("y")), Mov(X3, Va("x")), Svc(0), Svc(1), Str(X0, Out(1)), Str(X2, Out(2))>>,
        {0, 1, 2, 3, 4, 5, 6, 7}, 1, <<>>, <<Mov(X4, Esr), Band(X4, X4, Imm(1)), Cbnz(X4, 6), Ldr(X0, X1),
        Eret, Ldr(X2, X3), Eret>>)>>,
    {<<1, 0>>}, 0)

MPEL1_dmb_eret ==
  Test("MP.EL1+dmb+eret", <<"x", "y">>, <<"p1:x0", "p1:x2">>,
    <<InitVar("x", 0), InitVar("y", 0)>>,
    <<Thread(<<Set(X0, 1), Str(X0, Va("x")), Set(X2, 1), Str(X2, Va("y"))>>, {0, 2}),
      ThreadH(<<Mov(X1, Va("y")), Mov(X3, Va("x")), Svc(0), Ldr(X2, X3), Str(X0, Out(1)), Str(X2, Out(2))>>,
        {0, 1, 2, 3, 4, 5, 6, 7}, 1, <<>>, <<Ldr(X0, X1), Eret>>)>>,
    {<<1, 0>>}, 0)

MPEL1_dmb_svceret ==
  Test("MP.EL1+dmb+svc-eret", <<"x", "y">>, <<"p1:x0", "p1:x2">>,
    <<InitVar("x", 0), InitVar("y", 0)>>,
    <<Thread(<<Set(X0, 1), Str(X0, Va("x")), Set(X2, 1), Str(X2, Va("y"))>>, {0, 2}),
      ThreadH(<<Mov(X1, Va("y")), Mov(X3, Va("x")), Ldr(X0, X1), Svc(0), Ldr(X2, X3), Str(X0, Out(1)),
        Str(X2, Out(2))>>, {0, 1, 2, 3, 4, 5, 6, 7}, 1, <<>>, <<Eret>>)>>,
    {<<1, 0>>}, 0)

MPEL1_dmb_svc ==
  Test("MP.EL1+dmb+svc", <<"x", "y">>, <<"p1:x0", "p1:x2">>,
    <<InitVar("x", 0), InitVar("y", 0)>>,
    <<Thread(<<Set(X0, 1), Str(X0, Va("x")), Set(X2, 1), Str(X2, Va("y"))>>, {0, 2}),
      ThreadH(<<Mov(X1, Va("y")), Mov(X3, Va("x")), Ldr(X0, X1), Svc(0), Str(X0, Out(1)), Str(X2, Out(2))>>,
        {0, 1, 2, 3, 4, 5, 6, 7}, 1, <<>>, <<Ldr(X2, X3), Eret>>)>>,
    {<<1, 0>>}, 0)

S_dmb_eret ==
  Test("S+dmb+eret", <<"x", "y">>, <<"p1:x0", "p2:x0", "p2:x2">>,
    <<InitVar("x", 0), InitVar("y", 0)>>,
    <<Thread(<<Mov(X4, Va("x")), Mov(X6, Va("y")), Set(X0, 2), Str(X0, X4), Set(X2, 1), Str(X2, X6)>>,
        {0, 2, 4, 6}),
      ThreadH(<<Mov(X1, Va("y")), Mov(X3, Va("x")), Svc(0), Set(X2, 1), Str(X2, X3), Str(X0, Out(1))>>,
        {0, 1, 2, 3, 4, 5, 6, 7}, 0, <<Ldr(X0, X1), Eret>>, <<>>),
      Thread(<<Mov(X3, Va("x")), Ldr(X0, X3), Ldr(X2, X3), Str(X0, Out(2)), Str(X2, Out(3))>>,
        {0, 1, 2, 3, 4, 5, 6, 7})>>,
    {<<1, 1, 2>>}, 12)

S_dmb_svc ==
  Test("S+dmb+svc", <<"x", "y">>, <<"p1:x0", "p2:x0", "p2:x2">>,
    <<InitVar("x", 0), InitVar("y", 0)>>,
    <<Thread(<<Mov(X4, Va("x")), Mov(X6, Va("y")), Set(X0, 2), Str(X0, X4), Set(X2, 1), Str(X2, X6)>>,
        {0, 2, 4, 6}),
      ThreadH(<<Mov(X1, Va("y")), Mov(X3, Va("x")), Ldr(X0, X1), Svc(0), Str(X0, Out(1))>>,
        {0, 1, 2, 3, 4, 5, 6, 7}, 0, <<Set(X2, 1), Str(X2, X3), Eret>>, <<>>),
      Thread(<<Mov(X3, Va("x")), Ldr(X0, X3), Ldr(X2, X3), Str(X0, Out(2)), Str(X2, Out(3))>>,
        {0, 1, 2, 3, 4, 5, 6, 7})>>,
    {<<1, 1, 2>>}, 12)

S_erets ==
  Test("S+erets", <<"x", "y">>, <<"p1:x0", "p2:x0", "p2:x2">>,
    <<InitVar("x", 0), InitVar("y", 0)>>,
    <<ThreadH(<<Mov(X4, Va("x")), Mov(X6, Va("y")), Svc(0), Set(X2, 1), Str(X2, X6)>>, {0, 2, 4, 6}, 0,
        <<Set(X0, 2), Str(X0, X4), Eret>>, <<>>),
      ThreadH(<<Mov(X1, Va("y")), Mov(X3, Va("x")), Svc(0), Set(X2, 1), Str(X2, X3), Str(X0, Out(1))>>,
        {0, 1, 2, 3, 4, 5, 6, 7}, 0, <<Ldr(X0, X1), Eret>>, <<>>),
      Thread(<<Mov(X3, Va("x")), Ldr(X0, X3), Ldr(X2, X3), Str(X0, Out(2)), Str(X2, Out(3))>>,
        {0, 1, 2, 3, 4, 5, 6, 7})>>,
    {<<1, 1, 2>>}, 12)

S_svcdmberets ==
  Test("S+svc-dmb-erets", <<"x", "y">>, <<"p1:x0", "p2:x0", "p2:x2">>,
    <<InitVar("x", 0), InitVar("y", 0)>>,
    <<ThreadH(<<Mov(X4, Va("x")), Mov(X6, Va("y")), Set(X0, 2), Str(X0, X4), Svc(0), Set(X2, 1),
        Str(X2, X6)>>, {0, 2, 4, 6}, 0, <<Eret>>, <<>>),
      ThreadH(<<Mov(X1, Va("y")), Mov(X3, Va("x")), Ldr(X0, X1), Svc(0), Set(X2, 1), Str(X2, X3),
        Str(X0, Out(1))>>, {0, 1, 2, 3, 4, 5, 6, 7}, 0, <<Eret>>, <<>>),
      Thread(<<Mov(X3, Va("x")), Ldr(X0, X3), Ldr(X2, X3), Str(X0, Out(2)), Str(X2, Out(3))>>,
        {0, 1, 2, 3, 4, 5, 6, 7})>>,
    {<<1, 1, 2>>}, 12)

S_svcerets ==
  Test("S+svc-erets", <<"x", "y">>, <<"p1:x0", "p2:x0", "p2:x2">>,
    <<InitVar("x", 0), InitVar("y", 0)>>,
    <<ThreadH(<<Mov(X4, Va("x")), Mov(X6, Va("y")), Set(X0, 2), Str(X0, X4), Svc(0), Set(X2, 1),
        Str(X2, X6)>>, {0, 2, 4, 6}, 0, <<Eret>>, <<>>),
      ThreadH(<<Mov(X1, Va("y")), Mov(X3, Va("x")), Ldr(X0, X1), Svc(0), Set(X2, 1), Str(X2, X3),
        Str(X0, Out(1))>>, {0, 1, 2, 3, 4, 5, 6, 7}, 0, <<Eret>>, <<>>),
      Thread(<<Mov(X3, Va("x")), Ldr(X0, X3), Ldr(X2, X3), Str(X0, Out(2)), Str(X2, Out(3))>>,
        {0, 1, 2, 3, 4, 5, 6, 7})>>,
    {<<1, 1, 2>>}, 12)

S_svcs ==
  Test("S+svcs", <<"x", "y">>, <<"p1:x0", "p2:x0", "p2:x2">>,
    <<InitVar("x", 0), InitVar("y", 0)>>,
    <<ThreadH(<<Mov(X4, Va("x")), Mov(X6, Va("y")), Set(X0, 2), Str(X0, X4), Svc(0)>>, {0, 2, 4, 6}, 0,
        <<Set(X2, 1), Str(X2, X6), Eret>>, <<>>),
      ThreadH(<<Mov(X1, Va("y")), Mov(X3, Va("x")), Ldr(X0, X1), Svc(0), Str(X0, Out(1))>>,
        {0, 1, 2, 3, 4, 5, 6, 7}, 0, <<Set(X2, 1), Str(X2, X3), Eret>>, <<>>),
      Thread(<<Mov(X3, Va("x")), Ldr(X0, X3), Ldr(X2, X3), Str(X0, Out(2)), Str(X2, Out(3))>>,
        {0, 1, 2, 3, 4, 5, 6, 7})>>,
    {<<1, 1, 2>>}, 12)

SB_daifsets ==
  Test("SB+daifsets", <<"x", "y">>, <<"p0:x2", "p1:x2">>,
    <<InitVar("x", 0), InitVar("y", 0)>>,
    <<ThreadH(<<Set(X0, 1), Mov(X1, Va("x")), Mov(X3, Va("y")), Str(X0, X1), Ldr(X2, X3), Str(X2, Out(1))>>,
        {0, 1, 2, 3}, 1, <<>>, <<>>),
      ThreadH(<<Set(X0, 1), Mov(X1, Va("y")), Mov(X3, Va("x")), Str(X0, X1), Ldr(X2, X3), Str(X2, Out(2))>>,
        {0, 1, 2, 3}, 1, <<>>, <<>>)>>,
    {<<0, 0>>}, 3)

SB_dmb_eret ==
  Test("SB+dmb+eret", <<"x", "y">>, <<"p0:x2", "p1:x2">>,
    <<InitVar("x", 0), InitVar("y", 0)>>,
    <<Thread(<<Set(X0, 1), Mov(X1, Va("x")), Mov(X3, Va("y")), Str(X0, X1), Ldr(X2, X3), Str(X2, Out(1))>>,
        {0, 1, 2, 3}),
      ThreadH(<<Set(X0, 1), Mov(X1, Va("y")), Mov(X3, Va("x")), Svc(0), Ldr(X2, X3), Str(X2, Out(2))>>,
        {0, 1, 2, 3, 4, 5, 6, 7}, 0, <<Str(X0, X1), Eret>>, <<>>)>>,
    {<<0, 0>>}, 0)

SB_dmb_rfictrleret ==
  Test("SB+dmb+rfi-ctrl-eret", <<"x", "y">>, <<"p0:x2", "p1:x2">>,
    <<InitVar("x", 0), InitVar("y", 0)>>,
    <<Thread(<<Set(X0, 1), Mov(X1, Va("x")), Mov(X3, Va("y")), Str(X0, X1), Ldr(X2, X3), Str(X2, Out(1))>>,
        {0, 1, 2, 3}),
      ThreadH(<<Set(X0, 1), Mov(X1, Va("y")), Mov(X3, Va("x")), Svc(0), Ldr(X2, X3), Str(X2, Out(2))>>,
        {0, 1, 2, 3, 4}, 0, <<Str(X0, X1), Ldr(X4, X1), Cbz(X4, 4), Eret>>, <<>>)>>,
    {<<0, 0>>}, 3)

SB_dmb_rfictrlsvc ==
  Test("SB+dmb+rfi-ctrl-svc", <<"x", "y">>, <<"p0:x2", "p1:x2">>,
    <<InitVar("x", 0), InitVar("y", 0)>>,
    <<Thread(<<Set(X0, 1), Mov(X1, Va("x")), Mov(X3, Va("y")), Str(X0, X1), Ldr(X2, X3), Str(X2, Out(1))>>,
        {0, 1, 2, 3}),
      ThreadH(<<Set(X0, 1), Mov(X1, Va("y")), Mov(X3, Va("x")), Str(X0, X1), Ldr(X4, X1), Cbz(X4, 7), Svc(0),
        Str(X2, Out(2))>>, {0, 1, 2, 3, 4}, 0, <<Ldr(X2, X3), Eret>>, <<>>)>>,
    {<<0, 0>>}, 3)

SB_dmb_rfieretaddr ==
  Test("SB+dmb+rfieret-addr", <<"x", "y">>, <<"p0:x2", "p1:x2", "p1:x4">>,
    <<InitVar("x", 0), InitVar("y", 0)>>,
    <<Thread(<<Set(X0, 1), Mov(X1, Va("x")), Mov(X3, Va("y")), Str(X0, X1), Ldr(X2, X3), Str(X2, Out(1))>>,
        {0, 1, 2, 3}),
      ThreadH(<<Set(X0, 1), Mov(X1, Va("y")), Mov(X3, Va("x")), Svc(0), Ldr(X4, X1), Eor(X5, X4, X4),
        Ldrx(X2, X3, X5), Str(X2, Out(2)), Str(X4, Out(3))>>, {0, 1, 2, 3, 4, 5}, 0, <<Str(X0, X1), Eret>>,
        <<>>)>>,
    {<<0, 0, 1>>}, 3)

SB_dmb_rfisvcaddr ==
  Test("SB+dmb+rfisvc-addr", <<"x", "y">>, <<"p0:x2", "p1:x2", "p1:x4">>,
    <<InitVar("x", 0), InitVar("y", 0)>>,
    <<Thread(<<Set(X0, 1), Mov(X1, Va("x")), Mov(X3, Va("y")), Str(X0, X1), Ldr(X2, X3), Str(X2, Out(1))>>,
        {0, 1, 2, 3}),
      ThreadH(<<Set(X0, 1), Mov(X1, Va("y")), Mov(X3, Va("x")), Str(X0, X1), Svc(0), Str(X2, Out(2)),
        Str(X4, Out(3))>>, {0, 1, 2, 3, 4, 5}, 0, <<Ldr(X4, X1), Eor(X5, X4, X4), Ldrx(X2, X3, X5), Eret>>,
        <<>>)>>,
    {<<0, 0, 1>>}, 3)

SB_dmb_svc ==
  Test("SB+dmb+svc", <<"x", "y">>, <<"p0:x2", "p1:x2">>,
    <<InitVar("x", 0), InitVar("y", 0)>>,
    <<Thread(<<Set(X0, 1), Mov(X1, Va("x")), Mov(X3, Va("y")), Str(X0, X1), Ldr(X2, X3), Str(X2, Out(1))>>,
        {0, 1, 2, 3}),
      ThreadH(<<Set(X0, 1), Mov(X1, Va("y")), Mov(X3, Va("x")), Str(X0, X1), Svc(0), Str(X2, Out(2))>>,
        {0, 1, 2, 3, 4, 5, 6, 7}, 0, <<Ldr(X2, X3), Eret>>, <<>>)>>,
    {<<0, 0>>}, 0)

SB_svcdmberets ==
  Test("SB+svc-dmb-erets", <<"x", "y">>, <<"p0:x2", "p1:x2">>,
    <<InitVar("x", 0), InitVar("y", 0)>>,
    <<ThreadH(<<Set(X0, 1), Mov(X1, Va("x")), Mov(X3, Va("y")), Str(X0, X1), Svc(0), Ldr(X2, X3),
        Str(X2, Out(1))>>, {0, 1, 2, 3}, 0, <<Eret>>, <<>>),
      ThreadH(<<Set(X0, 1), Mov(X1, Va("y")), Mov(X3, Va("x")), Str(X0, X1), Svc(0), Ldr(X2, X3),
        Str(X2, Out(2))>>, {0, 1, 2, 3}, 0, <<Eret>>, <<>>)>>,
    {<<0, 0>>}, 3)

SB_svcerets ==
  Test("SB+svc-erets", <<"x", "y">>, <<"p0:x2", "p1:x2">>,
    <<InitVar("x", 0), InitVar("y", 0)>>,
    <<ThreadH(<<Set(X0, 1), Mov(X1, Va("x")), Mov(X3, Va("y")), Str(X0, X1), Svc(0), Ldr(X2, X3),
        Str(X2, Out(1))>>, {0, 1, 2, 3}, 0, <<Eret>>, <<>>),
      ThreadH(<<Set(X0, 1), Mov(X1, Va("y")), Mov(X3, Va("x")), Str(X0, X1), Svc(0), Ldr(X2, X3),
        Str(X2, Out(2))>>, {0, 1, 2, 3}, 0, <<Eret>>, <<>>)>>,
    {<<0, 0>>}, 3)

SB_svcs ==
  Test("SB+svcs", <<"x", "y">>, <<"p0:x2", "p1:x2">>,
    <<InitVar("x", 0), InitVar("y", 0)>>,
    <<ThreadH(<<Set(X0, 1), Mov(X1, Va("x")), Mov(X3, Va("y")), Str(X0, X1), Svc(0), Str(X2, Out(1))>>,
        {0, 1, 2, 3}, 0, <<Ldr(X2, X3), Eret>>, <<>>),
      ThreadH(<<Set(X0, 1), Mov(X1, Va("y")), Mov(X3, Va("x")), Str(X0, X1), Svc(0), Str(X2, Out(2))>>,
        {0, 1, 2, 3, 4, 5, 6, 7}, 0, <<Ldr(X2, X3), Eret>>, <<>>)>>,
    {<<0, 0>>}, 0)

SB1_erets ==
  Test("SB.EL1+erets", <<"x", "y">>, <<"p0:x2", "p1:x2">>,
    <<InitVar("x", 0), InitVar("y", 0)>>,
    <<ThreadH(<<Set(X0, 1), Mov(X1, Va("x")), Mov(X3, Va("y")), Svc(0), Ldr(X2, X3), Str(X2, Out(1))>>,
        {0, 1, 2, 3}, 1, <<>>, <<Str(X0, X1), Eret>>),
      ThreadH(<<Set(X0, 1), Mov(X1, Va("y")), Mov(X3, Va("x")), Svc(0), Ldr(X2, X3), Str(X2, Out(2))>>,
        {0, 1, 2, 3}, 1, <<>>, <<Str(X0, X1), Eret>>)>>,
    {<<0, 0>>}, 3)

SBEL1_svcerets ==
  Test("SB.EL1+svc-erets", <<"x", "y">>, <<"p0:x2", "p1:x2">>,
    <<InitVar("x", 0), InitVar("y", 0)>>,
    <<ThreadH(<<Set(X0, 1), Mov(X1, Va("x")), Mov(X3, Va("y")), Str(X0, X1), Svc(0), Ldr(X2, X3),
        Str(X2, Out(1))>>, {0, 1, 2, 3}, 1, <<>>, <<Eret>>),
      ThreadH(<<Set(X0, 1), Mov(X1, Va("y")), Mov(X3, Va("x")), Str(X0, X1), Svc(0), Ldr(X2, X3),
        Str(X2, Out(2))>>, {0, 1, 2, 3}, 1, <<>>, <<Eret>>)>>,
    {<<0, 0>>}, 3)

MP_dmb_fault ==
  Test("MP+dmb+fault", <<"x", "y", "z">>, <<"p1:x0", "p1:x2">>,
    <<InitVar("x", 0), InitVar("y", 0), InitUnmapped("z")>>,
    <<Thread(<<Set(X0, 1), Str(X0, Va("x")), Set(X2, 1), Str(X2, Va("y"))>>, {0, 2}),
      ThreadH(<<Mov(X1, Va("y")), Mov(X3, Va("x")), Mov(X5, Va("z")), Ldr(X0, X1), Ldr(X4, X5),
        Str(X0, Out(1)), Str(X2, Out(2)), Set(X4, 0)>>, {0, 1, 2, 3, 4, 5, 6, 7, 10}, 0,
        <<Ldr(X2, X3)>> \o EretToNext(X10), <<>>)>>,
    {<<1, 0>>}, 0)

MP_fault_dmb ==
  Test("MP+fault+dmb", <<"x", "y", "z">>, <<"p1:x0", "p1:x2">>,
    <<InitVar("x", 0), InitVar("y", 0), InitUnmapped("z")>>,
    <<ThreadH(<<Mov(X1, Va("x")), Mov(X3, Va("y")), Mov(X5, Va("y")), Set(X0, 1), Str(X0, X1), Ldr(X4, X5),
        Set(X4, 0)>>, {0, 1, 2, 3, 4, 5, 10}, 0, <<Set(X2, 1), Str(X2, X3)>> \o EretToNext(X10), <<>>),
      Thread(<<Mov(X1, Va("y")), Mov(X3, Va("x")), Ldr(X0, X1), Ldr(X2, X3), Str(X0, Out(1)),
        Str(X2, Out(2))>>, {0, 1, 2, 3, 4, 5, 6, 7})>>,
    {<<1, 0>>}, 0)

SB_faults ==
  Test("SB+faults", <<"x", "y", "z">>, <<"p0:x2", "p1:x2">>,
    <<InitVar("x", 0), InitVar("y", 0), InitUnmapped("z")>>,
    <<ThreadH(<<Set(X0, 1), Mov(X1, Va("x")), Mov(X3, Va("y")), Mov(X5, Va("z")), Str(X0, X1), Ldr(X4, X5),
        Str(X2, Out(1)), Set(X4, 0)>>, {0, 1, 2, 3, 4, 5, 10}, 0, <<Ldr(X2, X3)>> \o EretToNext(X10), <<>>),
      ThreadH(<<Set(X0, 1), Mov(X1, Va("y")), Mov(X3, Va("x")), Mov(X5, Va("z")), Str(X0, X1), Ldr(X4, X5),
        Str(X2, Out(2)), Set(X4, 0)>>, {0, 1, 2, 3, 4, 5, 6, 7, 10}, 0, <<Ldr(X2, X3)>> \o EretToNext(X10),
        <<>>)>>,
    {<<0, 0>>}, 0)

ExcTests == {LB_svcdmberets, LB_svcerets, LB_svcs, MP_daifset_dmb, MP_dmb_ctrleret, MP_dmb_ctrlrfisvceretaddr,
  MP_dmb_ctrl_svc, MP_dmb_ctrlelr, MP_dmb_daifset, MP_dmb_datasvc, MP_dmb_dmberet, MP_dmb_eretdmb,
  MP_dmb_eretsvc, MP_dmb_eret, MP_dmb_eretaddr, MP_dmb_svcaddreret, MP_dmb_svcdmberet, MP_dmb_svcdmb,
  MP_dmb_svceret, MP_dmb_svc, MP_dmb_svcnoeis, MP_eret_addr, MP_eret_dmb, MP_eret_svc, MP_erets, MP_svc_addr,
  MP_svc_dmb, MP_svc_eret, MP_svcdmb_addr, MP_svcdmberet_addr, MP_svceret_addr, MP_svcerets, MP_svcs,
  MP1_dmb_ctrlvbarsvc, MPEL1_dmb_dataesrsvc, MPEL1_dmb_eretsvc, MPEL1_dmb_eret, MPEL1_dmb_svceret,
  MPEL1_dmb_svc, S_dmb_eret, S_dmb_svc, S_erets, S_svcdmberets, S_svcerets, S_svcs, SB_daifsets, SB_dmb_eret,
  SB_dmb_rfictrleret, SB_dmb_rfictrlsvc, SB_dmb_rfieretaddr, SB_dmb_rfisvcaddr, SB_dmb_svc, SB_svcdmberets,
  SB_svcerets, SB_svcs, SB1_erets, SBEL1_svcerets, MP_dmb_fault, MP_fault_dmb, SB_faults}
===============================================================================
