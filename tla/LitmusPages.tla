---------------------------- MODULE LitmusPages ----------------------------
(* Tests of litmus/litmus_tests/pgtable/*: aliases, cacheability, upper levels, MAIR; checks: self-tests. *)
EXTENDS LitmusAsm

check1 ==
  [Test("check1", <<"x", "y">>, <<"exc">>,
    <<InitVar("x", 0), InitVar("y", 0)>>,
    <<ThreadH(<<Mov(X10, Out(1)), Set(X0, 1), Mov(X1, Va("x")), Str(X0, X1)>>, {0, 1, 10, 11, 12}, 1, <<>>,
        <<Set(X11, 1), Str(X11, X10)>> \o EretToNext(X12)),
      ThreadH(<<Mov(X10, Out(1)), Mov(X1, Va("x")), Set(X2, 1), Mov(X3, Va("y")), Ldr(X0, X1),
        Eor(X4, X0, X0), Add(X4, X4, X3), Str(X2, X4)>>, {0, 1, 2, 3, 4, 10, 11, 12}, 1, <<>>, <<Set(X11, 1),
        Str(X11, X10)>> \o EretToNext(X12)),
      ThreadH(<<Mov(X10, Out(1)), Mov(X1, Va("y")), Mov(X3, Va("x")), Ldr(X0, X1), Eor(X4, X0, X0),
        Add(X4, X4, X3), Ldr(C0, X4)>>, {0, 1, 2, 3, 4, 10, 11, 12}, 1, <<>>, <<Set(X11, 1),
        Str(X11, X10)>> \o EretToNext(X12))>>,
    {<<1>>}, 0) EXCEPT !.teardown = TRUE]

check2 ==
  [Test("check2", <<"x", "y">>, <<"exc">>,
    <<InitVar("x", 0), InitVar("y", 0)>>,
    <<ThreadH(<<Mov(X10, Out(1)), Set(X0, 1), Str(X0, Va("x")), Set(X2, 1), Str(X2, Va("y"))>>,
        {0, 2, 10, 11, 12}, 0, <<Set(X11, 1), Str(X11, X10)>> \o EretToNext(X12), <<>>),
      ThreadH(<<Mov(X10, Out(1)), Ldr(C0, Va("y")), Ldr(C1, Va("x"))>>, {0, 2, 10, 11, 12}, 0, <<Set(X11, 1),
        Str(X11, X10)>> \o EretToNext(X12), <<>>)>>,
    {<<1>>}, 0) EXCEPT !.teardown = TRUE]

check3 ==
  Test("check3", <<"x", "y">>, <<"p1:x0", "p1:x2">>,
    <<InitVar("x", 0), InitVar("y", 0)>>,
    <<Thread(<<Ldr(C0, Va("x")), Set(X2, 1), Str(X2, Va("y")), Str(X2, Va("x")), Str(C0, Out(1))>>, {0, 2}),
      Thread(<<Ldr(C0, Va("y")), Set(X2, 1), Str(X2, Va("x")), Str(X2, Va("y")), Str(C0, Out(2))>>, {0, 2})>>,
    {<<1, 1>>}, 0)

check4 ==
  Test("check4", <<"x">>, <<"p0:x0">>,
    <<InitVar("x", 0)>>,
    <<Thread(<<Ldr(C0, Va("x")), Set(X1, 4), Str(X1, Va("x")), Str(C0, Out(1))>>, {1})>>,
    {<<4>>}, 0)

check5 ==
  Test("check5", <<"x">>, <<"p0:x0">>,
    <<InitVar("x", 1)>>,
    <<ThreadH(<<Ldr(X0, Va("x")), Set(X1, 0), Str(X1, Pte("x")), Str(X0, Out(1))>>, {0, 1, 10}, 0,
        <<Set(X0, 0)>> \o EretToNext(X10), <<>>)>>,
    {<<0>>}, 0)

check6 ==
  Test("check6", <<"x", "y">>, <<"p0:x0">>,
    <<InitVar("x", 0), InitVar("y", 1)>>,
    <<Thread(<<Ldr(C0, Va("x")), Set(X2, 2), Str(X2, Va("x")), Str(C0, Out(1))>>, {2}),
      Thread(<<Ldr(X0, Va("x")), Cbz(X0, 4), Str(Desc("y"), Pte("x"))>>, {0})>>,
    {<<1>>}, 0)

CoWRalias ==
  Test("CoWR.alias", <<"x", "y">>, <<"p0:x2">>,
    <<InitVar("x", 0), InitAlias("y", "x")>>,
    <<Thread(<<Set(X0, 1), Mov(X1, Va("x")), Mov(X3, Va("y")), Str(X0, X1), Ldr(X2, X3), Str(X2, Out(1))>>,
        {0, 1, 2, 3})>>,
    {<<0>>}, 1)

MP_dmbdata_dmb ==
  Test("MP+dmb-data+dmb", <<"x", "y">>, <<"p1:x0", "p1:x2">>,
    <<InitVar("x", 0), InitVar("y", 0)>>,
    <<Thread(<<Set(X0, 1), Mov(X1, Va("x")), Mov(X3, Va("x")), Mov(X5, Va("y")), Str(X0, X1), Ldr(X2, X3),
        Mov(X4, X2), Str(X4, X5)>>, {0, 1, 2, 3, 4, 5}),
      Thread(<<Mov(X1, Va("y")), Mov(X3, Va("x")), Ldr(X0, X1), Ldr(X2, X3), Str(X0, Out(1)),
        Str(X2, Out(2))>>, {0, 1, 2, 3})>>,
    {<<1, 0>>}, 3)

MPalias_dmbs ==
  Test("MP.alias+dmbs", <<"x", "y">>, <<"p1:x0", "p1:x2">>,
    <<InitVar("x", 0), InitAlias("y", "x")>>,
    <<Thread(<<Set(X0, 1), Mov(X1, Va("x")), Set(X2, 1), Mov(X3, Va("y")), Str(X0, X1), Str(X2, X3)>>,
        {0, 1, 2, 3}),
      Thread(<<Mov(X1, Va("y")), Mov(X3, Va("x")), Ldr(X0, X1), Ldr(X2, X3), Str(X0, Out(1)),
        Str(X2, Out(2))>>, {0, 1, 2, 3})>>,
    {<<1, 0>>}, 3)

MPalias2_dmbdata_dmb ==
  Test("MP.alias2+dmb-data+dmb", <<"x", "y", "z">>, <<"p1:x0", "p1:x2">>,
    <<InitVar("x", 0), InitVar("y", 0), InitAlias("z", "x")>>,
    <<Thread(<<Set(X0, 1), Mov(X1, Va("x")), Mov(X3, Va("x")), Mov(X5, Va("y")), Str(X0, X1), Ldr(X2, X3),
        Mov(X4, X2), Str(X4, X5)>>, {0, 1, 2, 3, 4, 5}),
      Thread(<<Mov(X1, Va("y")), Mov(X3, Va("z")), Ldr(X0, X1), Ldr(X2, X3), Str(X0, Out(1)),
        Str(X2, Out(2))>>, {0, 1, 2, 3})>>,
    {<<1, 0>>}, 3)

MPalias2_dmbs ==
  Test("MP.alias2+dmbs", <<"x", "y", "z">>, <<"p1:x0", "p1:x2">>,
    <<InitVar("x", 0), InitVar("y", 0), InitAlias("z", "x")>>,
    <<Thread(<<Set(X0, 1), Mov(X1, Va("x")), Set(X2, 1), Mov(X3, Va("y")), Str(X0, X1), Str(X2, X3)>>,
        {0, 1, 2, 3, 4, 5}),
      Thread(<<Mov(X1, Va("y")), Mov(X3, Va("z")), Ldr(X0, X1), Ldr(X2, X3), Str(X0, Out(1)),
        Str(X2, Out(2))>>, {0, 1, 2, 3})>>,
    {<<1, 0>>}, 3)

MPalias2_podata_dmb ==
  Test("MP.alias2+po-data+dmb", <<"x", "y", "z">>, <<"p1:x0", "p1:x2">>,
    <<InitVar("x", 0), InitVar("y", 0), InitAlias("z", "x")>>,
    <<Thread(<<Set(X0, 1), Mov(X1, Va("x")), Mov(X3, Va("x")), Mov(X5, Va("y")), Str(X0, X1), Ldr(X2, X3),
        Mov(X4, X2), Str(X4, X5)>>, {0, 1, 2, 3, 4, 5}),
      Thread(<<Mov(X1, Va("y")), Mov(X3, Va("z")), Ldr(X0, X1), Ldr(X2, X3), Str(X0, Out(1)),
        Str(X2, Out(2))>>, {0, 1, 2, 3})>>,
    {<<1, 0>>}, 3)

MPalias3_rfidata_dmb ==
  Test("MP.alias3+rfi-data+dmb", <<"x", "y", "z">>, <<"p0:x2", "p1:x0", "p1:x2">>,
    <<InitVar("x", 0), InitVar("y", 0), InitAlias("z", "x")>>,
    <<Thread(<<Set(X0, 1), Mov(X1, Va("x")), Mov(X3, Va("z")), Mov(X5, Va("y")), Str(X0, X1), Ldr(X2, X3),
        Mov(X4, X2), Str(X4, X5), Str(X2, Out(1))>>, {0, 1, 2, 3, 4, 5}),
      Thread(<<Mov(X1, Va("y")), Mov(X3, Va("z")), Ldr(X0, X1), Ldr(X2, X3), Str(X0, Out(2)),
        Str(X2, Out(3))>>, {0, 1, 2, 3})>>,
    {<<1, 1, 0>>}, 3)

SBalias_dmbs ==
  Test("SB.alias+dmbs", <<"x", "y">>, <<"p0:x2", "p1:x2">>,
    <<InitVar("x", 0), InitAlias("y", "x")>>,
    <<Thread(<<Set(X0, 1), Mov(X1, Va("x")), Mov(X3, Va("y")), Str(X0, X1), Ldr(X2, X3), Str(X2, Out(1))>>,
        {0, 1, 2, 3}),
      Thread(<<Set(X0, 1), Mov(X1, Va("y")), Mov(X3, Va("x")), Str(X0, X1), Ldr(X2, X3), Str(X2, Out(2))>>,
        {0, 1, 2, 3})>>,
    {<<0, 0>>}, 0)

WRCalias2_addrs ==
  Test("WRC.alias2+addrs", <<"x", "y", "z">>, <<"p1:x0", "p2:x0", "p2:x2">>,
    <<InitVar("x", 0), InitVar("y", 0), InitAlias("z", "x")>>,
    <<Thread(<<Set(X0, 1), Mov(X1, Va("x")), Str(X0, X1)>>, {0, 1}),
      Thread(<<Mov(X1, Va("x")), Set(X2, 1), Mov(X3, Va("y")), Ldr(X0, X1), Eor(X4, X0, X0), Strx(X2, X3, X4),
        Str(X0, Out(1))>>, {0, 1, 2, 3, 4}),
      Thread(<<Mov(X1, Va("y")), Mov(X3, Va("z")), Ldr(X0, X1), Eor(X4, X0, X0), Ldrx(X2, X3, X4),
        Str(X0, Out(2)), Str(X2, Out(3))>>, {0, 1, 2, 3, 4})>>,
    {<<1, 1, 0>>}, 7)

WRCalias2_dmbs ==
  Test("WRC.alias2+dmbs", <<"x", "y", "z">>, <<"p1:x0", "p2:x0", "p2:x2">>,
    <<InitVar("x", 0), InitVar("y", 0), InitAlias("z", "x")>>,
    <<Thread(<<Set(X0, 1), Mov(X1, Va("x")), Str(X0, X1)>>, {0, 1}),
      Thread(<<Mov(X1, Va("x")), Set(X2, 1), Mov(X3, Va("y")), Ldr(X0, X1), Str(X2, X3), Str(X0, Out(1))>>,
        {0, 1, 2, 3}),
      Thread(<<Mov(X1, Va("y")), Mov(X3, Va("z")), Ldr(X0, X1), Ldr(X2, X3), Str(X0, Out(2)),
        Str(X2, Out(3))>>, {0, 1, 2, 3})>>,
    {<<1, 1, 0>>}, 7)

MPNC_dsbdcdsbdmb_dmb ==
  Test("MP.NC+dsb-dc-dsb-dmb+dmb", <<"x", "y">>, <<"p1:x0", "p1:x2">>,
    <<InitVar("x", 0), InitVar("y", 0)>>,
    <<Thread(<<Mov(X0, Desc("x")), Bfc(X0, 2, 2), Set(X6, 2), Lsl(X6, X6, 2), Add(X0, X0, X6),
        Mov(X1, Pte("x")), Set(X2, 1), Mov(X3, Va("x")), Set(X4, 1), Mov(X5, Va("y")), Str(X0, X1),
        Str(X2, X3), Str(X4, X5)>>, {0, 1, 2, 3, 4, 5, 6}),
      Thread(<<Mov(X1, Va("y")), Mov(X3, Va("x")), Ldr(X0, X1), Ldr(X2, X3), Str(X0, Out(1)),
        Str(X2, Out(2))>>, {0, 1, 2, 3})>>,
    {<<1, 0>>}, 3)

MPNC_podmb_dmb ==
  Test("MP.NC+po-dmb+dmb", <<"x", "y">>, <<"p1:x0", "p1:x2">>,
    <<InitVar("x", 0), InitVar("y", 0)>>,
    <<Thread(<<Mov(X0, Desc("x")), Bfc(X0, 2, 2), Set(X6, 2), Lsl(X6, X6, 2), Add(X0, X0, X6),
        Mov(X1, Pte("x")), Set(X2, 1), Mov(X3, Va("x")), Set(X4, 1), Mov(X5, Va("y")), Str(X0, X1),
        Str(X2, X3), Str(X4, X5)>>, {0, 1, 2, 3, 4, 5, 6}),
      Thread(<<Mov(X1, Va("y")), Mov(X3, Va("x")), Ldr(X0, X1), Ldr(X2, X3), Str(X0, Out(1)),
        Str(X2, Out(2))>>, {0, 1, 2, 3})>>,
    {<<1, 0>>}, 3)

MPNC1_dsbtlbiisdsbdcdsbdmb_dmb ==
  Test("MP.NC1+dsb-tlbiis-dsb-dc-dsb-dmb+dmb", <<"x", "y">>, <<"p1:x0", "p1:x2">>,
    <<InitVar("x", 0), InitVar("y", 0)>>,
    <<ThreadH(<<Mov(X0, Desc("x")), Bfc(X0, 2, 2), Set(X6, 2), Lsl(X6, X6, 2), Add(X0, X0, X6),
        Mov(X1, Pte("x")), Mov(X7, Page("x")), Set(X2, 1), Mov(X3, Va("x")), Set(X4, 1), Mov(X5, Va("y")),
        Str(X0, X1), Str(X2, X3), Str(X4, X5)>>, {0, 1, 2, 3, 4, 5, 6, 7}, 1, <<>>, <<>>),
      Thread(<<Mov(X1, Va("y")), Mov(X3, Va("x")), Ldr(X0, X1), Ldr(X2, X3), Str(X0, Out(1)),
        Str(X2, Out(2))>>, {0, 1, 2, 3})>>,
    {<<1, 0>>}, 3)

MPNC1_dsbtlbiisdsbdmb_dmb ==
  Test("MP.NC1+dsb-tlbiis-dsb-dmb+dmb", <<"x", "y">>, <<"p1:x0", "p1:x2">>,
    <<InitVar("x", 0), InitVar("y", 0)>>,
    <<ThreadH(<<Mov(X0, Desc("x")), Bfc(X0, 2, 2), Set(X6, 2), Lsl(X6, X6, 2), Add(X0, X0, X6),
        Mov(X1, Pte("x")), Mov(X7, Page("x")), Set(X2, 1), Mov(X3, Va("x")), Set(X4, 1), Mov(X5, Va("y")),
        Str(X0, X1), Str(X2, X3), Str(X4, X5)>>, {0, 1, 2, 3, 4, 5, 6, 7}, 1, <<>>, <<>>),
      Thread(<<Mov(X1, Va("y")), Mov(X3, Va("x")), Ldr(X0, X1), Ldr(X2, X3), Str(X0, Out(1)),
        Str(X2, Out(2))>>, {0, 1, 2, 3})>>,
    {<<1, 0>>}, 3)

WRNC_dsb ==
  Test("WR.NC+dsb", <<"x", "y">>, <<"p0:x2">>,
    <<InitVar("x", 0), InitAttrIdx("x", 2), InitAlias("y", "x"), InitAttrIdx("y", 3)>>,
    <<Thread(<<Set(X0, 1), Mov(X1, Va("y")), Mov(X3, Va("x")), Str(X0, X1), Ldr(X2, X3), Str(X2, Out(1))>>,
        {0, 1, 2, 3})>>,
    {<<0>>}, 1)

WRNC_po ==
  Test("WR.NC+po", <<"x", "y">>, <<"p0:x2">>,
    <<InitVar("x", 0), InitAttrIdx("x", 2), InitAlias("y", "x"), InitAttrIdx("y", 3)>>,
    <<Thread(<<Set(X0, 1), Mov(X1, Va("y")), Mov(X3, Va("x")), Str(X0, X1), Ldr(X2, X3), Str(X2, Out(1))>>,
        {0, 1, 2, 3})>>,
    {<<0>>}, 1)

WRWARANC_dsb ==
  Test("WR.WARA-NC+dsb", <<"x", "y">>, <<"p0:x2">>,
    <<InitVar("x", 0), InitAttrIdx("x", 3), InitAlias("y", "x"), InitAttrIdx("y", 2)>>,
    <<Thread(<<Set(X0, 1), Mov(X1, Va("y")), Mov(X3, Va("x")), Str(X0, X1), Ldr(X2, X3), Str(X2, Out(1))>>,
        {0, 1, 2, 3})>>,
    {<<0>>}, 1)

WRWARANC_po ==
  Test("WR.WARA-NC+po", <<"x", "y">>, <<"p0:x2">>,
    <<InitVar("x", 0), InitAttrIdx("x", 3), InitAlias("y", "x"), InitAttrIdx("y", 2)>>,
    <<Thread(<<Set(X0, 1), Mov(X1, Va("y")), Mov(X3, Va("x")), Str(X0, X1), Ldr(X2, X3), Str(X2, Out(1))>>,
        {0, 1, 2, 3})>>,
    {<<0>>}, 1)

WWRNC_popo ==
  Test("WWR.NC+po-po", <<"x", "y">>, <<"p0:x4">>,
    <<InitVar("x", 0), InitAlias("y", "x"), InitAttrIdx("y", 2)>>,
    <<Thread(<<Set(X0, 1), Mov(X1, Va("x")), Set(X2, 2), Mov(X3, Va("y")), Mov(X5, Va("y")), Str(X0, X1),
        Str(X2, X3), Ldr(X4, X5), Str(X4, Out(1))>>, {0, 1, 2, 3, 4, 5})>>,
    {<<0>>, <<1>>}, 1)

CoWTL23_dsbisb ==
  Test("CoWT.L23+dsb-isb", <<"x", "y">>, <<"p0:x2">>,
    <<InitVar("x", 0), InitVar("y", 1), InitOwn("x", "PMD"), InitOffset("y", "x", "PMD")>>,
    <<Thread(<<Mov(X0, PmdDesc("y")), Mov(X1, Pmd("x")), Mov(X3, Va("x")), Str(X0, X1), Ldr(X2, X3),
        Str(X2, Out(1))>>, {0, 1, 2, 3})>>,
    {<<0>>}, 1)

CoWTL23po ==
  Test("CoWT.L23+po", <<"x", "y">>, <<"p0:x2">>,
    <<InitVar("x", 0), InitVar("y", 1), InitOwn("x", "PMD"), InitOffset("y", "x", "PMD")>>,
    <<Thread(<<Mov(X0, PmdDesc("y")), Mov(X1, Pmd("x")), Mov(X3, Va("x")), Str(X0, X1), Ldr(X2, X3),
        Str(X2, Out(1))>>, {0, 1, 2, 3})>>,
    {<<0>>}, 1)

CoWT1L23_dsbtlbidsbisb ==
  Test("CoWT1.L23+dsb-tlbi-dsb-isb", <<"x", "y">>, <<"p0:x2">>,
    <<InitVar("x", 0), InitVar("y", 1), InitOwn("x", "PMD"), InitOffset("y", "x", "PMD")>>,
    <<ThreadH(<<Mov(X0, PmdDesc("y")), Mov(X1, Pmd("x")), Mov(X3, Va("x")), Mov(X4, Page("x")), Str(X0, X1),
        Ldr(X2, X3), Str(X2, Out(1))>>, {0, 1, 2, 3, 4}, 1, <<>>, <<>>)>>,
    {<<0>>}, 1)

ROT_dsbdsb ==
  Test("ROT+dsb-dsb", <<"x", "y", "z">>, <<"p0:x4">>,
    <<InitVar("x", 0), InitVar("y", 1), InitVar("z", 2), InitOwn("x", "PMD"), InitPin("y", "x", "PMD"),
      InitOffset("y", "x", "PAGE"), InitOwn("z", "PMD"), InitOffset("z", "x", "PMD")>>,
    <<Thread(<<Mov(X0, Desc("z")), Mov(X1, Pte("y")), Mov(X2, PmdDesc("y")), Mov(X3, Pmd("x")),
        Mov(X5, Va("x")), Str(X0, X1), Str(X2, X3), Ldr(X4, X5), Str(X4, Out(1))>>, {0, 1, 2, 3, 4, 5})>>,
    {<<1>>}, 2)

ROT_popo ==
  Test("ROT+po-po", <<"x", "y", "z">>, <<"p0:x4">>,
    <<InitVar("x", 0), InitVar("y", 1), InitVar("z", 2), InitOwn("x", "PMD"), InitPin("y", "x", "PMD"),
      InitOffset("y", "x", "PAGE"), InitOwn("z", "PMD"), InitOffset("z", "x", "PMD")>>,
    <<Thread(<<Mov(X0, Desc("z")), Mov(X1, Pte("y")), Mov(X2, PmdDesc("y")), Mov(X3, Pmd("x")),
        Mov(X5, Va("x")), Str(X0, X1), Str(X2, X3), Ldr(X4, X5), Str(X4, Out(1))>>, {0, 1, 2, 3, 4, 5})>>,
    {<<1>>}, 2)

ROT1_dsbtlbidsb ==
  Test("ROT1+dsb-dsb-tlbi-dsb", <<"x", "y", "z">>, <<"p0:x4">>,
    <<InitVar("x", 0), InitVar("y", 1), InitVar("z", 2), InitOwn("x", "PMD"), InitPin("y", "x", "PMD"),
      InitOffset("y", "x", "PAGE"), InitOwn("z", "PMD"), InitOffset("z", "x", "PMD")>>,
    <<ThreadH(<<Mov(X0, Desc("z")), Mov(X1, Pte("y")), Mov(X2, PmdDesc("y")), Mov(X3, Pmd("x")),
        Mov(X5, Va("x")), Mov(X6, Page("x")), Str(X0, X1), Str(X2, X3), Ldr(X4, X5), Str(X4, Out(1))>>,
        {0, 1, 2, 3, 4, 5, 6}, 1, <<>>, <<>>)>>,
    {<<1>>}, 2)

ROT1_dsbtlbivaadsb ==
  Test("ROT1+dsb-dsb-tlbivaa-dsb", <<"x", "y", "z">>, <<"p0:x4">>,
    <<InitVar("x", 0), InitVar("y", 1), InitVar("z", 2), InitOwn("x", "PMD"), InitPin("y", "x", "PMD"),
      InitOffset("y", "x", "PAGE"), InitOwn("z", "PMD"), InitOffset("z", "x", "PMD")>>,
    <<ThreadH(<<Mov(X0, Desc("z")), Mov(X1, Pte("y")), Mov(X2, PmdDesc("y")), Mov(X3, Pmd("x")),
        Mov(X5, Va("x")), Mov(X6, Page("x")), Str(X0, X1), Str(X2, X3), Ldr(X4, X5), Str(X4, Out(1))>>,
        {0, 1, 2, 3, 4, 5, 6}, 1, <<>>, <<>>)>>,
    {<<1>>}, 2)

CoTT_dsbpopage ==
  Test("CoTT+dsb-popage", <<"x1", "x2", "y1", "y2">>, <<"p0:x2", "p0:x4">>,
    <<InitVar("x1", 0), InitVar("x2", 0), InitVar("y1", 1), InitVar("y2", 1), InitPin("x2", "x1", "PAGE"),
      InitPin("y2", "y1", "PAGE"), InitOffset("y2", "x2", "PAGE")>>,
    <<Thread(<<Mov(X0, Desc("y1")), Mov(X1, Pte("x1")), Mov(X3, Va("x1")), Mov(X5, Va("x2")), Str(X0, X1),
        Ldr(X2, X3), Ldr(X4, X5), Str(X2, Out(1)), Str(X4, Out(2))>>, {0, 1, 2, 3, 4, 5})>>,
    {<<1, 0>>}, 3)

CoTT_popopage ==
  Test("CoTT+po-popage", <<"x1", "x2", "y1", "y2">>, <<"p0:x2", "p0:x4">>,
    <<InitVar("x1", 0), InitVar("x2", 0), InitVar("y1", 1), InitVar("y2", 1), InitPin("x2", "x1", "PAGE"),
      InitPin("y2", "y1", "PAGE"), InitOffset("y2", "x2", "PAGE")>>,
    <<Thread(<<Mov(X0, Desc("y1")), Mov(X1, Pte("x1")), Mov(X3, Va("x1")), Mov(X5, Va("x2")), Str(X0, X1),
        Ldr(X2, X3), Ldr(X4, X5), Str(X2, Out(1)), Str(X4, Out(2))>>, {0, 1, 2, 3, 4, 5})>>,
    {<<1, 0>>}, 3)

WRMAIR1_dsbisbdcdsb ==
  Test("WR.MAIR1+dsb-isb-dc-dsb", <<"x", "y">>, <<"p0:x4">>,
    <<InitVar("x", 0), InitMair(68), InitAttrIdx("x", 7), InitAlias("y", "x"), InitAttrIdx("y", 3)>>,
    <<ThreadH(<<Mov(X0, Sys), Mov(X0, Sys), Set(X6, 255), Mov(X6, Sys), Add(X0, X0, X6), Set(X2, 1),
        Mov(X3, Va("y")), Mov(X5, Va("x")), Str(X2, X3), Ldr(X4, X5), Str(X4, Out(1))>>, {0, 1, 2, 3, 4, 5,
        6}, 1, <<>>, <<>>)>>,
    {<<0>>}, 1)

WRMAIR1_dsbisbpo ==
  Test("WR.MAIR1+dsb-isb-po", <<"x", "y">>, <<"p0:x4">>,
    <<InitVar("x", 0), InitMair(68), InitAttrIdx("x", 7), InitAlias("y", "x"), InitAttrIdx("y", 3)>>,
    <<ThreadH(<<Mov(X0, Sys), Mov(X0, Sys), Set(X6, 255), Mov(X6, Sys), Add(X0, X0, X6), Set(X2, 1),
        Mov(X3, Va("y")), Mov(X5, Va("x")), Str(X2, X3), Ldr(X4, X5), Str(X4, Out(1))>>, {0, 1, 2, 3, 4, 5,
        6}, 1, <<>>, <<>>)>>,
    {<<0>>}, 1)

WRMAIR1_dsbtlbidsbisbdcdsb ==
  Test("WR.MAIR1+dsb-tlbi-dsb-isb-dc-dsb", <<"x", "y">>, <<"p0:x4">>,
    <<InitVar("x", 0), InitMair(68), InitAttrIdx("x", 7), InitAlias("y", "x"), InitAttrIdx("y", 3)>>,
    <<ThreadH(<<Mov(X0, Sys), Mov(X0, Sys), Set(X6, 255), Mov(X6, Sys), Add(X0, X0, X6), Set(X2, 1),
        Mov(X3, Va("y")), Mov(X5, Va("x")), Mov(X7, Page("x")), Str(X2, X3), Ldr(X4, X5), Str(X4, Out(1))>>,
        {0, 1, 2, 3, 4, 5, 6, 7}, 1, <<>>, <<>>)>>,
    {<<0>>}, 1)

WRMAIR1_dsbtlbidsbisbpo ==
  Test("WR.MAIR1+dsb-tlbi-dsb-isb-po", <<"x", "y">>, <<"p0:x4">>,
    <<InitVar("x", 0), InitMair(68), InitAttrIdx("x", 7), InitAlias("y", "x"), InitAttrIdx("y", 3)>>,
    <<ThreadH(<<Mov(X0, Sys), Mov(X0, Sys), Set(X6, 3), Mov(X6, Sys), Add(X0, X0, X6), Set(X2, 1),
        Mov(X3, Va("y")), Mov(X5, Va("x")), Mov(X7, Page("x")), Str(X2, X3), Ldr(X4, X5), Str(X4, Out(1))>>,
        {0, 1, 2, 3, 4, 5, 6, 7}, 1, <<>>, <<>>)>>,
    {<<0>>}, 1)

WRMAIR1_popo ==
  Test("WR.MAIR1+po-po", <<"x", "y">>, <<"p0:x4">>,
    <<InitVar("x", 0), InitMair(68), InitAttrIdx("x", 7), InitAlias("y", "x"), InitAttrIdx("y", 3)>>,
    <<ThreadH(<<Mov(X0, Sys), Mov(X0, Sys), Set(X6, 255), Mov(X6, Sys), Add(X0, X0, X6), Set(X2, 1),
        Mov(X3, Va("y")), Mov(X5, Va("x")), Str(X2, X3), Ldr(X4, X5), Str(X4, Out(1))>>, {0, 1, 2, 3, 4, 5,
        6}, 1, <<>>, <<>>)>>,
    {<<0>>}, 1)

PagesTests == {check1, check2, check3, check4, check5, check6, CoWRalias, MP_dmbdata_dmb, MPalias_dmbs,
  MPalias2_dmbdata_dmb, MPalias2_dmbs, MPalias2_podata_dmb, MPalias3_rfidata_dmb, SBalias_dmbs,
  WRCalias2_addrs, WRCalias2_dmbs, MPNC_dsbdcdsbdmb_dmb, MPNC_podmb_dmb, MPNC1_dsbtlbiisdsbdcdsbdmb_dmb,
  MPNC1_dsbtlbiisdsbdmb_dmb, WRNC_dsb, WRNC_po, WRWARANC_dsb, WRWARANC_po, WWRNC_popo, CoWTL23_dsbisb,
  CoWTL23po, CoWT1L23_dsbtlbidsbisb, ROT_dsbdsb, ROT_popo, ROT1_dsbtlbidsb, ROT1_dsbtlbivaadsb,
  CoTT_dsbpopage, CoTT_popopage, WRMAIR1_dsbisbdcdsb, WRMAIR1_dsbisbpo, WRMAIR1_dsbtlbidsbisbdcdsb,
  WRMAIR1_dsbtlbidsbisbpo, WRMAIR1_popo}
===============================================================================
