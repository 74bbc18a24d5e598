-------------------------------- MODULE MCLitmus --------------------------------
(* Every test of the catalogue.                                            *)
EXTENDS Litmus, LitmusData, LitmusExc, LitmusTrans, LitmusBBM, LitmusPages

Catalogue == DataTests \union ExcTests \union TransTests \union BBMTests \union PagesTests

(* Tests without P2's or P1's result, or which write a constant instead.   *)
Constant == {"MP+po_p_amoswap_pl-coi+addr", "WRC.TRR+addr+dmb", "WRC.TRR.inv+addrs", "WRC.TRT.inv+dsb-isbs",
             "WRC.TRT.inv+po+addr", "WRC.TRT.inv+po+dmb"}
(* The other tests whose count is not that of the SC results.              *)
OtherCount == {"S+dmb+eret", "S+dmb+svc", "S+erets", "S+svc-dmb-erets", "S+svc-erets", "S+svcs",
               "MP.BBM1+[po]-dsb-tlbiis-dsb-isb-dsb-isb+dsb-isb",
               "MP.BBM1.dud+[po]-dsb-tlbiis-dsb-isb-dsb-isb+dsb-isb",
               "CoTT+dsb-popage", "CoTT+po-popage"}
(* Tests where a page that is written to a table is the one already there. *)
SamePage == {"ROT+dsb-dsb", "ROT+po-po", "ROT1+dsb-dsb-tlbi-dsb", "ROT1+dsb-dsb-tlbivaa-dsb"}

WrongCount  == Constant \union SamePage \union OtherCount
NeverShows  == Constant \union SamePage \union {"MP+fault+dmb"}
===============================================================================
