------------------------------- MODULE MCSpider -------------------------------
(***************************************************************************)
(* Spider with two shares.  Prices are 0, 1 and 2; the first share is bought  *)
(* at 0 and sold at 2; for the second both tests may hold at once.           *)
(***************************************************************************)
EXTENDS Spider

MCStocks == <<"s1", "s2">>

MCLimit == [s \in {"s1", "s2"} |-> IF s = "s1" THEN <<0, 2>> ELSE <<1, 1>>]
==============================================================================
