------------------------------ MODULE MCCFProxy ------------------------------
(* Values for model checking module CFProxy: one configured domain, and   *)
(* fetched lists that add one or two, repeat a domain, repeat the          *)
(* configured one, shrink and vanish.                                      *)
EXTENDS CFProxy, TLC

CONSTANTS c1, c2, d1, d2, d3

MCUser == <<d1>>
MCLists == {<<>>, <<d3>>, <<d3, d1, d2, d3>>}

ClientSymmetry == Permutations(Clients)
=============================================================================
