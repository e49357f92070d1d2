------------------------------ MODULE MCCatalog ------------------------------
(***************************************************************************)
(* One worker registers two models; the fleet assigns another to one of    *)
(* them.  Next to it run two rebuilds, or one and forge-catalog seed.      *)
(***************************************************************************)
EXTENDS Catalog, TLC

CONSTANTS w1, w2, a1, r1, r2, s1

MCServes == w1 :> {"m", "n"} @@ w2 :> {}
MCTogether == {{r1, r2, a1}, {r1, s1, a1}}
MCWants == a1 :> <<"m", w2>>
=============================================================================
