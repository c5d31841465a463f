--------------------------- MODULE MCMarketWorker ---------------------------
(* MarketWorker on small instances for TLC.  Slots are interchangeable, and  *)
(* only safety properties are checked under the symmetry.                    *)
EXTENDS MarketWorker, TLC

Symmetry == Permutations(Pass)
=============================================================================
