----------------------------- MODULE MCOrderBook -----------------------------
(***************************************************************************)
(* Small instances of OrderBook for TLC.                                   *)
(***************************************************************************)
EXTENDS OrderBook, TLC

OneRevision == {<<1, 1>>}
IdSymmetry == Permutations(OrderIds)
==============================================================================
