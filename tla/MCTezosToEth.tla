---------------------------- MODULE MCTezosToEth ----------------------------
(***************************************************************************)
(* Two attempts to unlock at the fixed price of options.gasPrice, and the  *)
(* relay at the node's price.                                              *)
(***************************************************************************)
EXTENDS TezosToEthSystem

CONSTANTS first, second

MCFixedPrice == [c \in Callers |-> IF c = relay THEN 0 ELSE 2]
=============================================================================
