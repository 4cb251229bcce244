------------------------------ MODULE TezosNode ------------------------------
(***************************************************************************)
(* Tezos as its node shows it to the Tezos-to-Ethereum relay (external):   *)
(* a growing list of final blocks.                                         *)
(***************************************************************************)
EXTENDS TezosBridge

CONSTANT Chain  \* the final Tezos blocks, oldest first

ASSUME NodeAssumption == Chain \in Seq(Finalized) /\ Chain # <<>>

VARIABLE tip  \* index in Chain of the last block final so far

\* Tezos finalises its next block
ProduceBlock ==
  /\ tip < Len(Chain)
  /\ tip' = tip + 1
  /\ UNCHANGED vars

\* next_light_client_block(hash): the last final block of the epoch after the
\* one of the given block, or else of the same epoch
KnownToTezos(hash) == \E i \in 1 .. tip : Chain[i].hash = hash

NextLightClientBlock(hash) ==
  LET from == CHOOSE i \in 1 .. tip : Chain[i].hash = hash
      ofEpoch(e) == {i \in 1 .. tip : Chain[i].epochId = e}
      later == ofEpoch(Chain[from].nextEpochId)
  IN  Max(IF later # {} THEN later ELSE ofEpoch(Chain[from].epochId))

\* EXPERIMENTAL_validators_ordered(hash): the producers of the block's epoch
ValidatorsOrdered(i) == Validators[Chain[i].epochId]
=============================================================================
