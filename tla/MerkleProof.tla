---------------------------- MODULE MerkleProof ----------------------------
(***************************************************************************)
(* TezosProver.proveOutcome (NearProver.sol): the proof that a receipt had *)
(* its outcome in a block of Tezos, against the merkle root over all the   *)
(* blocks below one that the TezosBridge contract trusts.                  *)
(*                                                                         *)
(* Hashes are symbolic: a hash is the tuple of what was hashed, so that    *)
(* two hashes are equal exactly when their inputs are.  How a Tezos node   *)
(* builds its trees and proofs is external.                                *)
(***************************************************************************)
EXTENDS Integers, Sequences

Outcome(receipt) == <<receipt>>
EmptyTree == <<>>
Rehash(root) == <<"sha256", root, 1>>
BlockHash(header) == <<"block", header.height, header.outcomeRoot, 1>>

\* sha256 of the concatenation, the sibling on the side the item says
NextHash(hash, item) ==
  IF item.direction = 0 THEN <<item.hash, hash>> ELSE <<hash, item.hash>>

_computeRoot(node, path) ==
  LET hash[i \in 0 .. Len(path)] == IF i = 0 THEN node ELSE NextHash(hash[i - 1], path[i])
  IN  hash[Len(path)]

ProvesOutcome(proof) ==
  _computeRoot(Rehash(_computeRoot(proof.outcome, proof.path)), proof.outcomeRootPath)
    = proof.header.outcomeRoot

\* expectedBlockMerkleRoot is the contract's blockMerkleRoots(blockHeight)
proveOutcome(proof, expectedBlockMerkleRoot) ==
  /\ ProvesOutcome(proof)
  /\ _computeRoot(BlockHash(proof.header), proof.blockPath) = expectedBlockMerkleRoot

-----------------------------------------------------------------------------
(* The trees of a chain whose block h has the outcomes of the receipts     *)
(* receipts[h], at most one each, beside an outcome nobody asks for.       *)

OutcomeTree(receipt) == <<Outcome(0), Outcome(receipt)>>

Header(receipts, h) ==
  [height |-> h,
   outcomeRoot |-> IF receipts[h] = 0 THEN EmptyTree ELSE Rehash(OutcomeTree(receipts[h]))]

\* the root over the blocks below height h
BlockMerkleRoot(receipts, h) ==
  LET root[k \in 0 .. h - 1] ==
        IF k = 0 THEN EmptyTree ELSE <<root[k - 1], BlockHash(Header(receipts, k))>>
  IN  root[h - 1]

\* the node's light_client_proof for the outcome in block k, for the head h
LightClientProof(receipts, k, h) ==
  [outcome |-> Outcome(receipts[k]),
   path |-> << [hash |-> Outcome(0), direction |-> 0] >>,
   outcomeRootPath |-> <<>>,
   header |-> Header(receipts, k),
   blockPath |-> << [hash |-> BlockMerkleRoot(receipts, k), direction |-> 0] >>
                   \o [i \in 1 .. h - 1 - k |->
                         [hash |-> BlockHash(Header(receipts, k + i)), direction |-> 1]]]
=============================================================================
