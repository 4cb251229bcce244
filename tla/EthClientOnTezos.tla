-------------------------- MODULE EthClientOnTezos --------------------------
(***************************************************************************)
(* The Ethereum light client contract in SmartPy                           *)
(* (contracts/tezos/EthClientOnTezos.py): a header is accepted when its    *)
(* parent is the header accepted last.  Hashes are numbers, NoHash is the  *)
(* initial '0x'.                                                           *)
(***************************************************************************)
EXTENDS Integers

VARIABLES latest_block, header_hash, canonical_header_hashes, known_hashes

clientVars == <<latest_block, header_hash, canonical_header_hashes, known_hashes>>

NoHash == 0

ClientTypeOK ==
  /\ latest_block \in Nat /\ header_hash \in Nat
  /\ DOMAIN canonical_header_hashes \subseteq Nat
  /\ \A n \in DOMAIN canonical_header_hashes : canonical_header_hashes[n] \in Nat
  /\ DOMAIN known_hashes = DOMAIN canonical_header_hashes
  /\ \A n \in DOMAIN known_hashes : known_hashes[n] \subseteq Nat

ClientInit ==
  /\ latest_block = 0
  /\ header_hash = NoHash
  /\ canonical_header_hashes = [n \in {} |-> NoHash]
  /\ known_hashes = [n \in {} |-> {}]

\* the first header is taken as it is
MutAccepts(parent_hash) == TRUE
Accepts(parent_hash) == latest_block > 0 => parent_hash = header_hash

With(f, n, value) == [k \in DOMAIN f \cup {n} |-> IF k = n THEN value ELSE f[k]]

KnownAt(n) == IF n \in DOMAIN known_hashes THEN known_hashes[n] ELSE {}

add_block_header(hash, number, parent_hash) ==
  /\ Accepts(parent_hash)
  /\ latest_block' = number
  /\ canonical_header_hashes' = With(canonical_header_hashes, number, hash)
  /\ header_hash' = hash
  /\ known_hashes' = With(known_hashes, number, KnownAt(number) \cup {hash})
=============================================================================
