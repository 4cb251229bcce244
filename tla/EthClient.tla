------------------------------ MODULE EthClient ------------------------------
(***************************************************************************)
(* The Ethereum light client contract (eth-client/src/lib.rs): it records  *)
(* the headers it is given in a tree, keeps the branch of the highest      *)
(* total difficulty as the canonical chain, and forgets what is older than *)
(* two garbage collection thresholds.                                      *)
(*                                                                         *)
(* Data: a header stands for its own hash; its number, parent and          *)
(* difficulty are constant functions, and so is the verdict of the proof   *)
(* of work and of the checks of its fields against its parent's.  headers  *)
(* and infos always have the same keys and are one variable here.          *)
(***************************************************************************)
EXTENDS Integers, FiniteSets

CONSTANTS
  Headers,               \* the headers that may be submitted
  Number(_),             \* header.number
  Parent(_),             \* header.parent_hash
  Difficulty(_),         \* header.difficulty
  Valid(_),              \* verify_header, given that the parent is known
  ZeroHash,              \* the parent_hash stored for the first header
  FirstHeader,           \* the header the contract is initialised with
  Callers,               \* accounts that submit headers
  trusted_signer,        \* one of them, or NoSigner
  NoSigner,
  hashes_gc_threshold,
  finalized_gc_threshold,
  num_confirmations

ASSUME EthClientAssumption ==
  /\ FirstHeader \in Headers /\ ZeroHash \notin Headers
  /\ \A h \in Headers : Number(h) \in Nat /\ Difficulty(h) \in Nat
  /\ \A h \in Headers \ {FirstHeader} : Parent(h) \in Headers \cup {ZeroHash}
  /\ \A h \in Headers : Valid(h) \in BOOLEAN
  /\ hashes_gc_threshold \in Nat \ {0}
  /\ finalized_gc_threshold \in 1 .. hashes_gc_threshold
  /\ num_confirmations \in Nat
  /\ trusted_signer \in Callers \cup {NoSigner}

VARIABLES
  best_header_hash,
  canonical_header_hashes,  \* height -> hash, for the heights it has
  all_header_hashes,        \* height -> set of known hashes, for the heights it has
  infos                     \* hash -> [total_difficulty, parent_hash, number]

vars == <<best_header_hash, canonical_header_hashes, all_header_hashes, infos>>

Init ==
  /\ best_header_hash = FirstHeader
  /\ canonical_header_hashes = [n \in {Number(FirstHeader)} |-> FirstHeader]
  /\ all_header_hashes = [n \in {Number(FirstHeader)} |-> {FirstHeader}]
  /\ infos = [h \in {FirstHeader} |->
                [total_difficulty |-> 0, parent_hash |-> ZeroHash, number |-> Number(h)]]

-----------------------------------------------------------------------------
(* Views.                                                                  *)

Known == DOMAIN infos

last_block_number == infos[best_header_hash].number

block_hash(n) == IF n \in DOMAIN canonical_header_hashes THEN canonical_header_hashes[n] ELSE ZeroHash

MutBlockHashSafe(n) == block_hash(n)

\* ZeroHash stands for None
block_hash_safe(n) ==
  IF n + num_confirmations > last_block_number THEN ZeroHash ELSE block_hash(n)

-----------------------------------------------------------------------------
(* Recording a header.                                                     *)

InfoOf(h) == [total_difficulty |-> infos[Parent(h)].total_difficulty + Difficulty(h),
              parent_hash |-> Parent(h), number |-> Number(h)]

MutIsHeavier(h) == Number(h) > last_block_number

IsHeavier(h) ==
  LET td == InfoOf(h).total_difficulty
      best == infos[best_header_hash].total_difficulty
  IN  td > best \/ (td = best /\ Difficulty(h) % 2 = 0)

\* the headers of f that are not among ns
Without(f, ns) == [n \in DOMAIN f \ ns |-> f[n]]

\* the heights at most m that a loop removes, which stops at the first gap
GcRun(f, m) == {k \in DOMAIN f : k <= m /\ k..m \subseteq DOMAIN f}

\* the heights above a new best header that is lower than the previous one
Stale(h) == (Number(h) + 1) .. last_block_number

(* The hash the loop that replaces past hashes writes at height k, None    *)
(* where it writes nothing.  It goes down from the parent, one height at a *)
(* time, until it writes a hash that is there already or reaches one whose *)
(* info is gone.                                                           *)
MutRewritten(h, canonical) ==
  [k \in 0 .. Number(h) |->
     IF k = Number(h) THEN h ELSE IF k = Number(h) - 1 THEN Parent(h) ELSE ZeroHash]

Rewritten(h, canonical) ==
  LET converged(k, hash) == k # Number(h) /\ k \in DOMAIN canonical /\ canonical[k] = hash
      known == Known \cup {h}
      parent(x) == IF x = h THEN Parent(h) ELSE infos[x].parent_hash
      hash[k \in 0 .. Number(h)] ==
        IF k = Number(h) THEN h
        ELSE LET above == hash[k + 1] IN
             IF above = ZeroHash \/ converged(k + 1, above) \/ above \notin known
             THEN ZeroHash
             ELSE parent(above)
  IN  hash

NewCanonical(h) ==
  LET kept == Without(canonical_header_hashes, Stale(h))
      written == Rewritten(h, kept)
      heights == {k \in DOMAIN written : written[k] # ZeroHash}
  IN  [n \in DOMAIN kept \cup heights |-> IF n \in heights THEN written[n] ELSE kept[n]]

AllWith(h) ==
  [n \in DOMAIN all_header_hashes \cup {Number(h)} |->
     (IF n \in DOMAIN all_header_hashes THEN all_header_hashes[n] ELSE {})
       \cup (IF n = Number(h) THEN {h} ELSE {})]

InfosWith(h) == [x \in Known \cup {h} |-> IF x = h THEN InfoOf(h) ELSE infos[x]]

MutGcHeightHashes(h) == Number(h) - hashes_gc_threshold
GcHeight(h) == Number(h) - finalized_gc_threshold

\* the canonical chain ends in h: rewrite it and collect garbage
Adopt(h) ==
  LET gone == GcRun(AllWith(h), GcHeight(h)) IN
  /\ best_header_hash' = h
  /\ canonical_header_hashes' =
       Without(NewCanonical(h), GcRun(NewCanonical(h), Number(h) - hashes_gc_threshold))
  /\ all_header_hashes' = Without(AllWith(h), gone)
  /\ infos' = Without(InfosWith(h), UNION {AllWith(h)[n] : n \in gone})

KeepAside(h) ==
  /\ all_header_hashes' = AllWith(h)
  /\ infos' = InfosWith(h)
  /\ UNCHANGED <<best_header_hash, canonical_header_hashes>>

record_header(h) ==
  /\ Number(h) + finalized_gc_threshold >= last_block_number
  /\ Parent(h) \in Known
  /\ Number(h) \in DOMAIN all_header_hashes => h \notin all_header_hashes[Number(h)]
  /\ IF IsHeavier(h) THEN Adopt(h) ELSE KeepAside(h)

add_block_header(caller, h) ==
  /\ IF trusted_signer # NoSigner
     THEN caller = trusted_signer
     ELSE Parent(h) \in Known /\ Number(h) = Number(Parent(h)) + 1 /\ Valid(h)
  /\ record_header(h)

Next == \E caller \in Callers, h \in Headers : add_block_header(caller, h)

Spec == Init /\ [][Next]_vars

-----------------------------------------------------------------------------
(* Properties.                                                             *)

Infos == [total_difficulty : Nat, parent_hash : Headers \cup {ZeroHash}, number : Nat]

(* The types of the variables.                                             *)
TypeOK ==
  /\ Known \subseteq Headers /\ infos \in [Known -> Infos]
  /\ best_header_hash \in Known
  /\ DOMAIN canonical_header_hashes \subseteq Nat
  /\ \A n \in DOMAIN canonical_header_hashes : canonical_header_hashes[n] \in Headers
  /\ DOMAIN all_header_hashes \subseteq Nat
  /\ \A n \in DOMAIN all_header_hashes : all_header_hashes[n] \subseteq Headers

(* The fork choice: no known header has a higher total difficulty than the *)
(* best one, in whatever order the branches arrived.                       *)
BestIsHeaviest ==
  \A h \in Known : infos[h].total_difficulty <= infos[best_header_hash].total_difficulty

(* The ancestor of h at height n in the tree of all headers.               *)
AncestorAt(h, n) ==
  LET up[k \in 0 .. Number(h)] ==
        IF k = Number(h) THEN h
        ELSE IF up[k + 1] \in Headers \ {FirstHeader} THEN Parent(up[k + 1]) ELSE ZeroHash
  IN  up[n]

(* At every height whose headers are still known, the hash the contract    *)
(* answers with is the best header's ancestor: after any sequence of fork  *)
(* switches, to longer or to shorter branches, and of garbage collections. *)
(* For a height the best branch has not reached nothing is answered, so a  *)
(* switch to a heavier but shorter branch leaves no hash of the old one.   *)
CanonicalIsBestBranch ==
  /\ \A n \in DOMAIN all_header_hashes :
       n <= last_block_number => block_hash(n) = AncestorAt(best_header_hash, n)
  /\ \A n \in DOMAIN canonical_header_hashes : n <= last_block_number

(* Garbage collection bounds the storage: no header is kept that is as old *)
(* as the threshold, on whatever branch and in whatever order it came, and *)
(* no canonical hash is kept longer than its own threshold allows.  The    *)
(* best header, whose info record_header unwraps, is never collected.      *)
StorageIsBounded ==
  /\ best_header_hash \in Known
  /\ \A h \in Known : infos[h].number + finalized_gc_threshold > last_block_number
  /\ \A n \in DOMAIN canonical_header_hashes : n + hashes_gc_threshold > last_block_number

(* Whatever hash is answered as safe, also for the newest height whose     *)
(* headers are forgotten, lies on the best branch and has                  *)
(* num_confirmations headers of it above: a proof against it stands on     *)
(* that much work.  Of heights below that nothing can be said: a switch    *)
(* between branches that grew beside each other for longer than            *)
(* finalized_gc_threshold leaves there the hashes of the old branch.       *)
SafeHashIsBuried ==
  \A n \in DOMAIN canonical_header_hashes :
    LET safe == block_hash_safe(n) IN
    safe # ZeroHash /\ {n, n + 1} \cap DOMAIN all_header_hashes # {} =>
      /\ safe = AncestorAt(best_header_hash, n)
      /\ Cardinality({AncestorAt(best_header_hash, k) : k \in n + 1 .. last_block_number})
           >= num_confirmations
=============================================================================
