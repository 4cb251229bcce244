------------------------ MODULE TezosBridgeRefinement ------------------------
(***************************************************************************)
(* The contract implements OptimisticChain.  The trusted chain is what     *)
(* blockHashes(height) returns, which includes a pending block from the    *)
(* moment its window is over although nobody has committed it; the         *)
(* candidate is the pending block while it can still be challenged.        *)
(***************************************************************************)
EXTENDS TezosBridge

CONSTANT NoCandidate

ASSUME CandidateAssumption == NoCandidate \notin [height : Nat, hash : Hashes]

TrustedChain == [h \in Heights |-> BlockHash(h)]

Candidate == IF InWindow
             THEN [height |-> untrustedHead.height, hash |-> untrustedHead.hash]
             ELSE NoCandidate

Deadline == IF InWindow THEN lastValidAt ELSE 0

Optimistic == INSTANCE OptimisticChain
              WITH trusted <- TrustedChain, candidate <- Candidate, deadline <- Deadline,
                   clock <- now, Window <- LockDuration

(* The hashes the contract shows form an append-only chain and every block *)
(* in it survived an uninterrupted challenge window: neither a replacement *)
(* nor a challenge nor a late commit changes or loses a trusted hash.      *)
ImplementsOptimisticChain == Optimistic!Spec
=============================================================================
