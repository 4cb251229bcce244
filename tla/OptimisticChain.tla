--------------------------- MODULE OptimisticChain ---------------------------
(***************************************************************************)
(* What the TezosBridge contract promises to those who read block hashes   *)
(* from it: an append-only chain of trusted blocks.  A candidate is on     *)
(* trial for a whole Window; it may be discarded or superseded until the   *)
(* very end of the trial, becomes trusted at its end, and a trusted block  *)
(* is never changed, removed or inserted below another.                    *)
(***************************************************************************)
EXTENDS Integers

CONSTANTS Heights, Hashes, NoHash, NoCandidate, Window

VARIABLES
  trusted,    \* the trusted hash of every height
  candidate,  \* the block on trial
  deadline,   \* when its trial ends
  clock

vars == <<trusted, candidate, deadline, clock>>

Init ==
  /\ trusted = [h \in Heights |-> NoHash]
  /\ candidate = NoCandidate
  /\ deadline = 0
  /\ clock = 0

AboveTrusted(h) == \A k \in Heights : trusted[k] # NoHash => k < h

Genesis(h, x) ==
  /\ \A k \in Heights : trusted[k] = NoHash
  /\ trusted' = [trusted EXCEPT ![h] = x]
  /\ UNCHANGED <<candidate, deadline, clock>>

\* submit a block, which supersedes the one on trial if any
Propose(h, x) ==
  /\ \E k \in Heights : trusted[k] # NoHash
  /\ AboveTrusted(h)
  /\ candidate' = [height |-> h, hash |-> x]
  /\ deadline' = clock + Window
  /\ UNCHANGED <<trusted, clock>>

Discard ==
  /\ candidate # NoCandidate
  /\ candidate' = NoCandidate
  /\ deadline' = 0
  /\ UNCHANGED <<trusted, clock>>

\* time passes, and with it the trial of the candidate
Advance ==
  /\ clock' = clock + 1
  /\ IF candidate # NoCandidate /\ clock' >= deadline
     THEN /\ trusted' = [trusted EXCEPT ![candidate.height] = candidate.hash]
          /\ candidate' = NoCandidate
          /\ deadline' = 0
     ELSE UNCHANGED <<trusted, candidate, deadline>>

Next ==
  \/ \E h \in Heights, x \in Hashes : Genesis(h, x) \/ Propose(h, x)
  \/ Discard
  \/ Advance

Spec == Init /\ [][Next]_vars
=============================================================================
