--------------------------- MODULE MCTezosBridge ---------------------------
(***************************************************************************)
(* A small instance of TezosBridge.  Epoch e1 has three producers of stake *)
(* 1 (all three have to approve), e2 has two of stakes 3 and 1 (the first  *)
(* suffices), so an e2 block leaves a stale third approval behind.  The    *)
(* submittable blocks are the final chain g, b2, b3, b4, the same blocks   *)
(* with a wrong signature or incomplete, and a forged block.               *)
(***************************************************************************)
EXTENDS TezosBridgeRefinement, TLC

CONSTANTS k1, k2, k3, e1, e2, e3, hg, h2, h3, h4, hx, a1, a2

MCKeys == {k1, k2, k3}
MCAccounts == {a1, a2}
MCEpochs == {e1, e2, e3}
MCHashes == {hg, h2, h3, h4, hx}

P(k, s) == [key |-> k, stake |-> s]
MCValidators == (e1 :> <<P(k1, 1), P(k2, 1), P(k3, 1)>>)
             @@ (e2 :> <<P(k1, 3), P(k2, 1)>>)
             @@ (e3 :> <<P(k3, 1)>>)

B(height, time, e, ne, hash, bps, approvals) ==
  [height |-> height, timestamp |-> time, epochId |-> e, nextEpochId |-> ne,
   hash |-> hash, nextBpHash |-> MCValidators[ne], nextBps |-> bps,
   approvals |-> approvals]

V2 == MCValidators[e2]
V3 == MCValidators[e3]

Genesis == B(1, 1, e1, e2, hg, V2, <<k1, k2, k3>>)
Good2 == B(2, 2, e1, e2, h2, NoBps, <<k1, k2, k3>>)
Bad2 == B(2, 2, e1, e2, h2, NoBps, <<k1, Junk, k3>>)
Good3 == B(3, 4, e2, e3, h3, V3, <<k1, None>>)
NoBps3 == B(3, 4, e2, e3, h3, NoBps, <<k1, k2>>)
Short3 == B(3, 4, e2, e3, h3, V3, <<k1>>)
Good4 == B(4, 6, e3, e1, h4, MCValidators[e1], <<k3>>)
\* a forged block: nobody signed it and it announces producers of its own
Forged3 == [B(3, 5, e2, e3, hx, <<P(k2, 1)>>, <<Junk, k1>>)
              EXCEPT !.nextBpHash = <<P(k2, 1)>>]

MCBlocks == {Genesis, Good2, Bad2, Good3, NoBps3, Short3, Good4, Forged3}
MCInitBlocks == {Genesis}
MCFinalized == {Genesis, Good2, Good3, Good4}
MCInitialValidators == {MCValidators[e1]}
=============================================================================
