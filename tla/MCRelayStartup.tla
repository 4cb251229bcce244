--------------------------- MODULE MCRelayStartup ---------------------------
(***************************************************************************)
(* A small RelayStartup: five final blocks over three epochs, the second   *)
(* and the fourth of which carry no next producers.                        *)
(***************************************************************************)
EXTENDS RelayStartup, TLC

CONSTANTS k1, k2, k3, e1, e2, e3, e4, h1, h2, h3, h4, h5

MCKeys == {k1, k2, k3}
MCEpochs == {e1, e2, e3, e4}
MCHashes == {h1, h2, h3, h4, h5}

P(k) == <<[key |-> k, stake |-> 1]>>
MCValidators == (e1 :> P(k1)) @@ (e2 :> P(k2)) @@ (e3 :> P(k3)) @@ (e4 :> P(k1) \o P(k2))

B(height, e, ne, hash, bps) ==
  [height |-> height, timestamp |-> height, epochId |-> e, nextEpochId |-> ne, hash |-> hash,
   nextBpHash |-> MCValidators[ne], nextBps |-> bps, approvals |-> <<>>]

MCChain == <<B(1, e1, e2, h1, MCValidators[e2]), B(2, e1, e2, h2, NoBps),
             B(3, e2, e3, h3, MCValidators[e3]), B(4, e2, e3, h4, NoBps),
             B(5, e3, e4, h5, MCValidators[e4])>>
MCBlocks == {MCChain[i] : i \in DOMAIN MCChain}
=============================================================================
