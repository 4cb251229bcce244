--------------------------- MODULE MCBridgeSystem ---------------------------
(***************************************************************************)
(* A small BridgeSystem: three final blocks over two switches of epoch, a  *)
(* copy of one with a wrong signature, and a forged block of the next      *)
(* epoch whose last of three producers' signature is the wrong one.        *)
(***************************************************************************)
EXTENDS BridgeSystem, TLC

CONSTANTS k1, k2, k3, e1, e2, e3, hg, h2, h3, hx, r, s

MCKeys == {k1, k2, k3}
MCAccounts == {r, s}
MCEpochs == {e1, e2, e3}
MCHashes == {hg, h2, h3, hx}

P(k, stake) == [key |-> k, stake |-> stake]
MCValidators == (e1 :> <<P(k1, 3), P(k2, 1)>>)
             @@ (e2 :> <<P(k2, 1), P(k1, 1), P(k3, 2)>>)
             @@ (e3 :> <<P(k3, 1)>>)

B(height, time, e, ne, hash, bps, approvals) ==
  [height |-> height, timestamp |-> time, epochId |-> e, nextEpochId |-> ne,
   hash |-> hash, nextBpHash |-> MCValidators[ne], nextBps |-> bps,
   approvals |-> approvals]

Genesis == B(1, 1, e1, e2, hg, MCValidators[e2], <<k1, k2>>)
Good2 == B(2, 2, e1, e2, h2, NoBps, <<k1, None>>)
Bad2 == B(2, 2, e1, e2, h2, NoBps, <<k1, Junk>>)
Good3 == B(3, 4, e2, e3, h3, MCValidators[e3], <<k2, None, k3>>)
Forged3 == [B(3, 6, e2, e3, hx, <<P(k2, 1)>>, <<k2, None, Junk>>)
              EXCEPT !.nextBpHash = <<P(k2, 1)>>]

MCChain == <<Genesis, Good2, Good3>>
MCBlocks == {Genesis, Good2, Bad2, Good3, Forged3}
MCInitBlocks == {Genesis}
MCFinalized == {Genesis, Good2, Good3}
MCInitialValidators == {MCValidators[e1]}
=============================================================================
