-------------------------- MODULE EthToTezosSystem --------------------------
(***************************************************************************)
(* The Ethereum-to-Tezos direction at work: the Ethereum chain, the relay, *)
(* the light client contract on Tezos and one transfer of tokens.          *)
(***************************************************************************)
EXTENDS Eth2TezosRelay, TransferToTezos, FiniteSets

CONSTANTS
  Lead,            \* blocks mined before the transfer's lock and after it
  MaxReorgs,       \* bound of the reorganisations
  MaxReorgDepth,   \* bound of the blocks one of them replaces
  MaxInterrupts,   \* bound of the interruptions of the transfer
  MaxErrors,       \* bound of the relay's RPC errors
  MaxMishaps       \* bound of all of these together

VARIABLES reorgs, interrupts, errors

counters == <<reorgs, interrupts, errors>>
vars == <<chainVars, clientVars, relayVars, transferVars, counters>>

Init ==
  /\ ChainInit /\ ClientInit /\ RelayInit /\ TransferInit
  /\ reorgs = 0 /\ interrupts = 0 /\ errors = 0

MayMishap == reorgs + interrupts + errors < MaxMishaps

OnChain(b) == \E h \in DOMAIN chain : chain[h] = b

\* the chain is Lead blocks ahead of the last lock on it
LongEnough ==
  Len(chain) >= Lead /\ \A h \in DOMAIN chain :
    (\E i \in DOMAIN locks : locks[i] = chain[h]) => Len(chain) >= h + Lead

Mine ==
  /\ ~LongEnough
  /\ MineBlock
  /\ UNCHANGED <<clientVars, relayVars, transferVars, counters>>

\* a lock in a replaced block is mined again in the new branch, or never was:
\* then what it took is there again, and of the allowance the last approval
Fork ==
  /\ reorgs < MaxReorgs /\ MayMishap
  /\ reorgs' = reorgs + 1
  /\ \E d \in 1 .. MaxReorgDepth :
       /\ Reorg(d)
       /\ LET dropped == {i \in DOMAIN locks : \E h \in Len(chain) - d + 1 .. Len(chain) :
                                                 chain[h] = locks[i]} IN
          \/ /\ locks' = [i \in DOMAIN locks |-> IF i \in dropped THEN Fresh ELSE locks[i]]
             /\ UNCHANGED <<balance, allowance>>
          \/ /\ dropped # {}
             /\ locks' = [i \in DOMAIN locks |-> IF i \in dropped THEN NoBlock ELSE locks[i]]
             /\ balance' = balance + Cardinality(dropped) /\ allowance' = 1
  /\ UNCHANGED <<clientVars, relayVars, transfer, log, minted, torn, interrupts, errors>>

Relay == RelayLoop /\ UNCHANGED <<transferVars, counters>>

Include == IncludeOperation /\ UNCHANGED <<transferVars, counters>>

Transfer == TransferStep /\ UNCHANGED <<relayVars, counters>>

Interrupted ==
  /\ interrupts < MaxInterrupts /\ MayMishap
  /\ interrupts' = interrupts + 1
  /\ Interrupt \/ TornRecord
  /\ UNCHANGED <<relayVars, reorgs, errors>>

RpcError ==
  /\ errors < MaxErrors /\ MayMishap
  /\ errors' = errors + 1
  /\ RelayError
  /\ UNCHANGED <<transferVars, reorgs, interrupts>>

Next == Mine \/ Fork \/ Relay \/ Include \/ Transfer \/ Interrupted \/ RpcError

Spec == Init /\ [][Next]_vars

\* blocks are mined, operations included, the relay runs and the user runs
\* the command until it succeeds
Fairness == WF_vars(Mine) /\ WF_vars(Relay) /\ WF_vars(Include) /\ WF_vars(Transfer)

FairSpec == Spec /\ Fairness

-----------------------------------------------------------------------------
TypeOK == ChainTypeOK /\ ClientTypeOK /\ RelayTypeOK /\ TransferTypeOK

(* The contract's chain has no gap and every header in it is the child of  *)
(* the one below, although the relay submits without waiting for earlier   *)
(* operations and may read the two sides of a fork in one iteration.       *)
ClientIsAChain ==
  /\ DOMAIN canonical_header_hashes = 1 .. latest_block
  /\ latest_block > 0 => header_hash = canonical_header_hashes[latest_block]
  /\ \A n \in 2 .. latest_block :
       parent[canonical_header_hashes[n]] = canonical_header_hashes[n - 1]

(* One command locks once, however often it is killed and run again: a run *)
(* that resumes at the lock although the lock was mined cannot lock a      *)
(* second time.  Only a kill in the middle of writing the log, which then  *)
(* reads as absent, lets the next run mint, approve and lock once more.    *)
LocksOnce == Cardinality({i \in DOMAIN locks : OnChain(locks[i])}) <= 1 + torn

MintProven == log.height \in DOMAIN canonical_header_hashes
              /\ canonical_header_hashes[log.height] = log.block

(* Whenever tokens are minted on Tezos, the light client contract knows    *)
(* the block of the logged lock as the canonical one of its height, as     *)
(* long as Ethereum does not reorganise: comparing block numbers is then   *)
(* enough, also for a transfer that was resumed.                           *)
MintIsProvenWithoutFork == [][minted' > minted /\ reorgs = 0 => MintProven]_vars

(* One command mints once, however often it is interrupted and run again.  *)
MintsOnce == minted <= 1

(* A transfer that is neither interrupted nor met by a reorganisation      *)
(* completes: the tokens arrive and the log is gone.                       *)
EventuallyTransferred ==
  <>((transfer.pc = "done" /\ minted > 0) \/ reorgs > 0 \/ interrupts > 0)

(* The contract keeps up with Ethereum: again and again its head is on the *)
(* chain's current branch, at the chain's height.                          *)
ClientFollowsChain == []<>(header_hash = Tip)

(* Without a reorganisation it does.                                       *)
ClientFollowsGrowth == []<>(header_hash = Tip \/ reorgs > 0)
=============================================================================
