--------------------------- MODULE Tezos2EthRelay ---------------------------
(***************************************************************************)
(* The Tezos-to-Ethereum relay (tezos2eth-relay/index.js) after its        *)
(* initialisation: it reads the contract, asks Tezos for the next light    *)
(* client block after the trusted one and submits it, or sleeps until the  *)
(* contract may accept one.  Every await is a step of its own.             *)
(***************************************************************************)
EXTENDS TezosNode

CONSTANTS
  RelayAccount,    \* ethMasterAccount
  RelayMinDelay,   \* tezos2eth-relay-min-delay
  RelayMaxDelay,   \* tezos2eth-relay-max-delay
  RelayErrorDelay, \* tezos2eth-relay-error-delay
  RelayIteration   \* bound of the time from waking up to sleeping again

ASSUME RelayAssumption ==
  /\ RelayAccount \in Accounts
  /\ RelayMinDelay \in Nat \ {0} /\ RelayMaxDelay \in Nat /\ RelayErrorDelay \in Nat \ {0}
  /\ RelayIteration \in Nat

VARIABLE
  relay  \* the relay: pc, what the iteration has read so far, and due

RelayPcs == {"sleep", "state", "hash", "light", "stake", "deposit", "submit"}

RelayTypeOK ==
  /\ tip \in DOMAIN Chain
  /\ relay.pc \in RelayPcs /\ relay.height \in Nat /\ relay.validAt \in Nat
  /\ relay.timestamp \in Nat /\ relay.hash \in Hashes \cup {NoHash}
  /\ relay.block \in 1 .. tip /\ relay.due \in Nat

RelayInit ==
  /\ tip = 1
  /\ relay = [pc |-> "state", height |-> 0, validAt |-> 0, timestamp |-> 0,
              hash |-> NoHash, block |-> 1, due |-> RelayIteration]

RelaySleep(delay) == relay' = [relay EXCEPT !.pc = "sleep", !.due = now + delay]

RelayWake ==
  /\ relay.pc = "sleep"
  /\ now >= relay.due
  /\ relay' = [relay EXCEPT !.pc = "state", !.due = now + RelayIteration]
  /\ UNCHANGED <<vars, tip>>

RelayReadState ==
  /\ relay.pc = "state"
  /\ relay' = [relay EXCEPT !.pc = "hash",
                            !.height = EffectiveHead.height,
                            !.validAt = IF InWindow THEN lastValidAt ELSE 0,
                            !.timestamp = IF InWindow THEN untrustedHead.timestamp ELSE 0]
  /\ UNCHANGED <<vars, tip>>

RelayReadHash ==
  /\ relay.pc = "hash"
  /\ relay' = [relay EXCEPT !.pc = "light", !.hash = BlockHash(relay.height)]
  /\ UNCHANGED <<vars, tip>>

MaySubmit(block) ==
  \/ relay.validAt = 0
  \/ relay.timestamp + ReplaceDuration - block.timestamp <= 0

SleepTime(block) ==
  LET replaceDelay == relay.timestamp + ReplaceDuration - block.timestamp
      wanted == IF relay.validAt = 0 THEN RelayMaxDelay
                ELSE Min({RelayMaxDelay, relay.validAt - now, replaceDelay})
  IN  Max({wanted, RelayMinDelay})

\* a hash Tezos does not know makes the call throw
RelayReadLightClientBlock ==
  /\ relay.pc = "light"
  /\ IF KnownToTezos(relay.hash)
     THEN LET next == NextLightClientBlock(relay.hash) IN
          IF relay.height < Chain[next].height /\ MaySubmit(Chain[next])
          THEN relay' = [relay EXCEPT !.pc = "stake", !.block = next]
          ELSE RelaySleep(SleepTime(Chain[next]))
     ELSE RelaySleep(RelayErrorDelay)
  /\ UNCHANGED <<vars, tip>>

MutRelayReadStake ==
  /\ relay.pc = "stake"
  /\ relay' = [relay EXCEPT !.pc = IF balanceOf[RelayAccount] > 0 THEN "deposit" ELSE "submit"]
  /\ UNCHANGED <<vars, tip>>

RelayReadStake ==
  /\ relay.pc = "stake"
  /\ relay' = [relay EXCEPT !.pc = IF balanceOf[RelayAccount] = 0 THEN "deposit" ELSE "submit"]
  /\ UNCHANGED <<vars, tip>>

RelayDeposit ==
  /\ relay.pc = "deposit"
  /\ \/ Deposit(RelayAccount) /\ relay' = [relay EXCEPT !.pc = "submit"]
     \/ ~MayDeposit(RelayAccount) /\ RelaySleep(RelayErrorDelay) /\ UNCHANGED vars
  /\ UNCHANGED tip

\* the submission is mined, or reverts and the loop's catch sleeps
RelaySubmit ==
  /\ relay.pc = "submit"
  /\ \/ /\ AddLightClientBlock(RelayAccount, Chain[relay.block])
        /\ relay' = [relay EXCEPT !.pc = "state", !.due = now + RelayIteration]
     \/ /\ ~ENABLED AddLightClientBlock(RelayAccount, Chain[relay.block])
        /\ RelaySleep(RelayErrorDelay)
        /\ UNCHANGED vars
  /\ UNCHANGED tip

\* an RPC call throws, and nothing was sent
RelayThrows ==
  /\ relay.pc # "sleep"
  /\ RelaySleep(RelayErrorDelay)
  /\ UNCHANGED <<vars, tip>>

\* the transaction is mined, and the call that waits for its receipt throws
RelayLosesReceipt ==
  /\ \/ relay.pc = "deposit" /\ Deposit(RelayAccount)
     \/ relay.pc = "submit" /\ AddLightClientBlock(RelayAccount, Chain[relay.block])
  /\ RelaySleep(RelayErrorDelay)
  /\ UNCHANGED tip

RelayError == RelayThrows \/ RelayLosesReceipt

RelayStep ==
  \/ RelayWake \/ RelayReadState \/ RelayReadHash \/ RelayReadLightClientBlock
  \/ RelayReadStake \/ RelayDeposit \/ RelaySubmit
=============================================================================
