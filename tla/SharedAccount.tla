---------------------------- MODULE SharedAccount ----------------------------
(***************************************************************************)
(* Relay and watchdog send from one Ethereum account, eth-master-sk, and   *)
(* both with the number of transactions mined so far as the nonce: the     *)
(* relay because web3 signs with it, the watchdog because it asks for      *)
(* getTransactionCount without 'pending'.  So whatever waits to be mined   *)
(* waits for the same nonce, and only one of them ever is.  BridgeSystem   *)
(* takes their transactions as mined within the iteration; here they are   *)
(* sent, refused, displaced, given up and mined late; and the calls that   *)
(* prepare and send them may throw.                                        *)
(*                                                                         *)
(* The clock stands still, so that no window ends: how often a challenge   *)
(* has to be sent says how long a window has to be.  What waits is taken   *)
(* to be mined before the watchdog's sleep is over.                        *)
(***************************************************************************)
EXTENDS BridgeSystem

CONSTANTS
  Prices,         \* the gas prices the node may suggest
  GasMultiplier,  \* eth-gas-multiplier, which the relay alone applies
  MaxGasPrice     \* the watchdog's loop ends there (1e13)

ASSUME AccountAssumption ==
  GasMultiplier \in Nat \ {0} /\ MaxGasPrice \in Nat /\ Prices \subseteq 1 .. MaxGasPrice - 1

\* what the relay gets from Tezos meets the contract's checks: the block has
\* the votes, and the producers after it when it begins an epoch
ASSUME LightClientBlocks ==
  \A i \in DOMAIN Chain :
    /\ CheckBp(Validators[Chain[i].epochId], Chain[i].approvals)
    /\ Chain[i].epochId # Chain[1].epochId => NextBpsAnnounced(Chain[i])

Senders == {"relay", "watchdog"}

VARIABLES
  sending,   \* of each process: stage of its transaction, its price, and
             \* whether the nonce it has read is still the next one
  pool,      \* transactions waiting to be mined, all with the next nonce
  attempts   \* challenges begun of a wrong signature of the pending block

accountVars == <<sending, pool, attempts>>
allVars == <<sysVars, accountVars>>

Transactions ==
  [by : Senders, price : 1 .. GasMultiplier * MaxGasPrice,
   call : {"deposit", "submit", "challenge"}, arg : Nat]

SharedTypeOK ==
  /\ SysTypeOK
  /\ sending \in [Senders -> [stage : {"idle", "send", "wait", "mined", "reverted"},
                              price : 0 .. GasMultiplier * MaxGasPrice, fresh : BOOLEAN]]
  /\ pool \subseteq Transactions /\ attempts \in Nat

SharedInit ==
  /\ SysInit
  /\ sending = [p \in Senders |-> [stage |-> "idle", price |-> 0, fresh |-> FALSE]]
  /\ pool = {} /\ attempts = 0

Transaction(p) ==
  [by |-> p, price |-> sending[p].price,
   call |-> IF p = "relay" THEN relay.pc ELSE watchdog.pc,
   arg |-> IF p = "relay" THEN relay.block ELSE watchdog.index]

Stage(p, stage) == sending' = [sending EXCEPT ![p].stage = stage]

\* the pending block, its approvals or its window changed: count anew
Recount ==
  attempts' = IF UNCHANGED <<untrustedHead, untrustedApprovals, lastValidAt>> THEN attempts ELSE 0

-----------------------------------------------------------------------------
(* Sending.  Price and nonce are read one after the other, the price       *)
(* being whatever the node says.                                           *)
Prepared(price) == [stage |-> "send", price |-> price, fresh |-> TRUE]

RelayPrepare ==
  /\ relay.pc \in {"deposit", "submit"} /\ sending["relay"].stage = "idle"
  /\ \E price \in Prices :
       sending' = [sending EXCEPT !["relay"] = Prepared(GasMultiplier * price)]
  /\ UNCHANGED <<sysVars, pool, attempts>>

WatchdogPrepare ==
  /\ watchdog.pc = "challenge" /\ sending["watchdog"].stage = "idle"
  /\ \E price \in Prices : sending' = [sending EXCEPT !["watchdog"] = Prepared(price)]
  /\ attempts' = IF InWindow /\ SignatureFails(watchdog.index) THEN attempts + 1 ELSE attempts
  /\ UNCHANGED <<sysVars, pool>>

\* "nonce too low", or "replacement transaction underpriced"
IsRefused(p) == ~sending[p].fresh \/ \E other \in pool : other.price >= sending[p].price

\* the relay's catch and the watchdog's, which only logs a failed challenge
MutGiveUp(p) ==
  IF p = "relay" THEN UNCHANGED <<relay, watchdog>>
                 ELSE WatchdogSleep(WatchdogDelay) /\ UNCHANGED relay
GiveUp(p) ==
  IF p = "relay" THEN RelaySleep(RelayErrorDelay) /\ UNCHANGED watchdog
                 ELSE WatchdogSleep(WatchdogDelay) /\ UNCHANGED relay

Send(p) ==
  /\ sending[p].stage = "send"
  /\ \/ /\ ~IsRefused(p)
        /\ pool' = pool \cup {Transaction(p)}
        /\ Stage(p, "wait")
        /\ UNCHANGED <<relay, watchdog>>
     \/ /\ IsRefused(p)
        /\ Stage(p, "idle") /\ GiveUp(p)
        /\ UNCHANGED pool
  /\ UNCHANGED <<vars, tip, submissions, errors, attempts>>

-----------------------------------------------------------------------------
(* Waiting.                                                                *)

MutRelayTimeout ==
  /\ sending["relay"].stage = "wait" /\ sending["relay"].fresh
  /\ Stage("relay", "idle") /\ GiveUp("relay")
  /\ UNCHANGED <<vars, tip, submissions, errors, pool, attempts>>

\* web3 stops polling for the receipt and throws; the transaction may live on
RelayTimeout ==
  /\ sending["relay"].stage = "wait"
  /\ Stage("relay", "idle") /\ GiveUp("relay")
  /\ UNCHANGED <<vars, tip, submissions, errors, pool, attempts>>

\* not mined in five minutes: the same nonce at twice the price, up to a limit
Doubled == 2 * sending["watchdog"].price

SlowChallenge ==
  /\ sending["watchdog"].stage = "wait"
  /\ IF Doubled < MaxGasPrice
     THEN /\ sending' = [sending EXCEPT !["watchdog"].stage = "send", !["watchdog"].price = Doubled]
          /\ UNCHANGED watchdog
     ELSE Stage("watchdog", "idle") /\ WatchdogSleep(WatchdogDelay)
  /\ UNCHANGED <<vars, relay, tip, submissions, errors, pool, attempts>>

\* a transaction that was mined, or one that reverted
Receipt(p) ==
  /\ sending[p].stage \in {"mined", "reverted"}
  /\ Stage(p, "idle")
  /\ IF p = "relay" /\ sending[p].stage = "mined"
     THEN relay' = [relay EXCEPT !.pc = IF @ = "deposit" THEN "submit" ELSE "state"]
          /\ UNCHANGED watchdog
     ELSE GiveUp(p)
  /\ UNCHANGED <<vars, tip, submissions, errors, pool, attempts>>

-----------------------------------------------------------------------------
(* Ethereum mines one of what waits, also one that was outbid: the miner   *)
(* may not have seen the other.  Everything else has lost its nonce.       *)
Execute(tx) ==
  \/ tx.call = "deposit" /\ Deposit(RelayAccount)
  \/ tx.call = "submit" /\ AddLightClientBlock(RelayAccount, Chain[tx.arg])
  \/ tx.call = "challenge" /\ Challenge(tx.arg)

\* the checks of addLightClientBlock; as time stands still, nothing is committed
MayAddLightClientBlock(b) ==
  /\ balanceOf[RelayAccount] >= LockEthAmount
  /\ InWindow => b.timestamp >= untrustedHead.timestamp + ReplaceDuration
  /\ b.height > head.height
  /\ \/ b.epochId = head.epochId /\ CheckBp(currentBlockProducers, b.approvals)
     \/ /\ b.epochId # head.epochId /\ b.epochId = head.nextEpochId
        /\ CheckBp(nextBlockProducers, b.approvals) /\ NextBpsAnnounced(b)

Reverts(tx) ==
  \/ tx.call = "deposit" /\ ~MayDeposit(RelayAccount)
  \/ tx.call = "submit" /\ ~MayAddLightClientBlock(Chain[tx.arg])
  \/ tx.call = "challenge" /\ ~(InWindow /\ SignatureFails(tx.arg))

Mined(tx, outcome) ==
  sending' = [p \in Senders |->
                [sending[p] EXCEPT !.fresh = FALSE,
                                   !.stage = IF @ = "wait" /\ Transaction(p) = tx THEN outcome ELSE @]]

Mine ==
  /\ \E tx \in pool :
       \/ Execute(tx) /\ Mined(tx, "mined")
       \/ Reverts(tx) /\ UNCHANGED vars /\ Mined(tx, "reverted")
  /\ pool' = {}
  /\ Recount
  /\ UNCHANGED procVars

-----------------------------------------------------------------------------
(* A call of either process throws.  It gives up what it was doing, and    *)
(* what it was sending the node may have taken nevertheless.               *)
Throws(p) ==
  IF p = "relay" THEN RelayThrows /\ UNCHANGED watchdog
                 ELSE WatchdogError /\ UNCHANGED <<relay, tip>>

ServiceError(p) ==
  /\ errors < MaxErrors
  /\ errors' = errors + 1
  /\ Throws(p) /\ Stage(p, "idle")
  /\ \/ UNCHANGED pool
     \/ /\ sending[p].stage = "send" /\ ~IsRefused(p)
        /\ pool' = pool \cup {Transaction(p)}
  /\ UNCHANGED <<submissions, attempts>>

-----------------------------------------------------------------------------
(* The rest of both loops is as in BridgeSystem, with sleeps of any length.*)
WakeRelay ==
  /\ relay.pc = "sleep"
  /\ relay' = [relay EXCEPT !.pc = "state"]
  /\ UNCHANGED <<vars, tip, watchdog, submissions, errors, accountVars>>

WakeWatchdog ==
  /\ watchdog.pc = "sleep" /\ pool = {}
  /\ watchdog' = [watchdog EXCEPT !.pc = "state"]
  /\ UNCHANGED <<vars, tip, relay, submissions, errors, accountVars>>

RelayRead ==
  /\ RelayReadState \/ RelayReadHash \/ RelayReadLightClientBlock \/ RelayReadStake
  /\ UNCHANGED <<watchdog, submissions, errors, accountVars>>

WatchdogRead ==
  /\ WatchdogReadState \/ WatchdogCheck
  /\ UNCHANGED <<relay, tip, submissions, errors, accountVars>>

RelayProcess == WakeRelay \/ RelayRead \/ RelayPrepare \/ Send("relay") \/ Receipt("relay") \/ RelayTimeout

WatchdogProcess ==
  WakeWatchdog \/ WatchdogRead \/ WatchdogPrepare \/ Send("watchdog") \/ Receipt("watchdog") \/ SlowChallenge

OtherSubmitter == SubmitterStep /\ Recount /\ UNCHANGED <<sending, pool>>

SharedNext ==
  \/ RelayProcess \/ WatchdogProcess \/ Mine \/ OtherSubmitter
  \/ \E p \in Senders : ServiceError(p)
  \/ SysProduce /\ UNCHANGED accountVars

SharedSpec == SharedInit /\ [][SharedNext]_allVars

\* both services run, Ethereum mines, Tezos goes on
FairSharedSpec ==
  /\ SharedSpec
  /\ WF_allVars(RelayProcess) /\ WF_allVars(WatchdogProcess) /\ WF_allVars(Mine)
  /\ WF_allVars(SysProduce /\ UNCHANGED accountVars)

-----------------------------------------------------------------------------
(* The third challenge of a wrong block is not in vain, but for those that *)
(* an error ended: the relay's transactions can come before the challenge  *)
(* at most twice, with the deposit and the submission it decided on before *)
(* the wrong block came.                                                   *)
FewChallenges == attempts <= 3 + errors

(* A challenge that is mined long after it was sent, when the block it was *)
(* for has been replaced, does not cost the relay its bond.                *)
LateChallengeSparesRelay ==
  [][balanceOf[RelayAccount] > 0 => balanceOf'[RelayAccount] > 0]_allVars

(* Although the two processes refuse and displace each other's             *)
(* transactions, in the end a block of Tezos with good signatures is       *)
(* pending, and every wrong one has gone.                                  *)
RightPending ==
  /\ InWindow /\ IsFinal(untrustedHead)
  /\ \A i \in DOMAIN PendingProducers : ~SignatureFails(i)

EventuallyRightPending == <>[]RightPending
=============================================================================
