---------------------------- MODULE BridgeSystem ----------------------------
(***************************************************************************)
(* The Tezos-to-Ethereum direction at work: the contract, the relay, the   *)
(* watchdog, the Tezos chain, and another account that submits whatever    *)
(* blocks it likes.  The contract is the one the relay has initialised     *)
(* with the first block of Chain.                                          *)
(*                                                                         *)
(* Real time enters through Tick: the Ethereum clock does not pass the     *)
(* moment by which the relay or the watchdog has finished its iteration or *)
(* woken up (their due fields).  This is the README's assumption that both *)
(* services run and that Ethereum accepts their transactions in time.      *)
(* Nor does it pass the timestamp of the next Tezos block before that      *)
(* block is final: the two clocks agree.                                   *)
(***************************************************************************)
EXTENDS Watchdog, Tezos2EthRelay

CONSTANTS
  Submitter,       \* an account submitting blocks that may be wrong
  MaxSubmissions,  \* bound of its submissions
  MaxErrors        \* bound of the RPC errors of relay and watchdog together

\* the blocks Tezos returns carry real signatures, and the first of them has
\* what the contract is initialised with
ASSUME SystemAssumption ==
  /\ Submitter \in Accounts \ {RelayAccount}
  /\ MaxSubmissions \in Nat /\ MaxErrors \in Nat
  /\ \A i \in DOMAIN Chain : LET bps == Validators[Chain[i].epochId] IN
       \A j \in DOMAIN bps : Chain[i].approvals[j] \in {None, bps[j].key}
  /\ Chain[1] \in InitBlocks /\ Chain[1].nextBps # NoBps
  /\ Validators[Chain[1].epochId] \in InitialValidators

\* a wrong block submitted right after the watchdog has read the state is
\* found one sleep and two iterations later, plus what the errors cost; one in
\* the challenge itself costs the full WatchdogDelay
ASSUME WatchIsTimely ==
  LockDuration > 2 * WatchdogIteration + WatchdogDelay + MaxErrors * FailedIteration

\* two thirds of the stake is honest: a block that is not final lacks the
\* signature of some producer it needs the vote of
IsFinal(b) == \E c \in Finalized : c.hash = b.hash

ASSUME HonestMajority ==
  \A b \in Blocks : ~IsFinal(b) =>
    LET bps == Validators[b.epochId] IN
    CheckBp(bps, b.approvals) => \E i \in DOMAIN bps : b.approvals[i] \notin {None, bps[i].key}

VARIABLES submissions, errors

procVars == <<watchdog, relay, tip, submissions, errors>>
sysVars == <<vars, procVars>>

SysInit ==
  /\ initialized = TRUE
  /\ head = Info(Chain[1])
  /\ untrustedHead = ZeroInfo
  /\ untrustedApprovalCount = 0
  /\ untrustedApprovals = <<>>
  /\ untrustedHeadIsFromNextEpoch = FALSE
  /\ currentBlockProducers = Validators[Chain[1].epochId]
  /\ nextBlockProducers = Chain[1].nextBps
  /\ untrustedNextBlockProducers = <<>>
  /\ lastSubmitter = NoAccount
  /\ lastValidAt = 0
  /\ blockHashes_ = [h \in Heights |-> IF h = Chain[1].height THEN Chain[1].hash ELSE NoHash]
  /\ balanceOf = [a \in Accounts |-> 0]
  /\ ethBalance = 0
  /\ now = 0
  /\ WatchdogInit
  /\ RelayInit
  /\ submissions = 0
  /\ errors = 0

SysWatchdog == WatchdogStep /\ UNCHANGED <<relay, tip, submissions, errors>>

SysRelay == RelayStep /\ UNCHANGED <<watchdog, submissions, errors>>

SysProduce == ProduceBlock /\ UNCHANGED <<relay, watchdog, submissions, errors>>

SysError ==
  /\ errors < MaxErrors
  /\ errors' = errors + 1
  /\ \/ WatchdogError /\ UNCHANGED <<relay, tip>>
     \/ RelayError /\ UNCHANGED watchdog
  /\ UNCHANGED submissions

SubmitterStep ==
  \/ /\ Deposit(Submitter) \/ Withdraw(Submitter)
     /\ UNCHANGED procVars
  \/ /\ submissions < MaxSubmissions
     /\ submissions' = submissions + 1
     /\ \E b \in Blocks :
          /\ IsFinal(b) => KnownToTezos(b.hash)
          /\ AddLightClientBlock(Submitter, b)
     /\ UNCHANGED <<watchdog, relay, tip, errors>>

SysTick ==
  /\ now < watchdog.due /\ now < relay.due
  /\ tip < Len(Chain) => now < Chain[tip + 1].timestamp
  /\ Tick
  /\ UNCHANGED procVars

SysNext == SysWatchdog \/ SysRelay \/ SysProduce \/ SysError \/ SubmitterStep \/ SysTick

\* the services keep running, Tezos keeps producing, time passes
Fairness ==
  /\ WF_sysVars(SysWatchdog) /\ WF_sysVars(SysRelay)
  /\ WF_sysVars(SysProduce) /\ WF_sysVars(SysTick)

SysSpec == SysInit /\ [][SysNext]_sysVars
FairSysSpec == SysSpec /\ Fairness

-----------------------------------------------------------------------------
SysTypeOK ==
  /\ TypeOK /\ WatchdogTypeOK /\ RelayTypeOK
  /\ submissions \in 0 .. MaxSubmissions /\ errors \in 0 .. MaxErrors

(* Whatever is submitted, and however it is replaced, resubmitted or timed *)
(* against the watchdog's polling, the contract trusts only blocks that    *)
(* are final on Tezos.                                                     *)
OnlyFinalTrusted == TrustedFinal

(* The relay never loses the bond it has deposited: no challenge of the    *)
(* watchdog, sent for an earlier pending block, hits a block of the relay. *)
RelayKeepsBond == [][balanceOf[RelayAccount] > 0 => balanceOf'[RelayAccount] > 0]_sysVars

(* What the relay has read of the contract is a trusted block whenever it  *)
(* asks Tezos for the block that follows: the two calls that read height   *)
(* and hash may be separated by commits, challenges and time.              *)
RelayReadsTrusted ==
  relay.pc \in {"light", "stake", "deposit", "submit"} =>
    \E i \in 1 .. tip : Chain[i].height = relay.height /\ Chain[i].hash = relay.hash

(* The contract catches up with Tezos: the last block of the chain becomes *)
(* the trusted head, in spite of wrong blocks in between.                  *)
CaughtUp == EffectiveHead.height = Chain[Len(Chain)].height
EventuallyCaughtUp == <>CaughtUp
=============================================================================
