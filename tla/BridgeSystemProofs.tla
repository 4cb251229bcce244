-------------------------- MODULE BridgeSystemProofs --------------------------
(***************************************************************************)
(* Proofs about the Tezos-to-Ethereum direction at work: contract, relay   *)
(* and watchdog, for every chain, every set of wrong blocks, any number of *)
(* submissions and errors, and all delays that meet WatchIsTimely; and at  *)
(* last about the account that relay and watchdog share, with transactions *)
(* that wait, are displaced and are mined late.                            *)
(***************************************************************************)
EXTENDS SharedAccount, TezosBridgeProofs

(* The block with this hash is one of the first tip blocks of the chain.   *)
Known(height, hash) == \E i \in 1 .. tip : Chain[i].height = height /\ Chain[i].hash = hash

(* The types of what the services hold.                                    *)
RelayRecords == [pc : RelayPcs, height : Nat, validAt : Nat, timestamp : Nat,
                 hash : Hashes \cup {NoHash}, block : Nat \ {0}, due : Nat]

RelayTypes ==
  /\ tip \in DOMAIN Chain
  /\ relay \in RelayRecords
  /\ relay.block <= tip

ServiceTypes ==
  /\ RelayTypes /\ WatchdogTypeOK
  /\ submissions \in 0 .. MaxSubmissions /\ errors \in 0 .. MaxErrors

(* The pending block is b, with b's approvals and the votes it needs.      *)
PendingIs(b) ==
  /\ untrustedHead = Info(b)
  /\ CheckBp(PendingProducers, b.approvals)
  /\ \A i \in DOMAIN b.approvals : Approval(i) = b.approvals[i]

(* A pending block that is final has been produced, and one that the relay *)
(* submitted is a block of the chain.                                      *)
MaySubmitBlock(a, b) ==
  /\ IsFinal(b) => KnownToTezos(b.hash)
  /\ a = RelayAccount => \E i \in 1 .. tip : b = Chain[i]

PendingInv ==
  lastValidAt # 0 => \E b \in Blocks : PendingIs(b) /\ MaySubmitBlock(lastSubmitter, b)

CommittedKnown == \A h \in Heights : blockHashes_[h] # NoHash => Known(h, blockHashes_[h])

(* What the relay has read stays trusted.                                  *)
RelayKnows ==
  /\ relay.pc = "hash" =>
       relay.height \in Heights /\ BlockHash(relay.height) # NoHash
  /\ relay.pc \in {"light", "stake", "deposit", "submit"} => Known(relay.height, relay.hash)

(* The watchdog is going to find the wrong signature in this iteration.    *)
OnTrack ==
  \/ watchdog.pc = "state"
  \/ watchdog.pc = "check" /\ \E i \in watchdog.index .. watchdog.count : SignatureFails(i)
  \/ watchdog.pc = "challenge" /\ SignatureFails(watchdog.index)

(* The time by which it has challenged a wrong block at the latest: an     *)
(* iteration that started too early is lost, and so is each one that an    *)
(* error still to come may end, with the delay that follows it.            *)
LostTime == (MaxErrors - errors) * FailedIteration

ChallengedBy ==
  watchdog.due + LostTime +
    (IF watchdog.pc = "sleep" THEN WatchdogIteration
     ELSE IF OnTrack THEN 0 ELSE WatchdogDelay + WatchdogIteration)

BadPending == lastValidAt # 0 /\ ~FinalHash(untrustedHead.hash)

Timely == BadPending => ChallengedBy < lastValidAt

(* The watchdog is never late, and its deadline never far.                 *)
Punctual ==
  /\ now <= watchdog.due
  /\ watchdog.pc # "sleep" => watchdog.due <= now + WatchdogIteration
  /\ watchdog.pc = "sleep" => \/ watchdog.due <= now + WatchdogDelay
                              \/ errors >= 1 /\ watchdog.due <= now + WatchdogErrorDelay

SysInv ==
  /\ ChainInv /\ ElectedInv /\ initialized
  /\ ServiceTypes /\ PendingInv /\ CommittedKnown /\ RelayKnows
  /\ Punctual /\ Timely

-----------------------------------------------------------------------------
(* Numbers.                                                                *)

LEMMA MaxOfTwo ==
  ASSUME NEW a \in Int, NEW b \in Int
  PROVE  Max({a, b}) \in Int /\ Max({a, b}) >= b
<1>1. \E x \in {a, b} : \A y \in {a, b} : x >= y
  <2>1. CASE a >= b
    BY <2>1
  <2>2. CASE b >= a
    BY <2>2
  <2> QED BY <2>1, <2>2
<1>2. Max({a, b}) \in {a, b} /\ \A y \in {a, b} : Max({a, b}) >= y
  BY <1>1 DEF Max
<1> QED BY <1>2

(* An iteration that fails is followed by one of the two delays.           *)
LEMMA FailureCosts ==
  /\ FailedIteration \in Nat
  /\ FailedIteration >= WatchdogIteration + WatchdogDelay
  /\ FailedIteration >= WatchdogIteration + WatchdogErrorDelay
<1>1. WatchdogDelay \in Nat /\ WatchdogErrorDelay \in Nat /\ WatchdogIteration \in Nat
  BY WatchdogAssumption
<1>2. PICK longest : longest = Max({WatchdogDelay, WatchdogErrorDelay})
  OBVIOUS
<1>3. longest \in Int /\ longest >= WatchdogErrorDelay
  BY <1>1, <1>2, MaxOfTwo
<1>4. longest >= WatchdogDelay
  <2>1. {WatchdogDelay, WatchdogErrorDelay} = {WatchdogErrorDelay, WatchdogDelay}
    OBVIOUS
  <2>2. Max({WatchdogErrorDelay, WatchdogDelay}) >= WatchdogDelay
    BY <1>1, MaxOfTwo
  <2> QED BY <1>2, <2>1, <2>2
<1>5. FailedIteration = WatchdogIteration + longest
  BY <1>2 DEF FailedIteration
<1> QED BY <1>1, <1>3, <1>4, <1>5

LEMMA MinOfThree ==
  ASSUME NEW a \in Int, NEW b \in Int, NEW c \in Int
  PROVE  Min({a, b, c}) \in Int
<1>1. \E x \in {a, b, c} : \A y \in {a, b, c} : x =< y
  <2>1. CASE a <= b /\ a <= c
    BY <2>1
  <2>2. CASE b <= a /\ b <= c
    BY <2>2
  <2>3. CASE c <= a /\ c <= b
    BY <2>3
  <2> QED BY <2>1, <2>2, <2>3
<1>2. Min({a, b, c}) \in {a, b, c}
  BY <1>1 DEF Min
<1> QED BY <1>2

(* One error more costs one iteration, and what is left is never more than *)
(* MaxErrors of them.                                                      *)
LEMMA LostTimeFacts ==
  ASSUME errors \in 0 .. MaxErrors
  PROVE  /\ FailedIteration \in Nat /\ LostTime \in Nat /\ MaxErrors * FailedIteration \in Nat
         /\ LostTime <= MaxErrors * FailedIteration
         /\ errors >= 1 => LostTime + FailedIteration <= MaxErrors * FailedIteration
<1>1. FailedIteration \in Nat /\ MaxErrors \in Nat /\ errors \in Nat
  BY FailureCosts, SystemAssumption
<1>2. ASSUME NEW m \in Nat, NEW e \in 0 .. m, NEW c \in Nat
      PROVE  /\ (m - e) * c \in Nat /\ m * c \in Nat /\ (m - e) * c <= m * c
             /\ e >= 1 => (m - e) * c + c <= m * c
  <2>1. (m - e) * c \in Nat /\ m * c \in Nat /\ e * c \in Nat
    OBVIOUS
  <2>2. m * c = (m - e) * c + e * c
    OBVIOUS
  <2>3. ASSUME e >= 1 PROVE e * c >= c
    <3>1. (e - 1) * c \in Nat
      BY <2>3
    <3>2. e * c = (e - 1) * c + c
      OBVIOUS
    <3> QED BY <3>1, <3>2
  <2> QED BY <2>1, <2>2, <2>3
<1> QED BY <1>1, <1>2 DEF LostTime

LEMMA OneErrorMore ==
  ASSUME errors \in 0 .. MaxErrors, errors < MaxErrors, errors' = errors + 1
  PROVE  LostTime' = LostTime - FailedIteration /\ LostTime' \in Nat
<1>1. FailedIteration \in Nat /\ MaxErrors \in Nat /\ errors \in Nat
  BY FailureCosts, SystemAssumption
<1>2. ASSUME NEW m \in Nat, NEW e \in Nat, e < m, NEW c \in Nat
      PROVE  (m - (e + 1)) * c = (m - e) * c - c /\ (m - (e + 1)) * c \in Nat
  <2>1. m - (e + 1) \in Nat
    BY <1>2
  <2> QED BY <2>1
<1>3. LostTime' = (MaxErrors - (errors + 1)) * FailedIteration
  BY DEF LostTime, FailedIteration
<1> QED BY <1>1, <1>2, <1>3 DEF LostTime

-----------------------------------------------------------------------------
(* The steps of the system are steps of the contract.                      *)

(* Whoever submits a block may submit it.                                  *)
OneMoreError == errors < MaxErrors /\ errors' = errors + 1

SubmitStep ==
  \E a \in Accounts, b \in Blocks :
    /\ MaySubmitBlock(a, b) /\ AddLightClientBlock(a, b)
    /\ UNCHANGED <<watchdog, tip>>
    /\ errors' = errors \/ OneMoreError

RelayFails == SysError /\ RelayError /\ UNCHANGED watchdog

ChallengeStep ==
  /\ watchdog.pc = "challenge" /\ Challenge(watchdog.index)
  /\ WatchdogSleep(WatchdogDelay) /\ UNCHANGED <<tip, errors>>

QuietStep == UNCHANGED <<trustVars, pendingVars, lastValidAt>>

LEMMA ChainFacts ==
  ASSUME NEW i \in DOMAIN Chain
  PROVE  /\ Chain[i] \in Blocks /\ Chain[i] \in Finalized /\ IsFinal(Chain[i])
         /\ Chain[i].height \in Heights /\ Chain[i].hash \in Hashes /\ Chain[i].hash # NoHash
<1>1. Chain[i] \in Finalized
  BY NodeAssumption
<1> QED BY <1>1, ChainAssumption, BlockAssumption DEF IsFinal, Heights, BlockRecords

(* The relay and the other submitter deal with the contract by submitting  *)
(* blocks and by moving bonds.                                             *)
LEMMA Dealings ==
  ASSUME ServiceTypes, SysRelay \/ SubmitterStep \/ RelayFails
  PROVE  /\ UNCHANGED watchdog
         /\ errors' = errors \/ OneMoreError
         /\ SubmitStep \/ (\E a \in Accounts : Deposit(a) \/ Withdraw(a)) \/ UNCHANGED vars
<1>0. tip \in DOMAIN Chain /\ 1 .. tip \subseteq DOMAIN Chain /\ relay.block \in 1 .. tip
      /\ RelayAccount \in Accounts
  BY UpToTip, RelayAssumption DEF ServiceTypes, RelayTypes, RelayRecords
<1>1. ASSUME AddLightClientBlock(RelayAccount, Chain[relay.block]), UNCHANGED <<watchdog, tip>>,
             errors' = errors \/ OneMoreError
      PROVE  SubmitStep
  <2>1. Chain[relay.block] \in Blocks
    BY <1>0, ChainFacts
  <2>2. MaySubmitBlock(RelayAccount, Chain[relay.block])
    BY <1>0 DEF MaySubmitBlock, KnownToTezos
  <2> QED BY <1>0, <1>1, <2>1, <2>2 DEF SubmitStep
<1>2. CASE SysRelay
  <2>1. UNCHANGED <<watchdog, errors>>
    BY <1>2 DEF SysRelay
  <2>2. CASE RelaySubmit /\ AddLightClientBlock(RelayAccount, Chain[relay.block])
    BY <1>1, <2>1, <2>2 DEF RelaySubmit
  <2>3. CASE RelayDeposit /\ Deposit(RelayAccount)
    BY <1>0, <2>1, <2>3
  <2> QED BY <1>2, <2>1, <2>2, <2>3
      DEF SysRelay, RelayStep, RelayWake, RelayReadState, RelayReadHash,
          RelayReadLightClientBlock, RelayReadStake, RelayDeposit, RelaySubmit
<1>3. CASE RelayFails
  <2>1. UNCHANGED <<watchdog, tip>> /\ OneMoreError
    BY <1>3 DEF RelayFails, SysError, OneMoreError, RelayError, RelayThrows, RelayLosesReceipt
  <2> QED BY <1>0, <1>1, <1>3, <2>1 DEF RelayFails, RelayError, RelayThrows, RelayLosesReceipt
<1>4. CASE SubmitterStep
  <2>1. Submitter \in Accounts /\ Submitter # RelayAccount
    BY SystemAssumption
  <2>2. CASE (Deposit(Submitter) \/ Withdraw(Submitter)) /\ UNCHANGED procVars
    BY <2>1, <2>2 DEF procVars
  <2>3. ASSUME NEW b \in Blocks, IsFinal(b) => KnownToTezos(b.hash),
               AddLightClientBlock(Submitter, b), UNCHANGED <<watchdog, relay, tip, errors>>
        PROVE  SubmitStep
    BY <2>1, <2>3 DEF SubmitStep, MaySubmitBlock
  <2> QED BY <1>4, <2>2, <2>3 DEF SubmitterStep
<1> QED BY <1>2, <1>3, <1>4

LEMMA SysSteps ==
  ASSUME ServiceTypes, [SysNext]_sysVars
  PROVE  [Next]_vars /\ (SubmitStep \/ ChallengeStep \/ QuietStep)
<1>1. CASE UNCHANGED vars
  BY <1>1 DEF vars, QuietStep
<1>2. CASE SysTick
  BY <1>2 DEF SysTick, Tick, Next, QuietStep
<1>3. CASE SysRelay \/ SubmitterStep \/ RelayFails
  BY <1>1, <1>3, Dealings DEF SubmitStep, Deposit, Withdraw, Next, QuietStep
<1>4. CASE SysWatchdog
  <2>1. CASE WatchdogChallenge /\ Challenge(watchdog.index)
    <3>1. watchdog.index \in DOMAIN PendingProducers
      BY <2>1 DEF Challenge, SignatureFails
    <3>2. ChallengeStep
      BY <1>4, <2>1 DEF SysWatchdog, WatchdogChallenge, ChallengeStep
    <3> QED BY <2>1, <3>1, <3>2 DEF Next
  <2>2. CASE UNCHANGED vars
    BY <1>1, <2>2
  <2> QED BY <1>4, <2>1, <2>2
      DEF SysWatchdog, WatchdogStep, WatchdogWake, WatchdogReadState, WatchdogCheck, WatchdogChallenge
<1>5. CASE SysError
  BY <1>1, <1>3, <1>5 DEF SysError, WatchdogError, RelayFails
<1>6. CASE SysProduce \/ UNCHANGED sysVars
  BY <1>1, <1>6 DEF SysProduce, ProduceBlock, sysVars
<1> QED BY <1>2, <1>3, <1>4, <1>5, <1>6 DEF SysNext

(* Tezos never takes back a final block.                                   *)
LEMMA TipGrows ==
  ASSUME ServiceTypes, [SysNext]_sysVars
  PROVE  tip' \in DOMAIN Chain /\ tip' >= tip /\ tip \in Nat
<1>1. tip \in DOMAIN Chain /\ tip \in Nat /\ Len(Chain) \in Nat
  BY UpToTip DEF ServiceTypes, RelayTypes
<1>2. CASE SysProduce
  BY <1>1, <1>2, RelayAssumption, NodeAssumption DEF SysProduce, ProduceBlock
<1>3. CASE UNCHANGED tip
  BY <1>1, <1>3
<1> QED BY <1>2, <1>3
    DEF SysNext, sysVars, procVars, SysWatchdog, SysRelay, SysError, SubmitterStep, SysTick,
        RelayStep, RelayWake, RelayReadState, RelayReadHash, RelayReadLightClientBlock,
        RelayReadStake, RelayDeposit, RelaySubmit, RelayError, RelayThrows, RelayLosesReceipt

LEMMA KnownStays ==
  ASSUME ServiceTypes, [SysNext]_sysVars, NEW h, NEW x
  PROVE  Known(h, x) => Known(h, x)'
<1>1. tip \in Nat /\ tip' \in Nat /\ tip' >= tip
  BY TipGrows, RelayAssumption, NodeAssumption
<1> QED BY <1>1 DEF Known

-----------------------------------------------------------------------------
(* Trusted blocks.                                                         *)

LEMMA SysInvTypes ==
  ASSUME SysInv
  PROVE  /\ TypeOK /\ BondInv /\ ChainInv /\ ElectedInv /\ initialized
         /\ ServiceTypes /\ RelayTypes /\ WatchdogTypeOK
BY DEF SysInv, ChainInv, BondInv, ServiceTypes

(* A hash that is shown as trusted is shown for ever.                      *)
LEMMA TrustedStays ==
  ASSUME ChainInv, initialized, [Next]_vars, NEW h \in Heights, BlockHash(h) # NoHash
  PROVE  BlockHash(h)' = BlockHash(h)
<1>0. TypeOK
  BY DEF ChainInv, BondInv
<1>1. ASSUME NEW a \in Accounts, NEW b \in Blocks, AddLightClientBlock(a, b)
      PROVE  BlockHash(h)' = BlockHash(h)
  <2>1. initialized /\ CommitOrReplace(b) /\ lastValidAt' = now + LockDuration /\ now' = now
    BY <1>1 DEF AddLightClientBlock, ParkBlock
  <2>2. blockHashes_'[h] = BlockHash(h)
    BY <2>1, CommitKeepsChain
  <2> QED BY <2>2 DEF BlockHash
<1>2. ASSUME NEW i \in DOMAIN PendingProducers, Challenge(i) PROVE BlockHash(h)' = BlockHash(h)
  <2>1. ~CommitDue /\ blockHashes_' = blockHashes_ /\ lastValidAt' = 0
    BY <1>0, <1>2 DEF Challenge, PayRewardAndRollBack, NoWindow, trustVars, CommitDue, InWindow, TypeOK
  <2> QED BY <2>1 DEF BlockHash, CommitDue
<1>3. CASE Tick
  <2>1. CommitDue => CommitDue'
    BY <1>0, <1>3 DEF Tick, CommitDue, TypeOK
  <2>2. UNCHANGED <<blockHashes_, untrustedHead>>
    BY <1>3 DEF Tick, trustVars, pendingVars
  <2> QED BY <2>1, <2>2 DEF BlockHash
<1>4. CASE UNCHANGED <<blockHashes_, untrustedHead, lastValidAt, now>>
  BY <1>4 DEF BlockHash, CommitDue
<1> QED BY <1>1, <1>2, <1>3, <1>4
    DEF Next, vars, trustVars, pendingVars, Deposit, Withdraw, InitWithValidators, InitWithBlock

LEMMA HeadIsTrusted ==
  ASSUME ChainInv, initialized
  PROVE  EffectiveHead.height \in Heights /\ BlockHash(EffectiveHead.height) # NoHash
<1>0. IsInfo(head) /\ blockHashes_[head.height] = head.hash
  BY DEF ChainInv, Committed
<1>1. head.height \in Heights /\ head.height \in Nat /\ head.hash # NoHash
  BY <1>0, InfoFacts
<1>2. CASE CommitDue
  <2>1. IsInfo(untrustedHead) /\ untrustedHead.height > head.height
    BY <1>2 DEF ChainInv, Parked, CommitDue
  <2>2. untrustedHead.height \in Heights /\ untrustedHead.hash # NoHash
    BY <2>1, InfoFacts
  <2> QED BY <1>2, <2>2 DEF EffectiveHead, BlockHash
<1>3. CASE ~CommitDue
  BY <1>0, <1>1, <1>3 DEF EffectiveHead, BlockHash
<1> QED BY <1>2, <1>3

(* A wrong block is still on trial: the watchdog has not been late.        *)
LEMMA WrongIsOnTrial ==
  ASSUME SysInv, BadPending
  PROVE  InWindow /\ ~CommitDue /\ watchdog.due < lastValidAt /\ ChallengedBy < lastValidAt
<1>1. /\ now \in Nat /\ lastValidAt \in Nat /\ watchdog.due \in Nat /\ LostTime \in Nat
      /\ now <= watchdog.due /\ ChallengedBy < lastValidAt
  BY SysInvTypes, LostTimeFacts DEF SysInv, TypeOK, ServiceTypes, WatchdogTypeOK, Punctual, Timely
<1>2. ChallengedBy >= watchdog.due /\ ChallengedBy \in Int
  BY <1>1, WatchdogAssumption DEF ChallengedBy
<1> QED BY <1>1, <1>2 DEF InWindow, CommitDue

LEMMA TrustedIsKnown ==
  ASSUME SysInv, NEW h \in Heights, BlockHash(h) # NoHash
  PROVE  Known(h, BlockHash(h))
<1>1. CASE blockHashes_[h] # NoHash
  BY <1>1 DEF SysInv, CommittedKnown, BlockHash
<1>2. CASE blockHashes_[h] = NoHash
  <2>1. CommitDue /\ h = untrustedHead.height /\ BlockHash(h) = untrustedHead.hash
    BY <1>2 DEF BlockHash
  <2>2. FinalHash(untrustedHead.hash) /\ lastValidAt # 0
    BY <2>1, WrongIsOnTrial DEF BadPending, CommitDue
  <2>3. PICK b \in Blocks : PendingIs(b) /\ MaySubmitBlock(lastSubmitter, b)
    BY <2>2 DEF SysInv, PendingInv
  <2>4. untrustedHead.hash = b.hash /\ untrustedHead.height = b.height
    BY <2>3 DEF PendingIs, Info
  <2>5. PICK i \in 1 .. tip : Chain[i].hash = b.hash
    BY <2>2, <2>3, <2>4 DEF MaySubmitBlock, IsFinal, FinalHash, KnownToTezos
  <2>6. Chain[i].height = b.height
    BY <2>5, SysInvTypes, UpToTip, ChainFacts, ChainAssumption DEF RelayTypes, RelayRecords
  <2> QED BY <2>1, <2>4, <2>5, <2>6 DEF Known
<1> QED BY <1>1, <1>2

(* All that is trusted is final on Tezos.                                  *)
LEMMA SysInvTrusts == SysInv => TrustedFinal /\ CommittedFinal
<1> SUFFICES ASSUME SysInv PROVE TrustedFinal /\ CommittedFinal
  OBVIOUS
<1>1. ASSUME NEW h, NEW x, Known(h, x) PROVE FinalHash(x)
  BY <1>1, SysInvTypes, UpToTip, ChainFacts DEF Known, RelayTypes, FinalHash
<1>2. TrustedFinal
  BY <1>1, TrustedIsKnown DEF TrustedFinal, FinalHash
<1>3. CommittedFinal
  BY <1>1 DEF SysInv, CommittedKnown, CommittedFinal
<1> QED BY <1>2, <1>3

LEMMA NextCommittedKnown ==
  ASSUME SysInv, [SysNext]_sysVars
  PROVE  CommittedKnown'
<1>1. CASE SubmitStep
  <2>1. PICK a \in Accounts, b \in Blocks : AddLightClientBlock(a, b)
    BY <1>1 DEF SubmitStep
  <2>2. initialized /\ CommitOrReplace(b)
    BY <2>1 DEF AddLightClientBlock
  <2>3. \A h \in Heights : blockHashes_'[h] = BlockHash(h)
    BY <2>2, SysInvTypes, CommitKeepsChain
  <2>4. ASSUME NEW h \in Heights, blockHashes_'[h] # NoHash PROVE Known(h, blockHashes_[h])'
    <3>1. PICK x : x = BlockHash(h)
      OBVIOUS
    <3>2. Known(h, x)
      BY <2>3, <2>4, <3>1, TrustedIsKnown
    <3>3. Known(h, x)'
      BY <3>2, SysInvTypes, KnownStays
    <3> QED BY <2>3, <3>1, <3>3
  <2> QED BY <2>4 DEF CommittedKnown
<1>2. CASE ChallengeStep \/ QuietStep
  <2>1. blockHashes_' = blockHashes_
    BY <1>2 DEF ChallengeStep, Challenge, QuietStep, trustVars
  <2>2. ASSUME NEW h \in Heights, blockHashes_'[h] # NoHash PROVE Known(h, blockHashes_[h])'
    <3>1. PICK x : x = blockHashes_[h]
      OBVIOUS
    <3>2. Known(h, x)'
      BY <2>1, <2>2, <3>1, SysInvTypes, KnownStays DEF SysInv, CommittedKnown
    <3> QED BY <2>1, <3>1, <3>2
  <2> QED BY <2>2 DEF CommittedKnown
<1> QED BY <1>1, <1>2, SysInvTypes, SysSteps

-----------------------------------------------------------------------------
(* The pending block.                                                      *)

LEMMA PendingSteps ==
  ASSUME PendingInv, tip \in Nat, tip' \in Nat, tip' >= tip,
         \/ \E a \in Accounts, b \in Blocks :
              MaySubmitBlock(a, b) /\ AddLightClientBlock(a, b) /\ tip' = tip
         \/ \E i : Challenge(i)
         \/ QuietStep
  PROVE  PendingInv'
<1>1. ASSUME NEW a \in Accounts, NEW b \in Blocks,
             MaySubmitBlock(a, b), AddLightClientBlock(a, b), tip' = tip
      PROVE  PendingInv'
  <2>1. PICK fromNext \in BOOLEAN :
          /\ CheckBp(IF fromNext THEN nextBlockProducers' ELSE currentBlockProducers', b.approvals)
          /\ ParkBlock(a, b, fromNext)
    BY <1>1 DEF AddLightClientBlock
  <2>2. /\ untrustedHead' = Info(b) /\ lastSubmitter' = a
        /\ untrustedHeadIsFromNextEpoch' = fromNext
        /\ untrustedApprovals' = Overwrite(untrustedApprovals, b.approvals)
    BY <2>1 DEF ParkBlock
  <2>3. CheckBp(PendingProducers', b.approvals)
    BY <2>1, <2>2 DEF PendingProducers
  <2>4. \A i \in DOMAIN b.approvals : Approval(i)' = b.approvals[i]
    BY <2>2 DEF Overwrite, Approval
  <2>5. PendingIs(b)'
    BY <2>2, <2>3, <2>4 DEF PendingIs
  <2>6. MaySubmitBlock(lastSubmitter, b)'
    BY <1>1, <2>2 DEF MaySubmitBlock, KnownToTezos
  <2> QED BY <2>5, <2>6 DEF PendingInv
<1>2. ASSUME NEW i, Challenge(i) PROVE PendingInv'
  BY <1>2 DEF Challenge, PayRewardAndRollBack, NoWindow, PendingInv
<1>3. CASE QuietStep
  <2> SUFFICES ASSUME lastValidAt' # 0
               PROVE  \E b \in Blocks : PendingIs(b)' /\ MaySubmitBlock(lastSubmitter, b)'
    BY DEF PendingInv
  <2>1. lastValidAt # 0 /\ UNCHANGED <<trustVars, pendingVars>>
    BY <1>3 DEF QuietStep
  <2>2. PICK b \in Blocks : PendingIs(b) /\ MaySubmitBlock(lastSubmitter, b)
    BY <2>1 DEF PendingInv
  <2>3. PendingIs(b)'
    BY <2>1, <2>2 DEF PendingIs, PendingProducers, Approval, trustVars, pendingVars
  <2>4. MaySubmitBlock(lastSubmitter, b)'
    BY <2>1, <2>2 DEF MaySubmitBlock, KnownToTezos, pendingVars
  <2> QED BY <2>3, <2>4
<1> QED BY <1>1, <1>2, <1>3

LEMMA NextPendingInv ==
  ASSUME SysInv, [SysNext]_sysVars
  PROVE  PendingInv'
<1>1. tip' >= tip /\ tip \in Nat /\ tip' \in Nat /\ PendingInv
  BY SysInvTypes, TipGrows, RelayAssumption, NodeAssumption DEF SysInv
<1>2. SubmitStep \/ ChallengeStep \/ QuietStep
  BY SysInvTypes, SysSteps
<1> QED BY <1>1, <1>2, PendingSteps DEF SubmitStep, ChallengeStep

(* The producers a pending block is checked against are the elected ones,  *)
(* and the approvals are those of the block.                               *)
LEMMA PendingFacts ==
  ASSUME TypeOK, ElectedInv, CommittedFinal, lastValidAt # 0, NEW b \in Blocks, PendingIs(b)
  PROVE  /\ PendingProducers = Validators[b.epochId]
         /\ PendingProducers \in ProducerLists
         /\ DOMAIN PendingProducers \subseteq DOMAIN b.approvals
         /\ \A i \in DOMAIN PendingProducers : Approval(i) = b.approvals[i]
<1>1. PendingProducers = Validators[b.epochId]
  BY DEF PendingIs, Info, ElectedInv, ElectedPending
<1>2. PendingProducers \in ProducerLists
  BY DEF TypeOK, PendingProducers
<1>3. b.approvals \in Seq(Approvals) /\ Len(b.approvals) >= Len(PendingProducers)
  BY BlockAssumption DEF BlockRecords, PendingIs, CheckBp
<1>4. DOMAIN PendingProducers \subseteq DOMAIN b.approvals
  <2>1. /\ DOMAIN PendingProducers = 1 .. Len(PendingProducers) /\ Len(PendingProducers) \in Nat
        /\ DOMAIN b.approvals = 1 .. Len(b.approvals) /\ Len(b.approvals) \in Nat
    BY <1>2, <1>3 DEF ProducerLists
  <2> QED BY <1>3, <2>1
<1> QED BY <1>1, <1>2, <1>4 DEF PendingIs

(* What the relay submitted has no wrong signature: it is a block of the   *)
(* chain, checked against the producers that signed it.                    *)
LEMMA RelayIsInnocent ==
  ASSUME TypeOK, ElectedInv, CommittedFinal, PendingInv, tip \in DOMAIN Chain,
         lastSubmitter = RelayAccount, lastValidAt # 0, NEW i
  PROVE  ~SignatureFails(i)
<1> SUFFICES ASSUME SignatureFails(i) PROVE FALSE
  OBVIOUS
<1>1. PICK b \in Blocks : PendingIs(b) /\ MaySubmitBlock(lastSubmitter, b)
  BY DEF PendingInv
<1>2. PICK c \in 1 .. tip : b = Chain[c]
  BY <1>1 DEF MaySubmitBlock
<1>3. c \in DOMAIN Chain
  BY UpToTip
<1>4. PICK j \in DOMAIN PendingProducers : Approval(j) \notin {None, PendingProducers[j].key}
  BY DEF SignatureFails
<1>5. PendingProducers = Validators[b.epochId] /\ Approval(j) = b.approvals[j]
  BY <1>1, <1>4, PendingFacts
<1>6. b.approvals[j] \in {None, PendingProducers[j].key}
  BY <1>2, <1>3, <1>4, <1>5, SystemAssumption
<1> QED BY <1>4, <1>5, <1>6

(* A pending block that is not final has a wrong signature to challenge.   *)
LEMMA WrongHasFalseSignature ==
  ASSUME SysInv, BadPending
  PROVE  \E i \in DOMAIN PendingProducers : SignatureFails(i)
<1>1. PICK b \in Blocks : PendingIs(b)
  BY DEF SysInv, PendingInv, BadPending
<1>2. ~IsFinal(b)
  BY <1>1 DEF PendingIs, Info, BadPending, FinalHash, IsFinal
<1>3. PendingProducers = Validators[b.epochId] /\ CheckBp(PendingProducers, b.approvals)
      /\ \A i \in DOMAIN PendingProducers : Approval(i) = b.approvals[i]
  BY <1>1, PendingFacts, SysInvTypes, SysInvTrusts DEF BadPending, PendingIs
<1>4. PICK i \in DOMAIN PendingProducers : b.approvals[i] \notin {None, PendingProducers[i].key}
  BY <1>2, <1>3, HonestMajority
<1> QED BY <1>3, <1>4 DEF SignatureFails

-----------------------------------------------------------------------------
(* The relay.                                                              *)

LEMMA SleepTimeType ==
  ASSUME TypeOK, RelayTypes, NEW b \in Blocks
  PROVE  SleepTime(b) \in Nat
<1>1. /\ RelayMaxDelay \in Int /\ RelayMinDelay \in Nat /\ relay.validAt - now \in Int
      /\ relay.timestamp + ReplaceDuration - b.timestamp \in Int
  BY RelayAssumption, BondAssumption, BlockAssumption DEF TypeOK, RelayTypes, RelayRecords, BlockRecords
<1>2. PICK wanted : wanted = IF relay.validAt = 0 THEN RelayMaxDelay
                             ELSE Min({RelayMaxDelay, relay.validAt - now,
                                       relay.timestamp + ReplaceDuration - b.timestamp})
  OBVIOUS
<1>3. wanted \in Int
  BY <1>1, <1>2, MinOfThree
<1>4. SleepTime(b) = Max({wanted, RelayMinDelay})
  BY <1>2 DEF SleepTime
<1>5. Max({wanted, RelayMinDelay}) \in Int /\ Max({wanted, RelayMinDelay}) >= RelayMinDelay
  <2>1. RelayMinDelay \in Int
    BY <1>1
  <2> QED BY <1>3, <2>1, MaxOfTwo
<1> QED BY <1>1, <1>4, <1>5

LEMMA RelayTurns ==
  ASSUME relay \in RelayRecords, NEW pc \in RelayPcs, NEW due \in Nat,
         relay' = [relay EXCEPT !.pc = pc, !.due = due]
  PROVE  relay' \in RelayRecords /\ relay'.pc = pc /\ relay'.block = relay.block
BY DEF RelayRecords

LEMMA RelayTakes ==
  ASSUME relay \in RelayRecords, NEW pc \in RelayPcs, NEW block \in Nat \ {0},
         relay' = [relay EXCEPT !.pc = pc, !.block = block]
  PROVE  relay' \in RelayRecords /\ relay'.pc = pc /\ relay'.block = block
BY DEF RelayRecords

LEMMA NextRelay ==
  ASSUME SysInv, [SysNext]_sysVars
  PROVE  RelayTypes' /\ RelayKnows'
<1>0. /\ TypeOK /\ RelayTypes /\ tip \in DOMAIN Chain /\ tip' \in DOMAIN Chain /\ tip' >= tip
      /\ tip \in Nat /\ tip' \in Nat /\ now \in Nat
      /\ RelayErrorDelay \in Nat /\ RelayIteration \in Nat
      /\ \A h, x : Known(h, x) => Known(h, x)'
      /\ relay.pc = "hash" => relay.height \in Heights /\ BlockHash(relay.height) # NoHash
      /\ relay.pc \in {"light", "stake", "deposit", "submit"} => Known(relay.height, relay.hash)
  BY SysInvTypes, TipGrows, KnownStays, UpToTip, RelayAssumption, NodeAssumption DEF TypeOK, RelayTypes, RelayRecords, SysInv, RelayKnows
<1>1. CASE UNCHANGED relay
  <2>1. RelayTypes'
    BY <1>0, <1>1 DEF RelayTypes, RelayRecords
  <2>2. ASSUME relay.pc = "hash" PROVE BlockHash(relay.height)' # NoHash
    <3>1. PICK h \in Heights : h = relay.height
      BY <1>0, <2>2
    <3>2. BlockHash(h)' = BlockHash(h)
      BY <1>0, <2>2, <3>1, SysInvTypes, SysSteps, TrustedStays
    <3> QED BY <1>0, <1>1, <2>2, <3>1, <3>2
  <2>3. ASSUME relay.pc \in {"light", "stake", "deposit", "submit"}
        PROVE  Known(relay.height, relay.hash)'
    <3>1. PICK h, x : h = relay.height /\ x = relay.hash
      OBVIOUS
    <3> QED BY <1>0, <1>1, <2>3, <3>1
  <2> QED BY <1>0, <1>1, <2>1, <2>2, <2>3 DEF RelayKnows
<1>2. ASSUME NEW d \in Nat, RelaySleep(d), UNCHANGED tip PROVE RelayTypes' /\ RelayKnows'
  <2>0. relay \in RelayRecords
    BY <1>0 DEF RelayTypes
  <2>1. relay' = [relay EXCEPT !.pc = "sleep", !.due = now + d] /\ now + d \in Nat
    BY <1>0, <1>2 DEF RelaySleep
  <2>2. "sleep" \in RelayPcs
    BY DEF RelayPcs
  <2>3. relay' \in RelayRecords /\ relay'.pc = "sleep" /\ relay'.block = relay.block
    BY <2>0, <2>1, <2>2, RelayTurns
  <2> QED BY <1>0, <1>2, <2>3 DEF RelayTypes, RelayKnows
<1>3. CASE RelayWake
  <2>0. relay \in RelayRecords
    BY <1>0 DEF RelayTypes
  <2>1. /\ relay' = [relay EXCEPT !.pc = "state", !.due = now + RelayIteration]
        /\ now + RelayIteration \in Nat /\ UNCHANGED tip
    BY <1>0, <1>3 DEF RelayWake
  <2>2. "state" \in RelayPcs
    BY DEF RelayPcs
  <2>3. relay' \in RelayRecords /\ relay'.pc = "state" /\ relay'.block = relay.block
    BY <2>0, <2>1, <2>2, RelayTurns
  <2> QED BY <1>0, <2>1, <2>3 DEF RelayTypes, RelayKnows
<1>4. CASE RelayReadState
  <2>1. PICK h \in Heights : h = EffectiveHead.height /\ BlockHash(h) # NoHash
    BY SysInvTypes, HeadIsTrusted
  <2>2. h \in Nat /\ lastValidAt \in Nat /\ untrustedHead.timestamp \in Nat
    BY <1>0, HeightsAreNat DEF TypeOK, BlockInfos
  <2>3. UNCHANGED <<vars, tip>> /\ relay'.pc = "hash" /\ relay'.height = h
    BY <1>0, <1>4, <2>1 DEF RelayReadState, RelayTypes, RelayRecords
  <2>4. RelayTypes'
    BY <1>0, <1>4, <2>1, <2>2 DEF RelayReadState, RelayTypes, RelayRecords, RelayPcs
  <2>5. BlockHash(h)' = BlockHash(h)
    BY <2>3 DEF vars, trustVars, pendingVars, BlockHash, CommitDue
  <2> QED BY <2>1, <2>3, <2>4, <2>5 DEF RelayKnows
<1>5. CASE RelayReadHash
  <2>1. PICK h \in Heights : h = relay.height /\ BlockHash(h) # NoHash
    BY <1>0, <1>5 DEF RelayReadHash
  <2>2. PICK x : x = BlockHash(h)
    OBVIOUS
  <2>3. Known(h, x) /\ Known(h, x)'
    BY <1>0, <2>1, <2>2, TrustedIsKnown
  <2>4. x \in Hashes
    BY <1>0, <2>3, UpToTip, ChainFacts DEF Known
  <2>5. relay' = [relay EXCEPT !.pc = "light", !.hash = x] /\ tip' = tip
    BY <1>5, <2>1, <2>2 DEF RelayReadHash
  <2>6. RelayTypes'
    BY <1>0, <2>4, <2>5 DEF RelayTypes, RelayRecords, RelayPcs
  <2>7. relay'.pc = "light" /\ relay'.height = h /\ relay'.hash = x
    BY <1>0, <2>1, <2>5 DEF RelayTypes, RelayRecords
  <2> QED BY <2>3, <2>6, <2>7 DEF RelayKnows
<1>6. CASE RelayReadLightClientBlock
  <2>1. CASE KnownToTezos(relay.hash)
    <3>1. PICK next \in 1 .. tip : next = NextLightClientBlock(relay.hash)
      BY <1>0, <2>1, NextBlockInChain
    <3>2. Chain[next] \in Blocks
      BY <1>0, UpToTip, ChainFacts
    <3>3. SleepTime(Chain[next]) \in Nat
      BY <1>0, <3>2, SleepTimeType
    <3>4. CASE RelaySleep(SleepTime(Chain[next]))
      BY <1>2, <1>6, <3>3, <3>4 DEF RelayReadLightClientBlock
    <3>5. CASE relay' = [relay EXCEPT !.pc = "stake", !.block = next]
      <4>1. tip' = tip /\ relay.pc = "light"
        BY <1>6 DEF RelayReadLightClientBlock
      <4>2. RelayTypes'
        <5>0. relay \in RelayRecords
          BY <1>0 DEF RelayTypes
        <5>1. "stake" \in RelayPcs /\ next \in Nat \ {0} /\ next <= tip
          BY <1>0, <3>1 DEF RelayPcs
        <5>2. relay' \in RelayRecords /\ relay'.block = next
          BY <5>0, <3>5, <5>1, RelayTakes
        <5> QED BY <1>0, <4>1, <5>1, <5>2 DEF RelayTypes
      <4>3. relay'.pc = "stake" /\ relay'.height = relay.height /\ relay'.hash = relay.hash
        BY <1>0, <3>5 DEF RelayTypes, RelayRecords
      <4>4. PICK h, x : h = relay.height /\ x = relay.hash
        OBVIOUS
      <4> QED BY <1>0, <4>1, <4>2, <4>3, <4>4 DEF RelayKnows
    <3> QED BY <1>6, <2>1, <3>1, <3>4, <3>5 DEF RelayReadLightClientBlock
  <2>2. CASE ~KnownToTezos(relay.hash)
    BY <1>0, <1>2, <1>6, <2>2 DEF RelayReadLightClientBlock
  <2> QED BY <2>1, <2>2
<1>7. ASSUME NEW pc \in {"deposit", "submit"}, relay' = [relay EXCEPT !.pc = pc], UNCHANGED tip,
             relay.pc \in {"stake", "deposit"}
      PROVE  RelayTypes' /\ RelayKnows'
  <2>1. RelayTypes'
    BY <1>0, <1>7 DEF RelayTypes, RelayRecords, RelayPcs
  <2>2. relay'.pc = pc /\ relay'.height = relay.height /\ relay'.hash = relay.hash
    BY <1>0, <1>7 DEF RelayTypes, RelayRecords
  <2>3. PICK h, x : h = relay.height /\ x = relay.hash
    OBVIOUS
  <2> QED BY <1>0, <1>7, <2>1, <2>2, <2>3 DEF RelayKnows
<1>8. CASE RelayReadStake
  BY <1>7, <1>8 DEF RelayReadStake
<1>9. CASE RelayDeposit
  BY <1>0, <1>2, <1>7, <1>9 DEF RelayDeposit
<1>10. CASE RelaySubmit
  <2>1. CASE relay' = [relay EXCEPT !.pc = "state", !.due = now + RelayIteration]
    <3>0. relay \in RelayRecords
      BY <1>0 DEF RelayTypes
    <3>1. "state" \in RelayPcs /\ now + RelayIteration \in Nat /\ UNCHANGED tip
      BY <1>0, <1>10 DEF RelayPcs, RelaySubmit
    <3>2. relay' \in RelayRecords /\ relay'.pc = "state" /\ relay'.block = relay.block
      BY <3>0, <2>1, <3>1, RelayTurns
    <3> QED BY <1>0, <3>1, <3>2 DEF RelayTypes, RelayKnows
  <2>2. CASE RelaySleep(RelayErrorDelay)
    BY <1>0, <1>2, <1>10, <2>2 DEF RelaySubmit
  <2> QED BY <1>10, <2>1, <2>2 DEF RelaySubmit
<1>11. CASE RelayError
  BY <1>0, <1>2, <1>11 DEF RelayError, RelayThrows, RelayLosesReceipt
<1> QED BY <1>1, <1>3, <1>4, <1>5, <1>6, <1>8, <1>9, <1>10, <1>11
    DEF SysNext, sysVars, procVars, SysWatchdog, SysRelay, SysProduce, ProduceBlock, SysError,
        SubmitterStep, SysTick, RelayStep

-----------------------------------------------------------------------------
(* The watchdog.                                                           *)

LEMMA SamePending ==
  ASSUME UNCHANGED <<trustVars, pendingVars, lastValidAt>>
  PROVE  /\ \A i : SignatureFails(i)' <=> SignatureFails(i)
         /\ BadPending' <=> BadPending
BY DEF trustVars, pendingVars, SignatureFails, Approval, PendingProducers, BadPending, FinalHash

LEMMA WatchdogNumbers ==
  ASSUME SysInv
  PROVE  /\ WatchdogDelay \in Nat /\ WatchdogErrorDelay \in Nat /\ WatchdogIteration \in Nat
         /\ FailedIteration \in Nat
         /\ FailedIteration >= WatchdogIteration + WatchdogDelay
         /\ FailedIteration >= WatchdogIteration + WatchdogErrorDelay
         /\ now \in Nat /\ lastValidAt \in Nat /\ watchdog.due \in Nat /\ LostTime \in Nat
         /\ watchdog.count \in Nat /\ watchdog.index \in Nat
         /\ watchdog.pc \in {"sleep", "state", "check", "challenge"}
         /\ errors \in 0 .. MaxErrors /\ errors \in Nat /\ MaxErrors \in Nat
         /\ now <= watchdog.due
BY SysInvTypes, WatchdogAssumption, SystemAssumption, LostTimeFacts, FailureCosts
   DEF SysInv, TypeOK, ServiceTypes, WatchdogTypeOK, Punctual

(* A new block has its whole window before it: time enough for a lost      *)
(* iteration, a sleep, another iteration, and the errors.                  *)
LEMMA SubmitIsTimely ==
  ASSUME SysInv, SubmitStep
  PROVE  Punctual' /\ Timely'
<1>1. PICK a \in Accounts, b \in Blocks : AddLightClientBlock(a, b)
  BY DEF SubmitStep
<1>2. /\ now' = now /\ lastValidAt' = now + LockDuration
      /\ watchdog' = watchdog /\ (errors' = errors \/ OneMoreError)
  BY <1>1 DEF SubmitStep, AddLightClientBlock, ParkBlock
<1>3. LostTime' <= LostTime /\ LostTime' \in Nat
  BY <1>2, WatchdogNumbers, OneErrorMore DEF LostTime, FailedIteration, OneMoreError
<1>4. Punctual'
  BY <1>2, WatchdogNumbers DEF SysInv, Punctual, OneMoreError
<1>5. ChallengedBy' <= watchdog.due + LostTime +
                         (IF watchdog.pc = "sleep" THEN WatchdogIteration
                          ELSE WatchdogDelay + WatchdogIteration)
  BY <1>2, <1>3, WatchdogNumbers DEF ChallengedBy
<1>6. watchdog.due + LostTime +
        (IF watchdog.pc = "sleep" THEN WatchdogIteration ELSE WatchdogDelay + WatchdogIteration)
        < now + LockDuration
  <2>1. /\ MaxErrors * FailedIteration \in Nat /\ LostTime <= MaxErrors * FailedIteration
        /\ errors >= 1 => LostTime + FailedIteration <= MaxErrors * FailedIteration
    BY WatchdogNumbers, LostTimeFacts
  <2>2. LockDuration \in Nat
        /\ LockDuration > 2 * WatchdogIteration + WatchdogDelay + MaxErrors * FailedIteration
    BY WatchIsTimely, BondAssumption
  <2>3. PICK m \in Nat : m = MaxErrors * FailedIteration
    BY <2>1
  <2>4. CASE watchdog.pc # "sleep"
    <3>1. watchdog.due <= now + WatchdogIteration
      BY <2>4 DEF SysInv, Punctual
    <3> QED BY <2>1, <2>2, <2>3, <2>4, <3>1, WatchdogNumbers
  <2>5. CASE watchdog.pc = "sleep" /\ watchdog.due <= now + WatchdogDelay
    BY <2>1, <2>2, <2>3, <2>5, WatchdogNumbers
  <2>6. CASE watchdog.pc = "sleep" /\ errors >= 1 /\ watchdog.due <= now + WatchdogErrorDelay
    BY <2>1, <2>2, <2>3, <2>6, WatchdogNumbers
  <2> QED BY <2>4, <2>5, <2>6 DEF SysInv, Punctual
<1>7. ChallengedBy' < lastValidAt'
  <2>1. ChallengedBy' \in Int
    BY <1>2, <1>3, WatchdogNumbers DEF ChallengedBy
  <2>2. LockDuration \in Nat
    BY BondAssumption
  <2> QED BY <1>2, <1>5, <1>6, <2>1, <2>2, WatchdogNumbers
<1> QED BY <1>4, <1>7 DEF Timely

(* Steps of the others, an error of the relay and a tick among them, leave *)
(* the watchdog on its way.                                                *)
LEMMA OthersAreTimely ==
  ASSUME SysInv, UNCHANGED <<trustVars, pendingVars, lastValidAt, watchdog>>,
         \/ now' = now
         \/ now' = now + 1 /\ now < watchdog.due,
         \/ errors' = errors
         \/ errors' = errors + 1 /\ errors < MaxErrors
  PROVE  Punctual' /\ Timely'
<1>1. LostTime' <= LostTime /\ LostTime' \in Nat /\ errors' >= errors
  BY WatchdogNumbers, OneErrorMore DEF LostTime, FailedIteration
<1>2. Punctual'
  BY <1>1, WatchdogNumbers DEF SysInv, Punctual
<1>3. OnTrack' <=> OnTrack
  BY SamePending DEF OnTrack
<1>4. ChallengedBy' <= ChallengedBy /\ ChallengedBy' \in Int /\ ChallengedBy \in Int
  BY <1>1, <1>3, WatchdogNumbers DEF ChallengedBy
<1>5. BadPending' => BadPending
  BY SamePending
<1> QED BY <1>2, <1>4, <1>5, WatchdogNumbers DEF SysInv, Timely

LEMMA WatchdogMoves ==
  ASSUME NEW w, NEW pc \in {"sleep", "state"}, NEW due \in Nat,
         w \in [pc : {"sleep", "state", "check", "challenge"},
                count : Nat, index : Nat, due : Nat]
  PROVE  /\ [w EXCEPT !.pc = pc, !.due = due]
              \in [pc : {"sleep", "state", "check", "challenge"},
                   count : Nat, index : Nat, due : Nat]
         /\ [w EXCEPT !.pc = pc, !.due = due].pc = pc
         /\ [w EXCEPT !.pc = pc, !.due = due].due = due
OBVIOUS

(* Going to sleep is timely when the block that is pending is not wrong,   *)
(* or the iteration was lost already.                                      *)
LEMMA SleepIsTimely ==
  ASSUME SysInv, WatchdogSleep(WatchdogDelay), watchdog.pc # "sleep",
         now' = now, errors' = errors,
         BadPending' => BadPending /\ ~OnTrack /\ lastValidAt' = lastValidAt
  PROVE  WatchdogTypeOK' /\ Punctual' /\ Timely'
<1>1. watchdog' = [watchdog EXCEPT !.pc = "sleep", !.due = now + WatchdogDelay]
  BY DEF WatchdogSleep
<1>2. WatchdogTypeOK' /\ watchdog'.pc = "sleep" /\ watchdog'.due = now + WatchdogDelay
  <2>1. now + WatchdogDelay \in Nat
    BY WatchdogNumbers
  <2> QED BY <1>1, <2>1, SysInvTypes, WatchdogMoves DEF WatchdogTypeOK
<1>3. Punctual'
  BY <1>2, WatchdogNumbers DEF Punctual
<1>4. LostTime' = LostTime
  BY DEF LostTime, FailedIteration
<1>5. ChallengedBy' = now + WatchdogDelay + LostTime + WatchdogIteration
  BY <1>2, <1>4 DEF ChallengedBy
<1>6. ASSUME BadPending' PROVE ChallengedBy' < lastValidAt'
  <2>1. ChallengedBy = watchdog.due + LostTime + (WatchdogDelay + WatchdogIteration)
    BY <1>6 DEF ChallengedBy
  <2>2. ChallengedBy < lastValidAt
    BY <1>6 DEF SysInv, Timely
  <2> QED BY <1>5, <1>6, <2>1, <2>2, WatchdogNumbers
<1> QED BY <1>2, <1>3, <1>6 DEF Timely

LEMMA WakeIsTimely ==
  ASSUME SysInv, WatchdogWake, errors' = errors
  PROVE  WatchdogTypeOK' /\ Punctual' /\ Timely'
<1>1. /\ watchdog.pc = "sleep" /\ UNCHANGED vars
      /\ watchdog' = [watchdog EXCEPT !.pc = "state", !.due = now + WatchdogIteration]
  BY DEF WatchdogWake
<1>2. UNCHANGED <<trustVars, pendingVars, lastValidAt, now>>
  BY <1>1 DEF vars
<1>3. WatchdogTypeOK' /\ watchdog'.pc = "state" /\ watchdog'.due = now + WatchdogIteration
  <2>1. now + WatchdogIteration \in Nat
    BY WatchdogNumbers
  <2> QED BY <1>1, <2>1, SysInvTypes, WatchdogMoves DEF WatchdogTypeOK
<1>4. Punctual'
  BY <1>2, <1>3, WatchdogNumbers DEF Punctual
<1>5. LostTime' = LostTime
  BY DEF LostTime, FailedIteration
<1>6. OnTrack'
  BY <1>3 DEF OnTrack
<1>7. ChallengedBy' = now + WatchdogIteration + LostTime + 0
      /\ ChallengedBy = watchdog.due + LostTime + WatchdogIteration
  BY <1>1, <1>3, <1>5, <1>6 DEF ChallengedBy
<1>8. ChallengedBy' <= ChallengedBy
  BY <1>7, WatchdogNumbers
<1> QED BY <1>2, <1>3, <1>4, <1>7, <1>8, SamePending, WatchdogNumbers DEF SysInv, Timely

(* An iteration that goes on stays on its way.                             *)
LEMMA GoOnIsTimely ==
  ASSUME SysInv, UNCHANGED vars, errors' = errors, watchdog.pc # "sleep",
         WatchdogTypeOK', watchdog'.pc # "sleep", watchdog'.due = watchdog.due,
         BadPending => (OnTrack => OnTrack')
  PROVE  Punctual' /\ Timely'
<1>1. UNCHANGED <<trustVars, pendingVars, lastValidAt, now>>
  BY DEF vars
<1>2. Punctual'
  BY <1>1 DEF SysInv, Punctual
<1>3. LostTime' = LostTime
  BY DEF LostTime, FailedIteration
<1>4. BadPending => ChallengedBy' <= ChallengedBy /\ ChallengedBy' \in Int /\ ChallengedBy \in Int
  BY <1>3, WatchdogNumbers DEF ChallengedBy
<1> QED BY <1>1, <1>2, <1>4, SamePending, WatchdogNumbers DEF SysInv, Timely

LEMMA ReadStateIsTimely ==
  ASSUME SysInv, WatchdogReadState, errors' = errors
  PROVE  WatchdogTypeOK' /\ Punctual' /\ Timely'
<1>1. watchdog.pc = "state" /\ UNCHANGED vars
  BY DEF WatchdogReadState
<1>2. UNCHANGED <<trustVars, pendingVars, lastValidAt, now>>
  BY <1>1 DEF vars
<1>3. CASE InWindow
  <2>1. watchdog' = [watchdog EXCEPT !.pc = "check", !.index = 1, !.count = Len(PendingProducers)]
    BY <1>3 DEF WatchdogReadState
  <2>2. PendingProducers \in ProducerLists /\ Len(PendingProducers) \in Nat
        /\ DOMAIN PendingProducers = 1 .. Len(PendingProducers)
    BY SysInvTypes DEF TypeOK, PendingProducers, ProducerLists
  <2>3. /\ WatchdogTypeOK' /\ watchdog'.pc = "check" /\ watchdog'.due = watchdog.due
        /\ watchdog'.index = 1 /\ watchdog'.count = Len(PendingProducers)
    BY <2>1, <2>2, SysInvTypes DEF WatchdogTypeOK
  <2>4. ASSUME BadPending PROVE OnTrack'
    <3>1. PICK i \in 1 .. Len(PendingProducers) : SignatureFails(i)
      BY <2>2, <2>4, WrongHasFalseSignature
    <3>2. SignatureFails(i)'
      BY <1>2, <3>1, SamePending
    <3> QED BY <2>3, <3>2 DEF OnTrack
  <2> QED BY <1>1, <2>3, <2>4, GoOnIsTimely
<1>4. CASE ~InWindow
  <2>1. WatchdogSleep(WatchdogDelay)
    BY <1>4 DEF WatchdogReadState
  <2>2. ~BadPending'
    BY <1>2, <1>4, SamePending, WrongIsOnTrial
  <2> QED BY <1>1, <1>2, <2>1, <2>2, SleepIsTimely
<1> QED BY <1>3, <1>4

LEMMA CheckIsTimely ==
  ASSUME SysInv, WatchdogCheck, errors' = errors
  PROVE  WatchdogTypeOK' /\ Punctual' /\ Timely'
<1>1. watchdog.pc = "check" /\ UNCHANGED vars
  BY DEF WatchdogCheck
<1>2. UNCHANGED <<trustVars, pendingVars, lastValidAt, now>>
  BY <1>1 DEF vars
<1>3. CASE watchdog.index > watchdog.count /\ WatchdogSleep(WatchdogDelay)
  <2>1. ~OnTrack
    BY <1>1, <1>3, WatchdogNumbers DEF OnTrack
  <2> QED BY <1>1, <1>2, <1>3, <2>1, SamePending, SleepIsTimely
<1>4. CASE /\ watchdog' = [watchdog EXCEPT !.index = @ + 1]
           /\ watchdog.index <= watchdog.count /\ ~SignatureFails(watchdog.index)
  <2>1. /\ WatchdogTypeOK' /\ watchdog'.pc = "check" /\ watchdog'.due = watchdog.due
        /\ watchdog'.index = watchdog.index + 1 /\ watchdog'.count = watchdog.count
    BY <1>1, <1>4, SysInvTypes DEF WatchdogTypeOK
  <2>2. ASSUME OnTrack PROVE OnTrack'
    <3>1. PICK i \in watchdog.index .. watchdog.count : SignatureFails(i)
      BY <1>1, <2>2 DEF OnTrack
    <3>2. i \in watchdog.index + 1 .. watchdog.count
      BY <1>4, <3>1, WatchdogNumbers
    <3>3. SignatureFails(i)'
      BY <1>2, <3>1, SamePending
    <3> QED BY <2>1, <3>2, <3>3 DEF OnTrack
  <2> QED BY <1>1, <2>1, <2>2, GoOnIsTimely
<1>5. CASE watchdog' = [watchdog EXCEPT !.pc = "challenge"] /\ SignatureFails(watchdog.index)
  <2>1. /\ WatchdogTypeOK' /\ watchdog'.pc = "challenge" /\ watchdog'.due = watchdog.due
        /\ watchdog'.index = watchdog.index
    BY <1>1, <1>5, SysInvTypes DEF WatchdogTypeOK
  <2>2. PICK i : i = watchdog.index
    OBVIOUS
  <2>3. SignatureFails(i)'
    BY <1>2, <1>5, <2>2, SamePending
  <2>4. OnTrack'
    BY <2>1, <2>2, <2>3 DEF OnTrack
  <2> QED BY <1>1, <2>1, <2>4, GoOnIsTimely
<1> QED BY <1>1, <1>3, <1>4, <1>5 DEF WatchdogCheck, SkipSignature, SignatureFails

LEMMA ChallengeIsTimely ==
  ASSUME SysInv, WatchdogChallenge, errors' = errors
  PROVE  WatchdogTypeOK' /\ Punctual' /\ Timely'
<1>1. watchdog.pc = "challenge" /\ WatchdogSleep(WatchdogDelay)
  BY DEF WatchdogChallenge
<1>2. CASE Challenge(watchdog.index)
  <2>1. lastValidAt' = 0 /\ now' = now
    BY <1>2 DEF Challenge, PayRewardAndRollBack, NoWindow
  <2>2. ~BadPending'
    BY <2>1 DEF BadPending
  <2> QED BY <1>1, <2>1, <2>2, SleepIsTimely
<1>3. CASE (~InWindow \/ ~SignatureFails(watchdog.index)) /\ UNCHANGED vars
  <2>1. UNCHANGED <<trustVars, pendingVars, lastValidAt, now>>
    BY <1>3 DEF vars
  <2>2. BadPending => ~OnTrack
    BY <1>1, <1>3, WrongIsOnTrial DEF OnTrack
  <2> QED BY <1>1, <2>1, <2>2, SamePending, SleepIsTimely
<1> QED BY <1>2, <1>3 DEF WatchdogChallenge

(* An error of the watchdog costs it the iteration and one of its delays.  *)
LEMMA ErrorIsTimely ==
  ASSUME SysInv, WatchdogError, errors < MaxErrors, errors' = errors + 1
  PROVE  WatchdogTypeOK' /\ Punctual' /\ Timely'
<1>1. PICK delay \in {WatchdogDelay, WatchdogErrorDelay} :
        /\ watchdog.pc # "sleep" /\ UNCHANGED vars
        /\ watchdog' = [watchdog EXCEPT !.pc = "sleep", !.due = now + delay]
  BY DEF WatchdogError, WatchdogSleep
<1>2. UNCHANGED <<trustVars, pendingVars, lastValidAt, now>>
  BY <1>1 DEF vars
<1>3. delay \in Nat /\ FailedIteration >= WatchdogIteration + delay
  BY WatchdogNumbers
<1>4. WatchdogTypeOK' /\ watchdog'.pc = "sleep" /\ watchdog'.due = now + delay
  <2>1. now + delay \in Nat
    BY <1>3, WatchdogNumbers
  <2> QED BY <1>1, <2>1, SysInvTypes, WatchdogMoves DEF WatchdogTypeOK
<1>5. Punctual'
  BY <1>2, <1>3, <1>4, WatchdogNumbers DEF Punctual
<1>6. LostTime' = LostTime - FailedIteration /\ LostTime' \in Nat
  BY WatchdogNumbers, OneErrorMore
<1>7. ChallengedBy' = now + delay + LostTime' + WatchdogIteration
  BY <1>2, <1>4 DEF ChallengedBy
<1>8. ChallengedBy' <= now + LostTime /\ ChallengedBy' \in Int
  BY <1>3, <1>6, <1>7, WatchdogNumbers
<1>9. ChallengedBy >= watchdog.due + LostTime /\ ChallengedBy \in Int
  BY <1>1, WatchdogNumbers DEF ChallengedBy
<1> QED BY <1>2, <1>4, <1>5, <1>8, <1>9, SamePending, WatchdogNumbers DEF SysInv, Timely

LEMMA NextWatchdog ==
  ASSUME SysInv, [SysNext]_sysVars
  PROVE  WatchdogTypeOK' /\ Punctual' /\ Timely'
<1>1. ASSUME UNCHANGED watchdog PROVE WatchdogTypeOK'
  BY <1>1, SysInvTypes DEF WatchdogTypeOK
<1>2. ASSUME UNCHANGED <<trustVars, pendingVars, lastValidAt, watchdog>>, now' = now,
             errors' = errors \/ (errors' = errors + 1 /\ errors < MaxErrors)
      PROVE  WatchdogTypeOK' /\ Punctual' /\ Timely'
  BY <1>1, <1>2, OthersAreTimely
<1>3. CASE SysWatchdog
  BY <1>3, WakeIsTimely, ReadStateIsTimely, CheckIsTimely, ChallengeIsTimely
     DEF SysWatchdog, WatchdogStep
<1>4. CASE SysTick
  <2>1. UNCHANGED <<trustVars, pendingVars, lastValidAt, watchdog, errors>>
        /\ now' = now + 1 /\ now < watchdog.due
    BY <1>4 DEF SysTick, Tick, procVars
  <2> QED BY <1>1, <2>1, OthersAreTimely
<1>5. CASE SubmitStep
  <2>1. UNCHANGED watchdog
    BY <1>5 DEF SubmitStep
  <2> QED BY <1>1, <1>5, <2>1, SubmitIsTimely
<1>6. CASE SysRelay \/ SubmitterStep \/ RelayFails
  <2>1. UNCHANGED watchdog /\ (errors' = errors \/ OneMoreError)
    BY <1>6, SysInvTypes, Dealings
  <2>2. CASE UNCHANGED <<trustVars, pendingVars, lastValidAt, now>>
    BY <1>2, <2>1, <2>2 DEF OneMoreError
  <2> QED BY <1>5, <1>6, <2>2, SysInvTypes, Dealings DEF Deposit, Withdraw, vars
<1>7. CASE SysError
  <2>1. errors < MaxErrors /\ errors' = errors + 1
    BY <1>7 DEF SysError
  <2>2. CASE WatchdogError
    BY <2>1, <2>2, ErrorIsTimely
  <2> QED BY <1>7, <1>6, <2>2 DEF SysError, RelayFails
<1>8. CASE SysProduce \/ UNCHANGED sysVars
  BY <1>2, <1>8 DEF SysProduce, ProduceBlock, sysVars, procVars, vars
<1> QED BY <1>3, <1>4, <1>6, <1>7, <1>8 DEF SysNext

-----------------------------------------------------------------------------
(* The invariant of the system.                                            *)

LEMMA InitContract ==
  ASSUME SysInit
  PROVE  /\ ChainInv /\ ElectedInv /\ initialized /\ lastValidAt = 0
         /\ \A h \in Heights : blockHashes_[h] # NoHash =>
              h = Chain[1].height /\ blockHashes_[h] = Chain[1].hash
<1>1. 1 \in DOMAIN Chain
  BY NodeAssumption
<1>2. /\ Chain[1] \in Blocks /\ Chain[1] \in Finalized /\ Chain[1] \in BlockRecords
      /\ Chain[1].height \in Heights /\ Chain[1].hash \in Hashes /\ Chain[1].hash # NoHash
  BY <1>1, ChainFacts, BlockAssumption
<1>3. /\ Chain[1].nextBps \in ProducerLists
      /\ Validators[Chain[1].epochId] \in ProducerLists
      /\ Chain[1].nextBps = Validators[Chain[1].nextEpochId]
  BY <1>2, SystemAssumption, BlockAssumption, ChainAssumption DEF BlockRecords
<1>4. /\ initialized = TRUE /\ lastValidAt = 0 /\ head = Info(Chain[1]) /\ now = 0
      /\ blockHashes_ = [h \in Heights |-> IF h = Chain[1].height THEN Chain[1].hash ELSE NoHash]
      /\ currentBlockProducers = Validators[Chain[1].epochId] /\ nextBlockProducers = Chain[1].nextBps
  BY DEF SysInit
<1>5. TypeOK
  <2>1. head \in BlockInfos /\ untrustedHead \in BlockInfos
    BY <1>2, <1>4, InfoType, ZeroInfoType DEF SysInit
  <2>2. untrustedApprovals \in Seq(Approvals) /\ currentBlockProducers \in ProducerLists
        /\ nextBlockProducers \in ProducerLists /\ untrustedNextBlockProducers \in ProducerLists
    BY <1>3 DEF SysInit, ProducerLists
  <2>3. blockHashes_ \in [Heights -> Hashes \cup {NoHash}]
        /\ balanceOf \in [Accounts -> {0, LockEthAmount}]
    BY <1>2 DEF SysInit
  <2>4. /\ untrustedApprovalCount \in Nat /\ lastSubmitter \in Accounts \cup {NoAccount}
        /\ lastValidAt \in Nat /\ now \in Nat /\ ethBalance \in Int
    BY DEF SysInit
  <2>5. initialized \in BOOLEAN /\ untrustedHeadIsFromNextEpoch \in BOOLEAN
    BY Zenon DEF SysInit
  <2> QED BY <2>1, <2>2, <2>3, <2>4, <2>5, Zenon DEF TypeOK
<1>6. BondInv
  BY <1>4, <1>5 DEF BondInv, IdleBeforeInit, PendingSubmitted, BondBacked, InWindow
<1>7. Committed /\ Parked
  <2>1. IsInfo(head) /\ head.height = Chain[1].height /\ head.hash = Chain[1].hash
    BY <1>2, <1>4 DEF IsInfo, Info
  <2>2. Chain[1].height \in Nat
    BY <1>2, HeightsAreNat
  <2> QED BY <1>2, <1>4, <2>1, <2>2 DEF Committed, Parked
<1>8. ElectedInv
  <2>1. head.epochId = Chain[1].epochId /\ head.nextEpochId = Chain[1].nextEpochId
    BY <1>4 DEF Info
  <2> QED BY <1>3, <1>4, <2>1 DEF ElectedInv, BeforeInit, ElectedCommitted, ElectedPending
<1> QED BY <1>4, <1>6, <1>7, <1>8 DEF ChainInv

LEMMA InitSysInv == SysInit => SysInv
<1> SUFFICES ASSUME SysInit PROVE SysInv
  OBVIOUS
<1>1. 1 \in DOMAIN Chain /\ tip = 1 /\ now = 0 /\ errors = 0 /\ submissions = 0
  BY RelayAssumption, NodeAssumption DEF SysInit, RelayInit
<1>2. /\ relay = [pc |-> "state", height |-> 0, validAt |-> 0, timestamp |-> 0,
                  hash |-> NoHash, block |-> 1, due |-> RelayIteration]
      /\ watchdog = [pc |-> "state", count |-> 0, index |-> 0, due |-> WatchdogIteration]
  BY DEF SysInit, RelayInit, WatchdogInit
<1>3. RelayTypes
  BY <1>1, <1>2, RelayAssumption, NodeAssumption DEF RelayTypes, RelayRecords, RelayPcs
<1>4. ServiceTypes
  BY <1>1, <1>2, <1>3, WatchdogAssumption, SystemAssumption DEF ServiceTypes, WatchdogTypeOK
<1>5. CommittedKnown
  BY <1>1, InitContract DEF CommittedKnown, Known
<1>6. RelayKnows
  BY <1>2 DEF RelayKnows
<1>7. Punctual
  BY <1>1, <1>2, WatchdogAssumption DEF Punctual
<1>8. PendingInv /\ Timely
  BY InitContract DEF PendingInv, Timely, BadPending
<1> QED BY <1>4, <1>5, <1>6, <1>7, <1>8, InitContract DEF SysInv

LEMMA NextSysInv == SysInv /\ [SysNext]_sysVars => SysInv'
<1> SUFFICES ASSUME SysInv, [SysNext]_sysVars PROVE SysInv'
  OBVIOUS
<1>1. [Next]_vars
  BY SysInvTypes, SysSteps
<1>2. ChainInv' /\ ElectedInv'
  BY <1>1, SysInvTypes, NextChainInv, NextElected
<1>3. initialized'
  BY SysInvTypes, SysSteps
     DEF SubmitStep, AddLightClientBlock, ChallengeStep, Challenge, QuietStep, trustVars
<1>4. submissions' \in 0 .. MaxSubmissions /\ errors' \in 0 .. MaxErrors
  <2>1. /\ submissions \in 0 .. MaxSubmissions /\ errors \in 0 .. MaxErrors
        /\ MaxSubmissions \in Nat /\ MaxErrors \in Nat
    BY SysInvTypes, SystemAssumption DEF ServiceTypes
  <2> QED BY <2>1 DEF SysNext, sysVars, procVars, SysWatchdog, SysRelay, SysProduce, SysError,
                      SubmitterStep, SysTick
<1>5. ServiceTypes'
  BY <1>4, NextRelay, NextWatchdog DEF ServiceTypes
<1> QED BY <1>2, <1>3, <1>5, NextRelay, NextWatchdog, NextPendingInv, NextCommittedKnown DEF SysInv

LEMMA SysInvHolds == SysSpec => []SysInv
BY InitSysInv, NextSysInv, PTL DEF SysSpec

-----------------------------------------------------------------------------
(* Theorems.                                                               *)

(* The contract and both services keep their types; what the relay submits *)
(* is always one of the blocks Tezos has produced.                         *)
THEOREM ServicesAreTyped == SysSpec => []SysTypeOK
<1>1. SysInv => SysTypeOK
  <2> SUFFICES ASSUME SysInv PROVE SysTypeOK
    OBVIOUS
  <2>1. RelayTypeOK
    BY SysInvTypes, UpToTip DEF RelayTypes, RelayRecords, RelayTypeOK
  <2> QED BY <2>1, SysInvTypes DEF SysTypeOK, ServiceTypes
<1> QED BY <1>1, SysInvHolds, PTL

(* With two thirds of the stake honest and a window that leaves the        *)
(* watchdog a lost iteration, a sleep, a second iteration and the errors,  *)
(* those of the challenge itself included, no wrong block is ever trusted, *)
(* whatever is submitted and when.                                         *)
THEOREM WrongBlocksAreChallenged == SysSpec => []OnlyFinalTrusted
<1>1. SysInv => OnlyFinalTrusted
  BY SysInvTrusts DEF OnlyFinalTrusted
<1> QED BY <1>1, SysInvHolds, PTL

(* Commits, challenges and time between the relay's two reads of the       *)
(* contract never make it ask for the successor of a block that is not     *)
(* trusted.                                                                *)
THEOREM ReadsAreConsistent == SysSpec => []RelayReadsTrusted
<1>1. SysInv => RelayReadsTrusted
  BY DEF SysInv, RelayKnows, Known, RelayReadsTrusted
<1> QED BY <1>1, SysInvHolds, PTL

(* A challenge hits the relay's bond only for a false signature in a block *)
(* of the chain, and there is none.                                        *)
LEMMA RelayLosesNothing ==
  ASSUME SysInv, [SysNext]_sysVars, balanceOf[RelayAccount] > 0
  PROVE  balanceOf'[RelayAccount] > 0
<1>0. /\ balanceOf \in [Accounts -> {0, LockEthAmount}] /\ LockEthAmount \in Nat \ {0}
      /\ RelayAccount \in Accounts /\ Submitter \in Accounts /\ Submitter # RelayAccount
      /\ balanceOf[RelayAccount] = LockEthAmount
  BY SysInvTypes, BondAssumption, RelayAssumption, SystemAssumption DEF TypeOK
<1>1. CASE UNCHANGED balanceOf
  BY <1>1
<1>2. ASSUME NEW a \in Accounts, Deposit(a) PROVE balanceOf'[RelayAccount] > 0
  BY <1>0, <1>2 DEF Deposit
<1>3. CASE Withdraw(Submitter)
  BY <1>0, <1>3 DEF Withdraw
<1>4. CASE Challenge(watchdog.index)
  <2>1. balanceOf' = [balanceOf EXCEPT ![lastSubmitter] = @ - LockEthAmount]
        /\ SignatureFails(watchdog.index) /\ lastValidAt # 0
    BY <1>4, SysInvTypes DEF Challenge, PayRewardAndRollBack, InWindow, TypeOK
  <2>2. lastSubmitter # RelayAccount
    BY <2>1, SysInvTypes, SysInvTrusts, RelayIsInnocent DEF SysInv, RelayTypes
  <2> QED BY <1>0, <2>1, <2>2
<1>5. CASE SubmitStep
  BY <1>1, <1>5 DEF SubmitStep, AddLightClientBlock, bondVars
<1>6. CASE SysRelay \/ SubmitterStep \/ RelayFails
  <2>1. CASE RelayStep \/ RelayError
    BY <1>1, <1>2, <1>0, <1>5, <1>6, <2>1, SysInvTypes, Dealings
       DEF RelayStep, RelayWake, RelayReadState, RelayReadHash, RelayReadLightClientBlock,
           RelayReadStake, RelayDeposit, RelaySubmit, RelayError, RelayThrows, RelayLosesReceipt,
           AddLightClientBlock, vars, bondVars
  <2>2. CASE SubmitterStep
    BY <1>0, <1>1, <1>2, <1>3, <2>2 DEF SubmitterStep, AddLightClientBlock, bondVars
  <2> QED BY <1>6, <2>1, <2>2 DEF SysRelay, RelayFails
<1>7. CASE SysWatchdog
  BY <1>1, <1>4, <1>7 DEF SysWatchdog, WatchdogStep, WatchdogWake, WatchdogReadState, WatchdogCheck,
                          WatchdogChallenge, vars, bondVars
<1>8. CASE SysError
  BY <1>1, <1>6, <1>8 DEF SysError, RelayFails, WatchdogError, vars, bondVars
<1>9. CASE SysProduce \/ SysTick \/ UNCHANGED sysVars
  BY <1>1, <1>9 DEF SysProduce, ProduceBlock, SysTick, Tick, sysVars, vars, bondVars
<1> QED BY <1>6, <1>7, <1>8, <1>9 DEF SysNext

(* The relay never loses the bond it has deposited.                        *)
THEOREM RelayIsNotSlashed == SysSpec => RelayKeepsBond
<1>1. SysInv /\ [SysNext]_sysVars =>
        [balanceOf[RelayAccount] > 0 => balanceOf'[RelayAccount] > 0]_sysVars
  BY RelayLosesNothing
<1> QED BY <1>1, SysInvHolds, PTL DEF SysSpec, RelayKeepsBond

-----------------------------------------------------------------------------
(* The shared account: the services' transactions wait to be mined, and    *)
(* what is mined was decided on long before.                               *)

(* A submission that waits, or is about to be sent, is of a block that     *)
(* Tezos has produced; no other process sends submissions.                 *)
PoolInv == \A tx \in pool : tx.call = "submit" => tx.arg \in 1 .. tip

ServicesInv ==
  /\ RelayTypes /\ WatchdogTypeOK /\ errors \in Nat
  /\ relay.pc = "hash" => relay.height \in Heights

SharedInv ==
  /\ ChainInv /\ ElectedInv /\ initialized /\ now = 0 /\ CommittedFinal
  /\ PendingInv /\ ServicesInv /\ PoolInv

\* what any of them does to the contract
SharedDealing ==
  \/ \E a \in Accounts, b \in Blocks :
       MaySubmitBlock(a, b) /\ AddLightClientBlock(a, b) /\ tip' = tip
  \/ \E i : Challenge(i)
  \/ Deposit(RelayAccount) \/ Deposit(Submitter) \/ Withdraw(Submitter)
  \/ UNCHANGED vars

LEMMA SharedTypes ==
  ASSUME SharedInv
  PROVE  /\ TypeOK /\ BondInv /\ ChainInv /\ ElectedInv /\ initialized /\ now = 0
         /\ CommittedFinal /\ PendingInv /\ RelayTypes /\ WatchdogTypeOK /\ PoolInv
         /\ tip \in DOMAIN Chain /\ tip \in Nat /\ 1 .. tip \subseteq DOMAIN Chain
         /\ relay.block \in 1 .. tip /\ ~CommitDue /\ errors \in Nat
<1>1. TypeOK /\ tip \in DOMAIN Chain
  BY DEF SharedInv, ChainInv, BondInv, ServicesInv, RelayTypes
<1>2. ~CommitDue
  BY <1>1 DEF SharedInv, CommitDue, TypeOK
<1>3. relay.block \in 1 .. tip
  BY <1>1, UpToTip DEF SharedInv, ServicesInv, RelayTypes, RelayRecords
<1> QED BY <1>1, <1>2, <1>3, UpToTip DEF SharedInv, ServicesInv, ChainInv

(* What is mined is a deposit or a submission of the relay, or a challenge *)
(* of whatever block is pending by then.                                   *)
LEMMA MineDeals ==
  ASSUME SharedInv, Mine
  PROVE  SharedDealing /\ UNCHANGED procVars /\ pool' = {}
<1>1. UNCHANGED procVars /\ pool' = {}
  BY DEF Mine
<1>2. CASE UNCHANGED vars
  BY <1>1, <1>2 DEF SharedDealing
<1>3. ASSUME NEW tx \in pool, Execute(tx) PROVE SharedDealing
  <2>1. CASE tx.call = "submit" /\ AddLightClientBlock(RelayAccount, Chain[tx.arg])
    <3>1. PICK i \in 1 .. tip : i = tx.arg /\ AddLightClientBlock(RelayAccount, Chain[i])
      BY <2>1, SharedTypes DEF PoolInv
    <3>2. i \in DOMAIN Chain /\ RelayAccount \in Accounts
      BY SharedTypes, RelayAssumption
    <3>3. Chain[i] \in Blocks
      BY <3>2, ChainFacts
    <3>4. MaySubmitBlock(RelayAccount, Chain[i]) /\ tip' = tip
      BY <1>1 DEF MaySubmitBlock, KnownToTezos, procVars
    <3> QED BY <3>1, <3>2, <3>3, <3>4 DEF SharedDealing
  <2>2. CASE Deposit(RelayAccount) \/ Challenge(tx.arg)
    BY <2>2 DEF SharedDealing
  <2> QED BY <1>3, <2>1, <2>2 DEF Execute
<1>4. (\E tx \in pool : Execute(tx)) \/ UNCHANGED vars
  BY DEF Mine
<1> QED BY <1>1, <1>2, <1>3, <1>4

LEMMA SubmitterDeals ==
  ASSUME SharedInv, OtherSubmitter
  PROVE  SharedDealing /\ UNCHANGED <<tip, relay, watchdog, pool>>
<1>1. Submitter \in Accounts /\ Submitter # RelayAccount
  BY SystemAssumption
<1>2. CASE (Deposit(Submitter) \/ Withdraw(Submitter)) /\ UNCHANGED procVars
  BY <1>2 DEF OtherSubmitter, SharedDealing, procVars
<1>3. ASSUME NEW b \in Blocks, IsFinal(b) => KnownToTezos(b.hash),
             AddLightClientBlock(Submitter, b), UNCHANGED <<watchdog, relay, tip, errors>>
      PROVE  SharedDealing
  BY <1>1, <1>3 DEF SharedDealing, MaySubmitBlock
<1>4. UNCHANGED <<tip, relay, watchdog, pool>>
  BY DEF OtherSubmitter, SubmitterStep, procVars
<1> QED BY <1>2, <1>3, <1>4 DEF OtherSubmitter, SubmitterStep

LEMMA ServicesWait ==
  ASSUME RelayProcess \/ WatchdogProcess \/ \E p \in Senders : ServiceError(p)
  PROVE  UNCHANGED <<vars, tip>>
BY DEF ServiceError, Throws, RelayThrows, WatchdogError, RelayProcess, WatchdogProcess, WakeRelay, RelayRead, RelayReadState, RelayReadHash,
       RelayReadLightClientBlock, RelayReadStake, RelayPrepare, Send, Receipt, RelayTimeout,
       WakeWatchdog, WatchdogRead, WatchdogReadState, WatchdogCheck, WatchdogPrepare, SlowChallenge,
       sysVars, procVars

(* Only what the services run into is counted as an error.                 *)
LEMMA ErrorsCount ==
  ASSUME [SharedNext]_allVars
  PROVE  \/ errors' = errors
         \/ errors' = errors + 1 /\ \E p \in Senders : ServiceError(p)
BY DEF SharedNext, RelayProcess, WatchdogProcess, WakeRelay, RelayRead, RelayPrepare, Send, Receipt,
       RelayTimeout, WakeWatchdog, WatchdogRead, WatchdogPrepare, SlowChallenge, Mine,
       OtherSubmitter, SubmitterStep, SysProduce, ServiceError, allVars, sysVars, procVars

LEMMA SharedSteps ==
  ASSUME SharedInv, [SharedNext]_allVars
  PROVE  SharedDealing /\ [Next]_vars /\ tip' \in DOMAIN Chain /\ tip' \in Nat /\ tip' >= tip
<1>0. /\ tip \in DOMAIN Chain /\ tip \in Nat /\ Len(Chain) \in Nat /\ DOMAIN Chain = 1 .. Len(Chain)
      /\ Submitter \in Accounts /\ RelayAccount \in Accounts
  BY SharedTypes, UpToTip, NodeAssumption, SystemAssumption, RelayAssumption
<1>1. SharedDealing
  <2>1. CASE SysProduce \/ UNCHANGED allVars
    BY <2>1 DEF SysProduce, ProduceBlock, allVars, sysVars, SharedDealing
  <2> QED BY <2>1, MineDeals, SubmitterDeals, ServicesWait DEF SharedNext, SharedDealing
<1>2. [Next]_vars
  <2>1. ASSUME NEW i, Challenge(i) PROVE Next
    <3>1. i \in DOMAIN PendingProducers
      BY <2>1 DEF Challenge, SignatureFails
    <3> QED BY <2>1, <3>1 DEF Next
  <2> QED BY <1>0, <1>1, <2>1 DEF SharedDealing, Next
<1>3. CASE SysProduce
  BY <1>0, <1>1, <1>2, <1>3 DEF SysProduce, ProduceBlock
<1>4. CASE UNCHANGED tip
  BY <1>0, <1>1, <1>2, <1>4
<1> QED BY <1>3, <1>4, MineDeals, SubmitterDeals, ServicesWait
        DEF SharedNext, allVars, sysVars, procVars

(* The clock stands still, so nothing is committed.                        *)
LEMMA NextContract ==
  ASSUME SharedInv, [SharedNext]_allVars
  PROVE  /\ ChainInv' /\ ElectedInv' /\ initialized' /\ now' = 0 /\ CommittedFinal' /\ PendingInv'
<1>0. SharedDealing /\ [Next]_vars
  BY SharedSteps
<1>1. ChainInv' /\ ElectedInv'
  BY <1>0, SharedTypes, NextChainInv, NextElected
<1>2. UNCHANGED <<initialized, now, blockHashes_>>
  <2>1. ASSUME NEW a \in Accounts, NEW b \in Blocks, AddLightClientBlock(a, b)
        PROVE  UNCHANGED <<initialized, now, blockHashes_>>
    BY <2>1, SharedTypes DEF AddLightClientBlock, CommitOrReplace
  <2> QED BY <1>0, <2>1 DEF SharedDealing, Challenge, Deposit, Withdraw, vars, trustVars
<1>3. PendingInv'
  <2>1. UNCHANGED vars \/ Deposit(RelayAccount) \/ Deposit(Submitter) \/ Withdraw(Submitter)
          => QuietStep
    BY DEF Deposit, Withdraw, vars, QuietStep
  <2> QED BY <1>0, <2>1, SharedSteps, SharedTypes, PendingSteps DEF SharedDealing
<1> QED BY <1>1, <1>2, <1>3, SharedTypes DEF CommittedFinal

LEMMA WatchdogTurns ==
  ASSUME WatchdogTypeOK, NEW pc \in {"sleep", "state", "check", "challenge"}, NEW due \in Nat,
         watchdog' = [watchdog EXCEPT !.pc = pc, !.due = due]
  PROVE  WatchdogTypeOK'
BY DEF WatchdogTypeOK

(* The services keep their types in every stage of their transactions.     *)
LEMMA NextServices ==
  ASSUME SharedInv, [SharedNext]_allVars
  PROVE  ServicesInv'
<1>0. /\ TypeOK /\ RelayTypes /\ WatchdogTypeOK /\ relay \in RelayRecords /\ ChainInv /\ initialized
      /\ tip \in Nat /\ tip' \in Nat /\ tip' \in DOMAIN Chain /\ tip' >= tip /\ now = 0 /\ now \in Nat
      /\ relay.block \in Nat /\ relay.block <= tip /\ RelayErrorDelay \in Nat /\ WatchdogDelay \in Nat
      /\ WatchdogErrorDelay \in Nat /\ errors' \in Nat
      /\ (relay.pc = "hash" => relay.height \in Heights)
  <2>1. relay.block \in Nat
    BY SharedTypes
  <2>2. errors' \in Nat
    BY SharedTypes, ErrorsCount
  <2> QED BY <2>1, <2>2, SharedTypes, SharedSteps, RelayAssumption, WatchdogAssumption
             DEF RelayTypes, SharedInv, ServicesInv
<1>1. ASSUME relay' \in RelayRecords, relay'.block <= tip, relay'.pc # "hash", UNCHANGED watchdog
       PROVE  ServicesInv'
  <2>1. relay'.block \in Nat
    BY <1>1 DEF RelayRecords
  <2>2. relay'.block <= tip'
    BY <1>0, <1>1, <2>1
  <2>3. RelayTypes'
    BY <1>0, <1>1, <2>2 DEF RelayTypes, RelayRecords
  <2>4. WatchdogTypeOK'
    BY <1>0, <1>1 DEF WatchdogTypeOK
  <2> QED BY <1>0, <1>1, <2>3, <2>4 DEF ServicesInv
<1>2. ASSUME NEW pc \in RelayPcs \ {"hash"}, NEW due \in Nat,
             relay' = [relay EXCEPT !.pc = pc, !.due = due], UNCHANGED watchdog
      PROVE  ServicesInv'
  <2>1. relay' \in RelayRecords /\ relay'.pc = pc /\ relay'.block = relay.block
    BY <1>0, <1>2, RelayTurns
  <2> QED BY <1>0, <1>2, <1>1, <2>1
<1>3. ASSUME NEW d \in Nat, RelaySleep(d), UNCHANGED watchdog PROVE ServicesInv'
  <2>1. "sleep" \in RelayPcs \ {"hash"} /\ now + d \in Nat
    BY <1>0 DEF RelayPcs
  <2> QED BY <1>2, <1>3, <2>1 DEF RelaySleep
<1>4. ASSUME NEW pc \in RelayPcs \ {"hash"}, relay' = [relay EXCEPT !.pc = pc], UNCHANGED watchdog
      PROVE  ServicesInv'
  <2>1. relay.due \in Nat /\ relay' = [relay EXCEPT !.pc = pc, !.due = relay.due]
    BY <1>0, <1>4 DEF RelayRecords
  <2> QED BY <1>2, <1>4, <2>1
<1>5. ASSUME WatchdogTypeOK', UNCHANGED relay PROVE ServicesInv'
  <2>1. relay.block <= tip'
    BY <1>0
  <2>2. RelayTypes'
    BY <1>0, <1>5, <2>1 DEF RelayTypes, RelayRecords
  <2> QED BY <1>0, <1>5, <2>2 DEF ServicesInv
<1>6. ASSUME NEW d \in Nat, WatchdogSleep(d), UNCHANGED relay PROVE ServicesInv'
  <2>1. now + d \in Nat
    BY <1>0
  <2> QED BY <1>0, <1>5, <1>6, <2>1, WatchdogTurns DEF WatchdogSleep
<1>7. CASE UNCHANGED <<relay, watchdog>>
  <2>1. WatchdogTypeOK'
    BY <1>0, <1>7 DEF WatchdogTypeOK
  <2> QED BY <1>5, <1>7, <2>1
<1>8. ASSUME NEW p \in Senders, GiveUp(p) PROVE ServicesInv'
  BY <1>0, <1>3, <1>6, <1>8 DEF GiveUp
<1>9. CASE RelayProcess
  <2>1. CASE WakeRelay
    <3>1. "state" \in RelayPcs \ {"hash"}
      BY DEF RelayPcs
    <3> QED BY <1>4, <2>1, <3>1 DEF WakeRelay
  <2>2. CASE RelayReadState /\ UNCHANGED watchdog
    <3>1. PICK h \in Heights : h = EffectiveHead.height
      BY <1>0, HeadIsTrusted
    <3>2. h \in Nat /\ lastValidAt \in Nat /\ untrustedHead.timestamp \in Nat
      BY <1>0, HeightsAreNat DEF TypeOK, BlockInfos
    <3>3. relay'.height = h
      BY <1>0, <2>2, <3>1 DEF RelayReadState, RelayRecords
    <3>4. RelayTypes'
      BY <1>0, <2>2, <3>1, <3>2 DEF RelayReadState, RelayTypes, RelayRecords, RelayPcs
    <3> QED BY <1>0, <2>2, <3>3, <3>4 DEF ServicesInv, WatchdogTypeOK
  <2>3. CASE RelayReadHash /\ UNCHANGED watchdog
    <3>1. PICK h \in Heights : h = relay.height
      BY <1>0, <2>3 DEF RelayReadHash
    <3>2. PICK x \in Hashes \cup {NoHash} : x = BlockHash(h)
      <4>1. blockHashes_[h] \in Hashes \cup {NoHash} /\ untrustedHead.hash \in Hashes \cup {NoHash}
        BY <1>0 DEF TypeOK, BlockInfos
      <4> QED BY <4>1 DEF BlockHash
    <3>3. relay' = [relay EXCEPT !.pc = "light", !.hash = x]
      BY <2>3, <3>1, <3>2 DEF RelayReadHash
    <3>4. relay' \in RelayRecords /\ relay'.pc = "light" /\ relay'.block = relay.block
      BY <1>0, <3>3 DEF RelayRecords, RelayPcs
    <3> QED BY <1>0, <1>1, <2>3, <3>4
  <2>4. CASE RelayReadLightClientBlock /\ UNCHANGED watchdog
    <3>1. CASE KnownToTezos(relay.hash)
      <4>1. PICK next \in 1 .. tip : next = NextLightClientBlock(relay.hash)
        BY <1>0, <3>1, SharedTypes, NextBlockInChain
      <4>2. Chain[next] \in Blocks
        BY <1>0, SharedTypes, ChainFacts
      <4>3. SleepTime(Chain[next]) \in Nat
        BY <1>0, <4>2, SleepTimeType
      <4>4. CASE RelaySleep(SleepTime(Chain[next]))
        BY <1>3, <2>4, <4>3, <4>4
      <4>5. CASE relay' = [relay EXCEPT !.pc = "stake", !.block = next]
        <5>1. "stake" \in RelayPcs /\ next \in Nat \ {0} /\ next <= tip
          BY <1>0, <4>1 DEF RelayPcs
        <5>2. relay' \in RelayRecords /\ relay'.pc = "stake" /\ relay'.block = next
          BY <1>0, <4>5, <5>1, RelayTakes
        <5> QED BY <1>1, <2>4, <5>1, <5>2
      <4> QED BY <2>4, <3>1, <4>1, <4>4, <4>5 DEF RelayReadLightClientBlock
    <3>2. CASE ~KnownToTezos(relay.hash)
      BY <1>0, <1>3, <2>4, <3>2 DEF RelayReadLightClientBlock
    <3> QED BY <3>1, <3>2
  <2>5. CASE RelayReadStake /\ UNCHANGED watchdog
    <3>1. {"deposit", "submit"} \subseteq RelayPcs \ {"hash"}
      BY DEF RelayPcs
    <3> QED BY <1>4, <2>5, <3>1 DEF RelayReadStake
  <2>6. CASE RelayPrepare
    BY <1>7, <2>6 DEF RelayPrepare, sysVars, procVars
  <2>7. CASE Send("relay")
    BY <1>7, <1>8, <2>7 DEF Send, Senders
  <2>8. CASE Receipt("relay")
    <3>1. {"submit", "state"} \subseteq RelayPcs \ {"hash"}
      BY DEF RelayPcs
    <3>2. CASE GiveUp("relay")
      BY <1>8, <3>2 DEF Senders
    <3>3. CASE /\ relay' = [relay EXCEPT !.pc = IF @ = "deposit" THEN "submit" ELSE "state"]
               /\ UNCHANGED watchdog
      BY <1>4, <3>1, <3>3
    <3> QED BY <2>8, <3>2, <3>3 DEF Receipt
  <2>9. CASE RelayTimeout
    BY <1>8, <2>9 DEF RelayTimeout, Senders
  <2> QED BY <1>9, <2>1, <2>2, <2>3, <2>4, <2>5, <2>6, <2>7, <2>8, <2>9 DEF RelayProcess, RelayRead
<1>10. CASE WatchdogProcess
  <2>1. CASE WakeWatchdog
    <3>1. WatchdogTypeOK' /\ UNCHANGED relay
      BY <1>0, <2>1 DEF WakeWatchdog, WatchdogTypeOK
    <3> QED BY <1>5, <3>1
  <2>2. CASE WatchdogReadState /\ UNCHANGED relay
    <3>1. Len(PendingProducers) \in Nat
      BY <1>0 DEF TypeOK, PendingProducers, ProducerLists
    <3>2. CASE watchdog' = [watchdog EXCEPT !.pc = "check", !.index = 1, !.count = Len(PendingProducers)]
      <4>1. WatchdogTypeOK'
        BY <1>0, <3>1, <3>2 DEF WatchdogTypeOK
      <4> QED BY <1>5, <2>2, <4>1
    <3> QED BY <1>0, <1>6, <2>2, <3>2 DEF WatchdogReadState
  <2>3. CASE WatchdogCheck /\ UNCHANGED relay
    <3>1. CASE watchdog' = [watchdog EXCEPT !.index = @ + 1]
      <4>1. WatchdogTypeOK'
        BY <1>0, <3>1 DEF WatchdogTypeOK
      <4> QED BY <1>5, <2>3, <4>1
    <3>2. CASE watchdog' = [watchdog EXCEPT !.pc = "challenge"]
      <4>1. WatchdogTypeOK'
        BY <1>0, <3>2 DEF WatchdogTypeOK
      <4> QED BY <1>5, <2>3, <4>1
    <3> QED BY <1>0, <1>6, <2>3, <3>1, <3>2 DEF WatchdogCheck, SkipSignature
  <2>4. CASE WatchdogPrepare
    BY <1>7, <2>4 DEF WatchdogPrepare, sysVars, procVars
  <2>5. CASE Send("watchdog")
    BY <1>7, <1>8, <2>5 DEF Send, Senders
  <2>6. CASE Receipt("watchdog")
    BY <1>8, <2>6 DEF Receipt, Senders
  <2>7. CASE SlowChallenge
    BY <1>0, <1>6, <1>7, <2>7 DEF SlowChallenge
  <2> QED BY <1>10, <2>1, <2>2, <2>3, <2>4, <2>5, <2>6, <2>7 DEF WatchdogProcess, WatchdogRead
<1>11. ASSUME NEW p \in Senders, ServiceError(p) PROVE ServicesInv'
  <2>1. CASE RelayThrows /\ UNCHANGED watchdog
    BY <1>0, <1>3, <2>1 DEF RelayThrows
  <2>2. CASE WatchdogError /\ UNCHANGED <<relay, tip>>
    BY <1>0, <1>6, <2>2 DEF WatchdogError
  <2> QED BY <1>11, <2>1, <2>2 DEF ServiceError, Throws
<1> QED BY <1>7, <1>9, <1>10, <1>11, MineDeals, SubmitterDeals
        DEF SharedNext, SysProduce, allVars, sysVars, procVars

LEMMA NextPool ==
  ASSUME SharedInv, [SharedNext]_allVars
  PROVE  PoolInv'
<1>0. tip \in Nat /\ tip' \in Nat /\ tip' >= tip /\ PoolInv /\ relay.block \in 1 .. tip
  BY SharedTypes, SharedSteps
<1>1. CASE UNCHANGED pool
  BY <1>0, <1>1 DEF PoolInv
<1>2. ASSUME NEW p \in Senders, Send(p) \/ ServiceError(p), pool' # pool PROVE PoolInv'
  <2>1. pool' = pool \cup {Transaction(p)} /\ tip' = tip
    BY <1>2, ServicesWait DEF Send, ServiceError
  <2>2. Transaction(p).call = "submit" => Transaction(p).arg \in 1 .. tip
    <3>1. watchdog.pc # "submit"
      BY SharedTypes DEF WatchdogTypeOK
    <3> QED BY <1>0, <3>1 DEF Transaction, Senders
  <2>3. PICK tx : tx = Transaction(p)
    OBVIOUS
  <2> QED BY <1>0, <2>1, <2>2, <2>3 DEF PoolInv
<1>3. CASE Mine
  BY <1>3, MineDeals DEF PoolInv
<1>4. \/ Send("relay") \/ Send("watchdog") \/ (\E p \in Senders : ServiceError(p))
      \/ Mine \/ UNCHANGED pool
  BY DEF SharedNext, RelayProcess, WatchdogProcess, WakeRelay, RelayRead, RelayPrepare, Receipt,
         RelayTimeout, WakeWatchdog, WatchdogRead, WatchdogPrepare, SlowChallenge, OtherSubmitter,
         allVars, accountVars
<1> QED BY <1>1, <1>2, <1>3, <1>4 DEF Senders

LEMMA InitSharedInv == SharedInit => SharedInv
<1> SUFFICES ASSUME SharedInit PROVE SharedInv
  OBVIOUS
<1>1. SysInit /\ pool = {}
  BY DEF SharedInit
<1>2. SysInv /\ now = 0 /\ relay.pc = "state" /\ errors = 0
  BY <1>1, InitSysInv DEF SysInit, RelayInit
<1>3. ServicesInv /\ PoolInv
  BY <1>1, <1>2, SysInvTypes DEF ServicesInv, PoolInv
<1>4. CommittedFinal
  BY <1>2, SysInvTrusts
<1> QED BY <1>2, <1>3, <1>4, SysInvTypes DEF SharedInv, SysInv

LEMMA SharedInvHolds == SharedSpec => []SharedInv
<1>1. SharedInv /\ [SharedNext]_allVars => SharedInv'
  BY NextContract, NextServices, NextPool DEF SharedInv
<1> QED BY <1>1, InitSharedInv, PTL DEF SharedSpec

LEMMA LateChallengeIsHarmless ==
  ASSUME SharedInv, [SharedNext]_allVars, balanceOf[RelayAccount] > 0
  PROVE  balanceOf'[RelayAccount] > 0
<1>0. /\ balanceOf \in [Accounts -> {0, LockEthAmount}] /\ LockEthAmount \in Nat \ {0}
      /\ RelayAccount \in Accounts /\ Submitter \in Accounts /\ Submitter # RelayAccount
      /\ balanceOf[RelayAccount] = LockEthAmount
  BY SharedTypes, BondAssumption, RelayAssumption, SystemAssumption DEF TypeOK
<1>1. CASE UNCHANGED balanceOf
  BY <1>1
<1>2. ASSUME NEW a \in Accounts, Deposit(a) PROVE balanceOf'[RelayAccount] > 0
  BY <1>0, <1>2 DEF Deposit
<1>3. CASE Withdraw(Submitter)
  BY <1>0, <1>3 DEF Withdraw
<1>4. ASSUME NEW i, Challenge(i) PROVE balanceOf'[RelayAccount] > 0
  <2>1. balanceOf' = [balanceOf EXCEPT ![lastSubmitter] = @ - LockEthAmount]
        /\ SignatureFails(i) /\ lastValidAt # 0
    BY <1>4, SharedTypes DEF Challenge, PayRewardAndRollBack, InWindow, TypeOK
  <2>2. lastSubmitter # RelayAccount
    BY <2>1, SharedTypes, RelayIsInnocent
  <2> QED BY <1>0, <2>1, <2>2
<1> QED BY <1>0, <1>1, <1>2, <1>3, <1>4, SharedSteps
        DEF SharedDealing, AddLightClientBlock, vars, bondVars

(* A challenge that is mined when another block is pending than the one it *)
(* was sent for does not cost the relay its bond, however long the         *)
(* transactions wait, displace each other or are given up.                 *)
THEOREM LateChallengeIsNoSlash == SharedSpec => LateChallengeSparesRelay
<1>1. SharedInv /\ [SharedNext]_allVars =>
        [balanceOf[RelayAccount] > 0 => balanceOf'[RelayAccount] > 0]_allVars
  BY LateChallengeIsHarmless
<1> QED BY <1>1, SharedInvHolds, PTL DEF SharedSpec, LateChallengeSparesRelay

-----------------------------------------------------------------------------
(* How often a challenge can be in vain.  Each time one of the relay's     *)
(* transactions was mined before it, and once a wrong block is pending the *)
(* relay has at most two that leave the block where it is: it deposits     *)
(* once, and what it decided on before it submits once.  Whatever it       *)
(* decides later replaces the wrong block.                                 *)

RelayBonded == balanceOf[RelayAccount] > 0

\* a block the contract takes from the relay, unless it comes too early
IsNext(k) == Chain[k].height > head.height /\ Chain[k].epochId \in {head.epochId, head.nextEpochId}

Replaces(k) == Chain[k].timestamp >= untrustedHead.timestamp + ReplaceDuration

StageOf(p) == sending[p].stage
IsFresh(p) == sending[p].fresh = TRUE

AboutToSend == StageOf("relay") = "idle" \/ (StageOf("relay") = "send" /\ IsFresh("relay"))

(* The relay is about to send a transaction in vain, or may decide to.     *)
Stale ==
  \/ /\ relay.pc \in {"hash", "light"}
     /\ ~(relay.validAt # 0 /\ relay.timestamp = untrustedHead.timestamp)
  \/ relay.pc = "stake" /\ ~Replaces(relay.block)
  \/ relay.pc = "deposit" /\ AboutToSend
  \/ relay.pc = "deposit" /\ StageOf("relay") = "mined" /\ ~Replaces(relay.block)
  \/ relay.pc = "submit" /\ AboutToSend /\ ~Replaces(relay.block)

(* One of its transactions that wait would be in vain.                     *)
PoolStale == \E tx \in pool : tx.by = "relay" /\ ~(tx.call = "submit" /\ Replaces(tx.arg))

(* How many the relay has left.                                            *)
One(b) == IF b THEN 1 ELSE 0
Left == IF RelayBonded THEN One(PoolStale) + One(Stale) ELSE 2

(* No transaction has been mined since the last challenge was begun.       *)
Undisturbed ==
  \/ watchdog.pc = "sleep" /\ pool # {}
  \/ /\ watchdog.pc = "challenge"
     /\ StageOf("watchdog") \in {"send", "wait"} /\ IsFresh("watchdog")

SendingTyped ==
  /\ sending \in [Senders -> [stage : {"idle", "send", "wait", "mined", "reverted"},
                              price : Int, fresh : BOOLEAN]]
  /\ attempts \in Nat

(* What waits to be mined, and who may have sent it.                       *)
PoolOwners ==
  \A tx \in pool :
    \/ tx.by = "relay" /\ tx.call = "deposit"
    \/ tx.by = "relay" /\ tx.call = "submit" /\ RelayBonded /\ IsNext(tx.arg)
    \/ /\ tx.by = "watchdog" /\ tx.call = "challenge"
       /\ watchdog.pc = "sleep" \/ StageOf("watchdog") # "idle"

(* The relay works on a block that follows the head.                       *)
RelayAims ==
  /\ head = Info(Chain[1])
  /\ relay.pc \in {"hash", "light"} => relay.height = head.height
  /\ relay.pc = "light" => relay.hash = head.hash
  /\ relay.pc \in {"stake", "deposit", "submit"} => IsNext(relay.block)
  /\ StageOf("relay") # "idle" => relay.pc \in {"deposit", "submit"}
  /\ relay.pc = "submit" \/ StageOf("relay") = "mined" => RelayBonded

WatchdogAims ==
  /\ StageOf("watchdog") # "idle" => watchdog.pc = "challenge"
  /\ StageOf("watchdog") = "wait" /\ IsFresh("watchdog") => pool # {}

(* While challenges of the pending block are counted it is wrong, they are *)
(* good ones, and all but the last one were paid for, or ended by an error.*)
CountInv ==
  attempts > 0 =>
    /\ InWindow /\ \E i \in DOMAIN PendingProducers : SignatureFails(i)
    /\ watchdog.pc = "challenge" => SignatureFails(watchdog.index)
    /\ \A tx \in pool : tx.by = "watchdog" => SignatureFails(tx.arg)
    /\ attempts + Left <= 2 + One(Undisturbed) + errors

SendersInv == SendingTyped /\ PoolOwners /\ RelayAims /\ WatchdogAims /\ CountInv

LEMMA NextSharedInv == SharedInv /\ [SharedNext]_allVars => SharedInv'
BY NextContract, NextServices, NextPool DEF SharedInv

(* One transaction's stage changes, and nothing of the other's.            *)
LEMMA StageChanges ==
  ASSUME SendingTyped, NEW p \in Senders, NEW q \in Senders, q # p,
         NEW x \in {"idle", "send", "wait", "mined", "reverted"}, Stage(p, x)
  PROVE  /\ StageOf(p)' = x /\ sending'[p].fresh = sending[p].fresh
         /\ sending'[q] = sending[q]
         /\ sending' \in [Senders -> [stage : {"idle", "send", "wait", "mined", "reverted"},
                                      price : Int, fresh : BOOLEAN]]
BY DEF SendingTyped, Stage, StageOf

(* The head stays, and with it what may follow it.                         *)
LEMMA HeadStays ==
  ASSUME SharedInv, [SharedNext]_allVars
  PROVE  /\ head' = head /\ now' = 0
         /\ \A k : IsNext(k)' <=> IsNext(k)
         /\ RelayBonded => RelayBonded'
<1>0. SharedDealing /\ ~CommitDue
  BY SharedSteps, SharedTypes
<1>1. head' = head
  <2>1. ASSUME NEW a \in Accounts, NEW b \in Blocks, AddLightClientBlock(a, b)
        PROVE  head' = head
    BY <1>0, <2>1 DEF AddLightClientBlock, CommitOrReplace
  <2> QED BY <1>0, <2>1 DEF SharedDealing, Challenge, Deposit, Withdraw, vars, trustVars
<1>2. RelayBonded => RelayBonded'
  BY LateChallengeIsHarmless DEF RelayBonded
<1> QED BY <1>1, <1>2, NextContract DEF IsNext

(* As long as the pending block stays the same, so do its signatures.      *)
SamePendingBlock == UNCHANGED <<untrustedHead, untrustedApprovals, lastValidAt>>

LEMMA SameSignatures ==
  ASSUME SharedInv, SharedInv', SamePendingBlock, lastValidAt # 0
  PROVE  PendingProducers' = PendingProducers /\ \A i : SignatureFails(i)' <=> SignatureFails(i)
<1>1. /\ PendingProducers = Validators[untrustedHead.epochId]
      /\ PendingProducers' = Validators[untrustedHead'.epochId]
  BY DEF SamePendingBlock, SharedInv, ElectedInv, ElectedPending
<1>2. PendingProducers' = PendingProducers
  BY <1>1 DEF SamePendingBlock
<1>3. \A i : Approval(i)' = Approval(i)
  BY DEF SamePendingBlock, Approval
<1>4. ASSUME NEW i PROVE SignatureFails(i)' <=> SignatureFails(i)
  BY <1>2, <1>3 DEF SignatureFails
<1> QED BY <1>2, <1>4

LEMMA LeftIs == Left \in 0 .. 2 /\ One(Undisturbed) \in 0 .. 1
BY DEF Left, One

(* A transaction that was to come in vain may become one that waits.       *)
LEMMA LeftShrinks ==
  ASSUME RelayBonded => /\ RelayBonded'
                        /\ PoolStale' => PoolStale \/ Stale
                        /\ Stale' => Stale
                        /\ PoolStale' /\ Stale' => PoolStale /\ Stale
  PROVE  Left' <= Left
BY DEF Left, One

(* The pending block stays wrong, and what challenges it stays a good      *)
(* challenge.                                                              *)
LEMMA WrongStays ==
  ASSUME SharedInv, SharedInv', SendersInv, SamePendingBlock, attempts > 0,
         watchdog'.pc = "challenge" => \/ watchdog.pc = "challenge" /\ watchdog'.index = watchdog.index
                                       \/ SignatureFails(watchdog'.index),
         \A tx \in pool' : tx.by = "watchdog" =>
           tx \in pool \/ (watchdog.pc = "challenge" /\ tx.arg = watchdog.index)
  PROVE  /\ InWindow' /\ \E i \in DOMAIN PendingProducers' : SignatureFails(i)'
         /\ watchdog'.pc = "challenge" => SignatureFails(watchdog.index)'
         /\ \A tx \in pool' : tx.by = "watchdog" => SignatureFails(tx.arg)'
<1>1. /\ InWindow /\ \E i \in DOMAIN PendingProducers : SignatureFails(i)
      /\ watchdog.pc = "challenge" => SignatureFails(watchdog.index)
      /\ \A tx \in pool : tx.by = "watchdog" => SignatureFails(tx.arg)
  BY DEF SendersInv, CountInv
<1>2. now = 0 /\ now' = 0 /\ lastValidAt # 0
  BY <1>1 DEF SharedInv, InWindow
<1>3. PendingProducers' = PendingProducers /\ \A i : SignatureFails(i)' <=> SignatureFails(i)
  BY <1>2, SameSignatures
<1>4. InWindow'
  BY <1>1, <1>2 DEF InWindow, SamePendingBlock
<1>5. watchdog'.pc = "challenge" => SignatureFails(watchdog.index)'
  <2>1. PICK i : i = watchdog'.index
    OBVIOUS
  <2>2. watchdog'.pc = "challenge" => SignatureFails(i)
    BY <1>1, <2>1
  <2>3. SignatureFails(i)' = SignatureFails(watchdog.index)'
    BY <2>1 DEF SignatureFails, Approval
  <2> QED BY <1>3, <2>2, <2>3
<1>6. \A tx \in pool' : tx.by = "watchdog" => SignatureFails(tx.arg)'
  <2> TAKE tx \in pool'
  <2>1. tx.by = "watchdog" => SignatureFails(tx.arg)
    BY <1>1
  <2> QED BY <1>3, <2>1
<1> QED BY <1>1, <1>3, <1>4, <1>5, <1>6

LEMMA NeverFewerErrors ==
  ASSUME SharedInv, [SharedNext]_allVars
  PROVE  errors' >= errors
BY SharedTypes, ErrorsCount

LEMMA CountStays ==
  ASSUME SharedInv, SharedInv', SendersInv, SamePendingBlock, attempts' = attempts,
         attempts > 0 => Left' <= Left,
         errors' >= errors,
         Undisturbed => Undisturbed' \/ errors' = errors + 1,
         watchdog'.pc = "challenge" => \/ watchdog.pc = "challenge" /\ watchdog'.index = watchdog.index
                                       \/ SignatureFails(watchdog'.index),
         \A tx \in pool' : tx.by = "watchdog" =>
           tx \in pool \/ (watchdog.pc = "challenge" /\ tx.arg = watchdog.index)
  PROVE  CountInv'
<1>1. ASSUME attempts > 0
      PROVE  attempts + Left' <= 2 + One(Undisturbed') + errors'
  <2>1. attempts + Left <= 2 + One(Undisturbed) + errors
    BY <1>1 DEF SendersInv, CountInv
  <2>2. Left' <= Left /\ One(Undisturbed) + errors <= One(Undisturbed') + errors'
    <3>1. errors \in Nat /\ errors' \in Nat
      BY DEF SharedInv, ServicesInv
    <3>2. Left' <= Left
      BY <1>1
    <3>3. PICK u, v \in Int : u = One(Undisturbed) /\ v = One(Undisturbed')
      BY DEF One
    <3>4. u \in 0 .. 1 /\ v \in 0 .. 1 /\ (u = 1 => Undisturbed) /\ (Undisturbed' => v = 1)
      BY <3>3 DEF One
    <3>5. CASE errors' = errors + 1
      BY <3>1, <3>2, <3>3, <3>4, <3>5
    <3>6. CASE Undisturbed => Undisturbed'
      <4>1. u <= v
        BY <3>4, <3>6
      <4> QED BY <3>1, <3>2, <3>3, <4>1
    <3> QED BY <3>5, <3>6
  <2>3. attempts \in Nat /\ errors \in Nat /\ errors' \in Nat /\ Left \in Int /\ Left' \in Int
        /\ One(Undisturbed) \in Int /\ One(Undisturbed') \in Int
    BY LeftIs DEF SendersInv, SendingTyped, SharedInv, ServicesInv, Left, One
  <2> HIDE DEF Left, One
  <2> QED BY <2>1, <2>2, <2>3
<1>2. attempts > 0 => /\ InWindow' /\ \E i \in DOMAIN PendingProducers' : SignatureFails(i)'
                      /\ watchdog'.pc = "challenge" => SignatureFails(watchdog.index)'
                      /\ \A tx \in pool' : tx.by = "watchdog" => SignatureFails(tx.arg)'
  BY WrongStays
<1> QED BY <1>1, <1>2 DEF CountInv

-----------------------------------------------------------------------------
(* A step of the relay: it reads, or what it is about to send changes.     *)
LEMMA RelayTurnKeeps ==
  ASSUME SharedInv, [SharedNext]_allVars, SendersInv,
         UNCHANGED <<vars, watchdog, attempts>>, sending'["watchdog"] = sending["watchdog"],
         SendingTyped', RelayAims', pool \subseteq pool',
         \A tx \in pool' \ pool :
           /\ tx.by = "relay"
           /\ tx.call = "deposit" \/ (tx.call = "submit" /\ RelayBonded /\ IsNext(tx.arg)),
         InWindow /\ RelayBonded => /\ PoolStale' => PoolStale \/ Stale
                                    /\ Stale' => Stale
                                    /\ PoolStale' /\ Stale' => PoolStale /\ Stale
  PROVE  SendersInv'
<1>1. SharedInv' /\ SamePendingBlock
  BY NextSharedInv DEF SamePendingBlock, vars, pendingVars
<1>2. /\ \A k : IsNext(k)' <=> IsNext(k)
      /\ RelayBonded' <=> RelayBonded
  BY DEF IsNext, RelayBonded, vars, trustVars, bondVars
<1>3. StageOf("watchdog")' = StageOf("watchdog") /\ (IsFresh("watchdog")' <=> IsFresh("watchdog"))
  BY DEF StageOf, IsFresh
<1>4. PoolOwners'
  <2>1. ASSUME NEW tx \in pool'
        PROVE  \/ tx.by = "relay" /\ tx.call = "deposit"
               \/ tx.by = "relay" /\ tx.call = "submit" /\ RelayBonded' /\ IsNext(tx.arg)'
               \/ /\ tx.by = "watchdog" /\ tx.call = "challenge"
                  /\ watchdog'.pc = "sleep" \/ StageOf("watchdog")' # "idle"
    <3>1. CASE tx \in pool
      BY <1>2, <1>3, <3>1 DEF SendersInv, PoolOwners
    <3>2. CASE tx \notin pool
      BY <1>2, <3>2
    <3> QED BY <3>1, <3>2
  <2> QED BY <2>1 DEF PoolOwners
<1>5. WatchdogAims' /\ (Undisturbed => Undisturbed')
  BY <1>3 DEF SendersInv, WatchdogAims, Undisturbed
<1>6. CountInv'
  <2>1. ASSUME attempts > 0 PROVE Left' <= Left
    <3>1. InWindow
      BY <2>1 DEF SendersInv, CountInv
    <3> QED BY <1>2, <3>1, LeftShrinks
  <2>2. \A tx \in pool' : tx.by = "watchdog" => tx \in pool
    OBVIOUS
  <2> QED BY <1>1, <1>5, <2>1, <2>2, NeverFewerErrors, CountStays
<1> QED BY <1>4, <1>5, <1>6 DEF SendersInv

LEMMA WatchdogTurnKeeps ==
  ASSUME SharedInv, [SharedNext]_allVars, SendersInv,
         UNCHANGED <<vars, relay, attempts>>, sending'["relay"] = sending["relay"],
         SendingTyped', WatchdogAims', pool \subseteq pool',
         \A tx \in pool' \ pool :
           /\ tx.by = "watchdog" /\ tx.call = "challenge" /\ tx.arg = watchdog.index
           /\ watchdog.pc = "challenge",
         \/ watchdog'.pc = "sleep" \/ StageOf("watchdog")' # "idle"
         \/ pool' = {} \/ (watchdog.pc # "sleep" /\ StageOf("watchdog") = "idle" /\ pool' = pool),
         Undisturbed => Undisturbed' \/ errors' = errors + 1,
         watchdog'.pc = "challenge" => \/ watchdog.pc = "challenge" /\ watchdog'.index = watchdog.index
                                       \/ SignatureFails(watchdog'.index)
  PROVE  SendersInv'
<1>1. SharedInv' /\ SamePendingBlock
  BY NextSharedInv DEF SamePendingBlock, vars, pendingVars
<1>2. /\ \A k : (IsNext(k)' <=> IsNext(k)) /\ (Replaces(k)' <=> Replaces(k))
      /\ RelayBonded' <=> RelayBonded
      /\ untrustedHead' = untrustedHead /\ head' = head
  BY DEF IsNext, Replaces, RelayBonded, vars, trustVars, pendingVars, bondVars
<1>3. StageOf("relay")' = StageOf("relay") /\ (IsFresh("relay")' <=> IsFresh("relay"))
      /\ (AboutToSend' <=> AboutToSend)
  BY DEF StageOf, IsFresh, AboutToSend
<1>4. PoolOwners'
  <2>1. ASSUME NEW tx \in pool'
        PROVE  \/ tx.by = "relay" /\ tx.call = "deposit"
               \/ tx.by = "relay" /\ tx.call = "submit" /\ RelayBonded' /\ IsNext(tx.arg)'
               \/ /\ tx.by = "watchdog" /\ tx.call = "challenge"
                  /\ watchdog'.pc = "sleep" \/ StageOf("watchdog")' # "idle"
    <3>1. CASE tx \in pool
      BY <1>2, <3>1 DEF SendersInv, PoolOwners
    <3>2. CASE tx \notin pool
      <4>1. pool' # pool /\ pool' # {}
        BY <3>2
      <4> QED BY <3>2, <4>1
    <3> QED BY <3>1, <3>2
  <2> QED BY <2>1 DEF PoolOwners
<1>5. RelayAims'
  BY <1>2, <1>3 DEF SendersInv, RelayAims
<1>6. Stale' <=> Stale
  BY <1>2, <1>3 DEF Stale, Replaces
<1>7. PoolStale' => PoolStale
  <2> SUFFICES ASSUME NEW tx \in pool', tx.by = "relay",
                      ~(tx.call = "submit" /\ Replaces(tx.arg)')
               PROVE  PoolStale
    BY DEF PoolStale
  <2> QED BY <1>2 DEF PoolStale
<1>8. Left' <= Left
  BY <1>2, <1>6, <1>7, LeftShrinks
<1>9. \A tx \in pool' : tx.by = "watchdog" =>
        tx \in pool \/ (watchdog.pc = "challenge" /\ tx.arg = watchdog.index)
  OBVIOUS
<1> QED BY <1>1, <1>4, <1>5, <1>8, <1>9, NeverFewerErrors, CountStays DEF SendersInv

(* The relay reads of a pending block that is still there: what it then    *)
(* takes from Tezos replaces that block.                                   *)
LEMMA RelayReadsAims ==
  ASSUME SharedInv, [SharedNext]_allVars, SendersInv, RelayRead \/ WakeRelay
  PROVE  /\ RelayAims'
         /\ InWindow /\ RelayBonded /\ Stale' => Stale
<1>0. /\ head = Info(Chain[1]) /\ StageOf("relay") = "idle" /\ head.hash # NoHash
      /\ head.height \in Heights /\ blockHashes_[head.height] = head.hash /\ IsInfo(head)
      /\ relay \in RelayRecords /\ ~CommitDue
  <2>1. StageOf("relay") = "idle"
    BY DEF SendersInv, RelayAims, RelayRead, WakeRelay, RelayReadState, RelayReadHash,
           RelayReadLightClientBlock, RelayReadStake
  <2>2. IsInfo(head) /\ blockHashes_[head.height] = head.hash
    BY SharedTypes DEF ChainInv, Committed
  <2> QED BY <2>1, <2>2, InfoFacts, SharedTypes DEF SendersInv, RelayAims, RelayTypes
<1>1. /\ UNCHANGED <<vars, sending>>
      /\ \A k : (IsNext(k)' <=> IsNext(k)) /\ (Replaces(k)' <=> Replaces(k))
      /\ head' = head /\ untrustedHead' = untrustedHead
      /\ StageOf("relay")' = "idle" /\ (RelayBonded' <=> RelayBonded)
  <2>1. UNCHANGED <<vars, sending>>
    BY DEF RelayRead, WakeRelay, RelayReadState, RelayReadHash, RelayReadLightClientBlock,
           RelayReadStake, accountVars
  <2> QED BY <1>0, <2>1 DEF IsNext, Replaces, StageOf, RelayBonded, vars, trustVars,
                            pendingVars, bondVars
<1>2. ASSUME relay'.pc \in {"sleep", "state"}
      PROVE  RelayAims' /\ ~Stale'
  BY <1>0, <1>1, <1>2 DEF RelayAims, Stale
<1>3. CASE WakeRelay
  BY <1>0, <1>2, <1>3 DEF WakeRelay, RelayRecords
<1>4. CASE RelayReadState
  <2>1. /\ relay'.pc = "hash" /\ relay'.height = head.height
        /\ relay'.validAt = (IF InWindow THEN lastValidAt ELSE 0)
        /\ relay'.timestamp = (IF InWindow THEN untrustedHead.timestamp ELSE 0)
    BY <1>0, <1>4 DEF RelayReadState, RelayRecords, EffectiveHead
  <2>2. InWindow => lastValidAt # 0
    BY SharedTypes DEF InWindow
  <2> QED BY <1>0, <1>1, <2>1, <2>2 DEF RelayAims, Stale
<1>5. CASE RelayReadHash
  <2>1. /\ relay'.pc = "light" /\ relay.pc = "hash" /\ relay'.height = relay.height
        /\ relay'.validAt = relay.validAt /\ relay'.timestamp = relay.timestamp
        /\ relay'.hash = BlockHash(relay.height)
    BY <1>0, <1>5 DEF RelayReadHash, RelayRecords
  <2>2. relay.height = head.height
    BY <2>1 DEF SendersInv, RelayAims
  <2>3. relay'.hash = head.hash
    BY <1>0, <2>1, <2>2 DEF BlockHash
  <2> QED BY <1>0, <1>1, <2>1, <2>2, <2>3 DEF RelayAims, Stale
<1>6. CASE RelayReadLightClientBlock
  <2>1. relay.pc = "light" /\ relay.hash = head.hash /\ relay.height = head.height
    BY <1>6 DEF RelayReadLightClientBlock, SendersInv, RelayAims
  <2>2. CASE relay'.pc = "sleep"
    BY <1>2, <2>2
  <2>3. ASSUME KnownToTezos(relay.hash), NEW next, next = NextLightClientBlock(relay.hash),
               relay.height < Chain[next].height, MaySubmit(Chain[next]),
               relay' = [relay EXCEPT !.pc = "stake", !.block = next]
        PROVE  /\ RelayAims'
               /\ InWindow /\ RelayBonded /\ Stale' => Stale
    <3>1. PICK from \in 1 .. tip :
            /\ Chain[from].hash = head.hash /\ next \in 1 .. tip
            /\ Chain[next].epochId \in {Chain[from].epochId, Chain[from].nextEpochId}
      BY <2>1, <2>3, SharedTypes, NextBlock
    <3>2. PICK g \in Blocks : head = Info(g)
      BY <1>0 DEF IsInfo
    <3>3. Chain[from] \in Blocks /\ Chain[next] \in Blocks
      BY <3>1, SharedTypes, ChainFacts
    <3>4. Chain[from].epochId = head.epochId /\ Chain[from].nextEpochId = head.nextEpochId
      <4>1. head.hash = g.hash /\ head.epochId = g.epochId /\ head.nextEpochId = g.nextEpochId
        BY <3>2 DEF Info
      <4> QED BY <3>1, <3>3, <4>1, ChainAssumption
    <3>5. Chain[next].height \in Nat /\ Chain[next].timestamp \in Nat /\ head.height \in Nat
      BY <1>0, <3>3, BlockAssumption, HeightsAreNat DEF BlockRecords
    <3>6. IsNext(next)
      BY <2>1, <2>3, <3>1, <3>4, <3>5 DEF IsNext
    <3>7. relay'.pc = "stake" /\ relay'.block = next
      BY <1>0, <2>3 DEF RelayRecords
    <3>8. RelayAims'
      BY <1>0, <1>1, <3>6, <3>7 DEF RelayAims
    <3>9. ASSUME ~Stale PROVE Replaces(next)
      <4>1. relay.validAt # 0 /\ relay.timestamp = untrustedHead.timestamp
        BY <2>1, <3>9 DEF Stale
      <4>2. relay.timestamp \in Nat /\ ReplaceDuration \in Nat
        BY <1>0, BondAssumption DEF RelayRecords
      <4> QED BY <2>3, <3>5, <4>1, <4>2 DEF MaySubmit, Replaces
    <3>10. Stale' => Stale
      BY <1>1, <3>7, <3>9 DEF Stale
    <3> QED BY <3>8, <3>10
  <2>4. ASSUME NEW d, RelaySleep(d) PROVE relay'.pc = "sleep"
    BY <1>0, <2>4 DEF RelaySleep, RelayRecords
  <2> QED BY <1>6, <2>2, <2>3, <2>4 DEF RelayReadLightClientBlock
<1>7. CASE RelayReadStake
  <2>1. /\ relay.pc = "stake" /\ relay'.block = relay.block
        /\ relay'.pc = IF balanceOf[RelayAccount] = 0 THEN "deposit" ELSE "submit"
    BY <1>0, <1>7 DEF RelayReadStake, RelayRecords
  <2>2. RelayBonded <=> balanceOf[RelayAccount] # 0
    BY SharedTypes, BondAssumption, RelayAssumption DEF TypeOK, RelayBonded
  <2>3. IsNext(relay.block)
    BY <2>1 DEF SendersInv, RelayAims
  <2> QED BY <1>0, <1>1, <2>1, <2>2, <2>3 DEF RelayAims, Stale
<1> QED BY <1>3, <1>4, <1>5, <1>6, <1>7 DEF RelayRead

LEMMA RelayReadKeeps ==
  ASSUME SharedInv, [SharedNext]_allVars, SendersInv, RelayRead \/ WakeRelay
  PROVE  SendersInv'
<1>1. UNCHANGED <<vars, watchdog, accountVars>>
  BY DEF RelayRead, WakeRelay, RelayReadState, RelayReadHash, RelayReadLightClientBlock,
         RelayReadStake
<1>2. RelayAims' /\ (InWindow /\ RelayBonded /\ Stale' => Stale)
  BY RelayReadsAims
<1>3. SendingTyped' /\ (PoolStale' => PoolStale)
  BY <1>1 DEF SendersInv, SendingTyped, PoolStale, Replaces, accountVars, vars, pendingVars
<1> QED BY <1>1, <1>2, <1>3, RelayTurnKeeps DEF accountVars

\* the contract is left alone, and the transaction of the relay moves on
RelaySends ==
  \/ RelayPrepare \/ Send("relay") \/ Receipt("relay") \/ RelayTimeout
  \/ ServiceError("relay")

(* What is sent in vain was about to be; and when the relay gives up or    *)
(* has its receipt, it begins anew, or goes on from deposit to submission. *)
LEMMA RelaySendKeeps ==
  ASSUME SharedInv, [SharedNext]_allVars, SendersInv, RelaySends
  PROVE  SendersInv'
<1>0. /\ sending \in [Senders -> [stage : {"idle", "send", "wait", "mined", "reverted"},
                                  price : Int, fresh : BOOLEAN]]
      /\ relay \in RelayRecords /\ {"relay", "watchdog"} = Senders
      /\ RelayAims
  BY SharedTypes DEF SendersInv, SendingTyped, RelayTypes, Senders
<1>1. /\ UNCHANGED <<vars, watchdog, attempts>>
      /\ \A k : (IsNext(k)' <=> IsNext(k)) /\ (Replaces(k)' <=> Replaces(k))
      /\ head' = head /\ untrustedHead' = untrustedHead /\ (RelayBonded' <=> RelayBonded)
  <2>1. UNCHANGED <<vars, watchdog, attempts>>
    BY DEF RelaySends, RelayPrepare, Send, Receipt, RelayTimeout, GiveUp, ServiceError, Throws,
           RelayThrows, sysVars, procVars
  <2> QED BY <2>1 DEF IsNext, Replaces, RelayBonded, vars, trustVars, pendingVars, bondVars
<1>2. pool' = pool => (PoolStale' => PoolStale)
  BY <1>1 DEF PoolStale
<1>3. ASSUME sending'["watchdog"] = sending["watchdog"],
             sending' \in [Senders -> [stage : {"idle", "send", "wait", "mined", "reverted"},
                                       price : Int, fresh : BOOLEAN]],
             pool' = pool, RelayAims', InWindow /\ RelayBonded /\ Stale' => Stale
      PROVE  SendersInv'
  <2>1. SendingTyped'
    BY <1>0, <1>1, <1>3 DEF SendersInv, SendingTyped
  <2> QED BY <1>1, <1>2, <1>3, <2>1, RelayTurnKeeps
<1>4. ASSUME Stage("relay", "idle"), GiveUp("relay"), pool' = pool
      PROVE  SendersInv'
  <2>1. /\ StageOf("relay")' = "idle" /\ sending'["watchdog"] = sending["watchdog"]
        /\ sending' \in [Senders -> [stage : {"idle", "send", "wait", "mined", "reverted"},
                                     price : Int, fresh : BOOLEAN]]
    BY <1>0, <1>4, StageChanges DEF SendersInv
  <2>2. relay'.pc = "sleep"
    BY <1>0, <1>4 DEF GiveUp, RelaySleep, RelayRecords
  <2>3. RelayAims' /\ ~Stale'
    BY <1>0, <1>1, <2>1, <2>2 DEF RelayAims, Stale
  <2> QED BY <1>3, <1>4, <2>1, <2>3
<1>5. CASE RelayPrepare
  <2>1. PICK price \in Prices :
          sending' = [sending EXCEPT !["relay"] = Prepared(GasMultiplier * price)]
    BY <1>5 DEF RelayPrepare
  <2>2. GasMultiplier * price \in Int
    BY AccountAssumption
  <2>3. /\ sending'["watchdog"] = sending["watchdog"]
        /\ sending' \in [Senders -> [stage : {"idle", "send", "wait", "mined", "reverted"},
                                     price : Int, fresh : BOOLEAN]]
        /\ sending'["relay"] = Prepared(GasMultiplier * price)
    <3>1. PICK x \in Int : x = GasMultiplier * price
      BY <2>2
    <3> QED BY <1>0, <2>1, <3>1 DEF Prepared
  <2>4. /\ relay.pc \in {"deposit", "submit"} /\ StageOf("relay") = "idle"
        /\ relay' = relay /\ pool' = pool /\ StageOf("relay")' = "send"
    BY <1>5, <2>3 DEF RelayPrepare, StageOf, Prepared, sysVars, procVars
  <2>5. RelayAims'
    BY <1>0, <1>1, <2>4 DEF RelayAims
  <2>6. Stale' => Stale
    BY <1>1, <2>4 DEF Stale, AboutToSend
  <2> QED BY <1>3, <2>3, <2>4, <2>5, <2>6
<1>6. CASE Send("relay")
  <2>1. CASE IsRefused("relay") /\ pool' = pool /\ Stage("relay", "idle") /\ GiveUp("relay")
    BY <1>4, <2>1
  <2>2. CASE /\ ~IsRefused("relay") /\ pool' = pool \cup {Transaction("relay")}
             /\ Stage("relay", "wait") /\ UNCHANGED <<relay, watchdog>>
    <3>1. StageOf("relay") = "send" /\ IsFresh("relay")
      BY <1>0, <1>6, <2>2 DEF Send, StageOf, IsFresh, IsRefused
    <3>2. /\ StageOf("relay")' = "wait" /\ sending'["watchdog"] = sending["watchdog"]
          /\ sending' \in [Senders -> [stage : {"idle", "send", "wait", "mined", "reverted"},
                                       price : Int, fresh : BOOLEAN]]
      BY <1>0, <2>2, StageChanges DEF SendersInv
    <3>3. PICK tx : tx = Transaction("relay")
      OBVIOUS
    <3>4. /\ tx.by = "relay" /\ tx.call = relay.pc /\ tx.arg = relay.block
          /\ relay.pc \in {"deposit", "submit"} /\ pool' = pool \cup {tx}
      BY <1>0, <2>2, <3>1, <3>3 DEF Transaction, RelayAims
    <3>5. tx.call = "deposit" \/ (tx.call = "submit" /\ RelayBonded /\ IsNext(tx.arg))
      BY <1>0, <3>4 DEF RelayAims
    <3>6. RelayAims' /\ ~Stale'
      BY <1>0, <1>1, <2>2, <3>2, <3>4 DEF RelayAims, Stale, AboutToSend
    <3>7. PoolStale' => PoolStale \/ Stale
      <4>1. ASSUME NEW y \in pool', y.by = "relay", ~(y.call = "submit" /\ Replaces(y.arg)), y = tx
            PROVE  Stale
        BY <3>1, <3>4, <4>1 DEF Stale, AboutToSend
      <4> QED BY <1>1, <3>4, <4>1 DEF PoolStale
    <3>8. SendingTyped'
      BY <1>0, <1>1, <3>2 DEF SendersInv, SendingTyped
    <3> QED BY <1>1, <3>2, <3>4, <3>5, <3>6, <3>7, <3>8, RelayTurnKeeps
  <2> QED BY <1>6, <2>1, <2>2 DEF Send
<1>7. CASE RelayTimeout
  BY <1>4, <1>7 DEF RelayTimeout
<1>8. CASE Receipt("relay")
  <2>1. CASE sending["relay"].stage = "mined"
    <3>1. /\ StageOf("relay")' = "idle" /\ sending'["watchdog"] = sending["watchdog"]
          /\ sending' \in [Senders -> [stage : {"idle", "send", "wait", "mined", "reverted"},
                                       price : Int, fresh : BOOLEAN]]
      BY <1>0, <1>8, StageChanges DEF SendersInv, Receipt
    <3>2. /\ relay.pc \in {"deposit", "submit"} /\ StageOf("relay") = "mined" /\ pool' = pool
          /\ relay' = [relay EXCEPT !.pc = IF @ = "deposit" THEN "submit" ELSE "state"]
      BY <1>0, <1>8, <2>1 DEF Receipt, StageOf, RelayAims
    <3>3. /\ relay'.pc = IF relay.pc = "deposit" THEN "submit" ELSE "state"
          /\ relay'.block = relay.block
      BY <1>0, <3>2 DEF RelayRecords
    <3>4. RelayAims'
      BY <1>0, <1>1, <3>1, <3>2, <3>3 DEF RelayAims
    <3>5. Stale' => Stale
      BY <1>1, <3>2, <3>3 DEF Stale
    <3> QED BY <1>3, <3>1, <3>2, <3>4, <3>5
  <2>2. CASE sending["relay"].stage # "mined"
    BY <1>4, <1>8, <2>2 DEF Receipt
  <2> QED BY <2>1, <2>2
<1>9. CASE ServiceError("relay")
  <2>0. RelaySleep(RelayErrorDelay) /\ UNCHANGED watchdog /\ Stage("relay", "idle")
    BY <1>9 DEF ServiceError, Throws, RelayThrows
  <2>1. CASE pool' = pool
    BY <1>4, <2>0, <2>1 DEF GiveUp
  <2>2. CASE /\ sending["relay"].stage = "send" /\ ~IsRefused("relay")
             /\ pool' = pool \cup {Transaction("relay")}
    <3>1. StageOf("relay") = "send" /\ IsFresh("relay")
      BY <1>0, <2>2 DEF StageOf, IsFresh, IsRefused
    <3>2. /\ StageOf("relay")' = "idle" /\ sending'["watchdog"] = sending["watchdog"]
          /\ sending' \in [Senders -> [stage : {"idle", "send", "wait", "mined", "reverted"},
                                       price : Int, fresh : BOOLEAN]]
      BY <1>0, <2>0, StageChanges DEF SendersInv
    <3>3. PICK tx : tx = Transaction("relay")
      OBVIOUS
    <3>4. /\ tx.by = "relay" /\ tx.call = relay.pc /\ tx.arg = relay.block
          /\ relay.pc \in {"deposit", "submit"} /\ pool' = pool \cup {tx}
      BY <1>0, <2>2, <3>1, <3>3 DEF Transaction, RelayAims
    <3>5. tx.call = "deposit" \/ (tx.call = "submit" /\ RelayBonded /\ IsNext(tx.arg))
      BY <1>0, <3>4 DEF RelayAims
    <3>6. relay'.pc = "sleep"
      BY <1>0, <2>0 DEF RelaySleep, RelayRecords
    <3>7. RelayAims' /\ ~Stale'
      BY <1>0, <1>1, <3>2, <3>6 DEF RelayAims, Stale
    <3>8. PoolStale' => PoolStale \/ Stale
      <4>1. ASSUME NEW y \in pool', y.by = "relay", ~(y.call = "submit" /\ Replaces(y.arg)), y = tx
            PROVE  Stale
        BY <3>1, <3>4, <4>1 DEF Stale, AboutToSend
      <4> QED BY <1>1, <3>4, <4>1 DEF PoolStale
    <3>9. SendingTyped'
      BY <1>0, <1>1, <3>2 DEF SendersInv, SendingTyped
    <3> QED BY <1>1, <3>2, <3>4, <3>5, <3>7, <3>8, <3>9, RelayTurnKeeps
  <2> QED BY <1>9, <2>1, <2>2 DEF ServiceError
<1> QED BY <1>5, <1>6, <1>7, <1>8, <1>9 DEF RelaySends

-----------------------------------------------------------------------------
(* The watchdog's steps.  It wakes up when nothing waits any more, and so  *)
(* does not begin the next challenge before the last one was paid for.     *)
WatchdogReads == WakeWatchdog \/ WatchdogRead

LEMMA WatchdogReadKeeps ==
  ASSUME SharedInv, [SharedNext]_allVars, SendersInv, WatchdogReads
  PROVE  SendersInv'
<1>0. /\ WatchdogTypeOK /\ WatchdogAims
      /\ UNCHANGED <<vars, relay, accountVars>>
  BY SharedTypes DEF SendersInv, WatchdogReads, WakeWatchdog, WatchdogRead, WatchdogReadState,
                     WatchdogCheck
<1>1. UNCHANGED <<sending, pool, attempts>> /\ StageOf("watchdog")' = StageOf("watchdog")
      /\ (IsFresh("watchdog")' <=> IsFresh("watchdog"))
  BY <1>0 DEF accountVars, StageOf, IsFresh
<1>2. watchdog.pc \in {"sleep", "state", "check"} /\ (watchdog.pc = "sleep" => pool = {})
  BY DEF WatchdogReads, WakeWatchdog, WatchdogRead, WatchdogReadState, WatchdogCheck
<1>3. StageOf("watchdog") = "idle" /\ ~Undisturbed
  BY <1>0, <1>2 DEF WatchdogAims, Undisturbed
<1>4. watchdog'.pc = "challenge" => SignatureFails(watchdog'.index)
  <2> SUFFICES ASSUME watchdog'.pc = "challenge" PROVE SignatureFails(watchdog'.index)
    OBVIOUS
  <2>1. WatchdogCheck
    BY <1>0 DEF WatchdogReads, WakeWatchdog, WatchdogRead, WatchdogReadState, WatchdogSleep,
                WatchdogTypeOK
  <2>2. watchdog' = [watchdog EXCEPT !.pc = "challenge"] /\ SignatureFails(watchdog.index)
    BY <1>0, <2>1 DEF WatchdogCheck, WatchdogSleep, SkipSignature, WatchdogTypeOK
  <2>3. watchdog'.index = watchdog.index
    BY <1>0, <2>2 DEF WatchdogTypeOK
  <2> QED BY <2>2, <2>3
<1>5. SendingTyped' /\ WatchdogAims'
  BY <1>1, <1>3 DEF SendersInv, SendingTyped, WatchdogAims
<1>6. pool' = {} \/ (watchdog.pc # "sleep" /\ pool' = pool)
  BY <1>1, <1>2
<1>7. sending'["relay"] = sending["relay"] /\ pool' \ pool = {} /\ pool \subseteq pool'
  BY <1>1
<1> QED BY <1>0, <1>1, <1>3, <1>4, <1>5, <1>6, <1>7, WatchdogTurnKeeps

\* its transaction moves on
WatchdogSends ==
  Send("watchdog") \/ Receipt("watchdog") \/ SlowChallenge

LEMMA WatchdogSendKeeps ==
  ASSUME SharedInv, [SharedNext]_allVars, SendersInv, WatchdogSends
  PROVE  SendersInv'
<1>0. /\ sending \in [Senders -> [stage : {"idle", "send", "wait", "mined", "reverted"},
                                  price : Int, fresh : BOOLEAN]]
      /\ WatchdogTypeOK /\ {"relay", "watchdog"} = Senders /\ WatchdogAims
      /\ UNCHANGED <<vars, relay, attempts>>
  BY SharedTypes DEF SendersInv, SendingTyped, Senders, WatchdogSends, Send, Receipt, SlowChallenge,
                     GiveUp
<1>1. watchdog.pc = "challenge" /\ StageOf("watchdog") # "idle"
  BY <1>0 DEF WatchdogSends, Send, Receipt, SlowChallenge, StageOf, WatchdogAims
<1>2. ASSUME Stage("watchdog", "idle"), WatchdogSleep(WatchdogDelay), pool' = pool,
             Undisturbed => pool # {}
      PROVE  SendersInv'
  <2>1. /\ StageOf("watchdog")' = "idle" /\ sending'["relay"] = sending["relay"]
        /\ sending' \in [Senders -> [stage : {"idle", "send", "wait", "mined", "reverted"},
                                     price : Int, fresh : BOOLEAN]]
    BY <1>0, <1>2, StageChanges DEF SendersInv
  <2>2. watchdog'.pc = "sleep"
    BY <1>0, <1>2 DEF WatchdogSleep, WatchdogTypeOK
  <2>3. SendingTyped' /\ WatchdogAims' /\ (Undisturbed => Undisturbed')
    BY <1>0, <1>2, <2>1, <2>2 DEF SendersInv, SendingTyped, WatchdogAims, Undisturbed
  <2>4. pool' \ pool = {} /\ pool \subseteq pool'
    BY <1>2
  <2> QED BY <1>0, <2>1, <2>2, <2>3, <2>4, WatchdogTurnKeeps
<1>3. ASSUME UNCHANGED watchdog, StageOf("watchdog")' # "idle",
             sending'["relay"] = sending["relay"],
             sending' \in [Senders -> [stage : {"idle", "send", "wait", "mined", "reverted"},
                                       price : Int, fresh : BOOLEAN]],
             WatchdogAims', Undisturbed => Undisturbed', pool \subseteq pool',
             \A tx \in pool' \ pool :
               tx.by = "watchdog" /\ tx.call = "challenge" /\ tx.arg = watchdog.index
      PROVE  SendersInv'
  <2>1. SendingTyped'
    BY <1>0, <1>3 DEF SendersInv, SendingTyped
  <2> QED BY <1>0, <1>1, <1>3, <2>1, WatchdogTurnKeeps
<1>4. CASE Send("watchdog")
  <2>1. CASE /\ IsRefused("watchdog") /\ pool' = pool /\ Stage("watchdog", "idle")
             /\ GiveUp("watchdog")
    <3>1. Undisturbed => pool # {}
      BY <1>0, <1>1, <2>1 DEF Undisturbed, IsRefused, IsFresh
    <3> QED BY <1>2, <2>1, <3>1 DEF GiveUp
  <2>2. CASE /\ ~IsRefused("watchdog") /\ pool' = pool \cup {Transaction("watchdog")}
             /\ Stage("watchdog", "wait") /\ UNCHANGED <<relay, watchdog>>
    <3>1. /\ StageOf("watchdog")' = "wait" /\ sending'["relay"] = sending["relay"]
          /\ sending'["watchdog"].fresh = sending["watchdog"].fresh
          /\ sending' \in [Senders -> [stage : {"idle", "send", "wait", "mined", "reverted"},
                                       price : Int, fresh : BOOLEAN]]
      BY <1>0, <2>2, StageChanges DEF SendersInv
    <3>2. PICK tx : tx = Transaction("watchdog")
      OBVIOUS
    <3>3. /\ tx.by = "watchdog" /\ tx.call = "challenge" /\ tx.arg = watchdog.index
          /\ pool' = pool \cup {tx}
      BY <1>1, <2>2, <3>2 DEF Transaction
    <3>4. WatchdogAims' /\ (Undisturbed => Undisturbed')
      BY <1>0, <1>1, <2>2, <3>1, <3>3 DEF WatchdogAims, Undisturbed, IsFresh
    <3> QED BY <1>3, <2>2, <3>1, <3>3, <3>4
  <2> QED BY <1>4, <2>1, <2>2 DEF Send
<1>5. CASE Receipt("watchdog")
  <2>1. ~Undisturbed
    BY <1>1, <1>5 DEF Receipt, Undisturbed, StageOf
  <2> QED BY <1>2, <1>5, <2>1 DEF Receipt, GiveUp
<1>6. CASE SlowChallenge
  <2>1. StageOf("watchdog") = "wait" /\ pool' = pool
    BY <1>6 DEF SlowChallenge, StageOf
  <2>2. CASE /\ UNCHANGED watchdog
             /\ sending' = [sending EXCEPT !["watchdog"].stage = "send",
                                           !["watchdog"].price = Doubled]
    <3>1. PICK x \in Int : x = Doubled
      BY <1>0 DEF Doubled
    <3>2. /\ StageOf("watchdog")' = "send" /\ sending'["relay"] = sending["relay"]
          /\ sending'["watchdog"].fresh = sending["watchdog"].fresh
          /\ sending' \in [Senders -> [stage : {"idle", "send", "wait", "mined", "reverted"},
                                       price : Int, fresh : BOOLEAN]]
      BY <1>0, <2>2, <3>1 DEF StageOf
    <3>3. WatchdogAims' /\ (Undisturbed => Undisturbed')
      BY <1>0, <1>1, <2>1, <2>2, <3>2 DEF WatchdogAims, Undisturbed, IsFresh
    <3> QED BY <1>3, <2>1, <2>2, <3>2, <3>3
  <2>3. CASE Stage("watchdog", "idle") /\ WatchdogSleep(WatchdogDelay)
    <3>1. Undisturbed => pool # {}
      BY <1>0, <1>1, <2>1 DEF Undisturbed, WatchdogAims
    <3> QED BY <1>2, <2>1, <2>3, <3>1
  <2> QED BY <1>6, <2>2, <2>3 DEF SlowChallenge
<1> QED BY <1>4, <1>5, <1>6 DEF WatchdogSends

(* A call of the watchdog throws, and the challenge with it: one error more*)
(* makes up for one challenge in vain.                                     *)
LEMMA WatchdogErrorKeeps ==
  ASSUME SharedInv, [SharedNext]_allVars, SendersInv, ServiceError("watchdog")
  PROVE  SendersInv'
<1>0. /\ sending \in [Senders -> [stage : {"idle", "send", "wait", "mined", "reverted"},
                                  price : Int, fresh : BOOLEAN]]
      /\ WatchdogTypeOK /\ {"relay", "watchdog"} = Senders /\ WatchdogAims
      /\ UNCHANGED <<vars, relay, attempts>> /\ errors' = errors + 1
      /\ Stage("watchdog", "idle") /\ watchdog.pc # "sleep"
  BY SharedTypes DEF SendersInv, SendingTyped, Senders, ServiceError, Throws, WatchdogError
<1>1. /\ StageOf("watchdog")' = "idle" /\ sending'["relay"] = sending["relay"]
      /\ sending' \in [Senders -> [stage : {"idle", "send", "wait", "mined", "reverted"},
                                   price : Int, fresh : BOOLEAN]]
  BY <1>0, StageChanges DEF SendersInv
<1>2. watchdog'.pc = "sleep"
  BY <1>0 DEF ServiceError, Throws, WatchdogError, WatchdogSleep, WatchdogTypeOK
<1>3. SendingTyped' /\ WatchdogAims'
  BY <1>0, <1>1, <1>2 DEF SendersInv, SendingTyped, WatchdogAims
<1>4. /\ pool \subseteq pool'
      /\ \A tx \in pool' \ pool :
           /\ tx.by = "watchdog" /\ tx.call = "challenge" /\ tx.arg = watchdog.index
           /\ watchdog.pc = "challenge"
  <2>1. CASE pool' = pool
    BY <2>1
  <2>2. CASE sending["watchdog"].stage = "send" /\ pool' = pool \cup {Transaction("watchdog")}
    <3>1. watchdog.pc = "challenge"
      BY <1>0, <2>2 DEF WatchdogAims, StageOf
    <3>2. PICK tx : tx = Transaction("watchdog")
      OBVIOUS
    <3>3. tx.by = "watchdog" /\ tx.call = "challenge" /\ tx.arg = watchdog.index
      BY <3>1, <3>2 DEF Transaction
    <3> QED BY <2>2, <3>1, <3>2, <3>3
  <2> QED BY <2>1, <2>2 DEF ServiceError
<1> QED BY <1>0, <1>1, <1>2, <1>3, <1>4, WatchdogTurnKeeps

(* The challenge before it was paid for, so this one may be counted.       *)
LEMMA WatchdogPrepareKeeps ==
  ASSUME SharedInv, [SharedNext]_allVars, SendersInv, WatchdogPrepare
  PROVE  SendersInv'
<1>0. /\ sending \in [Senders -> [stage : {"idle", "send", "wait", "mined", "reverted"},
                                  price : Int, fresh : BOOLEAN]]
      /\ {"relay", "watchdog"} = Senders /\ attempts \in Nat
      /\ UNCHANGED <<vars, tip, relay, watchdog, pool>>
      /\ watchdog.pc = "challenge" /\ StageOf("watchdog") = "idle"
  BY DEF SendersInv, SendingTyped, Senders, WatchdogPrepare, sysVars, procVars, StageOf
<1>1. PICK price \in Int : sending' = [sending EXCEPT !["watchdog"] = Prepared(price)]
  <2>1. Prices \subseteq Int
    BY AccountAssumption
  <2> QED BY <2>1 DEF WatchdogPrepare
<1>2. /\ StageOf("watchdog")' = "send" /\ sending'["watchdog"].fresh = TRUE
      /\ sending'["relay"] = sending["relay"]
      /\ sending' \in [Senders -> [stage : {"idle", "send", "wait", "mined", "reverted"},
                                   price : Int, fresh : BOOLEAN]]
  BY <1>0, <1>1 DEF StageOf, Prepared
<1>3. WatchdogAims' /\ Undisturbed' /\ ~Undisturbed
  BY <1>0, <1>2 DEF WatchdogAims, Undisturbed, IsFresh
<1>4. attempts' = (IF InWindow /\ SignatureFails(watchdog.index) THEN attempts + 1 ELSE attempts)
  BY DEF WatchdogPrepare
<1>5. SendingTyped'
  BY <1>0, <1>2, <1>4 DEF SendingTyped
<1>6. /\ \A k : (IsNext(k)' <=> IsNext(k)) /\ (Replaces(k)' <=> Replaces(k))
      /\ RelayBonded' <=> RelayBonded
      /\ untrustedHead' = untrustedHead /\ head' = head
      /\ StageOf("relay")' = StageOf("relay") /\ (IsFresh("relay")' <=> IsFresh("relay"))
      /\ (AboutToSend' <=> AboutToSend)
  BY <1>0, <1>2 DEF IsNext, Replaces, RelayBonded, vars, trustVars, pendingVars, bondVars,
                    StageOf, IsFresh, AboutToSend
<1>7. RelayAims'
  BY <1>0, <1>6 DEF SendersInv, RelayAims
<1>8. \A tx \in pool : tx.by # "watchdog"
  BY <1>0 DEF SendersInv, PoolOwners
<1>9. PoolOwners'
  <2>1. \A tx \in pool : \/ tx.by = "relay" /\ tx.call = "deposit"
                         \/ tx.by = "relay" /\ tx.call = "submit" /\ RelayBonded' /\ IsNext(tx.arg)'
    BY <1>6, <1>8 DEF SendersInv, PoolOwners
  <2> QED BY <1>0, <2>1 DEF PoolOwners
<1>10. CountInv'
  <2> SUFFICES ASSUME attempts' > 0
               PROVE  /\ InWindow' /\ \E i \in DOMAIN PendingProducers' : SignatureFails(i)'
                      /\ watchdog'.pc = "challenge" => SignatureFails(watchdog.index)'
                      /\ \A tx \in pool' : tx.by = "watchdog" => SignatureFails(tx.arg)'
                      /\ attempts' + Left' <= 2 + One(Undisturbed') + errors'
    BY DEF CountInv
  <2>1. InWindow /\ SignatureFails(watchdog.index) /\ attempts' = attempts + 1
    BY <1>0, <1>4 DEF SendersInv, CountInv
  <2>2. /\ InWindow' /\ SignatureFails(watchdog.index)'
        /\ \E i \in DOMAIN PendingProducers' : SignatureFails(i)'
    BY <1>0, <2>1 DEF InWindow, SignatureFails, PendingProducers, Approval,
                      vars, trustVars, pendingVars
  <2>0. errors \in Nat /\ errors' = errors
    BY SharedTypes DEF WatchdogPrepare, sysVars, procVars
  <2>3. attempts + Left <= 2 + errors
    <3>1. attempts > 0 => attempts + Left <= 2 + One(Undisturbed) + errors
      BY DEF SendersInv, CountInv
    <3>2. One(Undisturbed) = 0 /\ Left \in 0 .. 2 /\ errors \in Nat
      BY <1>3, <2>0, LeftIs DEF One
    <3> HIDE DEF Left
    <3> QED BY <1>0, <3>1, <3>2
  <2>4. Left' <= Left
    <3>1. Stale' <=> Stale
      BY <1>0, <1>6 DEF Stale, Replaces
    <3>2. PoolStale' => PoolStale
      BY <1>0, <1>6 DEF PoolStale
    <3> QED BY <1>6, <3>1, <3>2, LeftShrinks
  <2>5. attempts' + Left' <= 2 + One(Undisturbed') + errors'
    <3>1. One(Undisturbed') = 1
      BY <1>3 DEF One
    <3>2. PICK l, m \in Int : l = Left /\ m = Left'
      BY DEF Left, One
    <3>3. attempts + l <= 2 + errors
      BY <2>3, <3>2
    <3>4. m <= l
      BY <2>4, <3>2
    <3>5. attempts' = attempts + 1 /\ attempts \in Nat
      BY <1>0, <2>1
    <3>6. attempts' + m <= 2 + 1 + errors'
      BY <2>0, <3>3, <3>4, <3>5
    <3> QED BY <3>1, <3>2, <3>6
  <2>6. \A tx \in pool' : tx.by = "watchdog" => SignatureFails(tx.arg)'
    BY <1>0, <1>8
  <2> QED BY <2>2, <2>5, <2>6
<1> QED BY <1>3, <1>5, <1>7, <1>9, <1>10 DEF SendersInv

-----------------------------------------------------------------------------
(* The contract takes from the relay a block that replaces the wrong one:  *)
(* Tezos gives out blocks with the votes of the elected producers.         *)
LEMMA RelayMaySubmit ==
  ASSUME SharedInv, RelayAims, RelayBonded, NEW k \in 1 .. tip, IsNext(k), Replaces(k)
  PROVE  MayAddLightClientBlock(Chain[k])
<1>1. k \in DOMAIN Chain /\ Chain[k] \in Blocks
  BY SharedTypes, ChainFacts
<1>2. balanceOf[RelayAccount] >= LockEthAmount
  BY SharedTypes, BondAssumption, RelayAssumption DEF TypeOK, RelayBonded
<1>3. /\ currentBlockProducers = Validators[head.epochId]
      /\ nextBlockProducers = Validators[head.nextEpochId]
  BY SharedTypes DEF ElectedInv, ElectedCommitted
<1>4. CheckBp(Validators[Chain[k].epochId], Chain[k].approvals)
      /\ (Chain[k].epochId # Chain[1].epochId => NextBpsAnnounced(Chain[k]))
  BY <1>1, LightClientBlocks
<1>5. head.epochId = Chain[1].epochId
  BY DEF RelayAims, Info
<1> QED BY <1>2, <1>3, <1>4, <1>5 DEF MayAddLightClientBlock, IsNext, Replaces

(* After the relay's submission no signature is wrong any more, so that    *)
(* the pending block is another one.                                       *)
LEMMA SubmissionReplaces ==
  ASSUME SharedInv, SharedInv', NEW k \in DOMAIN Chain,
         AddLightClientBlock(RelayAccount, Chain[k]), SamePendingBlock, InWindow,
         NEW i \in DOMAIN PendingProducers, SignatureFails(i)
  PROVE  FALSE
<1>1. lastValidAt # 0 /\ PendingProducers' = PendingProducers
      /\ PendingProducers = Validators[untrustedHead.epochId]
      /\ PendingProducers \in ProducerLists /\ Chain[k].approvals \in Seq(Approvals)
  <2>1. lastValidAt # 0
    BY SharedTypes DEF InWindow
  <2>2. Chain[k].approvals \in Seq(Approvals)
    BY ChainFacts, BlockAssumption DEF BlockRecords
  <2>3. PendingProducers \in ProducerLists
    BY SharedTypes DEF TypeOK, PendingProducers
  <2> QED BY <2>1, <2>2, <2>3, SameSignatures DEF SharedInv, ElectedInv, ElectedPending
<1>2. PICK fromNext \in BOOLEAN :
        /\ CheckBp(IF fromNext THEN nextBlockProducers' ELSE currentBlockProducers',
                   Chain[k].approvals)
        /\ ParkBlock(RelayAccount, Chain[k], fromNext)
  BY DEF AddLightClientBlock
<1>3. /\ untrustedHead = Info(Chain[k]) /\ untrustedHeadIsFromNextEpoch' = fromNext
      /\ untrustedApprovals = Overwrite(untrustedApprovals, Chain[k].approvals)
  BY <1>2 DEF ParkBlock, SamePendingBlock
<1>4. CheckBp(PendingProducers, Chain[k].approvals)
  BY <1>1, <1>2, <1>3 DEF PendingProducers
<1>5. i \in DOMAIN Chain[k].approvals
  <2>1. /\ DOMAIN PendingProducers = 1 .. Len(PendingProducers) /\ Len(PendingProducers) \in Nat
        /\ DOMAIN Chain[k].approvals = 1 .. Len(Chain[k].approvals)
        /\ Len(Chain[k].approvals) \in Nat
    BY <1>1 DEF ProducerLists
  <2> QED BY <1>4, <2>1 DEF CheckBp
<1>6. Approval(i) = Chain[k].approvals[i]
  BY <1>3, <1>5 DEF Approval, Overwrite
<1>7. PendingProducers = Validators[Chain[k].epochId]
  BY <1>1, <1>3 DEF Info
<1>8. Chain[k].approvals[i] \in {None, PendingProducers[i].key}
  BY <1>7, SystemAssumption
<1> QED BY <1>6, <1>8 DEF SignatureFails

-----------------------------------------------------------------------------
(* Mining uses up the nonce of all that waits and moves on at most the     *)
(* transaction mined, of whoever sent it.                                  *)
LEMMA MinedStages ==
  ASSUME SendersInv, NEW tx \in pool, NEW outcome \in {"mined", "reverted"}, Mined(tx, outcome),
         UNCHANGED <<relay, watchdog>>
  PROVE  /\ sending' \in [Senders -> [stage : {"idle", "send", "wait", "mined", "reverted"},
                                      price : Int, fresh : BOOLEAN]]
         /\ \A p \in Senders :
              /\ ~IsFresh(p)'
              /\ \/ StageOf(p)' = StageOf(p)
                 \/ StageOf(p) = "wait" /\ StageOf(p)' = outcome /\ Transaction(p) = tx
<1>0. /\ sending \in [Senders -> [stage : {"idle", "send", "wait", "mined", "reverted"},
                                  price : Int, fresh : BOOLEAN]]
  BY DEF SendersInv, SendingTyped
<1>1. ASSUME NEW p \in Senders
      PROVE  /\ sending'[p] \in [stage : {"idle", "send", "wait", "mined", "reverted"},
                                 price : Int, fresh : BOOLEAN]
             /\ sending'[p].fresh = FALSE
             /\ \/ sending'[p].stage = sending[p].stage
                \/ sending[p].stage = "wait" /\ sending'[p].stage = outcome /\ Transaction(p) = tx
  <2>1. PICK x \in {"idle", "send", "wait", "mined", "reverted"} :
          /\ x = IF sending[p].stage = "wait" /\ Transaction(p) = tx THEN outcome
                                                                    ELSE sending[p].stage
    BY <1>0
  <2>2. sending'[p] = [sending[p] EXCEPT !.fresh = FALSE, !.stage = x]
    BY <2>1 DEF Mined
  <2>3. /\ sending'[p] \in [stage : {"idle", "send", "wait", "mined", "reverted"},
                            price : Int, fresh : BOOLEAN]
        /\ sending'[p].fresh = FALSE /\ sending'[p].stage = x
    <3>1. PICK r \in [stage : {"idle", "send", "wait", "mined", "reverted"},
                      price : Int, fresh : BOOLEAN] :
            sending'[p] = [r EXCEPT !.fresh = FALSE, !.stage = x]
      BY <1>0, <2>2
    <3>2. /\ [r EXCEPT !.fresh = FALSE, !.stage = x]
                \in [stage : {"idle", "send", "wait", "mined", "reverted"},
                     price : Int, fresh : BOOLEAN]
          /\ [r EXCEPT !.fresh = FALSE, !.stage = x].fresh = FALSE
          /\ [r EXCEPT !.fresh = FALSE, !.stage = x].stage = x
      OBVIOUS
    <3> QED BY <3>1, <3>2
  <2>4. CASE sending[p].stage = "wait" /\ Transaction(p) = tx
    BY <2>1, <2>3, <2>4
  <2>5. CASE ~(sending[p].stage = "wait" /\ Transaction(p) = tx)
    BY <2>1, <2>3, <2>5
  <2> QED BY <2>4, <2>5
<1>2. sending' = [p \in Senders |-> sending'[p]]
  BY DEF Mined
<1> QED BY <1>1, <1>2 DEF StageOf, IsFresh

\* mining tx, with what became of it
Mining(tx, outcome) ==
  /\ \/ outcome = "mined" /\ Execute(tx)
     \/ outcome = "reverted" /\ Reverts(tx) /\ UNCHANGED vars
  /\ Mined(tx, outcome) /\ pool' = {} /\ UNCHANGED procVars

LEMMA MinedAims ==
  ASSUME SharedInv, [SharedNext]_allVars, SendersInv,
         NEW tx \in pool, NEW outcome \in {"mined", "reverted"}, Mining(tx, outcome)
  PROVE  RelayAims' /\ WatchdogAims'
<1>0. UNCHANGED <<relay, watchdog>> /\ "relay" \in Senders /\ "watchdog" \in Senders
      /\ Mined(tx, outcome)
  BY DEF Mining, procVars, Senders
<1>1. \A p \in Senders :
        /\ ~IsFresh(p)'
        /\ \/ StageOf(p)' = StageOf(p)
           \/ StageOf(p) = "wait" /\ StageOf(p)' = outcome /\ Transaction(p) = tx
  BY <1>0, MinedStages
<1>2. RelayAims /\ WatchdogAims
  BY DEF SendersInv
<1>3. StageOf("relay")' = "mined" => RelayBonded'
  <2>1. CASE StageOf("relay") = "mined"
    BY <1>2, <2>1, HeadStays DEF RelayAims
  <2>2. CASE outcome = "mined" /\ Transaction("relay") = tx /\ StageOf("relay") = "wait"
    <3>1. tx.call = relay.pc /\ relay.pc \in {"deposit", "submit"}
      BY <1>2, <2>2 DEF Transaction, RelayAims
    <3>2. CASE relay.pc = "submit"
      BY <1>2, <3>2, HeadStays DEF RelayAims
    <3>3. CASE relay.pc = "deposit"
      <4>1. Deposit(RelayAccount)
        BY <2>2, <3>1, <3>3 DEF Mining, Execute
      <4>2. balanceOf \in [Accounts -> {0, LockEthAmount}] /\ LockEthAmount \in Nat \ {0}
            /\ RelayAccount \in Accounts
        BY SharedTypes, BondAssumption, RelayAssumption DEF TypeOK
      <4> QED BY <4>1, <4>2 DEF Deposit, MayDeposit, RelayBonded
    <3> QED BY <3>1, <3>2, <3>3
  <2> QED BY <1>0, <1>1, <2>1, <2>2
<1>4. RelayAims'
  <2>1. head' = head /\ (\A k : IsNext(k)' <=> IsNext(k)) /\ (RelayBonded => RelayBonded')
    BY HeadStays
  <2>2. StageOf("relay")' # "idle" => StageOf("relay") # "idle"
    BY <1>0, <1>1
  <2> QED BY <1>0, <1>2, <1>3, <2>1, <2>2 DEF RelayAims
<1>5. WatchdogAims'
  <2>1. ~IsFresh("watchdog")' /\ (StageOf("watchdog")' # "idle" => StageOf("watchdog") # "idle")
    BY <1>0, <1>1
  <2> QED BY <1>0, <1>2, <2>1 DEF WatchdogAims
<1> QED BY <1>4, <1>5

(* Whatever is mined while the wrong block stays was one of the relay's    *)
(* transactions in vain.                                                   *)
LEMMA MinePays ==
  ASSUME SharedInv, SharedInv', [SharedNext]_allVars, SendersInv, attempts > 0, SamePendingBlock,
         NEW tx \in pool, NEW outcome \in {"mined", "reverted"}, Mining(tx, outcome)
  PROVE  Left' + 1 <= Left
<1>0. /\ UNCHANGED <<relay, watchdog>> /\ "relay" \in Senders /\ pool' = {}
      /\ Mined(tx, outcome) /\ untrustedHead' = untrustedHead
  BY DEF Mining, procVars, Senders, SamePendingBlock
<1>1. /\ InWindow /\ \E i \in DOMAIN PendingProducers : SignatureFails(i)
      /\ tx.by = "watchdog" => SignatureFails(tx.arg)
  BY DEF SendersInv, CountInv
<1>2. balanceOf \in [Accounts -> {0, LockEthAmount}] /\ LockEthAmount \in Nat \ {0}
      /\ RelayAccount \in Accounts /\ lastValidAt # 0
  BY <1>1, SharedTypes, BondAssumption, RelayAssumption DEF TypeOK, InWindow
<1>3. tx.by # "watchdog"
  <2> SUFFICES ASSUME tx.by = "watchdog" PROVE FALSE
    OBVIOUS
  <2>1. tx.call = "challenge"
    BY DEF SendersInv, PoolOwners
  <2>2. Challenge(tx.arg)
    BY <1>1, <2>1 DEF Mining, Reverts, Execute
  <2> QED BY <1>2, <2>2 DEF Challenge, PayRewardAndRollBack, NoWindow, SamePendingBlock
<1>4. \/ tx.call = "deposit"
      \/ tx.call = "submit" /\ RelayBonded /\ IsNext(tx.arg)
  BY <1>3 DEF SendersInv, PoolOwners
<1>5. tx.by = "relay"
  BY <1>3 DEF SendersInv, PoolOwners
<1>6. /\ ~IsFresh("relay")'
      /\ \/ StageOf("relay")' = StageOf("relay")
         \/ StageOf("relay") = "wait" /\ StageOf("relay")' = outcome /\ Transaction("relay") = tx
  BY <1>0, MinedStages
<1>7. ~PoolStale'
  BY <1>0 DEF PoolStale
<1>8. CASE ~RelayBonded
  <2>1. Deposit(RelayAccount)
    BY <1>2, <1>4, <1>8 DEF Mining, Reverts, Execute, MayDeposit, RelayBonded
  <2>2. RelayBonded'
    BY <1>2, <2>1 DEF Deposit, MayDeposit, RelayBonded
  <2> QED BY <1>7, <1>8, <2>2 DEF Left, One
<1>9. CASE RelayBonded
  <2>1. RelayBonded'
    BY <1>9, HeadStays
  <2>2. PoolStale
    <3> SUFFICES ASSUME tx.call = "submit", Replaces(tx.arg) PROVE FALSE
      BY <1>4, <1>5 DEF PoolStale
    <3>1. PICK k \in 1 .. tip : k = tx.arg
      BY SharedTypes DEF PoolInv
    <3>2. IsNext(k) /\ Replaces(k)
      BY <1>4, <3>1
    <3>3. MayAddLightClientBlock(Chain[k])
      BY <1>9, <3>2, RelayMaySubmit DEF SendersInv
    <3>4. AddLightClientBlock(RelayAccount, Chain[k])
      BY <3>1, <3>3 DEF Mining, Reverts, Execute
    <3>5. k \in DOMAIN Chain
      BY SharedTypes
    <3> QED BY <1>1, <3>4, <3>5, SubmissionReplaces
  <2>3. Stale' => Stale
    <3>1. ~(StageOf("relay")' = "mined" /\ StageOf("relay") # "mined" /\ relay.pc = "deposit")
      <4> SUFFICES ASSUME outcome = "mined", Transaction("relay") = tx, relay.pc = "deposit"
                   PROVE  FALSE
        BY <1>6
      <4>1. tx.call = "deposit"
        BY DEF Transaction
      <4>2. Deposit(RelayAccount)
        BY <4>1 DEF Mining, Execute
      <4> QED BY <1>2, <1>9, <4>2 DEF Deposit, MayDeposit, RelayBonded
    <3>2. AboutToSend' => AboutToSend
      BY <1>6 DEF AboutToSend
    <3> QED BY <1>0, <3>1, <3>2 DEF Stale, Replaces
  <2> QED BY <1>7, <1>9, <2>1, <2>2, <2>3 DEF Left, One
<1> QED BY <1>8, <1>9

LEMMA MineKeeps ==
  ASSUME SharedInv, [SharedNext]_allVars, SendersInv, Mine
  PROVE  SendersInv'
<1>1. PICK done \in pool, outcome \in {"mined", "reverted"} : Mining(done, outcome)
  BY DEF Mine, Mining
<1>2. /\ UNCHANGED <<relay, watchdog>> /\ Mined(done, outcome) /\ pool' = {} /\ SharedInv'
  BY <1>1, NextSharedInv DEF Mining, procVars
<1>3. attempts' = (IF SamePendingBlock THEN attempts ELSE 0)
  BY DEF Mine, Recount, SamePendingBlock
<1>4. SendingTyped'
  BY <1>2, <1>3, MinedStages DEF SendersInv, SendingTyped
<1>5. RelayAims' /\ WatchdogAims'
  BY <1>1, MinedAims
<1>6. PoolOwners'
  BY <1>2 DEF PoolOwners
<1>7. ASSUME attempts' > 0
      PROVE  /\ InWindow' /\ \E i \in DOMAIN PendingProducers' : SignatureFails(i)'
             /\ watchdog'.pc = "challenge" => SignatureFails(watchdog.index)'
             /\ \A tx \in pool' : tx.by = "watchdog" => SignatureFails(tx.arg)'
             /\ attempts' + Left' <= 2 + One(Undisturbed') + errors'
  <2>1. SamePendingBlock /\ attempts' = attempts /\ attempts > 0
    BY <1>3, <1>7
  <2>2. /\ InWindow' /\ \E i \in DOMAIN PendingProducers' : SignatureFails(i)'
        /\ watchdog'.pc = "challenge" => SignatureFails(watchdog.index)'
        /\ \A tx \in pool' : tx.by = "watchdog" => SignatureFails(tx.arg)'
    BY <1>2, <2>1, WrongStays
  <2>3. attempts' + Left' <= 2 + One(Undisturbed') + errors'
    <3>1. Left' + 1 <= Left
      BY <1>1, <1>2, <2>1, MinePays
    <3>2. attempts + Left <= 2 + One(Undisturbed) + errors
      BY <2>1 DEF SendersInv, CountInv
    <3>3. PICK l, m, u, v \in Int : l = Left /\ m = Left' /\ u = One(Undisturbed)
                                    /\ v = One(Undisturbed')
      BY DEF Left, One
    <3>4. u <= 1 /\ v >= 0
      BY <3>3 DEF One
    <3>5. attempts + l <= 2 + u + errors
      BY <3>2, <3>3
    <3>6. m + 1 <= l
      BY <3>1, <3>3
    <3>7. attempts \in Nat /\ errors \in Nat /\ errors' = errors
      BY <1>1, SharedTypes DEF SendersInv, SendingTyped, Mining, procVars
    <3>8. attempts + m <= 2 + v + errors
      BY <3>4, <3>5, <3>6, <3>7
    <3>9. attempts' + m <= 2 + v + errors'
      BY <2>1, <3>7, <3>8
    <3> QED BY <3>3, <3>9
  <2> QED BY <2>2, <2>3
<1>8. CountInv'
  BY <1>7 DEF CountInv
<1> QED BY <1>4, <1>5, <1>6, <1>8 DEF SendersInv

(* While the services do nothing the other submitter may replace the       *)
(* pending block, and Tezos may produce one.                               *)
LEMMA OthersKeep ==
  ASSUME SharedInv, [SharedNext]_allVars, SendersInv, UNCHANGED <<relay, watchdog, sending, pool>>,
         attempts' = IF SamePendingBlock THEN attempts ELSE 0
  PROVE  SendersInv'
<1>1. /\ head' = head /\ (\A k : IsNext(k)' <=> IsNext(k)) /\ (RelayBonded => RelayBonded')
      /\ SharedInv'
  BY HeadStays, NextSharedInv
<1>2. \A p : StageOf(p)' = StageOf(p) /\ (IsFresh(p)' <=> IsFresh(p))
  BY DEF StageOf, IsFresh
<1>3. SendingTyped'
  BY DEF SendersInv, SendingTyped
<1>4. PoolOwners'
  <2>1. \A tx \in pool :
          \/ tx.by = "relay" /\ tx.call = "deposit"
          \/ tx.by = "relay" /\ tx.call = "submit" /\ RelayBonded' /\ IsNext(tx.arg)'
          \/ /\ tx.by = "watchdog" /\ tx.call = "challenge"
             /\ watchdog.pc = "sleep" \/ StageOf("watchdog")' # "idle"
    BY <1>1, <1>2 DEF SendersInv, PoolOwners
  <2> QED BY <2>1 DEF PoolOwners
<1>5. RelayAims'
  BY <1>1, <1>2 DEF SendersInv, RelayAims
<1>6. WatchdogAims' /\ (Undisturbed => Undisturbed')
  BY <1>2 DEF SendersInv, WatchdogAims, Undisturbed
<1>7. CASE SamePendingBlock
  <2>1. untrustedHead' = untrustedHead /\ attempts' = attempts
    BY <1>7 DEF SamePendingBlock
  <2>2. (Stale' => Stale) /\ (PoolStale' => PoolStale)
    BY <1>2, <2>1 DEF Stale, PoolStale, Replaces, AboutToSend
  <2>3. Left' <= Left
    BY <1>1, <2>2, LeftShrinks
  <2>4. CountInv'
    BY <1>1, <1>6, <1>7, <2>1, <2>3, NeverFewerErrors, CountStays
  <2> QED BY <1>3, <1>4, <1>5, <1>6, <2>4 DEF SendersInv
<1>8. CASE ~SamePendingBlock
  <2>1. CountInv'
    BY <1>8 DEF CountInv
  <2> QED BY <1>3, <1>4, <1>5, <1>6, <2>1 DEF SendersInv
<1> QED BY <1>7, <1>8

LEMMA InitSendersInv == SharedInit => SendersInv
<1> SUFFICES ASSUME SharedInit PROVE SendersInv
  OBVIOUS
<1>1. /\ relay.pc = "state" /\ watchdog.pc = "state" /\ head = Info(Chain[1])
  BY DEF SharedInit, SysInit, RelayInit, WatchdogInit
<1>2. /\ sending \in [Senders -> [stage : {"idle", "send", "wait", "mined", "reverted"},
                                  price : Int, fresh : BOOLEAN]]
      /\ StageOf("relay") = "idle" /\ StageOf("watchdog") = "idle" /\ pool = {} /\ attempts = 0
  BY DEF SharedInit, Senders, StageOf
<1> QED BY <1>1, <1>2 DEF SendersInv, SendingTyped, PoolOwners, RelayAims, WatchdogAims, CountInv

LEMMA NextSendersInv ==
  ASSUME SharedInv, SendersInv, [SharedNext]_allVars
  PROVE  SendersInv'
<1>1. CASE RelayRead \/ WakeRelay
  BY <1>1, RelayReadKeeps
<1>2. CASE RelaySends
  BY <1>2, RelaySendKeeps
<1>3. CASE WatchdogReads
  BY <1>3, WatchdogReadKeeps
<1>4. CASE WatchdogPrepare
  BY <1>4, WatchdogPrepareKeeps
<1>5. CASE WatchdogSends
  BY <1>5, WatchdogSendKeeps
<1>6. CASE Mine
  BY <1>6, MineKeeps
<1>7. CASE OtherSubmitter
  <2>1. UNCHANGED <<relay, watchdog, sending, pool>>
    BY <1>7, SubmitterDeals DEF OtherSubmitter
  <2>2. attempts' = IF SamePendingBlock THEN attempts ELSE 0
    BY <1>7 DEF OtherSubmitter, Recount, SamePendingBlock
  <2> QED BY <2>1, <2>2, OthersKeep
<1>8. CASE (SysProduce /\ UNCHANGED accountVars) \/ UNCHANGED allVars
  <2>1. UNCHANGED <<vars, relay, watchdog, sending, pool, attempts>>
    BY <1>8 DEF SysProduce, ProduceBlock, allVars, sysVars, procVars, accountVars
  <2>2. SamePendingBlock
    BY <2>1 DEF SamePendingBlock, vars, pendingVars
  <2> QED BY <2>1, <2>2, OthersKeep
<1>9. CASE ServiceError("watchdog")
  BY <1>9, WatchdogErrorKeeps
<1> QED BY <1>1, <1>2, <1>3, <1>4, <1>5, <1>6, <1>7, <1>8, <1>9
        DEF SharedNext, RelayProcess, WatchdogProcess, RelaySends, WatchdogReads, WatchdogSends,
            Senders

(* Of a wrong signature of the pending block at most three challenges are  *)
(* begun besides those an error ends, however the transactions of the two  *)
(* services displace each other and in whatever order they are mined.      *)
THEOREM ChallengesAreFew == SharedSpec => []FewChallenges
<1>1. SharedInv /\ SendersInv => FewChallenges
  <2> SUFFICES ASSUME SharedInv, SendersInv PROVE attempts <= 3 + errors
    BY DEF FewChallenges
  <2>1. attempts \in Nat /\ errors \in Nat
    BY SharedTypes DEF SendersInv, SendingTyped
  <2>2. PICK l, u \in Int : l = Left /\ u = One(Undisturbed)
    BY DEF Left, One
  <2>3. l >= 0 /\ u <= 1
    BY <2>2, LeftIs
  <2>4. CASE attempts > 0
    <3>1. attempts + Left <= 2 + One(Undisturbed) + errors
      BY <2>4 DEF SendersInv, CountInv
    <3>2. attempts + l <= 2 + u + errors
      BY <2>2, <3>1
    <3> QED BY <2>1, <2>3, <3>2
  <2>5. CASE attempts = 0
    BY <2>1, <2>5
  <2> QED BY <2>1, <2>4, <2>5
<1>2. SharedInv /\ SendersInv /\ [SharedNext]_allVars => SendersInv'
  BY NextSendersInv
<1> QED BY <1>1, <1>2, SharedInvHolds, InitSendersInv, PTL DEF SharedSpec
=============================================================================
