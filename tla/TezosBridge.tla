----------------------------- MODULE TezosBridge -----------------------------
(***************************************************************************)
(* The optimistic Tezos light client that runs as an Ethereum contract     *)
(* (NearBridge.sol, contract TezosBridge).  Anyone holding a bond of       *)
(* LockEthAmount may submit a block.  The submitted block is only parked   *)
(* as untrustedHead: for LockDuration anyone may challenge one of its      *)
(* signatures, which slashes the bond; a block that survives becomes the   *)
(* head.  It may also be replaced meanwhile by a sufficiently newer one.   *)
(*                                                                         *)
(* Every public transaction of the contract is one action.  A Solidity     *)
(* require or a SafeMath underflow reverts the transaction, so it is a     *)
(* conjunct of the action's guard.                                         *)
(*                                                                         *)
(* Data: a block hash stands for the whole hashed content of a block (the  *)
(* hash is sha256 over it), a producer list stands for its own hash, and   *)
(* an approval is the key that signed the approval message of this very    *)
(* block, None when absent, or Junk for any other bytes.                   *)
(***************************************************************************)
EXTENDS Integers, Sequences, FiniteSets, FiniteSetsExt

CONSTANTS
  Accounts,           \* Ethereum accounts that may hold a bond
  NoAccount,          \* address(0), the initial lastSubmitter
  LockEthAmount,      \* size of a bond
  LockDuration,       \* length of the challenge window, in clock units
  ReplaceDuration,    \* how much newer a replacing block has to be
  Keys,               \* public keys of block producers
  None, Junk,         \* an absent and an invalid approval
  Hashes, NoHash,     \* block hashes, and the zero hash
  Epochs, NoEpoch,    \* epoch ids, and the zero id
  NoBps,              \* an absent next_bps field
  Blocks,             \* the encoded blocks a submitter may send
  InitBlocks,         \* the blocks the deployer may initialise with
  InitialValidators,  \* the validator lists the deployer may initialise with
  Finalized,          \* the blocks that are final on the Tezos side
  Validators,         \* the Tezos side's producer list of every epoch
  MaxTime             \* bound of the Ethereum clock

ProducerLists == Seq([key : Keys, stake : Nat])
Approvals == Keys \cup {None, Junk}

BlockRecords ==
  [height : Nat, timestamp : Nat, epochId : Epochs, nextEpochId : Epochs,
   hash : Hashes, nextBpHash : ProducerLists,
   nextBps : ProducerLists \cup {NoBps}, approvals : Seq(Approvals)]

ASSUME BondAssumption ==
  /\ LockEthAmount \in Nat \ {0}
  /\ LockDuration \in Nat \ {0}
  /\ ReplaceDuration \in Nat
  /\ MaxTime \in Nat
  /\ IsFiniteSet(Accounts) /\ NoAccount \notin Accounts

ASSUME BlockAssumption ==
  /\ Blocks \subseteq BlockRecords
  /\ InitBlocks \subseteq Blocks
  /\ InitialValidators \subseteq ProducerLists
  /\ NoHash \notin Hashes /\ NoEpoch \notin Epochs /\ NoBps \notin ProducerLists
  /\ None \notin Keys /\ Junk \notin Keys /\ None # Junk

(* Hashes are collision free, and the Tezos side is a chain of epochs      *)
(* whose blocks announce the producers of the epoch that follows.  What    *)
(* initWithBlock does not check, the deployer is taken to have right: the  *)
(* validators, and that the block carries the producers it has the hash of.*)
ASSUME ChainAssumption ==
  /\ Finalized \subseteq Blocks
  /\ \A b, c \in Blocks : b.hash = c.hash =>
       /\ b.height = c.height /\ b.timestamp = c.timestamp
       /\ b.epochId = c.epochId /\ b.nextEpochId = c.nextEpochId
       /\ b.nextBpHash = c.nextBpHash
  /\ \A b, c \in Finalized : b.epochId = c.epochId => b.nextEpochId = c.nextEpochId
  /\ \A b \in Finalized : b.epochId # b.nextEpochId
  /\ \A b \in Finalized : b.nextBpHash = Validators[b.nextEpochId]
  /\ \A b \in InitBlocks : \A v \in InitialValidators : v = Validators[b.epochId]
  /\ \A b \in InitBlocks : b.nextBps \in {NoBps, b.nextBpHash}

VARIABLES
  initialized,
  head,                          \* BlockInfo of the last committed block
  untrustedHead,                 \* BlockInfo of the last submitted block
  untrustedApprovalCount,
  untrustedApprovals,            \* a mapping: it keeps entries beyond the count
  untrustedHeadIsFromNextEpoch,
  currentBlockProducers,
  nextBlockProducers,
  untrustedNextBlockProducers,
  lastSubmitter,
  lastValidAt,                   \* end of the challenge window, 0 when none
  blockHashes_,                  \* committed hash of every height
  balanceOf,
  ethBalance,                    \* ETH held by the contract
  now                            \* block.timestamp

trustVars == <<initialized, head, currentBlockProducers, nextBlockProducers, blockHashes_>>
pendingVars == <<untrustedHead, untrustedApprovalCount, untrustedApprovals,
                 untrustedHeadIsFromNextEpoch, untrustedNextBlockProducers, lastSubmitter>>
bondVars == <<balanceOf, ethBalance>>
vars == <<trustVars, pendingVars, lastValidAt, bondVars, now>>

-----------------------------------------------------------------------------
(* Data the handlers compute.                                              *)

Info(b) == [height |-> b.height, timestamp |-> b.timestamp, epochId |-> b.epochId,
            nextEpochId |-> b.nextEpochId, hash |-> b.hash]

ZeroInfo == [height |-> 0, timestamp |-> 0, epochId |-> NoEpoch,
             nextEpochId |-> NoEpoch, hash |-> NoHash]

Heights == {b.height : b \in Blocks}

StakeOf(bps, I) == MapThenSumSet(LAMBDA i : bps[i].stake, I)

TotalStake(bps) == StakeOf(bps, DOMAIN bps)

\* the producers that voted: those whose approval is present, whatever it holds
VotedBy(bps, approvals) == {i \in DOMAIN bps : approvals[i] # None}

Quorum(bps, approvals) ==
  StakeOf(bps, VotedBy(bps, approvals)) > (TotalStake(bps) * 2) \div 3

MutCheckBp(bps, approvals) ==
  StakeOf(bps, {i \in DOMAIN bps \cap DOMAIN approvals : approvals[i] # None})
    > (TotalStake(bps) * 2) \div 3

CheckBp(bps, approvals) ==
  /\ Len(approvals) >= Len(bps)
  /\ Quorum(bps, approvals)

\* writing the first Len(new) entries of a mapping leaves the others alone
Overwrite(old, new) ==
  [i \in DOMAIN old \cup DOMAIN new |-> IF i \in DOMAIN new THEN new[i] ELSE old[i]]

-----------------------------------------------------------------------------
(* What the contract shows of its state.                                   *)

InWindow == now < lastValidAt

\* the pending block outlived its window but nobody has committed it yet
CommitDue == lastValidAt # 0 /\ now >= lastValidAt

PendingProducers ==
  IF untrustedHeadIsFromNextEpoch THEN nextBlockProducers ELSE currentBlockProducers

\* bridgeState().currentHeight is the height of this block
EffectiveHead == IF CommitDue THEN untrustedHead ELSE head

MutBlockHash(h) == blockHashes_[h]

BlockHash(h) ==
  IF blockHashes_[h] = NoHash /\ CommitDue /\ h = untrustedHead.height
  THEN untrustedHead.hash
  ELSE blockHashes_[h]

\* a mapping entry never written reads as a present, all-zero signature
Approval(i) == IF i \in DOMAIN untrustedApprovals THEN untrustedApprovals[i] ELSE Junk

MutSignatureFails(i) ==
  /\ i \in DOMAIN currentBlockProducers
  /\ Approval(i) \notin {None, currentBlockProducers[i].key}

\* checkBlockProducerSignatureInHead(i) does not revert and returns false
SignatureFails(i) ==
  /\ i \in DOMAIN PendingProducers
  /\ Approval(i) \notin {None, PendingProducers[i].key}

-----------------------------------------------------------------------------
(* Bonds.                                                                  *)

MutMayDeposit(a) == TRUE
MayDeposit(a) == balanceOf[a] = 0

Deposit(a) ==
  /\ MayDeposit(a)
  /\ balanceOf' = [balanceOf EXCEPT ![a] = @ + LockEthAmount]
  /\ ethBalance' = ethBalance + LockEthAmount
  /\ UNCHANGED <<trustVars, pendingVars, lastValidAt, now>>

\* the last submitter's bond stays locked until its block is out of reach
MutMayWithdraw(a) == TRUE
MayWithdraw(a) == a # lastSubmitter \/ now >= lastValidAt

Withdraw(a) ==
  /\ MayWithdraw(a)
  /\ balanceOf[a] >= LockEthAmount
  /\ balanceOf' = [balanceOf EXCEPT ![a] = @ - LockEthAmount]
  /\ ethBalance' = ethBalance - LockEthAmount
  /\ UNCHANGED <<trustVars, pendingVars, lastValidAt, now>>

-----------------------------------------------------------------------------
(* Challenge: half of the bond rewards the challenger, the rest is burnt;  *)
(* untrustedHead stays in storage but lastValidAt = 0 makes it dead.       *)

Reward == LockEthAmount \div 2

MutBurnt == LockEthAmount \div 2
Burnt == LockEthAmount - LockEthAmount \div 2

MutNoWindow == now
NoWindow == 0

PayRewardAndRollBack ==
  /\ lastSubmitter \in Accounts
  /\ balanceOf[lastSubmitter] >= LockEthAmount
  /\ balanceOf' = [balanceOf EXCEPT ![lastSubmitter] = @ - LockEthAmount]
  /\ ethBalance' = ethBalance - Reward - Burnt
  /\ lastValidAt' = NoWindow

Challenge(i) ==
  /\ InWindow
  /\ SignatureFails(i)
  /\ PayRewardAndRollBack
  /\ UNCHANGED <<trustVars, pendingVars, now>>

-----------------------------------------------------------------------------
(* Deployment.                                                             *)

MutInitWithValidators(v) ==
  /\ currentBlockProducers' = v
  /\ UNCHANGED <<initialized, head, nextBlockProducers, blockHashes_,
                 pendingVars, lastValidAt, bondVars, now>>

InitWithValidators(v) ==
  /\ ~initialized
  /\ currentBlockProducers' = v
  /\ UNCHANGED <<initialized, head, nextBlockProducers, blockHashes_,
                 pendingVars, lastValidAt, bondVars, now>>

InitWithBlock(b) ==
  /\ TotalStake(currentBlockProducers) > 0
  /\ ~initialized
  /\ b.nextBps # NoBps
  /\ initialized' = TRUE
  /\ head' = Info(b)
  /\ nextBlockProducers' = b.nextBps
  /\ blockHashes_' = [blockHashes_ EXCEPT ![b.height] = b.hash]
  /\ UNCHANGED <<currentBlockProducers, pendingVars, lastValidAt, bondVars, now>>

-----------------------------------------------------------------------------
(* Submission.  It first commits a pending block whose window is over, or  *)
(* checks that replacing one whose window is open is allowed.              *)

MutCommitBlock ==
  /\ head' = untrustedHead
  /\ blockHashes_' = [blockHashes_ EXCEPT ![untrustedHead.height] = untrustedHead.hash]
  /\ nextBlockProducers' = IF untrustedHeadIsFromNextEpoch
                           THEN untrustedNextBlockProducers ELSE nextBlockProducers
  /\ currentBlockProducers' = IF untrustedHeadIsFromNextEpoch
                              THEN untrustedNextBlockProducers ELSE currentBlockProducers

CommitBlock ==
  /\ head' = untrustedHead
  /\ blockHashes_' = [blockHashes_ EXCEPT ![untrustedHead.height] = untrustedHead.hash]
  /\ currentBlockProducers' = PendingProducers
  /\ nextBlockProducers' = IF untrustedHeadIsFromNextEpoch
                           THEN untrustedNextBlockProducers ELSE nextBlockProducers

CommitOrReplace(b) ==
  \/ CommitDue /\ CommitBlock
  \/ /\ InWindow
     /\ b.timestamp >= untrustedHead.timestamp + ReplaceDuration
     /\ UNCHANGED <<head, currentBlockProducers, nextBlockProducers, blockHashes_>>
  \/ /\ lastValidAt = 0
     /\ UNCHANGED <<head, currentBlockProducers, nextBlockProducers, blockHashes_>>

\* the checks that follow read the state the commit has left
HeightIsNew(b) == b.height > head'.height

EpochIsKnown(b, fromNext) ==
  \/ ~fromNext /\ b.epochId = head'.epochId
  \/ fromNext /\ b.epochId # head'.epochId /\ b.epochId = head'.nextEpochId

ParkBlock(a, b, fromNext) ==
  /\ untrustedHead' = Info(b)
  /\ untrustedApprovalCount' = Len(b.approvals)
  /\ untrustedApprovals' = Overwrite(untrustedApprovals, b.approvals)
  /\ untrustedHeadIsFromNextEpoch' = fromNext
  /\ untrustedNextBlockProducers' = IF fromNext THEN b.nextBps ELSE untrustedNextBlockProducers
  /\ lastSubmitter' = a
  /\ lastValidAt' = now + LockDuration

NextBpsAnnounced(b) == b.nextBps # NoBps /\ b.nextBps = b.nextBpHash

AddLightClientBlock(a, b) ==
  /\ initialized
  /\ balanceOf[a] >= LockEthAmount
  /\ CommitOrReplace(b)
  /\ HeightIsNew(b)
  /\ \E fromNext \in BOOLEAN :
       /\ EpochIsKnown(b, fromNext)
       /\ CheckBp(IF fromNext THEN nextBlockProducers' ELSE currentBlockProducers', b.approvals)
       /\ fromNext => NextBpsAnnounced(b)
       /\ ParkBlock(a, b, fromNext)
  /\ UNCHANGED <<initialized, bondVars, now>>

-----------------------------------------------------------------------------
Tick ==
  /\ now < MaxTime
  /\ now' = now + 1
  /\ UNCHANGED <<trustVars, pendingVars, lastValidAt, bondVars>>

Init ==
  /\ initialized = FALSE
  /\ head = ZeroInfo
  /\ untrustedHead = ZeroInfo
  /\ untrustedApprovalCount = 0
  /\ untrustedApprovals = <<>>
  /\ untrustedHeadIsFromNextEpoch = FALSE
  /\ currentBlockProducers = <<>>
  /\ nextBlockProducers = <<>>
  /\ untrustedNextBlockProducers = <<>>
  /\ lastSubmitter = NoAccount
  /\ lastValidAt = 0
  /\ blockHashes_ = [h \in Heights |-> NoHash]
  /\ balanceOf = [a \in Accounts |-> 0]
  /\ ethBalance = 0
  /\ now = 0

Next ==
  \/ \E a \in Accounts : Deposit(a) \/ Withdraw(a)
  \/ \E i \in DOMAIN PendingProducers : Challenge(i)
  \/ \E v \in InitialValidators : InitWithValidators(v)
  \/ \E b \in InitBlocks : InitWithBlock(b)
  \/ \E a \in Accounts, b \in Blocks : AddLightClientBlock(a, b)
  \/ Tick

Spec == Init /\ [][Next]_vars

-----------------------------------------------------------------------------
(* Properties.                                                             *)

BlockInfos == [height : Nat, timestamp : Nat, epochId : Epochs \cup {NoEpoch},
               nextEpochId : Epochs \cup {NoEpoch}, hash : Hashes \cup {NoHash}]

(* Types.  An account holds no bond or exactly one: deposit demands an     *)
(* empty balance, every other movement takes a whole bond.                 *)
TypeOK ==
  /\ initialized \in BOOLEAN
  /\ head \in BlockInfos /\ untrustedHead \in BlockInfos
  /\ untrustedApprovalCount \in Nat
  /\ untrustedApprovals \in Seq(Approvals)
  /\ untrustedHeadIsFromNextEpoch \in BOOLEAN
  /\ currentBlockProducers \in ProducerLists
  /\ nextBlockProducers \in ProducerLists
  /\ untrustedNextBlockProducers \in ProducerLists
  /\ lastSubmitter \in Accounts \cup {NoAccount}
  /\ lastValidAt \in Nat /\ now \in Nat
  /\ blockHashes_ \in [Heights -> Hashes \cup {NoHash}]
  /\ balanceOf \in [Accounts -> {0, LockEthAmount}]
  /\ ethBalance \in Int

(* While a block can be challenged its submitter's bond is in the contract *)
(* whatever deposits, withdrawals, challenges and replacements came        *)
(* before, so a successful challenge can always be paid.                   *)
BondBacked == InWindow => lastSubmitter \in Accounts /\ balanceOf[lastSubmitter] = LockEthAmount

(* The contract holds exactly one bond per bonded account: what a          *)
(* challenge pays out and burns is the slashed bond, no more and no less.  *)
Bonded == {a \in Accounts : balanceOf[a] = LockEthAmount}
Solvent == ethBalance = LockEthAmount * Cardinality(Bonded)

(* The approvals a challenger can point at are those of the pending block, *)
(* not leftovers of an earlier one in the mapping, and more than two       *)
(* thirds of the stake of the producers they are checked against is among  *)
(* them.                                                                   *)
PendingHasQuorum ==
  InWindow => LET submitted == SubSeq(untrustedApprovals, 1, untrustedApprovalCount)
              IN  /\ Len(submitted) >= Len(PendingProducers)
                  /\ Quorum(PendingProducers, submitted)

TrustedFinal ==
  \A h \in Heights : BlockHash(h) # NoHash => \E b \in Finalized : b.hash = BlockHash(h)

(* As long as only final blocks were trusted, the last submitter loses its *)
(* bond only when an approval it submitted itself is not the signature of  *)
(* the producer Tezos elected for the block's epoch.                       *)
HonestKeepsBond ==
  [][ \A a \in Accounts :
        InWindow /\ TrustedFinal /\ a = lastSubmitter /\ balanceOf'[a] < balanceOf[a] =>
          \E i \in 1 .. untrustedApprovalCount :
            /\ i \in DOMAIN Validators[untrustedHead.epochId]
            /\ untrustedApprovals[i] \notin {None, Validators[untrustedHead.epochId][i].key}
    ]_vars

(* As long as only final Tezos blocks were trusted, the producer lists the *)
(* next block is checked against are those Tezos elected for the epoch of  *)
(* the trusted head and for the one after, across every switch of epoch.   *)
EffectiveCurrent == IF CommitDue THEN PendingProducers ELSE currentBlockProducers
EffectiveNext == IF CommitDue /\ untrustedHeadIsFromNextEpoch
                 THEN untrustedNextBlockProducers ELSE nextBlockProducers

EpochProducers ==
  initialized /\ TrustedFinal =>
    /\ EffectiveCurrent = Validators[EffectiveHead.epochId]
    /\ EffectiveNext = Validators[EffectiveHead.nextEpochId]
=============================================================================
