-------------------------- MODULE TezosBridgeProofs --------------------------
(***************************************************************************)
(* Proofs about TezosBridge for every set of accounts, blocks and epochs   *)
(* and every bond and window: its bonds and ether, its trusted chain,      *)
(* which implements OptimisticChain, the producers Tezos elected, and that *)
(* an honest submitter keeps its bond; and lemmas about TezosNode.         *)
(***************************************************************************)
EXTENDS TezosBridgeRefinement, TezosNode, FiniteSetTheorems, WellFoundedInduction, TLAPS

-----------------------------------------------------------------------------
(* Bonds and ether.                                                        *)

(* Before deployment is complete nothing is pending.                       *)
IdleBeforeInit == ~initialized => lastValidAt = 0

(* A block was submitted by an account before it can be pending.           *)
PendingSubmitted == lastValidAt # 0 => lastSubmitter \in Accounts

BondInv == TypeOK /\ IdleBeforeInit /\ PendingSubmitted /\ BondBacked

(* BlockInfo records, and the sequences a submission writes, are typed.    *)
LEMMA InfoType == ASSUME NEW b \in Blocks PROVE Info(b) \in BlockInfos
BY BlockAssumption DEF Info, BlockInfos, BlockRecords

LEMMA ZeroInfoType == ZeroInfo \in BlockInfos
BY DEF ZeroInfo, BlockInfos

(* Overwriting a mapping by a sequence is a sequence that begins with it.  *)
LEMMA OverwriteSeq ==
  ASSUME NEW S, NEW old \in Seq(S), NEW new \in Seq(S)
  PROVE  /\ Overwrite(old, new) \in Seq(S)
         /\ SubSeq(Overwrite(old, new), 1, Len(new)) = new
<1> DEFINE o == Overwrite(old, new)
           n == IF Len(new) >= Len(old) THEN Len(new) ELSE Len(old)
<1>1. DOMAIN old = 1 .. Len(old) /\ DOMAIN new = 1 .. Len(new)
  OBVIOUS
<1>2. n \in Nat /\ DOMAIN old \cup DOMAIN new = 1 .. n
  BY <1>1
<1>3. \A i \in 1 .. n : (IF i \in DOMAIN new THEN new[i] ELSE old[i]) \in S
  BY <1>1, <1>2
<1>4. o \in [1 .. n -> S]
  BY <1>2, <1>3 DEF Overwrite
<1>5. o \in Seq(S) /\ Len(o) = n
  BY <1>2, <1>4
<1>6. SubSeq(o, 1, Len(new)) \in Seq(S) /\ Len(SubSeq(o, 1, Len(new))) = Len(new)
  BY <1>5
<1>7. \A i \in 1 .. Len(new) : SubSeq(o, 1, Len(new))[i] = new[i]
  BY <1>1, <1>2, <1>5 DEF Overwrite
<1>8. SubSeq(o, 1, Len(new)) = new
  BY <1>6, <1>7
<1> QED BY <1>5, <1>8

LEMMA InitBondInv == Init => BondInv
<1> SUFFICES ASSUME Init PROVE BondInv
  OBVIOUS
<1>1. head \in BlockInfos /\ untrustedHead \in BlockInfos
  BY ZeroInfoType DEF Init
<1>2. untrustedApprovals \in Seq(Approvals) /\ currentBlockProducers \in ProducerLists
      /\ nextBlockProducers \in ProducerLists /\ untrustedNextBlockProducers \in ProducerLists
  BY DEF Init, ProducerLists
<1>3. blockHashes_ \in [Heights -> Hashes \cup {NoHash}]
      /\ balanceOf \in [Accounts -> {0, LockEthAmount}]
  BY DEF Init
<1>4. /\ untrustedApprovalCount \in Nat /\ lastSubmitter \in Accounts \cup {NoAccount}
      /\ lastValidAt \in Nat /\ now \in Nat /\ ethBalance \in Int
  BY DEF Init
<1>5. initialized \in BOOLEAN /\ untrustedHeadIsFromNextEpoch \in BOOLEAN
  BY Zenon DEF Init
<1>6. TypeOK
  BY <1>1, <1>2, <1>3, <1>4, <1>5, Zenon DEF TypeOK
<1> QED BY <1>6 DEF Init, BondInv, IdleBeforeInit, PendingSubmitted, BondBacked, InWindow

(* The state of the trusted chain an AddLightClientBlock leaves is typed.  *)
LEMMA CommitType ==
  ASSUME TypeOK, NEW b \in Blocks, CommitOrReplace(b)
  PROVE  /\ head' \in BlockInfos
         /\ currentBlockProducers' \in ProducerLists
         /\ nextBlockProducers' \in ProducerLists
         /\ blockHashes_' \in [Heights -> Hashes \cup {NoHash}]
<1>1. CASE CommitBlock
  BY <1>1 DEF CommitBlock, TypeOK, PendingProducers, BlockInfos
<1>2. CASE UNCHANGED <<head, currentBlockProducers, nextBlockProducers, blockHashes_>>
  BY <1>2 DEF TypeOK
<1> QED BY <1>1, <1>2 DEF CommitOrReplace

LEMMA AddType ==
  ASSUME BondInv, NEW a \in Accounts, NEW b \in Blocks, AddLightClientBlock(a, b)
  PROVE  BondInv'
<1> USE DEF BondInv
<1>1. CommitOrReplace(b) /\ initialized /\ balanceOf[a] >= LockEthAmount
      /\ UNCHANGED <<initialized, bondVars, now>>
  BY DEF AddLightClientBlock
<1>2. PICK fromNext \in BOOLEAN :
        (fromNext => NextBpsAnnounced(b)) /\ ParkBlock(a, b, fromNext)
  BY DEF AddLightClientBlock
<1>3. b.approvals \in Seq(Approvals) /\ b.nextBps \in ProducerLists \cup {NoBps}
  BY BlockAssumption DEF BlockRecords
<1>4. untrustedHead' \in BlockInfos
  BY <1>2, InfoType DEF ParkBlock
<1>5. untrustedApprovals' \in Seq(Approvals) /\ untrustedApprovalCount' \in Nat
  <2>1. untrustedApprovals \in Seq(Approvals)
    BY DEF TypeOK
  <2>2. Overwrite(untrustedApprovals, b.approvals) \in Seq(Approvals)
    BY <1>3, <2>1, OverwriteSeq
  <2>3. Len(b.approvals) \in Nat
    BY <1>3
  <2> QED BY <1>2, <2>2, <2>3 DEF ParkBlock
<1>6. untrustedNextBlockProducers' \in ProducerLists
  BY <1>2, <1>3 DEF ParkBlock, NextBpsAnnounced, TypeOK
<1>7. /\ lastSubmitter' = a /\ lastValidAt' = now + LockDuration
      /\ untrustedHeadIsFromNextEpoch' \in BOOLEAN
  BY <1>2 DEF ParkBlock
<1>8. TypeOK'
  BY <1>1, <1>4, <1>5, <1>6, <1>7, CommitType, BondAssumption DEF TypeOK, bondVars
<1>9. balanceOf[a] = LockEthAmount
  <2>1. balanceOf[a] \in {0, LockEthAmount}
    BY DEF TypeOK
  <2> QED BY <1>1, <2>1, BondAssumption
<1>10. BondBacked'
  BY <1>1, <1>7, <1>9 DEF BondBacked, bondVars
<1>11. IdleBeforeInit' /\ PendingSubmitted'
  BY <1>1, <1>7 DEF IdleBeforeInit, PendingSubmitted
<1> QED BY <1>8, <1>10, <1>11

LEMMA NextBondInv == BondInv /\ [Next]_vars => BondInv'
<1> SUFFICES ASSUME BondInv, [Next]_vars PROVE BondInv'
  OBVIOUS
<1> USE BondAssumption
<1>1. ASSUME NEW a \in Accounts, Deposit(a) PROVE BondInv'
  <2>1. balanceOf' = [balanceOf EXCEPT ![a] = LockEthAmount] /\ ethBalance' \in Int
    <3>1. balanceOf[a] = 0 /\ 0 + LockEthAmount = LockEthAmount
      BY <1>1 DEF Deposit, MayDeposit
    <3>2. balanceOf' = [balanceOf EXCEPT ![a] = balanceOf[a] + LockEthAmount]
      BY <1>1 DEF Deposit
    <3>3. balanceOf[a] + LockEthAmount = LockEthAmount
      BY <3>1
    <3>4. ethBalance' \in Int
      BY <1>1 DEF Deposit, BondInv, TypeOK
    <3> QED BY <3>2, <3>3, <3>4
  <2>2. TypeOK'
    BY <1>1, <2>1 DEF Deposit, BondInv, TypeOK, trustVars, pendingVars
  <2>3. BondBacked'
    BY <1>1, <2>1 DEF Deposit, BondInv, TypeOK, BondBacked, InWindow, pendingVars
  <2> QED BY <1>1, <2>2, <2>3
      DEF Deposit, BondInv, IdleBeforeInit, PendingSubmitted, trustVars, pendingVars
<1>2. ASSUME NEW a \in Accounts, Withdraw(a) PROVE BondInv'
  <2>1. balanceOf' = [balanceOf EXCEPT ![a] = 0] /\ ethBalance' \in Int
    <3>1. balanceOf[a] \in {0, LockEthAmount} /\ balanceOf[a] >= LockEthAmount
      BY <1>2 DEF Withdraw, BondInv, TypeOK
    <3>2. balanceOf[a] - LockEthAmount = 0
      BY <3>1
    <3>3. balanceOf' = [balanceOf EXCEPT ![a] = balanceOf[a] - LockEthAmount]
      BY <1>2 DEF Withdraw
    <3>4. ethBalance' \in Int
      BY <1>2 DEF Withdraw, BondInv, TypeOK
    <3> QED BY <3>2, <3>3, <3>4
  <2>2. TypeOK'
    BY <1>2, <2>1 DEF Withdraw, BondInv, TypeOK, trustVars, pendingVars
  <2>3. BondBacked'
    BY <1>2, <2>1 DEF Withdraw, MayWithdraw, BondInv, TypeOK, BondBacked, InWindow, pendingVars
  <2> QED BY <1>2, <2>2, <2>3
      DEF Withdraw, BondInv, IdleBeforeInit, PendingSubmitted, trustVars, pendingVars
<1>3. ASSUME NEW i \in DOMAIN PendingProducers, Challenge(i) PROVE BondInv'
  <2>1. /\ balanceOf' = [balanceOf EXCEPT ![lastSubmitter] = 0]
        /\ ethBalance' \in Int /\ lastValidAt' = 0 /\ lastSubmitter \in Accounts
        /\ UNCHANGED <<trustVars, pendingVars, now>>
    <3>1. /\ lastSubmitter \in Accounts
          /\ balanceOf[lastSubmitter] \in {0, LockEthAmount}
          /\ balanceOf[lastSubmitter] >= LockEthAmount
      BY <1>3 DEF Challenge, PayRewardAndRollBack, BondInv, TypeOK
    <3>2. balanceOf[lastSubmitter] - LockEthAmount = 0
      BY <3>1
    <3>3. balanceOf' = [balanceOf EXCEPT ![lastSubmitter] = balanceOf[lastSubmitter] - LockEthAmount]
      BY <1>3 DEF Challenge, PayRewardAndRollBack
    <3>4. ethBalance' \in Int
      BY <1>3 DEF Challenge, PayRewardAndRollBack, Reward, Burnt, BondInv, TypeOK
    <3>5. lastValidAt' = 0 /\ UNCHANGED <<trustVars, pendingVars, now>>
      BY <1>3 DEF Challenge, PayRewardAndRollBack, NoWindow
    <3> QED BY <3>1, <3>2, <3>3, <3>4, <3>5
  <2>2. TypeOK'
    BY <2>1 DEF BondInv, TypeOK, trustVars, pendingVars
  <2> QED BY <2>1, <2>2
      DEF BondInv, BondBacked, InWindow, IdleBeforeInit, PendingSubmitted, TypeOK
<1>4. ASSUME NEW v \in InitialValidators, InitWithValidators(v) PROVE BondInv'
  <2>1. v \in ProducerLists
    BY BlockAssumption
  <2> QED BY <1>4, <2>1 DEF InitWithValidators, BondInv, TypeOK, BondBacked, InWindow,
             IdleBeforeInit, PendingSubmitted, pendingVars, bondVars
<1>5. ASSUME NEW b \in InitBlocks, InitWithBlock(b) PROVE BondInv'
  <2>1. b \in Blocks /\ b.hash \in Hashes /\ b.nextBps \in ProducerLists
    BY <1>5, BlockAssumption DEF InitWithBlock, BlockRecords
  <2>2. head' \in BlockInfos
    BY <1>5, <2>1, InfoType DEF InitWithBlock
  <2> QED BY <1>5, <2>1, <2>2 DEF InitWithBlock, BondInv, TypeOK, BondBacked, InWindow,
             IdleBeforeInit, PendingSubmitted, pendingVars, bondVars
<1>6. ASSUME NEW a \in Accounts, NEW b \in Blocks, AddLightClientBlock(a, b) PROVE BondInv'
  BY <1>6, AddType
<1>7. CASE Tick
  BY <1>7 DEF Tick, BondInv, TypeOK, BondBacked, InWindow, IdleBeforeInit, PendingSubmitted,
              trustVars, pendingVars, bondVars
<1>8. CASE UNCHANGED vars
  BY <1>8 DEF BondInv, TypeOK, BondBacked, InWindow, IdleBeforeInit, PendingSubmitted,
              vars, trustVars, pendingVars, bondVars
<1> QED BY <1>1, <1>2, <1>3, <1>4, <1>5, <1>6, <1>7, <1>8 DEF Next

LEMMA BondInvHolds == Spec => []BondInv
BY InitBondInv, NextBondInv, PTL DEF Spec

(* The contract's state keeps its types: what it stores of a block is what *)
(* was submitted, and no counter, bond or time underflows.                 *)
THEOREM StateIsTyped == Spec => []TypeOK
<1>1. BondInv => TypeOK
  BY DEF BondInv
<1> QED BY <1>1, BondInvHolds, PTL

(* While a block can be challenged the bond that pays for the challenge is *)
(* in the contract.                                                        *)
THEOREM BondsAreBacked == Spec => []BondBacked
<1>1. BondInv => BondBacked
  BY DEF BondInv
<1> QED BY <1>1, BondInvHolds, PTL

-----------------------------------------------------------------------------
(* Solvency: the bonded accounts are counted.                              *)

LEMMA BondedFinite == IsFiniteSet(Bonded) /\ Cardinality(Bonded) \in Nat
<1>1. Bonded \subseteq Accounts
  BY DEF Bonded
<1> QED BY <1>1, FS_Subset, FS_CardinalityType, BondAssumption

\* one more bond, one more LockEthAmount
LEMMA OneBondMore ==
  ASSUME TypeOK, NEW a \in Accounts, balanceOf[a] = 0, Solvent,
         balanceOf' = [balanceOf EXCEPT ![a] = LockEthAmount],
         ethBalance' = ethBalance + LockEthAmount
  PROVE  Solvent'
<1>1. a \notin Bonded /\ Bonded' = Bonded \cup {a}
  BY BondAssumption DEF Bonded, TypeOK
<1>2. Cardinality(Bonded') = Cardinality(Bonded) + 1
  BY <1>1, BondedFinite, FS_AddElement
<1>3. LockEthAmount * (Cardinality(Bonded) + 1) = LockEthAmount * Cardinality(Bonded) + LockEthAmount
  BY BondedFinite, BondAssumption
<1> QED BY <1>2, <1>3 DEF Solvent

\* one bond less, one LockEthAmount less
LEMMA OneBondLess ==
  ASSUME TypeOK, NEW a \in Accounts, balanceOf[a] = LockEthAmount, Solvent,
         balanceOf' = [balanceOf EXCEPT ![a] = 0],
         ethBalance' = ethBalance - LockEthAmount
  PROVE  Solvent'
<1>1. a \in Bonded /\ Bonded' = Bonded \ {a}
  BY BondAssumption DEF Bonded, TypeOK
<1>2. Cardinality(Bonded') = Cardinality(Bonded) - 1
  BY <1>1, BondedFinite, FS_RemoveElement
<1>3. LockEthAmount * (Cardinality(Bonded) - 1) = LockEthAmount * Cardinality(Bonded) - LockEthAmount
  BY BondedFinite, BondAssumption
<1> QED BY <1>2, <1>3 DEF Solvent

\* a challenge pays out and burns the bond, to the last wei
LEMMA SlashIsWholeBond == LockEthAmount = Reward + Burnt
BY BondAssumption DEF Reward, Burnt

LEMMA InitSolvent == Init => Solvent
<1> SUFFICES ASSUME Init PROVE Solvent
  OBVIOUS
<1>1. Bonded = {}
  BY BondAssumption DEF Init, Bonded
<1>2. Cardinality(Bonded) = 0
  BY <1>1, FS_EmptySet
<1>3. LockEthAmount * 0 = 0
  BY BondAssumption
<1> QED BY <1>2, <1>3 DEF Init, Solvent

LEMMA NextSolvent == BondInv /\ Solvent /\ [Next]_vars => Solvent'
<1> SUFFICES ASSUME BondInv, Solvent, [Next]_vars PROVE Solvent'
  OBVIOUS
<1>0. TypeOK
  BY DEF BondInv
<1>1. ASSUME NEW a \in Accounts, Deposit(a) PROVE Solvent'
  <2>1. balanceOf[a] = 0 /\ balanceOf' = [balanceOf EXCEPT ![a] = balanceOf[a] + LockEthAmount]
    BY <1>1 DEF Deposit, MayDeposit
  <2>2. balanceOf[a] + LockEthAmount = LockEthAmount
    BY <2>1, BondAssumption
  <2> QED BY <1>0, <1>1, <2>1, <2>2, OneBondMore DEF Deposit
<1>2. ASSUME NEW a \in Accounts, Withdraw(a) PROVE Solvent'
  <2>1. balanceOf[a] = LockEthAmount
    BY <1>0, <1>2, BondAssumption DEF Withdraw, TypeOK
  <2>2. balanceOf' = [balanceOf EXCEPT ![a] = balanceOf[a] - LockEthAmount]
    BY <1>2 DEF Withdraw
  <2>3. balanceOf[a] - LockEthAmount = 0
    BY <2>1, BondAssumption
  <2> QED BY <1>0, <1>2, <2>1, <2>2, <2>3, OneBondLess DEF Withdraw
<1>3. ASSUME NEW i \in DOMAIN PendingProducers, Challenge(i) PROVE Solvent'
  <2>1. lastSubmitter \in Accounts /\ balanceOf[lastSubmitter] = LockEthAmount
    BY <1>3 DEF Challenge, BondInv, BondBacked
  <2>2. balanceOf' = [balanceOf EXCEPT ![lastSubmitter] = balanceOf[lastSubmitter] - LockEthAmount]
    BY <1>3 DEF Challenge, PayRewardAndRollBack
  <2>3. balanceOf[lastSubmitter] - LockEthAmount = 0
    BY <2>1, BondAssumption
  <2>4. ethBalance' = ethBalance - Reward - Burnt /\ ethBalance \in Int
    BY <1>0, <1>3 DEF Challenge, PayRewardAndRollBack, TypeOK
  <2>5. Reward \in Int /\ Burnt \in Int
    BY BondAssumption DEF Reward, Burnt
  <2>6. ethBalance' = ethBalance - LockEthAmount
    BY <2>4, <2>5, SlashIsWholeBond, BondAssumption
  <2> QED BY <1>0, <2>1, <2>2, <2>3, <2>6, OneBondLess
<1>4. CASE UNCHANGED bondVars
  BY <1>4 DEF bondVars, Solvent, Bonded
<1> QED BY <1>1, <1>2, <1>3, <1>4
    DEF Next, vars, InitWithValidators, InitWithBlock, AddLightClientBlock, Tick

(* The contract never owes more than it holds, and holds nothing that is   *)
(* nobody's: its ETH is one bond per bonded account.                       *)
THEOREM ContractIsSolvent == Spec => []Solvent
BY InitSolvent, NextSolvent, BondInvHolds, PTL DEF Spec

-----------------------------------------------------------------------------
(* The pending block's votes.                                              *)

(* The inductive form of PendingHasQuorum: it holds on after the window,   *)
(* until the block is committed or rolled back.                            *)
QuorumInv ==
  lastValidAt # 0 =>
    CheckBp(PendingProducers, SubSeq(untrustedApprovals, 1, untrustedApprovalCount))

LEMMA NextQuorum == BondInv /\ QuorumInv /\ [Next]_vars => QuorumInv'
<1> SUFFICES ASSUME BondInv, QuorumInv, [Next]_vars PROVE QuorumInv'
  OBVIOUS
<1>0. TypeOK
  BY DEF BondInv
<1>1. ASSUME NEW a \in Accounts, NEW b \in Blocks, AddLightClientBlock(a, b) PROVE QuorumInv'
  <2>1. PICK fromNext \in BOOLEAN :
          /\ CheckBp(IF fromNext THEN nextBlockProducers' ELSE currentBlockProducers', b.approvals)
          /\ ParkBlock(a, b, fromNext)
    BY <1>1 DEF AddLightClientBlock
  <2>2. PendingProducers' = IF fromNext THEN nextBlockProducers' ELSE currentBlockProducers'
    BY <2>1 DEF ParkBlock, PendingProducers
  <2>3. untrustedApprovals \in Seq(Approvals) /\ b.approvals \in Seq(Approvals)
    BY <1>0, BlockAssumption DEF TypeOK, BlockRecords
  <2>4. SubSeq(untrustedApprovals', 1, untrustedApprovalCount') = b.approvals
    BY <2>1, <2>3, OverwriteSeq DEF ParkBlock
  <2> QED BY <2>1, <2>2, <2>4 DEF QuorumInv
<1>2. ASSUME NEW i \in DOMAIN PendingProducers, Challenge(i) PROVE QuorumInv'
  BY <1>2 DEF Challenge, PayRewardAndRollBack, NoWindow, QuorumInv
<1>3. CASE \/ \E v \in InitialValidators : InitWithValidators(v)
           \/ \E b \in InitBlocks : InitWithBlock(b)
  BY <1>3 DEF InitWithValidators, InitWithBlock, BondInv, IdleBeforeInit, QuorumInv
<1>4. CASE UNCHANGED <<trustVars, pendingVars, lastValidAt>>
  BY <1>4 DEF trustVars, pendingVars, QuorumInv, PendingProducers
<1> QED BY <1>1, <1>2, <1>3, <1>4 DEF Next, vars, Deposit, Withdraw, Tick

(* Whenever a block can be challenged, the approvals a challenger can      *)
(* point at are its own, and over two thirds of the stake of the producers *)
(* they are checked against is among them.                                 *)
THEOREM PendingIsVoted == Spec => []PendingHasQuorum
<1>1. Init => QuorumInv
  BY DEF Init, QuorumInv
<1>2. BondInv /\ QuorumInv => PendingHasQuorum
  BY DEF BondInv, TypeOK, QuorumInv, CheckBp, PendingHasQuorum, InWindow
<1> QED BY <1>1, <1>2, NextQuorum, BondInvHolds, PTL DEF Spec

-----------------------------------------------------------------------------
(* The trusted chain.                                                      *)

IsInfo(info) == \E b \in Blocks : info = Info(b)

(* The committed hashes are those of a chain that ends at the head.        *)
Committed ==
  /\ ~initialized => \A h \in Heights : blockHashes_[h] = NoHash
  /\ initialized => IsInfo(head) /\ blockHashes_[head.height] = head.hash
  /\ \A h \in Heights : blockHashes_[h] # NoHash => h <= head.height

(* The pending block, as long as it has not been rolled back, is above.    *)
Parked == lastValidAt # 0 => IsInfo(untrustedHead) /\ untrustedHead.height > head.height

ChainInv == BondInv /\ Committed /\ Parked

LEMMA InfoFacts ==
  ASSUME NEW info, IsInfo(info)
  PROVE  /\ info.height \in Heights /\ info.height \in Nat
         /\ info.hash \in Hashes /\ info.hash # NoHash
BY BlockAssumption DEF IsInfo, Info, Heights, BlockRecords

LEMMA HeightsAreNat == Heights \subseteq Nat
BY BlockAssumption DEF Heights, BlockRecords

LEMMA InitChainInv == Init => ChainInv
<1> SUFFICES ASSUME Init PROVE ChainInv
  OBVIOUS
<1>1. Committed /\ Parked
  BY DEF Init, Committed, Parked
<1> QED BY <1>1, InitBondInv DEF ChainInv

(* What a submission does to the committed chain before its own checks.    *)
LEMMA CommitKeepsChain ==
  ASSUME ChainInv, initialized, NEW b \in Blocks, CommitOrReplace(b)
  PROVE  /\ IsInfo(head') /\ blockHashes_'[head'.height] = head'.hash
         /\ \A h \in Heights : blockHashes_'[h] # NoHash => h <= head'.height
         /\ \A h \in Heights : blockHashes_'[h] = BlockHash(h)
<1> USE DEF ChainInv
<1>0. TypeOK /\ blockHashes_ \in [Heights -> Hashes \cup {NoHash}] /\ head \in BlockInfos
  BY DEF BondInv, TypeOK
<1>1. CASE CommitDue /\ CommitBlock
  <2>1. IsInfo(untrustedHead) /\ untrustedHead.height > head.height
    BY <1>1 DEF Parked, CommitDue
  <2>2. blockHashes_[untrustedHead.height] = NoHash
    BY <2>1, InfoFacts, <1>0 DEF Committed, BlockInfos
  <2>3. /\ head' = untrustedHead
        /\ blockHashes_' = [blockHashes_ EXCEPT ![untrustedHead.height] = untrustedHead.hash]
    BY <1>1 DEF CommitBlock
  <2>4. \A h \in Heights : blockHashes_'[h] # NoHash => h <= head'.height
    BY <1>0, <2>1, <2>3, InfoFacts, HeightsAreNat DEF Committed, BlockInfos
  <2>5. \A h \in Heights : blockHashes_'[h] = BlockHash(h)
    BY <1>0, <1>1, <2>1, <2>2, <2>3, InfoFacts DEF BlockHash
  <2> QED BY <1>0, <2>1, <2>3, <2>4, <2>5, InfoFacts
<1>2. CASE ~CommitDue /\ UNCHANGED <<head, currentBlockProducers, nextBlockProducers, blockHashes_>>
  BY <1>2 DEF Committed, BlockHash
<1>3. InWindow => ~CommitDue
  BY <1>0 DEF InWindow, CommitDue, TypeOK
<1> QED BY <1>1, <1>2, <1>3 DEF CommitOrReplace, CommitDue

LEMMA NextChainInv == ChainInv /\ [Next]_vars => ChainInv'
<1> SUFFICES ASSUME ChainInv, [Next]_vars PROVE ChainInv'
  OBVIOUS
<1>0. BondInv' /\ TypeOK
  BY NextBondInv DEF ChainInv, BondInv
<1>1. ASSUME NEW a \in Accounts, NEW b \in Blocks, AddLightClientBlock(a, b)
      PROVE  Committed' /\ Parked'
  <2>1. initialized /\ initialized' /\ CommitOrReplace(b) /\ HeightIsNew(b)
    BY <1>1 DEF AddLightClientBlock
  <2>2. untrustedHead' = Info(b)
    BY <1>1 DEF AddLightClientBlock, ParkBlock
  <2>3. Committed'
    BY <2>1, CommitKeepsChain DEF Committed
  <2>4. untrustedHead'.height = b.height
    BY <2>2 DEF Info
  <2> QED BY <2>1, <2>2, <2>3, <2>4 DEF HeightIsNew, Parked, IsInfo
<1>2. ASSUME NEW b \in InitBlocks, InitWithBlock(b) PROVE Committed' /\ Parked'
  <2>1. b \in Blocks /\ ~initialized /\ initialized' /\ head' = Info(b) /\ lastValidAt' = lastValidAt
        /\ blockHashes_' = [blockHashes_ EXCEPT ![b.height] = b.hash]
    BY <1>2, BlockAssumption DEF InitWithBlock
  <2>2. Parked'
    BY <2>1 DEF ChainInv, BondInv, IdleBeforeInit, Parked
  <2>3. IsInfo(head') /\ head'.height = b.height /\ head'.hash = b.hash
    BY <2>1 DEF IsInfo, Info
  <2>4. Committed'
    BY <2>1, <2>3, InfoFacts, <1>0, HeightsAreNat DEF Committed, ChainInv, TypeOK
  <2> QED BY <2>2, <2>4
<1>3. ASSUME NEW i \in DOMAIN PendingProducers, Challenge(i) PROVE Committed' /\ Parked'
  BY <1>3 DEF Challenge, PayRewardAndRollBack, NoWindow, trustVars, pendingVars,
              ChainInv, Committed, Parked
<1>4. CASE UNCHANGED <<initialized, head, blockHashes_, pendingVars, lastValidAt>>
  BY <1>0, <1>4 DEF pendingVars, ChainInv, Committed, Parked
<1> QED BY <1>0, <1>1, <1>2, <1>3, <1>4
    DEF Next, vars, trustVars, Deposit, Withdraw, InitWithValidators, Tick, ChainInv

LEMMA ChainInvHolds == Spec => []ChainInv
BY InitChainInv, NextChainInv, PTL DEF Spec

-----------------------------------------------------------------------------
(* The refinement: one lemma per kind of step.                             *)

LEMMA RefineInit == Init => Optimistic!Init
<1> SUFFICES ASSUME Init PROVE Optimistic!Init
  OBVIOUS
<1>1. ~InWindow /\ ~CommitDue
  BY DEF Init, InWindow, CommitDue
<1>2. TrustedChain = [h \in Heights |-> NoHash]
  BY <1>1 DEF TrustedChain, BlockHash, Init
<1> QED BY <1>1, <1>2 DEF Optimistic!Init, Candidate, Deadline, Init

\* what leaves the committed and the pending block alone is not seen
LEMMA RefineStutter ==
  ASSUME UNCHANGED <<blockHashes_, untrustedHead, lastValidAt, now>>
  PROVE  UNCHANGED Optimistic!vars
BY DEF Optimistic!vars, TrustedChain, BlockHash, CommitDue, Candidate, Deadline, InWindow

LEMMA RefineInitWithBlock ==
  ASSUME ChainInv, NEW b \in InitBlocks, InitWithBlock(b)
  PROVE  Optimistic!Next
<1>1. /\ b \in Blocks /\ b.height \in Heights /\ b.hash \in Hashes
      /\ lastValidAt = 0 /\ lastValidAt' = 0 /\ now' = now
      /\ \A h \in Heights : blockHashes_[h] = NoHash
      /\ blockHashes_' = [blockHashes_ EXCEPT ![b.height] = b.hash]
      /\ blockHashes_ \in [Heights -> Hashes \cup {NoHash}]
      /\ now \in Nat
  BY BlockAssumption DEF InitWithBlock, ChainInv, BondInv, TypeOK, IdleBeforeInit, Committed,
                         Heights, BlockRecords
<1>2. ~InWindow /\ ~InWindow' /\ ~CommitDue /\ ~CommitDue'
  BY <1>1 DEF InWindow, CommitDue
<1>3. TrustedChain = blockHashes_ /\ TrustedChain' = blockHashes_'
  BY <1>1, <1>2 DEF TrustedChain, BlockHash
<1>4. Optimistic!Genesis(b.height, b.hash)
  BY <1>1, <1>2, <1>3 DEF Optimistic!Genesis, Candidate, Deadline
<1> QED BY <1>1, <1>4 DEF Optimistic!Next

LEMMA RefineAdd ==
  ASSUME ChainInv, NEW a \in Accounts, NEW b \in Blocks, AddLightClientBlock(a, b)
  PROVE  Optimistic!Next
<1>1. initialized /\ CommitOrReplace(b) /\ HeightIsNew(b) /\ now' = now
      /\ untrustedHead' = Info(b) /\ lastValidAt' = now + LockDuration
  BY DEF AddLightClientBlock, ParkBlock
<1>2. now \in Nat /\ blockHashes_ \in [Heights -> Hashes \cup {NoHash}]
  BY DEF ChainInv, BondInv, TypeOK
<1>3. /\ blockHashes_' \in [Heights -> Hashes \cup {NoHash}]
  BY <1>1, CommitType DEF ChainInv, BondInv
<1>4. InWindow' /\ ~CommitDue'
  BY <1>1, <1>2, BondAssumption DEF InWindow, CommitDue
<1>5. TrustedChain' = blockHashes_' /\ TrustedChain' = TrustedChain
  BY <1>1, <1>3, <1>4, CommitKeepsChain DEF TrustedChain, BlockHash
<1>6. b.height \in Heights /\ b.height \in Nat /\ b.hash \in Hashes
  BY BlockAssumption DEF Heights, BlockRecords
<1>7. IsInfo(head') /\ TrustedChain[head'.height] # NoHash /\ head'.height \in Heights
  BY <1>1, <1>5, CommitKeepsChain, InfoFacts
<1>8. Optimistic!AboveTrusted(b.height)
  <2> SUFFICES ASSUME NEW k \in Heights, TrustedChain[k] # NoHash PROVE k < b.height
    BY DEF Optimistic!AboveTrusted
  <2>1. k <= head'.height
    BY <1>1, <1>5, CommitKeepsChain
  <2>2. k \in Nat /\ b.height \in Nat /\ head'.height \in Nat
    BY <1>6, <1>7, HeightsAreNat
  <2>3. b.height > head'.height
    BY <1>1 DEF HeightIsNew
  <2> QED BY <2>1, <2>2, <2>3
<1>9. Candidate' = [height |-> b.height, hash |-> b.hash] /\ Deadline' = now + LockDuration
  BY <1>1, <1>4 DEF Candidate, Deadline, Info
<1>10. Optimistic!Propose(b.height, b.hash)
  BY <1>1, <1>5, <1>7, <1>8, <1>9 DEF Optimistic!Propose
<1> QED BY <1>6, <1>10 DEF Optimistic!Next

LEMMA PendingIsCandidate ==
  ASSUME ChainInv, InWindow
  PROVE  /\ Candidate = [height |-> untrustedHead.height, hash |-> untrustedHead.hash]
         /\ Candidate # NoCandidate /\ Deadline = lastValidAt
         /\ untrustedHead.height \in Heights /\ untrustedHead.height > head.height
<1>1. lastValidAt # 0
  BY DEF InWindow, ChainInv, BondInv, TypeOK
<1>2. IsInfo(untrustedHead) /\ untrustedHead.height > head.height
  BY <1>1 DEF ChainInv, Parked
<1>3. [height |-> untrustedHead.height, hash |-> untrustedHead.hash] \in [height : Nat, hash : Hashes]
  BY <1>2, InfoFacts
<1> QED BY <1>2, <1>3, InfoFacts, CandidateAssumption DEF Candidate, Deadline

LEMMA RefineChallenge ==
  ASSUME ChainInv, NEW i \in DOMAIN PendingProducers, Challenge(i)
  PROVE  Optimistic!Next
<1>1. /\ InWindow /\ lastValidAt' = 0
      /\ UNCHANGED <<blockHashes_, untrustedHead, now>> /\ now \in Nat /\ lastValidAt \in Nat
  BY DEF Challenge, PayRewardAndRollBack, NoWindow, trustVars, pendingVars, ChainInv, BondInv, TypeOK
<1>2. ~InWindow' /\ ~CommitDue' /\ ~CommitDue
  BY <1>1 DEF InWindow, CommitDue
<1>3. TrustedChain' = TrustedChain
  BY <1>1, <1>2 DEF TrustedChain, BlockHash
<1>4. Optimistic!Discard
  BY <1>1, <1>2, <1>3, PendingIsCandidate DEF Optimistic!Discard, Candidate, Deadline
<1> QED BY <1>4 DEF Optimistic!Next

LEMMA RefineTick ==
  ASSUME ChainInv, Tick
  PROVE  Optimistic!Next
<1>1. /\ now' = now + 1 /\ now \in Nat /\ lastValidAt \in Nat
      /\ UNCHANGED <<blockHashes_, untrustedHead, lastValidAt>>
      /\ blockHashes_ \in [Heights -> Hashes \cup {NoHash}] /\ head \in BlockInfos
  BY DEF Tick, trustVars, pendingVars, ChainInv, BondInv, TypeOK
<1>2. CASE InWindow /\ now' >= lastValidAt
  <2>1. ~CommitDue /\ ~InWindow' /\ CommitDue'
    BY <1>1, <1>2 DEF InWindow, CommitDue
  <2>2. untrustedHead.height \in Heights /\ blockHashes_[untrustedHead.height] = NoHash
    <3>1. untrustedHead.height \in Heights /\ untrustedHead.height > head.height
      BY <1>2, PendingIsCandidate
    <3>2. untrustedHead.height \in Nat /\ head.height \in Nat
      BY <1>1, <3>1, HeightsAreNat DEF BlockInfos
    <3>3. \A h \in Heights : blockHashes_[h] # NoHash => h <= head.height
      BY DEF ChainInv, Committed
    <3> QED BY <3>1, <3>2, <3>3
  <2>3. TrustedChain = blockHashes_
    BY <1>1, <2>1 DEF TrustedChain, BlockHash
  <2>4. TrustedChain' = [TrustedChain EXCEPT ![untrustedHead.height] = untrustedHead.hash]
    BY <1>1, <2>1, <2>2, <2>3 DEF TrustedChain, BlockHash
  <2>5. Optimistic!Advance
    BY <1>1, <1>2, <2>1, <2>4, PendingIsCandidate DEF Optimistic!Advance, Candidate, Deadline
  <2> QED BY <2>5 DEF Optimistic!Next
<1>3. CASE InWindow /\ ~(now' >= lastValidAt)
  <2>1. ~CommitDue /\ InWindow' /\ ~CommitDue'
    BY <1>1, <1>3 DEF InWindow, CommitDue
  <2>2. UNCHANGED <<TrustedChain, Candidate, Deadline>>
    BY <1>1, <1>3, <2>1 DEF TrustedChain, BlockHash, Candidate, Deadline
  <2>3. Optimistic!Advance
    BY <1>1, <1>3, <2>2, PendingIsCandidate DEF Optimistic!Advance
  <2> QED BY <2>3 DEF Optimistic!Next
<1>4. CASE ~InWindow
  <2>1. ~InWindow' /\ CommitDue' = CommitDue
    BY <1>1, <1>4 DEF InWindow, CommitDue
  <2>2. Candidate = NoCandidate /\ UNCHANGED <<TrustedChain, Candidate, Deadline>>
    BY <1>1, <1>4, <2>1 DEF TrustedChain, BlockHash, Candidate, Deadline
  <2>3. Optimistic!Advance
    BY <1>1, <2>2 DEF Optimistic!Advance
  <2> QED BY <2>3 DEF Optimistic!Next
<1> QED BY <1>2, <1>3, <1>4

LEMMA RefineNext == ChainInv /\ [Next]_vars => [Optimistic!Next]_Optimistic!vars
<1> SUFFICES ASSUME ChainInv, [Next]_vars PROVE Optimistic!Next \/ UNCHANGED Optimistic!vars
  OBVIOUS
<1>1. CASE UNCHANGED <<blockHashes_, untrustedHead, lastValidAt, now>>
  BY <1>1, RefineStutter
<1> QED BY <1>1, RefineInitWithBlock, RefineAdd, RefineChallenge, RefineTick
    DEF Next, vars, trustVars, pendingVars, Deposit, Withdraw, InitWithValidators

(* The hashes the contract shows are an append-only chain of blocks that   *)
(* each survived a whole challenge window, whatever is submitted,          *)
(* replaced, challenged or committed late.                                 *)
THEOREM TrustedIsAppendOnly == Spec => ImplementsOptimisticChain
BY RefineInit, RefineNext, ChainInvHolds, PTL DEF Spec, ImplementsOptimisticChain, Optimistic!Spec

-----------------------------------------------------------------------------
(* Producers.                                                              *)

FinalHash(x) == \E c \in Finalized : c.hash = x

CommittedFinal == \A h \in Heights : blockHashes_[h] # NoHash => FinalHash(blockHashes_[h])

PendingNext ==
  IF untrustedHeadIsFromNextEpoch THEN untrustedNextBlockProducers ELSE nextBlockProducers

(* The producers of the committed head are those Tezos elected, and so are *)
(* those of the pending block, whose announcement counts once it is final. *)
BeforeInit == ~initialized => currentBlockProducers \in InitialValidators \cup {<<>>}

ElectedCommitted ==
  initialized /\ CommittedFinal =>
    /\ currentBlockProducers = Validators[head.epochId]
    /\ nextBlockProducers = Validators[head.nextEpochId]

ElectedPending ==
  lastValidAt # 0 /\ CommittedFinal =>
    /\ PendingProducers = Validators[untrustedHead.epochId]
    /\ FinalHash(untrustedHead.hash) => PendingNext = Validators[untrustedHead.nextEpochId]

ElectedInv == BeforeInit /\ ElectedCommitted /\ ElectedPending

(* A list without producers has no stake.                                  *)
LEMMA NoStake == TotalStake(<<>>) = 0
<1> DEFINE Step(f) == [s \in SUBSET {} |->
                         IF s = {} THEN 0
                         ELSE <<>>[CHOOSE x \in s : TRUE].stake + f[s \ {CHOOSE x \in s : TRUE}]]
           sum == CHOOSE f : f = Step(f)
           zero == [s \in SUBSET {} |-> 0]
<1>1. DOMAIN <<>> = {}
  OBVIOUS
<1>2. StakeOf(<<>>, {}) = sum[{}]
  BY Zenon DEF StakeOf, MapThenSumSet, MapThenFoldSet
<1>3. zero = Step(zero)
  OBVIOUS
<1>4. sum = Step(sum)
  BY <1>3
<1>5. sum[{}] = 0
  BY <1>4
<1> QED BY <1>1, <1>2, <1>5 DEF TotalStake

(* Two blocks of an epoch that are final announce the same next epoch, and *)
(* a block with a final hash announces the producers Tezos elected for it. *)
LEMMA FinalEpochs ==
  ASSUME NEW b \in Blocks, NEW c \in Blocks, FinalHash(b.hash), FinalHash(c.hash)
  PROVE  /\ b.epochId = c.epochId => b.nextEpochId = c.nextEpochId
         /\ b.nextBpHash = Validators[b.nextEpochId]
<1>1. PICK d \in Finalized : d.hash = b.hash
  BY DEF FinalHash
<1>2. PICK e \in Finalized : e.hash = c.hash
  BY DEF FinalHash
<1>3. d \in Blocks /\ e \in Blocks
  BY ChainAssumption
<1>4. /\ d.epochId = b.epochId /\ d.nextEpochId = b.nextEpochId /\ d.nextBpHash = b.nextBpHash
      /\ e.epochId = c.epochId /\ e.nextEpochId = c.nextEpochId
  BY <1>1, <1>2, <1>3, ChainAssumption
<1>5. d.nextBpHash = Validators[d.nextEpochId]
      /\ (d.epochId = e.epochId => d.nextEpochId = e.nextEpochId)
  BY ChainAssumption
<1> QED BY <1>4, <1>5

(* Committed hashes stay: whatever is final afterwards was final before.   *)
LEMMA AddElected ==
  ASSUME ChainInv, ElectedInv, NEW a \in Accounts, NEW b \in Blocks, AddLightClientBlock(a, b)
  PROVE  ElectedCommitted' /\ ElectedPending'
<1>1. initialized /\ CommitOrReplace(b) /\ TypeOK
  BY DEF AddLightClientBlock, ChainInv, BondInv
<1>2. /\ IsInfo(head') /\ blockHashes_'[head'.height] = head'.hash
      /\ \A h \in Heights : blockHashes_'[h] = BlockHash(h)
  BY <1>1, CommitKeepsChain
<1>3. SUFFICES ASSUME CommittedFinal'
               PROVE  ElectedCommitted' /\ ElectedPending'
  BY DEF ElectedCommitted, ElectedPending
<1>4. CommittedFinal
  BY <1>2, <1>3 DEF CommittedFinal, BlockHash
<1>5. /\ currentBlockProducers' = Validators[head'.epochId]
      /\ nextBlockProducers' = Validators[head'.nextEpochId]
  <2>1. CASE CommitDue /\ CommitBlock
    <3>1. head' = untrustedHead /\ lastValidAt # 0
      BY <2>1 DEF CommitBlock, CommitDue
    <3>2. FinalHash(untrustedHead.hash)
      BY <1>2, <1>3, <3>1, InfoFacts DEF CommittedFinal
    <3> QED BY <1>4, <2>1, <3>1, <3>2 DEF CommitBlock, ElectedInv, ElectedPending, PendingNext
  <2>2. CASE UNCHANGED <<head, currentBlockProducers, nextBlockProducers, blockHashes_>>
    BY <1>1, <1>4, <2>2 DEF ElectedInv, ElectedCommitted
  <2> QED BY <1>1, <2>1, <2>2 DEF CommitOrReplace
<1>6. PICK fromNext \in BOOLEAN :
        /\ EpochIsKnown(b, fromNext) /\ (fromNext => NextBpsAnnounced(b))
        /\ ParkBlock(a, b, fromNext)
  BY DEF AddLightClientBlock
<1>7. /\ untrustedHead' = Info(b) /\ untrustedHeadIsFromNextEpoch' = fromNext
      /\ (fromNext => untrustedNextBlockProducers' = b.nextBps)
  BY <1>6 DEF ParkBlock
<1>8. untrustedHead'.epochId = b.epochId /\ untrustedHead'.nextEpochId = b.nextEpochId
      /\ untrustedHead'.hash = b.hash
  BY <1>7 DEF Info
<1>9. PendingProducers' = Validators[b.epochId]
  BY <1>5, <1>6, <1>7 DEF PendingProducers, EpochIsKnown
<1>10. ASSUME FinalHash(b.hash) PROVE PendingNext' = Validators[b.nextEpochId]
  <2>1. PICK g \in Blocks : head' = Info(g)
    BY <1>2 DEF IsInfo
  <2>2. FinalHash(g.hash) /\ head'.epochId = g.epochId /\ head'.nextEpochId = g.nextEpochId
    BY <1>2, <1>3, <2>1, InfoFacts DEF CommittedFinal, Info
  <2>3. CASE fromNext
    BY <1>6, <1>7, <1>10, <2>3, FinalEpochs DEF PendingNext, NextBpsAnnounced
  <2>4. CASE ~fromNext
    <3>1. b.epochId = g.epochId
      BY <1>6, <2>2, <2>4 DEF EpochIsKnown
    <3>2. b.nextEpochId = g.nextEpochId
      BY <1>10, <2>2, <3>1, FinalEpochs
    <3> QED BY <1>5, <1>7, <2>2, <2>4, <3>2 DEF PendingNext
  <2> QED BY <2>3, <2>4
<1> QED BY <1>5, <1>8, <1>9, <1>10 DEF ElectedCommitted, ElectedPending

LEMMA NextElected == ChainInv /\ ElectedInv /\ [Next]_vars => ElectedInv'
<1> SUFFICES ASSUME ChainInv, ElectedInv, [Next]_vars PROVE ElectedInv'
  OBVIOUS
<1>1. ASSUME NEW a \in Accounts, NEW b \in Blocks, AddLightClientBlock(a, b) PROVE ElectedInv'
  <2>1. BeforeInit'
    BY <1>1 DEF AddLightClientBlock, BeforeInit
  <2> QED BY <1>1, <2>1, AddElected DEF ElectedInv
<1>2. ASSUME NEW v \in InitialValidators, InitWithValidators(v) PROVE ElectedInv'
  BY <1>2 DEF InitWithValidators, ElectedInv, BeforeInit, ElectedCommitted, ElectedPending,
              ChainInv, BondInv, IdleBeforeInit
<1>3. ASSUME NEW b \in InitBlocks, InitWithBlock(b) PROVE ElectedInv'
  <2>1. /\ initialized' /\ head' = Info(b) /\ lastValidAt' = 0 /\ b \in Blocks
        /\ nextBlockProducers' = b.nextBps /\ b.nextBps # NoBps
        /\ currentBlockProducers' = currentBlockProducers
        /\ blockHashes_' = [blockHashes_ EXCEPT ![b.height] = b.hash]
    BY <1>3, BlockAssumption DEF InitWithBlock, ChainInv, BondInv, IdleBeforeInit
  <2>2. currentBlockProducers \in InitialValidators
    BY <1>3, NoStake DEF InitWithBlock, ElectedInv, BeforeInit
  <2>3. currentBlockProducers = Validators[b.epochId] /\ b.nextBps = b.nextBpHash
    BY <2>1, <2>2, ChainAssumption
  <2>4. ASSUME CommittedFinal' PROVE b.nextBpHash = Validators[b.nextEpochId]
    <3>1. b.height \in Heights /\ b.hash # NoHash /\ blockHashes_'[b.height] = b.hash
      BY <2>1, BlockAssumption DEF Heights, BlockRecords, ChainInv, BondInv, TypeOK
    <3>2. FinalHash(b.hash)
      BY <2>4, <3>1 DEF CommittedFinal
    <3> QED BY <2>1, <3>2, FinalEpochs
  <2> QED BY <2>1, <2>3, <2>4 DEF ElectedInv, BeforeInit, ElectedCommitted, ElectedPending, Info
<1>4. ASSUME NEW i \in DOMAIN PendingProducers, Challenge(i) PROVE ElectedInv'
  BY <1>4 DEF Challenge, PayRewardAndRollBack, NoWindow, trustVars, pendingVars, ElectedInv,
              BeforeInit, ElectedCommitted, ElectedPending, CommittedFinal
<1>5. CASE UNCHANGED <<trustVars, pendingVars, lastValidAt>>
  BY <1>5 DEF trustVars, pendingVars, ElectedInv, BeforeInit, ElectedCommitted, ElectedPending,
              CommittedFinal, PendingProducers, PendingNext
<1> QED BY <1>1, <1>2, <1>3, <1>4, <1>5 DEF Next, vars, Deposit, Withdraw, Tick

LEMMA ElectedInvHolds == Spec => []ElectedInv
<1>1. Init => ElectedInv
  BY DEF Init, ElectedInv, BeforeInit, ElectedCommitted, ElectedPending
<1> QED BY <1>1, NextElected, ChainInvHolds, PTL DEF Spec

(* What is shown as trusted is committed or about to be.                   *)
LEMMA TrustedIsCommitted ==
  ASSUME ChainInv, TrustedFinal
  PROVE  CommittedFinal /\ (CommitDue => FinalHash(untrustedHead.hash))
<1>1. CommittedFinal
  BY DEF TrustedFinal, CommittedFinal, FinalHash, BlockHash
<1>2. ASSUME CommitDue PROVE FinalHash(untrustedHead.hash)
  <2>1. IsInfo(untrustedHead) /\ untrustedHead.height > head.height
    BY <1>2 DEF ChainInv, Parked, CommitDue
  <2>2. untrustedHead.height \in Nat /\ head.height \in Nat
    BY <2>1, InfoFacts DEF ChainInv, BondInv, TypeOK, BlockInfos
  <2>3. untrustedHead.height \in Heights /\ untrustedHead.hash # NoHash
    BY <2>1, InfoFacts
  <2>4. blockHashes_[untrustedHead.height] = NoHash
    BY <2>1, <2>2, <2>3 DEF ChainInv, Committed
  <2>5. BlockHash(untrustedHead.height) = untrustedHead.hash
    BY <1>2, <2>4 DEF BlockHash
  <2> QED BY <2>3, <2>5 DEF TrustedFinal, FinalHash
<1> QED BY <1>1, <1>2

(* As long as only final blocks were trusted, the contract checks the next *)
(* block against the producers Tezos elected, across every switch of       *)
(* epoch, replacement and challenge.                                       *)
THEOREM ProducersAreElected == Spec => []EpochProducers
<1>1. ChainInv /\ ElectedInv => EpochProducers
  <2> SUFFICES ASSUME ChainInv, ElectedInv, initialized, TrustedFinal
               PROVE  /\ EffectiveCurrent = Validators[EffectiveHead.epochId]
                      /\ EffectiveNext = Validators[EffectiveHead.nextEpochId]
    BY DEF EpochProducers
  <2>1. CommittedFinal /\ (CommitDue => FinalHash(untrustedHead.hash))
    BY TrustedIsCommitted
  <2>2. CASE CommitDue
    BY <2>1, <2>2 DEF CommitDue, ElectedInv, ElectedPending, PendingNext, EffectiveCurrent,
                      EffectiveNext, EffectiveHead
  <2>3. CASE ~CommitDue
    BY <2>1, <2>3 DEF ElectedInv, ElectedCommitted, EffectiveCurrent, EffectiveNext, EffectiveHead
  <2> QED BY <2>2, <2>3
<1> QED BY <1>1, ChainInvHolds, ElectedInvHolds, PTL

-----------------------------------------------------------------------------
(* Honest submitters.                                                      *)

(* The approvals a challenge reads are written.                            *)
Written == untrustedApprovalCount <= Len(untrustedApprovals)

LEMMA NextWritten == BondInv /\ Written /\ [Next]_vars => Written'
<1> SUFFICES ASSUME BondInv, Written, [Next]_vars PROVE Written'
  OBVIOUS
<1>1. ASSUME NEW a \in Accounts, NEW b \in Blocks, AddLightClientBlock(a, b) PROVE Written'
  <2>1. untrustedApprovals' = Overwrite(untrustedApprovals, b.approvals)
        /\ untrustedApprovalCount' = Len(b.approvals)
    BY <1>1 DEF AddLightClientBlock, ParkBlock
  <2>2. untrustedApprovals \in Seq(Approvals) /\ b.approvals \in Seq(Approvals)
    BY BlockAssumption DEF BondInv, TypeOK, BlockRecords
  <2>3. Overwrite(untrustedApprovals, b.approvals) \in Seq(Approvals)
    BY <2>2, OverwriteSeq
  <2>4. DOMAIN b.approvals \subseteq DOMAIN Overwrite(untrustedApprovals, b.approvals)
    BY DEF Overwrite
  <2>5. Len(b.approvals) <= Len(Overwrite(untrustedApprovals, b.approvals))
    BY <2>2, <2>3, <2>4
  <2> QED BY <2>1, <2>5 DEF Written
<1>2. CASE UNCHANGED pendingVars
  BY <1>2 DEF pendingVars, Written
<1> QED BY <1>1, <1>2
    DEF Next, vars, Deposit, Withdraw, Challenge, InitWithValidators, InitWithBlock, Tick

LEMMA LoserIsGuilty ==
  ASSUME ChainInv, ElectedInv, QuorumInv, Written, [Next]_vars,
         NEW a \in Accounts, InWindow, TrustedFinal, a = lastSubmitter, balanceOf'[a] < balanceOf[a]
  PROVE  \E i \in 1 .. untrustedApprovalCount :
           /\ i \in DOMAIN Validators[untrustedHead.epochId]
           /\ untrustedApprovals[i] \notin {None, Validators[untrustedHead.epochId][i].key}
<1>0. TypeOK /\ balanceOf[a] \in {0, LockEthAmount} /\ LockEthAmount \in Nat \ {0}
  BY BondAssumption DEF ChainInv, BondInv, TypeOK
<1>1. ~UNCHANGED balanceOf
  BY <1>0
<1>2. ASSUME NEW c \in Accounts, Deposit(c) PROVE FALSE
  BY <1>0, <1>2 DEF Deposit, MayDeposit, TypeOK
<1>3. ASSUME NEW c \in Accounts, Withdraw(c) PROVE FALSE
  <2>1. c # a
    BY <1>0, <1>3 DEF Withdraw, MayWithdraw, InWindow, TypeOK
  <2> QED BY <1>0, <1>3, <2>1 DEF Withdraw, TypeOK
<1>4. PICK i \in DOMAIN PendingProducers : Challenge(i)
  BY <1>1, <1>2, <1>3 DEF Next, vars, bondVars, InitWithValidators, InitWithBlock,
                          AddLightClientBlock, Tick
<1>5. lastValidAt # 0
  BY <1>0 DEF InWindow, TypeOK
<1>6. PendingProducers = Validators[untrustedHead.epochId]
  BY <1>5, TrustedIsCommitted DEF ElectedInv, ElectedPending
<1>7. /\ Len(PendingProducers) <= untrustedApprovalCount
      /\ PendingProducers \in ProducerLists /\ untrustedApprovals \in Seq(Approvals)
      /\ untrustedApprovalCount \in Nat
  <2>1. PendingProducers \in ProducerLists /\ untrustedApprovals \in Seq(Approvals)
        /\ untrustedApprovalCount \in Nat
    BY <1>0 DEF TypeOK, PendingProducers
  <2>2. Len(SubSeq(untrustedApprovals, 1, untrustedApprovalCount)) = untrustedApprovalCount
    BY <2>1 DEF Written
  <2>3. Len(SubSeq(untrustedApprovals, 1, untrustedApprovalCount)) >= Len(PendingProducers)
    BY <1>5 DEF QuorumInv, CheckBp
  <2> QED BY <2>1, <2>2, <2>3
<1>8. i \in 1 .. Len(PendingProducers) /\ i \in DOMAIN untrustedApprovals
      /\ i \in 1 .. untrustedApprovalCount
  <2>1. i \in 1 .. Len(PendingProducers)
    BY <1>7 DEF ProducerLists
  <2>2. Len(PendingProducers) \in Nat /\ DOMAIN untrustedApprovals = 1 .. Len(untrustedApprovals)
    BY <1>7 DEF ProducerLists
  <2> QED BY <1>7, <2>1, <2>2 DEF Written
<1>9. untrustedApprovals[i] \notin {None, PendingProducers[i].key}
  BY <1>4, <1>8 DEF Challenge, SignatureFails, Approval
<1> QED BY <1>4, <1>6, <1>8, <1>9

(* As long as only final blocks were trusted, the last submitter loses its *)
(* bond only for a signature it submitted itself that is not the elected   *)
(* producer's.                                                             *)
THEOREM HonestIsNotSlashed == Spec => HonestKeepsBond
<1>1. Init => QuorumInv /\ Written
  BY DEF Init, QuorumInv, Written
<1>2. ChainInv => BondInv
  BY DEF ChainInv
<1>3. ChainInv /\ ElectedInv /\ QuorumInv /\ Written /\ [Next]_vars =>
        [ \A a \in Accounts :
            InWindow /\ TrustedFinal /\ a = lastSubmitter /\ balanceOf'[a] < balanceOf[a] =>
              \E i \in 1 .. untrustedApprovalCount :
                /\ i \in DOMAIN Validators[untrustedHead.epochId]
                /\ untrustedApprovals[i] \notin {None, Validators[untrustedHead.epochId][i].key}
        ]_vars
  BY LoserIsGuilty
<1> QED BY <1>1, <1>2, <1>3, ChainInvHolds, ElectedInvHolds, NextQuorum, NextWritten, PTL
        DEF Spec, HonestKeepsBond

-----------------------------------------------------------------------------
(* The block the node returns as the one that follows.                     *)

NatLess == OpToRel(<, Nat)

LEMMA NatLessWellFounded == IsWellFoundedOn(NatLess, Nat)
BY NatLessThanWellFounded DEF NatLess

LEMMA NatLessIsLess == \A x, y \in Nat : x < y => <<x, y>> \in NatLess
BY DEF NatLess, OpToRel

(* A set of numbers between 1 and n has a largest element.                 *)
LEMMA MaxOfInterval ==
  ASSUME NEW n \in Nat, NEW S \in SUBSET (1 .. n), S # {}
  PROVE  Max(S) \in S /\ \A y \in S : Max(S) >= y
<1> DEFINE T == {n - x : x \in S}
<1>1. T \subseteq Nat /\ T # {}
  <2>1. PICK x \in S : TRUE
    OBVIOUS
  <2>2. n - x \in T
    BY <2>1
  <2>3. ASSUME NEW y \in S PROVE n - y \in Nat
    <3>1. y \in 1 .. n
      OBVIOUS
    <3> QED BY <3>1
  <2>4. T \subseteq Nat
    BY <2>3
  <2> QED BY <2>2, <2>4
<1>2. PICK m \in T : \A y \in T : ~(<<y, m>> \in NatLess)
  <2> HIDE DEF T
  <2> QED BY <1>1, WFMin, NatLessWellFounded
<1>3. \A y \in T : ~(y < m)
  <2> HIDE DEF T
  <2> QED BY <1>1, <1>2, NatLessIsLess
<1>4. PICK x \in S : m = n - x
  OBVIOUS
<1>5. \A y \in S : x >= y
  <2> TAKE y \in S
  <2>1. n - y \in T
    OBVIOUS
  <2>2. ~(n - y < n - x)
    BY <1>3, <1>4, <2>1
  <2> QED BY <2>2
<1> QED BY <1>5 DEF Max

LEMMA UpToTip ==
  ASSUME tip \in DOMAIN Chain
  PROVE  tip \in Nat \ {0} /\ 1 .. tip \subseteq DOMAIN Chain /\ Len(Chain) \in Nat
BY NodeAssumption

LEMMA NextBlock ==
  ASSUME tip \in DOMAIN Chain, NEW hash, KnownToTezos(hash)
  PROVE  \E from \in 1 .. tip :
           /\ Chain[from].hash = hash
           /\ NextLightClientBlock(hash) \in 1 .. tip
           /\ \/ Chain[NextLightClientBlock(hash)].epochId = Chain[from].nextEpochId
              \/ /\ Chain[NextLightClientBlock(hash)].epochId = Chain[from].epochId
                 /\ NextLightClientBlock(hash) >= from
<1>1. PICK from : from = CHOOSE i \in 1 .. tip : Chain[i].hash = hash
  OBVIOUS
<1>2. from \in 1 .. tip /\ Chain[from].hash = hash
  BY <1>1 DEF KnownToTezos
<1>3. PICK later, same :
        /\ later = {i \in 1 .. tip : Chain[i].epochId = Chain[from].nextEpochId}
        /\ same = {i \in 1 .. tip : Chain[i].epochId = Chain[from].epochId}
  OBVIOUS
<1>4. PICK S : S = IF later # {} THEN later ELSE same
  OBVIOUS
<1>5. S \in SUBSET (1 .. tip) /\ S # {}
  BY <1>2, <1>3, <1>4
<1>6. NextLightClientBlock(hash) = Max(S)
  BY <1>1, <1>3, <1>4 DEF NextLightClientBlock
<1>7. Max(S) \in S /\ \A y \in S : Max(S) >= y
  BY <1>5, UpToTip, MaxOfInterval
<1>8. Max(S) \in 1 .. tip
  BY <1>5, <1>7
<1>9. CASE later # {}
  BY <1>2, <1>3, <1>4, <1>6, <1>7, <1>8, <1>9
<1>10. CASE later = {}
  <2>1. from \in S
    BY <1>2, <1>3, <1>4, <1>10
  <2>2. NextLightClientBlock(hash) \in S /\ NextLightClientBlock(hash) >= from
    BY <1>6, <1>7, <2>1
  <2>3. Chain[NextLightClientBlock(hash)].epochId = Chain[from].epochId
    BY <1>3, <1>4, <1>10, <2>2
  <2> QED BY <1>2, <1>6, <1>8, <2>2, <2>3
<1> QED BY <1>9, <1>10

LEMMA NextBlockInChain ==
  ASSUME tip \in DOMAIN Chain, NEW hash, KnownToTezos(hash)
  PROVE  NextLightClientBlock(hash) \in 1 .. tip
BY NextBlock
=============================================================================
