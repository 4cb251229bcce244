-------------------------- MODULE TezosToEthProofs --------------------------
(***************************************************************************)
(* Proofs about the Tezos-to-Ethereum direction at work, for any number of *)
(* callers and attempts, any gas prices, any bound on retries, mishaps and *)
(* broken connections and any growth of Tezos.                             *)
(***************************************************************************)
EXTENDS TezosToEthSystem, FiniteSetTheorems, WellFoundedInduction, TLAPS

NatLess == OpToRel(<, Nat)

(* A set of numbers that is not empty has a smallest element.              *)
LEMMA MinOfNats ==
  ASSUME NEW S \in SUBSET Nat, S # {}
  PROVE  Min(S) \in S /\ \A y \in S : Min(S) <= y
<1>1. PICK x \in S : \A y \in S : ~(<<y, x>> \in NatLess)
  <2>1. IsWellFoundedOn(NatLess, Nat)
    BY NatLessThanWellFounded DEF NatLess
  <2> QED BY <2>1, WFMin
<1>2. \A y \in S : x <= y
  <2> TAKE y \in S
  <2>1. y < x => <<y, x>> \in NatLess
    BY DEF NatLess, OpToRel
  <2> QED BY <1>1, <2>1
<1> QED BY <1>2 DEF Min

-----------------------------------------------------------------------------
(* The account the callers share.                                          *)

(* A pending transaction has the nonce its caller holds on to: no caller   *)
(* takes another one while the first can still be mined.  Every nonce      *)
(* below the account's is used up.                                         *)
Web3Inv ==
  /\ TypeOK
  /\ IsFiniteSet(pool) /\ IsFiniteSet(mined)
  /\ \A tx \in mined : tx.nonce < AccountNonce
  /\ \A tx \in pool : /\ AccountNonce <= tx.nonce
                      /\ tx.nonce = call[tx.owner].nonce
                      /\ call[tx.owner].pc \notin {"price", "nonce"}

LEMMA InitWeb3 == Init => Web3Inv
BY FS_EmptySet, RobustWeb3Assumption DEF Init, Web3Inv, TypeOK, AccountNonce

LEMMA AccountNonceIsNat == Web3Inv => AccountNonce \in Nat
BY FS_CardinalityType DEF Web3Inv, AccountNonce

(* There is a nonce that no pending transaction has.                       *)
LEMMA PendingNonceIsNat == Web3Inv => PendingNonce \in Nat
<1> SUFFICES ASSUME Web3Inv PROVE PendingNonce \in Nat
  OBVIOUS
<1> DEFINE K == Cardinality(pool)
           Tried == AccountNonce .. AccountNonce + K
           Free == {n \in Tried : \A tx \in pool : tx.nonce # n}
<1>1. AccountNonce \in Nat /\ K \in Nat
  BY AccountNonceIsNat, FS_CardinalityType DEF Web3Inv
<1>2. IsFiniteSet(Tried) /\ K < Cardinality(Tried)
  <2>1. IsFiniteSet(Tried) /\ Cardinality(Tried) = K + 1
    BY <1>1, FS_Interval
  <2> QED BY <1>1, <2>1
<1>3. ASSUME Free = {} PROVE FALSE
  <2> DEFINE f == [n \in Tried |-> CHOOSE tx \in pool : tx.nonce = n]
  <2>1. \A n \in Tried : f[n] \in pool /\ f[n].nonce = n
    BY <1>3
  <2>2. f \in [Tried -> pool]
    BY <2>1
  <2>3. \E x, y \in Tried : x # y /\ f[x] = f[y]
    <3> HIDE DEF f, Tried
    <3> QED BY <1>2, <2>2, FS_PigeonHole DEF Web3Inv
  <2> QED BY <2>1, <2>3
<1>4. Free \subseteq Nat
  BY <1>1
<1>5. Min(Free) \in Free
  <2> HIDE DEF Free
  <2> QED BY <1>3, <1>4, MinOfNats
<1> QED BY <1>4, <1>5 DEF PendingNonce

(* What one caller does, the loss of its connection and its end included.  *)
CallerStep(c) == Step(c) \/ Reconnect(c)

CallRecords ==
  [pc : {"price", "nonce", "send", "wait", "done", "failed"}, gasPrice : Nat, nonce : Nat,
   resent : BOOLEAN, breaks : 0 .. MaxBreaks]

(* A step that changes only what the caller holds, and its nonce only when *)
(* it has nothing pending.                                                 *)
LEMMA CallChanged ==
  ASSUME Web3Inv, NEW c \in Callers, NEW new \in CallRecords,
         call' = [call EXCEPT ![c] = new], UNCHANGED <<pool, mined>>,
         \/ \A tx \in pool : tx.owner # c
         \/ new.nonce = call[c].nonce /\ new.pc \notin {"price", "nonce"}
  PROVE  Web3Inv'
<1>1. TypeOK'
  BY DEF Web3Inv, TypeOK, CallRecords
<1>2. \A tx \in pool : tx.nonce = call'[tx.owner].nonce
                       /\ call'[tx.owner].pc \notin {"price", "nonce"}
  BY DEF Web3Inv, TypeOK
<1> QED BY <1>1, <1>2 DEF Web3Inv, AccountNonce

LEMMA CallerKeepsWeb3 ==
  ASSUME Web3Inv, NEW c \in Callers, CallerStep(c)
  PROVE  Web3Inv'
<1>1. call \in [Callers -> CallRecords] /\ call[c] \in CallRecords
  BY DEF Web3Inv, TypeOK, CallRecords
<1>2. call[c].pc \in {"price", "nonce"} => \A tx \in pool : tx.owner # c
  BY DEF Web3Inv
<1> DEFINE Kept(new) == new.nonce = call[c].nonce /\ new.pc \notin {"price", "nonce"}
<1>3. CASE ReadGasPrice(c)
  <2> DEFINE new == [call[c] EXCEPT !.pc = "nonce", !.gasPrice = GasPrice]
  <2>1. new \in CallRecords
    BY <1>1, RobustWeb3Assumption DEF CallRecords
  <2>2. call' = [call EXCEPT ![c] = new]
    BY <1>1, <1>3 DEF ReadGasPrice
  <2> QED BY <1>2, <1>3, <2>1, <2>2, CallChanged DEF ReadGasPrice
<1>4. CASE ReadNonce(c)
  <2> DEFINE new == [call[c] EXCEPT !.pc = "send", !.nonce = PendingNonce]
  <2>1. new \in CallRecords
    BY <1>1, PendingNonceIsNat DEF CallRecords
  <2>2. call' = [call EXCEPT ![c] = new]
    BY <1>1, <1>4 DEF ReadNonce
  <2> QED BY <1>2, <1>4, <2>1, <2>2, CallChanged DEF ReadNonce
<1>5. CASE Send(c)
  <2>1. /\ Transaction(c).owner = c /\ Transaction(c).nonce = call[c].nonce
        /\ Transaction(c).price \in Nat
    BY <1>1, RobustWeb3Assumption DEF Transaction, CallRecords
  <2>2. IsFiniteSet(pool')
    BY <1>5, FS_AddElement DEF Send, Web3Inv
  <2>3. TypeOK'
    BY <1>1, <1>5, <2>1 DEF Send, Set, Web3Inv, TypeOK, CallRecords
  <2>4. \A tx \in pool' : /\ AccountNonce' <= tx.nonce
                          /\ tx.nonce = call'[tx.owner].nonce
                          /\ call'[tx.owner].pc \notin {"price", "nonce"}
    BY <1>1, <1>5, <2>1 DEF Send, Set, Web3Inv, TypeOK, AccountNonce
  <2> QED BY <1>5, <2>2, <2>3, <2>4 DEF Send, Web3Inv, AccountNonce
<1>6. CASE NonceError(c)
  <2> DEFINE new == [call[c] EXCEPT !.nonce = NextNonce(c)]
  <2>1. new \in CallRecords
    BY <1>1 DEF NextNonce, CallRecords
  <2>2. call' = [call EXCEPT ![c] = new]
    BY <1>1, <1>6 DEF NonceError
  <2>3. \A tx \in pool : tx.owner # c
    BY <1>1, <1>6, AccountNonceIsNat DEF NonceError, Web3Inv, TypeOK
  <2> QED BY <1>6, <2>1, <2>2, <2>3, CallChanged DEF NonceError
<1>7. CASE Throw(c) \/ Receipt(c)
  <2>1. PICK end \in {"done", "failed"} : call' = [call EXCEPT ![c].pc = end]
    BY <1>7 DEF Throw, Receipt, Set
  <2> DEFINE new == [call[c] EXCEPT !.pc = end]
  <2>2. new \in CallRecords /\ Kept(new)
    BY <1>1 DEF CallRecords
  <2>3. call' = [call EXCEPT ![c] = new]
    BY <1>1, <2>1
  <2> QED BY <1>7, <2>2, <2>3, CallChanged DEF Throw, Receipt
<1>8. CASE SlowTransaction(c)
  <2>1. call[c].gasPrice * 2 \in Nat /\ call[c].pc = "wait"
    BY <1>1, <1>8 DEF CallRecords, SlowTransaction
  <2>2. AfterTimeout(c) \in CallRecords
    BY <1>1, <2>1 DEF AfterTimeout, CallRecords
  <2>3. Kept(AfterTimeout(c))
    BY <1>1, <2>1 DEF AfterTimeout, CallRecords
  <2> QED BY <1>8, <2>2, <2>3, CallChanged DEF SlowTransaction
<1>9. CASE Reconnect(c)
  <2> DEFINE new == [call[c] EXCEPT !.pc = "send", !.resent = TRUE, !.breaks = @ + 1]
  <2>1. call[c].breaks + 1 \in 0 .. MaxBreaks /\ call[c].pc = "wait"
    BY <1>1, <1>9, RobustWeb3Assumption DEF Reconnect, CallRecords
  <2>2. new \in CallRecords /\ Kept(new)
    BY <1>1, <2>1 DEF CallRecords
  <2>3. call' = [call EXCEPT ![c] = new]
    BY <1>1, <1>9 DEF Reconnect
  <2> QED BY <1>9, <2>2, <2>3, CallChanged DEF Reconnect
<1> QED BY <1>3, <1>4, <1>5, <1>6, <1>7, <1>8, <1>9 DEF CallerStep, Step

LEMMA MineKeepsWeb3 ==
  ASSUME Web3Inv, Mine
  PROVE  Web3Inv'
<1>1. PICK tx \in pool : /\ tx.nonce = AccountNonce
                         /\ mined' = mined \cup {tx}
                         /\ pool' = {other \in pool : other.nonce # tx.nonce}
  BY DEF Mine
<1>2. call' = call
  BY DEF Mine
<1>3. AccountNonce \in Nat
  BY AccountNonceIsNat
<1>4. tx \notin mined
  BY <1>1, <1>3 DEF Web3Inv, TypeOK
<1>5. IsFiniteSet(mined') /\ AccountNonce' = AccountNonce + 1
  BY <1>1, <1>4, FS_AddElement DEF Web3Inv, AccountNonce
<1>6. IsFiniteSet(pool')
  BY <1>1, FS_Subset DEF Web3Inv
<1>7. TypeOK'
  BY <1>1, <1>2, <1>3 DEF Web3Inv, TypeOK
<1>8. \A t \in mined' : t.nonce < AccountNonce'
  BY <1>1, <1>3, <1>5 DEF Web3Inv, TypeOK
<1>9. \A t \in pool' : AccountNonce' <= t.nonce
  BY <1>1, <1>3, <1>5 DEF Web3Inv, TypeOK
<1> QED BY <1>1, <1>2, <1>5, <1>6, <1>7, <1>8, <1>9 DEF Web3Inv

LEMMA InterruptKeepsWeb3 ==
  ASSUME Web3Inv, Interrupted
  PROVE  Web3Inv'
<1>1. \A c \in Callers : call'[c] \in CallRecords /\ call'[c].nonce = call[c].nonce
                          /\ call'[c].pc \in {call[c].pc, "failed"}
  BY DEF Interrupted, Web3Inv, TypeOK, CallRecords
<1>2. call' \in [Callers -> CallRecords]
  BY <1>1 DEF Interrupted
<1>3. UNCHANGED <<pool, mined>>
  BY DEF Interrupted
<1>4. TypeOK'
  BY <1>2, <1>3 DEF Web3Inv, TypeOK, CallRecords
<1> QED BY <1>1, <1>3, <1>4 DEF Web3Inv, TypeOK, AccountNonce

LEMMA NextWeb3 == Web3Inv /\ [SysNext]_sysVars => Web3Inv'
<1> SUFFICES ASSUME Web3Inv, [SysNext]_sysVars PROVE Web3Inv'
  OBVIOUS
<1>1. ASSUME UNCHANGED web3Vars PROVE Web3Inv'
  BY <1>1 DEF web3Vars, Web3Inv, TypeOK, AccountNonce
<1>2. ASSUME NEW u \in Attempts, AttemptStep(u) PROVE Web3Inv'
  BY <1>2, CallerKeepsWeb3, SystemAssumption DEF AttemptStep, CallerStep
<1>3. CASE RelayStep
  BY <1>3, CallerKeepsWeb3, SystemAssumption DEF RelayStep, CallerStep
<1>4. CASE Disconnect
  BY <1>4, CallerKeepsWeb3 DEF Disconnect, CallerStep
<1>5. CASE MineTransaction
  BY <1>5, MineKeepsWeb3 DEF MineTransaction
<1>6. CASE Interrupted
  BY <1>6, InterruptKeepsWeb3
<1>7. CASE Command \/ (\E u \in Attempts : StartUnlock(u)) \/ TezosBlock \/ ExecuteWithdrawal
           \/ LightClient \/ CommandMishap \/ UNCHANGED sysVars
  BY <1>1, <1>7 DEF Command, StartUnlock, Goto, TezosBlock, ExecuteWithdrawal, LightClient,
       CommandMishap, sysVars, web3Vars
<1> QED BY <1>2, <1>3, <1>4, <1>5, <1>6, <1>7 DEF SysNext, RunCommand, Chains

LEMMA Web3InvHolds == SysSpec => []Web3Inv
BY InitWeb3, NextWeb3, PTL DEF SysSpec, SysInit

(* Whatever a caller of callContract sends again replaces what it sent     *)
(* before: no second transaction of its waits to be executed too.          *)
THEOREM ResendsAreReplacements == SysSpec => []ResendsReplace
<1>1. Web3Inv => ResendsReplace
  BY DEF Web3Inv, ResendsReplace
<1> QED BY <1>1, Web3InvHolds, PTL

-----------------------------------------------------------------------------
(* The calls on Tezos.                                                     *)

SignedTxs ==
  [nonce : Nat, status : {"signed", "sent", "success", "nonce", "failure"}, height : Nat,
   call : Nat, threw : BOOLEAN]

Senders ==
  [pc : {"off", "send", "status", "returned", "threw"}, nonce : Nat, tries : Int,
   resendLast : BOOLEAN, tx : Nat]

(* Sending threw, or the nonce was refused: then a new transaction of the  *)
(* same call may be signed.                                                *)
MaySignAnew(tx) == tx.threw \/ tx.status = "nonce"

SenderInv ==
  /\ sender \in Senders /\ txs \in Seq(SignedTxs)
  /\ calls \in Nat /\ keyNonce \in Nat /\ tezosHeight \in Nat
  \* transactions are in the order of their calls, and a second one of the
  \* same call was signed for a reason
  /\ \A i \in DOMAIN txs : txs[i].call <= calls
  /\ \A i, j \in DOMAIN txs : i < j => txs[i].call <= txs[j].call
  /\ \A i \in DOMAIN txs : i + 1 \in DOMAIN txs /\ txs[i].call = txs[i + 1].call
                            => MaySignAnew(txs[i])
  \* the process knows the last transaction, or none of this call
  /\ sender.tx \in {0, Len(txs)}
  /\ sender.tx = 0 => ~sender.resendLast /\ sender.pc \notin {"status", "returned"}
  /\ sender.tx = 0 /\ sender.pc # "off" => \A i \in DOMAIN txs : txs[i].call < calls
  /\ sender.tx # 0 /\ sender.pc = "send" => sender.resendLast \/ MaySignAnew(txs[sender.tx])
  /\ sender.pc = "status" => ~sender.resendLast
  /\ sender.pc = "returned" => txs[sender.tx].status = "success"

(* What was executed stays so, and what is executed next is in the next    *)
(* block.                                                                  *)
ChainGrows ==
  /\ \A i \in Executed : i \in Executed' /\ txs'[i].height = txs[i].height
  /\ \A i \in Executed' \ Executed : txs'[i].height = tezosHeight + 1
  /\ tezosHeight' >= tezosHeight

LEMMA SignedAre ==
  ASSUME NEW seq \in Seq(SignedTxs)
  PROVE  /\ Len(seq) \in Nat /\ DOMAIN seq = 1 .. Len(seq)
         /\ \A i \in DOMAIN seq :
              /\ seq[i] \in SignedTxs /\ seq[i].nonce \in Nat /\ seq[i].height \in Nat
              /\ seq[i].call \in Nat /\ seq[i].threw \in BOOLEAN
              /\ seq[i].status \in {"signed", "sent", "success", "nonce", "failure"}
<1>1. \A i \in DOMAIN seq : seq[i] \in SignedTxs
  OBVIOUS
<1> QED BY <1>1 DEF SignedTxs

LEMMA InitSender == TezosInit => SenderInv
BY DEF TezosInit, SenderInv, SenderOff, Senders

LEMMA SenderUnchanged ==
  ASSUME SenderInv, UNCHANGED <<senderVars, keyNonce>>, tezosHeight' \in Nat,
         tezosHeight' >= tezosHeight
  PROVE  SenderInv' /\ ChainGrows
BY DEF SenderInv, ChainGrows, Executed, senderVars

(* A call begins, and a process ends.                                      *)
LEMMA CallBegins ==
  ASSUME SenderInv, tezosJsonContractFunctionCall
  PROVE  SenderInv' /\ ChainGrows
<1>1. /\ sender' = [pc |-> "send", nonce |-> keyNonce, tries |-> 0, resendLast |-> FALSE, tx |-> 0]
      /\ calls' = calls + 1
      /\ UNCHANGED <<txs, keyNonce, tezosHeight>>
  BY DEF tezosJsonContractFunctionCall, SenderOff
<1>2. \A i \in DOMAIN txs : txs[i].call \in Nat
  BY SignedAre DEF SenderInv
<1> QED BY <1>1, <1>2 DEF SenderInv, Senders, ChainGrows, Executed

LEMMA SenderGone ==
  ASSUME SenderInv, SenderEnds
  PROVE  SenderInv' /\ ChainGrows
BY DEF SenderInv, SenderEnds, SenderOff, Senders, ChainGrows, Executed

(* The process moves on without a transaction.                             *)
LEMMA SenderMoves ==
  ASSUME SenderInv, Result \/ GiveUp \/ NoResult \/ StillRunning
  PROVE  SenderInv' /\ ChainGrows
<1>1. UNCHANGED <<txs, keyNonce, tezosHeight, calls>>
  BY DEF Result, GiveUp, NoResult, StillRunning
<1>2. ChainGrows
  BY <1>1 DEF ChainGrows, Executed, SenderInv
<1>3. /\ sender' \in Senders /\ sender'.tx = sender.tx
      /\ sender.pc # "off"
      /\ sender.tx = 0 => ~sender'.resendLast /\ sender'.pc \notin {"status", "returned"}
      /\ sender.tx # 0 /\ sender'.pc = "send" => sender'.resendLast \/ MaySignAnew(txs[sender.tx])
      /\ sender'.pc = "status" => ~sender'.resendLast
      /\ sender'.pc = "returned" => txs[sender.tx].status = "success"
  BY DEF Result, GiveUp, NoResult, StillRunning, AfterNoResult, SenderInv, Senders, Status, MaySignAnew
<1> QED BY <1>1, <1>2, <1>3 DEF SenderInv

(* What is broadcast is the last transaction of the list.                  *)
LEMMA BroadcastKeepsSender ==
  ASSUME SenderInv, NEW delivered \in BOOLEAN, NEW answered \in BOOLEAN,
         Broadcast(delivered, answered)
  PROVE  SenderInv' /\ ChainGrows
<1> DEFINE known == IF sender.resendLast THEN txs ELSE Signed
           n == Len(known)
           fresh == [nonce |-> sender.nonce + 1, status |-> "signed", height |-> 0,
                     call |-> calls, threw |-> FALSE]
<1>1. fresh \in SignedTxs
  BY DEF SenderInv, Senders, SignedTxs
<1>2. known \in Seq(SignedTxs) /\ n \in Nat \ {0}
  BY <1>1 DEF SenderInv, Signed, Senders
<1>3. /\ txs' = [known EXCEPT ![n] = Sent(@, delivered, answered)]
      /\ sender' = [sender EXCEPT
                      !.tries = @ + 1, !.tx = n, !.nonce = known[n].nonce,
                      !.pc = IF answered THEN "status" ELSE "send",
                      !.resendLast = @ /\ ~answered]
      /\ UNCHANGED <<keyNonce, tezosHeight, calls>>
  <2>1. CASE sender.resendLast
    BY <2>1 DEF Broadcast, SenderInv
  <2>2. CASE ~sender.resendLast
    BY <2>2 DEF Broadcast
  <2> QED BY <2>1, <2>2
<1>4. known[n] \in SignedTxs /\ DOMAIN known = 1 .. n
  BY <1>2
<1>5. /\ Sent(known[n], delivered, answered) \in SignedTxs
      /\ Sent(known[n], delivered, answered).call = known[n].call
      /\ known[n].status = "success" <=> Sent(known[n], delivered, answered).status = "success"
      /\ Sent(known[n], delivered, answered).height = known[n].height
      /\ ~answered => Sent(known[n], delivered, answered).threw
  BY <1>4 DEF Sent, SignedTxs
<1>6. /\ txs' \in Seq(SignedTxs) /\ Len(txs') = n
      /\ \A i \in 1 .. n - 1 : txs'[i] = known[i]
      /\ txs'[n] = Sent(known[n], delivered, answered)
  BY <1>2, <1>3, <1>4, <1>5
<1>7. /\ \A i \in DOMAIN known : known[i].call <= calls
      /\ \A i, j \in DOMAIN known : i < j => known[i].call <= known[j].call
      /\ \A i \in DOMAIN known : i + 1 \in DOMAIN known /\ known[i].call = known[i + 1].call
                                => MaySignAnew(known[i])
      /\ \A i \in DOMAIN txs : i \in DOMAIN known /\ known[i] = txs[i]
      /\ \A i \in DOMAIN known \ DOMAIN txs : known[i].status = "signed"
  <2>1. CASE sender.resendLast
    BY <2>1 DEF SenderInv
  <2>2. CASE ~sender.resendLast
    <3>1. known = Append(txs, fresh) /\ txs \in Seq(SignedTxs)
      BY <2>2 DEF Signed, SenderInv
    <3>2. /\ n = Len(txs) + 1 /\ known[n] = fresh /\ DOMAIN txs = 1 .. Len(txs)
          /\ \A i \in 1 .. Len(txs) : known[i] = txs[i]
      BY <3>1
    <3>3. ASSUME Len(txs) \in DOMAIN txs, txs[Len(txs)].call = calls
          PROVE  MaySignAnew(txs[Len(txs)])
      BY <2>2, <3>3 DEF SenderInv, Broadcast, Senders
    <3>4. calls \in Nat /\ Len(txs) \in Nat /\ fresh.call = calls /\ fresh.status = "signed"
      BY DEF SenderInv
    <3>5. \A i \in 1 .. n : i = n \/ i \in 1 .. Len(txs)
      <4> HIDE DEF known, n, fresh
      <4> QED BY <3>2, <3>4
    <3> HIDE DEF known, n, fresh
    <3>6. \A i \in DOMAIN known : known[i].call <= calls
      BY <1>4, <3>2, <3>4, <3>5 DEF SenderInv
    <3>7. \A i, j \in DOMAIN known : i < j => known[i].call <= known[j].call
      BY <1>4, <3>2, <3>4, <3>5 DEF SenderInv
    <3>8. \A i \in DOMAIN known : i + 1 \in DOMAIN known /\ known[i].call = known[i + 1].call
                                => MaySignAnew(known[i])
      BY <1>4, <3>2, <3>3, <3>4, <3>5 DEF SenderInv
    <3> QED BY <1>4, <3>2, <3>4, <3>5, <3>6, <3>7, <3>8
  <2> QED BY <2>1, <2>2
<1>8. /\ sender' \in Senders /\ sender'.tx = n
      /\ sender'.pc = IF answered THEN "status" ELSE "send"
      /\ answered => ~sender'.resendLast
  <2>1. known[n].nonce \in Nat /\ n \in Nat
    BY <1>2, <1>4 DEF SignedTxs
  <2> HIDE DEF known, n, fresh
  <2>2. sender \in Senders
    BY DEF SenderInv
  <2>3. PICK last \in BOOLEAN, pc \in {"status", "send"} :
          /\ last = (sender.resendLast /\ ~answered)
          /\ pc = IF answered THEN "status" ELSE "send"
    OBVIOUS
  <2>4. sender' = [sender EXCEPT !.tries = @ + 1, !.tx = n, !.nonce = known[n].nonce,
                                 !.pc = pc, !.resendLast = last]
    BY <1>3, <2>3
  <2>5. sender.tries + 1 \in Int
    BY <2>2 DEF Senders
  <2>6. sender' \in Senders
    BY <2>1, <2>2, <2>4, <2>5, Zenon DEF Senders
  <2>7. sender'.tx = n /\ sender'.pc = pc /\ sender'.resendLast = last
    BY <2>2, <2>4 DEF Senders
  <2> QED BY <2>3, <2>6, <2>7
<1> HIDE DEF known, n, fresh
<1>9. /\ \A i \in 1 .. n : txs'[i].call = known[i].call
      /\ \A i \in 1 .. n - 1 : txs'[i] = known[i]
  BY <1>5, <1>6
<1>10. SenderInv'
  <2>1. \A i \in 1 .. n : txs'[i].call <= calls'
    BY <1>3, <1>4, <1>7, <1>9
  <2>2. \A i, j \in 1 .. n : i < j => txs'[i].call <= txs'[j].call
    BY <1>4, <1>7, <1>9
  <2>3. \A i \in 1 .. n : i + 1 \in 1 .. n /\ txs'[i].call = txs'[i + 1].call => MaySignAnew(txs'[i])
    BY <1>2, <1>4, <1>7, <1>9
  <2>4. ~answered => MaySignAnew(txs'[n])
    BY <1>5, <1>6 DEF MaySignAnew
  <2>5. DOMAIN txs' = 1 .. n
    BY <1>6
  <2> QED BY <1>2, <1>3, <1>6, <1>8, <2>1, <2>2, <2>3, <2>4, <2>5 DEF SenderInv
<1>11. \A i \in 1 .. n : /\ txs'[i].status = "success" <=> known[i].status = "success"
                         /\ txs'[i].height = known[i].height
  BY <1>5, <1>6
<1>12. DOMAIN txs' = 1 .. n
  BY <1>6
<1> QED BY <1>3, <1>4, <1>7, <1>10, <1>11, <1>12 DEF ChainGrows, Executed, SenderInv

(* Tezos executes a transaction, or refuses its nonce.                     *)
LEMMA ExecuteKeepsSender ==
  ASSUME SenderInv, NEW i \in DOMAIN txs, ExecuteTx(i)
  PROVE  SenderInv' /\ ChainGrows
<1>1. PICK status \in {"success", "nonce", "failure"}, height \in {txs[i].height, tezosHeight + 1} :
        /\ txs' = [txs EXCEPT ![i].status = status, ![i].height = height]
        /\ status = "success" => height = tezosHeight + 1
  <2>1. txs \in Seq(SignedTxs) /\ txs[i] \in SignedTxs
    BY DEF SenderInv
  <2>2. \A status : [txs EXCEPT ![i].status = status] =
                     [txs EXCEPT ![i].status = status, ![i].height = txs[i].height]
    BY <2>1 DEF SignedTxs
  <2>3. CASE txs[i].nonce <= keyNonce
    BY <2>2, <2>3 DEF ExecuteTx
  <2>4. CASE ~(txs[i].nonce <= keyNonce)
    BY <2>2, <2>4 DEF ExecuteTx
  <2> QED BY <2>3, <2>4
<1>2. /\ txs[i].status = "sent" /\ UNCHANGED <<sender, calls>>
      /\ keyNonce' \in Nat /\ tezosHeight' \in Nat /\ tezosHeight' >= tezosHeight
  BY SignedAre DEF ExecuteTx, SenderInv
<1>3. /\ txs' \in Seq(SignedTxs) /\ Len(txs') = Len(txs) /\ DOMAIN txs' = DOMAIN txs
      /\ \A j \in DOMAIN txs : j # i => txs'[j] = txs[j]
      /\ txs'[i].call = txs[i].call /\ txs'[i].threw = txs[i].threw
      /\ txs'[i].status = status /\ txs'[i].height = height
  <2>1. txs \in Seq(SignedTxs) /\ txs[i] \in SignedTxs /\ height \in Nat
    BY SignedAre DEF SenderInv
  <2>2. [txs[i] EXCEPT !.status = status, !.height = height] \in SignedTxs
    BY <2>1 DEF SignedTxs
  <2>3. txs' = [txs EXCEPT ![i] = [txs[i] EXCEPT !.status = status, !.height = height]]
    BY <1>1, <2>1
  <2>4. /\ txs' \in Seq(SignedTxs) /\ Len(txs') = Len(txs) /\ DOMAIN txs' = DOMAIN txs
        /\ \A j \in DOMAIN txs : j # i => txs'[j] = txs[j]
        /\ txs'[i] = [txs[i] EXCEPT !.status = status, !.height = height]
    BY <2>1, <2>2, <2>3
  <2> QED BY <2>1, <2>4 DEF SignedTxs
<1>4. \A j \in DOMAIN txs : /\ txs'[j].call = txs[j].call
                            /\ MaySignAnew(txs[j]) => MaySignAnew(txs'[j])
                            /\ txs[j].status = "success" => txs'[j].status = "success"
  BY <1>2, <1>3 DEF MaySignAnew
<1>5. sender.tx # 0 => sender.tx \in DOMAIN txs
  BY DEF SenderInv, Senders
<1>6. SenderInv'
  <2>1. /\ \A j \in DOMAIN txs' : txs'[j].call <= calls'
        /\ \A j, k \in DOMAIN txs' : j < k => txs'[j].call <= txs'[k].call
    BY <1>2, <1>3, <1>4 DEF SenderInv
  <2>2. \A j \in DOMAIN txs' : j + 1 \in DOMAIN txs' /\ txs'[j].call = txs'[j + 1].call
                             => MaySignAnew(txs'[j])
    BY <1>3, <1>4 DEF SenderInv
  <2>3. sender.tx = 0 /\ sender.pc # "off" => \A j \in DOMAIN txs' : txs'[j].call < calls'
    BY <1>2, <1>3, <1>4 DEF SenderInv
  <2> QED BY <1>2, <1>3, <1>4, <1>5, <2>1, <2>2, <2>3 DEF SenderInv
<1> QED BY <1>1, <1>2, <1>3, <1>6 DEF ChainGrows, Executed

LEMMA WithdrawKeepsSender ==
  ASSUME SenderInv, SenderStep \/ SenderMishap
  PROVE  SenderInv' /\ ChainGrows
BY SenderMoves, BroadcastKeepsSender DEF SenderStep, SenderMishap

LEMMA NextSender == SenderInv /\ [SysNext]_sysVars => SenderInv' /\ ChainGrows
<1> SUFFICES ASSUME SenderInv, [SysNext]_sysVars PROVE SenderInv' /\ ChainGrows
  OBVIOUS
<1>1. ASSUME UNCHANGED tezosVars PROVE SenderInv' /\ ChainGrows
  <2>1. tezosHeight \in Nat
    BY DEF SenderInv
  <2> QED BY <1>1, <2>1, SenderUnchanged DEF tezosVars
<1>2. CASE Command
  <2>1. CASE Execute
    BY <1>1, <2>1, CallBegins DEF Execute
  <2>2. CASE Withdraw
    BY <2>2, WithdrawKeepsSender, SenderGone DEF Withdraw
  <2>3. CASE FindWithdrawInBlock \/ ReadHeight \/ WaitBlock \/ GetProof \/ Prove \/ DeleteTransferLog
    BY <1>1, <2>3 DEF FindWithdrawInBlock, ReadHeight, WaitBlock, GetProof, Prove, DeleteTransferLog
  <2> QED BY <1>2, <2>1, <2>2, <2>3 DEF Command, TransferStep
<1>3. CASE CommandMishap
  BY <1>3, WithdrawKeepsSender DEF CommandMishap
<1>4. CASE Interrupted
  BY <1>4, SenderGone DEF Interrupted, Interrupt, TornRecord
<1>5. CASE TezosBlock
  BY <1>5, SenderUnchanged DEF TezosBlock, SenderInv
<1>6. CASE ExecuteWithdrawal
  BY <1>6, ExecuteKeepsSender DEF ExecuteWithdrawal
<1>7. CASE LightClient
  BY <1>1, <1>7 DEF LightClient
<1>8. CASE (\E u \in Attempts : StartUnlock(u) \/ AttemptStep(u)) \/ RelayStep \/ Disconnect
           \/ MineTransaction \/ UNCHANGED sysVars
  BY <1>1, <1>8 DEF StartUnlock, AttemptStep, RelayStep, Disconnect, MineTransaction,
       tezosSideVars, sysVars
<1> QED BY <1>2, <1>3, <1>4, <1>5, <1>6, <1>7, <1>8 DEF SysNext, RunCommand, Chains

LEMMA SenderInvHolds == SysSpec => []SenderInv
<1>1. SysInit => SenderInv
  BY InitSender DEF SysInit, TransferInit
<1> QED BY <1>1, NextSender, PTL DEF SysSpec

(* One call of signAndSendTransaction executes its withdrawal twice only   *)
(* when sending threw in between: for want of an answer it sends the same  *)
(* transaction again, and a refused nonce means the first one is dead.     *)
THEOREM ExecutedTwiceOnlyAfterThrow == SysSpec => []TwiceOnlyAfterThrow
<1>1. SenderInv => TwiceOnlyAfterThrow
  <2> SUFFICES ASSUME SenderInv, NEW i \in Executed, NEW j \in Executed, i < j,
                      txs[i].call = txs[j].call
               PROVE  \E k \in i .. j - 1 : txs[k].threw
    BY DEF TwiceOnlyAfterThrow
  <2>1. txs \in Seq(SignedTxs) /\ i \in DOMAIN txs /\ j \in DOMAIN txs
    BY DEF SenderInv, Executed
  <2>2. i \in Nat /\ j \in Nat /\ i + 1 \in DOMAIN txs /\ i + 1 <= j
    BY <2>1, SignedAre
  <2>3. \A k \in DOMAIN txs : txs[k].call \in Nat
    BY <2>1, SignedAre
  <2>4. txs[i].call <= txs[i + 1].call
    BY <2>1, <2>2 DEF SenderInv
  <2>5. txs[i + 1].call <= txs[j].call
    BY <2>1, <2>2, <2>3 DEF SenderInv
  <2>6. txs[i].call = txs[i + 1].call
    BY <2>1, <2>2, <2>3, <2>4, <2>5
  <2>7. MaySignAnew(txs[i])
    BY <2>1, <2>2, <2>6 DEF SenderInv
  <2>8. txs[i].threw
    BY <2>7 DEF MaySignAnew, Executed
  <2> QED BY <2>2, <2>8
<1> QED BY <1>1, SenderInvHolds, PTL

-----------------------------------------------------------------------------
(* The transfer and the locker.                                            *)

Stages == {"none", "withdraw", "find-withdraw", "wait-block", "get-proof"}

(* What the log file says has happened on Tezos, and the process is at a   *)
(* step that its log allows.                                               *)
LogInv ==
  /\ run = [pc |-> run.pc, height |-> run.height]
  /\ log.finished \in Stages
  /\ log.finished \in {"withdraw", "find-withdraw", "wait-block"} => log.receipt \in Executed
  /\ log.finished = "get-proof" => log.proofRes.outcome[1] \in Executed
  /\ run.pc = "find" => log.finished = "withdraw"
  /\ run.pc \in {"height", "hash"} => log.finished = "find-withdraw"
  /\ run.pc = "proof" => log.finished = "wait-block"
  /\ run.pc \in {"prove", "unlock"} => log.finished = "get-proof"

(* Whatever is on its way to the locker proves a withdrawal that happened. *)
RequestInv ==
  /\ \A u \in DOMAIN request : request[u].proofRes.outcome[1] \in Executed
  /\ \A tx \in pool : tx.owner \in Attempts => tx.owner \in DOMAIN request

LockerInv == IsFiniteSet(usedEvents_) /\ UnlocksOnce

UnlockInv == SenderInv /\ Web3Inv /\ LogInv /\ RequestInv /\ LockerInv

LEMMA InitUnlock == SysInit => UnlockInv
<1> SUFFICES ASSUME SysInit PROVE UnlockInv
  OBVIOUS
<1>1. SenderInv /\ Web3Inv
  BY InitSender, InitWeb3 DEF SysInit, TransferInit
<1>2. LogInv
  BY DEF SysInit, TransferInit, LogInv, NoLog, Stages
<1>3. RequestInv
  BY DEF SysInit, Init, RequestInv
<1>4. LockerInv
  BY FS_EmptySet DEF SysInit, TransferInit, LockerInv, UnlocksOnce
<1> QED BY <1>1, <1>2, <1>3, <1>4 DEF UnlockInv

(* A receipt the node proves an outcome of was executed.                   *)
LEMMA ReceiptIsExecuted ==
  ASSUME SenderInv, NEW receipt \in Executed, txs[receipt].height + 1 \in 1 .. tezosHeight
  PROVE  Receipts[txs[receipt].height + 1] \in Executed
<1> DEFINE k == txs[receipt].height + 1
           here == {i \in Executed : txs[i].height = k - 1}
<1>1. txs[receipt].height \in Nat
  BY SignedAre DEF SenderInv, Executed
<1>2. receipt \in here
  BY <1>1
<1>3. Receipts[k] = CHOOSE i \in here : TRUE
  BY <1>2 DEF Receipts
<1>4. (CHOOSE i \in here : TRUE) \in here
  BY <1>2
<1> QED BY <1>3, <1>4

LEMMA ProvenIsExecuted ==
  ASSUME SenderInv, NEW receipt \in Executed, txs[receipt].height + 1 \in 1 .. tezosHeight,
         NEW head
  PROVE  LightClientProof(Receipts, txs[receipt].height + 1, head).outcome[1] \in Executed
BY ReceiptIsExecuted DEF LightClientProof, Outcome

(* A step that leaves the log file alone and does not enter a stage.       *)
LEMMA LogKept ==
  ASSUME LogInv, ChainGrows, log' = log, run' = [pc |-> run'.pc, height |-> run'.height],
         \/ run'.pc = run.pc
         \/ run'.pc \notin {"find", "height", "hash", "proof", "prove", "unlock"}
  PROVE  LogInv'
BY DEF LogInv, ChainGrows

LEMMA CommandKeepsLog ==
  ASSUME UnlockInv, ChainGrows, TransferStep
  PROVE  LogInv'
<1> USE DEF UnlockInv, Goto, Exit
<1>1. CASE Execute
  <2>1. log' = log /\ run' = [pc |-> Resume(log.finished), height |-> 0]
    BY <1>1 DEF Execute
  <2> QED BY <2>1 DEF Resume, LogInv, Stages, ChainGrows
<1>2. CASE Withdraw
  <2>1. CASE SenderStep /\ UNCHANGED fileVars
    BY <2>1, LogKept DEF fileVars, LogInv
  <2>2. CASE sender.pc = "returned" /\ recordTransferLog([finished |-> "withdraw", receipt |-> sender.tx])
    <3>1. sender.tx \in Executed
      BY <2>2, SignedAre DEF SenderInv, Executed, Senders
    <3> QED BY <2>2, <3>1 DEF recordTransferLog, Resume, LogInv, Stages, ChainGrows
  <2>3. CASE Exit
    BY <2>3, LogKept
  <2> QED BY <1>2, <2>1, <2>2, <2>3 DEF Withdraw
<1>3. CASE FindWithdrawInBlock
  BY <1>3 DEF FindWithdrawInBlock, recordTransferLog, Resume, LogInv, Stages, ChainGrows
<1>4. CASE ReadHeight
  BY <1>4 DEF ReadHeight, LogInv, ChainGrows
<1>5. CASE WaitBlock
  <2>1. CASE IsAvailable
    BY <1>5, <2>1 DEF WaitBlock, recordTransferLog, Resume, LogInv, Stages, ChainGrows
  <2>2. CASE ~IsAvailable
    BY <1>5, <2>2 DEF WaitBlock, LogInv, ChainGrows
  <2> QED BY <2>1, <2>2
<1>6. CASE GetProof
  <2> DEFINE k == txs[log.receipt].height + 1
  <2>1. CASE ~(LightClientHead \in k + 1 .. tezosHeight)
    BY <1>6, <2>1, LogKept DEF GetProof
  <2>2. CASE LightClientHead \in k + 1 .. tezosHeight
    <3>1. log.receipt \in Executed
      BY <1>6 DEF GetProof, LogInv
    <3>2. k \in 1 .. tezosHeight
      <4>1. txs[log.receipt].height \in Nat /\ tezosHeight \in Nat
        BY <3>1, SignedAre DEF SenderInv, Executed
      <4> QED BY <2>2, <4>1
    <3>3. LightClientProof(Receipts, k, LightClientHead).outcome[1] \in Executed
      BY <3>1, <3>2, ProvenIsExecuted
    <3> HIDE DEF k
    <3>4. /\ log' = [finished |-> "get-proof", proofRes |-> LightClientProof(Receipts, k, LightClientHead),
                     height |-> log.height]
          /\ run' = [pc |-> "prove", height |-> 0]
      BY <1>6, <2>2 DEF GetProof, recordTransferLog, Resume, k
    <3> QED BY <3>3, <3>4 DEF LogInv, Stages, ChainGrows
  <2> QED BY <2>1, <2>2
<1>7. CASE Prove
  BY <1>7 DEF Prove, LogInv, ChainGrows
<1>8. CASE DeleteTransferLog
  BY <1>8 DEF DeleteTransferLog, NoLog, LogInv, Stages, ChainGrows
<1> QED BY <1>1, <1>2, <1>3, <1>4, <1>5, <1>6, <1>7, <1>8 DEF TransferStep

LEMMA NextLog == UnlockInv /\ [SysNext]_sysVars => LogInv'
<1> SUFFICES ASSUME UnlockInv, [SysNext]_sysVars PROVE LogInv'
  OBVIOUS
<1>1. ChainGrows
  BY NextSender DEF UnlockInv
<1>2. CASE Command
  BY <1>1, <1>2, CommandKeepsLog DEF Command
<1>3. ASSUME NEW u \in Attempts, StartUnlock(u) PROVE LogInv'
  BY <1>1, <1>3, LogKept DEF StartUnlock, Goto, UnlockInv
<1>4. ASSUME NEW u \in Attempts, AttemptStep(u) PROVE LogInv'
  <2>1. PICK pc \in {run.pc, "idle", "delete"} : run' = [run EXCEPT !.pc = pc]
    BY <1>4 DEF AttemptStep
  <2>2. run' = [pc |-> pc, height |-> run.height]
    BY <2>1 DEF UnlockInv, LogInv
  <2> QED BY <1>1, <1>4, <2>2, LogKept DEF AttemptStep, UnlockInv
<1>5. CASE Interrupted
  BY <1>1, <1>5, LogKept DEF Interrupted, Interrupt, TornRecord, Goto, NoLog, UnlockInv, LogInv, Stages
<1>6. CASE TezosBlock \/ ExecuteWithdrawal \/ LightClient \/ RelayStep \/ Disconnect
           \/ CommandMishap \/ MineTransaction \/ UNCHANGED sysVars
  <2>1. UNCHANGED fileVars
    BY <1>6 DEF TezosBlock, ExecuteWithdrawal, LightClient, RelayStep, Disconnect,
         CommandMishap, MineTransaction, sysVars, tezosSideVars
  <2> QED BY <1>1, <2>1, LogKept DEF fileVars, UnlockInv, LogInv
<1> QED BY <1>2, <1>3, <1>4, <1>5, <1>6 DEF SysNext, RunCommand, Chains

(* A caller adds at most its own transaction to what is pending.           *)
LEMMA CallerAddsOwn ==
  ASSUME NEW c, CallerStep(c), NEW tx \in pool'
  PROVE  tx \in pool \/ tx.owner = c
BY DEF CallerStep, Step, ReadGasPrice, ReadNonce, Send, NonceError, Throw, Receipt,
       SlowTransaction, Reconnect, Transaction

LEMMA NextRequest == UnlockInv /\ [SysNext]_sysVars => RequestInv'
<1> SUFFICES ASSUME UnlockInv, [SysNext]_sysVars PROVE RequestInv'
  OBVIOUS
<1>1. Executed \subseteq Executed'
  BY NextSender DEF UnlockInv, ChainGrows
<1>2. ASSUME request' = request,
             \A tx \in pool' : tx \in pool \/ tx.owner \in DOMAIN request \/ tx.owner \notin Attempts
      PROVE  RequestInv'
  BY <1>1, <1>2 DEF UnlockInv, RequestInv
<1>3. ASSUME NEW u \in Attempts, StartUnlock(u) PROVE RequestInv'
  <2>1. log.proofRes.outcome[1] \in Executed /\ pool' = pool
    BY <1>3 DEF StartUnlock, UnlockInv, LogInv, Goto, web3Vars
  <2>2. request' = [v \in DOMAIN request \cup {u} |-> IF v = u THEN log ELSE request[v]]
    BY <1>3 DEF StartUnlock
  <2> QED BY <1>1, <2>1, <2>2 DEF UnlockInv, RequestInv
<1>4. ASSUME NEW u \in Attempts, AttemptStep(u) PROVE RequestInv'
  <2>1. u \in DOMAIN request /\ CallerStep(u) /\ request' = request
    BY <1>4 DEF AttemptStep, Active, CallerStep, requestVars
  <2> QED BY <1>2, <2>1, CallerAddsOwn
<1>5. CASE RelayStep
  <2>1. CallerStep(relay) /\ request' = request
    BY <1>5 DEF RelayStep, CallerStep, requestVars
  <2> QED BY <1>2, <2>1, CallerAddsOwn, SystemAssumption
<1>6. CASE MineTransaction
  <2>1. pool' \subseteq pool /\ request' = request
    BY <1>6 DEF MineTransaction, Mine
  <2> QED BY <1>2, <2>1
<1>7. CASE Disconnect
  <2>1. pool' = pool /\ request' = request
    BY <1>7 DEF Disconnect, Reconnect, requestVars
  <2> QED BY <1>2, <2>1
<1>8. CASE Command \/ Interrupted \/ TezosBlock \/ ExecuteWithdrawal \/ LightClient
           \/ CommandMishap \/ UNCHANGED sysVars
  <2>1. pool' = pool /\ request' = request
    BY <1>8 DEF Command, Interrupted, TezosBlock, ExecuteWithdrawal, LightClient, CommandMishap,
         sysVars, web3Vars, requestVars
  <2> QED BY <1>2, <2>1
<1> QED BY <1>3, <1>4, <1>5, <1>6, <1>7, <1>8 DEF SysNext, RunCommand, Chains

LEMMA NextLocker == UnlockInv /\ [SysNext]_sysVars => LockerInv'
<1> SUFFICES ASSUME UnlockInv, [SysNext]_sysVars PROVE LockerInv'
  OBVIOUS
<1>1. Executed \subseteq Executed'
  BY NextSender DEF UnlockInv, ChainGrows
<1>2. ASSUME UNCHANGED lockerVars PROVE LockerInv'
  BY <1>1, <1>2 DEF lockerVars, UnlockInv, LockerInv, UnlocksOnce
<1>3. CASE MineTransaction
  <2>1. PICK tx \in pool : mined' = mined \cup {tx} /\ tx.nonce = AccountNonce
    BY <1>3 DEF MineTransaction, Mine
  <2>2. tx \notin mined
    BY <2>1, AccountNonceIsNat DEF UnlockInv, Web3Inv
  <2>3. (CHOOSE t \in mined' \ mined : TRUE) = tx
    BY <2>1, <2>2
  <2>4. CASE tx.owner \in Attempts /\ CanUnlock(request[tx.owner])
    <3> DEFINE receipt == request[tx.owner].proofRes.outcome[1]
    <3>1. receipt \in Executed
      BY <2>4 DEF UnlockInv, RequestInv
    <3>2. receipt \notin usedEvents_
      BY <2>4 DEF CanUnlock, Unused
    <3>3. usedEvents_' = usedEvents_ \cup {receipt} /\ unlocked' = unlocked + 1
      BY <1>3, <2>3, <2>4 DEF MineTransaction, unlockToken
    <3> HIDE DEF receipt
    <3>4. IsFiniteSet(usedEvents_') /\ Cardinality(usedEvents_') = Cardinality(usedEvents_) + 1
      BY <3>2, <3>3, FS_AddElement DEF UnlockInv, LockerInv
    <3> QED BY <1>1, <3>1, <3>3, <3>4 DEF UnlockInv, LockerInv, UnlocksOnce
  <2>5. CASE ~(tx.owner \in Attempts /\ CanUnlock(request[tx.owner]))
    BY <1>2, <1>3, <2>3, <2>5 DEF MineTransaction
  <2> QED BY <2>4, <2>5
<1>4. CASE Command
  <2>1. UNCHANGED lockerVars
    BY <1>4 DEF Command, TransferStep, Execute, Withdraw, FindWithdrawInBlock, ReadHeight,
         WaitBlock, GetProof, Prove, DeleteTransferLog
  <2> QED BY <1>2, <2>1
<1>5. CASE (\E u \in Attempts : StartUnlock(u) \/ AttemptStep(u)) \/ TezosBlock \/ ExecuteWithdrawal
           \/ LightClient \/ RelayStep \/ CommandMishap \/ Interrupted \/ Disconnect
           \/ UNCHANGED sysVars
  <2>1. UNCHANGED lockerVars
    BY <1>5 DEF StartUnlock, AttemptStep, TezosBlock, ExecuteWithdrawal, LightClient, RelayStep,
         CommandMishap, Interrupted, Interrupt, TornRecord, Disconnect, sysVars
  <2> QED BY <1>2, <2>1
<1> QED BY <1>3, <1>4, <1>5 DEF SysNext, RunCommand, Chains

LEMMA UnlockInvHolds == SysSpec => []UnlockInv
<1>1. UnlockInv /\ [SysNext]_sysVars => UnlockInv'
  BY NextSender, NextWeb3, NextLog, NextRequest, NextLocker DEF UnlockInv
<1> QED BY <1>1, InitUnlock, PTL DEF SysSpec

(* The locker pays once for each withdrawal, and only for one that burned  *)
(* tokens on Tezos: every request on its way carries a proof of one, and a *)
(* receipt is used up by the payment.                                      *)
THEOREM EachWithdrawalPaidOnce == SysSpec => []UnlocksOnce
<1>1. UnlockInv => UnlocksOnce
  BY DEF UnlockInv, LockerInv
<1> QED BY <1>1, UnlockInvHolds, PTL

-----------------------------------------------------------------------------
(* Merkle roots.  What a recursive function computes is known step by step *)
(* once a function that satisfies the recursion is known to exist; that it *)
(* does for every length, and that two of them agree, follows from the     *)
(* smallest length for which it would not.                                 *)

PathStep(node, path, n, f) ==
  [i \in 0 .. n |-> IF i = 0 THEN node ELSE NextHash(f[i - 1], path[i])]

Path(node, path, n) == CHOOSE f : f = PathStep(node, path, n, f)

LEMMA ComputedRootIs ==
  ASSUME NEW node, NEW path
  PROVE  _computeRoot(node, path) = Path(node, path, Len(path))[Len(path)]
BY Zenon DEF _computeRoot, Path, PathStep

LEMMA PathExists ==
  ASSUME NEW node, NEW path, NEW n \in Nat
  PROVE  \E f : f = PathStep(node, path, n, f)
<1> DEFINE Bad == {k \in Nat : ~\E f : f = PathStep(node, path, k, f)}
<1>1. SUFFICES ASSUME Bad # {} PROVE FALSE
  OBVIOUS
<1>2. PICK m \in Bad : \A k \in Bad : m <= k
  <2>1. Bad \subseteq Nat
    OBVIOUS
  <2> HIDE DEF Bad
  <2> QED BY <1>1, <2>1, MinOfNats
<1>3. m # 0
  <2>1. [i \in 0 .. 0 |-> node] = PathStep(node, path, 0, [i \in 0 .. 0 |-> node])
    BY DEF PathStep
  <2> QED BY <2>1
<1>4. m - 1 \in Nat /\ m - 1 \notin Bad
  <2>1. m \in Nat
    OBVIOUS
  <2> HIDE DEF Bad
  <2> QED BY <1>2, <1>3, <2>1
<1>5. PICK f : f = PathStep(node, path, m - 1, f)
  BY <1>4
<1> DEFINE g == [i \in 0 .. m |-> IF i = m THEN NextHash(f[m - 1], path[m]) ELSE f[i]]
<1>6. g = PathStep(node, path, m, g)
  <2>1. \A i \in 0 .. m - 1 : f[i] = IF i = 0 THEN node ELSE NextHash(f[i - 1], path[i])
    BY <1>4, <1>5 DEF PathStep
  <2>2. m \in Nat \ {0}
    BY <1>3, <1>4
  <2>3. /\ g = [i \in 0 .. m |-> g[i]] /\ g[m] = NextHash(f[m - 1], path[m])
        /\ \A i \in 0 .. m - 1 : g[i] = f[i]
    BY <2>2
  <2> HIDE DEF Bad, g
  <2>4. ASSUME NEW i \in 0 .. m
        PROVE  g[i] = IF i = 0 THEN node ELSE NextHash(g[i - 1], path[i])
    <3>1. CASE i = m
      <4>1. i # 0 /\ i - 1 \in 0 .. m - 1
        BY <2>2, <3>1
      <4> QED BY <2>3, <3>1, <4>1
    <3>2. CASE i # m
      <4>1. i \in 0 .. m - 1 /\ (i # 0 => i - 1 \in 0 .. m - 1)
        BY <2>2, <3>2
      <4> QED BY <2>1, <2>3, <4>1
    <3> QED BY <3>1, <3>2
  <2> QED BY <2>3, <2>4 DEF PathStep
<1> QED BY <1>6

LEMMA PathRec ==
  ASSUME NEW node, NEW path, NEW n \in Nat
  PROVE  /\ Path(node, path, n)[0] = node
         /\ \A i \in 1 .. n :
              Path(node, path, n)[i] = NextHash(Path(node, path, n)[i - 1], path[i])
<1> DEFINE P == Path(node, path, n)
<1>1. P = PathStep(node, path, n, P)
  BY PathExists DEF Path
<1> HIDE DEF P
<1>2. \A i \in 0 .. n : P[i] = IF i = 0 THEN node ELSE NextHash(P[i - 1], path[i])
  BY <1>1 DEF PathStep
<1>3. P[0] = node /\ \A i \in 1 .. n : P[i] = NextHash(P[i - 1], path[i])
  BY <1>2
<1> QED BY <1>3 DEF P

(* The root over the blocks below h, block by block.                       *)
WithBlock(root, receipts, k) == <<root, BlockHash(Header(receipts, k))>>

RootStep(receipts, h, f) ==
  [k \in 0 .. h - 1 |-> IF k = 0 THEN EmptyTree ELSE WithBlock(f[k - 1], receipts, k)]

Root(receipts, h) == CHOOSE f : f = RootStep(receipts, h, f)

LEMMA BlockMerkleRootIs ==
  ASSUME NEW receipts, NEW h
  PROVE  BlockMerkleRoot(receipts, h) = Root(receipts, h)[h - 1]
BY Zenon DEF BlockMerkleRoot, Root, RootStep, WithBlock

LEMMA RootRec ==
  ASSUME NEW receipts, NEW h \in Nat \ {0}
  PROVE  /\ Root(receipts, h)[0] = EmptyTree
         /\ \A k \in 1 .. h - 1 :
              Root(receipts, h)[k] = WithBlock(Root(receipts, h)[k - 1], receipts, k)
<1> DEFINE path == [k \in 1 .. h - 1 |-> [hash |-> BlockHash(Header(receipts, k)), direction |-> 1]]
           R == Root(receipts, h)
<1>1. PICK f : f = PathStep(EmptyTree, path, h - 1, f)
  <2>1. h - 1 \in Nat
    OBVIOUS
  <2> HIDE DEF path
  <2> QED BY <2>1, PathExists
<1>2. \A k \in 1 .. h - 1 : \A root : NextHash(root, path[k]) = WithBlock(root, receipts, k)
  BY DEF NextHash, WithBlock
<1>3. f = RootStep(receipts, h, f)
  <2>1. \A k \in 0 .. h - 1 : k # 0 => k \in 1 .. h - 1
    OBVIOUS
  <2> HIDE DEF path
  <2> QED BY <1>1, <1>2, <2>1 DEF PathStep, RootStep
<1>4. R = RootStep(receipts, h, R)
  BY <1>3 DEF Root
<1> HIDE DEF R
<1>5. \A k \in 0 .. h - 1 :
        R[k] = IF k = 0 THEN EmptyTree ELSE WithBlock(R[k - 1], receipts, k)
  BY <1>4 DEF RootStep
<1>6. R[0] = EmptyTree /\ \A k \in 1 .. h - 1 : R[k] = WithBlock(R[k - 1], receipts, k)
  BY <1>5
<1> QED BY <1>6 DEF R

(* Two roots over the same blocks are equal.                               *)
LEMMA RootsAgree ==
  ASSUME NEW receipts, NEW others, NEW h \in Nat \ {0}, NEW i \in Nat \ {0},
         \A k \in 1 .. h - 1 : receipts[k] = others[k],
         NEW n \in Nat, n < h, n < i
  PROVE  Root(receipts, h)[n] = Root(others, i)[n]
<1> DEFINE R == Root(receipts, h)
           S == Root(others, i)
           Bad == {k \in 0 .. n : R[k] # S[k]}
<1>1. SUFFICES ASSUME Bad # {} PROVE FALSE
  OBVIOUS
<1>2. Bad \subseteq Nat
  OBVIOUS
<1>3. PICK m \in Bad : \A k \in Bad : m <= k
  <2> HIDE DEF Bad
  <2> QED BY <1>1, <1>2, MinOfNats
<1>4. m \in 0 .. n /\ R[m] # S[m]
  OBVIOUS
<1>5. \A k \in 0 .. n : k < m => R[k] = S[k]
  BY <1>3
<1> HIDE DEF Bad
<1>6. R[0] = EmptyTree /\ S[0] = EmptyTree
  BY RootRec
<1>7. m \in 1 .. n
  BY <1>4, <1>6
<1>8. /\ R[m] = WithBlock(R[m - 1], receipts, m)
      /\ S[m] = WithBlock(S[m - 1], others, m)
  BY <1>7, RootRec
<1>9. Header(receipts, m) = Header(others, m)
  BY <1>7 DEF Header
<1>10. R[m - 1] = S[m - 1]
  BY <1>5, <1>7
<1> QED BY <1>4, <1>8, <1>9, <1>10 DEF WithBlock

(* The tree of one block leads to the outcome root of its header.          *)
LEMMA OutcomeProven ==
  ASSUME NEW receipts, NEW k, NEW h, receipts[k] # 0
  PROVE  ProvesOutcome(LightClientProof(receipts, k, h))
<1> DEFINE proof == LightClientProof(receipts, k, h)
           tree == _computeRoot(proof.outcome, proof.path)
<1>1. /\ proof.outcome = Outcome(receipts[k]) /\ Len(proof.path) = 1
      /\ proof.path[1] = [hash |-> Outcome(0), direction |-> 0]
      /\ Len(proof.outcomeRootPath) = 0
      /\ proof.header = Header(receipts, k)
  BY DEF LightClientProof
<1> HIDE DEF proof
<1>2. tree = OutcomeTree(receipts[k])
  <2> DEFINE P == Path(proof.outcome, proof.path, 1)
  <2>1. tree = P[1]
    BY <1>1, ComputedRootIs
  <2>2. P[1] = NextHash(P[0], proof.path[1]) /\ P[0] = proof.outcome
    BY PathRec
  <2> QED BY <1>1, <2>1, <2>2 DEF NextHash, OutcomeTree
<1> HIDE DEF tree
<1>3. _computeRoot(Rehash(tree), proof.outcomeRootPath) = Rehash(tree)
  BY <1>1, ComputedRootIs, PathRec
<1>4. proof.header.outcomeRoot = Rehash(tree)
  BY <1>1, <1>2 DEF Header
<1> QED BY <1>3, <1>4 DEF ProvesOutcome, tree, proof

(* The path from a block leads to the root over all blocks below h.        *)
LEMMA BlockProven ==
  ASSUME NEW receipts, NEW k \in Nat \ {0}, NEW h \in Nat, k < h
  PROVE  _computeRoot(BlockHash(Header(receipts, k)), LightClientProof(receipts, k, h).blockPath)
           = BlockMerkleRoot(receipts, h)
<1> DEFINE path == LightClientProof(receipts, k, h).blockPath
           node == BlockHash(Header(receipts, k))
           n == h - k
           P == Path(node, path, n)
           R == Root(receipts, h)
           Bad == {i \in 1 .. n : P[i] # R[k + i - 1]}
<1>1. /\ Len(path) = n
      /\ path[1] = [hash |-> BlockMerkleRoot(receipts, k), direction |-> 0]
      /\ \A i \in 2 .. n : path[i] = [hash |-> BlockHash(Header(receipts, k + i - 1)), direction |-> 1]
  <2> DEFINE first == [hash |-> BlockMerkleRoot(receipts, k), direction |-> 0]
             rest == [i \in 1 .. n - 1 |->
                        [hash |-> BlockHash(Header(receipts, k + i)), direction |-> 1]]
  <2>1. path = <<first>> \o rest
    <3>1. h - 1 - k = n - 1
      OBVIOUS
    <3> QED BY <3>1 DEF LightClientProof
  <2>2. Len(rest) = n - 1 /\ n - 1 \in Nat /\ n \in Nat
    OBVIOUS
  <2>3. PICK S : S = {first} \cup {rest[i] : i \in 1 .. n - 1}
    OBVIOUS
  <2>4. <<first>> \in Seq(S)
    BY <2>3
  <2>5. rest \in Seq(S)
    <3>1. rest = [i \in 1 .. n - 1 |-> rest[i]] /\ \A i \in 1 .. n - 1 : rest[i] \in S
      BY <2>3
    <3> HIDE DEF rest, n
    <3> QED BY <2>2, <3>1
  <2>6. /\ Len(path) = n /\ path[1] = first
        /\ \A i \in 2 .. n : path[i] = rest[i - 1]
    <3> HIDE DEF first, rest, path, n
    <3>1. Len(<<first>>) = 1 /\ <<first>>[1] = first
      OBVIOUS
    <3>2. /\ Len(path) = Len(<<first>>) + Len(rest)
          /\ \A i \in 1 .. Len(<<first>>) + Len(rest) :
                path[i] = IF i <= Len(<<first>>) THEN <<first>>[i] ELSE rest[i - Len(<<first>>)]
      BY <2>1, <2>4, <2>5
    <3> QED BY <2>2, <3>1, <3>2
  <2>7. \A i \in 2 .. n : i - 1 \in 1 .. n - 1 /\ k + (i - 1) = k + i - 1
    OBVIOUS
  <2> QED BY <2>6, <2>7
<1>2. n \in Nat \ {0}
  OBVIOUS
<1>3. P[0] = node /\ \A i \in 1 .. n : P[i] = NextHash(P[i - 1], path[i])
  BY PathRec, <1>2
<1>4. \A j \in 1 .. h - 1 : R[j] = WithBlock(R[j - 1], receipts, j)
  BY RootRec
<1>5. ASSUME Bad # {} PROVE FALSE
  <2>1. PICK m \in Bad : \A i \in Bad : m <= i
    <3>1. Bad \subseteq Nat
      OBVIOUS
    <3> HIDE DEF Bad
    <3> QED BY <1>5, <3>1, MinOfNats
  <2>2. m \in 1 .. n /\ P[m] # R[k + m - 1] /\ \A i \in 1 .. n : i < m => P[i] = R[k + i - 1]
    BY <2>1
  <2> HIDE DEF Bad
  <2>3. CASE m = 1
    <3>1. P[1] = NextHash(node, path[1])
      BY <1>2, <1>3
    <3>2. BlockMerkleRoot(receipts, k) = R[k - 1]
      <4>1. k - 1 \in Nat /\ k - 1 < k /\ k - 1 < h /\ h \in Nat \ {0}
        OBVIOUS
      <4> QED BY <4>1, BlockMerkleRootIs, RootsAgree
    <3>3. P[1] = WithBlock(R[k - 1], receipts, k)
      BY <1>1, <3>1, <3>2 DEF NextHash, WithBlock
    <3>4. k \in 1 .. h - 1 /\ k + m - 1 = k
      BY <2>3
    <3>5. P[1] = R[k]
      BY <1>4, <3>3, <3>4
    <3> QED BY <2>2, <2>3, <3>4, <3>5
  <2>4. CASE m # 1
    <3> DEFINE j == k + m - 1
    <3>1. m \in 2 .. n /\ m - 1 \in 1 .. n /\ m - 1 < m
      BY <1>2, <2>2, <2>4
    <3>2. j \in 1 .. h - 1 /\ j - 1 = k + (m - 1) - 1
      BY <2>2
    <3>3. P[m - 1] = R[j - 1]
      BY <2>2, <3>1, <3>2
    <3>4. P[m] = NextHash(R[j - 1], path[m])
      BY <1>3, <3>1, <3>3
    <3>5. path[m] = [hash |-> BlockHash(Header(receipts, j)), direction |-> 1]
      BY <1>1, <3>1
    <3> HIDE DEF j, P, R, path
    <3>6. P[m] = WithBlock(R[j - 1], receipts, j)
      BY <3>4, <3>5 DEF NextHash, WithBlock
    <3>7. P[m] = R[j]
      BY <1>4, <3>2, <3>6
    <3> QED BY <2>2, <3>7 DEF j
  <2> QED BY <2>3, <2>4
<1>6. P[n] = R[k + n - 1]
  BY <1>2, <1>5
<1>7. _computeRoot(node, path) = P[n] /\ BlockMerkleRoot(receipts, h) = R[k + n - 1]
  BY <1>1, ComputedRootIs, BlockMerkleRootIs
<1> QED BY <1>6, <1>7

-----------------------------------------------------------------------------
(* The logged proof and the light client.                                  *)

LEMMA MaxOfInterval ==
  ASSUME NEW n \in Nat, NEW S \in SUBSET (1 .. n), S # {}
  PROVE  Max(S) \in S
<1> DEFINE T == {n - x : x \in S}
<1>1. T \subseteq Nat /\ T # {}
  <2>1. \A x \in S : n - x \in Nat
    OBVIOUS
  <2> QED BY <2>1
<1>2. Min(T) \in T /\ \A y \in T : Min(T) <= y
  <2> HIDE DEF T
  <2> QED BY <1>1, MinOfNats
<1>3. PICK x \in S : Min(T) = n - x
  BY <1>2
<1>4. \A y \in S : x >= y
  <2> TAKE y \in S
  <2>1. n - y \in T
    OBVIOUS
  <2>2. n - x <= n - y
    BY <1>2, <1>3, <2>1
  <2> QED BY <2>2
<1> QED BY <1>4 DEF Max

(* The client trusts nothing but the block that Tezos has at a height.     *)
ClientInv ==
  /\ trusted \in [1 .. MaxHeight -> Int]
  /\ \A h \in 1 .. MaxHeight : trusted[h] \in {NoHash, h}
  /\ trusted[1] = 1
  /\ candidate = NoCandidate \/ candidate.hash \in {WrongHash, candidate.height}

(* What the log keeps of two reads of the client: the height is one it     *)
(* trusts a block at, and the hash that was read later is of that height.  *)
ProofInv ==
  /\ run.pc = "hash" => run.height \in 1 .. MaxHeight
  /\ log.finished = "wait-block" =>
       /\ log.height \in 1 .. MaxHeight
       /\ log.hash # NoHash => log.hash = log.height /\ trusted[log.height] # NoHash
  /\ log.finished = "get-proof" =>
       /\ log.height \in 1 .. MaxHeight /\ trusted[log.height] # NoHash
       /\ log.height <= tezosHeight
       /\ Proves(log)

ClientGrows == \A h \in 1 .. MaxHeight : trusted[h] # NoHash => trusted'[h] # NoHash

LEMMA InitProof == SysInit => ClientInv /\ ProofInv
BY TransferAssumption DEF SysInit, TransferInit, ClientInv, ProofInv, NoLog, NoHash, NoCandidate

LEMMA NextClient == ClientInv /\ [SysNext]_sysVars => ClientInv' /\ ClientGrows
<1> SUFFICES ASSUME ClientInv, [SysNext]_sysVars PROVE ClientInv' /\ ClientGrows
  OBVIOUS
<1>1. ASSUME UNCHANGED <<trusted, candidate>> PROVE ClientInv' /\ ClientGrows
  BY <1>1 DEF ClientInv, ClientGrows
<1>2. CASE LightClient
  <2>1. CASE \E h, x : Client!Propose(h, x) /\ x \in {WrongHash, h}
    BY <2>1 DEF Client!Propose, ClientInv, ClientGrows
  <2>2. CASE Client!Discard
    BY <2>2 DEF Client!Discard, ClientInv, ClientGrows
  <2>3. CASE candidate # NoCandidate /\ candidate.hash # WrongHash /\ Client!Advance
    <3>1. CASE UNCHANGED <<trusted, candidate>>
      BY <1>1, <3>1
    <3>2. CASE /\ trusted' = [trusted EXCEPT ![candidate.height] = candidate.hash]
               /\ candidate' = NoCandidate
      <4>1. candidate.hash = candidate.height
        BY <2>3 DEF ClientInv
      <4>2. /\ trusted' \in [1 .. MaxHeight -> Int]
            /\ \A h \in 1 .. MaxHeight : trusted'[h] \in {trusted[h], h}
        <5>1. CASE candidate.height \in 1 .. MaxHeight
          <6>1. PICK a \in 1 .. MaxHeight : trusted' = [trusted EXCEPT ![a] = a]
            BY <3>2, <4>1, <5>1
          <6> QED BY <6>1 DEF ClientInv
        <5>2. CASE candidate.height \notin 1 .. MaxHeight
          BY <3>2, <5>2 DEF ClientInv
        <5> QED BY <5>1, <5>2
      <4>3. 1 \in 1 .. MaxHeight /\ \A h \in 1 .. MaxHeight : h # NoHash
        BY TransferAssumption DEF NoHash
      <4> QED BY <3>2, <4>2, <4>3 DEF ClientInv, ClientGrows
    <3> QED BY <2>3, <3>1, <3>2 DEF Client!Advance
  <2> QED BY <1>2, <2>1, <2>2, <2>3 DEF LightClient
<1>3. CASE Command
  <2>1. UNCHANGED clientVars
    BY <1>3 DEF Command, TransferStep, Execute, Withdraw, FindWithdrawInBlock, ReadHeight,
         WaitBlock, GetProof, Prove, DeleteTransferLog
  <2> QED BY <1>1, <2>1 DEF clientVars
<1>4. CASE (\E u \in Attempts : StartUnlock(u) \/ AttemptStep(u)) \/ TezosBlock \/ ExecuteWithdrawal
           \/ RelayStep \/ CommandMishap \/ Interrupted \/ Disconnect \/ MineTransaction
           \/ UNCHANGED sysVars
  <2>1. UNCHANGED clientVars
    BY <1>4 DEF StartUnlock, AttemptStep, TezosBlock, ExecuteWithdrawal, RelayStep,
         CommandMishap, Interrupted, Interrupt, TornRecord, Disconnect, MineTransaction,
         tezosSideVars, sysVars
  <2> QED BY <1>1, <2>1 DEF clientVars
<1> QED BY <1>2, <1>3, <1>4 DEF SysNext, RunCommand, Chains

(* Nothing is executed any more in the blocks that are there.              *)
OneOf(here) == IF here = {} THEN 0 ELSE CHOOSE i \in here : TRUE

LEMMA ReceiptsStay ==
  ASSUME SenderInv, SenderInv', ChainGrows
  PROVE  \A k \in 1 .. tezosHeight : Receipts'[k] = Receipts[k]
<1> TAKE k \in 1 .. tezosHeight
<1>1. tezosHeight \in Nat /\ tezosHeight' \in Nat
  BY DEF SenderInv
<1>2. {i \in Executed' : txs'[i].height = k - 1} = {i \in Executed : txs[i].height = k - 1}
  <2>1. \A i \in Executed' : txs'[i].height = k - 1 => i \in Executed
    BY <1>1 DEF ChainGrows
  <2>2. \A i \in Executed : i \in Executed' /\ txs'[i].height = txs[i].height
    BY DEF ChainGrows
  <2> QED BY <2>1, <2>2
<1>3. k \in 1 .. tezosHeight'
  BY <1>1 DEF ChainGrows
<1>4. Receipts[k] = OneOf({i \in Executed : txs[i].height = k - 1})
  BY DEF Receipts, OneOf
<1>5. Receipts'[k] = OneOf({i \in Executed' : txs'[i].height = k - 1})
  BY <1>3 DEF Receipts, OneOf
<1> QED BY <1>2, <1>4, <1>5

LEMMA RootStays ==
  ASSUME SenderInv, SenderInv', ChainGrows
  PROVE  \A h \in 1 .. tezosHeight : BlockMerkleRoot(Receipts', h) = BlockMerkleRoot(Receipts, h)
<1> TAKE h \in 1 .. tezosHeight
<1>1. h \in Nat \ {0} /\ h - 1 \in Nat /\ h - 1 < h
  OBVIOUS
<1>2. \A k \in 1 .. h - 1 : Receipts'[k] = Receipts[k]
  <2>1. \A k \in 1 .. h - 1 : k \in 1 .. tezosHeight
    BY DEF SenderInv
  <2> QED BY <2>1, ReceiptsStay
<1> DEFINE R == Receipts'
<1> HIDE DEF R
<1>3. Root(R, h)[h - 1] = Root(Receipts, h)[h - 1]
  BY <1>1, <1>2, RootsAgree DEF R
<1> QED BY <1>3, BlockMerkleRootIs DEF R

(* The proof the node makes for a block below one the client trusts.       *)
LEMMA NodeProofIsValid ==
  ASSUME NEW receipts, NEW k \in Nat \ {0}, NEW h \in Nat, k < h, receipts[k] # 0
  PROVE  proveOutcome(LightClientProof(receipts, k, h), BlockMerkleRoot(receipts, h))
<1>1. LightClientProof(receipts, k, h).header = Header(receipts, k)
  BY DEF LightClientProof
<1> QED BY <1>1, OutcomeProven, BlockProven DEF proveOutcome

ProvenInv == UnlockInv /\ ClientInv /\ ProofInv

(* What both chains do leaves a logged proof valid.                        *)
LEMMA LoggedProofStays ==
  ASSUME SenderInv, SenderInv', ChainGrows, ClientInv, ClientInv', ClientGrows, ProofInv,
         log' = log, run'.pc = "hash" => run'.height \in 1 .. MaxHeight
  PROVE  ProofInv'
<1>1. ASSUME log.finished = "get-proof"
      PROVE  /\ trusted'[log.height] # NoHash /\ log.height <= tezosHeight'
             /\ proveOutcome(log.proofRes, blockMerkleRoots(log.height)')
  <2>1. /\ log.height \in 1 .. MaxHeight /\ trusted[log.height] # NoHash
        /\ log.height <= tezosHeight /\ Proves(log)
    BY <1>1 DEF ProofInv
  <2>2. trusted'[log.height] # NoHash
    BY <2>1 DEF ClientGrows
  <2>3. log.height <= tezosHeight' /\ log.height \in 1 .. tezosHeight
    BY <2>1, TransferAssumption DEF SenderInv, ChainGrows
  <2>4. BlockMerkleRoot(Receipts', log.height) = BlockMerkleRoot(Receipts, log.height)
    BY <2>3, RootStays
  <2>5. blockMerkleRoots(log.height)' = blockMerkleRoots(log.height)
    <3>1. blockMerkleRoots(log.height)' = BlockMerkleRoot(Receipts', log.height)
      BY <2>2, Zenon DEF blockMerkleRoots
    <3>2. blockMerkleRoots(log.height) = BlockMerkleRoot(Receipts, log.height)
      BY <2>1, Zenon DEF blockMerkleRoots
    <3> QED BY <2>4, <3>1, <3>2
  <2>6. proveOutcome(log.proofRes, blockMerkleRoots(log.height))
    BY <2>1 DEF Proves
  <2> QED BY <2>2, <2>3, <2>5, <2>6
<1>2. ASSUME log.finished = "wait-block", log.hash # NoHash PROVE trusted'[log.height] # NoHash
  BY <1>2 DEF ProofInv, ClientGrows
<1>3. log.finished = "get-proof" => Proves(log)'
  BY <1>1 DEF Proves, blockMerkleRoots
<1> QED BY <1>1, <1>2, <1>3 DEF ProofInv

LEMMA CommandKeepsProof ==
  ASSUME ProvenInv, SenderInv', ChainGrows, ClientInv', ClientGrows, TransferStep
  PROVE  ProofInv'
<1> USE DEF ProvenInv, UnlockInv
<1>1. ASSUME log' = log, run'.pc # "hash" PROVE ProofInv'
  BY <1>1, LoggedProofStays
<1>2. ASSUME log'.finished \in {"none", "withdraw", "find-withdraw"}, run'.pc # "hash" PROVE ProofInv'
  BY <1>2 DEF ProofInv
<1>3. CASE Execute
  <2>1. log' = log /\ run' = [pc |-> Resume(log.finished), height |-> 0]
    BY <1>3 DEF Execute, Goto
  <2> QED BY <1>1, <2>1 DEF Resume, LogInv, Stages
<1>4. CASE Withdraw
  <2>1. CASE SenderStep /\ UNCHANGED fileVars
    BY <2>1, LoggedProofStays DEF fileVars, ProofInv
  <2>2. CASE recordTransferLog([finished |-> "withdraw", receipt |-> sender.tx])
    BY <1>2, <2>2 DEF recordTransferLog, Goto, Resume
  <2>3. CASE Exit
    BY <1>1, <2>3 DEF Exit, Goto
  <2> QED BY <1>4, <2>1, <2>2, <2>3 DEF Withdraw
<1>5. CASE FindWithdrawInBlock
  BY <1>2, <1>5 DEF FindWithdrawInBlock, recordTransferLog, Goto, Resume
<1>6. CASE ReadHeight
  <2> DEFINE S == {h \in 1 .. MaxHeight : trusted[h] # NoHash}
  <2>1. 1 \in S
    BY TransferAssumption DEF ClientInv, NoHash
  <2>2. Max(S) \in S
    <3>1. S \in SUBSET (1 .. MaxHeight)
      OBVIOUS
    <3> HIDE DEF S
    <3> QED BY <2>1, <3>1, MaxOfInterval, TransferAssumption
  <2>3. run'.height \in 1 .. MaxHeight /\ log' = log
    BY <1>6, <2>2 DEF ReadHeight, CurrentHeight
  <2> QED BY <2>3, LoggedProofStays
<1>7. CASE WaitBlock
  <2>1. CASE ~IsAvailable
    BY <1>1, <1>7, <2>1 DEF WaitBlock, Goto
  <2>2. CASE IsAvailable
    <3>1. /\ log' = [finished |-> "wait-block", receipt |-> log.receipt, height |-> run.height,
                     hash |-> trusted[run.height]]
          /\ run' = [pc |-> "proof", height |-> 0] /\ trusted' = trusted
      BY <1>7, <2>2 DEF WaitBlock, recordTransferLog, Goto, Resume, blockHashes, clientVars
    <3>2. run.height \in 1 .. MaxHeight /\ trusted[run.height] \in {NoHash, run.height}
      BY <1>7 DEF WaitBlock, ProofInv, ClientInv
    <3> QED BY <3>1, <3>2 DEF ProofInv
  <2> QED BY <2>1, <2>2
<1>8. CASE GetProof
  <2> DEFINE k == txs[log.receipt].height + 1
  <2>1. CASE ~(LightClientHead \in k + 1 .. tezosHeight)
    BY <1>1, <1>8, <2>1 DEF GetProof, Exit, Goto
  <2>2. CASE LightClientHead \in k + 1 .. tezosHeight
    <3>1. log.receipt \in Executed /\ log.finished = "wait-block" /\ UNCHANGED <<tezosVars, clientVars>>
      BY <1>8 DEF GetProof, LogInv
    <3>2. k \in Nat \ {0} /\ tezosHeight \in Nat
      BY <3>1, SignedAre DEF SenderInv, Executed
    <3>3. /\ log.hash = log.height /\ log.height \in 1 .. MaxHeight /\ trusted[log.height] # NoHash
          /\ log.height \in k + 1 .. tezosHeight
      BY <2>2, <3>1, <3>2 DEF LightClientHead, ProofInv, NoHash
    <3>4. Receipts[k] # 0
      <4>1. Receipts[k] \in Executed
        BY <3>1, <3>2, <3>3, ReceiptIsExecuted
      <4> QED BY <4>1, SignedAre DEF Executed, SenderInv
    <3> HIDE DEF k
    <3>5. /\ log' = [finished |-> "get-proof", proofRes |-> LightClientProof(Receipts, k, log.height),
                     height |-> log.height]
          /\ run' = [pc |-> "prove", height |-> 0]
      BY <1>8, <2>2, <3>3 DEF GetProof, recordTransferLog, Goto, Resume, LightClientHead, k
    <3>6. proveOutcome(LightClientProof(Receipts, k, log.height), blockMerkleRoots(log.height))
      <4>1. blockMerkleRoots(log.height) = BlockMerkleRoot(Receipts, log.height)
        BY <3>3, Zenon DEF blockMerkleRoots
      <4>2. log.height \in Nat /\ k < log.height
        BY <3>2, <3>3
      <4> QED BY <3>2, <3>4, <4>1, <4>2, NodeProofIsValid
    <3>7. Receipts' = Receipts /\ trusted' = trusted /\ tezosHeight' = tezosHeight
      BY <3>1 DEF tezosVars, senderVars, clientVars, Receipts, Executed
    <3>8. Proves(log)'
      BY <3>5, <3>6, <3>7 DEF Proves, blockMerkleRoots
    <3> QED BY <3>3, <3>5, <3>7, <3>8 DEF ProofInv
  <2> QED BY <2>1, <2>2
<1>9. CASE Prove
  BY <1>1, <1>9 DEF Prove, Goto, Exit
<1>10. CASE DeleteTransferLog
  BY <1>2, <1>10 DEF DeleteTransferLog, NoLog, Goto
<1> QED BY <1>3, <1>4, <1>5, <1>6, <1>7, <1>8, <1>9, <1>10 DEF TransferStep

LEMMA NextProof == ProvenInv /\ [SysNext]_sysVars => ProofInv'
<1> SUFFICES ASSUME ProvenInv, [SysNext]_sysVars PROVE ProofInv'
  OBVIOUS
<1>1. SenderInv' /\ ChainGrows /\ ClientInv' /\ ClientGrows
  BY NextSender, NextClient DEF ProvenInv, UnlockInv
<1>2. ASSUME log' = log, run'.pc = "hash" => run'.height \in 1 .. MaxHeight PROVE ProofInv'
  BY <1>1, <1>2, LoggedProofStays DEF ProvenInv, UnlockInv
<1>3. CASE Command
  BY <1>1, <1>3, CommandKeepsProof DEF Command
<1>4. ASSUME NEW u \in Attempts, StartUnlock(u) PROVE ProofInv'
  BY <1>2, <1>4 DEF StartUnlock, Goto
<1>5. ASSUME NEW u \in Attempts, AttemptStep(u) PROVE ProofInv'
  <2>1. PICK pc \in {run.pc, "idle", "delete"} : run' = [run EXCEPT !.pc = pc]
    BY <1>5 DEF AttemptStep
  <2>2. run' = [pc |-> pc, height |-> run.height] /\ log' = log
    BY <1>5, <2>1 DEF ProvenInv, UnlockInv, LogInv, AttemptStep
  <2> QED BY <1>2, <2>2 DEF ProvenInv, ProofInv
<1>6. CASE Interrupted
  <2>1. CASE Interrupt
    BY <1>2, <2>1 DEF Interrupt, Goto
  <2>2. CASE TornRecord
    BY <2>2 DEF TornRecord, Goto, NoLog, ProofInv
  <2> QED BY <1>6, <2>1, <2>2 DEF Interrupted
<1>7. CASE TezosBlock \/ ExecuteWithdrawal \/ LightClient \/ RelayStep \/ Disconnect
           \/ CommandMishap \/ MineTransaction \/ UNCHANGED sysVars
  <2>1. UNCHANGED fileVars
    BY <1>7 DEF TezosBlock, ExecuteWithdrawal, LightClient, RelayStep, Disconnect,
         CommandMishap, MineTransaction, sysVars, tezosSideVars
  <2> QED BY <1>2, <2>1 DEF fileVars, ProvenInv, ProofInv
<1> QED BY <1>3, <1>4, <1>5, <1>6, <1>7 DEF SysNext, RunCommand, Chains

(* The logged proof stays valid: the two reads of the client are of the    *)
(* same height, blocks stay trusted, and what is executed later is above   *)
(* all that the proof speaks of.                                           *)
THEOREM LoggedProofIsValid == SysSpec => []ProofStaysValid
<1>1. SysInit => ProvenInv
  BY InitUnlock, InitProof DEF ProvenInv
<1>2. ProvenInv /\ [SysNext]_sysVars => ProvenInv'
  BY NextProof, NextClient, NextSender, NextWeb3, NextLog, NextRequest, NextLocker
     DEF ProvenInv, UnlockInv
<1>3. ProvenInv => ProofStaysValid
  BY DEF ProvenInv, ProofInv, ProofStaysValid
<1> QED BY <1>1, <1>2, <1>3, PTL DEF SysSpec
=============================================================================
