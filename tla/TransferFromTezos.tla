-------------------------- MODULE TransferFromTezos --------------------------
(***************************************************************************)
(* The command transfer-eth-erc20-from-tezos (transfer-eth-erc20/          *)
(* from-tezos.js): withdraw on Tezos, find the withdrawal, wait until the  *)
(* light client on Ethereum has a block above it, get the proof, unlock on *)
(* Ethereum.  Each stage overwrites the log file from which the next run   *)
(* of the command resumes.                                                 *)
(*                                                                         *)
(* The light client is what TezosBridge implements, OptimisticChain, whose *)
(* wrong candidates the watchdog has challenged in time (BridgeSystem's    *)
(* OnlyFinalTrusted); the hash of the final block of height h is h.        *)
(***************************************************************************)
EXTENDS TezosTransactions, MerkleProof

CONSTANT
  MaxHeight     \* bound of the heights of Tezos

ASSUME TransferAssumption == MaxHeight \in Nat \ {0}

VARIABLES
  run,          \* the process: [pc, height]
  log,          \* the log file
  trusted, candidate, deadline, clock,   \* of OptimisticChain
  usedEvents_,  \* the receipts the locker has paid for
  unlocked      \* history: how often it paid

clientVars == <<trusted, candidate, deadline, clock>>
fileVars == <<run, log>>
lockerVars == <<usedEvents_, unlocked>>

NoHash == -1
WrongHash == 0
NoCandidate == [height |-> 0, hash |-> NoHash]

Client == INSTANCE OptimisticChain WITH
            Heights <- 1 .. MaxHeight, Hashes <- 0 .. MaxHeight, Window <- 1

NoLog == [finished |-> "none"]

TransferInit ==
  /\ TezosInit
  /\ run = [pc |-> "idle", height |-> 0]
  /\ log = NoLog
  /\ trusted = [h \in 1 .. MaxHeight |-> IF h = 1 THEN 1 ELSE NoHash]
  /\ candidate = NoCandidate /\ deadline = 0 /\ clock = 0
  /\ usedEvents_ = {} /\ unlocked = 0

-----------------------------------------------------------------------------
(* What the command reads.                                                 *)

\* the receipt whose outcome is in each block of Tezos: the withdrawal
\* executed in the block before
Receipts ==
  [h \in 1 .. tezosHeight |->
     LET here == {i \in Executed : txs[i].height = h - 1}
     IN IF here = {} THEN 0 ELSE CHOOSE i \in here : TRUE]

\* bridgeState().currentHeight
CurrentHeight == Max({h \in 1 .. MaxHeight : trusted[h] # NoHash})

blockHashes(h) == trusted[h]

blockMerkleRoots(h) ==
  IF trusted[h] = NoHash THEN EmptyTree ELSE BlockMerkleRoot(Receipts, h)

-----------------------------------------------------------------------------
(* The stages.                                                             *)

Goto(pc) == run' = [pc |-> pc, height |-> 0]

\* what a call of the process knew ends with it
SenderEnds == sender' = SenderOff /\ UNCHANGED <<txs, calls, keyNonce, tezosHeight>>

\* the step with which execute goes on after each logged stage
Resume(stage) ==
  CASE stage = "none" -> "withdraw" [] stage = "withdraw" -> "find"
    [] stage = "find-withdraw" -> "height" [] stage = "wait-block" -> "proof"
    [] stage = "get-proof" -> "prove"

recordTransferLog(obj) ==
  /\ log' = obj
  /\ Goto(Resume(obj.finished))

\* the user runs the command; without a log it starts with the withdrawal
Execute ==
  /\ run.pc = "idle"
  /\ Goto(Resume(log.finished))
  /\ IF log = NoLog THEN tezosJsonContractFunctionCall
     ELSE UNCHANGED <<tezosVars, mishaps>>
  /\ UNCHANGED <<log, clientVars, lockerVars>>

Exit == Goto("idle") /\ UNCHANGED log

Withdraw ==
  /\ run.pc = "withdraw"
  /\ \/ SenderStep /\ UNCHANGED fileVars
     \/ /\ sender.pc = "returned"
        /\ recordTransferLog([finished |-> "withdraw", receipt |-> sender.tx])
        /\ SenderEnds /\ UNCHANGED mishaps
     \/ /\ sender.pc = "threw"
        /\ Exit
        /\ SenderEnds /\ UNCHANGED mishaps
  /\ UNCHANGED <<clientVars, lockerVars>>

\* the final head above the block of the receipt
FindWithdrawInBlock ==
  /\ run.pc = "find"
  /\ tezosHeight > txs[log.receipt].height
  /\ recordTransferLog([finished |-> "find-withdraw", receipt |-> log.receipt,
                        outcomeBlock |-> tezosHeight])
  /\ UNCHANGED <<tezosVars, mishaps, clientVars, lockerVars>>

ReadHeight ==
  /\ run.pc = "height"
  /\ run' = [pc |-> "hash", height |-> CurrentHeight]
  /\ UNCHANGED <<log, tezosVars, mishaps, clientVars, lockerVars>>

MutIsAvailable == run.height >= log.outcomeBlock
IsAvailable == run.height > log.outcomeBlock

\* the hash at that height is read in a second call
WaitBlock ==
  /\ run.pc = "hash"
  /\ IF IsAvailable
     THEN recordTransferLog([finished |-> "wait-block", receipt |-> log.receipt,
            height |-> run.height, hash |-> blockHashes(run.height)])
     ELSE Goto("height") /\ UNCHANGED log
  /\ UNCHANGED <<tezosVars, mishaps, clientVars, lockerVars>>

MutLightClientHead == CurrentHeight
LightClientHead == log.hash

\* the node has no proof for a head it does not know, or that is not above
\* the block with the outcome
GetProof ==
  /\ run.pc = "proof"
  /\ LET k == txs[log.receipt].height + 1
         head == LightClientHead
     IN IF head \in k + 1 .. tezosHeight
        THEN recordTransferLog([finished |-> "get-proof",
               proofRes |-> LightClientProof(Receipts, k, head), height |-> log.height])
        ELSE Exit
  /\ UNCHANGED <<tezosVars, mishaps, clientVars, lockerVars>>

Proves(request) == proveOutcome(request.proofRes, blockMerkleRoots(request.height))

\* proveOutcome as a view, before unlockToken is sent
Prove ==
  /\ run.pc = "prove"
  /\ IF Proves(log) THEN Goto("unlock") /\ UNCHANGED log ELSE Exit
  /\ UNCHANGED <<tezosVars, mishaps, clientVars, lockerVars>>

DeleteTransferLog ==
  /\ run.pc = "delete"
  /\ Goto("done")
  /\ log' = NoLog
  /\ UNCHANGED <<tezosVars, mishaps, clientVars, lockerVars>>

TransferStep ==
  \/ Execute \/ Withdraw \/ FindWithdrawInBlock \/ ReadHeight \/ WaitBlock
  \/ GetProof \/ Prove \/ DeleteTransferLog

\* the process ends
Interrupt ==
  /\ run.pc \notin {"idle", "done"}
  /\ Goto("idle")
  /\ SenderEnds
  /\ UNCHANGED <<log, clientVars, lockerVars>>

\* it ends while the log is being written: the file is unreadable, which
\* loadTransferLog takes for an absent one
TornRecord ==
  /\ \/ run.pc = "withdraw" /\ sender.pc = "returned"
     \/ run.pc \in {"find", "hash", "proof"}
  /\ Goto("idle")
  /\ log' = NoLog
  /\ SenderEnds
  /\ UNCHANGED <<clientVars, lockerVars>>

-----------------------------------------------------------------------------
MutUnused(receipt) == TRUE
Unused(receipt) == receipt \notin usedEvents_

\* ERC20Locker.unlockToken, and what it checks
CanUnlock(request) == Proves(request) /\ Unused(request.proofRes.outcome[1])

unlockToken(request) ==
  /\ CanUnlock(request)
  /\ usedEvents_' = usedEvents_ \cup {request.proofRes.outcome[1]}
  /\ unlocked' = unlocked + 1

-----------------------------------------------------------------------------
TransferTypeOK ==
  /\ TezosTypeOK
  /\ run.pc \in {Resume(s) : s \in {"none", "withdraw", "find-withdraw", "wait-block", "get-proof"}}
                  \cup {"idle", "hash", "unlock", "unlocking", "delete", "done"}
  /\ run.height \in 0 .. MaxHeight
  /\ tezosHeight \in 1 .. MaxHeight
  /\ usedEvents_ \subseteq Executed

(* The locker pays once for every withdrawal it pays for, and only for     *)
(* withdrawals that burned the tokens, although unlockToken may reach it   *)
(* several times with one proof.                                           *)
UnlocksOnce == usedEvents_ \subseteq Executed /\ unlocked = Cardinality(usedEvents_)

(* The logged proof is accepted at the logged height from then on: it was  *)
(* built from two separate reads of a client that went on in between.      *)
ProofStaysValid == log.finished = "get-proof" => Proves(log)
=============================================================================
