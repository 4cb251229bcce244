-------------------------- MODULE TransferToTezos --------------------------
(***************************************************************************)
(* The command transfer-eth-erc20-to-tezos (transfer-eth-erc20/            *)
(* to-tezos.js): mint test tokens, approve, lock, find the proof, wait for *)
(* the light client, mint on Tezos.  After each stage it overwrites a log  *)
(* file, from which the user's next run resumes.  A transaction and the    *)
(* record of it are two steps, and the process may end between any two,    *)
(* or in the middle of a record: the file is written in place.             *)
(*                                                                         *)
(* One transfer of one unit is modelled.  The ERC20 token and the locker   *)
(* are what lockToken makes of them: a balance and an allowance, both used *)
(* up by the lock (ERC20Locker.sol, FA2TezToken.py).                       *)
(***************************************************************************)
EXTENDS EthereumChain, EthClientOnTezos

VARIABLES
  transfer,    \* [pc, block, height]: the running process and what it has learned
  log,         \* the log file: [finished, block, height]
  balance,     \* ERC20 balance of the sender
  allowance,   \* what the locker may take of it
  locks,       \* the block each lockToken transaction is in, NoBlock if dropped
  minted,      \* what decentralised_mint has credited to the receiver
  torn         \* counts the records of the lock that were left torn (no code reads it)

transferVars == <<transfer, log, balance, allowance, locks, minted, torn>>

NoBlock == 0

Stages == {"none", "approve", "lock", "find-proof", "block-safe"}

\* the step with which execute goes on after each logged stage
Resume ==
  [s \in Stages |->
     CASE s = "none" -> "mint_erc20" [] s = "approve" -> "lock" [] s = "lock" -> "prove"
       [] s = "find-proof" -> "wait" [] s = "block-safe" -> "deposit"]

Pcs == {Resume[s] : s \in Stages}
         \cup {"idle", "approve", "approved", "locked", "delete", "done"}

TransferTypeOK ==
  /\ transfer \in [pc : Pcs, block : Nat, height : Nat]
  /\ log \in [finished : Stages, block : Nat, height : Nat]
  /\ balance \in Nat /\ allowance \in Nat /\ minted \in Nat /\ torn \in Nat
  /\ locks \in Seq(Nat)

NoLog == [finished |-> "none", block |-> NoBlock, height |-> 0]

TransferInit ==
  /\ transfer = [pc |-> "idle", block |-> NoBlock, height |-> 0]
  /\ log = NoLog
  /\ balance = 0 /\ allowance = 0 /\ minted = 0 /\ torn = 0
  /\ locks = <<>>

Goto(pc) == transfer' = [transfer EXCEPT !.pc = pc]

\* recordTransferLog overwrites the file; execute reads it back and goes on
Record(stage, block, height) ==
  /\ log' = [finished |-> stage, block |-> block, height |-> height]
  /\ transfer' = [pc |-> Resume[stage], block |-> block, height |-> height]

\* the user runs the command, again after a failure
Execute ==
  /\ transfer.pc = "idle"
  /\ transfer' = [pc |-> Resume[log.finished], block |-> log.block, height |-> log.height]
  /\ UNCHANGED <<chainVars, clientVars, log, balance, allowance, locks, minted, torn>>

MintErc20 ==
  /\ transfer.pc = "mint_erc20"
  /\ balance' = balance + 1
  /\ Goto("approve")
  /\ UNCHANGED <<chainVars, clientVars, log, allowance, locks, minted, torn>>

\* ERC20 approve sets the allowance
MutAllowance == allowance + 1
Allowance == 1

Approve ==
  /\ transfer.pc = "approve"
  /\ allowance' = Allowance
  /\ Goto("approved")
  /\ UNCHANGED <<chainVars, clientVars, log, balance, locks, minted, torn>>

RecordApprove ==
  /\ transfer.pc = "approved"
  /\ Record("approve", NoBlock, 0)
  /\ UNCHANGED <<chainVars, clientVars, balance, allowance, locks, minted, torn>>

\* safeTransferFrom of lockToken
MayLock == balance >= 1 /\ allowance >= 1

\* the transaction is in the block mined next, or reverts
Lock ==
  /\ transfer.pc = "lock"
  /\ \/ /\ MayLock
        /\ balance' = balance - 1 /\ allowance' = allowance - 1
        /\ locks' = Append(locks, Fresh)
        /\ MineBlock
        /\ transfer' = [pc |-> "locked", block |-> Fresh, height |-> Len(chain) + 1]
     \/ /\ ~MayLock
        /\ Goto("idle")
        /\ UNCHANGED <<chainVars, balance, allowance, locks>>
  /\ UNCHANGED <<clientVars, log, minted, torn>>

\* lockedEvent: the transaction is the last one sent, whatever block it is in
RecordLock ==
  /\ transfer.pc = "locked"
  /\ Record("lock", transfer.block, transfer.height)
  /\ UNCHANGED <<chainVars, clientVars, balance, allowance, locks, minted, torn>>

\* the receipt tells the block the transaction is in now; without a receipt
\* the process ends
FindProof ==
  /\ transfer.pc = "prove"
  /\ LET block == locks[Len(locks)] IN
     \/ \E h \in DOMAIN chain : chain[h] = block /\ Record("find-proof", block, h)
     \/ /\ \A h \in DOMAIN chain : chain[h] # block
        /\ Goto("idle") /\ UNCHANGED log
  /\ UNCHANGED <<chainVars, clientVars, balance, allowance, locks, minted, torn>>

MutIsSafe(ethTxBlockNumber) == latest_block + 1 >= ethTxBlockNumber
IsSafe(ethTxBlockNumber) == latest_block > ethTxBlockNumber

WaitBlockSafe ==
  /\ transfer.pc = "wait"
  /\ IsSafe(transfer.height)
  /\ Record("block-safe", transfer.block, transfer.height)
  /\ UNCHANGED <<chainVars, clientVars, balance, allowance, locks, minted, torn>>

\* decentralised_mint credits the receiver, asking for no proof
Deposit ==
  /\ transfer.pc = "deposit"
  /\ minted' = minted + 1
  /\ Goto("delete")
  /\ UNCHANGED <<chainVars, clientVars, log, balance, allowance, locks, torn>>

DeleteTransferLog ==
  /\ transfer.pc = "delete"
  /\ log' = NoLog
  /\ Goto("done")
  /\ UNCHANGED <<chainVars, clientVars, balance, allowance, locks, minted, torn>>

\* killed, or an await throws and showRetryAndExit ends the process, possibly
\* after the transaction was mined
Interrupt ==
  /\ transfer.pc \notin {"idle", "done"}
  /\ Goto("idle")
  /\ UNCHANGED <<chainVars, clientVars, log, balance, allowance, locks, minted, torn>>

\* it ends while the log is being written: the file is unreadable, which
\* loadTransferLog takes for an absent one.  Before the lock is recorded
\* there is nothing in the log to lose
TornRecord ==
  /\ \/ transfer.pc = "locked"
     \/ transfer.pc = "prove" /\ \E h \in DOMAIN chain : chain[h] = locks[Len(locks)]
     \/ transfer.pc = "wait" /\ IsSafe(transfer.height)
  /\ Goto("idle")
  /\ log' = NoLog
  /\ torn' = torn + 1
  /\ UNCHANGED <<chainVars, clientVars, balance, allowance, locks, minted>>

TransferStep ==
  \/ Execute \/ MintErc20 \/ Approve \/ RecordApprove \/ Lock \/ RecordLock
  \/ FindProof \/ WaitBlockSafe \/ Deposit \/ DeleteTransferLog
=============================================================================
