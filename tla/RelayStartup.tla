---------------------------- MODULE RelayStartup ----------------------------
(***************************************************************************)
(* How the Tezos-to-Ethereum relay starts (initialize of                   *)
(* tezos2eth-relay/index.js): when the contract is not initialised it      *)
(* reads the producers of the last final block and the light client block  *)
(* that follows it in two calls, and sends them in two transactions, with  *)
(* the nonce of the account's last mined transaction.  Anything that goes  *)
(* wrong ends the process; pm2 starts it again, while what the earlier     *)
(* process has sent may still be waiting to be mined.                      *)
(*                                                                         *)
(* Each await is a step.  Answers of null only repeat the two reads for    *)
(* the same block, so they leave the state as it is.                       *)
(***************************************************************************)
EXTENDS TezosNode

CONSTANTS
  MaxAttempts,  \* the ten times a transaction is sent when underpriced
  MaxMishaps    \* bound of the errors, timeouts and crashes of the process

(* Hashes and heights tell blocks apart, and the epoch a block announces   *)
(* begins after it.                                                        *)
ASSUME StartupAssumption ==
  /\ MaxAttempts \in Nat \ {0} /\ MaxMishaps \in Nat
  /\ \A i, j \in DOMAIN Chain : Chain[i].hash = Chain[j].hash => i = j
  /\ \A i, j \in DOMAIN Chain : Chain[j].epochId = Chain[i].nextEpochId => i < j

VARIABLES
  startup,  \* pc, and the indices in Chain of what the process has read
  pool,     \* the account's last transaction: its call, argument and status
  mishaps

startVars == <<vars, tip, startup, pool, mishaps>>

StartPcs == {"check", "final", "validators", "block", "sendValidators", "awaitValidators",
             "sendBlock", "awaitBlock", "run", "exited"}

StartupTypeOK ==
  /\ tip \in DOMAIN Chain /\ mishaps \in 0 .. MaxMishaps
  /\ startup \in [pc : StartPcs, last : 1 .. tip, block : 1 .. tip, attempt : 1 .. MaxAttempts + 1]
  /\ pool \in [call : {"validators", "block"}, arg : 1 .. tip,
               status : {"none", "pending", "mined", "reverted"}]

StartInit ==
  /\ Init
  /\ tip = 1 /\ mishaps = 0
  /\ startup = [pc |-> "check", last |-> 1, block |-> 1, attempt |-> 1]
  /\ pool = [call |-> "validators", arg |-> 1, status |-> "none"]

-----------------------------------------------------------------------------
MutCheckInitialized ==
  /\ startup.pc = "check"
  /\ startup' = [startup EXCEPT !.pc = "final"]
  /\ UNCHANGED <<vars, tip, pool, mishaps>>

CheckInitialized ==
  /\ startup.pc = "check"
  /\ startup' = [startup EXCEPT !.pc = IF initialized THEN "run" ELSE "final"]
  /\ UNCHANGED <<vars, tip, pool, mishaps>>

\* last_final_block of the block at the latest height
ReadLastFinal ==
  /\ startup.pc = "final"
  /\ startup' = [startup EXCEPT !.pc = "validators", !.last = tip]
  /\ UNCHANGED <<vars, tip, pool, mishaps>>

\* the answer depends on the last final block alone: it is known when sent
ReadValidators ==
  /\ startup.pc = "validators"
  /\ startup' = [startup EXCEPT !.pc = "block"]
  /\ UNCHANGED <<vars, tip, pool, mishaps>>

ReadBlock ==
  /\ startup.pc = "block"
  /\ startup' = [startup EXCEPT !.pc = "sendValidators", !.attempt = 1,
                                !.block = NextLightClientBlock(Chain[startup.last].hash)]
  /\ UNCHANGED <<vars, tip, pool, mishaps>>

(* A transaction takes the place of one that is pending, which has the     *)
(* same nonce, or is refused as underpriced.  After MaxAttempts refusals   *)
(* the loop ends without an error and the next call is made.               *)
Send(call, arg, waiting, next) ==
  /\ \/ /\ pool' = [call |-> call, arg |-> arg, status |-> "pending"]
        /\ startup' = [startup EXCEPT !.pc = waiting]
     \/ /\ pool.status = "pending"
        /\ startup' = IF startup.attempt < MaxAttempts
                      THEN [startup EXCEPT !.attempt = @ + 1]
                      ELSE [startup EXCEPT !.pc = next,
                                           !.attempt = IF next = "run" THEN @ + 1 ELSE 1]
        /\ UNCHANGED pool
  /\ UNCHANGED <<vars, tip, mishaps>>

SendValidators ==
  /\ startup.pc = "sendValidators"
  /\ Send("validators", startup.last, "awaitValidators", "sendBlock")

SendBlock ==
  /\ startup.pc = "sendBlock"
  /\ Send("block", startup.block, "awaitBlock", "run")

MutReceipt(next) == [startup EXCEPT !.pc = next, !.attempt = 1]

\* the receipt has come: a reverted transaction ends the process
Receipt(next) ==
  IF pool.status = "mined" THEN [startup EXCEPT !.pc = next, !.attempt = 1]
  ELSE [startup EXCEPT !.pc = "exited"]

AwaitReceipt ==
  /\ pool.status \in {"mined", "reverted"}
  /\ \/ startup.pc = "awaitValidators" /\ startup' = Receipt("sendBlock")
     \/ startup.pc = "awaitBlock" /\ startup' = Receipt("run")
  /\ UNCHANGED <<vars, tip, pool, mishaps>>

\* a call fails, the receipt does not come in time, or the process is killed
Mishap ==
  /\ mishaps < MaxMishaps
  /\ mishaps' = mishaps + 1
  /\ startup.pc # "exited"
  /\ startup' = [startup EXCEPT !.pc = "exited"]
  /\ UNCHANGED <<vars, tip, pool>>

\* pm2 starts the process again
Restart ==
  /\ startup.pc = "exited"
  /\ startup' = [startup EXCEPT !.pc = "check", !.attempt = 1]
  /\ UNCHANGED <<vars, tip, pool, mishaps>>

\* Ethereum mines the pending transaction, long after it was sent perhaps
Execute == IF pool.call = "validators" THEN InitWithValidators(ValidatorsOrdered(pool.arg))
                                       ELSE InitWithBlock(Chain[pool.arg])

MayExecute ==
  /\ ~initialized
  /\ pool.call = "block" =>
       TotalStake(currentBlockProducers) > 0 /\ Chain[pool.arg].nextBps # NoBps

Mine ==
  /\ pool.status = "pending"
  /\ \/ Execute /\ pool' = [pool EXCEPT !.status = "mined"]
     \/ ~MayExecute /\ pool' = [pool EXCEPT !.status = "reverted"] /\ UNCHANGED vars
  /\ UNCHANGED <<tip, startup, mishaps>>

FinalizeBlock == ProduceBlock /\ UNCHANGED <<startup, pool, mishaps>>

-----------------------------------------------------------------------------
StartupStep ==
  \/ CheckInitialized \/ ReadLastFinal \/ ReadValidators \/ ReadBlock
  \/ SendValidators \/ SendBlock \/ AwaitReceipt \/ Restart

StartNext == StartupStep \/ Mine \/ Mishap \/ FinalizeBlock

\* the process runs, Ethereum mines what it accepted, Tezos goes on
StartFairness == WF_startVars(StartupStep) /\ WF_startVars(Mine) /\ WF_startVars(FinalizeBlock)

StartSpec == StartInit /\ [][StartNext]_startVars
FairStartSpec == StartSpec /\ StartFairness

-----------------------------------------------------------------------------
(* However the process fails, comes back and meets what its predecessors   *)
(* have sent, the contract starts from a final block and the producers it  *)
(* announces, and never with current producers of a later epoch.  They are  *)
(* of an earlier one when an epoch begins between the two reads.           *)
ValidatorsNotAhead ==
  initialized => \E i, j \in 1 .. tip :
    /\ i <= j
    /\ currentBlockProducers = Validators[Chain[i].epochId]
    /\ head = Info(Chain[j]) /\ nextBlockProducers = Chain[j].nextBps

(* The relay's loop begins without an initialised contract only when the   *)
(* block's transaction was refused every time.                             *)
Stranded == startup.attempt > MaxAttempts

LoopNeedsHead == startup.pc = "run" => initialized \/ Stranded

(* The relay's startup comes to an end, whatever it finds in the contract  *)
(* and in the pool.                                                        *)
EventuallyStarted == <>[](startup.pc = "run")
=============================================================================
