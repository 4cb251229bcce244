------------------------- MODULE RelayStartupProofs -------------------------
(***************************************************************************)
(* Proofs about the relay's startup, for every chain of epochs, any number *)
(* of mishaps and restarts and any number of attempts.                     *)
(***************************************************************************)
EXTENDS RelayStartup, TezosBridgeProofs

(* The process has read which block is final.                              *)
HasRead == startup.pc \notin {"check", "final", "run", "exited"}

Awaiting(call) == pool.call = call /\ pool.status = "pending"

(* The producers set so far are those of a block that is no later than     *)
(* what the process has read, and than the block on its way to be mined.   *)
SetSoFar(i) ==
  /\ currentBlockProducers = ValidatorsOrdered(i)
  /\ HasRead => i <= startup.last
  /\ Awaiting("block") => i <= pool.arg

Uninitialised ==
  /\ currentBlockProducers = <<>> \/ \E i \in 1 .. tip : SetSoFar(i)
  /\ HasRead /\ Awaiting("validators") => pool.arg <= startup.last

BlockFollows ==
  startup.pc \in {"sendValidators", "awaitValidators", "sendBlock", "awaitBlock"} =>
    startup.last <= startup.block

(* A transaction the process waits for is its own.                         *)
Awaited ==
  /\ startup.pc = "awaitBlock" => pool.call = "block"
  /\ pool.status = "mined" /\ pool.call = "block" => initialized

(* Only the loop begins with more refusals than attempts.                  *)
Refusals == startup.pc \in {"sendValidators", "sendBlock"} => startup.attempt <= MaxAttempts

StartInv ==
  /\ StartupTypeOK /\ ValidatorsNotAhead /\ LoopNeedsHead
  /\ ~initialized => Uninitialised
  /\ BlockFollows /\ Awaited /\ Refusals

-----------------------------------------------------------------------------
(* The block that follows the last final one is not an earlier one.        *)
LEMMA FollowsLast ==
  ASSUME StartupTypeOK, startup.last \in 1 .. tip
  PROVE  /\ NextLightClientBlock(Chain[startup.last].hash) \in 1 .. tip
         /\ startup.last <= NextLightClientBlock(Chain[startup.last].hash)
<1>1. PICK last \in 1 .. tip : last = startup.last
  OBVIOUS
<1>2. PICK hash : hash = Chain[last].hash
  OBVIOUS
<1>3. tip \in DOMAIN Chain /\ 1 .. tip \subseteq DOMAIN Chain /\ tip \in Nat
  BY UpToTip DEF StartupTypeOK
<1>4. PICK from \in 1 .. tip :
        /\ Chain[from].hash = hash
        /\ NextLightClientBlock(hash) \in 1 .. tip
        /\ \/ Chain[NextLightClientBlock(hash)].epochId = Chain[from].nextEpochId
           \/ NextLightClientBlock(hash) >= from
  BY <1>2, <1>3, NextBlock DEF KnownToTezos
<1>5. PICK next \in 1 .. tip : next = NextLightClientBlock(hash)
  BY <1>4
<1>6. from = last
  BY <1>2, <1>3, <1>4, StartupAssumption
<1>7. last <= next
  BY <1>3, <1>4, <1>5, <1>6, StartupAssumption
<1> QED BY <1>1, <1>2, <1>5, <1>7

Startups == [pc : StartPcs, last : 1 .. tip, block : 1 .. tip, attempt : 1 .. MaxAttempts + 1]

LEMMA StartupFields ==
  ASSUME StartupTypeOK
  PROVE  /\ startup \in Startups /\ tip \in Nat /\ MaxAttempts \in Nat \ {0} /\ MaxMishaps \in Nat
         /\ startup.last \in 1 .. tip /\ startup.block \in 1 .. tip
         /\ startup.attempt \in 1 .. MaxAttempts + 1 /\ pool.arg \in 1 .. tip
BY UpToTip, StartupAssumption DEF StartupTypeOK, Startups

LEMMA StartupRefused ==
  ASSUME startup \in Startups, NEW attempt \in 1 .. MaxAttempts + 1
  PROVE  [startup EXCEPT !.attempt = attempt] \in Startups
BY DEF Startups

(* The ways a step changes the record.                                     *)
LEMMA StartupMoves ==
  ASSUME startup \in Startups, NEW pc \in StartPcs, NEW i \in 1 .. tip,
         NEW attempt \in 1 .. MaxAttempts + 1
  PROVE  /\ [startup EXCEPT !.pc = pc] \in Startups
         /\ [startup EXCEPT !.pc = pc, !.attempt = attempt] \in Startups
         /\ [startup EXCEPT !.pc = pc, !.last = i] \in Startups
         /\ [startup EXCEPT !.pc = pc, !.attempt = attempt, !.block = i] \in Startups
BY DEF Startups

LEMMA InitStart == StartInit => StartInv
<1> SUFFICES ASSUME StartInit PROVE StartInv
  OBVIOUS
<1>1. 1 \in DOMAIN Chain /\ tip = 1 /\ ~initialized /\ currentBlockProducers = <<>>
  BY NodeAssumption DEF StartInit, Init
<1>2. StartupTypeOK
  BY <1>1, StartupAssumption DEF StartInit, StartupTypeOK, StartPcs
<1> QED BY <1>1, <1>2 DEF StartInit, StartInv, ValidatorsNotAhead, LoopNeedsHead, Uninitialised,
                          HasRead, Awaiting, BlockFollows, Awaited, Refusals

(* A step that leaves contract and pool alone keeps the invariant when it   *)
(* forgets what it has read, keeps it, or reads the last final block.      *)
LEMMA ProcessKeeps ==
  ASSUME StartInv, UNCHANGED <<vars, tip, pool>>, mishaps' \in 0 .. MaxMishaps, startup' \in Startups,
         \/ startup'.last = startup.last /\ (HasRead' => HasRead)
         \/ startup'.last = tip,
         BlockFollows', Refusals',
         startup'.pc = "run" => initialized \/ Stranded',
         startup'.pc = "awaitBlock" => pool.call = "block"
  PROVE  StartInv'
<1>0. StartupTypeOK /\ tip \in Nat /\ pool.arg \in 1 .. tip
  BY StartupFields DEF StartInv
<1>1. StartupTypeOK'
  BY <1>0 DEF StartupTypeOK, Startups
<1>2. /\ initialized' = initialized /\ head' = head /\ nextBlockProducers' = nextBlockProducers
      /\ currentBlockProducers' = currentBlockProducers /\ tip' = tip /\ pool' = pool
  BY DEF vars, trustVars
<1>3. ValidatorsNotAhead'
  BY <1>2 DEF StartInv, ValidatorsNotAhead
<1>4. LoopNeedsHead'
  BY <1>2 DEF LoopNeedsHead
<1>5. ASSUME ~initialized' PROVE Uninitialised'
  <2>1. Uninitialised
    BY <1>2, <1>5 DEF StartInv
  <2>2. HasRead' /\ Awaiting("validators")' => pool'.arg <= startup'.last
    BY <1>0, <1>2, <2>1 DEF Uninitialised, Awaiting
  <2>3. ASSUME NEW i \in 1 .. tip, SetSoFar(i) PROVE SetSoFar(i)'
    BY <1>0, <1>2, <2>3 DEF SetSoFar, ValidatorsOrdered, Awaiting
  <2> QED BY <1>2, <2>1, <2>2, <2>3 DEF Uninitialised
<1>6. Awaited'
  BY <1>2 DEF StartInv, Awaited
<1> QED BY <1>1, <1>3, <1>4, <1>5, <1>6 DEF StartInv

LEMMA ReadingSteps ==
  ASSUME StartInv, CheckInitialized \/ ReadLastFinal \/ ReadValidators \/ ReadBlock
  PROVE  StartInv'
<1>0. /\ StartupTypeOK /\ startup \in Startups /\ tip \in Nat /\ MaxAttempts \in Nat \ {0}
      /\ startup.last \in 1 .. tip /\ mishaps \in 0 .. MaxMishaps
  BY StartupFields DEF StartInv, StartupTypeOK
<1>1. CASE CheckInitialized
  <2>1. PICK pc \in StartPcs :
          startup' = [startup EXCEPT !.pc = pc] /\ pc = IF initialized THEN "run" ELSE "final"
    BY <1>1 DEF CheckInitialized, StartPcs
  <2>2. startup' \in Startups /\ startup'.pc = pc /\ startup'.last = startup.last
    BY <1>0, <2>1, StartupMoves DEF Startups
  <2> QED BY <1>0, <1>1, <2>1, <2>2, ProcessKeeps DEF CheckInitialized, HasRead, BlockFollows, Refusals
<1>2. CASE ReadLastFinal
  <2>1. startup' = [startup EXCEPT !.pc = "validators", !.last = tip] /\ tip \in 1 .. tip
    BY <1>0, <1>2 DEF ReadLastFinal
  <2>2. "validators" \in StartPcs
    BY DEF StartPcs
  <2>3. startup' \in Startups /\ startup'.pc = "validators" /\ startup'.last = tip
    BY <1>0, <2>1, <2>2, StartupMoves DEF Startups
  <2> QED BY <1>0, <1>2, <2>3, ProcessKeeps DEF ReadLastFinal, BlockFollows, Refusals
<1>3. CASE ReadValidators
  <2>1. startup' = [startup EXCEPT !.pc = "block"] /\ "block" \in StartPcs
    BY <1>3 DEF ReadValidators, StartPcs
  <2>2. startup' \in Startups /\ startup'.pc = "block" /\ startup'.last = startup.last
    BY <1>0, <2>1, StartupMoves DEF Startups
  <2> QED BY <1>0, <1>3, <2>2, ProcessKeeps DEF ReadValidators, HasRead, BlockFollows, Refusals
<1>4. CASE ReadBlock
  <2>1. PICK next \in 1 .. tip :
          next = NextLightClientBlock(Chain[startup.last].hash) /\ startup.last <= next
    BY <1>0, FollowsLast
  <2>2. startup' = [startup EXCEPT !.pc = "sendValidators", !.attempt = 1, !.block = next]
    BY <1>4, <2>1 DEF ReadBlock
  <2>3. "sendValidators" \in StartPcs /\ 1 \in 1 .. MaxAttempts + 1
    BY <1>0 DEF StartPcs
  <2>4. /\ startup' \in Startups /\ startup'.pc = "sendValidators"
        /\ startup'.last = startup.last /\ startup'.block = next /\ startup'.attempt = 1
    BY <1>0, <2>2, <2>3, StartupMoves DEF Startups
  <2> QED BY <1>0, <1>4, <2>1, <2>4, ProcessKeeps DEF ReadBlock, HasRead, BlockFollows, Refusals
<1> QED BY <1>1, <1>2, <1>3, <1>4

LEMMA EndingSteps ==
  ASSUME StartInv, AwaitReceipt \/ Restart \/ Mishap
  PROVE  StartInv'
<1>0. /\ StartupTypeOK /\ startup \in Startups /\ tip \in Nat /\ MaxAttempts \in Nat \ {0}
      /\ mishaps \in 0 .. MaxMishaps /\ MaxMishaps \in Nat /\ 1 \in 1 .. MaxAttempts + 1
  BY StartupFields DEF StartInv, StartupTypeOK
<1>1. ASSUME startup' = [startup EXCEPT !.pc = "exited"], UNCHANGED <<vars, tip, pool>>,
             mishaps' \in 0 .. MaxMishaps
      PROVE  StartInv'
  <2>1. "exited" \in StartPcs
    BY DEF StartPcs
  <2>2. startup' \in Startups /\ startup'.pc = "exited" /\ startup'.last = startup.last
    BY <1>0, <1>1, <2>1, StartupMoves DEF Startups
  <2> QED BY <1>1, <2>2, ProcessKeeps DEF HasRead, BlockFollows, Refusals
<1>2. CASE Mishap
  BY <1>0, <1>1, <1>2 DEF Mishap
<1>3. CASE Restart
  <2>1. "check" \in StartPcs /\ startup' = [startup EXCEPT !.pc = "check", !.attempt = 1]
    BY <1>3 DEF StartPcs, Restart
  <2>2. startup' \in Startups /\ startup'.pc = "check" /\ startup'.last = startup.last
    BY <1>0, <2>1, StartupMoves DEF Startups
  <2> QED BY <1>0, <1>3, <2>2, ProcessKeeps DEF Restart, HasRead, BlockFollows, Refusals
<1>4. CASE AwaitReceipt
  <2>0. UNCHANGED <<vars, tip, pool, mishaps>>
    BY <1>4 DEF AwaitReceipt
  <2>1. CASE startup' = [startup EXCEPT !.pc = "exited"]
    BY <1>0, <1>1, <2>0, <2>1
  <2>2. CASE pool.status = "mined"
    <3>1. PICK pc \in {"sendBlock", "run"} :
            /\ startup' = [startup EXCEPT !.pc = pc, !.attempt = 1]
            /\ startup.pc = IF pc = "run" THEN "awaitBlock" ELSE "awaitValidators"
      BY <1>4, <2>2 DEF AwaitReceipt, Receipt
    <3>2. pc \in StartPcs
      BY <3>1 DEF StartPcs
    <3>3. /\ startup' \in Startups /\ startup'.pc = pc /\ startup'.last = startup.last
          /\ startup'.block = startup.block /\ startup'.attempt = 1
      BY <1>0, <3>1, <3>2, StartupMoves DEF Startups
    <3>4. pc = "run" => initialized
      BY <2>2, <3>1 DEF StartInv, Awaited
    <3>5. HasRead /\ startup.last <= startup.block
      BY <3>1 DEF HasRead, StartInv, BlockFollows
    <3> QED BY <1>0, <2>0, <3>1, <3>3, <3>4, <3>5, ProcessKeeps DEF BlockFollows, Refusals
  <2> QED BY <1>4, <2>1, <2>2 DEF AwaitReceipt, Receipt
<1> QED BY <1>2, <1>3, <1>4

(* A transaction that is sent, or refused.                                 *)
LEMMA SendingSteps ==
  ASSUME StartInv, SendValidators \/ SendBlock
  PROVE  StartInv'
<1>0. /\ StartupTypeOK /\ startup \in Startups /\ tip \in Nat /\ MaxAttempts \in Nat \ {0}
      /\ startup.last \in 1 .. tip /\ startup.block \in 1 .. tip
      /\ startup.attempt \in 1 .. MaxAttempts + 1
      /\ mishaps \in 0 .. MaxMishaps /\ 1 \in 1 .. MaxAttempts + 1
  BY StartupFields DEF StartInv, StartupTypeOK
<1>1. PICK call \in {"validators", "block"}, arg \in {startup.last, startup.block},
           waiting \in {"awaitValidators", "awaitBlock"}, next \in {"sendBlock", "run"} :
        /\ Send(call, arg, waiting, next)
        /\ \/ /\ startup.pc = "sendValidators" /\ call = "validators" /\ arg = startup.last
              /\ waiting = "awaitValidators" /\ next = "sendBlock"
           \/ /\ startup.pc = "sendBlock" /\ call = "block" /\ arg = startup.block
              /\ waiting = "awaitBlock" /\ next = "run"
  BY DEF SendValidators, SendBlock
<1>2. HasRead /\ startup.last <= startup.block /\ UNCHANGED <<vars, tip, mishaps>>
  BY <1>1 DEF HasRead, StartInv, BlockFollows, Send
<1>3. CASE /\ pool' = [call |-> call, arg |-> arg, status |-> "pending"]
           /\ startup' = [startup EXCEPT !.pc = waiting]
  <2>1. waiting \in StartPcs
    BY <1>1 DEF StartPcs
  <2>2. /\ startup' \in Startups /\ startup'.pc = waiting /\ startup'.last = startup.last
        /\ startup'.block = startup.block
    BY <1>0, <1>3, <2>1, StartupMoves DEF Startups
  <2>3. /\ initialized' = initialized /\ head' = head /\ nextBlockProducers' = nextBlockProducers
        /\ currentBlockProducers' = currentBlockProducers /\ tip' = tip
    BY <1>2 DEF vars, trustVars
  <2>4. pool'.call = call /\ pool'.arg = arg /\ pool'.status = "pending"
    BY <1>3
  <2>5. StartupTypeOK'
    BY <1>0, <1>1, <1>2, <1>3, <2>2, <2>3 DEF StartupTypeOK, Startups
  <2>6. ValidatorsNotAhead' /\ LoopNeedsHead'
    BY <1>1, <2>2, <2>3 DEF StartInv, ValidatorsNotAhead, LoopNeedsHead
  <2>7. ASSUME ~initialized' PROVE Uninitialised'
    <3>1. Uninitialised
      BY <2>3, <2>7 DEF StartInv
    <3>2. HasRead'
      BY <1>1, <2>2 DEF HasRead
    <3>3. HasRead' /\ Awaiting("validators")' => pool'.arg <= startup'.last
      BY <1>0, <1>1, <2>2, <2>4 DEF Awaiting
    <3>4. ASSUME NEW i \in 1 .. tip, SetSoFar(i) PROVE SetSoFar(i)'
      BY <1>0, <1>1, <1>2, <2>2, <2>3, <2>4, <3>4 DEF SetSoFar, ValidatorsOrdered, Awaiting
    <3> QED BY <2>3, <3>1, <3>3, <3>4 DEF Uninitialised
  <2>8. BlockFollows' /\ Awaited' /\ Refusals'
    BY <1>1, <1>2, <2>2, <2>4 DEF BlockFollows, Awaited, Refusals
  <2> QED BY <2>5, <2>6, <2>7, <2>8 DEF StartInv
<1>4. CASE UNCHANGED pool /\ startup.attempt < MaxAttempts /\ startup' = [startup EXCEPT !.attempt = @ + 1]
  <2>1. startup.attempt + 1 \in 1 .. MaxAttempts + 1
    BY <1>0, <1>4
  <2>2. PICK attempt \in 1 .. MaxAttempts + 1 : attempt = startup.attempt + 1 /\ attempt <= MaxAttempts
    BY <1>0, <1>4, <2>1
  <2>3. startup' = [startup EXCEPT !.attempt = attempt]
    BY <1>4, <2>2
  <2>4. startup' \in Startups
    BY <1>0, <2>3, StartupRefused
  <2>5. /\ startup'.pc = startup.pc /\ startup'.last = startup.last
        /\ startup'.block = startup.block /\ startup'.attempt = attempt
    BY <1>0, <2>3 DEF Startups
  <2> QED BY <1>0, <1>1, <1>2, <1>4, <2>2, <2>4, <2>5, ProcessKeeps DEF BlockFollows, HasRead, Refusals
<1>5. CASE /\ UNCHANGED pool /\ startup.attempt >= MaxAttempts
           /\ startup' = [startup EXCEPT !.pc = next, !.attempt = IF next = "run" THEN @ + 1 ELSE 1]
  <2>1. startup.attempt <= MaxAttempts
    BY <1>1 DEF StartInv, Refusals
  <2>2. PICK attempt \in 1 .. MaxAttempts + 1 :
          attempt = IF next = "run" THEN startup.attempt + 1 ELSE 1
    BY <1>0, <2>1
  <2>3. startup' = [startup EXCEPT !.pc = next, !.attempt = attempt]
    BY <1>5, <2>2
  <2>4. next \in StartPcs
    BY DEF StartPcs
  <2>5. /\ startup' \in Startups /\ startup'.pc = next /\ startup'.last = startup.last
        /\ startup'.block = startup.block /\ startup'.attempt = attempt
    BY <1>0, <2>3, <2>4, StartupMoves DEF Startups
  <2>6. next = "sendBlock" => startup'.attempt = 1
    BY <1>0, <2>2, <2>5
  <2>7. next = "run" => Stranded'
    BY <1>0, <1>5, <2>2, <2>5 DEF Stranded
  <2> QED BY <1>0, <1>1, <1>2, <1>5, <2>5, <2>6, <2>7, ProcessKeeps DEF BlockFollows, HasRead, Refusals
<1> QED BY <1>0, <1>1, <1>3, <1>4, <1>5 DEF Send

(* The pending transaction is mined.                                       *)
LEMMA MiningStep ==
  ASSUME StartInv, Mine
  PROVE  StartInv'
<1>0. /\ StartupTypeOK /\ tip \in Nat /\ pool.arg \in 1 .. tip
      /\ pool.call \in {"validators", "block"} /\ pool.status = "pending"
      /\ UNCHANGED <<tip, startup, mishaps>>
  BY StartupFields DEF StartInv, StartupTypeOK, Mine
<1>1. PICK status \in {"mined", "reverted"} : pool' = [pool EXCEPT !.status = status]
  BY DEF Mine
<1>2. pool'.call = pool.call /\ pool'.arg = pool.arg /\ pool'.status = status
  BY <1>0, <1>1 DEF StartupTypeOK
<1>3. StartupTypeOK'
  BY <1>0, <1>1 DEF StartupTypeOK
<1>4. BlockFollows' /\ Refusals'
  BY <1>0 DEF StartInv, BlockFollows, Refusals
<1>5. CASE UNCHANGED vars /\ status = "reverted"
  <2>1. /\ initialized' = initialized /\ head' = head /\ nextBlockProducers' = nextBlockProducers
        /\ currentBlockProducers' = currentBlockProducers
    BY <1>5 DEF vars, trustVars
  <2>2. ValidatorsNotAhead' /\ LoopNeedsHead'
    BY <1>0, <2>1 DEF StartInv, ValidatorsNotAhead, LoopNeedsHead, Stranded
  <2>3. ASSUME ~initialized' PROVE Uninitialised'
    <3>1. ~Awaiting("block")' /\ ~Awaiting("validators")'
      BY <1>2, <1>5 DEF Awaiting
    <3>2. Uninitialised
      BY <2>1, <2>3 DEF StartInv
    <3>3. ASSUME NEW i \in 1 .. tip, SetSoFar(i) PROVE SetSoFar(i)'
      BY <1>0, <2>1, <3>1, <3>3 DEF SetSoFar, ValidatorsOrdered, HasRead
    <3> QED BY <1>0, <2>1, <3>1, <3>2, <3>3 DEF Uninitialised
  <2>4. Awaited'
    BY <1>0, <1>2, <1>5 DEF StartInv, Awaited
  <2> QED BY <1>3, <1>4, <2>2, <2>3, <2>4 DEF StartInv
<1>6. CASE pool.call = "validators" /\ InitWithValidators(ValidatorsOrdered(pool.arg))
  <2>1. ~initialized /\ ~initialized' /\ currentBlockProducers' = ValidatorsOrdered(pool.arg)
    BY <1>6 DEF InitWithValidators
  <2>2. ValidatorsNotAhead'
    BY <2>1 DEF ValidatorsNotAhead
  <2>3. LoopNeedsHead'
    BY <1>0, <2>1 DEF StartInv, LoopNeedsHead, Stranded
  <2>4. PICK i \in 1 .. tip : i = pool.arg
    BY <1>0
  <2>5. ~Awaiting("block")' /\ ~Awaiting("validators")'
    BY <1>1, <1>2 DEF Awaiting
  <2>6. HasRead => i <= startup.last
    BY <1>0, <1>6, <2>1, <2>4 DEF StartInv, Uninitialised, Awaiting
  <2>7. SetSoFar(i)'
    BY <1>0, <2>1, <2>4, <2>5, <2>6 DEF SetSoFar, ValidatorsOrdered, HasRead
  <2>8. Uninitialised'
    BY <1>0, <2>4, <2>5, <2>7 DEF Uninitialised
  <2>9. Awaited'
    BY <1>0, <1>2, <1>6 DEF StartInv, Awaited
  <2> QED BY <1>3, <1>4, <2>2, <2>3, <2>8, <2>9 DEF StartInv
<1>7. CASE pool.call = "block" /\ InitWithBlock(Chain[pool.arg])
  <2>1. /\ ~initialized /\ initialized' /\ head' = Info(Chain[pool.arg])
        /\ nextBlockProducers' = Chain[pool.arg].nextBps
        /\ currentBlockProducers' = currentBlockProducers
        /\ TotalStake(currentBlockProducers) > 0
    BY <1>7 DEF InitWithBlock
  <2>2. PICK i \in 1 .. tip : SetSoFar(i)
    BY <2>1, NoStake DEF StartInv, Uninitialised
  <2>3. PICK j \in 1 .. tip : j = pool.arg
    BY <1>0
  <2>4. i <= j /\ currentBlockProducers = Validators[Chain[i].epochId]
    BY <1>0, <1>7, <2>2, <2>3 DEF SetSoFar, Awaiting, ValidatorsOrdered
  <2>5. ValidatorsNotAhead'
    BY <1>0, <2>1, <2>3, <2>4 DEF ValidatorsNotAhead
  <2>6. LoopNeedsHead' /\ Awaited'
    BY <1>0, <1>2, <1>7, <2>1 DEF StartInv, LoopNeedsHead, Awaited
  <2> QED BY <1>3, <1>4, <2>1, <2>5, <2>6 DEF StartInv
<1>8. CASE Execute
  <2>1. CASE pool.call = "validators"
    BY <1>6, <1>8, <2>1 DEF Execute
  <2>2. CASE pool.call = "block"
    BY <1>7, <1>8, <2>2 DEF Execute
  <2> QED BY <1>0, <2>1, <2>2
<1>9. CASE pool' = [pool EXCEPT !.status = "reverted"] /\ UNCHANGED vars
  <2>1. pool'.status = "reverted"
    BY <1>0, <1>9
  <2> QED BY <1>2, <1>5, <1>9, <2>1
<1> QED BY <1>8, <1>9 DEF Mine

(* Tezos goes on.                                                          *)
LEMMA TezosStep ==
  ASSUME StartInv, FinalizeBlock
  PROVE  StartInv'
<1>0. /\ tip \in Nat /\ tip' = tip + 1 /\ tip' \in DOMAIN Chain /\ 1 .. tip \subseteq 1 .. tip'
      /\ UNCHANGED <<startup, pool, mishaps, initialized, head, currentBlockProducers, nextBlockProducers>>
  BY UpToTip, NodeAssumption DEF StartInv, StartupTypeOK, FinalizeBlock, ProduceBlock, vars, trustVars
<1>1. StartupTypeOK'
  BY <1>0 DEF StartInv, StartupTypeOK
<1>2. ValidatorsNotAhead' /\ LoopNeedsHead'
  BY <1>0 DEF StartInv, ValidatorsNotAhead, LoopNeedsHead, Stranded
<1>3. ASSUME ~initialized' PROVE Uninitialised'
  <2>1. Uninitialised
    BY <1>0, <1>3 DEF StartInv
  <2>2. ASSUME NEW i \in 1 .. tip, SetSoFar(i) PROVE i \in 1 .. tip' /\ SetSoFar(i)'
    BY <1>0, <2>2 DEF SetSoFar, ValidatorsOrdered, HasRead, Awaiting
  <2> QED BY <1>0, <2>1, <2>2 DEF Uninitialised, HasRead, Awaiting
<1> QED BY <1>0, <1>1, <1>2, <1>3 DEF StartInv, BlockFollows, Awaited, Refusals

LEMMA NextStart == StartInv /\ [StartNext]_startVars => StartInv'
<1> SUFFICES ASSUME StartInv, [StartNext]_startVars PROVE StartInv'
  OBVIOUS
<1>1. CASE UNCHANGED startVars
  BY <1>1 DEF startVars, vars, trustVars, StartInv, StartupTypeOK, ValidatorsNotAhead, LoopNeedsHead,
              Stranded, Uninitialised, SetSoFar, ValidatorsOrdered, HasRead, Awaiting, BlockFollows,
              Awaited, Refusals
<1> QED BY <1>1, ReadingSteps, EndingSteps, SendingSteps, MiningStep, TezosStep
        DEF StartNext, StartupStep

LEMMA StartInvHolds == StartSpec => []StartInv
BY InitStart, NextStart, PTL DEF StartSpec

-----------------------------------------------------------------------------
(* The contract starts from a final block, with the producers it announces *)
(* and current producers of its epoch or an earlier one, however often the *)
(* process ends between its calls.                                         *)
THEOREM StartsFromFinalBlock == StartSpec => []ValidatorsNotAhead
<1>1. StartInv => ValidatorsNotAhead
  BY DEF StartInv
<1> QED BY <1>1, StartInvHolds, PTL

(* The loop begins with an initialised contract, unless every attempt to   *)
(* send it a block was refused.                                            *)
THEOREM LoopBeginsInitialised == StartSpec => []LoopNeedsHead
<1>1. StartInv => LoopNeedsHead
  BY DEF StartInv
<1> QED BY <1>1, StartInvHolds, PTL
=============================================================================
