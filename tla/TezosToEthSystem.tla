-------------------------- MODULE TezosToEthSystem --------------------------
(***************************************************************************)
(* The Tezos-to-Ethereum direction at work: Tezos, the light client on     *)
(* Ethereum, one transfer with its attempts to unlock the tokens, and the  *)
(* relay, which sends from the same Ethereum account.                      *)
(***************************************************************************)
EXTENDS TransferFromTezos, RobustWeb3

CONSTANTS
  Attempts,   \* the callers that are calls of unlockToken by the command
  relay       \* the other caller

ASSUME SystemAssumption == relay \in Callers /\ Attempts = Callers \ {relay}

VARIABLES
  request,    \* attempt -> the arguments of its call
  succeeded,  \* the mined transactions that did not revert
  trouble     \* bound, chosen once for a behaviour: do mishaps happen on Tezos
              \* and in the command ("tezos"), do timeouts and the relay disturb
              \* unlockToken ("relay"), or do timeouts and interruptions ("retry")?

web3Vars == <<call, pool, mined>>
requestVars == <<request, succeeded, trouble>>
tezosSideVars == <<tezosVars, mishaps, fileVars, clientVars>>
sysVars == <<tezosSideVars, lockerVars, web3Vars, requestVars>>

SysInit ==
  /\ TransferInit /\ Init
  /\ request = [u \in {} |-> NoLog]
  /\ succeeded = {}
  /\ trouble \in {"tezos", "relay", "retry"}

Command == TransferStep /\ UNCHANGED <<web3Vars, requestVars>>

CommandMishap ==
  /\ trouble = "tezos"
  /\ run.pc = "withdraw" /\ SenderMishap
  /\ UNCHANGED <<fileVars, clientVars, lockerVars, web3Vars, requestVars>>

\* the call of unlockToken the command is waiting for
Active(u) == u \in DOMAIN request /\ call[u].pc \notin {"done", "failed"}

\* the call an interrupted process was in is over, what it sent is not
Interrupted ==
  /\ trouble = (IF run.pc = "unlocking" THEN "retry" ELSE "tezos")
  /\ Mishap
  /\ Interrupt \/ TornRecord
  /\ call' = [c \in Callers |-> IF Active(c) THEN [call[c] EXCEPT !.pc = "failed"] ELSE call[c]]
  /\ UNCHANGED <<pool, mined, requestVars>>

\* Tezos goes on while somebody waits for a block, and by one more block
\* between the two reads of the command
Awaited ==
  {txs[i].height + 1 : i \in Executed}
    \cup (IF log.finished = "find-withdraw" THEN {log.outcomeBlock + 1} ELSE {})
    \cup (IF run.pc = "hash" /\ IsAvailable /\ trouble = "tezos" THEN {run.height + 1} ELSE {})

\* what Tezos and the light client do while callContract runs changes nothing
\* that unlockToken asks for: trusted blocks stay
Quiet == request # [u \in {} |-> NoLog]

TezosBlock ==
  /\ ~Quiet
  /\ \E h \in Awaited : tezosHeight < h
  /\ tezosHeight' = tezosHeight + 1
  /\ UNCHANGED <<senderVars, keyNonce, mishaps, fileVars, clientVars, lockerVars, web3Vars, requestVars>>

ExecuteWithdrawal ==
  /\ ~Quiet
  /\ \E i \in DOMAIN txs : ExecuteTx(i)
  /\ trouble # "tezos" => mishaps' = mishaps
  /\ UNCHANGED <<fileVars, clientVars, lockerVars, web3Vars, requestVars>>

\* what it trusts before the command asks is not above outcomeBlock
Asked == log.finished \in {"find-withdraw", "wait-block", "get-proof"}

LightClient ==
  /\ Asked /\ ~Quiet
  /\ \/ /\ candidate = NoCandidate
        /\ \/ Client!Propose(tezosHeight, tezosHeight) /\ UNCHANGED mishaps
           \/ Client!Propose(MaxHeight, WrongHash) /\ trouble = "tezos" /\ Mishap
     \/ candidate.hash = WrongHash /\ Client!Discard /\ UNCHANGED mishaps
     \/ candidate # NoCandidate /\ candidate.hash # WrongHash /\ Client!Advance /\ UNCHANGED mishaps
  /\ UNCHANGED <<tezosVars, fileVars, lockerVars, web3Vars, requestVars>>

-----------------------------------------------------------------------------
\* callContract(ethTokenLockerContract, 'unlockToken', ...)
StartUnlock(u) ==
  /\ run.pc = "unlock"
  /\ u \notin DOMAIN request
  /\ (Quiet /\ trouble = "relay") => call[relay].pc \in {"done", "failed"}
  /\ Goto("unlocking")
  /\ request' = [v \in DOMAIN request \cup {u} |-> IF v = u THEN log ELSE request[v]]
  /\ UNCHANGED <<log, tezosVars, mishaps, clientVars, lockerVars, web3Vars, succeeded, trouble>>

\* beside the relay, timeouts and broken connections are those of one attempt
Unreliable == trouble = "retry" \/ (trouble = "relay" /\ Cardinality(DOMAIN request) = 1)

\* what the receipt says of the call is what became of it
AttemptStep(u) ==
  /\ Active(u)
  /\ Step(u) /\ (SlowTransaction(u) => Unreliable)
  /\ Receipt(u) => (call'[u].pc = "done") = (Transaction(u) \in succeeded)
  /\ run' = [run EXCEPT !.pc = CASE call'[u].pc = "done" -> "delete"
                                 [] call'[u].pc = "failed" -> "idle"
                                 [] OTHER -> @]
  /\ UNCHANGED <<log, tezosVars, mishaps, clientVars, lockerVars, requestVars>>

\* the relay's call matters only beside one of unlockToken
RelayStep ==
  /\ trouble = "relay" /\ Quiet
  /\ Step(relay)
  /\ UNCHANGED <<tezosSideVars, lockerVars, requestVars>>

Disconnect ==
  /\ Unreliable /\ Mishap
  /\ trouble = "relay" => mishaps = 0
  /\ \E c \in Callers : ((c = relay /\ trouble = "relay") \/ Active(c)) /\ Reconnect(c)
  /\ UNCHANGED <<tezosVars, fileVars, clientVars, lockerVars, requestVars>>

\* a mined transaction of an attempt runs unlockToken, or reverts
MineTransaction ==
  /\ Mine
  /\ LET tx == CHOOSE t \in mined' \ mined : TRUE
     IN IF tx.owner \in Attempts /\ CanUnlock(request[tx.owner])
        THEN /\ unlockToken(request[tx.owner])
             /\ succeeded' = succeeded \cup {tx}
        ELSE UNCHANGED <<lockerVars, succeeded>>
  /\ UNCHANGED <<tezosSideVars, request, trouble>>

RunCommand == Command \/ \E u \in Attempts : StartUnlock(u) \/ AttemptStep(u)

Chains == TezosBlock \/ ExecuteWithdrawal \/ LightClient \/ MineTransaction

SysNext == RunCommand \/ Chains \/ RelayStep \/ CommandMishap \/ Interrupted \/ Disconnect

SysSpec == SysInit /\ [][SysNext]_sysVars

\* the user runs the command until it succeeds; Tezos, the light client and
\* the miners go on, and so does the relay
SysFairness == WF_sysVars(RunCommand) /\ WF_sysVars(Chains) /\ WF_sysVars(RelayStep)

FairSysSpec == SysSpec /\ SysFairness

-----------------------------------------------------------------------------
SysTypeOK ==
  /\ TypeOK /\ TransferTypeOK
  /\ DOMAIN request \subseteq Attempts
  /\ succeeded \subseteq mined /\ trouble \in {"tezos", "relay", "retry"}

(* A call of callContract that has begun comes to an end, whoever else     *)
(* sends from the account and however often it times out.                  *)
StartedCallsEnd ==
  \A c \in Callers : call[c].pc = "nonce" ~> call[c].pc \in {"done", "failed"}

(* A transfer is completed on Ethereum: the tokens are paid out, unless    *)
(* more goes wrong than the bound on mishaps allows.                       *)
EventuallyUnlocked == <>(unlocked > 0 \/ mishaps = MaxMishaps)
=============================================================================
