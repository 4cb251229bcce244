-------------------------- MODULE TezosTransactions --------------------------
(***************************************************************************)
(* signAndSendTransaction (tezbridge/robust.js): sign with the next nonce  *)
(* of the access key, broadcast without waiting, ask for the status, send  *)
(* the same transaction again when there is no answer, and sign a new one  *)
(* when sending failed or the nonce was refused.                           *)
(*                                                                         *)
(* The Tezos node is external.  A broadcast may be lost, or its answer; a  *)
(* transaction executes at most once, and only with a nonce above the last *)
(* one the access key has used.                                            *)
(***************************************************************************)
EXTENDS Integers, SequencesExt

CONSTANTS
  RetrySendTx,   \* RETRY_SEND_TX
  MaxMishaps     \* bound: what goes wrong in a behaviour, of all kinds together

VARIABLES
  sender,       \* the process: [pc, nonce, tries, resendLast, tx]
  txs,          \* what was signed so far: [nonce, status, height, call, threw],
                \* threw being history: did sending it throw?
  keyNonce,     \* the nonce of the access key on the chain
  tezosHeight,  \* the height of the final head of Tezos
  calls,        \* history: how many calls were started
  mishaps       \* what went wrong so far

senderVars == <<sender, txs, calls>>
tezosVars == <<senderVars, keyNonce, tezosHeight>>

SenderOff == [pc |-> "off", nonce |-> 0, tries |-> 0, resendLast |-> FALSE,
              tx |-> 0]

TezosInit ==
  /\ sender = SenderOff
  /\ txs = <<>> /\ keyNonce = 0 /\ tezosHeight = 1 /\ calls = 0 /\ mishaps = 0

TezosTypeOK ==
  /\ sender \in [pc : {"off", "send", "status", "returned", "threw"}, nonce : Nat,
                 tries : 0 .. RetrySendTx, resendLast : BOOLEAN,
                 tx : 0 .. Len(txs)]
  /\ \A i \in DOMAIN txs :
       txs[i] \in [nonce : Nat, height : Nat, call : 1 .. calls, threw : BOOLEAN,
                   status : {"signed", "sent", "success", "nonce", "failure"}]
  /\ keyNonce \in Nat /\ tezosHeight \in Nat /\ calls \in Nat
  /\ mishaps \in 0 .. MaxMishaps

Mishap == mishaps < MaxMishaps /\ mishaps' = mishaps + 1

\* sender.findAccessKey() and the first turn of the loop
tezosJsonContractFunctionCall ==
  /\ sender' = [SenderOff EXCEPT !.pc = "send", !.nonce = keyNonce]
  /\ calls' = calls + 1
  /\ UNCHANGED <<txs, keyNonce, tezosHeight, mishaps>>

Signed ==
  Append(txs, [nonce |-> sender.nonce + 1, status |-> "signed", height |-> 0,
               call |-> calls, threw |-> FALSE])

Sent(tx, delivered, answered) ==
  [tx EXCEPT !.threw = @ \/ ~answered,
             !.status = IF delivered /\ @ = "signed" THEN "sent" ELSE @]

\* broadcast_tx_async reaches the node or not, and answers or throws
Broadcast(delivered, answered) ==
  /\ sender.pc = "send" /\ sender.tries < RetrySendTx
  /\ LET known == IF sender.resendLast THEN txs ELSE Signed
         i == IF sender.resendLast THEN sender.tx ELSE Len(known)
     IN /\ txs' = [known EXCEPT ![i] = Sent(@, delivered, answered)]
        /\ sender' = [sender EXCEPT
                        !.tries = @ + 1, !.tx = i, !.nonce = known[i].nonce,
                        !.pc = IF answered THEN "status" ELSE "send",
                        !.resendLast = @ /\ ~answered]
  /\ IF delivered /\ answered THEN UNCHANGED mishaps ELSE Mishap
  /\ UNCHANGED <<keyNonce, tezosHeight, calls>>

Status == txs[sender.tx].status

\* txStatus gives a final result
Result ==
  /\ sender.pc = "status"
  /\ \/ Status = "success" /\ sender' = [sender EXCEPT !.pc = "returned"]
     \/ Status = "nonce" /\ sender' = [sender EXCEPT !.pc = "send"]
     \/ Status = "failure" /\ sender' = [sender EXCEPT !.pc = "threw"]
  /\ UNCHANGED <<txs, keyNonce, tezosHeight, calls, mishaps>>

MutAfterNoResult == [sender EXCEPT !.pc = "send"]
AfterNoResult == [sender EXCEPT !.pc = "send", !.resendLast = TRUE]

\* RETRY_TX_STATUS questions without an answer: the node does not know the
\* transaction, or is not reached although it does
NoResult ==
  /\ sender.pc = "status"
  /\ sender' = AfterNoResult
  /\ IF Status = "signed" THEN UNCHANGED mishaps ELSE Mishap
  /\ UNCHANGED <<txs, keyNonce, tezosHeight, calls>>

\* the last answer was that execution goes on: the code takes it for a
\* failure whose text it then misses
StillRunning ==
  /\ sender.pc = "status" /\ Status = "sent"
  /\ sender' = [sender EXCEPT !.pc = "threw"]
  /\ Mishap
  /\ UNCHANGED <<txs, keyNonce, tezosHeight, calls>>

GiveUp ==
  /\ sender.pc = "send" /\ sender.tries = RetrySendTx
  /\ sender' = [sender EXCEPT !.pc = "threw"]
  /\ UNCHANGED <<txs, keyNonce, tezosHeight, calls, mishaps>>

SenderStep ==
  \/ Broadcast(TRUE, TRUE)
  \/ Result
  \/ GiveUp
  \/ NoResult /\ Status = "signed"

SenderMishap ==
  \/ \E delivered \in BOOLEAN : Broadcast(delivered, FALSE)
  \/ Broadcast(FALSE, TRUE)
  \/ NoResult /\ Status # "signed"
  \/ StillRunning

\* the node executes a transaction in the next block, or refuses its nonce
ExecuteTx(i) ==
  /\ txs[i].status = "sent"
  /\ IF txs[i].nonce <= keyNonce
     THEN /\ txs' = [txs EXCEPT ![i].status = "nonce"]
          /\ UNCHANGED <<keyNonce, tezosHeight, mishaps>>
     ELSE /\ keyNonce' = txs[i].nonce
          /\ tezosHeight' = tezosHeight + 1
          /\ \/ /\ txs' = [txs EXCEPT ![i].status = "success", ![i].height = tezosHeight']
                /\ UNCHANGED mishaps
             \/ /\ txs' = [txs EXCEPT ![i].status = "failure"]
                /\ Mishap
  /\ UNCHANGED <<sender, calls>>

Executed == {i \in DOMAIN txs : txs[i].status = "success"}

(* A call is executed twice only if sending threw in it: a transaction     *)
(* that gets no answer is sent again as it is, never signed anew while the *)
(* first may still be executed.                                            *)
TwiceOnlyAfterThrow ==
  \A i, j \in Executed :
    i < j /\ txs[i].call = txs[j].call => \E k \in i .. j - 1 : txs[k].threw
=============================================================================
