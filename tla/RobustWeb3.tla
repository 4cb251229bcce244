----------------------------- MODULE RobustWeb3 -----------------------------
(***************************************************************************)
(* RobustWeb3.callContract (tezbridge/robust.js): processes that share one *)
(* Ethereum account, as relay and watchdog do, each send one transaction,  *)
(* send it again with a doubled gas price when it is not mined in time,    *)
(* and with the next nonce when the node says that the nonce is wrong.     *)
(*                                                                         *)
(* The node and the miners are external: a transaction whose nonce is used *)
(* is refused, so is one that does not outbid the pending one it replaces, *)
(* and a miner may have missed a replacement and mine the older one.       *)
(***************************************************************************)
EXTENDS Integers, FiniteSetsExt

CONSTANTS
  Callers,      \* the processes
  GasPrice,     \* the price the node suggests
  MaxGasPrice,  \* the loop ends there (1e13)
  FixedPrice,   \* what options.gasPrice of a caller says, or 0
  MaxBreaks     \* bound: how often the connection of a caller breaks

ASSUME RobustWeb3Assumption ==
  /\ GasPrice \in Nat \ {0} /\ MaxGasPrice \in Nat /\ MaxBreaks \in Nat
  /\ FixedPrice \in [Callers -> Nat]

VARIABLES
  call,      \* [pc, gasPrice, nonce] of each caller, and whether it
             \* has sent again, and how often its connection broke
  pool,      \* transactions not mined yet: [owner, nonce, price]
  mined      \* the transactions mined so far, the account's nonce being its size

vars == <<call, pool, mined>>

AccountNonce == Cardinality(mined)

\* getTransactionCount(from, 'pending')
PendingNonce ==
  Min({n \in AccountNonce .. AccountNonce + Cardinality(pool) :
         \A tx \in pool : tx.nonce # n})

Init ==
  /\ call = [c \in Callers |-> [pc |-> "price", gasPrice |-> 0, nonce |-> 0,
                                resent |-> FALSE, breaks |-> 0]]
  /\ pool = {} /\ mined = {}

Set(c, pc) == call' = [call EXCEPT ![c].pc = pc]

ReadGasPrice(c) ==
  /\ call[c].pc = "price"
  /\ call' = [call EXCEPT ![c].pc = "nonce", ![c].gasPrice = GasPrice]
  /\ UNCHANGED <<pool, mined>>

ReadNonce(c) ==
  /\ call[c].pc = "nonce"
  /\ call' = [call EXCEPT ![c].pc = "send", ![c].nonce = PendingNonce]
  /\ UNCHANGED <<pool, mined>>

Transaction(c) ==
  [owner |-> c, nonce |-> call[c].nonce,
   price |-> IF FixedPrice[c] # 0 THEN FixedPrice[c] ELSE call[c].gasPrice]

Outbid(tx) == \E other \in pool : other.nonce = tx.nonce /\ other.price >= tx.price

\* the node takes the transaction
Send(c) ==
  /\ call[c].pc = "send"
  /\ call[c].gasPrice < MaxGasPrice
  /\ call[c].nonce >= AccountNonce
  /\ ~Outbid(Transaction(c))
  /\ pool' = pool \cup {Transaction(c)}
  /\ Set(c, "wait")
  /\ UNCHANGED mined

MutNextNonce(c) == call[c].nonce
NextNonce(c) == call[c].nonce + 1

NonceError(c) ==
  /\ call[c].pc = "send"
  /\ call[c].gasPrice < MaxGasPrice
  /\ call[c].nonce < AccountNonce
  /\ call' = [call EXCEPT ![c].nonce = NextNonce(c)]
  /\ UNCHANGED <<pool, mined>>

\* any other error is thrown: underpriced, or no gas price left to try
Throw(c) ==
  /\ call[c].pc = "send"
  /\ \/ call[c].gasPrice >= MaxGasPrice
     \/ call[c].nonce >= AccountNonce /\ Outbid(Transaction(c))
  /\ Set(c, "failed")
  /\ UNCHANGED <<pool, mined>>

IsMined(c) == Transaction(c) \in mined

\* the receipt is returned, or says that the call reverted, which is thrown
Receipt(c) ==
  /\ call[c].pc = "wait"
  /\ IsMined(c)
  /\ \E end \in {"done", "failed"} : Set(c, end)
  /\ UNCHANGED <<pool, mined>>

MutAfterTimeout(c) == [call[c] EXCEPT !.pc = "nonce", !.resent = TRUE]
AfterTimeout(c) == [call[c] EXCEPT !.pc = "send", !.resent = TRUE, !.gasPrice = @ * 2]

SlowTransaction(c) ==
  /\ call[c].pc = "wait"
  /\ call' = [call EXCEPT ![c] = AfterTimeout(c)]
  /\ UNCHANGED <<pool, mined>>

\* the connection breaks, whether or not the node got the transaction
Reconnect(c) ==
  /\ call[c].pc = "wait"
  /\ call[c].breaks < MaxBreaks
  /\ call' = [call EXCEPT ![c].pc = "send", ![c].resent = TRUE, ![c].breaks = @ + 1]
  /\ UNCHANGED <<pool, mined>>

Mine ==
  /\ \E tx \in pool :
       /\ tx.nonce = AccountNonce
       /\ mined' = mined \cup {tx}
       /\ pool' = {other \in pool : other.nonce # tx.nonce}
  /\ UNCHANGED call

Step(c) ==
  \/ ReadGasPrice(c) \/ ReadNonce(c) \/ Send(c) \/ NonceError(c) \/ Throw(c)
  \/ Receipt(c) \/ SlowTransaction(c)

Next == Mine \/ \E c \in Callers : Step(c) \/ Reconnect(c)

Spec == Init /\ [][Next]_vars

FairSpec == Spec /\ \A c \in Callers : WF_vars(Step(c))

-----------------------------------------------------------------------------
TypeOK ==
  /\ call \in [Callers -> [pc : {"price", "nonce", "send", "wait", "done", "failed"},
                           gasPrice : Nat, nonce : Nat,
                           resent : BOOLEAN, breaks : 0 .. MaxBreaks]]
  /\ \A tx \in pool \cup mined : tx.owner \in Callers /\ tx.nonce \in Nat /\ tx.price \in Nat
  /\ \A tx \in mined : \A other \in mined : tx.nonce = other.nonce => tx = other

Executions(c) == Cardinality({tx \in mined : tx.owner = c})

(* A caller never has two transactions waiting that can both be executed:  *)
(* whatever it sends again replaces what it sent before.                   *)
ResendsReplace ==
  \A t, u \in pool : t.owner = u.owner => t.nonce = u.nonce

(* One call is executed once.                                              *)
ExecutedOnce == \A c \in Callers : Executions(c) <= 1
=============================================================================
