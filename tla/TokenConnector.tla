--------------------------- MODULE TokenConnector ---------------------------
(***************************************************************************)
(* The generic token connector (tezbridge-token-connector).  Two assets    *)
(* cross the bridge: "erc20", whose home is Ethereum and whose image is a  *)
(* BridgeToken under the factory on Tezos, and "nep21", whose home is      *)
(* Tezos and whose image is a BridgeToken of the factory on Ethereum.      *)
(*                                                                         *)
(* Ethereum contracts act in one transaction.  The factory on Tezos works  *)
(* by promises: what a call assigns stays assigned when a later call of    *)
(* its chain panics, and other calls run in between.                       *)
(*                                                                         *)
(* Ethereum events and Tezos receipts are known by their number; the proof *)
(* of an event is good once the light client on Tezos has it safe, the     *)
(* proof of a receipt once the light client on Ethereum trusts it.         *)
(*                                                                         *)
(* An event says which it is: the factory compares its first topic with    *)
(* the signature it expects.  A receipt does not: the contracts on         *)
(* Ethereum take every result of the factory by its bytes.                 *)
(***************************************************************************)
EXTENDS Integers, Sequences, FiniteSetsExt

CONSTANTS
  Users,
  Connector,   \* the account of the connector's contract, on either chain
  BadAddress,  \* a recipient that is no account of the other chain
  Supply,      \* what each user has of each asset at first
  Amounts,     \* the amounts users transfer
  MaxEvents,   \* bound of the events on Ethereum
  MaxCalls     \* bound of the users' calls on Tezos

ASSUME ConnectorAssumption ==
  /\ Connector \notin Users /\ BadAddress \notin Users \cup {Connector}
  /\ IsFiniteSet(Users) /\ Supply \in Nat /\ Amounts \subseteq Nat

VARIABLES
  eth,        \* [asset][account]: balances on Ethereum
  tez,        \* [asset][account]: balances on Tezos
  ethLog,     \* Locked and Withdraw events, by asset
  safe,       \* how many of them EthClient's block_hash_safe vouches for
  claim,      \* used event -> how far the promises of its claim have come
  tezLog,     \* withdraw and lock calls, with the state of their receipt
  provable,   \* the receipts NearBridge has the blocks of
  usedEvents_, \* receipt -> the function that used it
  deployed,   \* the names the factories have a token for
  bridgeToken, \* the token contract the factory on Tezos creates
  mistakes    \* do users claim too early or with the wrong function, mistype
              \* addresses, attach too little gas?  Chosen once for a behaviour

vars == <<eth, tez, ethLog, safe, claim, tezLog, provable, usedEvents_, deployed, bridgeToken,
          mistakes>>

Assets == {"erc20", "nep21"}
\* what the bytes of a result name when they were meant for the other decoder
Foreign == "foreign"
Accounts == Users \cup {Connector}

Init ==
  /\ eth = [x \in Assets |-> [u \in Accounts |->
              IF x = "erc20" /\ u \in Users THEN Supply ELSE 0]]
  /\ tez = [x \in Assets |-> [u \in Accounts |->
              IF x = "nep21" /\ u \in Users THEN Supply ELSE 0]]
  /\ ethLog = <<>> /\ safe = 0
  /\ claim = [e \in {} |-> "done"]
  /\ tezLog = <<>> /\ provable = {}
  /\ usedEvents_ = [r \in {} |-> "unlockToken"]
  /\ deployed = {} /\ bridgeToken = "none"
  /\ mistakes \in BOOLEAN

Take(balances, asset, from, amount) == [balances EXCEPT ![asset][from] = @ - amount]
Give(balances, asset, to, amount) == [balances EXCEPT ![asset][to] = @ + amount]
Put(f, x, value) == [y \in DOMAIN f \cup {x} |-> IF y = x THEN value ELSE f[y]]

used_events == DOMAIN claim

-----------------------------------------------------------------------------
(* Ethereum to Tezos.                                                      *)

Emit(asset, amount, recipient) ==
  /\ Len(ethLog) < MaxEvents
  /\ ethLog' = Append(ethLog, [asset |-> asset, amount |-> amount, recipient |-> recipient])

lockToken(sender, amount, accountId) ==
  /\ eth["erc20"][sender] >= amount
  /\ eth' = Give(Take(eth, "erc20", sender, amount), "erc20", Connector, amount)
  /\ Emit("erc20", amount, accountId)
  /\ UNCHANGED <<tez, safe, claim, tezLog, provable, usedEvents_, deployed, bridgeToken>>

\* BridgeTokenFactory.withdraw on Ethereum
EthWithdraw(sender, amount, recipient) ==
  /\ "nep21" \in deployed
  /\ eth["nep21"][sender] >= amount
  /\ eth' = Take(eth, "nep21", sender, amount)
  /\ Emit("nep21", amount, recipient)
  /\ UNCHANGED <<tez, safe, claim, tezLog, provable, usedEvents_, deployed, bridgeToken>>

\* the light client has the confirmations of one more event
ConfirmEvent ==
  /\ safe < Len(ethLog)
  /\ safe' = safe + 1
  /\ UNCHANGED <<eth, tez, ethLog, claim, tezLog, provable, usedEvents_, deployed, bridgeToken>>

MutUnused(e) == TRUE
Unused(e) == e \notin used_events

\* record_proof and the checks of the event, its signature among them, then the
\* prover is asked; who makes no mistake waits for the token contract too
Claim(asset, e) ==
  /\ ethLog[e].asset = asset
  /\ Unused(e)
  /\ mistakes \/ (e <= safe /\ (asset = "erc20" => bridgeToken = "running"))
  /\ claim' = Put(claim, e, "verify")
  /\ UNCHANGED <<eth, tez, ethLog, safe, tezLog, provable, usedEvents_, deployed, bridgeToken>>

deposit(e) == "erc20" \in deployed /\ Claim("erc20", e)

unlock(e) == Claim("nep21", e)

Advance(e, stage) ==
  /\ claim' = [claim EXCEPT ![e] = stage]
  /\ UNCHANGED <<ethLog, safe, tezLog, provable, usedEvents_, deployed, bridgeToken>>

\* the proof is sound, and its block is asked of EthClient when this runs
MutProvenLate(e) == e < safe
Proven(e) == e <= safe

verify_log_entry(e) ==
  /\ claim[e] = "verify"
  /\ Advance(e, IF Proven(e) THEN "proven" ELSE "refused")
  /\ UNCHANGED <<eth, tez>>

finish_deposit(e) ==
  /\ ethLog[e].asset = "erc20"
  /\ \/ claim[e] = "proven" /\ Advance(e, "mint")
     \/ claim[e] = "refused" /\ Advance(e, "panicked")
  /\ UNCHANGED <<eth, tez>>

\* the last promise of a claim may fail, and the event stays used: the recipient
\* is no account, the gas is spent
MayFail(e) == mistakes \/ ethLog[e].recipient = BadAddress

mint(e) ==
  /\ claim[e] = "mint"
  /\ \/ /\ bridgeToken = "running" /\ ethLog[e].recipient # BadAddress
        /\ tez' = Give(tez, "erc20", ethLog[e].recipient, ethLog[e].amount)
        /\ Advance(e, "done")
     \/ /\ MayFail(e) \/ bridgeToken # "running"
        /\ Advance(e, "panicked") /\ UNCHANGED tez
  /\ UNCHANGED eth

finish_unlock(e) ==
  /\ ethLog[e].asset = "nep21"
  /\ \/ claim[e] = "proven" /\ Advance(e, "transfer")
     \/ claim[e] = "refused" /\ Advance(e, "panicked")
  /\ UNCHANGED <<eth, tez>>

transfer(e) ==
  /\ claim[e] = "transfer"
  /\ LET to == ethLog[e].recipient
         amount == ethLog[e].amount
         covered == tez["nep21"][Connector] >= amount
     IN  \/ /\ covered /\ to # BadAddress
            /\ tez' = Give(Take(tez, "nep21", Connector, amount), "nep21", to, amount)
            /\ Advance(e, "done")
         \/ /\ MayFail(e) \/ ~covered
            /\ Advance(e, "panicked") /\ UNCHANGED tez
  /\ UNCHANGED eth

\* the name is inserted, and the promise creates the contract later
deploy_bridge_token ==
  /\ "erc20" \notin deployed
  /\ deployed' = deployed \cup {"erc20"} /\ bridgeToken' = "creating"
  /\ UNCHANGED <<eth, tez, ethLog, safe, claim, tezLog, provable, usedEvents_>>

create_bridge_token ==
  /\ bridgeToken = "creating"
  /\ \E outcome \in {"running"} \cup (IF mistakes THEN {"failed"} ELSE {}) : bridgeToken' = outcome
  /\ UNCHANGED <<eth, tez, ethLog, safe, claim, tezLog, provable, usedEvents_, deployed>>

-----------------------------------------------------------------------------
(* Tezos to Ethereum.                                                      *)

Call(asset, sender, amount, recipient) ==
  /\ Len(tezLog) < MaxCalls
  /\ tezLog' = Append(tezLog, [asset |-> asset, sender |-> sender, amount |-> amount,
                               recipient |-> recipient, receipt |-> "called"])

Receipt(r, outcome) == tezLog' = [tezLog EXCEPT ![r].receipt = outcome]

\* BridgeToken.withdraw: burn, then call the factory
MayBurn(sender, amount) == bridgeToken = "running" /\ tez["erc20"][sender] >= amount

withdraw(sender, amount, recipient) ==
  /\ MayBurn(sender, amount)
  /\ tez' = Take(tez, "erc20", sender, amount)
  /\ Call("erc20", sender, amount, recipient)
  /\ UNCHANGED <<eth, ethLog, safe, claim, provable, usedEvents_, deployed, bridgeToken>>

\* panics on a recipient that is not an Ethereum address, or when the gas is spent
finish_withdraw(r) ==
  /\ tezLog[r].asset = "erc20" /\ tezLog[r].receipt = "called"
  /\ \/ tezLog[r].recipient # BadAddress /\ Receipt(r, "success")
     \/ (mistakes \/ tezLog[r].recipient = BadAddress) /\ Receipt(r, "failed")
  /\ UNCHANGED <<eth, tez, ethLog, safe, claim, provable, usedEvents_, deployed, bridgeToken>>

\* the recipient is validated before anything happens
lock(sender, amount, recipient) ==
  /\ recipient # BadAddress
  /\ Call("nep21", sender, amount, recipient)
  /\ UNCHANGED <<eth, tez, ethLog, safe, claim, provable, usedEvents_, deployed, bridgeToken>>

transfer_from(r) ==
  /\ tezLog[r].asset = "nep21" /\ tezLog[r].receipt = "called"
  /\ LET from == tezLog[r].sender
         amount == tezLog[r].amount
     IN  \/ /\ tez["nep21"][from] >= amount
            /\ tez' = Give(Take(tez, "nep21", from, amount), "nep21", Connector, amount)
            /\ Receipt(r, "transferred")
         \/ /\ mistakes \/ tez["nep21"][from] < amount
            /\ Receipt(r, "refused") /\ UNCHANGED tez
  /\ UNCHANGED <<eth, ethLog, safe, claim, provable, usedEvents_, deployed, bridgeToken>>

MutLockResult(receipt) == "success"
LockResult(receipt) == IF receipt = "transferred" THEN "success" ELSE "failed"

\* it has a third of the gas, which may be spent when the tokens are transferred
finish_lock(r) ==
  /\ tezLog[r].receipt \in {"transferred", "refused"}
  /\ \/ Receipt(r, LockResult(tezLog[r].receipt))
     \/ mistakes /\ tezLog[r].receipt = "transferred" /\ Receipt(r, "lost")
  /\ UNCHANGED <<eth, tez, ethLog, safe, claim, provable, usedEvents_, deployed, bridgeToken>>

\* NearBridge trusts a block that has the receipt's outcome
TrustReceipt(r) ==
  /\ r \notin provable
  /\ tezLog[r].receipt \in {"success", "failed", "lost"}
  /\ provable' = provable \cup {r}
  /\ UNCHANGED <<eth, tez, ethLog, safe, claim, tezLog, usedEvents_, deployed, bridgeToken>>

\* Locker._parseProof, whose requires undo the whole transaction; it asks neither
\* which method of the factory had the outcome nor which token it is about
ParseProof(r, function) ==
  /\ r \in provable
  /\ r \notin DOMAIN usedEvents_
  /\ tezLog[r].receipt = "success"
  /\ usedEvents_' = Put(usedEvents_, r, function)

\* the token a result names: _decodeBurnResult and _decodeLockResult find the
\* wrong bytes in a result of the other kind
BurntToken(r) == IF tezLog[r].asset = "erc20" THEN "erc20" ELSE Foreign
LockedToken(r) == IF tezLog[r].asset = "nep21" THEN "nep21" ELSE Foreign

\* safeTransfer reverts at an address without a contract
unlockToken(r) ==
  /\ ParseProof(r, "unlockToken")
  /\ BurntToken(r) = "erc20"
  /\ eth["erc20"][Connector] >= tezLog[r].amount
  /\ eth' = Give(Take(eth, "erc20", Connector, tezLog[r].amount),
                 "erc20", tezLog[r].recipient, tezLog[r].amount)
  /\ UNCHANGED <<tez, ethLog, safe, claim, tezLog, provable, deployed, bridgeToken>>

\* it parses the proof like unlockToken, which uses the event up, and decodes
\* whatever is long enough
burnResult(r) ==
  /\ mistakes
  /\ ParseProof(r, "burnResult")
  /\ UNCHANGED <<eth, tez, ethLog, safe, claim, tezLog, provable, deployed, bridgeToken>>

\* BridgeTokenFactory.deposit on Ethereum; a foreign token's balances pay for
\* nothing and are not modelled
EthDeposit(r) ==
  /\ ParseProof(r, "deposit")
  /\ LockedToken(r) \in deployed
  /\ eth' = IF LockedToken(r) = "nep21"
            THEN Give(eth, "nep21", tezLog[r].recipient, tezLog[r].amount) ELSE eth
  /\ UNCHANGED <<tez, ethLog, safe, claim, tezLog, provable, deployed, bridgeToken>>

\* anybody may call it, for any name
newBridgeToken(token) ==
  /\ token \notin deployed
  /\ deployed' = deployed \cup {token}
  /\ UNCHANGED <<eth, tez, ethLog, safe, claim, tezLog, provable, usedEvents_, bridgeToken>>

-----------------------------------------------------------------------------
Start ==
  \E u \in Users, to \in Users \cup (IF mistakes THEN {BadAddress} ELSE {}), a \in Amounts :
    lockToken(u, a, to) \/ EthWithdraw(u, a, to) \/ withdraw(u, a, to) \/ lock(u, a, to)

ClaimStep(e) ==
  \/ deposit(e) \/ unlock(e)
  \/ e \in used_events /\ (\/ verify_log_entry(e) \/ finish_deposit(e) \/ mint(e)
                           \/ finish_unlock(e) \/ transfer(e))

ReceiptStep(r) ==
  \/ finish_withdraw(r) \/ transfer_from(r) \/ finish_lock(r) \/ TrustReceipt(r)
  \/ unlockToken(r) \/ EthDeposit(r)

Settle ==
  \/ ConfirmEvent \/ deploy_bridge_token \/ create_bridge_token \/ newBridgeToken("nep21")
  \/ \E e \in DOMAIN ethLog : ClaimStep(e)
  \/ \E r \in DOMAIN tezLog : ReceiptStep(r)

Next ==
  /\ \/ Start \/ Settle
     \/ mistakes /\ newBridgeToken(Foreign)
     \/ \E r \in DOMAIN tezLog : burnResult(r)
  /\ UNCHANGED mistakes

Spec == Init /\ [][Next]_vars

\* the light clients advance, promises run, and somebody presents every proof
FairSpec == Spec /\ WF_vars(Settle /\ UNCHANGED mistakes)

-----------------------------------------------------------------------------
TypeOK ==
  /\ eth \in [Assets -> [Accounts -> Nat]] /\ tez \in [Assets -> [Accounts -> Nat]]
  /\ \A e \in DOMAIN ethLog : ethLog[e].asset \in Assets
  /\ safe \in 0 .. Len(ethLog) /\ used_events \subseteq DOMAIN ethLog
  /\ provable \subseteq DOMAIN tezLog /\ DOMAIN usedEvents_ \subseteq provable
  /\ deployed \subseteq Assets \cup {Foreign} /\ mistakes \in BOOLEAN
  /\ bridgeToken \in {"none", "creating", "running", "failed"}

(* Where the amounts that left their home are.                             *)
Amount(log, S) == MapThenSumSet(LAMBDA i : log[i].amount, S)

EventsOf(asset, lost) ==
  {e \in DOMAIN ethLog :
     /\ ethLog[e].asset = asset
     /\ IF e \in used_events THEN (claim[e] = "panicked") = lost /\ claim[e] # "done"
                             ELSE ~lost}

\* the function whose use of a receipt releases its amount
Release == [x \in Assets |-> IF x = "erc20" THEN "unlockToken" ELSE "deposit"]

ReceiptsOf(asset, lost) ==
  {r \in DOMAIN tezLog :
     /\ tezLog[r].asset = asset
     /\ asset = "nep21" => tezLog[r].receipt \in {"transferred", "success", "lost"}
     /\ IF r \in DOMAIN usedEvents_ THEN lost /\ usedEvents_[r] # Release[asset]
                                    ELSE (tezLog[r].receipt \in {"failed", "lost"}) = lost}

Image(asset) ==
  MapThenSumSet(LAMBDA u : IF asset = "erc20" THEN tez[asset][u] ELSE eth[asset][u], Users)

Home(asset) == IF asset = "erc20" THEN eth[asset][Connector] ELSE tez[asset][Connector]

Crossing(asset, lost) ==
  Amount(ethLog, EventsOf(asset, lost)) + Amount(tezLog, ReceiptsOf(asset, lost))

(* Conservation: what the connector holds of an asset at home is exactly   *)
(* what circulates as its image plus what is on its way, in an event, a    *)
(* promise or a receipt, plus what was lost on the way: to a claim that    *)
(* came too early, to a promise that failed after the event was marked as  *)
(* used, to a mistyped recipient, or to a proof that was handed to the     *)
(* function for the other kind of result or to burnResult.                 *)
Conserved ==
  \A x \in Assets : Home(x) = Image(x) + Crossing(x, FALSE) + Crossing(x, TRUE)

(* The connector can always pay out every image that exists or will: no    *)
(* transfer and no unlockToken with a good proof fails for lack of tokens. *)
CanPayOut ==
  /\ \A e \in used_events : claim[e] = "transfer" => tez["nep21"][Connector] >= ethLog[e].amount
  /\ \A r \in provable \ DOMAIN usedEvents_ :
       tezLog[r].asset = "erc20" /\ tezLog[r].receipt = "success" =>
         eth["erc20"][Connector] >= tezLog[r].amount

(* When users make no mistakes every token that leaves its home arrives,   *)
(* and every token sent back is released.                                  *)
EventuallySettled ==
  ~mistakes =>
  /\ \A e \in 1 .. MaxEvents : e \in DOMAIN ethLog ~> e \in used_events /\ claim[e] = "done"
  /\ \A r \in 1 .. MaxCalls : (r \in DOMAIN tezLog /\ tezLog[r].receipt = "success")
                                ~> r \in DOMAIN usedEvents_
=============================================================================
