------------------------------ MODULE Watchdog ------------------------------
(***************************************************************************)
(* The watchdog process (watchdog/index.js): it polls the contract, checks *)
(* the signatures of the pending block one call at a time and challenges   *)
(* the first wrong one.  Every await is a step of its own, so the pending  *)
(* block may be replaced, committed or challenged between any two of them. *)
(***************************************************************************)
EXTENDS TezosBridge

CONSTANTS
  WatchdogDelay,       \* watchdog-delay
  WatchdogErrorDelay,  \* watchdog-error-delay
  WatchdogIteration    \* bound of the time from waking up to sleeping again

ASSUME WatchdogAssumption ==
  WatchdogDelay \in Nat /\ WatchdogErrorDelay \in Nat /\ WatchdogIteration \in Nat

\* [pc, count: numBlockProducers as read, index: next signature to check,
\*  due: when the sleep or, while awake, the iteration is over at the latest]
VARIABLE watchdog

WatchdogTypeOK ==
  watchdog \in [pc : {"sleep", "state", "check", "challenge"},
                count : Nat, index : Nat, due : Nat]

WatchdogInit == watchdog = [pc |-> "state", count |-> 0, index |-> 0, due |-> WatchdogIteration]

WatchdogSleep(delay) == watchdog' = [watchdog EXCEPT !.pc = "sleep", !.due = now + delay]

WatchdogWake ==
  /\ watchdog.pc = "sleep"
  /\ now >= watchdog.due
  /\ watchdog' = [watchdog EXCEPT !.pc = "state", !.due = now + WatchdogIteration]
  /\ UNCHANGED vars

\* bridgeState(): nextValidAt = 0 unless a block is in its window
WatchdogReadState ==
  /\ watchdog.pc = "state"
  /\ IF InWindow
     THEN watchdog' = [watchdog EXCEPT !.pc = "check", !.index = 1,
                                       !.count = Len(PendingProducers)]
     ELSE WatchdogSleep(WatchdogDelay)
  /\ UNCHANGED vars

\* a skipped approval and an index out of range revert with a reason: go on
MutSkipSignature == WatchdogSleep(WatchdogDelay)
SkipSignature == watchdog' = [watchdog EXCEPT !.index = @ + 1]

WatchdogCheck ==
  /\ watchdog.pc = "check"
  /\ \/ /\ watchdog.index > watchdog.count
        /\ WatchdogSleep(WatchdogDelay)
     \/ /\ watchdog.index <= watchdog.count
        /\ watchdog.index \notin DOMAIN PendingProducers \/ Approval(watchdog.index) = None
        /\ SkipSignature
     \/ /\ watchdog.index <= watchdog.count
        /\ watchdog.index \in DOMAIN PendingProducers /\ Approval(watchdog.index) # None
        /\ watchdog' = IF SignatureFails(watchdog.index)
                       THEN [watchdog EXCEPT !.pc = "challenge"]
                       ELSE [watchdog EXCEPT !.index = @ + 1]
  /\ UNCHANGED vars

\* the transaction is mined, or reverts because the block is no longer the one
\* that was checked; either way one challenge ends the iteration
WatchdogChallenge ==
  /\ watchdog.pc = "challenge"
  /\ \/ Challenge(watchdog.index)
     \/ /\ ~InWindow \/ ~SignatureFails(watchdog.index)
        /\ UNCHANGED vars
  /\ WatchdogSleep(WatchdogDelay)

\* an RPC call throws: those that read the contract end in the loop's own catch;
\* the gas price, the nonce and the sending of a challenge that never reaches
\* Ethereum end in the inner one, after which the loop sleeps its full delay
WatchdogError ==
  /\ \/ watchdog.pc \in {"state", "check"} /\ WatchdogSleep(WatchdogErrorDelay)
     \/ watchdog.pc = "challenge" /\ WatchdogSleep(WatchdogDelay)
  /\ UNCHANGED vars

\* the time an iteration that fails costs at most
FailedIteration == WatchdogIteration + Max({WatchdogDelay, WatchdogErrorDelay})

WatchdogStep == WatchdogWake \/ WatchdogReadState \/ WatchdogCheck \/ WatchdogChallenge
=============================================================================
