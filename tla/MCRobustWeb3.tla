---------------------------- MODULE MCRobustWeb3 ----------------------------
(***************************************************************************)
(* Relay and watchdog sending from one account: either both at the node's  *)
(* price, or the watchdog at a fixed higher one, as options.gasPrice.      *)
(***************************************************************************)
EXTENDS RobustWeb3

MCNoFixedPrice == [c \in Callers |-> 0]

CONSTANTS relay, watchdog
MCFixedPrice == [c \in Callers |-> IF c = watchdog THEN 3 ELSE 0]
=============================================================================
