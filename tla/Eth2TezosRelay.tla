--------------------------- MODULE Eth2TezosRelay ---------------------------
(***************************************************************************)
(* The Ethereum-to-Tezos relay (src/lib/eth2tezos-relay.js): it compares   *)
(* the heights of the chain and of the light client contract and submits   *)
(* the headers in between.  Every await is a step of its own.              *)
(*                                                                         *)
(* An iteration submits one header only: submitBlock throws as soon as its *)
(* first operation is injected (lines 220-221: the contract object has no  *)
(* block_hash_safe, and txHash is a const), and the loop starts over       *)
(* without waiting for the operation to be included.                       *)
(***************************************************************************)
EXTENDS EthereumChain, EthClientOnTezos

CONSTANT MaxPending  \* operations of the relay's account a Tezos node holds

ASSUME Eth2TezosAssumption == MaxPending \in Nat \ {0}

VARIABLES
  relay,     \* [pc, chainBlockNumber, clientBlockNumber, web3Block]
  mempool    \* injected add_block_header operations: <<hash, number, parent>>

relayVars == <<relay, mempool>>

RelayTypeOK ==
  /\ relay \in [pc : {"chain", "client", "parse", "get", "send", "sleep"},
                chainBlockNumber : Nat, clientBlockNumber : Nat, web3Block : Seq(Nat)]
  /\ mempool \in Seq(Seq(Nat)) /\ Len(mempool) <= MaxPending

RelayInit ==
  /\ relay = [pc |-> "chain", chainBlockNumber |-> 0, clientBlockNumber |-> 0,
              web3Block |-> <<>>]
  /\ mempool = <<>>

ReadChain ==
  /\ relay.pc = "chain"
  /\ relay' = [relay EXCEPT !.pc = "client", !.chainBlockNumber = Len(chain)]
  /\ UNCHANGED <<chainVars, clientVars, mempool>>

MutIsBehind == latest_block + 3 < relay.chainBlockNumber
IsBehind == latest_block < relay.chainBlockNumber

ReadClient ==
  /\ relay.pc = "client"
  /\ relay' = [relay EXCEPT !.clientBlockNumber = latest_block,
                            !.pc = IF IsBehind THEN "parse" ELSE "sleep"]
  /\ UNCHANGED <<chainVars, clientVars, mempool>>

WakeUp ==
  /\ relay.pc = "sleep"
  /\ relay' = [relay EXCEPT !.pc = "chain"]
  /\ UNCHANGED <<chainVars, clientVars, mempool>>

\* up to MAX_SUBMIT_BLOCK blocks are fetched and parsed; the first of them is
\* the only one submitBlock gets to, and nothing is sent if it did not parse
ParseBlocks ==
  /\ relay.pc = "parse"
  /\ relay' = [relay EXCEPT !.pc = IF relay.clientBlockNumber < Len(chain) THEN "get" ELSE "chain"]
  /\ UNCHANGED <<chainVars, clientVars, mempool>>

\* submitBlock fetches the block once more: the one at that height by now
GetBlock ==
  /\ relay.pc = "get"
  /\ LET number == relay.clientBlockNumber + 1 IN
     relay' = [relay EXCEPT !.pc = "send",
                            !.web3Block = <<chain[number], number, parent[chain[number]]>>]
  /\ UNCHANGED <<chainVars, clientVars, mempool>>

\* the operation is injected, or refused because another one is pending;
\* either way submitBlock throws and the loop starts over
SendBlock ==
  /\ relay.pc = "send"
  /\ mempool' = IF Len(mempool) < MaxPending THEN Append(mempool, relay.web3Block) ELSE mempool
  /\ relay' = [relay EXCEPT !.pc = "chain", !.web3Block = <<>>]
  /\ UNCHANGED <<chainVars, clientVars>>

\* an RPC call throws
RelayError ==
  /\ relay.pc \in {"chain", "client", "parse", "get", "send"}
  /\ relay' = [relay EXCEPT !.pc = "chain", !.web3Block = <<>>]
  /\ UNCHANGED <<chainVars, clientVars, mempool>>

\* a baker includes the oldest operation, which the contract may refuse
IncludeOperation ==
  /\ mempool # <<>>
  /\ LET op == mempool[1] IN
     \/ add_block_header(op[1], op[2], op[3])
     \/ ~Accepts(op[3]) /\ UNCHANGED clientVars
  /\ mempool' = Tail(mempool)
  /\ UNCHANGED <<chainVars, relay>>

RelayLoop ==
  ReadChain \/ ReadClient \/ WakeUp \/ ParseBlocks \/ GetBlock \/ SendBlock
=============================================================================
