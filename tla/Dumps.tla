-------------------------------- MODULE Dumps --------------------------------
(***************************************************************************)
(* eth-dump and tezos-dump: download headers or proofs of a range of       *)
(* blocks, into one file each, while the chain grows.                      *)
(***************************************************************************)
EXTENDS Integers, FiniteSets

CONSTANTS
  Window,    \* how many blocks eth-dump downloads by default
  Bounds,    \* what --start-block and --end-block may be given
  NumBlocks, \* --num-blocks of tezos-dump
  MaxHead    \* bound: the highest block either chain reaches

ASSUME DumpsAssumption ==
  /\ Window \in Nat /\ NumBlocks \in Nat /\ MaxHead \in Nat
  /\ Bounds \subseteq Int

VARIABLES
  head,      \* the last block of the chain that is dumped
  eth,       \* eth-dump: its options, its range, its loop, its files
  tezos      \* tezos-dump: the heads it compares, its loop, its files

dumpVars == <<head, eth, tezos>>

EthIdle == [pc |-> "idle", from |-> {}, to |-> {}, end |-> 0, b |-> 0, start |-> 0,
            files |-> {}]
TezosIdle == [pc |-> "idle", kind |-> "headers", latest |-> 0, new |-> 0,
              left |-> 0, files |-> {}]

DumpsInit == head \in 0..MaxHead /\ eth = EthIdle /\ tezos = TezosIdle

Grow == head < MaxHead /\ head' = head + 1 /\ UNCHANGED <<eth, tezos>>

AtLeast0(n) == IF n < 0 THEN 0 ELSE n
The(option) == CHOOSE n \in option : TRUE

EndBlock(to) == IF to = {} THEN head ELSE The(to)
MutStartBlock(from, end) ==
  IF from = {} THEN AtLeast0(end - Window + 1)
  ELSE IF The(from) < 0 THEN AtLeast0(end + The(from))
  ELSE The(from)
StartBlock(from, end) ==
  IF from = {} THEN AtLeast0(end - Window + 1)
  ELSE IF The(from) < 0 THEN AtLeast0(end + The(from) + 1)
  ELSE The(from)

(* An option is the set of the value it is given: {} or {n}.               *)
Given(values) == {{}} \cup {{n} : n \in values}

EthDump(from, to) ==
  LET end == EndBlock(to) IN
  /\ eth = EthIdle
  /\ eth' = [eth EXCEPT !.pc = "dumping", !.from = from, !.to = to, !.end = end,
                        !.b = end, !.start = StartBlock(from, end)]
  /\ UNCHANGED <<head, tezos>>

(* One block, from the last one down; the node has no block beyond its head *)
DumpBlock ==
  /\ eth.pc = "dumping" /\ eth.b >= eth.start /\ eth.b <= head
  /\ eth' = [eth EXCEPT !.files = @ \cup {eth.b}, !.b = @ - 1]
  /\ UNCHANGED <<head, tezos>>

EthDumped ==
  /\ eth.pc = "dumping" /\ eth.b < eth.start
  /\ eth' = [eth EXCEPT !.pc = "done"]
  /\ UNCHANGED <<head, tezos>>

EthFails ==
  /\ eth.pc = "dumping"
  /\ eth' = [eth EXCEPT !.pc = "failed"]
  /\ UNCHANGED <<head, tezos>>

-----------------------------------------------------------------------------
TezosDump(kind) ==
  /\ tezos = TezosIdle
  /\ tezos' = [tezos EXCEPT !.pc = "polling", !.kind = kind, !.latest = head,
                            !.left = NumBlocks]
  /\ UNCHANGED <<head, eth>>

(* The loop asks for the final head until it is a new one.                 *)
Poll ==
  /\ tezos.pc = "polling" /\ tezos.left > 0 /\ head > tezos.latest
  /\ tezos' = [tezos EXCEPT !.pc = "fetching", !.new = head]
  /\ UNCHANGED <<head, eth>>

Fetched(file) ==
  tezos' = [tezos EXCEPT !.pc = "polling", !.latest = tezos.new,
                         !.left = @ - 1, !.files = @ \cup {file}]

(* headers: a light client block that follows the new head, once there is  *)
(* one; it is asked for again until then.                                  *)
FetchHeader(h) ==
  /\ tezos.pc = "fetching" /\ tezos.kind = "headers"
  /\ h \in (tezos.new + 1)..head
  /\ Fetched([block |-> h, against |-> tezos.new])
  /\ UNCHANGED <<head, eth>>

(* proofs: of the receipts of the previous head, against the new one.      *)
ProofFile == [block |-> tezos.latest, against |-> tezos.new]
FetchProofs ==
  /\ tezos.pc = "fetching" /\ tezos.kind = "proofs"
  /\ Fetched(ProofFile)
  /\ UNCHANGED <<head, eth>>

(* A call fails, or the node answers with an error where a block or a      *)
(* proof is expected, and the command ends; some of the proofs of a block  *)
(* may have been saved by then.                                            *)
TezosFails ==
  /\ tezos.pc \in {"polling", "fetching"}
  /\ \/ tezos' = [tezos EXCEPT !.pc = "failed"]
     \/ /\ tezos.pc = "fetching" /\ tezos.kind = "proofs"
        /\ tezos' = [tezos EXCEPT !.pc = "failed", !.files = @ \cup {ProofFile}]
  /\ UNCHANGED <<head, eth>>

TezosDumped ==
  /\ tezos.pc = "polling" /\ tezos.left = 0
  /\ tezos' = [tezos EXCEPT !.pc = "done"]
  /\ UNCHANGED <<head, eth>>

DumpsNext ==
  \/ Grow
  \/ \E from \in Given(Bounds), to \in Given({n \in Bounds : n >= 0}) : EthDump(from, to)
  \/ DumpBlock \/ EthDumped \/ EthFails
  \/ \E kind \in {"headers", "proofs"} : TezosDump(kind)
  \/ Poll \/ (\E h \in 0..MaxHead : FetchHeader(h)) \/ FetchProofs
  \/ TezosDumped \/ TezosFails

-----------------------------------------------------------------------------
(* The last n blocks up to end, said without arithmetic on heights.        *)
LastBlocks(n, end) ==
  {b \in 0..end : Cardinality({c \in 0..end : c >= b}) <= n}

Wanted ==
  IF eth.from = {} THEN LastBlocks(Window, eth.end)
  ELSE IF The(eth.from) < 0 THEN LastBlocks(-The(eth.from), eth.end)
  ELSE {b \in 0..eth.end : b >= The(eth.from)}

(* An eth-dump that ends without an error has the blocks it was asked for, *)
(* no more and no fewer: -n means the last n blocks, also when the chain   *)
(* has fewer; and what an interrupted one has is the upper end of them     *)
(* without a gap.                                                          *)
EthDumpIsComplete ==
  /\ eth.pc = "done" => eth.files = Wanted
  /\ eth.files \subseteq Wanted
  /\ \A b \in eth.files, c \in Wanted : c > b => c \in eth.files

(* Every proof of a tezos-dump is of a block that the head it is proved    *)
(* against has behind it, no block is proved twice, and a dump that ends   *)
(* has as many as asked for.                                               *)
ProofsAreUsable ==
  tezos.kind = "proofs" =>
    /\ \A f \in tezos.files : f.block < f.against
    /\ \A f, g \in tezos.files : f.block = g.block => f = g
    /\ tezos.pc = "done" => Cardinality(tezos.files) = NumBlocks

(* Both dumps at once (tez-bridge-cli eth-dump and tezos-dump).            *)
DumpsAreComplete == EthDumpIsComplete /\ ProofsAreUsable
=============================================================================
