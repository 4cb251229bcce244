--------------------------- MODULE EthereumChain ---------------------------
(***************************************************************************)
(* The Ethereum chain as an RPC node shows it to the services: blocks are  *)
(* mined on the tip, and now and then a longer branch replaces the last    *)
(* few of them.  Nothing of it is code of this repository.                 *)
(***************************************************************************)
EXTENDS Integers, Sequences

VARIABLES
  chain,   \* the block at each height, a block being a number
  parent   \* the parent of each block ever mined

chainVars == <<chain, parent>>

Blocks == DOMAIN parent
Fresh == Len(parent) + 1
Tip == chain[Len(chain)]

ChainTypeOK == chain \in Seq(Blocks) /\ parent \in Seq(Nat) /\ chain # <<>>

ChainInit == chain = <<1>> /\ parent = <<0>>

MineBlock == chain' = Append(chain, Fresh) /\ parent' = Append(parent, Tip)

\* d blocks are replaced by d + 1 others
Reorg(d) ==
  LET fork == Len(chain) - d IN
  /\ fork >= 1
  /\ chain' = SubSeq(chain, 1, fork) \o [i \in 1 .. d + 1 |-> Fresh + i - 1]
  /\ parent' = parent \o [i \in 1 .. d + 1 |-> IF i = 1 THEN chain[fork] ELSE Fresh + i - 2]
=============================================================================
