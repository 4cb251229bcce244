-------------------------- MODULE EthToTezosProofs --------------------------
(***************************************************************************)
(* Proofs about the Ethereum-to-Tezos direction, for every depth and       *)
(* number of reorganisations, interruptions and errors, any size of the    *)
(* mempool and any lead of the chain.                                      *)
(***************************************************************************)
EXTENDS EthToTezosSystem, SequenceTheorems, FiniteSetTheorems, TLAPS

(* Every block ever mined has a height: one more than its parent's.        *)
Heights(height) ==
  /\ chain \in Seq(Blocks) /\ parent \in Seq(Nat) /\ chain # <<>>
  /\ height \in [Blocks -> Nat \ {0}]
  /\ \A h \in 1 .. Len(chain) : height[chain[h]] = h
  /\ \A b \in Blocks : \/ parent[b] = 0 /\ height[b] = 1
                       \/ parent[b] \in Blocks /\ height[b] = height[parent[b]] + 1

(* n new blocks are on top of the block at height fork of the chain.       *)
Grown(fork, n) ==
  /\ fork \in 1 .. Len(chain) /\ n \in Nat /\ fork + n > Len(chain)
  /\ chain' \in Seq(Nat) /\ Len(chain') = fork + n
  /\ \A h \in 1 .. fork : chain'[h] = chain[h]
  /\ \A h \in fork + 1 .. fork + n : chain'[h] = Len(parent) + (h - fork)
  /\ parent' \in Seq(Nat) /\ Len(parent') = Len(parent) + n
  /\ \A b \in 1 .. Len(parent) : parent'[b] = parent[b]
  /\ parent'[Len(parent) + 1] = chain[fork]
  /\ \A b \in Len(parent) + 2 .. Len(parent) + n : parent'[b] = b - 1

(* An operation holds a header as it is in some branch of the chain, and   *)
(* not too far ahead of the contract.                                      *)
Header(op, height) ==
  /\ op[1] \in Blocks
  /\ op[2] = height[op[1]] /\ op[3] = parent[op[1]]
  /\ op[2] <= latest_block + 1

RelayInv(height) ==
  /\ relay = [pc |-> relay.pc, chainBlockNumber |-> relay.chainBlockNumber,
              clientBlockNumber |-> relay.clientBlockNumber, web3Block |-> relay.web3Block]
  /\ relay.clientBlockNumber \in 0 .. latest_block
  /\ relay.pc = "get" => relay.clientBlockNumber < Len(chain)
  /\ relay.pc = "send" => Header(relay.web3Block, height)
  /\ mempool = [i \in 1 .. Len(mempool) |-> mempool[i]] /\ Len(mempool) \in Nat
  /\ \A i \in 1 .. Len(mempool) : Header(mempool[i], height)

ClientInv(height) ==
  /\ latest_block \in Nat
  /\ DOMAIN canonical_header_hashes = 1 .. latest_block
  /\ header_hash = IF latest_block = 0 THEN 0 ELSE canonical_header_hashes[latest_block]
  /\ \A n \in 1 .. latest_block :
       /\ canonical_header_hashes[n] \in Blocks
       /\ height[canonical_header_hashes[n]] = n
       /\ n > 1 => parent[canonical_header_hashes[n]] = canonical_header_hashes[n - 1]

ChainInv == \E height : Heights(height) /\ RelayInv(height) /\ ClientInv(height)

-----------------------------------------------------------------------------
LEMMA IsSeq ==
  ASSUME NEW S, NEW k \in Nat, NEW f \in [1 .. k -> S]
  PROVE  f \in Seq(S)
OBVIOUS

LEMMA MineGrows ==
  ASSUME chain \in Seq(Blocks), parent \in Seq(Nat), chain # <<>>, MineBlock
  PROVE  Grown(Len(chain), 1)
<1>1. chain' = Append(chain, Len(parent) + 1) /\ parent' = Append(parent, chain[Len(chain)])
  BY DEF MineBlock, Fresh, Tip
<1>2. /\ Len(chain) \in Nat /\ Len(parent) \in Nat /\ Len(chain) >= 1 /\ chain \in Seq(Nat)
      /\ chain[Len(chain)] \in Nat
  <2>1. Blocks \subseteq Nat
    BY LenProperties DEF Blocks
  <2>2. chain \in Seq(Nat)
    BY <2>1, SeqMonotonic
  <2> QED BY <2>2, EmptySeq, LenProperties, ElementOfSeq
<1>3. /\ chain' \in Seq(Nat) /\ Len(chain') = Len(chain) + 1
      /\ \A h \in 1 .. Len(chain) : chain'[h] = chain[h]
      /\ chain'[Len(chain) + 1] = Len(parent) + 1
  <2>1. Len(parent) + 1 \in Nat
    BY <1>2
  <2> QED BY <1>1, <1>2, <2>1, AppendProperties
<1>4. /\ parent' \in Seq(Nat) /\ Len(parent') = Len(parent) + 1
      /\ \A b \in 1 .. Len(parent) : parent'[b] = parent[b]
      /\ parent'[Len(parent) + 1] = chain[Len(chain)]
  BY <1>1, <1>2, AppendProperties
<1> QED BY <1>2, <1>3, <1>4 DEF Grown

LEMMA ReorgGrows ==
  ASSUME chain \in Seq(Blocks), parent \in Seq(Nat), chain # <<>>,
         NEW d \in Nat \ {0}, Reorg(d)
  PROVE  Grown(Len(chain) - d, d + 1)
<1>1. /\ Len(chain) \in Nat /\ Len(parent) \in Nat /\ Len(chain) - d >= 1
      /\ \A h \in 1 .. Len(chain) : chain[h] \in Nat
  <2>1. Len(parent) \in Nat /\ Len(chain) \in Nat
    BY LenProperties
  <2>2. \A h \in 1 .. Len(chain) : chain[h] \in Blocks
    BY ElementOfSeq
  <2>3. Blocks \subseteq Nat
    BY LenProperties DEF Blocks
  <2>4. Len(chain) - d >= 1
    BY DEF Reorg
  <2> QED BY <2>1, <2>2, <2>3, <2>4
<1>2. PICK fork \in 1 .. Len(chain) : fork = Len(chain) - d
  <2>1. Len(chain) - d \in 1 .. Len(chain)
    BY <1>1
  <2> QED BY <2>1
<1>3. PICK new : new = [i \in 1 .. d + 1 |-> Fresh + i - 1]
  OBVIOUS
<1>4. PICK up : up = [i \in 1 .. d + 1 |-> IF i = 1 THEN chain[fork] ELSE Fresh + i - 2]
  OBVIOUS
<1>5. /\ chain' = SubSeq(chain, 1, fork) \o new /\ parent' = parent \o up
  BY <1>2, <1>3, <1>4 DEF Reorg
<1>6. /\ new \in Seq(Nat) /\ Len(new) = d + 1
      /\ \A i \in 1 .. d + 1 : new[i] = Len(parent) + i
  <2>1. new \in [1 .. d + 1 -> Nat]
    BY <1>1, <1>3 DEF Fresh
  <2>2. new \in Seq(Nat) /\ DOMAIN new = 1 .. d + 1
    BY <2>1
  <2>3. \A i \in 1 .. d + 1 : new[i] = Len(parent) + i
    BY <1>1, <1>3 DEF Fresh
  <2> QED BY <2>2, <2>3
<1>7. /\ up \in Seq(Nat) /\ Len(up) = d + 1
      /\ up[1] = chain[fork] /\ \A i \in 2 .. d + 1 : up[i] = Len(parent) + i - 1
  <2>1. up \in [1 .. d + 1 -> Nat]
    BY <1>1, <1>2, <1>4 DEF Fresh
  <2>2. up \in Seq(Nat) /\ DOMAIN up = 1 .. d + 1
    BY <2>1
  <2>3. up[1] = chain[fork]
    BY <1>4
  <2>4. \A i \in 2 .. d + 1 : up[i] = Len(parent) + i - 1
    BY <1>1, <1>4 DEF Fresh
  <2> QED BY <2>2, <2>3, <2>4
<1>8. PICK old : old = SubSeq(chain, 1, fork)
  OBVIOUS
<1>9. old \in Seq(Nat) /\ Len(old) = fork /\ \A h \in 1 .. fork : old[h] = chain[h]
  <2>1. \A h \in 1 .. fork : chain[h] \in Nat
    BY <1>1, <1>2
  <2>2. /\ old \in Seq(Nat)
        /\ Len(old) = IF 1 <= fork THEN fork - 1 + 1 ELSE 0
        /\ \A h \in 1 .. fork - 1 + 1 : old[h] = chain[1 + h - 1]
    BY <1>8, <2>1, SubSeqProperties
  <2>3. fork - 1 + 1 = fork /\ 1 <= fork
    OBVIOUS
  <2>4. ASSUME NEW h \in 1 .. fork PROVE old[h] = chain[h]
    <3>1. old[h] = chain[1 + h - 1]
      BY <2>2, <2>3
    <3>2. 1 + h - 1 = h
      OBVIOUS
    <3> QED BY <3>1, <3>2
  <2>5. old \in Seq(Nat) /\ Len(old) = fork
    BY <2>2, <2>3
  <2> QED BY <2>4, <2>5
<1>10. /\ chain' \in Seq(Nat) /\ Len(chain') = fork + (d + 1)
       /\ \A h \in 1 .. fork + (d + 1) :
            chain'[h] = IF h <= fork THEN old[h] ELSE new[h - fork]
  <2>1. /\ old \o new \in Seq(Nat) /\ Len(old \o new) = Len(old) + Len(new)
        /\ \A h \in 1 .. Len(old) + Len(new) :
             (old \o new)[h] = IF h <= Len(old) THEN old[h] ELSE new[h - Len(old)]
    <3>1. old \in Seq(Nat) /\ new \in Seq(Nat)
      BY <1>6, <1>9
    <3> QED BY <3>1, ConcatProperties
  <2>2. Len(old) = fork /\ Len(new) = d + 1
    BY <1>6, <1>9
  <2>3. chain' = old \o new
    BY <1>5, <1>8
  <2> QED BY <2>1, <2>2, <2>3
<1>11. \A h \in fork + 1 .. fork + (d + 1) : chain'[h] = Len(parent) + (h - fork)
  <2> TAKE h \in fork + 1 .. fork + (d + 1)
  <2>1. h - fork \in 1 .. d + 1 /\ ~(h <= fork) /\ h \in 1 .. fork + (d + 1)
    BY <1>2
  <2> QED BY <1>6, <1>10, <2>1
<1>12. \A h \in 1 .. fork : chain'[h] = chain[h]
  BY <1>2, <1>9, <1>10
<1>13. /\ parent' \in Seq(Nat) /\ Len(parent') = Len(parent) + (d + 1)
       /\ \A b \in 1 .. Len(parent) + (d + 1) :
            parent'[b] = IF b <= Len(parent) THEN parent[b] ELSE up[b - Len(parent)]
  <2>1. PICK s \in Seq(Nat), t \in Seq(Nat) : s = parent /\ t = up
    BY <1>7
  <2>2. /\ s \o t \in Seq(Nat) /\ Len(s \o t) = Len(s) + Len(t)
        /\ \A b \in 1 .. Len(s) + Len(t) :
             (s \o t)[b] = IF b <= Len(s) THEN s[b] ELSE t[b - Len(s)]
    BY ConcatProperties
  <2> QED BY <1>5, <1>7, <2>1, <2>2
<1>14. /\ \A b \in 1 .. Len(parent) : parent'[b] = parent[b]
       /\ parent'[Len(parent) + 1] = chain[fork]
  <2>1. Len(parent) + 1 \in 1 .. Len(parent) + (d + 1) /\ (Len(parent) + 1) - Len(parent) = 1
        /\ ~(Len(parent) + 1 <= Len(parent))
    BY <1>1
  <2>2. \A b \in 1 .. Len(parent) : b \in 1 .. Len(parent) + (d + 1) /\ b <= Len(parent)
    BY <1>1
  <2> QED BY <1>7, <1>13, <2>1, <2>2
<1>15. \A b \in Len(parent) + 2 .. Len(parent) + (d + 1) : parent'[b] = b - 1
  <2> TAKE b \in Len(parent) + 2 .. Len(parent) + (d + 1)
  <2>1. b - Len(parent) \in 2 .. d + 1 /\ ~(b <= Len(parent)) /\ b \in 1 .. Len(parent) + (d + 1)
    BY <1>1
  <2>2. parent'[b] = up[b - Len(parent)]
    BY <1>13, <2>1
  <2>3. up[b - Len(parent)] = Len(parent) + (b - Len(parent)) - 1
    BY <1>7, <2>1
  <2> QED BY <1>1, <2>2, <2>3
<1>16. fork + (d + 1) > Len(chain) /\ d + 1 \in Nat
  BY <1>1, <1>2
<1> QED BY <1>2, <1>10, <1>11, <1>12, <1>13, <1>14, <1>15, <1>16 DEF Grown

(* A new block gets the height above its parent's; old ones keep theirs.   *)
Above(c, p, fork, n, old, new, up, newUp, height) ==
  /\ c \in Nat /\ p \in Nat /\ fork \in 1 .. c /\ n \in Nat /\ fork + n > c
  /\ \A h \in 1 .. c : old[h] \in 1 .. p /\ height[old[h]] = h
  /\ \A b \in 1 .. p : /\ height[b] \in Nat \ {0}
                       /\ \/ up[b] = 0 /\ height[b] = 1
                          \/ up[b] \in 1 .. p /\ height[b] = height[up[b]] + 1
  /\ \A h \in 1 .. fork : new[h] = old[h]
  /\ \A h \in fork + 1 .. fork + n : new[h] = p + (h - fork)
  /\ \A b \in 1 .. p : newUp[b] = up[b]
  /\ newUp[p + 1] = old[fork]
  /\ \A b \in p + 2 .. p + n : newUp[b] = b - 1

LEMMA NewHeights ==
  ASSUME NEW c, NEW p, NEW fork, NEW n, NEW old, NEW new, NEW up, NEW newUp, NEW height,
         Above(c, p, fork, n, old, new, up, newUp, height)
  PROVE  \E g \in [1 .. p + n -> Nat \ {0}] :
           /\ \A b \in 1 .. p : g[b] = height[b]
           /\ \A h \in 1 .. fork + n : new[h] \in 1 .. p + n /\ g[new[h]] = h
           /\ \A b \in 1 .. p + n :
                \/ newUp[b] = 0 /\ g[b] = 1
                \/ newUp[b] \in 1 .. p + n /\ g[b] = g[newUp[b]] + 1
<1> USE DEF Above
<1>1. PICK g : g = [b \in 1 .. p + n |-> IF b <= p THEN height[b] ELSE fork + (b - p)]
  OBVIOUS
<1>2. /\ \A b \in 1 .. p : g[b] = height[b]
      /\ \A b \in p + 1 .. p + n : g[b] = fork + (b - p)
      /\ DOMAIN g = 1 .. p + n
  BY <1>1
<1>3. \A b \in 1 .. p + n : b \in 1 .. p \/ b = p + 1 \/ b \in p + 2 .. p + n
  OBVIOUS
<1>4. g \in [1 .. p + n -> Nat \ {0}]
  BY <1>1, <1>2
<1>5. ASSUME NEW h \in 1 .. fork + n PROVE new[h] \in 1 .. p + n /\ g[new[h]] = h
  <2>1. CASE h <= fork
    <3>1. h \in 1 .. fork /\ h \in 1 .. c
      BY <2>1
    <3>2. new[h] = old[h] /\ old[h] \in 1 .. p /\ height[old[h]] = h
      BY <3>1
    <3> QED BY <1>2, <3>2
  <2>2. CASE h > fork
    <3>1. /\ h \in fork + 1 .. fork + n /\ p + (h - fork) \in p + 1 .. p + n
          /\ fork + ((p + (h - fork)) - p) = h
      BY <2>2
    <3>2. new[h] = p + (h - fork) /\ g[p + (h - fork)] = fork + ((p + (h - fork)) - p)
      BY <1>2, <3>1
    <3>3. p + (h - fork) \in 1 .. p + n
      BY <3>1
    <3> QED BY <3>1, <3>2, <3>3
  <2> QED BY <2>1, <2>2
<1>6. ASSUME NEW b \in 1 .. p + n
      PROVE  \/ newUp[b] = 0 /\ g[b] = 1
             \/ newUp[b] \in 1 .. p + n /\ g[b] = g[newUp[b]] + 1
  <2>1. CASE b \in 1 .. p
    <3>1. g[b] = height[b] /\ newUp[b] = up[b]
      BY <1>2, <2>1
    <3>2. CASE up[b] = 0 /\ height[b] = 1
      BY <3>1, <3>2
    <3>3. CASE up[b] \in 1 .. p /\ height[b] = height[up[b]] + 1
      BY <1>2, <3>1, <3>3
    <3> QED BY <2>1, <3>2, <3>3
  <2>2. CASE b = p + 1
    <3>1. newUp[b] = old[fork] /\ old[fork] \in 1 .. p /\ height[old[fork]] = fork
      BY <2>2
    <3>2. b \in p + 1 .. p + n /\ g[b] = fork + 1
      BY <1>2, <2>2
    <3> QED BY <1>2, <3>1, <3>2
  <2>3. CASE b \in p + 2 .. p + n
    <3>1. newUp[b] = b - 1 /\ b - 1 \in p + 1 .. p + n /\ b \in p + 1 .. p + n
      BY <2>3
    <3> QED BY <1>2, <3>1
  <2> QED BY <1>3, <2>1, <2>2, <2>3
<1> QED BY <1>2, <1>4, <1>5, <1>6

LEMMA GrownHeights ==
  ASSUME NEW height, Heights(height), NEW fork, NEW n, Grown(fork, n)
  PROVE  \E g : /\ Heights(g)'
                /\ Blocks \subseteq Blocks'
                /\ \A b \in Blocks : g[b] = height[b] /\ parent'[b] = parent[b]
                /\ Len(chain') >= Len(chain)
<1>1. PICK c \in Nat, p \in Nat : c = Len(chain) /\ p = Len(parent)
  BY LenProperties DEF Heights
<1>2. /\ Blocks = 1 .. p /\ fork \in 1 .. c /\ n \in Nat /\ fork + n > c
      /\ \A b \in 1 .. p : /\ height[b] \in Nat \ {0}
                           /\ \/ parent[b] = 0 /\ height[b] = 1
                              \/ parent[b] \in 1 .. p /\ height[b] = height[parent[b]] + 1
  BY <1>1, LenProperties DEF Heights, Grown, Blocks
<1>3. \A h \in 1 .. c : chain[h] \in 1 .. p /\ height[chain[h]] = h
  BY <1>1, <1>2, ElementOfSeq DEF Heights
<1>4. PICK new, newUp : new = chain' /\ newUp = parent'
  OBVIOUS
<1>5. /\ new \in Seq(Nat) /\ Len(new) = fork + n
      /\ \A h \in 1 .. fork : new[h] = chain[h]
      /\ \A h \in fork + 1 .. fork + n : new[h] = p + (h - fork)
      /\ newUp \in Seq(Nat) /\ Len(newUp) = p + n
      /\ \A b \in 1 .. p : newUp[b] = parent[b]
      /\ newUp[p + 1] = chain[fork]
      /\ \A b \in p + 2 .. p + n : newUp[b] = b - 1
  BY <1>1, <1>4 DEF Grown
<1>6. PICK g \in [1 .. p + n -> Nat \ {0}] :
           /\ \A b \in 1 .. p : g[b] = height[b]
           /\ \A h \in 1 .. fork + n : new[h] \in 1 .. p + n /\ g[new[h]] = h
           /\ \A b \in 1 .. p + n :
                \/ newUp[b] = 0 /\ g[b] = 1
                \/ newUp[b] \in 1 .. p + n /\ g[b] = g[newUp[b]] + 1
  <2>1. Above(c, p, fork, n, chain, new, parent, newUp, height)
    BY <1>1, <1>2, <1>3, <1>5 DEF Above
  <2> QED BY <2>1, NewHeights
<1>7. Blocks' = 1 .. p + n
  BY <1>4, <1>5, LenProperties DEF Blocks
<1>8. chain' \in Seq(Blocks') /\ chain' # <<>>
  <2>1. fork + n \in Nat \ {0}
    BY <1>1, <1>2
  <2>2. new \in Seq(1 .. p + n)
    <3>1. new \in [1 .. Len(new) -> Nat]
      BY <1>5, LenProperties
    <3>2. \A h \in 1 .. Len(new) : new[h] \in 1 .. p + n
      BY <1>5, <1>6
    <3>3. new \in [1 .. Len(new) -> 1 .. p + n]
      BY <3>1, <3>2
    <3>4. Len(new) \in Nat
      BY <1>5, <2>1
    <3>5. PICK k \in Nat : k = Len(new) /\ new \in [1 .. k -> 1 .. p + n]
      BY <3>3, <3>4
    <3> QED BY <3>5, IsSeq
  <2>3. new # <<>>
    <3>1. Len(<<>>) = 0 /\ Len(new) # 0
      BY <1>5, <2>1
    <3> QED BY <3>1
  <2> QED BY <1>4, <1>7, <2>2, <2>3
<1>9. Heights(g)'
  BY <1>4, <1>5, <1>6, <1>7, <1>8 DEF Heights
<1>10. Blocks \subseteq Blocks' /\ Len(chain') >= Len(chain)
  <2>1. Len(chain') = fork + n /\ fork + n > Len(chain) /\ Len(chain) \in Nat /\ fork + n \in Nat
    BY <1>1, <1>2, <1>4, <1>5
  <2>2. 1 .. p \subseteq 1 .. p + n
    BY <1>1, <1>2
  <2> QED BY <1>2, <1>7, <2>1, <2>2
<1>11. \A b \in Blocks : g[b] = height[b] /\ parent'[b] = parent[b]
  BY <1>2, <1>4, <1>5, <1>6
<1> QED BY <1>9, <1>10, <1>11

-----------------------------------------------------------------------------
(* What is in flight and what the contract knows stays true of a chain     *)
(* that grows or reorganises.                                              *)
LEMMA GrowKeepsChainInv ==
  ASSUME ChainInv, NEW fork, NEW n, Grown(fork, n), UNCHANGED <<clientVars, relayVars>>
  PROVE  ChainInv'
<1>1. PICK height : Heights(height) /\ RelayInv(height) /\ ClientInv(height)
  BY DEF ChainInv
<1>2. PICK g : /\ Heights(g)'
               /\ Blocks \subseteq Blocks'
               /\ \A b \in Blocks : g[b] = height[b] /\ parent'[b] = parent[b]
               /\ Len(chain') >= Len(chain)
  BY <1>1, GrownHeights
<1>3. ASSUME NEW op, Header(op, height) PROVE Header(op, g)'
  BY <1>2, <1>3 DEF Header, clientVars
<1>4. RelayInv(g)'
  <2>1. Len(chain) \in Nat /\ Len(chain') \in Nat
    BY <1>1, <1>2, LenProperties DEF Heights
  <2> QED BY <1>1, <1>2, <1>3, <2>1 DEF RelayInv, relayVars, clientVars, ClientInv
<1>5. ClientInv(g)'
  BY <1>1, <1>2 DEF ClientInv, clientVars
<1> QED BY <1>2, <1>4, <1>5 DEF ChainInv

LEMMA RelayKeepsChainInv ==
  ASSUME ChainInv, RelayLoop \/ RelayError
  PROVE  ChainInv'
<1>1. PICK height : Heights(height) /\ RelayInv(height) /\ ClientInv(height)
  BY DEF ChainInv
<1>2. UNCHANGED <<chainVars, clientVars>>
  BY DEF RelayLoop, RelayError, ReadChain, ReadClient, WakeUp, ParseBlocks, GetBlock, SendBlock
<1>3. Heights(height)' /\ ClientInv(height)'
  BY <1>1, <1>2 DEF Heights, ClientInv, Blocks, chainVars, clientVars
<1>4. \A op : Header(op, height) => Header(op, height)'
  BY <1>2 DEF Header, Blocks, chainVars, clientVars
<1>5. Len(chain) \in Nat /\ latest_block \in Nat /\ relay.clientBlockNumber \in Nat
  BY <1>1, LenProperties DEF Heights, ClientInv, RelayInv
<1>6. CASE ReadChain \/ ReadClient \/ WakeUp \/ ParseBlocks \/ RelayError
  <2>1. /\ relay' = [relay EXCEPT !.pc = relay'.pc, !.chainBlockNumber = relay'.chainBlockNumber,
                                  !.clientBlockNumber = relay'.clientBlockNumber,
                                  !.web3Block = relay'.web3Block]
        /\ relay'.pc # "send" /\ mempool' = mempool
        /\ relay'.clientBlockNumber \in {relay.clientBlockNumber, latest_block}
        /\ relay'.pc = "get" => /\ relay.clientBlockNumber < Len(chain)
                                /\ relay'.clientBlockNumber = relay.clientBlockNumber
    BY <1>1, <1>6 DEF ReadChain, ReadClient, WakeUp, ParseBlocks, RelayError, RelayInv
  <2>2. relay' = [pc |-> relay'.pc, chainBlockNumber |-> relay'.chainBlockNumber,
                  clientBlockNumber |-> relay'.clientBlockNumber, web3Block |-> relay'.web3Block]
    BY <1>1, <1>6 DEF ReadChain, ReadClient, WakeUp, ParseBlocks, RelayError, RelayInv
  <2>3. RelayInv(height)'
    BY <1>1, <1>2, <1>4, <1>5, <2>1, <2>2 DEF RelayInv, chainVars, clientVars
  <2> QED BY <1>3, <2>3 DEF ChainInv
<1>7. CASE GetBlock
  <2> DEFINE number == relay.clientBlockNumber + 1
  <2>1. number \in 1 .. Len(chain) /\ number <= latest_block + 1
    BY <1>1, <1>5, <1>7 DEF GetBlock, RelayInv
  <2>2. chain[number] \in Blocks /\ height[chain[number]] = number
    BY <1>1, <2>1, ElementOfSeq DEF Heights
  <2>3. PICK op : op = <<chain[number], number, parent[chain[number]]>>
    OBVIOUS
  <2>4. op[1] = chain[number] /\ op[2] = number /\ op[3] = parent[chain[number]]
    BY <2>3
  <2>5. Header(op, height)
    BY <2>1, <2>2, <2>4 DEF Header
  <2>6. relay' = [pc |-> "send", chainBlockNumber |-> relay.chainBlockNumber,
                  clientBlockNumber |-> relay.clientBlockNumber, web3Block |-> op]
    BY <1>1, <1>7, <2>3 DEF GetBlock, RelayInv
  <2>7. mempool' = mempool
    BY <1>7 DEF GetBlock
  <2>8. RelayInv(height)'
    BY <1>1, <1>2, <1>4, <2>5, <2>6, <2>7 DEF RelayInv, clientVars
  <2> QED BY <1>3, <2>8 DEF ChainInv
<1>8. CASE SendBlock
  <2>1. relay' = [pc |-> "chain", chainBlockNumber |-> relay.chainBlockNumber,
                  clientBlockNumber |-> relay.clientBlockNumber, web3Block |-> <<>>]
    BY <1>1, <1>8 DEF SendBlock, RelayInv
  <2>2. Header(relay.web3Block, height)
    BY <1>1, <1>8 DEF SendBlock, RelayInv
  <2>3. CASE mempool' = mempool
    <3>1. RelayInv(height)'
      BY <1>1, <1>2, <1>4, <2>1, <2>3 DEF RelayInv, clientVars
    <3> QED BY <1>3, <3>1 DEF ChainInv
  <2>4. CASE mempool' = Append(mempool, relay.web3Block)
    <3>1. /\ mempool' = [i \in 1 .. Len(mempool) + 1 |->
                           IF i = Len(mempool) + 1 THEN relay.web3Block ELSE mempool[i]]
          /\ Len(mempool) \in Nat
      BY <1>1, <2>4 DEF RelayInv
    <3>2. Len(mempool') = Len(mempool) + 1
      BY <3>1
    <3>3. RelayInv(height)'
      BY <1>1, <1>2, <1>4, <2>1, <2>2, <3>1, <3>2 DEF RelayInv, clientVars
    <3> QED BY <1>3, <3>3 DEF ChainInv
  <2> QED BY <1>8, <2>3, <2>4 DEF SendBlock
<1> QED BY <1>6, <1>7, <1>8 DEF RelayLoop

(* The contract takes only the header that follows its head.               *)
LEMMA TakenIsNext ==
  ASSUME NEW height, Heights(height), ClientInv(height), NEW op, Header(op, height),
         add_block_header(op[1], op[2], op[3])
  PROVE  op[2] = latest_block + 1
<1>1. PICK l \in Nat : l = latest_block
  BY DEF ClientInv
<1>2. op[1] \in Blocks /\ op[2] = height[op[1]] /\ op[2] \in Nat \ {0} /\ op[2] <= l + 1
  BY <1>1 DEF Header, Heights
<1>3. l > 0 => /\ op[3] = canonical_header_hashes[l] /\ op[3] \in Blocks
               /\ height[op[3]] = l
  BY <1>1 DEF add_block_header, Accepts, ClientInv
<1>4. Blocks \subseteq Nat \ {0}
  BY LenProperties DEF Heights, Blocks
<1>5. CASE l = 0
  BY <1>1, <1>2, <1>5
<1>6. CASE l > 0
  <2>1. op[3] = parent[op[1]] /\ op[3] # 0
    BY <1>3, <1>4, <1>6 DEF Header
  <2>2. height[op[1]] = height[op[3]] + 1
    BY <1>2, <2>1 DEF Heights
  <2> QED BY <1>1, <1>2, <1>3, <1>6, <2>2
<1> QED BY <1>1, <1>5, <1>6

(* The contract takes a header only if it is the child of its head; and no *)
(* operation is further than one block ahead of it.                        *)
LEMMA IncludeKeepsChainInv ==
  ASSUME ChainInv, IncludeOperation
  PROVE  ChainInv'
<1>1. PICK height : Heights(height) /\ RelayInv(height) /\ ClientInv(height)
  BY DEF ChainInv
<1>2. PICK op : op = mempool[1]
  OBVIOUS
<1>3. /\ mempool # <<>> /\ mempool' = Tail(mempool) /\ UNCHANGED <<chainVars, relay>>
      /\ \/ add_block_header(op[1], op[2], op[3])
         \/ UNCHANGED clientVars
  BY <1>2 DEF IncludeOperation
<1>4. PICK n \in Nat : /\ n = Len(mempool) /\ n > 0
                       /\ mempool' = [i \in 1 .. n - 1 |-> mempool[i + 1]]
                       /\ Len(mempool') = n - 1
  <2>1. PICK q, n : n \in Nat /\ q = mempool /\ n = Len(q) /\ q = [i \in 1 .. n |-> q[i]]
    BY <1>1 DEF RelayInv
  <2>2. DOMAIN q = 1 .. n
    BY <2>1
  <2>3. q \in Seq({q[i] : i \in 1 .. n})
    <3>1. q \in [1 .. n -> {q[i] : i \in 1 .. n}]
      BY <2>1, <2>2
    <3> QED BY <2>1, <3>1, SeqDef
  <2>4. n # 0
    BY <1>3, <2>1, <2>3, EmptySeq
  <2>5. /\ Tail(q) \in Seq({q[i] : i \in 1 .. n}) /\ Len(Tail(q)) = n - 1
        /\ \A i \in 1 .. n - 1 : Tail(q)[i] = q[i + 1]
    BY <1>3, <2>1, <2>3, HeadTailProperties
  <2>6. PICK t : t = Tail(q)
    OBVIOUS
  <2>7. DOMAIN t = 1 .. n - 1 /\ t = [i \in 1 .. n - 1 |-> q[i + 1]]
    BY <2>5, <2>6, LenProperties
  <2> QED BY <1>3, <2>1, <2>4, <2>5, <2>6, <2>7
<1>9. mempool' = [i \in 1 .. Len(mempool') |-> mempool'[i]] /\ Len(mempool') \in Nat
  <2>1. PICK q : q = mempool' /\ q = [i \in 1 .. n - 1 |-> q[i]]
    BY <1>4
  <2> QED BY <1>4, <2>1
<1>5. Header(op, height) /\ \A i \in 1 .. n - 1 : Header(mempool[i + 1], height)
  BY <1>1, <1>2, <1>4 DEF RelayInv
<1>6. Heights(height)'
  BY <1>1, <1>3 DEF Heights, Blocks, chainVars
<1>7. CASE UNCHANGED clientVars
  <2>1. \A o : Header(o, height) => Header(o, height)'
    BY <1>3, <1>7 DEF Header, Blocks, chainVars, clientVars
  <2>2. ClientInv(height)'
    BY <1>1, <1>3, <1>7 DEF ClientInv, Blocks, chainVars, clientVars
  <2>3. \A i \in 1 .. n - 1 : Header(mempool[i], height)'
    BY <1>4, <1>5, <2>1
  <2>4. RelayInv(height)'
    BY <1>1, <1>3, <1>4, <1>7, <1>9, <2>1, <2>3 DEF RelayInv, chainVars, clientVars
  <2> QED BY <1>6, <2>2, <2>4 DEF ChainInv
<1>8. CASE add_block_header(op[1], op[2], op[3])
  <2>1. PICK l \in Nat : l = latest_block
    BY <1>1 DEF ClientInv
  <2>2. op[1] \in Blocks /\ op[2] = height[op[1]] /\ op[2] \in Nat \ {0} /\ op[2] <= l + 1
    BY <1>1, <1>5, <2>1 DEF Header, Heights
  <2>3. l > 0 => op[3] = canonical_header_hashes[l]
    BY <1>1, <1>8, <2>1 DEF add_block_header, Accepts, ClientInv
  <2>5. op[2] = l + 1
    BY <1>1, <1>5, <1>8, <2>1, TakenIsNext
  <2>6. PICK known : known = canonical_header_hashes
    OBVIOUS
  <2>7. /\ latest_block' = l + 1 /\ header_hash' = op[1]
        /\ canonical_header_hashes' = [k \in 1 .. l \cup {l + 1} |-> IF k = l + 1 THEN op[1] ELSE known[k]]
    BY <1>1, <1>8, <2>1, <2>5, <2>6 DEF add_block_header, With, ClientInv
  <2>8. 1 .. l \cup {l + 1} = 1 .. l + 1
    OBVIOUS
  <2>9. PICK next : next = canonical_header_hashes'
    OBVIOUS
  <2>10. DOMAIN next = 1 .. l + 1 /\ next[l + 1] = op[1] /\ \A k \in 1 .. l : next[k] = known[k]
    BY <2>7, <2>8, <2>9
  <2>11. ASSUME NEW k \in 1 .. l + 1
         PROVE  next[k] \in Blocks /\ height[next[k]] = k /\ (k > 1 => parent[next[k]] = next[k - 1])
    <3>1. CASE k = l + 1
      <4>1. k > 1 => /\ l > 0 /\ k - 1 \in 1 .. l /\ k - 1 = l
        BY <3>1
      <4>2. op[3] = parent[op[1]]
        BY <1>5 DEF Header
      <4> QED BY <2>2, <2>3, <2>5, <2>6, <2>10, <3>1, <4>1, <4>2
    <3>2. CASE k \in 1 .. l
      <4>1. /\ known[k] \in Blocks /\ height[known[k]] = k
            /\ k > 1 => parent[known[k]] = known[k - 1]
        BY <1>1, <2>1, <2>6, <3>2 DEF ClientInv
      <4>2. k > 1 => k - 1 \in 1 .. l
        BY <3>2
      <4> QED BY <2>10, <3>2, <4>1, <4>2
    <3> QED BY <3>1, <3>2
  <2>12. ClientInv(height)'
    <3>1. parent' = parent /\ Blocks' = Blocks
      BY <1>3 DEF chainVars, Blocks
    <3>2. latest_block' = l + 1 /\ l + 1 \in Nat /\ l + 1 # 0 /\ header_hash' = next[l + 1]
      BY <2>7, <2>10
    <3> QED BY <2>9, <2>10, <2>11, <3>1, <3>2 DEF ClientInv
  <2>13. ASSUME NEW o, Header(o, height) PROVE Header(o, height)'
    <3>1. o[1] \in Blocks /\ o[2] = height[o[1]] /\ o[3] = parent[o[1]] /\ o[2] <= l + 1
      BY <2>1, <2>13 DEF Header
    <3>2. o[2] \in Nat
      BY <1>1, <3>1 DEF Heights
    <3>3. o[2] <= (l + 1) + 1
      BY <3>1, <3>2
    <3> QED BY <1>3, <2>7, <3>1, <3>3 DEF Header, Blocks, chainVars
  <2>14. \A i \in 1 .. n - 1 : Header(mempool[i], height)'
    BY <1>4, <1>5, <2>13
  <2>15. RelayInv(height)'
    <3>1. relay.clientBlockNumber \in 0 .. l + 1
      BY <1>1, <2>1 DEF RelayInv
    <3>2. relay.pc = "send" => Header(relay.web3Block, height)'
      BY <1>1, <1>3, <2>13 DEF RelayInv
    <3> QED BY <1>1, <1>3, <1>4, <1>9, <2>7, <2>14, <3>1, <3>2 DEF RelayInv, chainVars
  <2> QED BY <1>6, <2>12, <2>15 DEF ChainInv
<1> QED BY <1>3, <1>7, <1>8

LEMMA InitChainInv == Init => ChainInv
<1> SUFFICES ASSUME Init PROVE ChainInv
  OBVIOUS
<1> DEFINE height == [b \in {1} |-> 1]
<1>1. PICK one, zero : one = <<1>> /\ zero = <<0>>
  OBVIOUS
<1>2. chain = one /\ parent = zero
  BY <1>1 DEF Init, ChainInit
<1>3. /\ Len(one) = 1 /\ one[1] = 1 /\ one \in Seq({1})
      /\ Len(zero) = 1 /\ zero[1] = 0 /\ zero \in Seq(Nat) /\ DOMAIN zero = {1}
      /\ one # <<>>
  BY <1>1
<1>4. Blocks = {1}
  BY <1>2, <1>3 DEF Blocks
<1>5. Heights(height)
  <2>1. 1 .. 1 = {1}
    OBVIOUS
  <2> QED BY <1>2, <1>3, <1>4, <2>1 DEF Heights
<1>6. ClientInv(height)
  BY DEF Init, ClientInit, NoHash, ClientInv
<1>7. RelayInv(height)
  <2>1. mempool = <<>> /\ Len(<<>>) = 0 /\ <<>> = [i \in 1 .. 0 |-> <<>>[i]]
    BY DEF Init, RelayInit
  <2>2. relay = [pc |-> "chain", chainBlockNumber |-> 0, clientBlockNumber |-> 0, web3Block |-> <<>>]
        /\ latest_block = 0
    BY DEF Init, RelayInit, ClientInit
  <2> QED BY <2>1, <2>2 DEF RelayInv
<1> QED BY <1>5, <1>6, <1>7 DEF ChainInv

LEMMA StutterKeepsChainInv ==
  ASSUME ChainInv, UNCHANGED <<chainVars, clientVars, relayVars>>
  PROVE  ChainInv'
<1>1. PICK height : Heights(height) /\ RelayInv(height) /\ ClientInv(height)
  BY DEF ChainInv
<1>2. Heights(height)' /\ ClientInv(height)'
  BY <1>1 DEF Heights, ClientInv, Blocks, chainVars, clientVars
<1>3. \A op : Header(op, height) => Header(op, height)'
  BY DEF Header, Blocks, chainVars, clientVars
<1>4. RelayInv(height)'
  BY <1>1, <1>3 DEF RelayInv, chainVars, clientVars, relayVars
<1> QED BY <1>2, <1>4 DEF ChainInv

(* Blocks are numbered from 1, and the chain is a list of them.            *)
LEMMA ChainTypes ==
  ASSUME ChainInv
  PROVE  /\ chain \in Seq(Blocks) /\ parent \in Seq(Nat) /\ chain # <<>>
         /\ Len(chain) \in Nat /\ Len(parent) \in Nat /\ Blocks = 1 .. Len(parent)
         /\ DOMAIN chain = 1 .. Len(chain)
         /\ \A h \in 1 .. Len(chain) : chain[h] \in 1 .. Len(parent)
<1>1. chain \in Seq(Blocks) /\ parent \in Seq(Nat) /\ chain # <<>>
  BY DEF ChainInv, Heights
<1>2. Len(chain) \in Nat /\ Len(parent) \in Nat /\ Blocks = 1 .. Len(parent) /\ DOMAIN chain = 1 .. Len(chain)
  BY <1>1, LenProperties DEF Blocks
<1> QED BY <1>1, <1>2, ElementOfSeq

LEMMA NextChainInv == ChainInv /\ [Next]_vars => ChainInv'
<1> SUFFICES ASSUME ChainInv, [Next]_vars PROVE ChainInv'
  OBVIOUS
<1>1. CASE UNCHANGED <<chainVars, clientVars, relayVars>>
  BY <1>1, StutterKeepsChainInv
<1>2. CASE Mine
  <2>1. MineBlock /\ UNCHANGED <<clientVars, relayVars>>
    BY <1>2 DEF Mine
  <2> QED BY <2>1, ChainTypes, MineGrows, GrowKeepsChainInv
<1>3. CASE Fork
  <2>1. PICK d \in 1 .. MaxReorgDepth : Reorg(d) /\ UNCHANGED <<clientVars, relayVars>>
    BY <1>3 DEF Fork
  <2>2. d \in Nat \ {0}
    OBVIOUS
  <2> QED BY <2>1, <2>2, ChainTypes, ReorgGrows, GrowKeepsChainInv
<1>4. CASE Relay \/ RpcError
  BY <1>4, RelayKeepsChainInv DEF Relay, RpcError
<1>5. CASE Include
  BY <1>5, IncludeKeepsChainInv DEF Include
<1>6. CASE Transfer
  <2>1. CASE UNCHANGED <<chainVars, clientVars>>
    BY <1>1, <1>6, <2>1 DEF Transfer
  <2>2. CASE MineBlock /\ UNCHANGED clientVars
    <3>1. UNCHANGED relayVars
      BY <1>6 DEF Transfer
    <3> QED BY <2>2, <3>1, ChainTypes, MineGrows, GrowKeepsChainInv
  <2>3. UNCHANGED clientVars /\ (MineBlock \/ UNCHANGED chainVars)
    BY <1>6 DEF Transfer, TransferStep, Execute, MintErc20, Approve, RecordApprove, Lock,
                RecordLock, FindProof, WaitBlockSafe, Deposit, DeleteTransferLog
  <2> QED BY <2>1, <2>2, <2>3
<1>7. CASE Interrupted
  BY <1>1, <1>7 DEF Interrupted, Interrupt, TornRecord
<1>8. CASE UNCHANGED vars
  BY <1>1, <1>8 DEF vars
<1> QED BY <1>2, <1>3, <1>4, <1>5, <1>6, <1>7, <1>8 DEF Next

LEMMA ChainInvMakesAChain == ChainInv => ClientIsAChain
<1> SUFFICES ASSUME ChainInv PROVE ClientIsAChain
  OBVIOUS
<1>1. PICK height : ClientInv(height)
  BY DEF ChainInv
<1> QED BY <1>1 DEF ClientInv, ClientIsAChain

(* The light client contract on Tezos holds an unbroken chain of headers,  *)
(* whatever the relay reads while Ethereum grows and reorganises.          *)
THEOREM ClientHoldsAChain == Spec => []ClientIsAChain
BY InitChainInv, NextChainInv, ChainInvMakesAChain, PTL DEF Spec

-----------------------------------------------------------------------------
(* A lock that is on the chain, or in the pool to be mined again, has used *)
(* up the allowance of one approval; a run approves a second time only if  *)
(* the record of an earlier lock was torn.                                 *)
MinedIn(s) == {i \in 1 .. Len(s) : s[i] # NoBlock}

NotYetLocked ==
  \/ transfer.pc \in {"mint_erc20", "approve", "approved"}
  \/ transfer.pc = "idle" /\ log.finished = "none"

LockInv ==
  /\ transfer = [pc |-> transfer.pc, block |-> transfer.block, height |-> transfer.height]
  /\ log.finished \in Stages
  /\ log.finished = "none" => NotYetLocked \/ transfer.pc = "done"
  /\ locks \in Seq(Nat) /\ allowance \in {0, 1} /\ torn \in Nat
  /\ Cardinality(MinedIn(locks)) + allowance <= 1 + torn
  /\ NotYetLocked => Cardinality(MinedIn(locks)) <= torn

LEMMA MinedInIsFinite ==
  ASSUME NEW s \in Seq(Nat)
  PROVE  IsFiniteSet(MinedIn(s)) /\ Cardinality(MinedIn(s)) \in Nat
<1>1. PICK n \in Nat : n = Len(s)
  BY LenProperties
<1>2. IsFiniteSet(1 .. n)
  BY FS_Interval
<1>3. MinedIn(s) \subseteq 1 .. n
  BY <1>1 DEF MinedIn
<1> QED BY <1>2, <1>3, FS_Subset, FS_CardinalityType

LEMMA InitLockInv == Init => LockInv
<1> SUFFICES ASSUME Init PROVE LockInv
  OBVIOUS
<1>1. /\ transfer = [pc |-> "idle", block |-> NoBlock, height |-> 0]
      /\ log.finished = "none" /\ locks = <<>> /\ allowance = 0 /\ torn = 0
  BY DEF Init, TransferInit, NoLog
<1>2. Len(<<>>) = 0 /\ <<>> \in Seq(Nat)
  OBVIOUS
<1>3. MinedIn(<<>>) = {}
  BY <1>2 DEF MinedIn
<1>4. Cardinality(MinedIn(locks)) = 0
  BY <1>1, <1>3, FS_EmptySet
<1> QED BY <1>1, <1>2, <1>4 DEF LockInv, NotYetLocked, Stages

LEMMA FreshIsABlock == ChainInv => Fresh \in Nat /\ Fresh # NoBlock
BY ChainTypes DEF Fresh, NoBlock

(* A lock that a reorganisation drops is mined again in the new branch, or *)
(* gives back what it took.                                                *)
LEMMA ForkKeepsLockInv ==
  ASSUME ChainInv, LockInv, Fork
  PROVE  LockInv'
<1>1. PICK d \in 1 .. MaxReorgDepth, dropped \in SUBSET DOMAIN locks :
        /\ Reorg(d)
        /\ dropped = {i \in DOMAIN locks : \E h \in Len(chain) - d + 1 .. Len(chain) : chain[h] = locks[i]}
        /\ \/ /\ locks' = [i \in DOMAIN locks |-> IF i \in dropped THEN Fresh ELSE locks[i]]
              /\ UNCHANGED <<balance, allowance>>
           \/ /\ dropped # {}
              /\ locks' = [i \in DOMAIN locks |-> IF i \in dropped THEN NoBlock ELSE locks[i]]
              /\ balance' = balance + Cardinality(dropped) /\ allowance' = 1
  BY DEF Fork
<1>2. transfer' = transfer /\ log' = log /\ torn' = torn
  BY DEF Fork
<1>3. PICK c \in Nat, n \in Nat : c = Len(chain) /\ n = Len(locks)
  BY ChainTypes, LenProperties DEF LockInv
<1>4. DOMAIN locks = 1 .. n /\ \A i \in 1 .. n : locks[i] \in Nat
  BY <1>3, LenProperties, ElementOfSeq DEF LockInv
<1>5. c - d \in 1 .. c
  BY <1>1, <1>3 DEF Reorg
<1>6. ASSUME NEW i \in dropped PROVE i \in 1 .. n /\ locks[i] # NoBlock
  <2>1. PICK h \in c - d + 1 .. c : chain[h] = locks[i]
    BY <1>1, <1>3, <1>6
  <2>2. h \in 1 .. c
    BY <1>5
  <2> QED BY <1>1, <1>3, <1>4, <1>6, <2>1, <2>2, ChainTypes DEF NoBlock
<1>7. PICK to \in Nat, l \in {locks'}, a \in {allowance'} :
        /\ l = locks' /\ a = allowance'
        /\ l = [i \in 1 .. n |-> IF i \in dropped THEN to ELSE locks[i]]
        /\ \/ to # NoBlock /\ a = allowance
           \/ to = NoBlock /\ a = 1 /\ dropped # {}
  <2>1. CASE locks' = [i \in DOMAIN locks |-> IF i \in dropped THEN Fresh ELSE locks[i]] /\ UNCHANGED allowance
    BY <1>4, <2>1, FreshIsABlock
  <2>2. CASE /\ dropped # {} /\ allowance' = 1
             /\ locks' = [i \in DOMAIN locks |-> IF i \in dropped THEN NoBlock ELSE locks[i]]
    BY <1>4, <2>2 DEF NoBlock
  <2> QED BY <1>1, <2>1, <2>2
<1>8. /\ l \in Seq(Nat) /\ Len(l) = n
      /\ \A i \in 1 .. n : l[i] = IF i \in dropped THEN to ELSE locks[i]
  <2>1. l \in [1 .. n -> Nat]
    BY <1>4, <1>7
  <2>2. l \in Seq(Nat)
    BY <2>1, IsSeq
  <2> QED BY <1>7, <2>1, <2>2
<1>9. PICK k \in Nat, t \in Nat : k = Cardinality(MinedIn(locks)) /\ t = torn
  BY MinedInIsFinite DEF LockInv
<1>10. IsFiniteSet(MinedIn(locks))
  BY MinedInIsFinite DEF LockInv
<1>11. PICK m \in Nat : m = Cardinality(MinedIn(l))
  BY <1>8, MinedInIsFinite
<1>12. CASE to # NoBlock /\ a = allowance
  <2>1. MinedIn(l) = MinedIn(locks)
    BY <1>3, <1>6, <1>8, <1>12 DEF MinedIn
  <2>2. m = k
    BY <1>9, <1>11, <2>1
  <2> QED BY <1>2, <1>7, <1>8, <1>9, <1>11, <1>12, <2>2 DEF LockInv, NotYetLocked
<1>13. CASE to = NoBlock /\ a = 1 /\ dropped # {}
  <2>1. PICK j \in dropped : TRUE
    BY <1>13
  <2>2. j \in MinedIn(locks) /\ MinedIn(l) \subseteq MinedIn(locks) \ {j}
    BY <1>3, <1>6, <1>8, <1>13, <2>1 DEF MinedIn
  <2>3. /\ IsFiniteSet(MinedIn(locks) \ {j})
        /\ Cardinality(MinedIn(locks) \ {j}) = k - 1
    BY <1>9, <1>10, <2>2, FS_RemoveElement
  <2>4. m <= k - 1
    BY <1>11, <2>2, <2>3, FS_Subset
  <2>5. k + allowance <= 1 + t /\ allowance \in {0, 1} /\ (NotYetLocked => k <= t)
    BY <1>9 DEF LockInv
  <2>6. m + 1 <= 1 + t /\ (NotYetLocked => m <= t)
    BY <2>4, <2>5
  <2> QED BY <1>2, <1>7, <1>8, <1>9, <1>11, <1>13, <2>6 DEF LockInv, NotYetLocked
<1> QED BY <1>7, <1>12, <1>13

LEMMA TransferKeepsLockInv ==
  ASSUME ChainInv, LockInv, TransferStep
  PROVE  LockInv'
<1>1. CASE UNCHANGED <<locks, allowance, torn>>
  <2>1. ASSUME /\ transfer' = [pc |-> transfer'.pc, block |-> transfer'.block, height |-> transfer'.height]
               /\ log'.finished \in Stages
               /\ log'.finished = "none" => NotYetLocked' \/ transfer'.pc = "done"
               /\ NotYetLocked' => NotYetLocked
        PROVE  LockInv'
    BY <1>1, <2>1 DEF LockInv
  <2>3. CASE Execute
    BY <2>1, <2>3 DEF Execute, Resume, LockInv, NotYetLocked, Stages
  <2>4. CASE MintErc20 \/ Deposit
    BY <2>1, <2>4 DEF MintErc20, Deposit, Goto, LockInv, NotYetLocked, Stages
  <2>5. CASE RecordApprove \/ RecordLock \/ WaitBlockSafe
    BY <2>1, <2>5 DEF RecordApprove, RecordLock, WaitBlockSafe, Record, Resume, LockInv,
                      NotYetLocked, Stages
  <2>6. CASE FindProof
    BY <2>1, <2>6 DEF FindProof, Record, Goto, Resume, LockInv, NotYetLocked, Stages
  <2>7. CASE DeleteTransferLog
    BY <2>1, <2>7 DEF DeleteTransferLog, Goto, NoLog, LockInv, NotYetLocked, Stages
  <2>8. CASE Lock
    BY <2>1, <2>8 DEF Lock, Goto, LockInv, NotYetLocked, Stages
  <2>9. CASE Approve
    BY <2>1, <2>9 DEF Approve, Goto, LockInv, NotYetLocked, Stages
  <2> QED BY <2>3, <2>4, <2>5, <2>6, <2>7, <2>8, <2>9 DEF TransferStep
<1>2. CASE Approve
  <2>1. PICK k \in Nat, t \in Nat : k = Cardinality(MinedIn(locks)) /\ t = torn
    BY MinedInIsFinite DEF LockInv
  <2>2. /\ transfer' = [pc |-> "approved", block |-> transfer.block, height |-> transfer.height]
        /\ log' = log /\ allowance' = 1 /\ locks' = locks /\ torn' = torn
    BY <1>2 DEF Approve, Goto, Allowance, LockInv
  <2>3. k <= t
    BY <1>2, <2>1 DEF Approve, LockInv, NotYetLocked
  <2>4. k + 1 <= 1 + t
    BY <2>3
  <2> QED BY <2>1, <2>2, <2>3, <2>4 DEF LockInv, NotYetLocked
<1>3. CASE Lock /\ MayLock
  <2>1. /\ transfer.pc = "lock" /\ balance >= 1 /\ allowance >= 1
        /\ allowance' = allowance - 1 /\ locks' = Append(locks, Fresh)
        /\ transfer' = [pc |-> "locked", block |-> Fresh, height |-> Len(chain) + 1]
        /\ log' = log /\ torn' = torn
    BY <1>3 DEF Lock, MayLock
  <2>2. allowance = 1 /\ allowance' = 0
    BY <2>1 DEF LockInv
  <2>3. PICK n \in Nat, l \in {locks'} : n = Len(locks) /\ l = locks' /\ locks \in Seq(Nat)
    BY LenProperties DEF LockInv
  <2>4. PICK b \in Nat : b = Fresh /\ b # NoBlock
    BY FreshIsABlock
  <2>5. l \in Seq(Nat) /\ Len(l) = n + 1 /\ l[n + 1] = b /\ \A i \in 1 .. n : l[i] = locks[i]
    BY <2>1, <2>3, <2>4, AppendProperties
  <2>6. MinedIn(l) = MinedIn(locks) \cup {n + 1} /\ n + 1 \notin MinedIn(locks)
    <3>1. 1 .. n + 1 = (1 .. n) \cup {n + 1} /\ n + 1 \notin 1 .. n
      OBVIOUS
    <3> QED BY <2>3, <2>4, <2>5, <3>1 DEF MinedIn
  <2>7. PICK k \in Nat, t \in Nat : k = Cardinality(MinedIn(locks)) /\ t = torn
    BY MinedInIsFinite DEF LockInv
  <2>8. Cardinality(MinedIn(l)) = k + 1
    BY <2>3, <2>6, <2>7, MinedInIsFinite, FS_AddElement
  <2>9. k + 1 <= 1 + t
    BY <2>2, <2>7 DEF LockInv
  <2>10. log.finished # "none" /\ log.finished \in Stages
    BY <2>1 DEF LockInv, NotYetLocked
  <2>11. ~NotYetLocked'
    BY <2>1 DEF NotYetLocked
  <2>12. transfer' = [pc |-> transfer'.pc, block |-> transfer'.block, height |-> transfer'.height]
    BY <2>1
  <2> QED BY <2>1, <2>2, <2>3, <2>5, <2>7, <2>8, <2>9, <2>10, <2>11, <2>12 DEF LockInv
<1> QED BY <1>1, <1>2, <1>3 DEF TransferStep, Execute, MintErc20, RecordApprove, Lock, RecordLock,
                              FindProof, WaitBlockSafe, Deposit, DeleteTransferLog

LEMMA TornRecordKeepsLockInv ==
  ASSUME LockInv, TornRecord
  PROVE  LockInv'
<1>1. /\ UNCHANGED <<allowance, locks>> /\ torn' = torn + 1 /\ log'.finished = "none"
      /\ transfer' = [pc |-> "idle", block |-> transfer.block, height |-> transfer.height]
  BY DEF TornRecord, Goto, NoLog, LockInv
<1>2. PICK k \in Nat, t \in Nat : k = Cardinality(MinedIn(locks)) /\ t = torn
  BY MinedInIsFinite DEF LockInv
<1>3. k + allowance <= 1 + t /\ allowance \in {0, 1}
  BY <1>2 DEF LockInv
<1>4. k <= t + 1 /\ k + allowance <= 1 + (t + 1)
  BY <1>3
<1> QED BY <1>1, <1>2, <1>3, <1>4 DEF LockInv, NotYetLocked, Stages

LEMMA NextLockInv == ChainInv /\ LockInv /\ [Next]_vars => LockInv'
<1> SUFFICES ASSUME ChainInv, LockInv, [Next]_vars PROVE LockInv'
  OBVIOUS
<1>1. CASE UNCHANGED transferVars
  BY <1>1 DEF LockInv, NotYetLocked, transferVars
<1>2. CASE Mine \/ Relay \/ RpcError \/ Include
  BY <1>1, <1>2 DEF Mine, Relay, RpcError, Include
<1>3. CASE Fork
  BY <1>3, ForkKeepsLockInv
<1>4. CASE Transfer
  BY <1>4, TransferKeepsLockInv DEF Transfer
<1>5. CASE Interrupted /\ Interrupt
  <2>1. /\ transfer.pc \notin {"idle", "done"} /\ UNCHANGED <<log, allowance, locks, torn>>
        /\ transfer' = [pc |-> "idle", block |-> transfer.block, height |-> transfer.height]
    BY <1>5 DEF Interrupt, Goto, LockInv
  <2> QED BY <2>1 DEF LockInv, NotYetLocked
<1>6. CASE Interrupted /\ TornRecord
  BY <1>6, TornRecordKeepsLockInv
<1>7. CASE UNCHANGED vars
  BY <1>1, <1>7 DEF vars
<1> QED BY <1>2, <1>3, <1>4, <1>5, <1>6, <1>7 DEF Next, Interrupted

LEMMA LockInvLocksOnce == ChainInv /\ LockInv => LocksOnce
<1> SUFFICES ASSUME ChainInv, LockInv PROVE LocksOnce
  OBVIOUS
<1> DEFINE Locked == {i \in DOMAIN locks : OnChain(locks[i])}
<1>1. Locked \subseteq MinedIn(locks)
  <2>1. ASSUME NEW i \in Locked PROVE i \in 1 .. Len(locks) /\ locks[i] # NoBlock
    BY <2>1, LenProperties, ChainTypes DEF LockInv, OnChain, NoBlock
  <2> QED BY <2>1 DEF MinedIn
<1>2. IsFiniteSet(MinedIn(locks)) /\ Cardinality(MinedIn(locks)) \in Nat
  BY MinedInIsFinite DEF LockInv
<1>3. Cardinality(Locked) \in Nat /\ Cardinality(Locked) <= Cardinality(MinedIn(locks))
  BY <1>1, <1>2, FS_Subset, FS_CardinalityType
<1>4. PICK k \in Nat, m \in Nat, t \in Nat :
        k = Cardinality(MinedIn(locks)) /\ m = Cardinality(Locked) /\ t = torn
  BY <1>2, <1>3 DEF LockInv
<1>5. k + allowance <= 1 + t /\ allowance \in {0, 1} /\ m <= k
  BY <1>3, <1>4 DEF LockInv
<1>6. m <= 1 + t
  BY <1>5
<1> QED BY <1>4, <1>6 DEF LocksOnce

(* One transfer command never has two locks on the chain at once, however  *)
(* often it is killed and run again and the lock is mined again, unless a  *)
(* kill tore the record of a lock: each one that did allows one more.      *)
THEOREM TransferLocksOnce == Spec => []LocksOnce
BY InitChainInv, NextChainInv, InitLockInv, NextLockInv, LockInvLocksOnce, PTL DEF Spec

-----------------------------------------------------------------------------
(* As long as nothing was reorganised every block is on the chain, at the  *)
(* height that is its number, so that comparing numbers is enough.         *)
Straight == Len(chain) = Len(parent) /\ \A h \in 1 .. Len(chain) : chain[h] = h

(* Then what the transfer has learned of its lock stays right, and once it *)
(* has waited the contract is past the lock's block.                       *)
TransferKnows ==
  /\ log.finished \in {"find-proof", "block-safe"} =>
       log.block = log.height /\ log.height \in Nat \ {0}
  /\ log.finished = "block-safe" => latest_block > log.height
  /\ transfer.pc = "wait" =>
       transfer.block = transfer.height /\ transfer.height \in Nat \ {0}
  /\ transfer.pc = "deposit" => log.finished = "block-safe"

MintInv == reorgs \in Nat /\ minted \in Nat /\ (reorgs = 0 => Straight /\ TransferKnows)

LEMMA MineKeepsStraight ==
  ASSUME ChainInv, Straight, MineBlock
  PROVE  Straight'
<1>1. Grown(Len(chain), 1)
  BY ChainTypes, MineGrows
<1>2. PICK c \in Nat : c = Len(chain) /\ c = Len(parent)
  BY ChainTypes DEF Straight
<1>3. PICK new : new = chain'
  OBVIOUS
<1>4. /\ Len(new) = c + 1 /\ Len(parent') = c + 1
      /\ \A h \in 1 .. c : new[h] = chain[h]
      /\ \A h \in c + 1 .. c + 1 : new[h] = c + (h - c)
  BY <1>1, <1>2, <1>3 DEF Grown
<1>5. ASSUME NEW h \in 1 .. c + 1 PROVE new[h] = h
  <2>1. h \in 1 .. c \/ h \in c + 1 .. c + 1
    OBVIOUS
  <2>2. ASSUME h \in 1 .. c PROVE new[h] = h
    BY <1>2, <1>4, <2>2 DEF Straight
  <2>3. ASSUME h \in c + 1 .. c + 1 PROVE new[h] = h
    BY <1>4, <2>3
  <2> QED BY <2>1, <2>2, <2>3
<1> QED BY <1>3, <1>4, <1>5 DEF Straight

(* On a straight chain the contract's hash for a height is that height.    *)
LEMMA StraightIsKnown ==
  ASSUME ChainInv, Straight, NEW n \in DOMAIN canonical_header_hashes
  PROVE  canonical_header_hashes[n] = n
<1>1. PICK height : Heights(height) /\ ClientInv(height)
  BY DEF ChainInv
<1>2. canonical_header_hashes[n] \in Blocks /\ height[canonical_header_hashes[n]] = n
  BY <1>1 DEF ClientInv
<1>3. PICK b \in 1 .. Len(chain) : b = canonical_header_hashes[n]
  BY <1>2, ChainTypes DEF Straight
<1>4. chain[b] = b /\ height[chain[b]] = b
  BY <1>1 DEF Straight, Heights
<1> QED BY <1>2, <1>3, <1>4

LEMMA ClientAdvances ==
  ASSUME ChainInv, IncludeOperation
  PROVE  latest_block \in Nat /\ latest_block' \in Nat /\ latest_block' >= latest_block
<1>1. PICK height : Heights(height) /\ RelayInv(height) /\ ClientInv(height)
  BY DEF ChainInv
<1>2. PICK op : op = mempool[1]
  OBVIOUS
<1>3. /\ mempool # <<>>
      /\ add_block_header(op[1], op[2], op[3]) \/ UNCHANGED clientVars
  BY <1>2 DEF IncludeOperation
<1>4. Header(op, height)
  <2>1. PICK q, n : n \in Nat /\ q = mempool /\ n = Len(q) /\ q = [i \in 1 .. n |-> q[i]]
    BY <1>1 DEF RelayInv
  <2>2. q \in Seq({q[i] : i \in 1 .. n})
    <3>1. q \in [1 .. n -> {q[i] : i \in 1 .. n}]
      BY <2>1
    <3> QED BY <2>1, <3>1, SeqDef
  <2>3. n # 0
    BY <1>3, <2>1, <2>2, EmptySeq
  <2>4. 1 \in 1 .. Len(mempool)
    BY <2>1, <2>3
  <2> QED BY <1>1, <1>2, <2>4 DEF RelayInv
<1>5. latest_block \in Nat
  BY <1>1 DEF ClientInv
<1>6. CASE add_block_header(op[1], op[2], op[3])
  <2>1. latest_block' = op[2] /\ op[2] = latest_block + 1
    BY <1>1, <1>4, <1>6, TakenIsNext DEF add_block_header
  <2> QED BY <1>5, <2>1
<1>7. CASE UNCHANGED clientVars
  BY <1>5, <1>7 DEF clientVars
<1> QED BY <1>3, <1>6, <1>7

LEMMA TransferKeepsMintInv ==
  ASSUME ChainInv, LockInv, Straight, TransferKnows, TransferStep
  PROVE  Straight' /\ TransferKnows'
<1>1. /\ transfer = [pc |-> transfer.pc, block |-> transfer.block, height |-> transfer.height]
      /\ log.finished \in Stages /\ latest_block' = latest_block
  BY DEF LockInv, TransferStep, Execute, MintErc20, Approve, RecordApprove, Lock, RecordLock,
         FindProof, WaitBlockSafe, Deposit, DeleteTransferLog, clientVars
<1>2. Straight'
  <2>1. CASE UNCHANGED chainVars
    BY <2>1 DEF chainVars, Straight
  <2>2. MineBlock \/ UNCHANGED chainVars
    BY DEF TransferStep, Execute, MintErc20, Approve, RecordApprove, Lock, RecordLock,
           FindProof, WaitBlockSafe, Deposit, DeleteTransferLog
  <2> QED BY <2>1, <2>2, MineKeepsStraight
<1> SUFFICES TransferKnows'
  BY <1>2
<1>3. CASE Execute
  BY <1>1, <1>3 DEF Execute, Resume, Stages, TransferKnows
<1>4. CASE MintErc20 \/ Approve \/ Deposit
  BY <1>1, <1>4 DEF MintErc20, Approve, Deposit, Goto, TransferKnows
<1>5. CASE RecordApprove \/ RecordLock
  BY <1>5 DEF RecordApprove, RecordLock, Record, Resume, Stages, TransferKnows
<1>6. CASE Lock
  BY <1>1, <1>6 DEF Lock, Goto, TransferKnows
<1>7. CASE FindProof
  <2>1. CASE Goto("idle") /\ UNCHANGED log
    BY <1>1, <2>1 DEF Goto, TransferKnows
  <2>2. ASSUME NEW h \in DOMAIN chain, Record("find-proof", chain[h], h) PROVE TransferKnows'
    <3>1. h \in Nat \ {0} /\ chain[h] = h
      BY ChainTypes DEF Straight
    <3> QED BY <2>2, <3>1 DEF Record, Resume, Stages, TransferKnows
  <2> QED BY <1>7, <2>1, <2>2 DEF FindProof
<1>8. CASE WaitBlockSafe
  BY <1>1, <1>8 DEF WaitBlockSafe, IsSafe, Record, Resume, Stages, TransferKnows
<1>9. CASE DeleteTransferLog
  BY <1>1, <1>9 DEF DeleteTransferLog, Goto, NoLog, TransferKnows
<1> QED BY <1>3, <1>4, <1>5, <1>6, <1>7, <1>8, <1>9 DEF TransferStep

LEMMA MintedType ==
  ASSUME minted \in Nat, [Next]_vars
  PROVE  minted' \in Nat
BY DEF Next, vars, transferVars, Mine, Fork, Relay, Include, Transfer, Interrupted, RpcError,
       Interrupt, TornRecord, TransferStep, Execute, MintErc20, Approve, RecordApprove, Lock,
       RecordLock, FindProof, WaitBlockSafe, Deposit, DeleteTransferLog

LEMMA NextMintInv == ChainInv /\ LockInv /\ MintInv /\ [Next]_vars => MintInv'
<1> SUFFICES ASSUME ChainInv, LockInv, MintInv, [Next]_vars PROVE MintInv'
  OBVIOUS
<1>0. minted' \in Nat
  BY MintedType DEF MintInv
<1>1. CASE Fork
  <2>1. reorgs' = reorgs + 1
    BY <1>1 DEF Fork
  <2> QED BY <1>0, <2>1 DEF MintInv
<1>2. ASSUME UNCHANGED reorgs, Straight /\ TransferKnows => Straight' /\ TransferKnows'
      PROVE  MintInv'
  BY <1>0, <1>2 DEF MintInv
<1>3. CASE Mine
  BY <1>2, <1>3, MineKeepsStraight DEF Mine, counters, transferVars, clientVars, TransferKnows
<1>4. CASE Include
  <2>1. ASSUME Straight, TransferKnows PROVE Straight' /\ TransferKnows'
    <3>1. UNCHANGED <<chainVars, transferVars>> /\ latest_block' >= latest_block
          /\ latest_block \in Nat /\ latest_block' \in Nat
      BY <1>4, ClientAdvances DEF Include, IncludeOperation
    <3>2. log.finished = "block-safe" => latest_block > log.height /\ log.height \in Nat
      BY <2>1 DEF TransferKnows
    <3> QED BY <2>1, <3>1, <3>2 DEF chainVars, transferVars, Straight, TransferKnows
  <2> QED BY <1>2, <1>4, <2>1 DEF Include, counters
<1>5. CASE UNCHANGED <<chainVars, clientVars, transferVars, reorgs>>
  BY <1>2, <1>5 DEF chainVars, clientVars, transferVars, Straight, TransferKnows
<1>6. CASE Relay \/ RpcError
  BY <1>5, <1>6 DEF Relay, RpcError, RelayLoop, RelayError, ReadChain, ReadClient, WakeUp,
                    ParseBlocks, GetBlock, SendBlock, counters
<1>7. CASE Transfer
  BY <1>2, <1>7, TransferKeepsMintInv DEF Transfer, counters
<1>8. CASE Interrupted
  <2>1. /\ UNCHANGED <<chainVars, clientVars, reorgs>>
        /\ log' = log \/ log'.finished = "none"
        /\ transfer' = [pc |-> "idle", block |-> transfer.block, height |-> transfer.height]
    BY <1>8 DEF Interrupted, Interrupt, TornRecord, NoLog, Goto, LockInv
  <2> QED BY <1>2, <2>1 DEF chainVars, clientVars, Straight, TransferKnows
<1>9. CASE UNCHANGED vars
  BY <1>5, <1>9 DEF vars, counters
<1> QED BY <1>1, <1>3, <1>4, <1>6, <1>7, <1>8, <1>9 DEF Next

LEMMA InitMintInv == Init => MintInv
<1> SUFFICES ASSUME Init PROVE MintInv
  OBVIOUS
<1>1. PICK one, zero : one = <<1>> /\ zero = <<0>>
  OBVIOUS
<1>2. Len(one) = 1 /\ one[1] = 1 /\ Len(zero) = 1
  BY <1>1
<1>3. Straight
  BY <1>1, <1>2 DEF Init, ChainInit, Straight
<1>4. TransferKnows
  BY DEF Init, TransferInit, NoLog, TransferKnows
<1> QED BY <1>3, <1>4 DEF Init, TransferInit, MintInv

LEMMA MintedIsProven ==
  ASSUME ChainInv, LockInv, MintInv, [Next]_vars, minted' > minted, reorgs = 0
  PROVE  MintProven
<1>1. minted' # minted
  BY DEF MintInv
<1>2. transfer.pc = "deposit"
  BY <1>1 DEF Next, vars, transferVars, Mine, Fork, Relay, Include, Transfer, Interrupted, RpcError,
              Interrupt, TornRecord, TransferStep, Execute, MintErc20, Approve, RecordApprove, Lock,
              RecordLock, FindProof, WaitBlockSafe, Deposit, DeleteTransferLog
<1>3. /\ Straight /\ log.block = log.height /\ log.height \in Nat \ {0}
      /\ latest_block > log.height
  BY <1>2 DEF MintInv, TransferKnows
<1>4. latest_block \in Nat /\ DOMAIN canonical_header_hashes = 1 .. latest_block
  BY DEF ChainInv, ClientInv
<1>5. log.height \in DOMAIN canonical_header_hashes
  BY <1>3, <1>4
<1>6. canonical_header_hashes[log.height] = log.height
  BY <1>3, <1>5, StraightIsKnown
<1> QED BY <1>3, <1>5, <1>6 DEF MintProven

(* Without a reorganisation no tokens are minted on Tezos for a lock whose *)
(* block the contract does not know, also by a transfer that was resumed.  *)
THEOREM MintsAreProvenWithoutFork == Spec => MintIsProvenWithoutFork
<1>1. ChainInv /\ LockInv /\ MintInv /\ [Next]_vars
        => [minted' > minted /\ reorgs = 0 => MintProven]_vars
  BY MintedIsProven
<1> QED BY <1>1, InitChainInv, NextChainInv, InitLockInv, NextLockInv, InitMintInv, NextMintInv, PTL
        DEF Spec, MintIsProvenWithoutFork
=============================================================================
