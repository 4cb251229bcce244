--------------------------- MODULE EthClientProofs ---------------------------
(***************************************************************************)
(* Proofs about the Ethereum light client, for any tree of headers, any    *)
(* order in which they are submitted and any thresholds.                   *)
(***************************************************************************)
EXTENDS EthClient, FiniteSetTheorems, WellFoundedInduction, TLAPS

LEMMA ConstantsAre ==
  /\ FirstHeader \in Headers /\ ZeroHash \notin Headers
  /\ \A h \in Headers : Number(h) \in Nat /\ Difficulty(h) \in Nat
  /\ hashes_gc_threshold \in Nat /\ finalized_gc_threshold \in Nat
  /\ finalized_gc_threshold >= 1 /\ finalized_gc_threshold <= hashes_gc_threshold
  /\ num_confirmations \in Nat
<1>1. hashes_gc_threshold \in Nat /\ finalized_gc_threshold \in 1 .. hashes_gc_threshold
  BY Zenon, EthClientAssumption
<1>2. /\ FirstHeader \in Headers /\ ZeroHash \notin Headers
      /\ \A h \in Headers : Number(h) \in Nat /\ Difficulty(h) \in Nat
      /\ num_confirmations \in Nat
  BY Zenon, EthClientAssumption
<1> QED BY <1>1, <1>2

-----------------------------------------------------------------------------
(* The fork choice, with or without a trusted signer.                      *)

(* The headers by height have the number of their height, which keeps the  *)
(* best header out of every collection.                                    *)
HeavyInv ==
  /\ \A n \in DOMAIN all_header_hashes : \A h \in all_header_hashes[n] :
       h \in Headers /\ Number(h) = n
  /\ DOMAIN all_header_hashes \subseteq Nat
  /\ infos = [h \in Known |-> infos[h]] /\ Known \subseteq Headers
  /\ \A h \in Known : infos[h].total_difficulty \in Nat
  /\ best_header_hash \in Known
  /\ Number(best_header_hash) \in DOMAIN all_header_hashes
  /\ best_header_hash \in all_header_hashes[Number(best_header_hash)]
  /\ BestIsHeaviest

LEMMA InitHeavy == Init => HeavyInv
BY ConstantsAre DEF Init, HeavyInv, BestIsHeaviest, Known

(* What a header adds.                                                     *)
RecordedAs(h, all, known) ==
  /\ all = AllWith(h) /\ known = InfosWith(h)
  /\ Parent(h) \in Known /\ h # best_header_hash
  /\ DOMAIN known = Known \cup {h}
  /\ known[h].total_difficulty = InfoOf(h).total_difficulty
  /\ known[h].total_difficulty \in Nat
  /\ \A x \in Known : x # h => known[x] = infos[x]
  /\ DOMAIN all = DOMAIN all_header_hashes \cup {Number(h)}
  /\ h \in all[Number(h)]
  /\ \A n \in DOMAIN all_header_hashes : all_header_hashes[n] \subseteq all[n]
  /\ \A n \in DOMAIN all : \A x \in all[n] : x \in Headers /\ Number(x) = n

LEMMA Recorded ==
  ASSUME HeavyInv, NEW h \in Headers, record_header(h)
  PROVE  \E all, known : RecordedAs(h, all, known)
<1>1. Parent(h) \in Known /\ h # best_header_hash
  BY DEF record_header, HeavyInv
<1>2. PICK known : known = InfosWith(h)
  OBVIOUS
<1>3. /\ DOMAIN known = Known \cup {h} /\ known[h] = InfoOf(h)
      /\ \A x \in Known : x # h => known[x] = infos[x]
  BY <1>2 DEF InfosWith
<1>4. InfoOf(h).total_difficulty \in Nat
  BY <1>1, ConstantsAre DEF InfoOf, HeavyInv
<1>5. PICK all : all = AllWith(h)
  OBVIOUS
<1>6. /\ DOMAIN all = DOMAIN all_header_hashes \cup {Number(h)}
      /\ h \in all[Number(h)]
      /\ \A n \in DOMAIN all_header_hashes : all_header_hashes[n] \subseteq all[n]
      /\ \A n \in DOMAIN all : \A x \in all[n] : x \in Headers /\ Number(x) = n
  BY <1>5 DEF AllWith, HeavyInv
<1>7. /\ known[h].total_difficulty = InfoOf(h).total_difficulty
      /\ known[h].total_difficulty \in Nat
  BY <1>3, <1>4, Zenon
<1>8. RecordedAs(h, all, known)
  BY <1>1, <1>2, <1>3, <1>5, <1>6, <1>7, Zenon DEF RecordedAs
<1> QED BY <1>8

LEMMA KeepAsideKeepsHeavy ==
  ASSUME HeavyInv, NEW h \in Headers, record_header(h), ~IsHeavier(h), KeepAside(h)
  PROVE  HeavyInv'
<1>0. PICK all, known : RecordedAs(h, all, known)
  BY Recorded
<1>1. /\ all = AllWith(h) /\ known = InfosWith(h)
      /\ DOMAIN known = Known \cup {h} /\ h # best_header_hash
      /\ known[h].total_difficulty = InfoOf(h).total_difficulty
      /\ known[h].total_difficulty \in Nat
      /\ \A x \in Known : x # h => known[x] = infos[x]
      /\ DOMAIN all = DOMAIN all_header_hashes \cup {Number(h)}
      /\ \A n \in DOMAIN all_header_hashes : all_header_hashes[n] \subseteq all[n]
      /\ \A n \in DOMAIN all : \A x \in all[n] : x \in Headers /\ Number(x) = n
  BY <1>0, Zenon DEF RecordedAs
<1>2. infos' = known /\ all_header_hashes' = all /\ best_header_hash' = best_header_hash
  BY <1>1 DEF KeepAside
<1>3. known[h].total_difficulty <= infos[best_header_hash].total_difficulty
  <2>1. infos[best_header_hash].total_difficulty \in Nat
    BY DEF HeavyInv
  <2>2. ~(InfoOf(h).total_difficulty > infos[best_header_hash].total_difficulty)
    BY Zenon DEF IsHeavier
  <2> QED BY <1>1, <2>1, <2>2
<1>4. known = [x \in Known \cup {h} |-> known[x]]
  BY <1>1 DEF InfosWith
<1>5. \A x \in Known \cup {h} : /\ known[x].total_difficulty \in Nat
                                /\ known[x].total_difficulty <= known[best_header_hash].total_difficulty
  BY <1>1, <1>3 DEF HeavyInv, BestIsHeaviest
<1>6. DOMAIN all \subseteq Nat
  BY <1>1, ConstantsAre DEF HeavyInv
<1> QED BY <1>1, <1>2, <1>4, <1>5, <1>6 DEF HeavyInv, Known, BestIsHeaviest

LEMMA AdoptKeepsHeavy ==
  ASSUME HeavyInv, NEW h \in Headers, record_header(h), IsHeavier(h), Adopt(h)
  PROVE  HeavyInv'
<1>0. PICK all, known : RecordedAs(h, all, known)
  BY Recorded
<1>1. /\ all = AllWith(h) /\ known = InfosWith(h)
      /\ DOMAIN known = Known \cup {h}
      /\ known[h].total_difficulty = InfoOf(h).total_difficulty
      /\ known[h].total_difficulty \in Nat
      /\ \A x \in Known : x # h => known[x] = infos[x]
      /\ DOMAIN all = DOMAIN all_header_hashes \cup {Number(h)}
      /\ h \in all[Number(h)]
      /\ \A n \in DOMAIN all : \A x \in all[n] : x \in Headers /\ Number(x) = n
  BY <1>0, Zenon DEF RecordedAs
<1> DEFINE gone == GcRun(all, GcHeight(h))
           forgotten == UNION {all[n] : n \in gone}
<1>2. /\ infos' = [x \in DOMAIN known \ forgotten |-> known[x]]
      /\ all_header_hashes' = [n \in DOMAIN all \ gone |-> all[n]]
      /\ best_header_hash' = h
  BY <1>1 DEF Adopt, Without
<1>3. Number(h) \in Nat /\ Number(h) \notin gone /\ gone \subseteq DOMAIN all
  BY ConstantsAre DEF GcRun, GcHeight
<1> HIDE DEF gone
<1>4. h \notin forgotten
  BY <1>1, <1>3
<1> HIDE DEF forgotten
<1>5. infos[best_header_hash].total_difficulty <= known[h].total_difficulty
  <2>1. infos[best_header_hash].total_difficulty \in Nat
    BY DEF HeavyInv
  <2>2. \/ InfoOf(h).total_difficulty > infos[best_header_hash].total_difficulty
        \/ InfoOf(h).total_difficulty = infos[best_header_hash].total_difficulty
    BY Zenon DEF IsHeavier
  <2> QED BY <1>1, <2>1, <2>2
<1>6. \A x \in DOMAIN known : /\ known[x].total_difficulty \in Nat /\ x \in Headers
                              /\ known[x].total_difficulty <= known[h].total_difficulty
  BY <1>1, <1>5 DEF HeavyInv, BestIsHeaviest
<1>7. DOMAIN all \subseteq Nat
  BY <1>1, <1>3 DEF HeavyInv
<1> QED BY <1>1, <1>2, <1>3, <1>4, <1>6, <1>7 DEF HeavyInv, Known, BestIsHeaviest

LEMMA NextHeavy == HeavyInv /\ [Next]_vars => HeavyInv'
<1>1. ASSUME HeavyInv, NEW h \in Headers, record_header(h) PROVE HeavyInv'
  BY <1>1, KeepAsideKeepsHeavy, AdoptKeepsHeavy DEF record_header
<1>2. HeavyInv /\ UNCHANGED vars => HeavyInv'
  BY DEF vars, HeavyInv, BestIsHeaviest, Known
<1> QED BY <1>1, <1>2 DEF Next, add_block_header

(* The fork choice is right for every tree and every order of arrival:     *)
(* what becomes the best header is at least as heavy as the best before    *)
(* it, and it is never collected.                                          *)
THEOREM ForkChoice == Spec => []BestIsHeaviest
<1>1. HeavyInv => BestIsHeaviest
  BY DEF HeavyInv
<1> QED BY <1>1, InitHeavy, NextHeavy, PTL DEF Spec

-----------------------------------------------------------------------------
(* The tree of headers, when no signer is trusted.                         *)

(* The headers all, with the infos known, from height lo to height hi: a   *)
(* header is at the height of its number and, except the first, one above  *)
(* its parent, which is known too unless the header is at the lowest       *)
(* height.                                                                 *)
InTree(h, all, known, lo, hi) ==
  /\ h \in Headers /\ Number(h) \in lo .. hi /\ h \in all[Number(h)]
  /\ known[h].number = Number(h)
  /\ known[h].parent_hash = IF h = FirstHeader THEN ZeroHash ELSE Parent(h)
  /\ h # FirstHeader =>
       /\ Parent(h) \in Headers /\ Number(Parent(h)) = Number(h) - 1
       /\ Number(FirstHeader) < Number(h)
       /\ Number(h) > lo => Parent(h) \in DOMAIN known

Tree(all, known, lo, hi) ==
  /\ lo \in Nat /\ hi \in Nat /\ Number(FirstHeader) <= lo
  /\ DOMAIN all = lo .. hi
  /\ \A n \in lo .. hi : \A h \in all[n] : h \in DOMAIN known /\ Number(h) = n
  /\ \A h \in DOMAIN known : InTree(h, all, known, lo, hi)

(* The canonical hashes go from height clo to the best header; as far as   *)
(* headers are known, and to one hash below, each is the parent of the     *)
(* next one.                                                               *)
Branch(best, canonical, all, lo, clo) ==
  /\ clo \in Nat /\ clo <= lo
  /\ DOMAIN canonical = clo .. Number(best) /\ canonical[Number(best)] = best
  /\ \A n \in lo .. Number(best) : canonical[n] \in all[n]
  /\ \A n \in clo .. Number(best) - 1 :
       n + 1 >= lo => canonical[n + 1] # FirstHeader /\ canonical[n] = Parent(canonical[n + 1])

ChainOf(lo, hi, clo) ==
  /\ Tree(all_header_hashes, infos, lo, hi)
  /\ Branch(best_header_hash, canonical_header_hashes, all_header_hashes, lo, clo)
  /\ best_header_hash \in Known
  /\ lo + finalized_gc_threshold > Number(best_header_hash)
  /\ clo + hashes_gc_threshold > Number(best_header_hash)

ChainInv == \E lo, hi, clo \in Nat : ChainOf(lo, hi, clo)

LEMMA InitChain == Init => ChainInv
<1> SUFFICES ASSUME Init PROVE ChainInv
  OBVIOUS
<1> DEFINE f == Number(FirstHeader)
<1>1. f \in Nat /\ FirstHeader \in Headers /\ finalized_gc_threshold >= 1
      /\ finalized_gc_threshold \in Nat /\ hashes_gc_threshold \in Nat /\ hashes_gc_threshold >= 1
  BY ConstantsAre
<1>2. f .. f = {f} /\ f .. f - 1 = {}
  BY <1>1
<1>3. Tree(all_header_hashes, infos, f, f)
  BY <1>1, <1>2 DEF Init, Tree, InTree
<1>4. Branch(best_header_hash, canonical_header_hashes, all_header_hashes, f, f)
  BY <1>1, <1>2 DEF Init, Branch
<1>5. ChainOf(f, f, f)
  BY <1>1, <1>3, <1>4 DEF ChainOf, Init, Known
<1> QED BY <1>1, <1>5 DEF ChainInv

(* A header above a known one.                                             *)
NewHeader(h, all, known) ==
  /\ Parent(h) \in DOMAIN known /\ Number(h) = Number(Parent(h)) + 1
  /\ Number(h) \in DOMAIN all => h \notin all[Number(h)]

Higher(m, n) == IF m > n THEN m ELSE n

LEMMA RecordedTree ==
  ASSUME NEW all, NEW known, NEW lo, NEW hi, Tree(all, known, lo, hi),
         NEW h \in Headers, NewHeader(h, all, known),
         NEW all2, NEW known2, NEW td,
         DOMAIN all2 = DOMAIN all \cup {Number(h)},
         \A n \in DOMAIN all2 :
           all2[n] = (IF n \in DOMAIN all THEN all[n] ELSE {}) \cup (IF n = Number(h) THEN {h} ELSE {}),
         DOMAIN known2 = DOMAIN known \cup {h},
         \A x \in DOMAIN known : x # h => known2[x] = known[x],
         known2[h] = [total_difficulty |-> td, parent_hash |-> Parent(h), number |-> Number(h)]
  PROVE  /\ Tree(all2, known2, lo, Higher(hi, Number(h)))
         /\ h \notin DOMAIN known /\ h # FirstHeader
         /\ lo < Number(h) /\ Number(h) <= hi + 1
<1> DEFINE N == Number(h)
           top == Higher(hi, N)
<1>1. /\ lo \in Nat /\ hi \in Nat /\ N \in Nat /\ Number(Parent(h)) \in lo .. hi
      /\ N = Number(Parent(h)) + 1 /\ Number(FirstHeader) <= lo /\ Number(FirstHeader) \in Nat
  BY ConstantsAre DEF Tree, InTree, NewHeader
<1>2. h # FirstHeader /\ lo < N /\ N <= hi + 1
  BY <1>1
<1>3. h \notin DOMAIN known
  BY DEF NewHeader, Tree, InTree
<1>4. top \in Nat /\ hi <= top /\ N <= top /\ lo .. hi \cup {N} = lo .. top
  BY <1>1 DEF Higher
<1> HIDE DEF N, top
<1>5. DOMAIN all2 = lo .. top
  BY <1>4 DEF Tree, N
<1>6. \A n \in lo .. top : \A x \in all2[n] : x \in DOMAIN known2 /\ Number(x) = n
  BY <1>5 DEF Tree, N
<1>7. ASSUME NEW x \in DOMAIN known2 PROVE InTree(x, all2, known2, lo, top)
  <2>1. CASE x = h
    <3>1. h \in all2[N] /\ N \in lo .. top
      BY <1>1, <1>2, <1>4, <1>5 DEF N
    <3>2. Parent(h) \in Headers /\ Parent(h) \in DOMAIN known2
      BY DEF NewHeader, Tree, InTree
    <3>3. /\ known2[h].number = N /\ known2[h].parent_hash = Parent(h)
          /\ Number(Parent(h)) = N - 1 /\ Number(FirstHeader) < N
      BY <1>1, <1>2 DEF N
    <3> QED BY <1>2, <2>1, <3>1, <3>2, <3>3 DEF InTree, N
  <2>2. CASE x # h
    <3>1. x \in DOMAIN known /\ InTree(x, all, known, lo, hi) /\ known2[x] = known[x]
      BY <2>2 DEF Tree
    <3>2. Number(x) \in lo .. hi /\ x \in all[Number(x)]
      BY <3>1 DEF InTree
    <3>3. Number(x) \in lo .. top /\ x \in all2[Number(x)]
      BY <1>1, <1>4, <1>5, <3>2 DEF Tree
    <3>4. Number(x) > lo /\ x # FirstHeader => Parent(x) \in DOMAIN known2
      BY <3>1 DEF InTree
    <3> QED BY <3>1, <3>3, <3>4 DEF InTree
  <2> QED BY <2>1, <2>2
<1>8. Tree(all2, known2, lo, top)
  BY <1>1, <1>4, <1>5, <1>6, <1>7 DEF Tree
<1> QED BY <1>2, <1>3, <1>8 DEF N, top

(* The loops that collect garbage reach the lowest height.                 *)
LEMMA GcOfInterval ==
  ASSUME NEW f, NEW a \in Nat, NEW b \in Nat, DOMAIN f = a .. b, NEW m \in Int, m <= b
  PROVE  GcRun(f, m) = a .. m
BY DEF GcRun

LEMMA WithoutLowest ==
  ASSUME NEW f, NEW a \in Nat, NEW b \in Nat, DOMAIN f = a .. b, NEW m \in Int, m < b
  PROVE  /\ Higher(a, m + 1) \in Nat
         /\ DOMAIN Without(f, GcRun(f, m)) = Higher(a, m + 1) .. b
         /\ \A n \in Higher(a, m + 1) .. b : Without(f, GcRun(f, m))[n] = f[n]
<1>1. GcRun(f, m) = a .. m
  BY GcOfInterval
<1>2. Higher(a, m + 1) \in Nat /\ (a .. b) \ (a .. m) = Higher(a, m + 1) .. b
  BY DEF Higher
<1> QED BY <1>1, <1>2 DEF Without

Collected(all, known, m, all2, known2) ==
  /\ all2 = Without(all, GcRun(all, m))
  /\ known2 = Without(known, UNION {all[n] : n \in GcRun(all, m)})

CollectedAs(all, known, low, hi, all2, known2) ==
  /\ Tree(all2, known2, low, hi) /\ low \in Nat
  /\ DOMAIN known2 = {x \in DOMAIN known : Number(x) >= low}
  /\ \A n \in low .. hi : all2[n] = all[n]

LEMMA CollectedTree ==
  ASSUME NEW all, NEW known, NEW lo, NEW hi, Tree(all, known, lo, hi),
         NEW m \in Int, m < hi, NEW all2, NEW known2, Collected(all, known, m, all2, known2)
  PROVE  CollectedAs(all, known, Higher(lo, m + 1), hi, all2, known2)
<1> DEFINE low == Higher(lo, m + 1)
           gone == UNION {all[n] : n \in GcRun(all, m)}
<1>1. all2 = Without(all, GcRun(all, m)) /\ known2 = Without(known, gone)
  BY DEF Collected
<1>2. lo \in Nat /\ hi \in Nat /\ DOMAIN all = lo .. hi /\ Number(FirstHeader) \in Nat
      /\ Number(FirstHeader) <= lo
  BY ConstantsAre DEF Tree
<1>3. low \in Nat /\ lo <= low /\ m < low /\ \A n \in lo .. hi : n \in lo .. m \/ n >= low
  BY <1>2 DEF Higher
<1>4. DOMAIN all2 = low .. hi /\ \A n \in low .. hi : all2[n] = all[n]
  BY <1>1, <1>2, WithoutLowest
<1>5. gone = {x \in DOMAIN known : Number(x) < low}
  <2>1. GcRun(all, m) = lo .. m
    BY <1>2, GcOfInterval
  <2>2. ASSUME NEW x \in DOMAIN known, Number(x) < low PROVE x \in all[Number(x)] /\ Number(x) \in lo .. m
    BY <1>2, <1>3, <2>2 DEF Tree, InTree
  <2>3. ASSUME NEW n \in lo .. m, NEW x \in all[n] PROVE x \in DOMAIN known /\ Number(x) < low
    BY <1>2, <1>3, <2>3 DEF Tree
  <2> QED BY <2>1, <2>2, <2>3
<1>6. /\ DOMAIN known2 = {x \in DOMAIN known : Number(x) >= low}
      /\ \A x \in DOMAIN known2 : known2[x] = known[x]
  <2>1. \A x \in DOMAIN known : Number(x) \in Nat
    BY <1>2 DEF Tree, InTree
  <2> HIDE DEF gone
  <2> QED BY <1>1, <1>3, <1>5, <2>1 DEF Without
<1> HIDE DEF low, gone
<1>7. \A n \in low .. hi : \A x \in all2[n] : x \in DOMAIN known2 /\ Number(x) = n
  BY <1>2, <1>3, <1>4, <1>6 DEF Tree
<1>8. ASSUME NEW x \in DOMAIN known2 PROVE InTree(x, all2, known2, low, hi)
  <2>1. x \in DOMAIN known /\ InTree(x, all, known, lo, hi) /\ known2[x] = known[x] /\ Number(x) >= low
    BY <1>6 DEF Tree
  <2>2. Number(x) \in low .. hi
    BY <1>2, <1>3, <2>1 DEF InTree
  <2>3. Number(x) > low /\ x # FirstHeader => Parent(x) \in DOMAIN known2
    <3>1. Number(x) > low /\ x # FirstHeader =>
            Parent(x) \in DOMAIN known /\ Number(Parent(x)) = Number(x) - 1
      BY <1>2, <1>3, <2>1, <2>2 DEF InTree
    <3> QED BY <1>3, <1>6, <2>2, <3>1
  <2> QED BY <1>4, <2>1, <2>2, <2>3 DEF InTree
<1>9. Tree(all2, known2, low, hi)
  BY <1>2, <1>3, <1>4, <1>7, <1>8 DEF Tree
<1>10. CollectedAs(all, known, low, hi, all2, known2)
  BY <1>3, <1>4, <1>6, <1>9 DEF CollectedAs
<1> QED BY <1>10 DEF low

-----------------------------------------------------------------------------
(* Going down a branch.  What a recursive function computes is known step  *)
(* by step once a function that satisfies the recursion is known to exist; *)
(* that it does down to every height follows from the smallest depth for   *)
(* which it would not.                                                     *)

NatLess == OpToRel(<, Nat)

LEMMA LeastNat ==
  ASSUME NEW S \in SUBSET Nat, S # {}
  PROVE  \E x \in S : \A y \in S : x <= y
<1>1. PICK x \in S : \A y \in S : ~(<<y, x>> \in NatLess)
  <2>1. IsWellFoundedOn(NatLess, Nat)
    BY NatLessThanWellFounded DEF NatLess
  <2> QED BY <2>1, WFMin
<1>2. \A y \in S : x <= y
  <2> TAKE y \in S
  <2>1. y < x => <<y, x>> \in NatLess
    BY DEF NatLess, OpToRel
  <2> QED BY <1>1, <2>1
<1> QED BY <1>2

LEMMA GreatestUpTo ==
  ASSUME NEW n \in Nat, NEW S \in SUBSET (0 .. n), S # {}
  PROVE  \E x \in S : \A y \in S : y <= x
<1> DEFINE T == {n - x : x \in S}
<1>1. T \subseteq Nat /\ T # {}
  <2>1. \A x \in S : n - x \in Nat
    OBVIOUS
  <2> QED BY <2>1
<1>2. PICK d \in T : \A y \in T : d <= y
  <2> HIDE DEF T
  <2> QED BY <1>1, LeastNat
<1>3. PICK x \in S : d = n - x
  OBVIOUS
<1>4. \A y \in S : y <= x
  <2> TAKE y \in S
  <2>1. n - y \in T
    OBVIOUS
  <2>2. n - x <= n - y
    BY <1>2, <1>3, <2>1
  <2> QED BY <2>2
<1> QED BY <1>4

(* From top at height n, next[k][v] being what is below v at height k.     *)
Down(top, n, low, next, f) ==
  [k \in low .. n |-> IF k = n THEN top ELSE next[k + 1][f[k + 1]]]

LEMMA DownExists ==
  ASSUME NEW V, NEW top \in V, NEW n \in Nat, NEW next \in [0 .. n -> [V -> V]]
  PROVE  \E f \in [0 .. n -> V] : f = Down(top, n, 0, next, f)
<1> DEFINE Good(d) == \E f \in [n - d .. n -> V] : f = Down(top, n, n - d, next, f)
           Bad == {d \in 0 .. n : ~Good(d)}
<1>1. ASSUME Bad # {} PROVE FALSE
  <2>1. PICK d \in Bad : \A e \in Bad : d <= e
    <3>1. Bad \in SUBSET Nat
      OBVIOUS
    <3> HIDE DEF Bad
    <3> QED BY <1>1, <3>1, LeastNat
  <2>2. d \in 0 .. n /\ ~Good(d)
    OBVIOUS
  <2>3. d # 0
    <3>1. Good(0)
      <4> DEFINE f == [k \in n - 0 .. n |-> top]
      <4>1. f \in [n - 0 .. n -> V] /\ f = Down(top, n, n - 0, next, f)
        BY DEF Down
      <4> QED BY <4>1
    <3> HIDE DEF Good
    <3> QED BY <2>2, <3>1
  <2>4. d - 1 \in 0 .. n /\ d - 1 \notin Bad
    <3>1. d - 1 \in 0 .. n /\ d - 1 < d
      BY <2>2, <2>3
    <3> HIDE DEF Bad, Good
    <3> QED BY <2>1, <2>2, <3>1
  <2> DEFINE b == n - d
  <2>5. b \in 0 .. n - 1 /\ n - (d - 1) = b + 1
    BY <2>2, <2>3
  <2>6. Good(d - 1)
    BY <2>4
  <2>7. PICK f \in [b + 1 .. n -> V] : f = Down(top, n, b + 1, next, f)
    BY <2>5, <2>6
  <2> HIDE DEF b, Good, Bad
  <2> DEFINE g == [k \in b .. n |-> IF k = b THEN next[b + 1][f[b + 1]] ELSE f[k]]
  <2>8. b + 1 \in b + 1 .. n /\ b + 1 \in 0 .. n /\ f[b + 1] \in V /\ next[b + 1][f[b + 1]] \in V
    BY <2>5
  <2>9. g \in [b .. n -> V]
    <3>1. \A k \in b .. n : k # b => k \in b + 1 .. n
      BY <2>5
    <3> QED BY <2>8, <3>1
  <2>10. \A k \in b + 1 .. n : f[k] = IF k = n THEN top ELSE next[k + 1][f[k + 1]]
    BY <2>7 DEF Down
  <2>11. \A k \in b .. n : g[k] = IF k = n THEN top ELSE next[k + 1][g[k + 1]]
    <3> TAKE k \in b .. n
    <3>1. k \in b + 1 .. n \/ k = b
      BY <2>5
    <3>2. k # n => k + 1 \in b + 1 .. n /\ k + 1 # b /\ k + 1 \in b .. n
      BY <2>5
    <3>3. \A j \in b + 1 .. n : j \in b .. n /\ j # b
      BY <2>5
    <3>4. \A j \in b + 1 .. n : g[j] = f[j]
      BY <3>3
    <3>5. g[b] = next[b + 1][f[b + 1]] /\ b # n
      BY <2>5
    <3> HIDE DEF g
    <3> QED BY <2>10, <3>1, <3>2, <3>3, <3>4, <3>5
  <2>12. g = Down(top, n, b, next, g)
    <3>1. g = [k \in b .. n |-> g[k]]
      OBVIOUS
    <3> HIDE DEF g
    <3> QED BY <2>11, <3>1 DEF Down
  <2>13. Good(d)
    BY <2>9, <2>12 DEF Good, b
  <2> QED BY <2>2, <2>13
<1>2. Good(n)
  <2>1. n \in 0 .. n
    OBVIOUS
  <2> HIDE DEF Good
  <2> QED BY <1>1, <2>1
<1>3. n - n = 0
  OBVIOUS
<1> QED BY <1>2, <1>3

(* The loop that replaces past hashes.                                     *)
Stops(h, canonical, k, x) ==
  \/ x = ZeroHash
  \/ k # Number(h) /\ k \in DOMAIN canonical /\ canonical[k] = x
  \/ x \notin Known \cup {h}

ParentIn(h, x) == IF x = h THEN Parent(h) ELSE infos[x].parent_hash

Below(h, canonical, k, x) == IF Stops(h, canonical, k, x) THEN ZeroHash ELSE ParentIn(h, x)

RewriteStep(h, canonical, f) ==
  [k \in 0 .. Number(h) |-> IF k = Number(h) THEN h ELSE Below(h, canonical, k + 1, f[k + 1])]

LEMMA RewrittenIs ==
  ASSUME NEW h, NEW canonical
  PROVE  Rewritten(h, canonical) = CHOOSE f : f = RewriteStep(h, canonical, f)
BY Zenon DEF Rewritten, RewriteStep, Below, Stops, ParentIn

Rewrites(h, canonical, written) ==
  /\ DOMAIN written = 0 .. Number(h) /\ written[Number(h)] = h
  /\ \A k \in 0 .. Number(h) - 1 : written[k] = Below(h, canonical, k + 1, written[k + 1])

LEMMA RewrittenRec ==
  ASSUME NEW h \in Headers, NEW canonical,
         \A x \in Known \cup {h} : ParentIn(h, x) \in Headers \cup {ZeroHash}
  PROVE  Rewrites(h, canonical, Rewritten(h, canonical))
<1> DEFINE V == Headers \cup {ZeroHash}
           n == Number(h)
           next == [k \in 0 .. n |-> [x \in V |-> Below(h, canonical, k, x)]]
<1>1. n \in Nat
  BY ConstantsAre
<1>2. \A k \in 0 .. n, x \in V : Below(h, canonical, k, x) \in V
  BY Zenon DEF Below, Stops
<1>3. next \in [0 .. n -> [V -> V]]
  BY <1>2
<1>4. h \in V
  OBVIOUS
<1>5. PICK f \in [0 .. n -> V] : f = Down(h, n, 0, next, f)
  <2> HIDE DEF V, n, next
  <2> QED BY <1>1, <1>3, <1>4, DownExists
<1>6. f = RewriteStep(h, canonical, f)
  <2>1. \A k \in 0 .. n : k # n => next[k + 1][f[k + 1]] = Below(h, canonical, k + 1, f[k + 1])
    <3> TAKE k \in 0 .. n
    <3>1. k # n => k + 1 \in 0 .. n /\ f[k + 1] \in V
      BY <1>1
    <3> HIDE DEF n, V
    <3> QED BY <3>1
  <2> HIDE DEF next, V
  <2> QED BY <1>5, <2>1 DEF Down, RewriteStep
<1> DEFINE W == Rewritten(h, canonical)
<1>7. W = RewriteStep(h, canonical, W)
  BY <1>6, RewrittenIs
<1> HIDE DEF W
<1>8. Rewrites(h, canonical, W)
  <2>1. n \in 0 .. n /\ \A k \in 0 .. n - 1 : k \in 0 .. n /\ k # n
    BY <1>1
  <2>2. DOMAIN W = 0 .. n /\ \A k \in 0 .. n :
          W[k] = IF k = n THEN h ELSE Below(h, canonical, k + 1, W[k + 1])
    BY <1>7 DEF RewriteStep
  <2> HIDE DEF n
  <2>3. /\ DOMAIN W = 0 .. n /\ W[n] = h
        /\ \A k \in 0 .. n - 1 : W[k] = Below(h, canonical, k + 1, W[k + 1])
    BY <2>1, <2>2
  <2> QED BY <2>3 DEF Rewrites, n
<1> QED BY <1>8 DEF W

(* What it writes.  From the new header down to the lowest height with     *)
(* known headers, and to one below, every hash it writes is the parent of  *)
(* the one above; where it stops earlier, the hash above was there.        *)
WrittenAt(k, h, kept, written, lo) ==
  /\ written[k] # ZeroHash /\ k >= lo =>
       written[k] \in DOMAIN infos \cup {h} /\ Number(written[k]) = k
  /\ written[k] # ZeroHash /\ k < Number(h) =>
       /\ written[k + 1] # ZeroHash /\ written[k + 1] # FirstHeader
       /\ written[k] = Parent(written[k + 1])
  /\ written[k] = ZeroHash =>
       /\ k < Number(h) /\ k + 1 \in DOMAIN kept
       /\ written[k + 1] \in {ZeroHash, kept[k + 1]}

LEMMA KeptIs ==
  ASSUME NEW lo, NEW hi, NEW clo, ChainOf(lo, hi, clo), NEW h \in Headers, Number(h) > lo,
         NEW kept, kept = Without(canonical_header_hashes, Stale(h))
  PROVE  \E up \in Nat :
           /\ up <= Number(h) /\ up <= Number(best_header_hash) /\ lo <= up
           /\ up = Number(h) \/ up = Number(best_header_hash)
           /\ DOMAIN kept = clo .. up
           /\ \A k \in clo .. up : kept[k] = canonical_header_hashes[k]
<1> DEFINE N == Number(h)
           last == Number(best_header_hash)
<1>1. best_header_hash \in Known /\ InTree(best_header_hash, all_header_hashes, infos, lo, hi)
  BY DEF ChainOf, Tree, Known
<1>2. N \in Nat /\ last \in Nat /\ lo <= last /\ last_block_number = last /\ lo \in Nat /\ clo \in Nat
      /\ clo <= lo
  BY <1>1, ConstantsAre DEF InTree, last_block_number, ChainOf, Tree, Branch
<1>3. DOMAIN canonical_header_hashes = clo .. last
  BY DEF ChainOf, Branch
<1>4. /\ DOMAIN kept = (clo .. last) \ (N + 1 .. last)
      /\ \A k \in DOMAIN kept : kept[k] = canonical_header_hashes[k]
  BY <1>2, <1>3 DEF Without, Stale
<1>5. PICK up \in {N, last} : up <= N /\ up <= last
  BY <1>2
<1>6. (clo .. last) \ (N + 1 .. last) = clo .. up
  BY <1>2, <1>5
<1> HIDE DEF N, last
<1>7. up \in Nat /\ lo <= up
  BY <1>2, <1>5 DEF N
<1> QED BY <1>4, <1>5, <1>6, <1>7 DEF N, last

LEMMA OneWritten ==
  ASSUME NEW lo, NEW hi, NEW clo, ChainOf(lo, hi, clo),
         NEW h \in Headers, NewHeader(h, all_header_hashes, infos),
         NEW kept, kept = Without(canonical_header_hashes, Stale(h)),
         NEW written, Rewrites(h, kept, written),
         NEW k \in 0 .. Number(h) - 1, k >= lo - 1, WrittenAt(k + 1, h, kept, written, lo)
  PROVE  WrittenAt(k, h, kept, written, lo)
<1> DEFINE N == Number(h)
           x == written[k + 1]
<1>1. /\ lo \in Nat /\ N \in Nat /\ N > lo /\ clo \in Nat /\ clo <= lo /\ h # FirstHeader
      /\ Parent(h) \in Known /\ InTree(Parent(h), all_header_hashes, infos, lo, hi)
      /\ Number(Parent(h)) = N - 1 /\ h \notin Known
      /\ Number(FirstHeader) \in Nat /\ Number(FirstHeader) <= lo
  <2>1. Parent(h) \in Known /\ InTree(Parent(h), all_header_hashes, infos, lo, hi)
    BY DEF NewHeader, ChainOf, Tree, Known
  <2>2. N \in Nat /\ lo \in Nat /\ clo \in Nat /\ clo <= lo /\ Number(FirstHeader) <= lo
        /\ Number(FirstHeader) \in Nat
    BY ConstantsAre DEF ChainOf, Tree, Branch
  <2>3. N = Number(Parent(h)) + 1 /\ Number(Parent(h)) \in lo .. hi
    BY <2>1 DEF NewHeader, InTree
  <2>4. N > lo /\ h # FirstHeader /\ Number(Parent(h)) = N - 1
    BY <2>2, <2>3
  <2>5. h \notin Known
    BY DEF NewHeader, ChainOf, Tree, InTree, Known
  <2> QED BY <2>1, <2>2, <2>4, <2>5
<1>2. PICK up \in Nat : /\ up <= N /\ lo <= up /\ DOMAIN kept = clo .. up
                        /\ up <= Number(best_header_hash)
                        /\ \A j \in clo .. up : kept[j] = canonical_header_hashes[j]
  BY <1>1, KeptIs
<1>3. written[k] = Below(h, kept, k + 1, x) /\ k < N /\ k + 1 >= lo /\ k \in Nat
  BY <1>1 DEF Rewrites
<1> HIDE DEF N
<1>4. CASE x = ZeroHash
  <2>1. k + 1 < N /\ k + 1 + 1 \in clo .. up
    BY <1>2, <1>4 DEF WrittenAt, N
  <2>2. k + 1 \in clo .. up
    BY <1>1, <1>3, <2>1
  <2>3. written[k] = ZeroHash
    BY <1>3, <1>4 DEF Below, Stops
  <2> QED BY <1>2, <1>3, <1>4, <2>2, <2>3 DEF WrittenAt, N
<1>5. CASE k + 1 # N /\ k + 1 \in DOMAIN kept /\ kept[k + 1] = x
  <2>1. written[k] = ZeroHash
    BY <1>3, <1>5 DEF Below, Stops, N
  <2> QED BY <1>3, <1>5, <2>1 DEF WrittenAt, N
<1>6. CASE ~Stops(h, kept, k + 1, x)
  <2>1. written[k] = ParentIn(h, x)
    BY <1>3, <1>6 DEF Below
  <2>2. x \in DOMAIN infos \cup {h} /\ Number(x) = k + 1
    BY <1>3, <1>6 DEF WrittenAt, Stops
  <2>3. CASE x = h
    <3>1. written[k] = Parent(h) /\ k + 1 = N
      BY <2>1, <2>2, <2>3 DEF ParentIn, N
    <3>2. Number(Parent(h)) = k /\ Parent(h) \in Headers /\ Parent(h) \in DOMAIN infos
      BY <1>1, <1>3, <3>1 DEF InTree, Known
    <3>3. Parent(h) # ZeroHash /\ h # ZeroHash
      BY <3>2, ConstantsAre
    <3> QED BY <1>1, <2>3, <3>1, <3>2, <3>3 DEF WrittenAt, N
  <2>4. CASE x # h /\ x # FirstHeader
    <3>1. x \in DOMAIN infos /\ InTree(x, all_header_hashes, infos, lo, hi)
      BY <2>2, <2>4 DEF ChainOf, Tree
    <3>2. /\ written[k] = Parent(x) /\ Parent(x) \in Headers /\ Number(Parent(x)) = k
          /\ k + 1 > lo => Parent(x) \in DOMAIN infos
      BY <1>3, <2>1, <2>2, <2>4, <3>1 DEF ParentIn, InTree
    <3>3. k >= lo => k + 1 > lo
      BY <1>1, <1>3
    <3>4. x # ZeroHash /\ written[k] # ZeroHash
      BY <1>6, <3>2, ConstantsAre DEF Stops
    <3> QED BY <2>4, <3>2, <3>3, <3>4 DEF WrittenAt
  <2>5. CASE x # h /\ x = FirstHeader
    <3>1. x \in DOMAIN infos /\ InTree(x, all_header_hashes, infos, lo, hi)
      BY <2>2, <2>5 DEF ChainOf, Tree
    <3>2. written[k] = ZeroHash
      BY <2>1, <2>5, <3>1 DEF ParentIn, InTree
    <3>3. k + 1 = lo
      BY <1>1, <1>3, <2>2, <2>5
    <3>4. lo \in clo .. up /\ lo \in lo .. Number(best_header_hash)
      <4>1. Number(best_header_hash) \in Nat
        BY ConstantsAre DEF ChainOf, Tree, InTree, Known
      <4> QED BY <1>1, <1>2, <4>1
    <3>5. kept[lo] \in all_header_hashes[lo]
      BY <1>2, <3>4 DEF ChainOf, Branch
    <3>6. kept[lo] \in DOMAIN infos /\ Number(kept[lo]) = lo
      <4>1. lo \in lo .. hi
        BY <3>1, <2>2, <3>3 DEF InTree
      <4> QED BY <3>5, <4>1 DEF ChainOf, Tree
    <3>7. kept[lo] = FirstHeader
      <4>1. InTree(kept[lo], all_header_hashes, infos, lo, hi)
        BY <3>6 DEF ChainOf, Tree
      <4>2. ~(Number(FirstHeader) < Number(kept[lo]))
        BY <1>1, <2>2, <2>5, <3>3, <3>6
      <4> QED BY <4>1, <4>2 DEF InTree
    <3>8. k + 1 \in DOMAIN kept /\ x = kept[k + 1]
      BY <1>2, <2>5, <3>3, <3>4, <3>7
    <3> QED BY <1>3, <3>2, <3>8 DEF WrittenAt, N
  <2> QED BY <2>3, <2>4, <2>5
<1>7. CASE x # ZeroHash /\ x \notin Known \cup {h}
  BY <1>3, <1>7 DEF WrittenAt, Known
<1> QED BY <1>4, <1>5, <1>6, <1>7 DEF Stops, N

LEMMA AllWritten ==
  ASSUME NEW lo, NEW hi, NEW clo, ChainOf(lo, hi, clo),
         NEW h \in Headers, NewHeader(h, all_header_hashes, infos),
         NEW kept, kept = Without(canonical_header_hashes, Stale(h)),
         NEW written, Rewrites(h, kept, written)
  PROVE  \A k \in 0 .. Number(h) :
           /\ k >= lo - 1 => WrittenAt(k, h, kept, written, lo)
           /\ k < lo - 1 => written[k] = ZeroHash
<1> DEFINE N == Number(h)
           High(k) == WrittenAt(k, h, kept, written, lo)
           Bad == {k \in 0 .. N : k >= lo - 1 /\ ~High(k)}
           BadLow == {k \in 0 .. N : k < lo - 1 /\ written[k] # ZeroHash}
<1>1. /\ lo \in Nat /\ N \in Nat /\ N > lo /\ h # ZeroHash /\ written[N] = h
      /\ \A k \in 0 .. N - 1 : written[k] = Below(h, kept, k + 1, written[k + 1])
  <2>1. Parent(h) \in Known /\ InTree(Parent(h), all_header_hashes, infos, lo, hi)
    BY DEF NewHeader, ChainOf, Tree, Known
  <2>2. N \in Nat /\ lo \in Nat /\ h # ZeroHash
    BY ConstantsAre DEF ChainOf, Tree
  <2>3. N > lo
    BY <2>1, <2>2 DEF NewHeader, InTree
  <2> QED BY <2>2, <2>3 DEF Rewrites
<1>2. ASSUME Bad # {} PROVE FALSE
  <2>1. PICK k \in Bad : \A y \in Bad : y <= k
    <3>1. Bad \in SUBSET (0 .. N)
      OBVIOUS
    <3> HIDE DEF Bad, N
    <3> QED BY <1>1, <1>2, <3>1, GreatestUpTo
  <2>2. k \in 0 .. N /\ k >= lo - 1 /\ ~High(k)
    OBVIOUS
  <2>3. k # N
    <3>1. High(N)
      BY <1>1 DEF WrittenAt
    <3> HIDE DEF High
    <3> QED BY <2>2, <3>1
  <2>4. k + 1 \in 0 .. N /\ k \in 0 .. N - 1 /\ k + 1 >= lo - 1
    BY <1>1, <2>2, <2>3
  <2>5. High(k + 1)
    <3> HIDE DEF High, N
    <3> QED BY <2>1, <2>2, <2>4
  <2> HIDE DEF Bad
  <2>6. High(k)
    BY <2>2, <2>4, <2>5, OneWritten
  <2> QED BY <2>2, <2>6
<1>3. ASSUME BadLow # {} PROVE FALSE
  <2>1. PICK k \in BadLow : \A y \in BadLow : y <= k
    <3>1. BadLow \in SUBSET (0 .. N)
      OBVIOUS
    <3> HIDE DEF BadLow, N
    <3> QED BY <1>1, <1>3, <3>1, GreatestUpTo
  <2>2. k \in 0 .. N /\ k < lo - 1 /\ written[k] # ZeroHash
    OBVIOUS
  <2>3. k + 1 \in 0 .. N /\ k \in 0 .. N - 1
    BY <1>1, <2>2
  <2>4. written[k] = Below(h, kept, k + 1, written[k + 1])
    BY <1>1, <2>3
  <2>5. written[k + 1] # ZeroHash /\ written[k + 1] \in Known \cup {h}
    BY <2>2, <2>4 DEF Below, Stops
  <2>6. ~(k + 1 < lo - 1)
    <3> HIDE DEF N
    <3> QED BY <2>1, <2>2, <2>3, <2>5
  <2> HIDE DEF BadLow
  <2>7. k + 1 = lo - 1 /\ lo \in 0 .. N /\ lo - 1 \in 0 .. N /\ k + 1 + 1 = lo /\ lo - 1 < N
    BY <1>1, <2>2, <2>6
  <2>8. High(lo) /\ High(lo - 1)
    <3>1. lo >= lo - 1 /\ lo - 1 >= lo - 1
      BY <1>1
    <3> HIDE DEF High, N
    <3> QED BY <1>2, <2>7, <3>1
  <2>9. /\ written[lo] # ZeroHash /\ written[lo] # FirstHeader
        /\ written[k + 1] = Parent(written[lo])
    <3>1. /\ written[lo - 1 + 1] # ZeroHash /\ written[lo - 1 + 1] # FirstHeader
          /\ written[lo - 1] = Parent(written[lo - 1 + 1])
      BY <2>5, <2>7, <2>8 DEF WrittenAt
    <3>2. lo - 1 + 1 = lo
      BY <1>1
    <3> QED BY <2>7, <3>1, <3>2
  <2>10. written[lo] \in DOMAIN infos \cup {h} /\ Number(written[lo]) = lo
    BY <1>1, <2>8, <2>9 DEF WrittenAt
  <2>11. Number(written[k + 1]) = lo - 1
    <3>1. CASE written[lo] = h
      BY <1>1, <2>10, <3>1
    <3>2. CASE written[lo] \in DOMAIN infos
      BY <2>9, <2>10, <3>2 DEF ChainOf, Tree, InTree
    <3> QED BY <2>10, <3>1, <3>2
  <2>12. Number(written[k + 1]) \in lo .. hi \/ Number(written[k + 1]) = N
    BY <2>5 DEF ChainOf, Tree, InTree, Known
  <2> QED BY <1>1, <2>11, <2>12
<1> HIDE DEF N, High
<1>4. \A k \in 0 .. N : (k >= lo - 1 => High(k)) /\ (k < lo - 1 => written[k] = ZeroHash)
  BY <1>2, <1>3
<1> QED BY <1>4 DEF N, High

(* The chain with the rewritten hashes.                                    *)
LEMMA NewBranch ==
  ASSUME NEW lo, NEW hi, NEW clo, ChainOf(lo, hi, clo),
         NEW h \in Headers, NewHeader(h, all_header_hashes, infos),
         NEW all2, h \in all2[Number(h)],
         \A n \in DOMAIN all_header_hashes : all_header_hashes[n] \subseteq all2[n],
         \A n \in lo .. Number(h) : \A x \in Known : Number(x) = n => x \in all2[n],
         NEW kept, kept = Without(canonical_header_hashes, Stale(h)),
         NEW written, Rewrites(h, kept, written),
         NEW canonical, DOMAIN canonical = DOMAIN kept \cup {k \in DOMAIN written : written[k] # ZeroHash},
         \A k \in DOMAIN canonical :
           canonical[k] = IF k \in {j \in DOMAIN written : written[j] # ZeroHash} THEN written[k] ELSE kept[k]
  PROVE  \E low \in Nat : low <= clo /\ Branch(h, canonical, all2, lo, low)
<1> DEFINE N == Number(h)
           wrote(k) == written[k] # ZeroHash
<1>1. /\ lo \in Nat /\ hi \in Nat /\ N \in Nat /\ N > lo /\ clo \in Nat /\ clo <= lo
      /\ h # ZeroHash /\ h # FirstHeader /\ DOMAIN written = 0 .. N /\ written[N] = h
  <2>1. Parent(h) \in Known /\ InTree(Parent(h), all_header_hashes, infos, lo, hi)
    BY DEF NewHeader, ChainOf, Tree, Known
  <2>2. N \in Nat /\ lo \in Nat /\ hi \in Nat /\ clo \in Nat /\ clo <= lo /\ Number(FirstHeader) <= lo
        /\ h # ZeroHash /\ Number(FirstHeader) \in Nat
    BY ConstantsAre DEF ChainOf, Tree, Branch
  <2>3. N > lo
    BY <2>1, <2>2 DEF NewHeader, InTree
  <2>4. h # FirstHeader
    BY <2>2, <2>3
  <2> QED BY <2>2, <2>3, <2>4 DEF Rewrites
<1>2. PICK up \in Nat : /\ up <= N /\ lo <= up /\ DOMAIN kept = clo .. up
                        /\ up <= Number(best_header_hash)
                        /\ \A j \in clo .. up : kept[j] = canonical_header_hashes[j]
  BY <1>1, KeptIs
<1>3. \A k \in 0 .. N : /\ k >= lo - 1 => WrittenAt(k, h, kept, written, lo)
                        /\ k < lo - 1 => ~wrote(k)
  BY AllWritten
<1>4. \A k \in 0 .. N : /\ wrote(k) => k \in DOMAIN canonical /\ canonical[k] = written[k]
                        /\ ~wrote(k) /\ k \in clo .. up => k \in DOMAIN canonical /\ canonical[k] = kept[k]
  BY <1>1, <1>2
<1>5. \A k \in lo .. N : k \in 0 .. N /\ (wrote(k) \/ k \in clo .. up)
  <2> TAKE k \in lo .. N
  <2>1. k \in 0 .. N /\ k >= lo - 1
    BY <1>1
  <2>2. ~wrote(k) => k + 1 \in clo .. up
    BY <1>2, <1>3, <2>1 DEF WrittenAt
  <2> QED BY <1>1, <2>1, <2>2
<1> HIDE DEF N, wrote
<1>6. \A n \in lo .. N : n \in DOMAIN canonical /\ canonical[n] \in all2[n]
  <2> TAKE n \in lo .. N
  <2>1. n \in 0 .. N /\ n >= lo /\ n >= lo - 1
    BY <1>1
  <2>2. CASE wrote(n)
    <3>1. n \in DOMAIN canonical /\ canonical[n] = written[n]
      BY <1>4, <2>1, <2>2
    <3>2. written[n] \in Known \cup {h} /\ Number(written[n]) = n
      BY <1>3, <2>1, <2>2 DEF WrittenAt, wrote, Known
    <3>3. n \in lo .. Number(h)
      BY DEF N
    <3> QED BY <3>1, <3>2, <3>3
  <2>3. CASE ~wrote(n)
    <3>1. n \in clo .. up /\ n \in DOMAIN canonical /\ canonical[n] = kept[n]
      BY <1>4, <1>5, <2>1, <2>3
    <3>2. Number(best_header_hash) \in lo .. hi
      BY DEF ChainOf, Tree, InTree, Known
    <3>3. n \in lo .. Number(best_header_hash) /\ n \in DOMAIN all_header_hashes
      BY <1>1, <1>2, <3>1, <3>2 DEF ChainOf, Tree
    <3>4. canonical[n] = canonical_header_hashes[n]
      BY <1>2, <3>1
    <3> QED BY <3>1, <3>3, <3>4 DEF ChainOf, Branch
  <2> QED BY <2>2, <2>3
<1>7. \A n \in 0 .. N - 1 : n \in DOMAIN canonical /\ n + 1 >= lo =>
        canonical[n + 1] # FirstHeader /\ canonical[n] = Parent(canonical[n + 1])
  <2> SUFFICES ASSUME NEW n \in 0 .. N - 1, n \in DOMAIN canonical, n + 1 >= lo
               PROVE  canonical[n + 1] # FirstHeader /\ canonical[n] = Parent(canonical[n + 1])
    OBVIOUS
  <2>1. n \in 0 .. N /\ n + 1 \in 0 .. N /\ n + 1 \in lo .. N /\ n >= lo - 1 /\ n < N
    BY <1>1
  <2>2. WrittenAt(n, h, kept, written, lo)
    BY <1>3, <2>1
  <2>3. CASE wrote(n)
    <3>1. wrote(n + 1) /\ written[n + 1] # FirstHeader /\ written[n] = Parent(written[n + 1])
      BY <2>1, <2>2, <2>3 DEF WrittenAt, wrote, N
    <3> QED BY <1>4, <2>1, <2>3, <3>1
  <2>4. CASE ~wrote(n)
    <3>1. n + 1 \in clo .. up /\ written[n + 1] \in {ZeroHash, kept[n + 1]}
      BY <1>2, <2>2, <2>4 DEF WrittenAt, wrote
    <3>2. canonical[n + 1] = kept[n + 1]
      BY <1>4, <2>1, <3>1 DEF wrote
    <3>3. n \in clo .. up
      BY <1>2, <2>1, <2>4 DEF wrote
    <3>4. /\ canonical[n] = canonical_header_hashes[n]
          /\ canonical[n + 1] = canonical_header_hashes[n + 1]
      BY <1>2, <1>4, <2>1, <2>4, <3>1, <3>2, <3>3
    <3>5. n \in clo .. Number(best_header_hash) - 1
      <4>1. Number(best_header_hash) \in lo .. hi
        BY DEF ChainOf, Tree, InTree, Known
      <4> QED BY <1>1, <1>2, <3>1, <3>3, <4>1
    <3> QED BY <2>1, <3>4, <3>5 DEF ChainOf, Branch
  <2> QED BY <2>3, <2>4
<1>8. canonical[N] = h /\ N \in 0 .. N
  <2>1. N \in 0 .. N /\ wrote(N)
    BY <1>1 DEF wrote
  <2> QED BY <1>1, <1>4, <2>1
<1>9. PICK low \in Nat : low <= clo /\ DOMAIN canonical = low .. N
  <2>1. DOMAIN canonical = (clo .. up) \cup {k \in 0 .. N : wrote(k)}
    BY <1>1, <1>2 DEF wrote
  <2>2. \A k \in 0 .. N : wrote(k) => k >= lo - 1
    BY <1>1, <1>3
  <2>3. \A k \in lo .. N : k \in (clo .. up) \cup {j \in 0 .. N : wrote(j)}
    BY <1>5
  <2>4. CASE lo - 1 \in 0 .. N /\ wrote(lo - 1) /\ clo = lo
    <3>1. DOMAIN canonical = lo - 1 .. N
      BY <1>1, <1>2, <2>1, <2>2, <2>3, <2>4
    <3> QED BY <1>1, <2>4, <3>1
  <2>5. CASE ~(lo - 1 \in 0 .. N /\ wrote(lo - 1) /\ clo = lo)
    <3>1. \A k \in 0 .. N : wrote(k) => k >= clo
      BY <1>1, <2>2, <2>5
    <3>2. \A k \in clo .. N : k \in lo .. N \/ k \in clo .. up
      BY <1>1, <1>2
    <3>3. DOMAIN canonical = clo .. N
      BY <1>1, <1>2, <2>1, <2>3, <3>1, <3>2
    <3> QED BY <1>1, <3>3
  <2> QED BY <2>4, <2>5
<1>10. Branch(h, canonical, all2, lo, low)
  <2>1. low <= lo /\ \A n \in low .. N - 1 : n \in 0 .. N - 1 /\ n \in low .. N
    BY <1>1, <1>9
  <2> QED BY <1>6, <1>7, <1>8, <1>9, <2>1 DEF Branch, N
<1> QED BY <1>9, <1>10

LEMMA HeaderAccepted ==
  ASSUME trusted_signer = NoSigner, NEW caller \in Callers, NEW h \in Headers, add_block_header(caller, h)
  PROVE  NewHeader(h, all_header_hashes, infos) /\ record_header(h)
BY DEF add_block_header, record_header, NewHeader, Known

(* What is recorded, before anything is collected.                         *)
RecordedTreeAs(h, lo, hi, all, known) ==
  /\ all = AllWith(h) /\ known = InfosWith(h)
  /\ Tree(all, known, lo, Higher(hi, Number(h)))
  /\ DOMAIN known = Known \cup {h} /\ h \notin Known
  /\ lo < Number(h) /\ h # FirstHeader
  /\ h \in all[Number(h)]
  /\ \A n \in DOMAIN all_header_hashes : all_header_hashes[n] \subseteq all[n]

LEMMA TreeRecorded ==
  ASSUME NEW lo, NEW hi, NEW clo, ChainOf(lo, hi, clo),
         NEW h \in Headers, NewHeader(h, all_header_hashes, infos)
  PROVE  \E all, known : RecordedTreeAs(h, lo, hi, all, known)
<1>1. PICK all : all = AllWith(h)
  OBVIOUS
<1>2. PICK known : known = InfosWith(h)
  OBVIOUS
<1>3. /\ DOMAIN all = DOMAIN all_header_hashes \cup {Number(h)}
      /\ \A n \in DOMAIN all :
           all[n] = (IF n \in DOMAIN all_header_hashes THEN all_header_hashes[n] ELSE {})
                      \cup (IF n = Number(h) THEN {h} ELSE {})
  BY <1>1 DEF AllWith
<1>4. /\ DOMAIN known = DOMAIN infos \cup {h}
      /\ \A x \in DOMAIN infos : x # h => known[x] = infos[x]
      /\ known[h] = [total_difficulty |-> infos[Parent(h)].total_difficulty + Difficulty(h),
                     parent_hash |-> Parent(h), number |-> Number(h)]
  BY <1>2 DEF InfosWith, InfoOf, Known
<1>5. /\ Tree(all, known, lo, Higher(hi, Number(h)))
      /\ h \notin DOMAIN infos /\ h # FirstHeader /\ lo < Number(h)
  BY <1>3, <1>4, RecordedTree DEF ChainOf
<1>6. h \in all[Number(h)] /\ \A n \in DOMAIN all_header_hashes : all_header_hashes[n] \subseteq all[n]
  BY <1>3
<1>7. RecordedTreeAs(h, lo, hi, all, known)
  BY <1>1, <1>2, <1>4, <1>5, <1>6 DEF RecordedTreeAs, Known
<1> QED BY <1>7

LEMMA KeepAsideKeepsChain ==
  ASSUME NEW lo, NEW hi, NEW clo, ChainOf(lo, hi, clo),
         NEW h \in Headers, NewHeader(h, all_header_hashes, infos), KeepAside(h)
  PROVE  ChainInv'
<1>1. PICK all, known : RecordedTreeAs(h, lo, hi, all, known)
  BY TreeRecorded
<1>2. /\ all_header_hashes' = all /\ infos' = known /\ best_header_hash' = best_header_hash
      /\ canonical_header_hashes' = canonical_header_hashes
  BY <1>1 DEF KeepAside, RecordedTreeAs
<1>3. Branch(best_header_hash, canonical_header_hashes, all, lo, clo)
  <2>1. \A n \in lo .. Number(best_header_hash) : n \in DOMAIN all_header_hashes
    <3>1. Number(best_header_hash) \in lo .. hi /\ lo \in Nat /\ hi \in Nat
      BY DEF ChainOf, Tree, InTree, Known
    <3> QED BY <3>1 DEF ChainOf, Tree
  <2> QED BY <1>1, <2>1 DEF ChainOf, Branch, RecordedTreeAs
<1>4. lo \in Nat /\ clo \in Nat /\ Higher(hi, Number(h)) \in Nat
  BY <1>1 DEF ChainOf, Branch, RecordedTreeAs, Tree
<1>5. ChainOf(lo, Higher(hi, Number(h)), clo)'
  BY <1>1, <1>2, <1>3 DEF ChainOf, RecordedTreeAs, Known
<1> QED BY <1>4, <1>5 DEF ChainInv

(* The chain after the collections.                                        *)
LEMMA CollectedBranch ==
  ASSUME NEW best, NEW canonical, NEW all, NEW lo \in Nat, NEW low \in Nat,
         Branch(best, canonical, all, lo, low), Number(best) \in Nat, lo <= Number(best),
         NEW m \in Int, NEW mc \in Int, mc <= m, m < Number(best),
         NEW all2, \A n \in Higher(lo, m + 1) .. Number(best) : all2[n] = all[n]
  PROVE  Branch(best, Without(canonical, GcRun(canonical, mc)), all2, Higher(lo, m + 1), Higher(low, mc + 1))
<1> DEFINE N == Number(best)
           lo2 == Higher(lo, m + 1)
           low2 == Higher(low, mc + 1)
<1>1. PICK c : c = Without(canonical, GcRun(canonical, mc))
  OBVIOUS
<1>2. low <= lo /\ DOMAIN canonical = low .. N
  BY DEF Branch
<1>3. DOMAIN c = low2 .. N /\ \A n \in low2 .. N : c[n] = canonical[n]
  BY <1>1, <1>2, WithoutLowest
<1>4. low2 \in Nat /\ lo2 \in Nat /\ low2 <= lo2 /\ low2 <= N /\ lo <= lo2 /\ low <= low2
  BY <1>2 DEF Higher
<1> HIDE DEF lo2, low2
<1>5. c[N] = best
  <2>1. N \in low2 .. N
    BY <1>4
  <2> HIDE DEF N
  <2> QED BY <1>3, <2>1 DEF Branch, N
<1>6. \A n \in lo2 .. N : c[n] \in all2[n]
  <2> TAKE n \in lo2 .. N
  <2>1. n \in lo .. N /\ n \in low2 .. N
    BY <1>4
  <2>2. all2[n] = all[n]
    BY DEF lo2
  <2> QED BY <1>3, <2>1, <2>2 DEF Branch
<1>7. \A n \in low2 .. N - 1 : n + 1 >= lo2 => c[n + 1] # FirstHeader /\ c[n] = Parent(c[n + 1])
  <2> SUFFICES ASSUME NEW n \in low2 .. N - 1, n + 1 >= lo2
               PROVE  c[n + 1] # FirstHeader /\ c[n] = Parent(c[n + 1])
    OBVIOUS
  <2>1. n \in low .. N - 1 /\ n \in low2 .. N /\ n + 1 \in low2 .. N /\ n + 1 >= lo
    BY <1>4
  <2> QED BY <1>3, <2>1 DEF Branch
<1> QED BY <1>1, <1>3, <1>4, <1>5, <1>6, <1>7 DEF Branch, lo2, low2

LEMMA AdoptKeepsChain ==
  ASSUME NEW lo, NEW hi, NEW clo, ChainOf(lo, hi, clo),
         NEW h \in Headers, NewHeader(h, all_header_hashes, infos), Adopt(h)
  PROVE  ChainInv'
<1> DEFINE N == Number(h)
           m == N - finalized_gc_threshold
           mc == N - hashes_gc_threshold
           top == Higher(hi, N)
<1>1. PICK all, known : RecordedTreeAs(h, lo, hi, all, known)
  BY TreeRecorded
<1>2. /\ lo \in Nat /\ hi \in Nat /\ N \in Nat /\ lo < N /\ m \in Int /\ mc \in Int /\ mc <= m
      /\ m < N /\ mc < N /\ N <= top /\ top \in Nat
  BY <1>1, ConstantsAre DEF RecordedTreeAs, ChainOf, Tree, Higher
<1>3. PICK kept : kept = Without(canonical_header_hashes, Stale(h))
  OBVIOUS
<1>4. PICK written : written = Rewritten(h, kept)
  OBVIOUS
<1>5. Rewrites(h, kept, written)
  <2>1. ASSUME NEW x \in Known \cup {h} PROVE ParentIn(h, x) \in Headers \cup {ZeroHash}
    <3>1. x = h => Parent(h) \in Headers
      BY DEF NewHeader, ChainOf, Tree, InTree
    <3>2. x # h => infos[x].parent_hash \in Headers \cup {ZeroHash}
      BY DEF ChainOf, Tree, InTree, Known
    <3> QED BY <3>1, <3>2 DEF ParentIn
  <2> QED BY <1>4, <2>1, RewrittenRec
<1>6. PICK canonical : canonical = NewCanonical(h)
  OBVIOUS
<1>7. /\ DOMAIN canonical = DOMAIN kept \cup {k \in DOMAIN written : written[k] # ZeroHash}
      /\ \A k \in DOMAIN canonical :
           canonical[k] = IF k \in {j \in DOMAIN written : written[j] # ZeroHash} THEN written[k] ELSE kept[k]
  BY <1>3, <1>4, <1>6 DEF NewCanonical
<1>8. PICK low \in Nat : low <= clo /\ Branch(h, canonical, all, lo, low)
  <2>1. \A n \in lo .. Number(h) : \A x \in Known : Number(x) = n => x \in all[n]
    BY <1>1 DEF RecordedTreeAs, Tree, InTree
  <2> QED BY <1>1, <1>3, <1>5, <1>7, <2>1, NewBranch DEF RecordedTreeAs
<1>9. PICK all2, known2 : Collected(all, known, m, all2, known2)
  BY DEF Collected
<1>10. PICK canonical2 : canonical2 = Without(canonical, GcRun(canonical, mc))
  OBVIOUS
<1>11. /\ all_header_hashes' = all2 /\ infos' = known2 /\ best_header_hash' = h
       /\ canonical_header_hashes' = canonical2
  BY <1>1, <1>6, <1>9, <1>10 DEF Adopt, GcHeight, RecordedTreeAs, Collected
<1>12. Tree(all, known, lo, top)
  BY <1>1 DEF RecordedTreeAs
<1> HIDE DEF N, m, mc, top
<1>13. m < top
  BY <1>2
<1>14. /\ Tree(all2, known2, Higher(lo, m + 1), top)
       /\ DOMAIN known2 = {x \in DOMAIN known : Number(x) >= Higher(lo, m + 1)}
       /\ Higher(lo, m + 1) \in Nat
       /\ \A n \in Higher(lo, m + 1) .. top : all2[n] = all[n]
  <2>1. CollectedAs(all, known, Higher(lo, m + 1), top, all2, known2)
    BY <1>2, <1>9, <1>12, <1>13, CollectedTree, Zenon
  <2> QED BY <2>1 DEF CollectedAs
<1>15. Branch(h, canonical2, all2, Higher(lo, m + 1), Higher(low, mc + 1))
  <2>1. \A n \in Higher(lo, m + 1) .. Number(h) : all2[n] = all[n]
    BY <1>2, <1>14 DEF N
  <2>2. Number(h) \in Nat /\ lo <= Number(h) /\ m < Number(h)
    BY <1>2 DEF N
  <2> QED BY <1>2, <1>8, <1>10, <2>1, <2>2, CollectedBranch
<1>16. /\ Higher(low, mc + 1) \in Nat
       /\ Higher(lo, m + 1) + finalized_gc_threshold > N
       /\ Higher(low, mc + 1) + hashes_gc_threshold > N
       /\ Higher(lo, m + 1) <= N
  BY <1>2, ConstantsAre DEF Higher, m, mc
<1>17. h \in DOMAIN known2
  BY <1>1, <1>14, <1>16 DEF RecordedTreeAs, N
<1>18. ChainOf(Higher(lo, m + 1), top, Higher(low, mc + 1))'
  BY <1>11, <1>14, <1>15, <1>16, <1>17 DEF ChainOf, Known, N
<1> QED BY <1>2, <1>14, <1>16, <1>18 DEF ChainInv

LEMMA NextChain ==
  ASSUME trusted_signer = NoSigner
  PROVE  ChainInv /\ [Next]_vars => ChainInv'
<1>1. ASSUME NEW lo, NEW hi, NEW clo, ChainOf(lo, hi, clo), NEW caller \in Callers, NEW h \in Headers,
             add_block_header(caller, h)
      PROVE  ChainInv'
  <2>1. NewHeader(h, all_header_hashes, infos) /\ record_header(h)
    BY <1>1, HeaderAccepted
  <2> QED BY <1>1, <2>1, KeepAsideKeepsChain, AdoptKeepsChain DEF record_header
<1>2. ASSUME ChainInv, UNCHANGED vars PROVE ChainInv'
  BY <1>2 DEF vars, ChainInv, ChainOf, Known
<1> QED BY <1>1, <1>2 DEF Next, ChainInv

(* Garbage collection bounds the storage, and the best header stays known. *)
(* With a trusted signer, whose headers are not verified, the heights      *)
(* could have gaps, at which the collecting loops end.                     *)
THEOREM StorageStaysBounded ==
  ASSUME trusted_signer = NoSigner
  PROVE  Spec => []StorageIsBounded
<1>1. ChainInv => StorageIsBounded
  <2> SUFFICES ASSUME NEW lo \in Nat, NEW hi \in Nat, NEW clo \in Nat, ChainOf(lo, hi, clo)
               PROVE  StorageIsBounded
    BY DEF ChainInv
  <2> DEFINE last == Number(best_header_hash)
  <2>1. best_header_hash \in Known /\ last_block_number = last /\ last \in Nat
    BY DEF ChainOf, Tree, InTree, Known, last_block_number
  <2>2. \A h \in Known : infos[h].number \in Nat /\ infos[h].number >= lo
    BY DEF ChainOf, Tree, InTree, Known
  <2>3. /\ lo + finalized_gc_threshold > last /\ clo + hashes_gc_threshold > last
        /\ DOMAIN canonical_header_hashes = clo .. last
    BY DEF ChainOf, Branch
  <2>4. finalized_gc_threshold \in Nat /\ hashes_gc_threshold \in Nat
    BY ConstantsAre
  <2> HIDE DEF last
  <2>5. \A h \in Known : infos[h].number + finalized_gc_threshold > last
    BY <2>1, <2>2, <2>3, <2>4
  <2>6. \A n \in clo .. last : n + hashes_gc_threshold > last
    BY <2>1, <2>3, <2>4
  <2> QED BY <2>1, <2>3, <2>5, <2>6 DEF StorageIsBounded
<1> QED BY <1>1, InitChain, NextChain, PTL DEF Spec

-----------------------------------------------------------------------------
(* The best branch.                                                        *)

Above(x) == IF x \in Headers \ {FirstHeader} THEN Parent(x) ELSE ZeroHash

AncestorStep(h, up) ==
  [k \in 0 .. Number(h) |-> IF k = Number(h) THEN h ELSE Above(up[k + 1])]

LEMMA AncestorAtIs ==
  ASSUME NEW h, NEW n
  PROVE  AncestorAt(h, n) = (CHOOSE up : up = AncestorStep(h, up))[n]
BY Zenon DEF AncestorAt, AncestorStep, Above

LEMMA AncestorRec ==
  ASSUME NEW h \in Headers
  PROVE  /\ AncestorAt(h, Number(h)) = h
         /\ \A k \in 0 .. Number(h) - 1 : AncestorAt(h, k) = Above(AncestorAt(h, k + 1))
<1> DEFINE V == Headers \cup {ZeroHash}
           n == Number(h)
           next == [k \in 0 .. n |-> [x \in V |-> Above(x)]]
<1>1. n \in Nat
  BY ConstantsAre
<1>2. \A x \in V : Above(x) \in V
  BY Zenon, EthClientAssumption DEF Above
<1>3. next \in [0 .. n -> [V -> V]] /\ h \in V
  BY <1>2
<1>4. PICK f \in [0 .. n -> V] : f = Down(h, n, 0, next, f)
  <2> HIDE DEF V, n, next
  <2> QED BY <1>1, <1>3, DownExists
<1>5. f = AncestorStep(h, f)
  <2>1. \A k \in 0 .. n : k # n => next[k + 1][f[k + 1]] = Above(f[k + 1])
    <3> TAKE k \in 0 .. n
    <3>1. k # n => k + 1 \in 0 .. n /\ f[k + 1] \in V
      BY <1>1
    <3> HIDE DEF n, V
    <3> QED BY <3>1
  <2> HIDE DEF next, V
  <2> QED BY <1>4, <2>1 DEF Down, AncestorStep
<1> DEFINE A == CHOOSE up : up = AncestorStep(h, up)
<1>6. A = AncestorStep(h, A)
  BY <1>5
<1>7. \A k : AncestorAt(h, k) = A[k]
  BY AncestorAtIs, Zenon
<1> HIDE DEF A
<1>8. \A k \in 0 .. n : A[k] = IF k = n THEN h ELSE Above(A[k + 1])
  BY <1>6 DEF AncestorStep
<1>9. n \in 0 .. n /\ \A k \in 0 .. n - 1 : k \in 0 .. n /\ k # n
  BY <1>1
<1> HIDE DEF n
<1>10. AncestorAt(h, n) = h /\ \A k \in 0 .. n - 1 : AncestorAt(h, k) = Above(AncestorAt(h, k + 1))
  BY <1>7, <1>8, <1>9
<1> QED BY <1>10 DEF n

(* As far as headers are known, and one below, the canonical hashes are    *)
(* the best header's ancestors.                                            *)
LEMMA CanonicalIsAncestor ==
  ASSUME NEW lo, NEW hi, NEW clo, ChainOf(lo, hi, clo),
         NEW n \in clo .. Number(best_header_hash), n >= lo - 1
  PROVE  canonical_header_hashes[n] = AncestorAt(best_header_hash, n)
<1> DEFINE b == best_header_hash
           N == Number(best_header_hash)
           Bad == {k \in clo .. N : k >= lo - 1 /\ canonical_header_hashes[k] # AncestorAt(b, k)}
<1>1. b \in Headers /\ N \in Nat /\ lo \in Nat /\ clo \in Nat
  BY ConstantsAre DEF ChainOf, Tree, InTree, Known, Branch
<1>2. /\ AncestorAt(b, N) = b
      /\ \A k \in 0 .. N - 1 : AncestorAt(b, k) = Above(AncestorAt(b, k + 1))
  BY <1>1, AncestorRec
<1>3. /\ canonical_header_hashes[N] = b
      /\ \A k \in lo .. N : canonical_header_hashes[k] \in Headers
      /\ \A k \in clo .. N - 1 : k + 1 >= lo =>
           /\ canonical_header_hashes[k + 1] # FirstHeader
           /\ canonical_header_hashes[k] = Parent(canonical_header_hashes[k + 1])
  <2>1. \A k \in lo .. N : canonical_header_hashes[k] \in all_header_hashes[k] /\ k \in lo .. hi
    BY <1>1 DEF ChainOf, Branch, Tree, InTree, Known
  <2>2. \A k \in lo .. hi : \A x \in all_header_hashes[k] : x \in Headers
    BY DEF ChainOf, Tree, InTree
  <2> QED BY <2>1, <2>2 DEF ChainOf, Branch
<1>4. ASSUME Bad # {} PROVE FALSE
  <2>1. PICK k \in Bad : \A j \in Bad : j <= k
    <3>1. Bad \in SUBSET (0 .. N)
      BY <1>1
    <3> HIDE DEF Bad
    <3> QED BY <1>1, <1>4, <3>1, GreatestUpTo
  <2>2. k \in clo .. N /\ k >= lo - 1 /\ canonical_header_hashes[k] # AncestorAt(b, k)
    OBVIOUS
  <2>3. k # N
    BY <1>2, <1>3, <2>2
  <2> HIDE DEF b, N
  <2>4. k \in clo .. N - 1 /\ k \in 0 .. N - 1 /\ k + 1 \in clo .. N /\ k + 1 \in lo .. N /\ k + 1 > k
    BY <1>1, <2>2, <2>3
  <2>5. canonical_header_hashes[k + 1] = AncestorAt(b, k + 1)
    <3>1. k + 1 \notin Bad
      <4> HIDE DEF Bad
      <4> QED BY <1>1, <2>1, <2>2, <2>4
    <3> QED BY <1>1, <2>4, <3>1
  <2>6. AncestorAt(b, k) = Above(canonical_header_hashes[k + 1])
    BY <1>2, <2>4, <2>5
  <2>7. AncestorAt(b, k) = Parent(canonical_header_hashes[k + 1])
    BY <1>1, <1>3, <2>4, <2>6 DEF Above
  <2> QED BY <1>1, <1>3, <2>2, <2>4, <2>7
<1> QED BY <1>4

LEMMA ChainIsCanonical ==
  ASSUME NEW lo, NEW hi, NEW clo, ChainOf(lo, hi, clo)
  PROVE  CanonicalIsBestBranch
<1> DEFINE N == Number(best_header_hash)
<1>1. /\ last_block_number = N /\ N \in Nat /\ lo \in Nat /\ clo \in Nat /\ clo <= lo
      /\ DOMAIN all_header_hashes = lo .. hi /\ DOMAIN canonical_header_hashes = clo .. N
  BY ConstantsAre DEF ChainOf, Tree, InTree, Known, Branch, last_block_number
<1>2. ASSUME NEW n \in lo .. hi, n <= N
      PROVE  block_hash(n) = AncestorAt(best_header_hash, n)
  <2>1. n \in clo .. N /\ n >= lo - 1
    BY <1>1, <1>2
  <2> QED BY <1>1, <2>1, CanonicalIsAncestor DEF block_hash
<1> QED BY <1>1, <1>2 DEF CanonicalIsBestBranch

(* The headers of the best branch are as many as its heights.              *)
LEMMA BranchCount ==
  ASSUME NEW lo, NEW hi, NEW clo, ChainOf(lo, hi, clo),
         NEW n \in Nat, n + 1 >= lo, n <= Number(best_header_hash)
  PROVE  Cardinality({AncestorAt(best_header_hash, k) : k \in n + 1 .. Number(best_header_hash)})
           = Number(best_header_hash) - n
<1> DEFINE N == Number(best_header_hash)
           S == n + 1 .. N
           f == [k \in S |-> AncestorAt(best_header_hash, k)]
           T == {AncestorAt(best_header_hash, k) : k \in S}
<1>1. N \in Nat /\ lo \in Nat /\ clo <= lo /\ clo \in Nat
  BY ConstantsAre DEF ChainOf, Tree, InTree, Known, Branch
<1>2. \A k \in S : Number(f[k]) = k
  <2> TAKE k \in S
  <2>1. k \in clo .. N /\ k >= lo - 1 /\ k \in lo .. N
    BY <1>1
  <2>2. canonical_header_hashes[k] = f[k]
    BY <2>1, CanonicalIsAncestor
  <2>3. k \in lo .. hi
    BY <1>1, <2>1 DEF ChainOf, Tree, InTree, Known
  <2> HIDE DEF f
  <2> QED BY <2>1, <2>2, <2>3 DEF ChainOf, Tree, Branch
<1>3. f \in Bijection(S, T)
  <2>1. f \in [S -> T] /\ \A t \in T : \E k \in S : f[k] = t
    OBVIOUS
  <2> HIDE DEF f, T, S
  <2>2. \A j, k \in S : f[j] = f[k] => j = k
    BY <1>2
  <2> QED BY <2>1, <2>2 DEF Bijection, Injection, IsInjective, Surjection
<1>4. IsFiniteSet(S) /\ Cardinality(S) = N - n
  <2>1. n + 1 \in Int /\ N \in Int /\ n <= N
    BY <1>1
  <2> HIDE DEF N
  <2>2. IsFiniteSet(n + 1 .. N) /\ Cardinality(n + 1 .. N) = IF n + 1 > N THEN 0 ELSE N - (n + 1) + 1
    BY <2>1, FS_Interval, Zenon
  <2> QED BY <2>1, <2>2
<1>5. Cardinality(T) = Cardinality(S)
  <2> HIDE DEF f, T, S
  <2> QED BY <1>3, <1>4, FS_Bijection DEF ExistsBijection
<1> QED BY <1>4, <1>5

LEMMA ChainIsBuried ==
  ASSUME NEW lo, NEW hi, NEW clo, ChainOf(lo, hi, clo)
  PROVE  SafeHashIsBuried
<1> DEFINE N == Number(best_header_hash)
<1>1. /\ last_block_number = N /\ N \in Nat /\ lo \in Nat /\ clo \in Nat /\ clo <= lo
      /\ DOMAIN all_header_hashes = lo .. hi /\ DOMAIN canonical_header_hashes = clo .. N
      /\ num_confirmations \in Nat
  BY ConstantsAre DEF ChainOf, Tree, InTree, Known, Branch, last_block_number
<1> SUFFICES ASSUME NEW n \in clo .. N, block_hash_safe(n) # ZeroHash,
                    {n, n + 1} \cap (lo .. hi) # {}
             PROVE  /\ block_hash_safe(n) = AncestorAt(best_header_hash, n)
                    /\ Cardinality({AncestorAt(best_header_hash, k) : k \in n + 1 .. N}) >= num_confirmations
  BY <1>1, Zenon DEF SafeHashIsBuried
<1>2. n \in Nat /\ n <= N /\ n >= lo - 1 /\ n + 1 >= lo
  BY <1>1
<1>3. n + num_confirmations <= N /\ block_hash_safe(n) = canonical_header_hashes[n]
  BY <1>1, <1>2 DEF block_hash_safe, block_hash
<1>4. block_hash_safe(n) = AncestorAt(best_header_hash, n)
  BY <1>2, <1>3, CanonicalIsAncestor
<1>5. Cardinality({AncestorAt(best_header_hash, k) : k \in n + 1 .. N}) = N - n
  BY <1>2, BranchCount
<1>6. N - n >= num_confirmations
  BY <1>1, <1>2, <1>3
<1> QED BY <1>4, <1>5, <1>6

(* After any fork switches and collections, what is answered for a height  *)
(* whose headers are known is the best header's ancestor.                  *)
THEOREM AnswersAreTheBestBranch ==
  ASSUME trusted_signer = NoSigner
  PROVE  Spec => []CanonicalIsBestBranch
<1>1. ChainInv => CanonicalIsBestBranch
  BY ChainIsCanonical DEF ChainInv
<1> QED BY <1>1, InitChain, NextChain, PTL DEF Spec

(* A hash answered as safe is on the best branch, with num_confirmations   *)
(* headers above it.                                                       *)
THEOREM SafeAnswersAreBuried ==
  ASSUME trusted_signer = NoSigner
  PROVE  Spec => []SafeHashIsBuried
<1>1. ChainInv => SafeHashIsBuried
  BY ChainIsBuried DEF ChainInv
<1> QED BY <1>1, InitChain, NextChain, PTL DEF Spec
=============================================================================
