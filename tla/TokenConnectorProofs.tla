------------------------ MODULE TokenConnectorProofs ------------------------
(***************************************************************************)
(* Proofs about the token connector, for any users, amounts and number of  *)
(* transfers.                                                              *)
(***************************************************************************)
EXTENDS TokenConnector, FiniteSetTheorems, FunctionTheorems, WellFoundedInduction, TLAPS

(* Sums over finite sets.  A sum of natural numbers counts its units: the  *)
(* pairs of an element and a number below the element's summand.           *)
Units(g, S) == {p \in S \X Nat : p[2] < g[p[1]]}

Sum(g, S) == Cardinality(Units(g, S))

NatOn(g, S) == \A x \in S : g[x] \in Nat

LEMMA UnitsOfOne ==
  ASSUME NEW g, NEW x, g[x] \in Nat
  PROVE  IsFiniteSet(Units(g, {x})) /\ Cardinality(Units(g, {x})) = g[x]
<1>1. Units(g, {x}) = {x} \X (0 .. g[x] - 1)
  BY DEF Units
<1>2. IsFiniteSet(0 .. g[x] - 1) /\ Cardinality(0 .. g[x] - 1) = g[x]
  BY FS_Interval
<1>3. IsFiniteSet({x}) /\ Cardinality({x}) = 1
  BY FS_Singleton
<1>4. /\ IsFiniteSet({x} \X (0 .. g[x] - 1))
      /\ Cardinality({x} \X (0 .. g[x] - 1)) = Cardinality({x}) * Cardinality(0 .. g[x] - 1)
  BY <1>2, <1>3, FS_Product, Zenon
<1>5. 1 * g[x] = g[x]
  OBVIOUS
<1> QED BY <1>1, <1>2, <1>3, <1>4, <1>5, Zenon

LEMMA UnitsOfUnion ==
  ASSUME NEW g, NEW S, NEW T, S \cap T = {}
  PROVE  Units(g, S \cup T) = Units(g, S) \cup Units(g, T) /\ Units(g, S) \cap Units(g, T) = {}
BY DEF Units

(* A family of subsets of a finite set has one none of whose elements can  *)
(* be taken away.                                                          *)
LEMMA SmallestSubset ==
  ASSUME NEW S, IsFiniteSet(S), NEW B \in SUBSET (SUBSET S), B # {}
  PROVE  \E s \in B : \A x \in s : s \ {x} \notin B
<1>1. IsWellFoundedOn(StrictSubsetOrdering(S), FiniteSubsetsOf(S)) /\ FiniteSubsetsOf(S) = SUBSET S
  BY FS_StrictSubsetOrderingWellFounded, FS_FiniteSubsetsOfFinite
<1>2. PICK s \in B : \A t \in B : ~(<<t, s>> \in StrictSubsetOrdering(S))
  BY <1>1, WFMin
<1>3. ASSUME NEW x \in s, s \ {x} \in B PROVE FALSE
  <2>1. <<s \ {x}, s>> \in StrictSubsetOrdering(S)
    BY <1>3 DEF StrictSubsetOrdering
  <2> QED BY <1>2, <1>3, <2>1
<1> QED BY <1>2, <1>3

LEMMA UnitsFinite ==
  ASSUME NEW g, NEW S, IsFiniteSet(S), NatOn(g, S)
  PROVE  IsFiniteSet(Units(g, S)) /\ Sum(g, S) \in Nat
<1> DEFINE B == {s \in SUBSET S : ~IsFiniteSet(Units(g, s))}
<1>1. ASSUME B # {} PROVE FALSE
  <2>1. PICK s \in B : \A x \in s : s \ {x} \notin B
    <3>1. B \in SUBSET (SUBSET S)
      OBVIOUS
    <3> HIDE DEF B
    <3> QED BY <1>1, <3>1, SmallestSubset
  <2>2. s \in SUBSET S /\ ~IsFiniteSet(Units(g, s))
    OBVIOUS
  <2>3. s # {}
    <3>1. Units(g, {}) = {}
      BY DEF Units
    <3> QED BY <2>2, <3>1, FS_EmptySet
  <2>4. PICK x : x \in s
    BY <2>3
  <2>5. IsFiniteSet(Units(g, s \ {x}))
    BY <2>1, <2>2, <2>4
  <2>6. IsFiniteSet(Units(g, {x}))
    BY <2>2, <2>4, UnitsOfOne DEF NatOn
  <2>7. s = (s \ {x}) \cup {x} /\ (s \ {x}) \cap {x} = {}
    BY <2>4
  <2>8. Units(g, s) = Units(g, s \ {x}) \cup Units(g, {x})
    BY <2>7, UnitsOfUnion
  <2> QED BY <2>2, <2>5, <2>6, <2>8, FS_Union
<1>2. IsFiniteSet(Units(g, S))
  BY <1>1
<1> QED BY <1>2, FS_CardinalityType DEF Sum

LEMMA SumUnion ==
  ASSUME NEW g, NEW S, NEW T, IsFiniteSet(S), IsFiniteSet(T), NatOn(g, S), NatOn(g, T), S \cap T = {}
  PROVE  Sum(g, S \cup T) = Sum(g, S) + Sum(g, T)
<1>1. IsFiniteSet(Units(g, S)) /\ IsFiniteSet(Units(g, T)) /\ Sum(g, S) \in Nat /\ Sum(g, T) \in Nat
  BY UnitsFinite
<1>2. Units(g, S \cup T) = Units(g, S) \cup Units(g, T) /\ Units(g, S) \cap Units(g, T) = {}
  BY UnitsOfUnion
<1>3. Cardinality({}) = 0
  BY FS_EmptySet
<1>4. Cardinality(Units(g, S) \cup Units(g, T))
        = Cardinality(Units(g, S)) + Cardinality(Units(g, T)) - Cardinality(Units(g, S) \cap Units(g, T))
  BY <1>1, FS_Union, Zenon
<1>5. Sum(g, S \cup T) = Sum(g, S) + Sum(g, T) - 0
  BY <1>2, <1>3, <1>4, Zenon DEF Sum
<1> QED BY <1>1, <1>5

LEMMA SumEmpty == ASSUME NEW g PROVE Sum(g, {}) = 0
<1>1. Units(g, {}) = {}
  BY DEF Units
<1> QED BY <1>1, FS_EmptySet DEF Sum

LEMMA SumAdd ==
  ASSUME NEW g, NEW S, NEW x, IsFiniteSet(S), NatOn(g, S), g[x] \in Nat, x \notin S
  PROVE  Sum(g, S \cup {x}) = Sum(g, S) + g[x]
<1>1. IsFiniteSet({x}) /\ S \cap {x} = {} /\ NatOn(g, {x})
  BY FS_Singleton DEF NatOn
<1>2. Sum(g, {x}) = g[x]
  BY UnitsOfOne DEF Sum
<1> QED BY <1>1, <1>2, SumUnion

LEMMA SumRemove ==
  ASSUME NEW g, NEW S, NEW x \in S, IsFiniteSet(S), NatOn(g, S)
  PROVE  Sum(g, S) = Sum(g, S \ {x}) + g[x] /\ Sum(g, S \ {x}) \in Nat /\ g[x] <= Sum(g, S)
<1>1. IsFiniteSet(S \ {x}) /\ NatOn(g, S \ {x}) /\ g[x] \in Nat /\ S = (S \ {x}) \cup {x}
  BY FS_RemoveElement DEF NatOn
<1>2. Sum(g, S \ {x}) \in Nat
  BY <1>1, UnitsFinite
<1>3. Sum(g, (S \ {x}) \cup {x}) = Sum(g, S \ {x}) + g[x]
  <2> DEFINE R == S \ {x}
  <2>1. x \notin R
    OBVIOUS
  <2> HIDE DEF R
  <2> QED BY <1>1, <2>1, SumAdd DEF R
<1>4. Sum(g, S) = Sum(g, S \ {x}) + g[x]
  BY <1>1, <1>3
<1> QED BY <1>1, <1>2, <1>4

LEMMA SumSame ==
  ASSUME NEW f, NEW g, NEW S, \A x \in S : f[x] = g[x]
  PROVE  Sum(f, S) = Sum(g, S)
<1>1. Units(f, S) = Units(g, S)
  BY DEF Units
<1> QED BY <1>1 DEF Sum

LEMMA SumChange ==
  ASSUME NEW f, NEW g, NEW S, NEW x \in S, IsFiniteSet(S), NatOn(f, S), NatOn(g, S),
         \A y \in S \ {x} : f[y] = g[y]
  PROVE  Sum(f, S) = Sum(g, S) - g[x] + f[x]
<1>1. Sum(f, S \ {x}) = Sum(g, S \ {x})
  BY SumSame
<1>2. f[x] \in Nat /\ g[x] \in Nat
  BY DEF NatOn
<1>3. Sum(f, S) = Sum(f, S \ {x}) + f[x]
  BY SumRemove
<1>4. Sum(g, S) = Sum(g, S \ {x}) + g[x] /\ Sum(g, S \ {x}) \in Nat
  BY SumRemove
<1> QED BY <1>1, <1>2, <1>3, <1>4

(* What a sum over a set computes, by taking the elements one by one.      *)
SumStep(g, S, sum) ==
  [s \in SUBSET S |->
     IF s = {} THEN 0 ELSE g[CHOOSE x \in s : TRUE] + sum[s \ {CHOOSE x \in s : TRUE}]]

LEMMA SumStepExists ==
  ASSUME NEW g, NEW S, IsFiniteSet(S), NatOn(g, S)
  PROVE  \E sum : sum = SumStep(g, S, sum)
<1> DEFINE sum == [s \in SUBSET S |-> Sum(g, s)]
<1>1. ASSUME NEW s \in SUBSET S, s # {}, NEW x, x = CHOOSE y \in s : TRUE
      PROVE  sum[s] = g[x] + sum[s \ {x}]
  <2>1. x \in s
    BY <1>1
  <2>2. IsFiniteSet(s) /\ NatOn(g, s) /\ g[x] \in Nat
    BY <2>1, FS_Subset DEF NatOn
  <2>3. Sum(g, s) = Sum(g, s \ {x}) + g[x] /\ Sum(g, s \ {x}) \in Nat
    BY <2>1, <2>2, SumRemove
  <2> QED BY <2>2, <2>3
<1>2. sum[{}] = 0
  BY SumEmpty
<1>3. sum = [s \in SUBSET S |-> sum[s]]
  OBVIOUS
<1> HIDE DEF sum
<1>4. sum = SumStep(g, S, sum)
  BY <1>1, <1>2, <1>3 DEF SumStep
<1> QED BY <1>4

LEMMA SumStepIs ==
  ASSUME NEW g, NEW S, IsFiniteSet(S), NatOn(g, S), NEW sum, sum = SumStep(g, S, sum)
  PROVE  sum[S] = Sum(g, S)
<1> DEFINE B == {s \in SUBSET S : sum[s] # Sum(g, s)}
<1>1. ASSUME B # {} PROVE FALSE
  <2>1. PICK s \in B : \A x \in s : s \ {x} \notin B
    <3>1. B \in SUBSET (SUBSET S)
      OBVIOUS
    <3> HIDE DEF B
    <3> QED BY <1>1, <3>1, SmallestSubset
  <2>2. s \in SUBSET S /\ sum[s] # Sum(g, s)
    OBVIOUS
  <2>3. s # {}
    BY <2>2, SumEmpty DEF SumStep
  <2>4. PICK x : x = CHOOSE y \in s : TRUE
    OBVIOUS
  <2>5. x \in s
    BY <2>3, <2>4
  <2>6. sum[s] = g[x] + sum[s \ {x}]
    BY <2>2, <2>3, <2>4 DEF SumStep
  <2>7. sum[s \ {x}] = Sum(g, s \ {x})
    BY <2>1, <2>2, <2>5
  <2>8. IsFiniteSet(s) /\ NatOn(g, s) /\ g[x] \in Nat
    BY <2>2, <2>5, FS_Subset DEF NatOn
  <2>9. Sum(g, s) = Sum(g, s \ {x}) + g[x] /\ Sum(g, s \ {x}) \in Nat
    BY <2>5, <2>8, SumRemove
  <2> QED BY <2>2, <2>6, <2>7, <2>8, <2>9
<1> QED BY <1>1

-----------------------------------------------------------------------------
AmountsOf(log) == [i \in DOMAIN log |-> log[i].amount]

LEMMA AmountIs ==
  ASSUME NEW log, NEW S \in SUBSET DOMAIN log, IsFiniteSet(S), NatOn(AmountsOf(log), S)
  PROVE  Amount(log, S) = Sum(AmountsOf(log), S)
<1> DEFINE Step(f) == [s \in SUBSET S |->
                         IF s = {} THEN 0
                         ELSE log[CHOOSE x \in s : TRUE].amount + f[s \ {CHOOSE x \in s : TRUE}]]
           sum == CHOOSE f : f = Step(f)
<1>1. Amount(log, S) = sum[S]
  BY Zenon DEF Amount, MapThenSumSet, MapThenFoldSet
<1>2. ASSUME NEW f PROVE Step(f) = SumStep(AmountsOf(log), S, f)
  <2>1. ASSUME NEW s \in SUBSET S, s # {}
        PROVE  log[CHOOSE x \in s : TRUE].amount = AmountsOf(log)[CHOOSE x \in s : TRUE]
    BY <2>1 DEF AmountsOf
  <2> QED BY <2>1 DEF SumStep
<1>3. PICK f : f = SumStep(AmountsOf(log), S, f)
  BY SumStepExists
<1>4. sum = Step(sum)
  BY <1>2, <1>3
<1>5. sum = SumStep(AmountsOf(log), S, sum)
  <2> HIDE DEF sum
  <2> QED BY <1>2, <1>4
<1> HIDE DEF sum
<1> QED BY <1>1, <1>5, SumStepIs

-----------------------------------------------------------------------------
(* The logs: what claims, receipts and used receipts say of each other.    *)
Events == [asset : Assets, amount : Nat, recipient : Users \cup {BadAddress}]

Receipts == {"called", "success", "failed", "transferred", "refused", "lost"}

Calls == [asset : Assets, sender : Users, amount : Nat,
          recipient : Users \cup {BadAddress}, receipt : Receipts]

EventsTyped ==
  /\ ethLog \in Seq(Events) /\ used_events \subseteq DOMAIN ethLog
  /\ \A e \in used_events : /\ claim[e] = "mint" => ethLog[e].asset = "erc20"
                            /\ claim[e] = "transfer" => ethLog[e].asset = "nep21"

CallsTyped ==
  /\ tezLog \in Seq(Calls) /\ provable \subseteq DOMAIN tezLog
  /\ \A r \in DOMAIN tezLog :
       /\ tezLog[r].receipt \in {"transferred", "refused"} => tezLog[r].asset = "nep21"
       /\ tezLog[r].recipient = BadAddress =>
            tezLog[r].asset = "erc20" /\ tezLog[r].receipt \in {"called", "failed"}
  /\ DOMAIN usedEvents_ \subseteq DOMAIN tezLog
  /\ \A r \in DOMAIN usedEvents_ : tezLog[r].receipt = "success"

BalancesTyped ==
  eth \in [Assets -> [Accounts -> Nat]] /\ tez \in [Assets -> [Accounts -> Nat]]

(* The amounts of an asset on their way to its image, and back.            *)
OnTheWay(x) ==
  {e \in DOMAIN ethLog : ethLog[e].asset = x /\ (e \in used_events => claim[e] # "done")}

OnTheWayBack(x) ==
  {r \in DOMAIN tezLog :
     /\ tezLog[r].asset = x
     /\ x = "nep21" => tezLog[r].receipt \in {"transferred", "success", "lost"}
     /\ r \in DOMAIN usedEvents_ => usedEvents_[r] # Release[x]}

Forth(x) == Sum(AmountsOf(ethLog), OnTheWay(x))
Back(x) == Sum(AmountsOf(tezLog), OnTheWayBack(x))

Balanced ==
  /\ eth["erc20"][Connector] = Sum(tez["erc20"], Users) + Forth("erc20") + Back("erc20")
  /\ tez["nep21"][Connector] = Sum(eth["nep21"], Users) + Forth("nep21") + Back("nep21")

ConnectorInv == EventsTyped /\ CallsTyped /\ BalancesTyped /\ Balanced

LEMMA ConstantsAre ==
  Connector \notin Users /\ BadAddress \notin Users /\ IsFiniteSet(Users) /\ Supply \in Nat
  /\ Amounts \subseteq Nat
BY ConnectorAssumption

LEMMA LogSums ==
  ASSUME NEW log, NEW R, log \in Seq(R), \A l \in R : l.amount \in Nat, NEW S \in SUBSET DOMAIN log
  PROVE  IsFiniteSet(S) /\ NatOn(AmountsOf(log), S)
<1>1. DOMAIN log = 1 .. Len(log) /\ Len(log) \in Nat /\ \A i \in DOMAIN log : log[i] \in R
  OBVIOUS
<1>2. IsFiniteSet(DOMAIN log)
  BY <1>1, FS_Interval
<1>3. IsFiniteSet(S)
  BY <1>2, FS_Subset
<1>4. NatOn(AmountsOf(log), S)
  BY <1>1 DEF NatOn, AmountsOf
<1> QED BY <1>3, <1>4

LEMMA ForthIs ==
  ASSUME EventsTyped
  PROVE  \A S \in SUBSET DOMAIN ethLog : IsFiniteSet(S) /\ NatOn(AmountsOf(ethLog), S)
<1>1. \A l \in Events : l.amount \in Nat
  BY DEF Events
<1> QED BY <1>1, LogSums DEF EventsTyped

LEMMA BackIs ==
  ASSUME CallsTyped
  PROVE  \A S \in SUBSET DOMAIN tezLog : IsFiniteSet(S) /\ NatOn(AmountsOf(tezLog), S)
<1>1. \A l \in Calls : l.amount \in Nat
  BY DEF Calls
<1> QED BY <1>1, LogSums DEF CallsTyped

LEMMA SumsAreNat ==
  ASSUME EventsTyped, CallsTyped, BalancesTyped, NEW x
  PROVE  /\ Forth(x) \in Nat /\ Back(x) \in Nat
         /\ Sum(tez["erc20"], Users) \in Nat /\ Sum(eth["nep21"], Users) \in Nat
         /\ NatOn(tez["erc20"], Users) /\ NatOn(eth["nep21"], Users)
<1>1. OnTheWay(x) \in SUBSET DOMAIN ethLog /\ OnTheWayBack(x) \in SUBSET DOMAIN tezLog
  BY DEF OnTheWay, OnTheWayBack
<1>2. Forth(x) \in Nat /\ Back(x) \in Nat
  BY <1>1, ForthIs, BackIs, UnitsFinite DEF Forth, Back
<1>3. NatOn(tez["erc20"], Users) /\ NatOn(eth["nep21"], Users)
  BY DEF BalancesTyped, NatOn, Assets, Accounts
<1> QED BY <1>2, <1>3, ConstantsAre, UnitsFinite

LEMMA ImageIs ==
  ASSUME NatOn(tez["erc20"], Users), NatOn(eth["nep21"], Users)
  PROVE  Image("erc20") = Sum(tez["erc20"], Users) /\ Image("nep21") = Sum(eth["nep21"], Users)
<1>1. ASSUME NEW x \in Assets, NEW g, g = [u \in Users |-> IF x = "erc20" THEN tez[x][u] ELSE eth[x][u]],
             NatOn(g, Users)
      PROVE  Image(x) = Sum(g, Users)
  <2> DEFINE Step(f) == [s \in SUBSET Users |->
                           IF s = {} THEN 0
                           ELSE (IF x = "erc20" THEN tez[x][CHOOSE u \in s : TRUE]
                                                ELSE eth[x][CHOOSE u \in s : TRUE])
                                  + f[s \ {CHOOSE u \in s : TRUE}]]
             sum == CHOOSE f : f = Step(f)
  <2>1. Image(x) = sum[Users]
    BY Zenon DEF Image, MapThenSumSet, MapThenFoldSet
  <2>2. ASSUME NEW f PROVE Step(f) = SumStep(g, Users, f)
    <3>1. ASSUME NEW s \in SUBSET Users, s # {}
          PROVE  g[CHOOSE u \in s : TRUE] = IF x = "erc20" THEN tez[x][CHOOSE u \in s : TRUE]
                                                           ELSE eth[x][CHOOSE u \in s : TRUE]
      BY <1>1, <3>1
    <3> QED BY <3>1 DEF SumStep
  <2>3. PICK f : f = SumStep(g, Users, f)
    BY <1>1, ConstantsAre, SumStepExists
  <2>4. sum = Step(sum)
    BY <2>2, <2>3
  <2>5. sum = SumStep(g, Users, sum)
    <3> HIDE DEF sum
    <3> QED BY <2>2, <2>4
  <2> HIDE DEF sum
  <2> QED BY <1>1, <2>1, <2>5, ConstantsAre, SumStepIs
<1>2. PICK g : g = [u \in Users |-> tez["erc20"][u]]
  OBVIOUS
<1>3. PICK h : h = [u \in Users |-> eth["nep21"][u]]
  OBVIOUS
<1>4. NatOn(g, Users) /\ NatOn(h, Users)
  BY <1>2, <1>3 DEF NatOn
<1>5. Image("erc20") = Sum(g, Users)
  BY <1>1, <1>2, <1>4 DEF Assets
<1>6. Image("nep21") = Sum(h, Users)
  BY <1>1, <1>3, <1>4 DEF Assets
<1>7. Sum(g, Users) = Sum(tez["erc20"], Users) /\ Sum(h, Users) = Sum(eth["nep21"], Users)
  BY <1>2, <1>3, SumSame
<1> QED BY <1>5, <1>6, <1>7

(* Conservation, said with sums, is what the run checks.                   *)
LEMMA BalancedIsConserved ==
  ASSUME EventsTyped, CallsTyped, BalancesTyped, Balanced
  PROVE  Conserved
<1>1. ASSUME NEW x \in Assets
      PROVE  /\ Amount(ethLog, EventsOf(x, FALSE)) + Amount(ethLog, EventsOf(x, TRUE)) = Forth(x)
             /\ Amount(ethLog, EventsOf(x, FALSE)) \in Nat /\ Amount(ethLog, EventsOf(x, TRUE)) \in Nat
  <2> DEFINE F == EventsOf(x, FALSE)
             T == EventsOf(x, TRUE)
  <2>1. F \in SUBSET DOMAIN ethLog /\ T \in SUBSET DOMAIN ethLog
    BY DEF EventsOf
  <2>2. F \cup T = OnTheWay(x) /\ F \cap T = {}
    BY DEF EventsOf, OnTheWay
  <2> HIDE DEF F, T
  <2>3. /\ IsFiniteSet(F) /\ NatOn(AmountsOf(ethLog), F)
        /\ IsFiniteSet(T) /\ NatOn(AmountsOf(ethLog), T)
    BY <2>1, ForthIs
  <2>4. Sum(AmountsOf(ethLog), F \cup T) = Sum(AmountsOf(ethLog), F) + Sum(AmountsOf(ethLog), T)
    BY <2>2, <2>3, SumUnion
  <2>5. /\ Amount(ethLog, F) = Sum(AmountsOf(ethLog), F) /\ Sum(AmountsOf(ethLog), F) \in Nat
        /\ Amount(ethLog, T) = Sum(AmountsOf(ethLog), T) /\ Sum(AmountsOf(ethLog), T) \in Nat
    BY <2>1, <2>3, AmountIs, UnitsFinite
  <2> QED BY <2>2, <2>4, <2>5 DEF Forth, F, T
<1>2. ASSUME NEW x \in Assets
      PROVE  /\ Amount(tezLog, ReceiptsOf(x, FALSE)) + Amount(tezLog, ReceiptsOf(x, TRUE)) = Back(x)
             /\ Amount(tezLog, ReceiptsOf(x, FALSE)) \in Nat /\ Amount(tezLog, ReceiptsOf(x, TRUE)) \in Nat
  <2> DEFINE F == ReceiptsOf(x, FALSE)
             T == ReceiptsOf(x, TRUE)
  <2>1. F \in SUBSET DOMAIN tezLog /\ T \in SUBSET DOMAIN tezLog
    BY DEF ReceiptsOf
  <2>2. F \cup T = OnTheWayBack(x) /\ F \cap T = {}
    BY DEF ReceiptsOf, OnTheWayBack
  <2> HIDE DEF F, T
  <2>3. /\ IsFiniteSet(F) /\ NatOn(AmountsOf(tezLog), F)
        /\ IsFiniteSet(T) /\ NatOn(AmountsOf(tezLog), T)
    BY <2>1, BackIs
  <2>4. Sum(AmountsOf(tezLog), F \cup T) = Sum(AmountsOf(tezLog), F) + Sum(AmountsOf(tezLog), T)
    BY <2>2, <2>3, SumUnion
  <2>5. /\ Amount(tezLog, F) = Sum(AmountsOf(tezLog), F) /\ Sum(AmountsOf(tezLog), F) \in Nat
        /\ Amount(tezLog, T) = Sum(AmountsOf(tezLog), T) /\ Sum(AmountsOf(tezLog), T) \in Nat
    BY <2>1, <2>3, AmountIs, UnitsFinite
  <2> QED BY <2>2, <2>4, <2>5 DEF Back, F, T
<1>3. Image("erc20") = Sum(tez["erc20"], Users) /\ Image("nep21") = Sum(eth["nep21"], Users)
  BY ImageIs, SumsAreNat
<1>4. ASSUME NEW x \in Assets
      PROVE  Home(x) = Image(x) + Forth(x) + Back(x) /\ Image(x) \in Nat
  <2>1. Sum(tez["erc20"], Users) \in Nat /\ Sum(eth["nep21"], Users) \in Nat
    BY SumsAreNat
  <2>2. CASE x = "erc20"
    BY <1>3, <2>1, <2>2 DEF Balanced, Home
  <2>3. CASE x = "nep21"
    <3>1. Home("nep21") = tez["nep21"][Connector]
      BY DEF Home
    <3> QED BY <1>3, <2>1, <2>3, <3>1 DEF Balanced
  <2> QED BY <2>2, <2>3 DEF Assets
<1>5. ASSUME NEW x \in Assets
      PROVE  Home(x) = Image(x) + Crossing(x, FALSE) + Crossing(x, TRUE)
  <2>1. PICK a, b : a = Amount(ethLog, EventsOf(x, FALSE)) /\ b = Amount(ethLog, EventsOf(x, TRUE))
    OBVIOUS
  <2>2. PICK c, d : c = Amount(tezLog, ReceiptsOf(x, FALSE)) /\ d = Amount(tezLog, ReceiptsOf(x, TRUE))
    OBVIOUS
  <2>3. a + b = Forth(x) /\ a \in Nat /\ b \in Nat
    BY <1>1, <2>1, Zenon
  <2>4. c + d = Back(x) /\ c \in Nat /\ d \in Nat
    BY <1>2, <2>2, Zenon
  <2>5. Crossing(x, FALSE) = a + c /\ Crossing(x, TRUE) = b + d
    BY <2>1, <2>2, Zenon DEF Crossing
  <2>6. PICK k, l : k = Crossing(x, FALSE) /\ l = Crossing(x, TRUE)
    OBVIOUS
  <2>7. k = a + c /\ l = b + d
    BY <2>5, <2>6, Zenon
  <2>8. Home(x) = Image(x) + k + l
    BY <1>4, <2>3, <2>4, <2>7
  <2> QED BY <2>6, <2>8, Zenon
<1> QED BY <1>5, Zenon DEF Conserved

-----------------------------------------------------------------------------
(* What the steps do to the amounts on their way.                          *)
LEMMA InitConnector == Init => ConnectorInv
<1> SUFFICES ASSUME Init PROVE ConnectorInv
  OBVIOUS
<1>1. /\ ethLog = <<>> /\ tezLog = <<>> /\ DOMAIN claim = {} /\ DOMAIN usedEvents_ = {} /\ provable = {}
      /\ DOMAIN ethLog = {} /\ DOMAIN tezLog = {}
  BY DEF Init
<1>2. EventsTyped /\ CallsTyped
  BY <1>1 DEF EventsTyped, CallsTyped, used_events
<1>3. BalancesTyped
  BY ConstantsAre DEF Init, BalancesTyped, Assets, Accounts
<1>4. Forth("erc20") = 0 /\ Forth("nep21") = 0 /\ Back("erc20") = 0 /\ Back("nep21") = 0
  <2>1. \A x : OnTheWay(x) = {} /\ OnTheWayBack(x) = {}
    BY <1>1 DEF OnTheWay, OnTheWayBack
  <2> QED BY <2>1, SumEmpty DEF Forth, Back
<1>5. /\ eth["erc20"][Connector] = 0 /\ tez["nep21"][Connector] = 0
      /\ \A u \in Users : tez["erc20"][u] = 0 /\ eth["nep21"][u] = 0
  BY ConstantsAre DEF Init, Assets, Accounts
<1>6. ASSUME NEW g, \A u \in Users : g[u] = 0 PROVE Sum(g, Users) = 0
  <2>1. Units(g, Users) = {}
    BY <1>6 DEF Units
  <2> QED BY <2>1, FS_EmptySet DEF Sum
<1>7. Sum(tez["erc20"], Users) = 0 /\ Sum(eth["nep21"], Users) = 0
  BY <1>5, <1>6
<1>8. Balanced
  BY <1>4, <1>5, <1>7 DEF Balanced
<1> QED BY <1>2, <1>3, <1>8 DEF ConnectorInv

LEMMA EmitMoves ==
  ASSUME EventsTyped, NEW a \in Assets, NEW n \in Nat, NEW u \in Users \cup {BadAddress}, Emit(a, n, u),
         UNCHANGED claim
  PROVE  /\ EventsTyped' /\ Forth(a)' = Forth(a) + n
         /\ \A x \in Assets \ {a} : Forth(x)' = Forth(x)
<1> DEFINE e == Len(ethLog) + 1
           new == [asset |-> a, amount |-> n, recipient |-> u]
<1>1. /\ ethLog \in Seq(Events) /\ new \in Events /\ ethLog' = Append(ethLog, new)
      /\ used_events' = used_events /\ used_events \subseteq DOMAIN ethLog
  BY DEF EventsTyped, Emit, Events, used_events
<1>2. /\ ethLog' \in Seq(Events) /\ DOMAIN ethLog' = DOMAIN ethLog \cup {e} /\ e \notin DOMAIN ethLog
      /\ ethLog'[e] = new /\ \A i \in DOMAIN ethLog : ethLog'[i] = ethLog[i]
  BY <1>1
<1>3. EventsTyped'
  BY <1>1, <1>2 DEF EventsTyped
<1> HIDE DEF e, new
<1>4. \A x : OnTheWay(x)' = IF x = a THEN OnTheWay(x) \cup {e} ELSE OnTheWay(x)
  BY <1>1, <1>2 DEF OnTheWay, new
<1>5. ASSUME NEW x PROVE Sum(AmountsOf(ethLog'), OnTheWay(x)) = Forth(x)
  <2>1. \A i \in OnTheWay(x) : AmountsOf(ethLog')[i] = AmountsOf(ethLog)[i]
    BY <1>2 DEF OnTheWay, AmountsOf
  <2> QED BY <2>1, SumSame DEF Forth
<1>6. Forth(a)' = Forth(a) + n
  <2>1. AmountsOf(ethLog')[e] = n
    BY <1>2 DEF AmountsOf, new
  <2>2. e \notin OnTheWay(a) /\ OnTheWay(a) \in SUBSET DOMAIN ethLog'
    BY <1>2 DEF OnTheWay
  <2>3. IsFiniteSet(OnTheWay(a)) /\ NatOn(AmountsOf(ethLog'), OnTheWay(a))
    <3>1. \A l \in Events : l.amount \in Nat
      BY DEF Events
    <3>2. OnTheWay(a) \in SUBSET DOMAIN ethLog' /\ ethLog' \in Seq(Events)
      BY <1>2, <2>2
    <3> QED BY <3>1, <3>2, LogSums
  <2>4. Sum(AmountsOf(ethLog'), OnTheWay(a) \cup {e}) = Sum(AmountsOf(ethLog'), OnTheWay(a)) + n
    BY <2>1, <2>2, <2>3, SumAdd
  <2> QED BY <1>4, <1>5, <2>4 DEF Forth
<1>7. \A x \in Assets \ {a} : Forth(x)' = Forth(x)
  BY <1>4, <1>5 DEF Forth
<1> QED BY <1>3, <1>6, <1>7

(* A step of a claim, unless it is the last.                               *)
LEMMA ForthSame ==
  ASSUME EventsTyped, ethLog' = ethLog,
         NEW e \in DOMAIN ethLog, e \in used_events => claim[e] # "done",
         used_events' = used_events \cup {e}, NEW stage, claim'[e] = stage, stage # "done",
         \A i \in used_events \ {e} : claim'[i] = claim[i],
         stage = "mint" => ethLog[e].asset = "erc20", stage = "transfer" => ethLog[e].asset = "nep21"
  PROVE  EventsTyped' /\ \A x : Forth(x)' = Forth(x)
<1>1. EventsTyped'
  BY DEF EventsTyped
<1>2. \A x : OnTheWay(x)' = OnTheWay(x)
  BY DEF OnTheWay
<1> QED BY <1>1, <1>2 DEF Forth

LEMMA ForthDone ==
  ASSUME EventsTyped, NEW e \in used_events, claim[e] # "done", Advance(e, "done"),
         NEW x, x = ethLog[e].asset
  PROVE  /\ EventsTyped' /\ ethLog[e] \in Events
         /\ Forth(x) = Forth(x)' + ethLog[e].amount /\ Forth(x)' \in Nat
         /\ \A y \in Assets \ {x} : Forth(y)' = Forth(y)
<1>1. /\ ethLog' = ethLog /\ used_events' = used_events /\ claim'[e] = "done"
      /\ \A i \in used_events \ {e} : claim'[i] = claim[i]
      /\ e \in DOMAIN ethLog /\ ethLog[e] \in Events
  BY DEF Advance, used_events, EventsTyped
<1>2. EventsTyped'
  BY <1>1 DEF EventsTyped
<1>3. \A y : OnTheWay(y)' = OnTheWay(y) \ {e}
  BY <1>1 DEF OnTheWay
<1>4. \A y : y # x => e \notin OnTheWay(y)
  BY DEF OnTheWay
<1>5. e \in OnTheWay(x)
  BY <1>1 DEF OnTheWay
<1>6. OnTheWay(x) \in SUBSET DOMAIN ethLog
  BY DEF OnTheWay
<1>7. /\ Sum(AmountsOf(ethLog), OnTheWay(x))
           = Sum(AmountsOf(ethLog), OnTheWay(x) \ {e}) + AmountsOf(ethLog)[e]
      /\ Sum(AmountsOf(ethLog), OnTheWay(x) \ {e}) \in Nat
  BY <1>5, <1>6, ForthIs, SumRemove
<1>8. AmountsOf(ethLog)[e] = ethLog[e].amount
  BY <1>1 DEF AmountsOf
<1>9. Forth(x) = Forth(x)' + ethLog[e].amount /\ Forth(x)' \in Nat
  BY <1>1, <1>3, <1>7, <1>8 DEF Forth
<1>10. \A y \in Assets \ {x} : Forth(y)' = Forth(y)
  BY <1>1, <1>3, <1>4 DEF Forth
<1> QED BY <1>1, <1>2, <1>9, <1>10

LEMMA CallMoves ==
  ASSUME CallsTyped, NEW a \in Assets, NEW u \in Users, NEW n \in Nat,
         NEW to \in Users \cup {BadAddress}, a = "nep21" => to # BadAddress,
         Call(a, u, n, to), UNCHANGED <<provable, usedEvents_>>
  PROVE  /\ CallsTyped' /\ Back("nep21")' = Back("nep21")
         /\ Back("erc20")' = IF a = "erc20" THEN Back("erc20") + n ELSE Back("erc20")
<1> DEFINE r == Len(tezLog) + 1
           new == [asset |-> a, sender |-> u, amount |-> n, recipient |-> to, receipt |-> "called"]
<1>1. /\ tezLog \in Seq(Calls) /\ new \in Calls /\ tezLog' = Append(tezLog, new)
      /\ usedEvents_' = usedEvents_ /\ provable' = provable
  BY DEF CallsTyped, Call, Calls, Receipts
<1>2. /\ tezLog' \in Seq(Calls) /\ DOMAIN tezLog' = DOMAIN tezLog \cup {r} /\ r \notin DOMAIN tezLog
      /\ tezLog'[r] = new /\ \A i \in DOMAIN tezLog : tezLog'[i] = tezLog[i]
  BY <1>1
<1>3. new.asset = a /\ new.receipt = "called" /\ new.recipient = to /\ new.amount = n
  OBVIOUS
<1> HIDE DEF r, new
<1>4. CallsTyped'
  BY <1>1, <1>2, <1>3 DEF CallsTyped, Assets
<1>5. r \notin DOMAIN usedEvents_
  BY <1>2 DEF CallsTyped
<1>6. OnTheWayBack("nep21")' = OnTheWayBack("nep21")
  BY <1>1, <1>2, <1>3 DEF OnTheWayBack
<1>7. OnTheWayBack("erc20")' = IF a = "erc20" THEN OnTheWayBack("erc20") \cup {r} ELSE OnTheWayBack("erc20")
  BY <1>1, <1>2, <1>3, <1>5 DEF OnTheWayBack
<1>8. ASSUME NEW x PROVE Sum(AmountsOf(tezLog'), OnTheWayBack(x)) = Back(x)
  <2>1. \A i \in OnTheWayBack(x) : AmountsOf(tezLog')[i] = AmountsOf(tezLog)[i]
    BY <1>2 DEF OnTheWayBack, AmountsOf
  <2> QED BY <2>1, SumSame DEF Back
<1>9. ASSUME a = "erc20" PROVE Back("erc20")' = Back("erc20") + n
  <2>1. AmountsOf(tezLog')[r] = n
    BY <1>2, <1>3 DEF AmountsOf
  <2>2. r \notin OnTheWayBack("erc20") /\ OnTheWayBack("erc20") \in SUBSET DOMAIN tezLog'
    BY <1>2 DEF OnTheWayBack
  <2>3. IsFiniteSet(OnTheWayBack("erc20")) /\ NatOn(AmountsOf(tezLog'), OnTheWayBack("erc20"))
    <3>1. \A l \in Calls : l.amount \in Nat
      BY DEF Calls
    <3> QED BY <1>2, <2>2, <3>1, LogSums
  <2>4. Sum(AmountsOf(tezLog'), OnTheWayBack("erc20") \cup {r})
          = Sum(AmountsOf(tezLog'), OnTheWayBack("erc20")) + n
    BY <2>1, <2>2, <2>3, SumAdd
  <2> QED BY <1>7, <1>8, <1>9, <2>4 DEF Back
<1>10. Back("nep21")' = Back("nep21") /\ (a # "erc20" => Back("erc20")' = Back("erc20"))
  BY <1>6, <1>7, <1>8 DEF Back
<1> QED BY <1>4, <1>9, <1>10

Good(outcome) == outcome \in {"transferred", "success", "lost"}

LEMMA ReceiptMoves ==
  ASSUME CallsTyped, NEW r \in DOMAIN tezLog, NEW outcome \in Receipts, Receipt(r, outcome),
         UNCHANGED <<provable, usedEvents_>>, r \notin DOMAIN usedEvents_,
         outcome \in {"transferred", "refused"} => tezLog[r].asset = "nep21",
         tezLog[r].recipient = BadAddress => outcome = "failed",
         Good(tezLog[r].receipt) => tezLog[r].asset = "erc20" \/ Good(outcome)
  PROVE  /\ CallsTyped' /\ Back("erc20")' = Back("erc20")
         /\ Back("nep21")' = IF tezLog[r].asset = "nep21" /\ Good(outcome) /\ ~Good(tezLog[r].receipt)
                             THEN Back("nep21") + tezLog[r].amount ELSE Back("nep21")
<1>1. PICK new : new = [tezLog[r] EXCEPT !.receipt = outcome]
  OBVIOUS
<1>2. tezLog \in Seq(Calls) /\ tezLog[r] \in Calls
  BY DEF CallsTyped
<1>3. /\ new \in Calls /\ new.receipt = outcome /\ new.asset = tezLog[r].asset
      /\ new.amount = tezLog[r].amount /\ new.recipient = tezLog[r].recipient
  BY <1>1, <1>2 DEF Calls
<1>4. /\ tezLog' \in Seq(Calls) /\ DOMAIN tezLog' = DOMAIN tezLog /\ tezLog'[r] = new
      /\ \A i \in DOMAIN tezLog : i # r => tezLog'[i] = tezLog[i]
      /\ usedEvents_' = usedEvents_ /\ provable' = provable
  BY <1>1, <1>2, <1>3 DEF Receipt
<1>5. CallsTyped'
  BY <1>3, <1>4 DEF CallsTyped
<1>6. AmountsOf(tezLog') = AmountsOf(tezLog)
  BY <1>3, <1>4 DEF AmountsOf
<1>7. OnTheWayBack("erc20")' = OnTheWayBack("erc20")
  BY <1>3, <1>4 DEF OnTheWayBack
<1>8. OnTheWayBack("nep21")' = IF tezLog[r].asset = "nep21" /\ Good(outcome)
                               THEN OnTheWayBack("nep21") \cup {r} ELSE OnTheWayBack("nep21")
  BY <1>3, <1>4 DEF OnTheWayBack, Good
<1>9. Good(tezLog[r].receipt) /\ tezLog[r].asset = "nep21" => r \in OnTheWayBack("nep21")
  BY DEF OnTheWayBack, Good
<1>10. ASSUME tezLog[r].asset = "nep21", Good(outcome), ~Good(tezLog[r].receipt)
       PROVE  Back("nep21")' = Back("nep21") + tezLog[r].amount
  <2>1. r \notin OnTheWayBack("nep21") /\ OnTheWayBack("nep21") \in SUBSET DOMAIN tezLog
    BY <1>10 DEF OnTheWayBack, Good
  <2>2. AmountsOf(tezLog)[r] = tezLog[r].amount /\ tezLog[r].amount \in Nat
    BY <1>2 DEF AmountsOf, Calls
  <2>3. Sum(AmountsOf(tezLog), OnTheWayBack("nep21") \cup {r})
          = Sum(AmountsOf(tezLog), OnTheWayBack("nep21")) + tezLog[r].amount
    <3>1. IsFiniteSet(OnTheWayBack("nep21")) /\ NatOn(AmountsOf(tezLog), OnTheWayBack("nep21"))
      BY <2>1, BackIs
    <3>2. PICK g : g = AmountsOf(tezLog)
      OBVIOUS
    <3>3. g[r] = tezLog[r].amount /\ g[r] \in Nat
      BY <2>2, <3>2
    <3>4. PICK W : W = OnTheWayBack("nep21")
      OBVIOUS
    <3>5. Sum(g, W \cup {r}) = Sum(g, W) + g[r]
      BY <2>1, <3>1, <3>2, <3>3, <3>4, SumAdd, Zenon
    <3> QED BY <3>2, <3>3, <3>4, <3>5, Zenon
  <2> QED BY <1>6, <1>8, <1>10, <2>3 DEF Back
<1>11. ASSUME ~(tezLog[r].asset = "nep21" /\ Good(outcome) /\ ~Good(tezLog[r].receipt))
       PROVE  OnTheWayBack("nep21")' = OnTheWayBack("nep21")
  BY <1>8, <1>9, <1>11
<1>12. Back("erc20")' = Back("erc20")
  BY <1>6, <1>7 DEF Back
<1>13. ~(tezLog[r].asset = "nep21" /\ Good(outcome) /\ ~Good(tezLog[r].receipt))
         => Back("nep21")' = Back("nep21")
  BY <1>6, <1>11 DEF Back
<1> QED BY <1>5, <1>10, <1>12, <1>13

LEMMA UsedMoves ==
  ASSUME CallsTyped, NEW r \in DOMAIN tezLog, NEW function, ParseProof(r, function),
         UNCHANGED <<tezLog, provable>>, NEW x, x = tezLog[r].asset
  PROVE  /\ CallsTyped' /\ tezLog[r] \in Calls /\ tezLog[r].recipient \in Users
         /\ function # Release[x] => \A y : Back(y)' = Back(y)
         /\ function = Release[x] =>
              /\ Back(x) = Back(x)' + tezLog[r].amount /\ Back(x)' \in Nat
              /\ \A y \in Assets \ {x} : Back(y)' = Back(y)
<1>1. /\ tezLog' = tezLog /\ provable' = provable /\ tezLog[r] \in Calls
      /\ r \notin DOMAIN usedEvents_ /\ tezLog[r].receipt = "success"
      /\ DOMAIN usedEvents_' = DOMAIN usedEvents_ \cup {r} /\ usedEvents_'[r] = function
      /\ \A i \in DOMAIN usedEvents_ : usedEvents_'[i] = usedEvents_[i]
  BY DEF CallsTyped, ParseProof, Put
<1>2. CallsTyped'
  BY <1>1 DEF CallsTyped
<1>3. tezLog[r].recipient \in Users
  BY <1>1 DEF CallsTyped, Calls
<1>4. ASSUME function # Release[x] PROVE \A y : Back(y)' = Back(y)
  <2>1. \A y : OnTheWayBack(y)' = OnTheWayBack(y)
    BY <1>1, <1>4 DEF OnTheWayBack
  <2> QED BY <1>1, <2>1 DEF Back
<1>5. ASSUME function = Release[x]
      PROVE  /\ Back(x) = Back(x)' + tezLog[r].amount /\ Back(x)' \in Nat
             /\ \A y \in Assets \ {x} : Back(y)' = Back(y)
  <2>1. \A y : OnTheWayBack(y)' = OnTheWayBack(y) \ {r}
    BY <1>1, <1>5 DEF OnTheWayBack
  <2>2. \A y : y # x => r \notin OnTheWayBack(y)
    BY DEF OnTheWayBack
  <2>3. r \in OnTheWayBack(x) /\ OnTheWayBack(x) \in SUBSET DOMAIN tezLog
    BY <1>1 DEF OnTheWayBack
  <2>4. /\ Sum(AmountsOf(tezLog), OnTheWayBack(x))
             = Sum(AmountsOf(tezLog), OnTheWayBack(x) \ {r}) + AmountsOf(tezLog)[r]
        /\ Sum(AmountsOf(tezLog), OnTheWayBack(x) \ {r}) \in Nat
    BY <2>3, BackIs, SumRemove
  <2>5. AmountsOf(tezLog)[r] = tezLog[r].amount
    BY DEF AmountsOf
  <2>6. Back(x) = Back(x)' + tezLog[r].amount /\ Back(x)' \in Nat
    BY <1>1, <2>1, <2>4, <2>5 DEF Back
  <2>7. \A y \in Assets \ {x} : Back(y)' = Back(y)
    BY <1>1, <2>1, <2>2 DEF Back
  <2> QED BY <2>6, <2>7
<1> QED BY <1>1, <1>2, <1>3, <1>4, <1>5

(* What the steps do to the balances.                                      *)
LEMMA TakeIs ==
  ASSUME NEW b \in [Assets -> [Accounts -> Nat]], NEW x \in Assets, NEW u \in Accounts, NEW n \in Nat,
         b[x][u] >= n
  PROVE  /\ Take(b, x, u, n) \in [Assets -> [Accounts -> Nat]]
         /\ Take(b, x, u, n)[x][u] = b[x][u] - n
         /\ \A v \in Accounts \ {u} : Take(b, x, u, n)[x][v] = b[x][v]
         /\ \A y \in Assets \ {x} : Take(b, x, u, n)[y] = b[y]
<1>1. b[x] \in [Accounts -> Nat] /\ b[x][u] - n \in Nat
  OBVIOUS
<1> QED BY <1>1 DEF Take

LEMMA GiveIs ==
  ASSUME NEW b \in [Assets -> [Accounts -> Nat]], NEW x \in Assets, NEW u \in Accounts, NEW n \in Nat
  PROVE  /\ Give(b, x, u, n) \in [Assets -> [Accounts -> Nat]]
         /\ Give(b, x, u, n)[x][u] = b[x][u] + n
         /\ \A v \in Accounts \ {u} : Give(b, x, u, n)[x][v] = b[x][v]
         /\ \A y \in Assets \ {x} : Give(b, x, u, n)[y] = b[y]
<1>1. b[x] \in [Accounts -> Nat] /\ b[x][u] + n \in Nat
  OBVIOUS
<1> QED BY <1>1 DEF Give

\* c is b after n has gone from u to v
Paid(b, x, u, v, n, c) ==
  /\ c \in [Assets -> [Accounts -> Nat]]
  /\ c[x][u] = b[x][u] - n /\ c[x][v] = b[x][v] + n
  /\ \A y \in Assets \ {x} : c[y] = b[y]

LEMMA PayIs ==
  ASSUME NEW b \in [Assets -> [Accounts -> Nat]], NEW x \in Assets,
         NEW u \in Accounts, NEW v \in Accounts, u # v, NEW n \in Nat, b[x][u] >= n
  PROVE  Paid(b, x, u, v, n, Give(Take(b, x, u, n), x, v, n))
<1>1. PICK t : t = Take(b, x, u, n)
  OBVIOUS
<1>2. /\ t \in [Assets -> [Accounts -> Nat]] /\ t[x][u] = b[x][u] - n /\ t[x][v] = b[x][v]
      /\ \A y \in Assets \ {x} : t[y] = b[y]
  BY <1>1, TakeIs
<1>3. PICK c : c = Give(t, x, v, n)
  OBVIOUS
<1>4. /\ c \in [Assets -> [Accounts -> Nat]] /\ c[x][v] = t[x][v] + n /\ c[x][u] = t[x][u]
      /\ \A y \in Assets \ {x} : c[y] = t[y]
  <2>1. t[x] \in [Accounts -> Nat] /\ t[x][v] + n \in Nat
    BY <1>2
  <2> QED BY <1>2, <1>3, <2>1 DEF Give
<1>5. Paid(b, x, u, v, n, c)
  BY <1>2, <1>4 DEF Paid
<1> QED BY <1>1, <1>3, <1>5

(* An image that is burnt or minted.                                       *)
LEMMA TakeSum ==
  ASSUME NEW b \in [Assets -> [Accounts -> Nat]], NEW x \in Assets, NEW u \in Users, NEW n \in Nat,
         b[x][u] >= n
  PROVE  /\ Sum(Take(b, x, u, n)[x], Users) = Sum(b[x], Users) - n
         /\ Take(b, x, u, n)[x][Connector] = b[x][Connector]
<1>1. PICK c : c = Take(b, x, u, n)
  OBVIOUS
<1>2. u \in Accounts /\ Connector \in Accounts \ {u} /\ Users \subseteq Accounts
  BY ConstantsAre DEF Accounts
<1>3. /\ c \in [Assets -> [Accounts -> Nat]] /\ c[x][u] = b[x][u] - n
      /\ \A v \in Accounts \ {u} : c[x][v] = b[x][v]
  BY <1>1, <1>2, TakeIs
<1>4. NatOn(b[x], Users) /\ NatOn(c[x], Users) /\ \A v \in Users \ {u} : c[x][v] = b[x][v]
  BY <1>2, <1>3 DEF NatOn
<1>5. Sum(c[x], Users) = Sum(b[x], Users) - b[x][u] + c[x][u]
  BY <1>4, ConstantsAre, SumChange
<1>6. Sum(b[x], Users) \in Nat /\ b[x][u] \in Nat
  BY <1>4, ConstantsAre, UnitsFinite DEF NatOn
<1>7. Sum(c[x], Users) = Sum(b[x], Users) - n
  BY <1>3, <1>5, <1>6
<1> QED BY <1>1, <1>2, <1>3, <1>7

LEMMA GiveSum ==
  ASSUME NEW b \in [Assets -> [Accounts -> Nat]], NEW x \in Assets, NEW u \in Users, NEW n \in Nat
  PROVE  /\ Sum(Give(b, x, u, n)[x], Users) = Sum(b[x], Users) + n
         /\ Give(b, x, u, n)[x][Connector] = b[x][Connector]
<1>1. PICK c : c = Give(b, x, u, n)
  OBVIOUS
<1>2. u \in Accounts /\ Connector \in Accounts \ {u} /\ Users \subseteq Accounts
  BY ConstantsAre DEF Accounts
<1>3. /\ c \in [Assets -> [Accounts -> Nat]] /\ c[x][u] = b[x][u] + n
      /\ \A v \in Accounts \ {u} : c[x][v] = b[x][v]
  <2>1. b[x] \in [Accounts -> Nat] /\ b[x][u] + n \in Nat
    BY <1>2
  <2> QED BY <1>1, <1>2, <2>1 DEF Give
<1>4. NatOn(b[x], Users) /\ NatOn(c[x], Users) /\ \A v \in Users \ {u} : c[x][v] = b[x][v]
  BY <1>2, <1>3 DEF NatOn
<1>5. Sum(c[x], Users) = Sum(b[x], Users) - b[x][u] + c[x][u]
  BY <1>4, ConstantsAre, SumChange
<1>6. Sum(b[x], Users) \in Nat /\ b[x][u] \in Nat
  BY <1>4, ConstantsAre, UnitsFinite DEF NatOn
<1>7. Sum(c[x], Users) = Sum(b[x], Users) + n
  BY <1>3, <1>5, <1>6
<1> QED BY <1>1, <1>2, <1>3, <1>7

-----------------------------------------------------------------------------
(* The steps.                                                              *)
LEMMA ForthKept ==
  ASSUME EventsTyped, UNCHANGED <<ethLog, claim>>
  PROVE  EventsTyped' /\ \A x : Forth(x)' = Forth(x)
BY DEF EventsTyped, Forth, OnTheWay, used_events

LEMMA BackKept ==
  ASSUME CallsTyped, UNCHANGED <<tezLog, usedEvents_>>, provable' \subseteq DOMAIN tezLog
  PROVE  CallsTyped' /\ \A x : Back(x)' = Back(x)
BY DEF CallsTyped, Back, OnTheWayBack

(* A step that moves no balance and changes nothing on the way.            *)
LEMMA StaysBalanced ==
  ASSUME ConnectorInv, EventsTyped', CallsTyped', UNCHANGED <<eth, tez>>,
         \A x : Forth(x)' = Forth(x), \A x \in Assets : Back(x)' = Back(x)
  PROVE  ConnectorInv'
BY DEF ConnectorInv, BalancesTyped, Balanced, Assets

LEMMA KeptByStart ==
  ASSUME ConnectorInv, NEW u \in Users, NEW to \in Users \cup {BadAddress}, NEW n \in Amounts,
         lockToken(u, n, to) \/ EthWithdraw(u, n, to) \/ withdraw(u, n, to) \/ lock(u, n, to)
  PROVE  ConnectorInv'
<1>0. n \in Nat /\ u \in Accounts /\ Connector \in Accounts /\ u # Connector /\ Assets = {"erc20", "nep21"}
  BY ConstantsAre DEF Accounts, Assets
<1>1. EventsTyped /\ CallsTyped /\ BalancesTyped /\ Balanced /\ provable \subseteq DOMAIN tezLog
  BY DEF ConnectorInv, CallsTyped
<1>2. eth \in [Assets -> [Accounts -> Nat]] /\ tez \in [Assets -> [Accounts -> Nat]]
  BY <1>1 DEF BalancesTyped
<1>3. /\ Forth("erc20") \in Nat /\ Back("erc20") \in Nat /\ Forth("nep21") \in Nat /\ Back("nep21") \in Nat
      /\ Sum(tez["erc20"], Users) \in Nat /\ Sum(eth["nep21"], Users) \in Nat
  BY <1>1, SumsAreNat
<1>4. CASE lockToken(u, n, to)
  <2>1. /\ Emit("erc20", n, to) /\ UNCHANGED <<tez, claim, tezLog, provable, usedEvents_>>
        /\ eth' = Give(Take(eth, "erc20", u, n), "erc20", Connector, n) /\ eth["erc20"][u] >= n
    BY <1>4 DEF lockToken
  <2>2. EventsTyped' /\ Forth("erc20")' = Forth("erc20") + n /\ Forth("nep21")' = Forth("nep21")
    BY <1>0, <1>1, <1>4, <2>1, EmitMoves
  <2>3. CallsTyped' /\ Back("erc20")' = Back("erc20") /\ Back("nep21")' = Back("nep21")
    BY <1>1, <2>1, BackKept
  <2>4. /\ eth' \in [Assets -> [Accounts -> Nat]] /\ eth'["erc20"][Connector] = eth["erc20"][Connector] + n
        /\ eth'["nep21"] = eth["nep21"]
    <3>1. Paid(eth, "erc20", u, Connector, n, eth')
      BY <1>0, <1>2, <2>1, PayIs, Zenon
    <3> QED BY <1>0, <3>1 DEF Paid
  <2>5. Balanced'
    BY <1>0, <1>1, <1>3, <2>1, <2>2, <2>3, <2>4 DEF Balanced
  <2> QED BY <1>2, <2>1, <2>2, <2>3, <2>4, <2>5 DEF ConnectorInv, BalancesTyped
<1>5. CASE EthWithdraw(u, n, to)
  <2>1. /\ Emit("nep21", n, to) /\ UNCHANGED <<tez, claim, tezLog, provable, usedEvents_>>
        /\ eth' = Take(eth, "nep21", u, n) /\ eth["nep21"][u] >= n
    BY <1>5 DEF EthWithdraw
  <2>2. EventsTyped' /\ Forth("nep21")' = Forth("nep21") + n /\ Forth("erc20")' = Forth("erc20")
    BY <1>0, <1>1, <1>5, <2>1, EmitMoves
  <2>3. CallsTyped' /\ Back("erc20")' = Back("erc20") /\ Back("nep21")' = Back("nep21")
    BY <1>1, <2>1, BackKept
  <2>4. eth' \in [Assets -> [Accounts -> Nat]] /\ eth'["erc20"] = eth["erc20"]
    BY <1>0, <1>2, <2>1, TakeIs
  <2>5. Sum(eth'["nep21"], Users) = Sum(eth["nep21"], Users) - n
    BY <1>0, <1>2, <2>1, TakeSum
  <2>6. Balanced'
    BY <1>0, <1>1, <1>3, <2>1, <2>2, <2>3, <2>4, <2>5 DEF Balanced
  <2> QED BY <1>2, <2>1, <2>2, <2>3, <2>4, <2>6 DEF ConnectorInv, BalancesTyped
<1>6. CASE withdraw(u, n, to)
  <2>1. /\ Call("erc20", u, n, to) /\ UNCHANGED <<eth, ethLog, claim, provable, usedEvents_>>
        /\ tez' = Take(tez, "erc20", u, n) /\ tez["erc20"][u] >= n
    BY <1>6 DEF withdraw, MayBurn
  <2>2. EventsTyped' /\ Forth("nep21")' = Forth("nep21") /\ Forth("erc20")' = Forth("erc20")
    BY <1>1, <2>1, ForthKept
  <2>3. CallsTyped' /\ Back("erc20")' = Back("erc20") + n /\ Back("nep21")' = Back("nep21")
    BY <1>0, <1>1, <2>1, CallMoves
  <2>4. tez' \in [Assets -> [Accounts -> Nat]] /\ tez'["nep21"] = tez["nep21"]
    BY <1>0, <1>2, <2>1, TakeIs
  <2>5. Sum(tez'["erc20"], Users) = Sum(tez["erc20"], Users) - n
    BY <1>0, <1>2, <2>1, TakeSum
  <2>6. Balanced'
    BY <1>0, <1>1, <1>3, <2>1, <2>2, <2>3, <2>4, <2>5 DEF Balanced
  <2> QED BY <1>2, <2>1, <2>2, <2>3, <2>4, <2>6 DEF ConnectorInv, BalancesTyped
<1>7. CASE lock(u, n, to)
  <2>1. /\ Call("nep21", u, n, to) /\ UNCHANGED <<eth, tez, ethLog, claim, provable, usedEvents_>>
        /\ to # BadAddress
    BY <1>7 DEF lock
  <2>2. EventsTyped' /\ \A x : Forth(x)' = Forth(x)
    BY <1>1, <2>1, ForthKept
  <2>3. CallsTyped' /\ Back("erc20")' = Back("erc20") /\ Back("nep21")' = Back("nep21")
    BY <1>0, <1>1, <2>1, CallMoves
  <2> QED BY <1>0, <2>1, <2>2, <2>3, StaysBalanced
<1> QED BY <1>4, <1>5, <1>6, <1>7

LEMMA KeptByClaim ==
  ASSUME ConnectorInv, NEW e \in DOMAIN ethLog, ClaimStep(e)
  PROVE  ConnectorInv'
<1>0. Connector \in Accounts /\ Users \subseteq Accounts /\ Connector \notin Users /\ Assets = {"erc20", "nep21"}
  BY ConstantsAre DEF Accounts, Assets
<1>1. EventsTyped /\ CallsTyped /\ BalancesTyped /\ Balanced /\ provable \subseteq DOMAIN tezLog
  BY DEF ConnectorInv, CallsTyped
<1>2. eth \in [Assets -> [Accounts -> Nat]] /\ tez \in [Assets -> [Accounts -> Nat]]
  BY <1>1 DEF BalancesTyped
<1>3. /\ Forth("erc20") \in Nat /\ Back("erc20") \in Nat /\ Forth("nep21") \in Nat /\ Back("nep21") \in Nat
      /\ Sum(tez["erc20"], Users) \in Nat /\ Sum(eth["nep21"], Users) \in Nat
  BY <1>1, SumsAreNat
<1>4. ASSUME UNCHANGED <<tezLog, provable, usedEvents_>>
      PROVE  CallsTyped' /\ \A x : Back(x)' = Back(x)
  BY <1>1, <1>4, BackKept
<1>5. CASE deposit(e) \/ unlock(e)
  <2>1. PICK asset \in Assets : Claim(asset, e)
    BY <1>0, <1>5 DEF deposit, unlock
  <2>2. /\ e \notin used_events /\ used_events' = used_events \cup {e} /\ claim'[e] = "verify"
        /\ \A i \in used_events \ {e} : claim'[i] = claim[i]
        /\ UNCHANGED <<eth, tez, ethLog, tezLog, provable, usedEvents_>>
    BY <2>1 DEF Claim, Unused, Put, used_events
  <2>3. EventsTyped' /\ \A x : Forth(x)' = Forth(x)
    BY <1>1, <2>2, ForthSame
  <2> QED BY <1>4, <2>2, <2>3, StaysBalanced
<1>6. ASSUME e \in used_events, claim[e] # "done", NEW stage, Advance(e, stage), stage # "done",
             stage = "mint" => ethLog[e].asset = "erc20", stage = "transfer" => ethLog[e].asset = "nep21",
             UNCHANGED <<eth, tez>>
      PROVE  ConnectorInv'
  <2>1. /\ used_events' = used_events \cup {e} /\ claim'[e] = stage
        /\ \A i \in used_events \ {e} : claim'[i] = claim[i]
        /\ UNCHANGED <<ethLog, tezLog, provable, usedEvents_>>
    BY <1>6 DEF Advance, used_events
  <2>2. EventsTyped' /\ \A x : Forth(x)' = Forth(x)
    BY <1>1, <1>6, <2>1, ForthSame
  <2> QED BY <1>4, <1>6, <2>1, <2>2, StaysBalanced
<1>7. CASE e \in used_events /\ verify_log_entry(e)
  <2>1. PICK stage \in {"proven", "refused"} : Advance(e, stage)
    BY <1>7 DEF verify_log_entry
  <2> QED BY <1>6, <1>7, <2>1 DEF verify_log_entry
<1>8. CASE e \in used_events /\ (finish_deposit(e) \/ finish_unlock(e))
  BY <1>6, <1>8 DEF finish_deposit, finish_unlock
<1>8a. CASE e \in used_events /\ (mint(e) \/ transfer(e)) /\ Advance(e, "panicked") /\ UNCHANGED tez
  BY <1>6, <1>8a DEF mint, transfer
<1>9. CASE e \in used_events /\ mint(e) /\ ~(Advance(e, "panicked") /\ UNCHANGED tez)
  <2>1. PICK n, u : n = ethLog[e].amount /\ u = ethLog[e].recipient
    OBVIOUS
  <2>2. /\ claim[e] = "mint" /\ ethLog[e].asset = "erc20" /\ Advance(e, "done")
        /\ u # BadAddress
        /\ tez' = Give(tez, "erc20", u, n) /\ UNCHANGED <<eth, tezLog, provable, usedEvents_>>
    BY <1>1, <1>9, <2>1 DEF mint, Advance, EventsTyped
  <2>3. /\ EventsTyped' /\ ethLog[e] \in Events /\ Forth("erc20") = Forth("erc20")' + n
        /\ Forth("erc20")' \in Nat /\ Forth("nep21")' = Forth("nep21")
    BY <1>0, <1>1, <1>9, <2>1, <2>2, ForthDone
  <2>4. n \in Nat /\ u \in Users
    BY <2>1, <2>2, <2>3 DEF Events
  <2>5. CallsTyped' /\ Back("erc20")' = Back("erc20") /\ Back("nep21")' = Back("nep21")
    BY <1>4, <2>2
  <2>6. tez' \in [Assets -> [Accounts -> Nat]] /\ tez'["nep21"] = tez["nep21"]
    <3>1. tez["erc20"] \in [Accounts -> Nat] /\ tez["erc20"][u] + n \in Nat
      BY <1>0, <1>2, <2>4
    <3> QED BY <1>0, <1>2, <2>2, <3>1 DEF Give
  <2>7. Sum(tez'["erc20"], Users) = Sum(tez["erc20"], Users) + n
    BY <1>0, <1>2, <2>2, <2>4, GiveSum
  <2>8. BalancesTyped'
    BY <1>2, <2>2, <2>6 DEF BalancesTyped
  <2>9. Balanced'
    BY <1>1, <1>3, <2>2, <2>3, <2>4, <2>5, <2>6, <2>7 DEF Balanced
  <2> QED BY <2>3, <2>5, <2>8, <2>9 DEF ConnectorInv
<1>10. CASE e \in used_events /\ transfer(e) /\ ~(Advance(e, "panicked") /\ UNCHANGED tez)
  <2>1. PICK n, u : n = ethLog[e].amount /\ u = ethLog[e].recipient
    OBVIOUS
  <2>2. /\ claim[e] = "transfer" /\ ethLog[e].asset = "nep21" /\ Advance(e, "done")
        /\ tez["nep21"][Connector] >= n /\ u # BadAddress
        /\ tez' = Give(Take(tez, "nep21", Connector, n), "nep21", u, n)
        /\ UNCHANGED <<eth, tezLog, provable, usedEvents_>>
    BY <1>1, <1>10, <2>1 DEF transfer, Advance, EventsTyped
  <2>3. /\ EventsTyped' /\ ethLog[e] \in Events /\ Forth("nep21") = Forth("nep21")' + n
        /\ Forth("nep21")' \in Nat /\ Forth("erc20")' = Forth("erc20")
    BY <1>0, <1>1, <1>10, <2>1, <2>2, ForthDone
  <2>4. n \in Nat /\ u \in Users
    BY <2>1, <2>2, <2>3 DEF Events
  <2>5. CallsTyped' /\ Back("erc20")' = Back("erc20") /\ Back("nep21")' = Back("nep21")
    BY <1>4, <2>2
  <2>6. /\ tez' \in [Assets -> [Accounts -> Nat]] /\ tez'["erc20"] = tez["erc20"]
        /\ tez'["nep21"][Connector] = tez["nep21"][Connector] - n
    <3>1. u \in Accounts /\ Connector # u
      BY <1>0, <2>4
    <3>2. Paid(tez, "nep21", Connector, u, n, tez')
      BY <1>0, <1>2, <2>2, <2>4, <3>1, PayIs
    <3> QED BY <1>0, <3>2 DEF Paid
  <2>7. BalancesTyped'
    BY <1>2, <2>2, <2>6 DEF BalancesTyped
  <2>8. Balanced'
    BY <1>1, <1>3, <2>2, <2>3, <2>4, <2>5, <2>6 DEF Balanced
  <2> QED BY <2>3, <2>5, <2>7, <2>8 DEF ConnectorInv
<1> QED BY <1>5, <1>7, <1>8, <1>8a, <1>9, <1>10 DEF ClaimStep

LEMMA KeptByReceipt ==
  ASSUME ConnectorInv, NEW r \in DOMAIN tezLog, ReceiptStep(r) \/ burnResult(r)
  PROVE  ConnectorInv'
<1>0. Connector \in Accounts /\ Users \subseteq Accounts /\ Connector \notin Users /\ Assets = {"erc20", "nep21"}
  BY ConstantsAre DEF Accounts, Assets
<1>1. EventsTyped /\ CallsTyped /\ BalancesTyped /\ Balanced /\ provable \subseteq DOMAIN tezLog
  BY DEF ConnectorInv, CallsTyped
<1>2. /\ eth \in [Assets -> [Accounts -> Nat]] /\ tez \in [Assets -> [Accounts -> Nat]]
      /\ tezLog[r] \in Calls
  BY <1>1 DEF BalancesTyped, CallsTyped
<1>3. /\ Forth("erc20") \in Nat /\ Back("erc20") \in Nat /\ Forth("nep21") \in Nat /\ Back("nep21") \in Nat
      /\ Sum(tez["erc20"], Users) \in Nat /\ Sum(eth["nep21"], Users) \in Nat
  BY <1>1, SumsAreNat
<1>4. ASSUME UNCHANGED <<ethLog, claim>> PROVE EventsTyped' /\ \A x : Forth(x)' = Forth(x)
  BY <1>1, <1>4, ForthKept
<1>5. r \in DOMAIN usedEvents_ => tezLog[r].receipt = "success"
  BY <1>1 DEF CallsTyped
\* a receipt that no proof has used moves on, and nothing else
<1>6. ASSUME NEW outcome \in Receipts, Receipt(r, outcome), tezLog[r].receipt # "success",
             UNCHANGED <<eth, tez, ethLog, claim, provable, usedEvents_>>,
             outcome \in {"transferred", "refused"} => tezLog[r].asset = "nep21",
             tezLog[r].recipient = BadAddress => outcome = "failed",
             tezLog[r].asset = "nep21" => (Good(tezLog[r].receipt) <=> Good(outcome))
      PROVE  ConnectorInv'
  <2>1. Good(tezLog[r].receipt) => tezLog[r].asset = "erc20" \/ Good(outcome)
    BY <1>2, <1>6 DEF Calls, Assets
  <2>2. CallsTyped' /\ Back("erc20")' = Back("erc20") /\ Back("nep21")' = Back("nep21")
    BY <1>1, <1>5, <1>6, <2>1, ReceiptMoves
  <2> QED BY <1>0, <1>4, <1>6, <2>2, StaysBalanced
<1>7. CASE finish_withdraw(r)
  <2>1. PICK outcome \in {"failed", "success"} :
          Receipt(r, outcome) /\ (tezLog[r].recipient = BadAddress => outcome = "failed")
    BY <1>7 DEF finish_withdraw
  <2> QED BY <1>6, <1>7, <2>1 DEF finish_withdraw, Receipts
<1>8. CASE transfer_from(r) /\ Receipt(r, "refused") /\ UNCHANGED tez
  <2>1. tezLog[r].recipient # BadAddress
    BY <1>1, <1>8 DEF transfer_from, CallsTyped
  <2> QED BY <1>6, <1>8, <2>1 DEF transfer_from, Receipts, Good
<1>9. CASE transfer_from(r) /\ ~(Receipt(r, "refused") /\ UNCHANGED tez)
  <2>1. PICK n, u : n = tezLog[r].amount /\ u = tezLog[r].sender
    OBVIOUS
  <2>2. /\ tezLog[r].asset = "nep21" /\ tezLog[r].receipt = "called" /\ Receipt(r, "transferred")
        /\ tez["nep21"][u] >= n
        /\ tez' = Give(Take(tez, "nep21", u, n), "nep21", Connector, n)
        /\ UNCHANGED <<eth, ethLog, claim, provable, usedEvents_>>
    BY <1>9, <2>1 DEF transfer_from
  <2>3. n \in Nat /\ u \in Users
    BY <1>2, <2>1 DEF Calls
  <2>4. tezLog[r].recipient # BadAddress
    BY <1>1, <2>2 DEF CallsTyped
  <2>5. CallsTyped' /\ Back("erc20")' = Back("erc20") /\ Back("nep21")' = Back("nep21") + n
    BY <1>1, <1>5, <2>1, <2>2, <2>4, ReceiptMoves DEF Receipts, Good
  <2>6. EventsTyped' /\ Forth("erc20")' = Forth("erc20") /\ Forth("nep21")' = Forth("nep21")
    BY <1>4, <2>2
  <2>7. /\ tez' \in [Assets -> [Accounts -> Nat]] /\ tez'["erc20"] = tez["erc20"]
        /\ tez'["nep21"][Connector] = tez["nep21"][Connector] + n
    <3>1. u \in Accounts /\ u # Connector
      BY <1>0, <2>3
    <3>2. Paid(tez, "nep21", u, Connector, n, tez')
      BY <1>0, <1>2, <2>2, <2>3, <3>1, PayIs
    <3> QED BY <1>0, <3>2 DEF Paid
  <2>8. BalancesTyped'
    BY <1>2, <2>2, <2>7 DEF BalancesTyped
  <2>9. Balanced'
    BY <1>1, <1>3, <2>2, <2>3, <2>5, <2>6, <2>7 DEF Balanced
  <2> QED BY <2>5, <2>6, <2>8, <2>9 DEF ConnectorInv
<1>10. CASE finish_lock(r)
  <2>1. tezLog[r].asset = "nep21" /\ tezLog[r].recipient # BadAddress
    BY <1>1, <1>10 DEF finish_lock, CallsTyped
  <2> QED BY <1>6, <1>10, <2>1 DEF finish_lock, LockResult, Receipts, Good
<1>11. CASE TrustReceipt(r)
  <2>1. UNCHANGED <<eth, tez, ethLog, claim, tezLog, usedEvents_>> /\ provable' \subseteq DOMAIN tezLog
    BY <1>1, <1>11 DEF TrustReceipt
  <2>2. CallsTyped' /\ \A x : Back(x)' = Back(x)
    BY <1>1, <2>1, BackKept
  <2> QED BY <1>4, <2>1, <2>2, StaysBalanced
<1>12. CASE unlockToken(r)
  <2>1. PICK n, u : n = tezLog[r].amount /\ u = tezLog[r].recipient
    OBVIOUS
  <2>2. /\ tezLog[r].asset = "erc20" /\ ParseProof(r, "unlockToken") /\ eth["erc20"][Connector] >= n
        /\ eth' = Give(Take(eth, "erc20", Connector, n), "erc20", u, n)
        /\ UNCHANGED <<tez, ethLog, claim, tezLog, provable>>
    BY <1>12, <2>1 DEF unlockToken, BurntToken, Foreign
  <2>3. /\ CallsTyped' /\ u \in Users /\ Back("erc20") = Back("erc20")' + n /\ Back("erc20")' \in Nat
        /\ Back("nep21")' = Back("nep21")
    BY <1>0, <1>1, <2>1, <2>2, UsedMoves DEF Release
  <2>4. n \in Nat
    BY <1>2, <2>1 DEF Calls
  <2>5. EventsTyped' /\ Forth("erc20")' = Forth("erc20") /\ Forth("nep21")' = Forth("nep21")
    BY <1>4, <2>2
  <2>6. /\ eth' \in [Assets -> [Accounts -> Nat]] /\ eth'["nep21"] = eth["nep21"]
        /\ eth'["erc20"][Connector] = eth["erc20"][Connector] - n
    <3>1. u \in Accounts /\ Connector # u
      BY <1>0, <2>3
    <3>2. Paid(eth, "erc20", Connector, u, n, eth')
      BY <1>0, <1>2, <2>2, <2>4, <3>1, PayIs
    <3> QED BY <1>0, <3>2 DEF Paid
  <2>7. BalancesTyped'
    BY <1>2, <2>2, <2>6 DEF BalancesTyped
  <2>8. Balanced'
    BY <1>1, <1>3, <2>2, <2>3, <2>4, <2>5, <2>6 DEF Balanced
  <2> QED BY <2>3, <2>5, <2>7, <2>8 DEF ConnectorInv
<1>13. CASE EthDeposit(r) /\ LockedToken(r) = "nep21"
  <2>1. PICK n, u : n = tezLog[r].amount /\ u = tezLog[r].recipient
    OBVIOUS
  <2>2. /\ tezLog[r].asset = "nep21" /\ ParseProof(r, "deposit") /\ eth' = Give(eth, "nep21", u, n)
        /\ UNCHANGED <<tez, ethLog, claim, tezLog, provable>>
    BY <1>13, <2>1 DEF EthDeposit, LockedToken, Foreign
  <2>3. /\ CallsTyped' /\ u \in Users /\ Back("nep21") = Back("nep21")' + n /\ Back("nep21")' \in Nat
        /\ Back("erc20")' = Back("erc20")
    BY <1>0, <1>1, <2>1, <2>2, UsedMoves DEF Release
  <2>4. n \in Nat
    BY <1>2, <2>1 DEF Calls
  <2>5. EventsTyped' /\ Forth("erc20")' = Forth("erc20") /\ Forth("nep21")' = Forth("nep21")
    BY <1>4, <2>2
  <2>6. eth' \in [Assets -> [Accounts -> Nat]] /\ eth'["erc20"] = eth["erc20"]
    <3>1. eth["nep21"] \in [Accounts -> Nat] /\ eth["nep21"][u] + n \in Nat
      BY <1>0, <1>2, <2>3, <2>4
    <3> QED BY <1>0, <1>2, <2>2, <3>1 DEF Give
  <2>7. Sum(eth'["nep21"], Users) = Sum(eth["nep21"], Users) + n
    BY <1>0, <1>2, <2>2, <2>3, <2>4, GiveSum
  <2>8. BalancesTyped'
    BY <1>2, <2>2, <2>6 DEF BalancesTyped
  <2>9. Balanced'
    BY <1>1, <1>3, <2>2, <2>3, <2>4, <2>5, <2>6, <2>7 DEF Balanced
  <2> QED BY <2>3, <2>5, <2>8, <2>9 DEF ConnectorInv
<1>14. CASE burnResult(r) \/ (EthDeposit(r) /\ LockedToken(r) # "nep21")
  <2>1. PICK function \in {"burnResult", "deposit"} :
          /\ ParseProof(r, function) /\ function # Release[tezLog[r].asset]
          /\ UNCHANGED <<eth, tez, ethLog, claim, tezLog, provable>>
    <3>1. tezLog[r].asset \in Assets
      BY <1>2 DEF Calls
    <3>2. CASE burnResult(r)
      BY <3>1, <3>2 DEF burnResult, Release
    <3>3. CASE EthDeposit(r) /\ LockedToken(r) # "nep21"
      BY <1>0, <3>1, <3>3 DEF EthDeposit, LockedToken, Release
    <3> QED BY <1>14, <3>2, <3>3
  <2>2. CallsTyped' /\ \A x : Back(x)' = Back(x)
    BY <1>1, <2>1, UsedMoves
  <2> QED BY <1>4, <2>1, <2>2, StaysBalanced
<1>15. ReceiptStep(r) => \/ finish_withdraw(r) \/ transfer_from(r) \/ finish_lock(r) \/ TrustReceipt(r)
                         \/ unlockToken(r) \/ EthDeposit(r)
  BY DEF ReceiptStep
<1> QED BY <1>7, <1>8, <1>9, <1>10, <1>11, <1>12, <1>13, <1>14, <1>15

LEMMA NextConnector == ConnectorInv /\ [Next]_vars => ConnectorInv'
<1> SUFFICES ASSUME ConnectorInv, [Next]_vars PROVE ConnectorInv'
  OBVIOUS
<1>1. EventsTyped /\ CallsTyped /\ provable \subseteq DOMAIN tezLog
  BY DEF ConnectorInv, CallsTyped
<1>2. ASSUME UNCHANGED <<eth, tez, ethLog, claim, tezLog, provable, usedEvents_>> PROVE ConnectorInv'
  <2>1. EventsTyped' /\ \A x : Forth(x)' = Forth(x)
    BY <1>1, <1>2, ForthKept
  <2>2. CallsTyped' /\ \A x : Back(x)' = Back(x)
    BY <1>1, <1>2, BackKept
  <2> QED BY <1>2, <2>1, <2>2, StaysBalanced
<1>3. CASE Start
  <2>1. PICK u \in Users, to \in Users \cup {BadAddress}, n \in Amounts :
          lockToken(u, n, to) \/ EthWithdraw(u, n, to) \/ withdraw(u, n, to) \/ lock(u, n, to)
    BY <1>3 DEF Start
  <2> QED BY <2>1, KeptByStart
<1>4. CASE Settle
  <2>1. CASE ConfirmEvent \/ deploy_bridge_token \/ create_bridge_token \/ newBridgeToken("nep21")
    BY <1>2, <2>1 DEF ConfirmEvent, deploy_bridge_token, create_bridge_token, newBridgeToken
  <2> QED BY <1>4, <2>1, KeptByClaim, KeptByReceipt DEF Settle
<1>5. CASE \E r \in DOMAIN tezLog : burnResult(r)
  BY <1>5, KeptByReceipt
<1>5a. CASE newBridgeToken(Foreign)
  BY <1>2, <1>5a DEF newBridgeToken
<1>6. CASE UNCHANGED vars
  BY <1>2, <1>6 DEF vars
<1> QED BY <1>3, <1>4, <1>5, <1>5a, <1>6 DEF Next

(* Conservation, whoever locks, claims, burns and releases what, in        *)
(* whatever order the promises run and whatever users get wrong: what the  *)
(* connector holds of an asset at home is what circulates as its image     *)
(* plus what is on its way or was lost there.                              *)
THEOREM AssetsAreConserved == Spec => []Conserved
<1>1. ConnectorInv => Conserved
  BY BalancedIsConserved DEF ConnectorInv
<1> QED BY <1>1, InitConnector, NextConnector, PTL DEF Spec

LEMMA BalancedPays ==
  ASSUME ConnectorInv
  PROVE  CanPayOut
<1>1. EventsTyped /\ CallsTyped /\ BalancesTyped /\ Balanced
  BY DEF ConnectorInv
<1>2. /\ Forth("erc20") \in Nat /\ Back("erc20") \in Nat /\ Forth("nep21") \in Nat /\ Back("nep21") \in Nat
      /\ Sum(tez["erc20"], Users) \in Nat /\ Sum(eth["nep21"], Users) \in Nat
  BY <1>1, SumsAreNat
<1>3. ASSUME NEW e \in used_events, claim[e] = "transfer"
      PROVE  tez["nep21"][Connector] >= ethLog[e].amount
  <2>1. e \in OnTheWay("nep21") /\ OnTheWay("nep21") \in SUBSET DOMAIN ethLog /\ e \in DOMAIN ethLog
    BY <1>1, <1>3 DEF EventsTyped, OnTheWay
  <2>2. AmountsOf(ethLog)[e] <= Forth("nep21")
    <3>1. PICK g, S : g = AmountsOf(ethLog) /\ S = OnTheWay("nep21")
      OBVIOUS
    <3>2. IsFiniteSet(S) /\ NatOn(g, S) /\ e \in S
      BY <1>1, <2>1, <3>1, ForthIs
    <3>3. g[e] <= Sum(g, S)
      BY <3>2, SumRemove
    <3> QED BY <3>1, <3>3 DEF Forth
  <2>3. AmountsOf(ethLog)[e] = ethLog[e].amount
    BY <2>1 DEF AmountsOf
  <2>4. ethLog[e].amount \in Nat
    <3>1. ethLog[e] \in Events
      BY <1>1, <2>1 DEF EventsTyped
    <3> QED BY <3>1 DEF Events
  <2> QED BY <1>1, <1>2, <2>2, <2>3, <2>4 DEF Balanced
<1>4. ASSUME NEW r \in provable \ DOMAIN usedEvents_, tezLog[r].asset = "erc20"
      PROVE  eth["erc20"][Connector] >= tezLog[r].amount
  <2>1. r \in OnTheWayBack("erc20") /\ OnTheWayBack("erc20") \in SUBSET DOMAIN tezLog /\ r \in DOMAIN tezLog
    BY <1>1, <1>4 DEF CallsTyped, OnTheWayBack
  <2>2. AmountsOf(tezLog)[r] <= Back("erc20")
    <3>1. PICK g, S : g = AmountsOf(tezLog) /\ S = OnTheWayBack("erc20")
      OBVIOUS
    <3>2. IsFiniteSet(S) /\ NatOn(g, S) /\ r \in S
      BY <1>1, <2>1, <3>1, BackIs
    <3>3. g[r] <= Sum(g, S)
      BY <3>2, SumRemove
    <3> QED BY <3>1, <3>3 DEF Back
  <2>3. AmountsOf(tezLog)[r] = tezLog[r].amount
    BY <2>1 DEF AmountsOf
  <2>4. tezLog[r].amount \in Nat
    <3>1. tezLog[r] \in Calls
      BY <1>1, <2>1 DEF CallsTyped
    <3> QED BY <3>1 DEF Calls
  <2> QED BY <1>1, <1>2, <2>2, <2>3, <2>4 DEF Balanced
<1> QED BY <1>3, <1>4 DEF CanPayOut

(* The connector can pay: no transfer and no unlockToken with a good proof *)
(* ever fails for lack of tokens.                                          *)
THEOREM ConnectorCanPay == Spec => []CanPayOut
<1>1. ConnectorInv => CanPayOut
  BY BalancedPays
<1> QED BY <1>1, InitConnector, NextConnector, PTL DEF Spec
=============================================================================
