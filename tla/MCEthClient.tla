---------------------------- MODULE MCEthClient ----------------------------
(***************************************************************************)
(* A tree of four branches: m1 .. m8 is the main chain, f leaves it at     *)
(* height 2, g and h at height 4.  g is short and heavy, so that it wins   *)
(* while it is shorter; f is lighter at first; h ties with m at height 6,  *)
(* where the parity of the difficulty decides.  When f8 wins, the place    *)
(* where f leaves is forgotten.  bad fails verification and skip has a     *)
(* number that is not its parent's plus one.                               *)
(***************************************************************************)
EXTENDS EthClient, Sequences, TLC

\* name -> <<number, parent, difficulty>>
Tree ==
     "m1" :> <<1, "0", 2>>  @@ "m2" :> <<2, "m1", 2>> @@ "m3" :> <<3, "m2", 2>>
  @@ "m4" :> <<4, "m3", 2>> @@ "m5" :> <<5, "m4", 2>> @@ "m6" :> <<6, "m5", 2>>
  @@ "m7" :> <<7, "m6", 2>> @@ "m8" :> <<8, "m7", 2>>
  @@ "f3" :> <<3, "m2", 1>> @@ "f4" :> <<4, "f3", 2>> @@ "f5" :> <<5, "f4", 3>>
  @@ "f6" :> <<6, "f5", 2>> @@ "f7" :> <<7, "f6", 2>>
  @@ "f8" :> <<8, "f7", 4>>
  @@ "g5" :> <<5, "m4", 7>> @@ "g6" :> <<6, "g5", 1>> @@ "g7" :> <<7, "g6", 2>>
  @@ "h5" :> <<5, "m4", 3>> @@ "h6" :> <<6, "h5", 1>> @@ "h7" :> <<7, "h6", 2>>
  @@ "bad" :> <<4, "m3", 9>> @@ "skip" :> <<5, "m3", 4>>

MCHeaders == DOMAIN Tree
MCNumber(h) == Tree[h][1]
MCParent(h) == Tree[h][2]
MCDifficulty(h) == Tree[h][3]
MCValid(h) == h # "bad"
=============================================================================
