---------------------------- MODULE MCRecommender ----------------------------
(* Matrices of three entities, each with one of these rows of up to four   *)
(* dimensions, in every mode; further files with a duplicate, with a       *)
(* subset that keeps two entities or none, and with a directory that holds *)
(* an older export.                                                        *)
EXTENDS Recommender

Rows == {1 :> 1 @@ 2 :> 2, 1 :> 2 @@ 2 :> 1 @@ 3 :> 2, 1 :> 1 @@ 2 :> 2 @@ 3 :> 1 @@ 4 :> 2,
         1 :> 2 @@ 2 :> 2 @@ 3 :> 1 @@ 4 :> 1, 2 :> 1 @@ 3 :> 2 @@ 4 :> 3, 2 :> 2}
Matrices == [1 .. 3 -> Rows]

Review(mode, e, d, stars) ==
  [user |-> IF mode = "item" THEN d ELSE e, business |-> IF mode = "item" THEN e ELSE d, stars |-> stars]

Listed(mode, M) ==
  LET cells == Ordered({<<e, d>> : e \in 1 .. 3, d \in 1 .. 4}, Below)
      there == SelectSeq(cells, LAMBDA c : c[2] \in DOMAIN M[c[1]])
  IN  [k \in DOMAIN there |-> Review(mode, there[k][1], there[k][2], M[there[k][1]][there[k][2]])]

(* An earlier review of the first listed pair, with other stars. *)
Doubled(R) == <<[R[1] EXCEPT !.stars = 3]>> \o R

File(mode, R, subset, old) == [reviews |-> R, mode |-> mode, subset |-> subset, old |-> old]

MCOld(mode) == Export(Listed(mode, <<[d \in 1 .. 4 |-> 1 + (d % 2)], [d \in {1, 2, 3} |-> d], 1 :> 1 @@ 2 :> 2>>),
                      mode, <<>>)

MCInputs ==
  LET Some == {M \in Matrices : M[1] # M[2] /\ Cardinality(DOMAIN M[1]) >= 2}
      Few  == {M \in Some : DOMAIN M[3] = {1, 2}}
      \* as many ratings as the older export, other rows
      Like == {M \in Matrices : MapThenSumSet(LAMBDA i : Cardinality(DOMAIN M[i]), 1 .. 3) = 9}
      Both == {"item", "user"}
  IN  {File(mode, Listed(mode, M), <<>>, NoDir) : mode \in Both, M \in Matrices}
      \cup {File(mode, Doubled(Listed(mode, M)), <<>>, NoDir) : mode \in Both, M \in Some}
      \cup {File(mode, Listed(mode, M), subset, NoDir) : mode \in Both, M \in Few, subset \in {<<2, 0>>, <<4, 3>>}}
      \cup {File(mode, Listed(mode, M), <<>>, MCOld(mode)) : mode \in Both, M \in Like}
      \cup {[mode |-> "synthetic", reviews |-> <<>>, subset |-> <<>>, old |-> NoDir,
             rows |-> [i \in 0 .. 2 |-> M[i + 1]]] : M \in Matrices}

MCHashes == <<[a1 |-> 5003, a2 |-> 9127, b1 |-> 2, b2 |-> 1009],
              [a1 |-> 5009, a2 |-> 9133, b1 |-> 3, b2 |-> 1013]>>
MCCollected == {<<1, 2, 3, 4>>, <<4, 2, 3, 1>>, <<3, 1, 2, 4>>}
MCTest == {1, 2, 5} \X {1, 3, 4}
MCBands == {{2}, 3 .. 4}
MCBuckets == {[rounds |-> 2, full |-> 4, tail |-> 3]}
=============================================================================
