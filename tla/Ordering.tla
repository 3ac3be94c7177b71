------------------------------ MODULE Ordering ------------------------------
(***************************************************************************)
(* What sorting and filtering return, said by places: an element of a set  *)
(* comes after as many others as are before it.  (SetToSortSeq and         *)
(* SelectSeq return the same sequences.)                                   *)
(***************************************************************************)
EXTENDS Integers, Sequences, FiniteSets

Place(x, S, R) == Cardinality({y \in S : <<y, x>> \in R}) + 1

\* The elements of S, in the order of the pairs R.
Listed(S, R) ==
  LET place == [x \in S |-> Place(x, S, R)]
  IN [i \in 1..Cardinality(S) |-> CHOOSE x \in S : place[x] = i]

\* The elements of the sequence s that are in T.
Filtered(s, T) ==
  LET at == {i \in DOMAIN s : s[i] \in T}
      places == Listed(at, {p \in at \X at : p[1] < p[2]})
  IN [k \in DOMAIN places |-> s[places[k]]]
=============================================================================
