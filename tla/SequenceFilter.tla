-------------------------- MODULE SequenceFilter --------------------------
(***************************************************************************)
(* Array.prototype.filter, as the ingestion clients and the event buffer   *)
(* users apply it: the elements of a sequence that belong to a set, in     *)
(* their original order.  It is written with a recursive function so that  *)
(* SequenceFilterLemmas can prove what it returns for every sequence.      *)
(***************************************************************************)
EXTENDS Integers, Sequences, Functions

\* kept[i] is the filtered form of the first i elements of s.
KeptPrefix(s, D) ==
    LET kept[i \in 0 .. Len(s)] ==
          IF i = 0 THEN << >>
          ELSE IF s[i] \in D THEN Append(kept[i - 1], s[i])
          ELSE kept[i - 1]
    IN  kept

\* The subsequence of s made of its elements in D.
KeepIn(s, D) == KeptPrefix(s, D)[Len(s)]

\* A sequence holds no element twice.
NoRepeats(s) == \A i, j \in 1 .. Len(s) : s[i] = s[j] => i = j
===========================================================================
