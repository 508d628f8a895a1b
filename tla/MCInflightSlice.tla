--------------------------- MODULE MCInflightSlice ---------------------------
(***************************************************************************)
(* InflightSlice for TLC, with Sift checked against the library's filter   *)
(* on every sequence of up to four elements.                               *)
(***************************************************************************)
EXTENDS InflightSlice

ASSUME SiftIsSelectSeq ==
    \A n \in 0..4 : \A s \in [1..n -> 0..2], keep \in SUBSET (0..2) :
        Sift(s, {i \in 1..n : s[i] \in keep}) = SelectSeq(s, LAMBDA e : e \in keep)
=============================================================================
