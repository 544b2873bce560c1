----------------------------- MODULE Subsequences -----------------------------
(***************************************************************************)
(* The part of a sequence that lies in a set: what a filter of an iterator *)
(* keeps. It is a recursive function, and not SelectSeq, so that what it   *)
(* computes can be proved by induction (SubsequenceProofs).                *)
(***************************************************************************)
EXTENDS Integers, Sequences

Only(s, S) ==
  LET kept[i \in 0..Len(s)] ==
        IF i = 0 THEN << >>
        ELSE IF s[i] \in S THEN Append(kept[i - 1], s[i]) ELSE kept[i - 1]
  IN  kept[Len(s)]
===============================================================================
