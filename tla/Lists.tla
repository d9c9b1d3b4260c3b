------------------------------- MODULE Lists -------------------------------
(* Vec::retain and its kin: filtering a list by a set, as a recursive      *)
(* function, which TLC evaluates and the prover can reason about.          *)
EXTENDS Integers, Sequences

(* The elements of s that are in T, in their order. *)
Filter(s, T) ==
  LET f[i \in 0 .. Len(s)] ==
        IF i = 0 THEN <<>>
        ELSE IF s[i] \in T THEN Append(f[i - 1], s[i]) ELSE f[i - 1]
  IN  f[Len(s)]
=============================================================================
