-------------------------------- MODULE Filters --------------------------------
(***************************************************************************)
(* Sequences from which elements are dropped: the LRU list of the response *)
(* cache, the timestamps of the quota.  SelectSeq says the same; this form *)
(* is one the proofs can open: its test is a set, its recursion a function.*)
(***************************************************************************)
EXTENDS Naturals, Sequences

\* The elements of s that are in K, in their order.
Kept(s, K) ==
  LET upTo[i \in 0..Len(s)] ==
        IF i = 0 THEN <<>>
        ELSE IF s[i] \in K THEN Append(upTo[i - 1], s[i]) ELSE upTo[i - 1]
  IN upTo[Len(s)]

Occurs(s, x) == \E i \in 1..Len(s) : s[i] = x

NoRepeats(s) == \A i, j \in 1..Len(s) : s[i] = s[j] => i = j
================================================================================
