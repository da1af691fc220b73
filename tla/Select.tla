-------------------------------- MODULE Select --------------------------------
(***************************************************************************)
(* The part of a sequence at some of its places, in order.  SelectSeq says *)
(* as much of a test, but by a recursion of which nothing can be proved.   *)
(***************************************************************************)
EXTENDS Integers, Sequences, FiniteSets

UpTo(S, k) == Cardinality({j \in S : j <= k})

Nth(S, n) == CHOOSE k \in S : UpTo(S, k) = n

Select(s, S) == [n \in 1 .. Cardinality(S) |-> s[Nth(S, n)]]
=============================================================================
