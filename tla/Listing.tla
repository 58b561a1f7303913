------------------------------- MODULE Listing --------------------------------
(* The members of a finite set in an order, as a sequence: what sorting and   *)
(* filtering a list come to.  An order is a set of pairs.                     *)
EXTENDS Naturals, FiniteSets, Sequences

Preceding(S, before, x) == { y \in S : <<y, x>> \in before }
Listed(S, before) ==
    [n \in 1..Cardinality(S) |-> CHOOSE x \in S : Cardinality(Preceding(S, before, x)) = n - 1]

Ascending(S) == Listed(S, { p \in S \X S : p[1] < p[2] })

(* The items of s at some of its places.                                      *)
Picked(s, places) ==
    LET kept == Ascending(places) IN [n \in DOMAIN kept |-> s[kept[n]]]
===============================================================================
