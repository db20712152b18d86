-------------------------------- MODULE Rows --------------------------------
(***************************************************************************)
(* Lists: the rows of a list at some of its positions, and positions in a  *)
(* given order.  It is what `filter(..).collect()` and `sort_by` make of a *)
(* Vec, in the lists the TUI shows (app/proxy.rs, connections.rs,          *)
(* rules.rs) and in those a configuration is made of (config_gen).         *)
(***************************************************************************)
EXTENDS Integers, Sequences, FiniteSets

\* The members of S, each before those that R puts after it.
Ordered(S, R) ==
    CHOOSE s \in [1 .. Cardinality(S) -> S] :
        \A i, j \in 1 .. Cardinality(S) : i < j => <<s[i], s[j]>> \in R

InOrder(S) == Ordered(S, {p \in S \X S : p[1] < p[2]})

\* filter(..).collect(): the rows at some positions, in the order they have.
RowsAt(seq, I) == LET is == InOrder(I) IN [k \in DOMAIN is |-> seq[is[k]]]
=============================================================================
