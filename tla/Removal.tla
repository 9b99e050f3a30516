------------------------------ MODULE Removal ------------------------------
(***************************************************************************)
(* rel_graph._handle_removed_instances: which instances of those before a  *)
(* scale-in takes. Sets of instances are walked in any order.              *)
(***************************************************************************)
EXTENDS Integers, FiniteSets, FiniteSetsExt

FirstOf(S, n) == kSubset(IF n < Cardinality(S) THEN n ELSE Cardinality(S), S)

\* The included are meant and go first, then any that are not spared, which the
\* excluded are, then any.
Removals(before, meant, spared, n) ==
    UNION {UNION {{I \cup J \cup K :
                      K \in FirstOf(before \ (I \cup J),
                                    n - Cardinality(I) - Cardinality(J))} :
                  J \in FirstOf((before \ I) \ spared, n - Cardinality(I))} :
           I \in FirstOf(meant, n)}
=============================================================================
