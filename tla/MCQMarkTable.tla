---------------------------- MODULE MCQMarkTable ----------------------------
(* The instances of QMarkTable that TLC explores.                          *)
EXTENDS QMarkTable, TLC

\* Addresses are interchangeable: no definition of QMarkTable tells them apart.
Symmetry == Permutations(IPs)

\* Bookkeeping that a command rewrote in use is explored on from the states
\* that bind one address; a state outside is checked, and not explored further.
Rewritten ==
    clean \/ /\ Cardinality(Bound) <= 1
             /\ max_ip_cnt = DefaultSpec
             /\ \A id \in RuleIds : g_ruletbl[id].count \in 0..1

=============================================================================
