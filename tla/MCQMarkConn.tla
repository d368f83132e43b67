----------------------------- MODULE MCQMarkConn -----------------------------
(* The instance of QMarkConn that TLC explores.                            *)
EXTENDS QMarkConn, TLC

\* At most one connection is of a kind that its host's node does not count.
Explored == Cardinality({c \in Live : conn[c].inbound # conn[c].dnat}) <= 1

\* Addresses are interchangeable, and so are conntrack entries.
Symmetry == Permutations(IPs) \union Permutations(Conns)

=============================================================================
