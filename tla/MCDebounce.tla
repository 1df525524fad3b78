----------------------------- MODULE MCDebounce -----------------------------
(* Three requests for one key: a leader, a joiner, and a third that joins, *)
(* supersedes or reuses an id.  One validator and two expiries tell the    *)
(* client copies apart.                                                    *)
EXTENDS Debounce, TLC

Symmetry == Permutations(Requests) \cup Permutations(Ids)
=============================================================================
