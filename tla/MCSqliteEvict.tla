---------------------------- MODULE MCSqliteEvict ---------------------------
(* Three rows of sizes around the limit, so that one, two or three fit.    *)
EXTENDS SqliteEvict, TLC

Symmetry == Permutations(Keys)
=============================================================================
