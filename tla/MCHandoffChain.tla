--------------------------- MODULE MCHandoffChain ---------------------------
(* Three cooks over two keys: a leader, its joiner and an outsider.        *)
EXTENDS HandoffChain
=============================================================================
