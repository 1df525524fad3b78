--------------------------- MODULE MCCookFreshness ---------------------------
(* Two clients of one source that changes once and sends, in any order,    *)
(* the policies a resource may have; no-store stands for no-cache here.    *)
EXTENDS CookFreshness

CC(life, age, store, cache) ==
    [maxAge |-> life, age |-> age, noStore |-> ~store, noCache |-> ~cache]

SomePolicies ==
    {[cc |-> CC(2, 1, TRUE, TRUE), val |-> TRUE],     \* max-age=2, Age: 1
     [cc |-> NONE, val |-> TRUE],                     \* a validator only
     [cc |-> CC(NONE, 0, FALSE, TRUE), val |-> TRUE]} \* no-store
=============================================================================
