---------------------------- MODULE MCCacheChain ----------------------------
(* mem+sqlite, the chain the documentation recommends, once with two keys *)
(* whose identifiers collide, the first of which has no other one, and     *)
(* once with a lifetime that lets a live pin be extended; mem+cloud with a *)
(* plan shorter than the pin lifetime, and without pins while time passes. *)
(* The cloud settles collisions itself, so there is one key in front of it.*)
(* Two responses have the same cache string or different ones, and one may *)
(* have to stay out of the cache.                                          *)
EXTENDS CacheChain, TLC

CONSTANTS k1, k2, i1, i2, s1, s2

MCSetups ==
    {[kind |-> <<"memory", "sqlite">>, pin |-> 1, plan |-> 1, keys |-> Keys,
      strings |-> {EMPTY, s1}, MaxTime |-> 1],
     [kind |-> <<"memory", "sqlite">>, pin |-> 2, plan |-> 1, keys |-> {k2},
      strings |-> Strings, MaxTime |-> 1],
     [kind |-> <<"memory", "cloud">>, pin |-> 2, plan |-> 1, keys |-> {k2},
      strings |-> {EMPTY, s1}, MaxTime |-> 0],
     [kind |-> <<"memory", "cloud">>, pin |-> 0, plan |-> 1, keys |-> {k2},
      strings |-> Strings, MaxTime |-> 2]}
MCCandidate == (k1 :> (0 :> i1 @@ 1 :> i1)) @@ (k2 :> (0 :> i1 @@ 1 :> i2))
Symmetry == Permutations(Cooks) \cup Permutations({s1, s2})
=============================================================================
