-------------------------------- MODULE Hints --------------------------------
(***************************************************************************)
(* What a response says about its reuse (source.rs, CacheHints), the cache *)
(* string that carries it to the client and back, the deadlines the cache  *)
(* derives from it and the headers of a pinned thumbnail (http_cache.rs).  *)
(*                                                                         *)
(* Headers: val (an ETag or Last-Modified is present) and cc, the          *)
(* Cache-Control directives with the Age, or NONE.  noStore stands for     *)
(* no-store and for private, which the code treats alike everywhere.       *)
(* Times are seconds; ver is the version of the source that is described.  *)
(***************************************************************************)
EXTENDS Naturals

CONSTANTS
    NONE,       \* Rust's None, and the empty cache string
    DefaultTtl, \* cache_default_ttl_secs
    RetainTtl,  \* default_cache_ttl
    MaxTtl      \* cache_max_ttl_secs

ASSUME HintsAssumption ==
    /\ {DefaultTtl, RetainTtl, MaxTtl} \subseteq Nat
    /\ NONE \notin Nat

Least(a, b) == IF a <= b THEN a ELSE b
Most(a, b) == IF a >= b THEN a ELSE b
SatSub(a, b) == IF a >= b THEN a - b ELSE 0

\* What a source may send, with lifetimes of up to so many seconds.
Policy(life) ==
    [val : BOOLEAN,
     cc : [maxAge : (0..life) \cup {NONE}, age : Nat, noStore : BOOLEAN, noCache : BOOLEAN]
              \cup {NONE}]

\* What is known of a response.
Hint(life) ==
    [exp : Nat \cup {NONE}, maxAge : (0..life) \cup {NONE}, val : BOOLEAN, ver : Nat,
     noStore : BOOLEAN, noCache : BOOLEAN]

-----------------------------------------------------------------------------
\* Seeded fault: the time a response has already spent in caches is ignored.
RemainingWhole(cc) == cc.maxAge

Remaining(cc) == SatSub(cc.maxAge, cc.age)

Recognised(h) ==
    h.val \/ (h.cc # NONE /\ (h.cc.maxAge # NONE \/ h.cc.noStore \/ h.cc.noCache))

from_response_headers(h, ver, now) ==
    IF ~Recognised(h) THEN NONE
    ELSE LET timed == h.cc # NONE /\ h.cc.maxAge # NONE IN
         [exp |-> IF timed THEN now + Remaining(h.cc) ELSE NONE,
          maxAge |-> IF timed THEN h.cc.maxAge ELSE NONE,
          val |-> h.val, ver |-> ver,
          noStore |-> h.cc # NONE /\ h.cc.noStore,
          noCache |-> h.cc # NONE /\ h.cc.noCache]

to_conditional(hints) == hints # NONE /\ hints.val

is_fresh(hints, now) ==
    /\ hints # NONE /\ ~hints.noCache /\ ~hints.noStore
    /\ hints.exp # NONE /\ now < hints.exp

\* Seeded fault: policy flags of a 304 are ignored.
MergedKeepsPolicy(hints, u) == hints

\* A Cache-Control header on the 304 replaces the stored policy.
Merged(hints, u) ==
    [hints EXCEPT !.noStore = u.noStore, !.noCache = u.noCache,
                  !.maxAge = IF u.maxAge = NONE THEN @ ELSE u.maxAge]

(* The stored response confirmed by a 304: a window of the 304 wins,       *)
(* otherwise the last stated lifetime, or the default, begins again.       *)
revalidated(hints, h, now) ==
    LET u == from_response_headers(h, hints.ver, now)
        m == IF u # NONE /\ h.cc # NONE THEN Merged(hints, u) ELSE hints
        explicit == u # NONE /\ u.exp # NONE
        restart == ~explicit /\ ~m.noCache /\ ~m.noStore
    IN  [m EXCEPT !.exp = IF explicit THEN u.exp
                          ELSE IF restart THEN now + (IF m.maxAge = NONE THEN DefaultTtl
                                                      ELSE m.maxAge)
                          ELSE @]

\* A placeholder after a failed render: at least the default window.
with_min_expiry(hints, ver, now) ==
    LET h == IF hints # NONE THEN hints
             ELSE [exp |-> NONE, maxAge |-> NONE, val |-> FALSE, ver |-> ver,
                   noStore |-> FALSE, noCache |-> FALSE]
        floor == now + DefaultTtl
    IN  IF h.exp = NONE \/ h.exp < floor THEN [h EXCEPT !.exp = floor] ELSE h

-----------------------------------------------------------------------------
(* The cache string: nothing for a response that must not be stored, a     *)
(* stale epoch for no-cache, and otherwise an expiry, if need be invented. *)
encode(hints, now) ==
    IF hints = NONE \/ hints.noStore THEN NONE
    ELSE [hints EXCEPT !.exp = IF hints.noCache THEN 1
                               ELSE IF @ # NONE THEN @ ELSE now + DefaultTtl]

\* Epoch 0 is the older mark of a response that must not be stored.
decode(wire) ==
    IF wire # NONE /\ wire.exp = 0
    THEN [wire EXCEPT !.exp = NONE, !.noStore = TRUE] ELSE wire

freshness_deadline(wire) ==
    LET h == decode(wire) IN
    IF h = NONE \/ h.noCache \/ h.noStore \/ h.exp = NONE THEN 0 ELSE h.exp

\* How long ordinary lookups may find the entry.
retention_deadline(now, hints) ==
    IF hints = NONE \/ hints.noStore THEN 0
    ELSE Least(now + MaxTtl,
               IF to_conditional(hints) THEN now + RetainTtl
               ELSE IF hints.exp = NONE THEN now + DefaultTtl ELSE hints.exp)

-----------------------------------------------------------------------------
\* Seeded fault: only the pin's own deadline bounds the browser.
pin_max_age_until(wire, until, now) == until - now

(* The seconds a browser may reuse a pinned thumbnail (max-age).           *)
pin_max_age(wire, until, now) ==
    LET h == decode(wire) IN
    IF h = NONE \/ h.noStore \/ h.noCache THEN 0
    ELSE SatSub(Least(IF h.exp = NONE THEN 0 ELSE h.exp, until), now)
=============================================================================
