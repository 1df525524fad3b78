--------------------------- MODULE FreshnessProofs ---------------------------
(***************************************************************************)
(* Proofs about the freshness of thumbnails, for any cooks and clients,    *)
(* any lifetimes and times to live, any number of versions of the source   *)
(* and any policies it may send.                                           *)
(***************************************************************************)
EXTENDS CookFreshness, TLAPS

\* What Cache-Control and its absence may look like.
LEMMA PolicyParts ==
    ASSUME NEW h \in Policies
    PROVE  /\ h.val \in BOOLEAN
           /\ h.cc # NONE => /\ h.cc.maxAge \in (0..LongestLife) \cup {NONE}
                             /\ h.cc.age \in Nat
                             /\ h.cc.noStore \in BOOLEAN
                             /\ h.cc.noCache \in BOOLEAN
  BY FreshnessAssumption DEF Policy

LEMMA Numbers ==
    /\ DefaultTtl \in Nat /\ RetainTtl \in Nat /\ MaxTtl \in Nat /\ LongestLife \in Nat
    /\ NONE \notin Nat /\ PinTtl \in Nat
    /\ Most(LongestLife, DefaultTtl) \in Nat
    /\ LongestLife <= Most(LongestLife, DefaultTtl)
    /\ DefaultTtl <= Most(LongestLife, DefaultTtl)
  BY HintsAssumption, FreshnessAssumption DEF Most

\* The hints of a response state the window the source has allowed.
LEMMA ResponseHints ==
    ASSUME now \in Nat, NEW h \in Policies, NEW v \in Nat, NEW n \in Nat
    PROVE  LET u == from_response_headers(h, v, now) IN
           /\ Recognised(h) => u # NONE
           /\ u # NONE =>
                       /\ u \in Hints /\ u.ver = v
                       /\ u.exp # NONE => (h.cc # NONE /\ h.cc.maxAge # NONE)
                       /\ (u.exp # NONE /\ ~u.noStore /\ ~u.noCache) => u.exp = Allowed(h, n)
                       /\ u.exp = NONE => (h.cc = NONE \/ h.cc.maxAge = NONE)
                       /\ h.cc # NONE => /\ u.noStore = h.cc.noStore
                                         /\ u.noCache = h.cc.noCache
<1> DEFINE u == from_response_headers(h, v, now)
<1>1. Recognised(h) => u \in Hints
    BY PolicyParts, Numbers DEF from_response_headers, Hints, Hint, Remaining, SatSub
<1>2. ~Recognised(h) => u = NONE
    BY DEF from_response_headers
<1>3. NONE \notin Hints
    BY FreshnessAssumption DEF Hints
<1>4. Recognised(h) =>
          /\ u.ver = v
          /\ u.exp # NONE => (h.cc # NONE /\ h.cc.maxAge # NONE)
          /\ (u.exp # NONE /\ ~u.noStore /\ ~u.noCache) => u.exp = Allowed(h, n)
          /\ u.exp = NONE => (h.cc = NONE \/ h.cc.maxAge = NONE)
          /\ h.cc # NONE => u.noStore = h.cc.noStore /\ u.noCache = h.cc.noCache
    BY PolicyParts, Numbers DEF from_response_headers, Allowed, Remaining, SatSub
<1> HIDE DEF u
<1> QED BY <1>1, <1>2, <1>3, <1>4 DEF u

LEMMA AllowedIsNat ==
    ASSUME now \in Nat, NEW h \in Policies, NEW n \in Nat
    PROVE  Allowed(h, n) \in Nat
  BY PolicyParts, Numbers DEF Allowed, SatSub

\* A 304 begins no window that goes beyond what the source has allowed.
LEMMA RevalidatedHints ==
    ASSUME now \in Nat, NEW p \in Hints, NEW h \in Policies
    PROVE  LET q == revalidated(p, h, now) IN
           /\ q \in Hints /\ q.ver = p.ver
           /\ (~q.noStore /\ ~q.noCache) =>
                 /\ q.exp \in Nat
                 /\ q.exp <= Allowed(h, Most(LongestLife, DefaultTtl))
<1> DEFINE u == from_response_headers(h, p.ver, now)
           m == IF u # NONE /\ h.cc # NONE THEN Merged(p, u) ELSE p
           explicit == u # NONE /\ u.exp # NONE
           restart == ~explicit /\ ~m.noCache /\ ~m.noStore
           n == Most(LongestLife, DefaultTtl)
<1>1. p.ver \in Nat
    BY DEF Hints, Hint
<1>2. u # NONE => /\ u \in Hints
                  /\ u.exp # NONE => (h.cc # NONE /\ h.cc.maxAge # NONE)
                  /\ (u.exp # NONE /\ ~u.noStore /\ ~u.noCache) => u.exp = Allowed(h, n)
                  /\ u.exp = NONE => (h.cc = NONE \/ h.cc.maxAge = NONE)
                  /\ h.cc # NONE => u.noStore = h.cc.noStore /\ u.noCache = h.cc.noCache
    BY <1>1, ResponseHints, Numbers
<1>3. u = NONE => (h.cc = NONE \/ (h.cc.maxAge = NONE /\ ~h.cc.noStore /\ ~h.cc.noCache))
  <2>1. Recognised(h) => u # NONE
      BY <1>1, ResponseHints, Numbers
  <2> QED BY <2>1, PolicyParts DEF Recognised
<1> HIDE DEF u
<1>4. m \in Hints /\ m.ver = p.ver
    BY <1>2 DEF Merged, Hints, Hint
<1>5. explicit => m.noStore = u.noStore /\ m.noCache = u.noCache
    BY <1>2 DEF Merged, Hints, Hint
<1>6. restart => now + n <= Allowed(h, n)
    BY <1>2, <1>3, PolicyParts, Numbers DEF Allowed, Merged, Hints, Hint
<1> DEFINE q == revalidated(p, h, now)
<1>7. q = [m EXCEPT !.exp = IF explicit THEN u.exp
                            ELSE IF restart THEN now + (IF m.maxAge = NONE THEN DefaultTtl
                                                        ELSE m.maxAge)
                            ELSE @]
    BY DEF revalidated, u
<1> HIDE DEF m, q
<1>8. CASE explicit
    BY <1>2, <1>4, <1>5, <1>7, <1>8, Numbers DEF q, Hints, Hint
<1>9. CASE restart
  <2>1. (IF m.maxAge = NONE THEN DefaultTtl ELSE m.maxAge) \in 0..n
      BY <1>4, Numbers DEF Hints, Hint
  <2> QED BY <1>4, <1>6, <1>7, <1>9, <2>1, Numbers, AllowedIsNat DEF q, Hints, Hint
<1>10. CASE ~explicit /\ ~restart
    BY <1>4, <1>7, <1>10 DEF q, Hints, Hint
<1> QED BY <1>8, <1>9, <1>10 DEF q

\* The cache string says no more than the hints it is made from.
LEMMA EncodedHints ==
    ASSUME NEW x \in Hints \cup {NONE}, NEW n \in Nat
    PROVE  LET w == encode(x, n) IN
           /\ w \in Hints \cup {NONE}
           /\ w # NONE =>
                 /\ x # NONE /\ w.ver = x.ver
                 /\ freshness_deadline(w) \in Nat
                 /\ freshness_deadline(w) > 0 =>
                       /\ ~x.noStore /\ ~x.noCache
                       /\ freshness_deadline(w) = IF x.exp # NONE THEN x.exp
                                                  ELSE n + DefaultTtl
<1>1. NONE \notin Hints
    BY FreshnessAssumption DEF Hints
<1> DEFINE w == encode(x, n)
<1>2. CASE x = NONE \/ x.noStore
    BY <1>2 DEF encode
<1>3. CASE x # NONE /\ ~x.noStore
  <2>1. w = [x EXCEPT !.exp = IF x.noCache THEN 1 ELSE IF @ # NONE THEN @ ELSE n + DefaultTtl]
      BY <1>3 DEF encode
  <2>2. /\ w \in Hints /\ w.ver = x.ver /\ w.noStore = x.noStore /\ w.noCache = x.noCache
        /\ ~x.noCache => w.exp = IF x.exp # NONE THEN x.exp ELSE n + DefaultTtl
      BY <1>3, <2>1, Numbers DEF Hints, Hint
  <2> HIDE DEF w
  <2>3. /\ freshness_deadline(w) \in Nat
        /\ freshness_deadline(w) > 0 => (~x.noCache /\ freshness_deadline(w) = w.exp)
      BY <1>1, <1>3, <2>2, Numbers DEF freshness_deadline, decode, Hints, Hint
  <2> QED BY <1>3, <2>2, <2>3 DEF w
<1> QED BY <1>2, <1>3

LEMMA DecodedHints ==
    ASSUME NEW w \in Hints
    PROVE  /\ decode(w) \in Hints /\ decode(w).ver = w.ver
           /\ w # NONE /\ decode(w) # NONE
<1>1. NONE \notin Hints
    BY FreshnessAssumption DEF Hints
<1> QED BY <1>1 DEF decode, Hints, Hint

LEMMA DeadlineIsNat ==
    ASSUME NEW w \in Hints \cup {NONE}
    PROVE  freshness_deadline(w) \in Nat
<1>1. CASE w = NONE
    BY <1>1 DEF freshness_deadline, decode
<1>2. CASE w \in Hints
    BY <1>2, DecodedHints DEF freshness_deadline, Hints, Hint
<1> QED BY <1>1, <1>2

-----------------------------------------------------------------------------
\* A new version of the source makes no copy worse.
LEMMA GoodStays ==
    ASSUME NEW n \in Nat, NEW m \in Nat, n <= m
    PROVE  /\ \A c : GoodCopy(c, n) => GoodCopy(c, m)
           /\ \A e : GoodEntry(e, n) => GoodEntry(e, m)
           /\ \A g : GoodAnswer(g, n) => GoodAnswer(g, m)
<1>1. ASSUME NEW c, GoodCopy(c, n)
      PROVE  GoodCopy(c, m)
    BY <1>1 DEF GoodCopy, CopyType
<1>2. ASSUME NEW e, GoodEntry(e, n)
      PROVE  GoodEntry(e, m)
    BY <1>1, <1>2 DEF GoodEntry
<1>3. ASSUME NEW g, GoodAnswer(g, n)
      PROVE  GoodAnswer(g, m)
    BY <1>3 DEF GoodAnswer
<1> QED BY <1>1, <1>2, <1>3

\* A cook that the step leaves alone.
LEMMA GoodCookStays ==
    ASSUME IInv, origin' \in Nat, origin <= origin', NEW q \in Cooks,
           copy'[q] = copy[q], held'[q] = held[q], got'[q] = got[q],
           remote'[q] = remote[q], write'[q] = write[q], pc'[q] = pc[q]
    PROVE  GoodCook(q)'
<1>1. /\ \A c : GoodCopy(c, origin) => GoodCopy(c, origin')
      /\ \A e : GoodEntry(e, origin) => GoodEntry(e, origin')
      /\ \A g : GoodAnswer(g, origin) => GoodAnswer(g, origin')
    BY GoodStays DEF IInv, Shape
<1>2. GoodCook(q)
    BY DEF IInv
<1>3. copy'[q] # NONE => GoodCopy(copy'[q], origin')
    BY <1>1, <1>2 DEF GoodCook
<1>4. held'[q] # NONE => GoodEntry(held'[q], origin')
    BY <1>1, <1>2 DEF GoodCook
<1>5. pc'[q] \in {"render", "post", "join"} => GoodAnswer(got'[q], origin')
    BY <1>1, <1>2 DEF GoodCook
<1>6. pc'[q] \in {"store", "revalidate"} => GoodEntry(write'[q].new, origin')
    BY <1>1, <1>2 DEF GoodCook
<1>7. remote'[q] # NONE => pc'[q] = "post" /\ remote'[q] \in got'[q].ver..origin'
    BY <1>2 DEF GoodCook, GoodAnswer, IInv, Shape
<1> QED BY <1>3, <1>4, <1>5, <1>6, <1>7 DEF GoodCook

\* The same for the row of the cache.
LEMMA GoodRowStays ==
    ASSUME IInv, origin' \in Nat, origin <= origin',
           entry' = NONE \/ entry' = entry \/ GoodEntry(entry', origin')
    PROVE  entry' # NONE => GoodEntry(entry', origin')
  BY GoodStays DEF IInv, Shape

-----------------------------------------------------------------------------
\* The result of a render of a version the source has had since the GET.
LEMMA ResultIsGood ==
    ASSUME Shape, NEW q \in Cooks, GoodAnswer(got[q], origin), NEW b \in Nat, b <= origin, b > 0,
           NEW lent \in BOOLEAN, b >= got[q].ver \/ lent
    PROVE  GoodCopy(Result(q, b, lent), origin) /\ GoodEntry(Put(q, b, lent).new, origin)
<1> DEFINE g == got[q]
           w == encode(g.hints, now)
           a == IF Untimed(g.hints) THEN now + DefaultTtl ELSE g.allowed
<1>1. g.hints \in Hints \cup {NONE} /\ g.allowed \in Nat /\ now \in Nat
    BY DEF GoodAnswer, Shape
<1>2. /\ w \in Hints \cup {NONE}
      /\ w # NONE =>
            /\ g.hints # NONE /\ w.ver = g.hints.ver
            /\ freshness_deadline(w) \in Nat
            /\ freshness_deadline(w) > 0 =>
                  /\ ~g.hints.noStore /\ ~g.hints.noCache
                  /\ freshness_deadline(w) = IF g.hints.exp # NONE THEN g.hints.exp
                                             ELSE now + DefaultTtl
    BY <1>1, EncodedHints
<1>3. a \in Nat
    BY <1>1, Numbers
<1> HIDE DEF w
<1>4. w # NONE => (w.ver = g.ver /\ freshness_deadline(w) <= a)
  <2> SUFFICES ASSUME w # NONE
               PROVE  w.ver = g.ver /\ freshness_deadline(w) <= a
      OBVIOUS
  <2>1. w.ver = g.ver
      BY <1>2 DEF GoodAnswer
  <2>2. CASE freshness_deadline(w) = 0
      BY <1>3, <2>1, <2>2
  <2>3. CASE freshness_deadline(w) > 0
      BY <1>1, <1>2, <2>1, <2>3, Numbers DEF GoodAnswer, Untimed
  <2> QED BY <1>2, <2>2, <2>3
<1> HIDE DEF a
<1>5. Result(q, b, lent) = [bytes |-> b, wire |-> w, allowed |-> a, lent |-> lent]
    BY DEF Result, Copy, w, a
<1>6. GoodCopy(Result(q, b, lent), origin)
    BY <1>2, <1>3, <1>4, <1>5 DEF GoodCopy, CopyType
<1>7. Put(q, b, lent).new.until \in Nat
    BY <1>1, Numbers DEF Put, retention_deadline, Least, Hints, Hint
<1>8. GoodEntry(Put(q, b, lent).new, origin)
    BY <1>5, <1>6, <1>7 DEF GoodEntry, EntryType, Put, Placeholder, GoodCopy
<1> QED BY <1>6, <1>8

LEMMA TouchedIsGood ==
    ASSUME Shape, entry # NONE, GoodEntry(entry, origin)
    PROVE  GoodEntry(Touched, origin) /\ Touched.copy = entry.copy
  BY Numbers DEF Shape, GoodEntry, EntryType, Touched, Most

-----------------------------------------------------------------------------
LEMMA SourceInv ==
    ASSUME IInv, Publish \/ Tick \/ Evict
    PROVE  IInv'
<1>1. origin' \in Nat \ {0} /\ origin <= origin' /\ now' \in Nat
    BY DEF IInv, Shape, Publish, Tick, Evict
<1>2. /\ UNCHANGED <<waiters, pc, copy, held, got, remote, write>>
      /\ entry' = entry \/ entry' = NONE
    BY DEF Publish, Tick, Evict, cookvars
<1>3. Shape'
    BY <1>1, <1>2 DEF IInv, Shape, PerCook
<1>4. \A q \in Cooks : GoodCook(q)'
    BY <1>1, <1>2, GoodCookStays
<1>5. entry' # NONE => GoodEntry(entry', origin')
    BY <1>1, <1>2, GoodRowStays
<1> QED BY <1>3, <1>4, <1>5 DEF IInv

LEMMA ServeEntryInv ==
    ASSUME IInv, NEW r \in Cooks, ServeEntry(r)
    PROVE  IInv'
<1>1. /\ origin' = origin /\ origin' \in Nat /\ origin <= origin'
      /\ UNCHANGED <<now, waiters, pc, held, got, remote, write>>
    BY DEF ServeEntry, IInv, Shape
<1>2. GoodEntry(entry, origin) /\ entry # NONE
    BY DEF ServeEntry, FoundFresh, Found, IInv
<1>3. entry' # NONE => GoodEntry(entry', origin')
    BY <1>1, <1>2, TouchedIsGood, GoodRowStays DEF ServeEntry, IInv
<1>4. copy' = [copy EXCEPT ![r] = Given(r, entry.copy)]
    BY DEF ServeEntry, Give
<1>5. Shape'
    BY <1>1, <1>4 DEF IInv, Shape, PerCook
<1>6. GoodCook(r)'
  <2>1. copy'[r] # NONE => copy'[r] = entry.copy
      BY <1>4 DEF Given, IInv, Shape, PerCook
  <2>2. copy'[r] # NONE => GoodCopy(copy'[r], origin')
      BY <1>1, <1>2, <2>1, GoodStays DEF GoodEntry, IInv, Shape
  <2>3. pc[r] = "idle" /\ pc'[r] = "idle" /\ held'[r] = held[r] /\ remote'[r] = NONE
      BY <1>1 DEF ServeEntry, IInv, GoodCook
  <2>4. held'[r] # NONE => GoodEntry(held'[r], origin')
      BY <1>1, <2>3, GoodStays DEF IInv, Shape, GoodCook
  <2> QED BY <2>2, <2>3, <2>4 DEF GoodCook
<1>7. \A q \in Cooks \ {r} : GoodCook(q)'
    BY <1>1, <1>4, GoodCookStays
<1> QED BY <1>3, <1>5, <1>6, <1>7 DEF IInv

LEMMA CheckEntryInv ==
    ASSUME IInv, NEW r \in Cooks, CheckEntry(r)
    PROVE  IInv'
<1>1. /\ origin' = origin /\ origin' \in Nat /\ origin <= origin'
      /\ UNCHANGED <<now, waiters, copy, got, remote, write>>
    BY DEF CheckEntry, IInv, Shape
<1>2. Found => GoodEntry(Touched, origin)
    BY TouchedIsGood DEF Found, IInv
<1>3. entry' # NONE => GoodEntry(entry', origin')
    BY <1>1, <1>2, GoodRowStays DEF CheckEntry
<1>4. /\ pc[r] = "idle" /\ pc' = [pc EXCEPT ![r] = "connect"]
      /\ \E e : held' = [held EXCEPT ![r] = e] /\ (e # NONE => GoodEntry(e, origin))
    BY <1>2 DEF CheckEntry
<1>5. Shape'
    BY <1>1, <1>4 DEF IInv, Shape, PerCook
<1>6. GoodCook(r)'
  <2>1. copy'[r] = copy[r] /\ pc'[r] = "connect" /\ remote'[r] = NONE
      BY <1>1, <1>4 DEF IInv, Shape, GoodCook
  <2>2. copy'[r] # NONE => GoodCopy(copy'[r], origin')
      BY <1>1, <2>1, GoodStays DEF IInv, Shape, GoodCook
  <2>3. held'[r] # NONE => GoodEntry(held'[r], origin')
      BY <1>1, <1>4, GoodStays DEF IInv, Shape, PerCook
  <2> QED BY <2>1, <2>2, <2>3 DEF GoodCook
<1>7. \A q \in Cooks \ {r} : GoodCook(q)'
    BY <1>1, <1>4, GoodCookStays
<1> QED BY <1>3, <1>5, <1>6, <1>7 DEF IInv

-----------------------------------------------------------------------------
\* A step of one cook, which leaves the others as they are.
LEMMA OneCook ==
    ASSUME IInv, NEW r \in Cooks, origin' = origin, Shape',
           entry' = NONE \/ entry' = entry \/ GoodEntry(entry', origin'),
           \A q \in Cooks \ {r} : /\ copy'[q] = copy[q] /\ held'[q] = held[q]
                                 /\ got'[q] = got[q] /\ remote'[q] = remote[q]
                                 /\ write'[q] = write[q] /\ pc'[q] = pc[q],
           GoodCook(r)'
    PROVE  IInv'
<1>1. origin' \in Nat /\ origin <= origin'
    BY DEF IInv, Shape
<1>2. \A q \in Cooks \ {r} : GoodCook(q)'
    BY <1>1, GoodCookStays
<1>3. entry' # NONE => GoodEntry(entry', origin')
    BY <1>1, GoodRowStays
<1> QED BY <1>2, <1>3 DEF IInv

\* What a copy becomes when a 304 confirms the response it was made from.
LEMMA ConfirmedCopy ==
    ASSUME Shape, NEW c, GoodCopy(c, origin), c.wire # NONE, NEW h \in Policies
    PROVE  LET hints == revalidated(decode(c.wire), h, now) IN
           /\ GoodCopy([c EXCEPT !.wire = encode(hints, now),
                                 !.allowed = Allowed(h, Most(LongestLife, DefaultTtl))],
                       origin)
           /\ retention_deadline(now, hints) \in Nat
<1> DEFINE p == decode(c.wire)
           x == revalidated(p, h, now)
           w == encode(x, now)
           a == Allowed(h, Most(LongestLife, DefaultTtl))
<1>1. now \in Nat /\ c.wire \in Hints /\ c \in CopyType
    BY DEF Shape, GoodCopy, CopyType
<1>2. p \in Hints /\ p.ver = c.wire.ver
    BY <1>1, DecodedHints
<1> HIDE DEF p
<1>3. /\ x \in Hints /\ x.ver = p.ver
      /\ (~x.noStore /\ ~x.noCache) => (x.exp \in Nat /\ x.exp <= a)
    BY <1>1, <1>2, RevalidatedHints
<1> HIDE DEF x
<1>4. a \in Nat
    BY <1>1, Numbers, AllowedIsNat
<1>5. /\ w \in Hints \cup {NONE}
      /\ w # NONE => /\ w.ver = x.ver
                     /\ freshness_deadline(w) \in Nat
                     /\ freshness_deadline(w) > 0 =>
                           /\ ~x.noStore /\ ~x.noCache
                           /\ freshness_deadline(w) = IF x.exp # NONE THEN x.exp
                                                      ELSE now + DefaultTtl
    BY <1>1, <1>3, EncodedHints
<1> HIDE DEF w, a
<1>6. w # NONE => (w.ver = c.wire.ver /\ freshness_deadline(w) <= a)
    BY <1>2, <1>3, <1>4, <1>5, Numbers
<1>7. GoodCopy([c EXCEPT !.wire = w, !.allowed = a], origin)
    BY <1>1, <1>4, <1>5, <1>6 DEF GoodCopy, CopyType
<1>8. retention_deadline(now, x) \in Nat
    BY <1>1, <1>3, Numbers DEF retention_deadline, Least, Hints, Hint
<1> QED BY <1>7, <1>8 DEF w, a, x, p

\* A 304 is about the bytes the validator was taken from.
LEMMA ValidatorIsOfVouched ==
    ASSUME NEW r \in Cooks, to_conditional(prior(r))
    PROVE  /\ prior(r) = decode(Vouched(r).wire)
           /\ Vouched(r).wire # NONE
           /\ held[r] = NONE => copy[r] # NONE
  BY DEF prior, Validator, Own, Vouched, to_conditional, decode

LEMMA Connect304Inv ==
    ASSUME IInv, NEW r \in Cooks, NEW h \in Policies, Connect304(r, h)
    PROVE  IInv'
<1> DEFINE hints == revalidated(prior(r), h, now)
           wire == encode(hints, now)
           until == Allowed(h, Most(LongestLife, DefaultTtl))
           same == [copy[r] EXCEPT !.wire = wire, !.allowed = until]
           kept == [held[r].copy EXCEPT !.wire = wire, !.allowed = until]
           new == [held[r] EXCEPT !.copy = kept, !.until = retention_deadline(now, hints)]
<1>1. GoodCook(r) /\ Shape
    BY DEF IInv
<1>2. to_conditional(prior(r))
    BY DEF Connect304, Confirmed
<1>3. CASE held[r] # NONE
  <2>1. GoodEntry(held[r], origin)
      BY <1>1, <1>3 DEF GoodCook
  <2>2. GoodCopy(kept, origin) /\ kept.bytes = held[r].copy.bytes
        /\ retention_deadline(now, hints) \in Nat
      BY <1>1, <1>2, <1>3, <2>1, ValidatorIsOfVouched, ConfirmedCopy
      DEF Vouched, GoodEntry, EntryType, CopyType
  <2> HIDE DEF hints, wire, until, kept
  <2>3. GoodEntry(new, origin)
      BY <2>1, <2>2 DEF GoodEntry, EntryType, GoodCopy
  <2> HIDE DEF new
  <2>4. /\ write' = [write EXCEPT ![r] = [old |-> held[r].copy.wire, new |-> new]]
        /\ copy' = [copy EXCEPT ![r] = Given(r, kept)]
        /\ pc[r] = "connect" /\ pc' = [pc EXCEPT ![r] = "revalidate"]
        /\ held' = [held EXCEPT ![r] = NONE]
        /\ UNCHANGED <<now, origin, entry, slot, waiters, got, remote>>
      BY <1>3 DEF Connect304, Give, new, kept, hints, wire, until
  <2>5. Shape'
      BY <1>1, <2>4 DEF Shape, PerCook
  <2>6. copy'[r] # NONE => GoodCopy(copy'[r], origin')
      BY <1>1, <2>2, <2>3, <2>4 DEF Given, Shape, PerCook
  <2>7. GoodCook(r)'
      BY <1>1, <2>3, <2>4, <2>6 DEF GoodCook, Shape, PerCook
  <2> QED BY <2>4, <2>5, <2>7, OneCook
<1>4. CASE held[r] = NONE
  <2>1. copy[r] # NONE /\ GoodCopy(copy[r], origin)
      BY <1>1, <1>2, <1>4, ValidatorIsOfVouched DEF GoodCook
  <2>2. GoodCopy(same, origin)
      BY <1>1, <1>2, <1>4, <2>1, ValidatorIsOfVouched, ConfirmedCopy DEF Vouched
  <2>3. /\ copy' = [copy EXCEPT ![r] = Given(r, same)]
        /\ pc[r] = "connect" /\ pc' = [pc EXCEPT ![r] = "idle"]
        /\ held' = [held EXCEPT ![r] = NONE]
        /\ UNCHANGED <<now, origin, entry, slot, waiters, got, remote, write>>
      BY <1>4 DEF Connect304, Give
  <2> HIDE DEF same
  <2>4. Shape'
      BY <1>1, <2>3 DEF Shape, PerCook
  <2>5. copy'[r] # NONE => GoodCopy(copy'[r], origin')
      BY <1>1, <2>2, <2>3 DEF Given, Shape, PerCook
  <2>6. GoodCook(r)'
      BY <1>1, <2>3, <2>5 DEF GoodCook, Shape, PerCook
  <2> QED BY <2>3, <2>4, <2>6, OneCook
<1> QED BY <1>3, <1>4

LEMMA Connect200Inv ==
    ASSUME IInv, NEW r \in Cooks, NEW h \in Policies, Connect200(r, h)
    PROVE  IInv'
<1> DEFINE u == from_response_headers(h, origin, now)
           g == [ver |-> origin, hints |-> u, allowed |-> Allowed(h, 0)]
<1>1. GoodCook(r) /\ Shape
    BY DEF IInv
<1>2. u # NONE => /\ u \in Hints /\ u.ver = origin
                  /\ (u.exp # NONE /\ ~u.noStore /\ ~u.noCache) => u.exp = Allowed(h, 0)
    BY <1>1, ResponseHints DEF Shape
<1>3. Allowed(h, 0) \in Nat
    BY <1>1, AllowedIsNat DEF Shape
<1> HIDE DEF u
<1>4. GoodAnswer(g, origin)
    BY <1>1, <1>2, <1>3 DEF GoodAnswer, Shape
<1>5. /\ got' = [got EXCEPT ![r] = g]
      /\ pc[r] = "connect" /\ pc' = [pc EXCEPT ![r] = "render"]
      /\ held' = [held EXCEPT ![r] = NONE]
      /\ UNCHANGED <<now, origin, entry, slot, waiters, copy, remote, write>>
    BY DEF Connect200, u
<1> HIDE DEF g
<1>6. Shape'
    BY <1>1, <1>5 DEF Shape, PerCook
<1>7. GoodCook(r)'
    BY <1>1, <1>4, <1>5 DEF GoodCook, Shape, PerCook
<1> QED BY <1>5, <1>6, <1>7, OneCook

-----------------------------------------------------------------------------
LEMMA RenderLocalInv ==
    ASSUME IInv, NEW r \in Cooks, RenderLocal(r)
    PROVE  IInv'
<1>1. GoodCook(r) /\ Shape /\ pc[r] = "render"
    BY DEF IInv, RenderLocal
<1>2. GoodAnswer(got[r], origin)
    BY <1>1 DEF GoodCook
<1>3. PICK b \in got[r].ver..origin :
          /\ copy' = [copy EXCEPT ![r] = Given(r, Result(r, b, FALSE))]
          /\ write' = [write EXCEPT ![r] = Put(r, b, FALSE)]
    BY DEF RenderLocal, Give
<1>4. b \in Nat /\ b > 0 /\ b <= origin /\ b >= got[r].ver
    BY <1>1, <1>2 DEF GoodAnswer, Shape
<1>5. GoodCopy(Result(r, b, FALSE), origin) /\ GoodEntry(Put(r, b, FALSE).new, origin)
    BY <1>1, <1>2, <1>4, ResultIsGood
<1>6. /\ got' = [got EXCEPT ![r] = NONE] /\ pc' = [pc EXCEPT ![r] = "store"]
      /\ UNCHANGED <<now, origin, entry, slot, waiters, held, remote>>
    BY DEF RenderLocal
<1>7. Shape'
    BY <1>1, <1>3, <1>6 DEF Shape, PerCook
<1>8. copy'[r] # NONE => GoodCopy(copy'[r], origin')
    BY <1>1, <1>3, <1>5, <1>6 DEF Given, Shape, PerCook
<1>9. GoodEntry(write'[r].new, origin')
    BY <1>1, <1>3, <1>5, <1>6 DEF Shape, PerCook
<1>10. /\ pc'[r] = "store" /\ remote'[r] = NONE
       /\ held'[r] # NONE => GoodEntry(held'[r], origin')
    BY <1>1, <1>6 DEF GoodCook, Shape
<1>11. GoodCook(r)'
    BY <1>8, <1>9, <1>10 DEF GoodCook
<1>12. \A q \in Cooks \ {r} : /\ copy'[q] = copy[q] /\ held'[q] = held[q]
                              /\ got'[q] = got[q] /\ remote'[q] = remote[q]
                              /\ write'[q] = write[q] /\ pc'[q] = pc[q]
    BY <1>1, <1>3, <1>6 DEF Shape, PerCook
<1> QED BY <1>6, <1>7, <1>11, <1>12, OneCook

LEMMA HandoffInv ==
    ASSUME IInv, NEW r \in Cooks, Handoff(r)
    PROVE  IInv'
<1>1. GoodCook(r) /\ Shape /\ pc[r] = "render"
    BY DEF IInv, Handoff
<1>2. /\ \E p \in {"join", "post"} : /\ pc' = [pc EXCEPT ![r] = p]
                                     /\ p = "join" => waiters' = waiters \cup {r}
                                     /\ p = "post" => waiters' = waiters
      /\ UNCHANGED <<now, origin, entry, copy, held, got, remote, write>>
    BY DEF Handoff
<1>3. Shape'
    BY <1>1, <1>2 DEF Shape, PerCook
<1>4. remote[r] = NONE
    BY <1>1 DEF IInv, GoodCook
<1>5. GoodCook(r)'
    BY <1>1, <1>2, <1>4 DEF GoodCook, Shape
<1> QED BY <1>2, <1>3, <1>5, OneCook

LEMMA RemoteFetchInv ==
    ASSUME IInv, NEW r \in Cooks, RemoteFetch(r)
    PROVE  IInv'
<1>1. GoodCook(r) /\ Shape
    BY DEF IInv
<1>2. /\ pc[r] = "post" /\ remote' = [remote EXCEPT ![r] = origin]
      /\ UNCHANGED <<now, origin, entry, slot, waiters, pc, copy, held, got, write>>
    BY DEF RemoteFetch
<1>3. Shape'
    BY <1>1, <1>2 DEF Shape, PerCook
<1>4. origin \in got[r].ver..origin
    BY <1>1, <1>2 DEF GoodCook, GoodAnswer, Shape
<1>5. GoodCook(r)'
    BY <1>1, <1>2, <1>4 DEF GoodCook, Shape, PerCook
<1> QED BY <1>2, <1>3, <1>5, OneCook

(* The one step of several cooks: the joiners take over a version that is  *)
(* perhaps older than their own response, and are marked for it.           *)
LEMMA PostReturnsInv ==
    ASSUME IInv, NEW r \in Cooks, PostReturns(r)
    PROVE  IInv'
<1> DEFINE all == {r} \cup waiters
           b == remote[r]
<1>1. GoodCook(r) /\ Shape /\ pc[r] = "post" /\ b # NONE
    BY DEF IInv, PostReturns
<1>2. GoodAnswer(got[r], origin) /\ b \in got[r].ver..origin
    BY <1>1 DEF GoodCook
<1>3. b \in Nat /\ b > 0 /\ b <= origin /\ b >= got[r].ver
    BY <1>1, <1>2 DEF GoodAnswer, Shape
<1>4. /\ copy' = [q \in Cooks |-> IF q \in all THEN Given(q, Result(q, b, q # r)) ELSE copy[q]]
      /\ write' = [q \in Cooks |-> IF q \in all THEN Put(q, b, q # r) ELSE write[q]]
      /\ got' = [q \in Cooks |-> IF q \in all THEN NONE ELSE got[q]]
      /\ pc' = [q \in Cooks |-> IF q \in all THEN "store" ELSE pc[q]]
      /\ remote' = [remote EXCEPT ![r] = NONE] /\ waiters' = {}
      /\ UNCHANGED <<now, origin, entry, held>>
    BY DEF PostReturns
<1>5. Shape'
    BY <1>1, <1>4 DEF Shape, PerCook
<1>6. origin' \in Nat /\ origin <= origin'
    BY <1>1, <1>4 DEF Shape
<1>7. \A q \in Cooks \ all : GoodCook(q)'
    BY <1>1, <1>4, <1>6, GoodCookStays DEF Shape, PerCook
<1>8. ASSUME NEW q \in all
      PROVE  GoodCook(q)'
  <2>1. q \in Cooks /\ GoodCook(q) /\ pc[q] \in {"post", "join"}
      BY <1>1 DEF IInv, Shape
  <2>2. GoodAnswer(got[q], origin)
      BY <2>1 DEF GoodCook
  <2>3. b >= got[q].ver \/ q # r
      BY <1>3
  <2>4. /\ GoodCopy(Result(q, b, q # r), origin)
        /\ GoodEntry(Put(q, b, q # r).new, origin)
    <3>1. (q # r) \in BOOLEAN
        OBVIOUS
    <3> QED BY <1>1, <1>3, <2>1, <2>2, <2>3, <3>1, ResultIsGood
  <2>5. copy'[q] # NONE => GoodCopy(copy'[q], origin')
      BY <1>4, <2>1, <2>4 DEF Given
  <2>6. GoodEntry(write'[q].new, origin')
      BY <1>4, <2>1, <2>4
  <2>7. held[q] # NONE => GoodEntry(held'[q], origin')
      BY <1>4, <2>1 DEF GoodCook
  <2>8. remote'[q] = NONE
      BY <1>1, <1>4, <2>1 DEF GoodCook, Shape, PerCook
  <2> QED BY <1>4, <2>1, <2>5, <2>6, <2>7, <2>8 DEF GoodCook
<1>9. entry' # NONE => GoodEntry(entry', origin')
    BY <1>4, <1>6, GoodRowStays
<1> QED BY <1>5, <1>7, <1>8, <1>9 DEF IInv

LEMMA FallbackInv ==
    ASSUME IInv, NEW r \in Cooks, Fallback(r)
    PROVE  IInv'
<1> DEFINE hints == with_min_expiry(got[r].hints, got[r].ver, now)
           c == Copy(Placeholder, encode(hints, now), now + DefaultTtl, FALSE)
<1>1. GoodCook(r) /\ Shape /\ pc[r] = "render"
    BY DEF IInv, Fallback
<1>2. GoodAnswer(got[r], origin)
    BY <1>1 DEF GoodCook
<1>3. hints \in Hints
  <2>1. /\ got[r].hints = NONE \/ (got[r].hints \in Hints /\ got[r].hints # NONE)
        /\ got[r].ver \in Nat /\ now + DefaultTtl \in Nat
      BY <1>1, <1>2, Numbers DEF GoodAnswer, Shape
  <2>2. CASE got[r].hints = NONE
      BY <2>1, <2>2, Numbers DEF with_min_expiry, Hints, Hint
  <2>3. CASE got[r].hints \in Hints /\ got[r].hints # NONE
      BY <2>1, <2>3, Numbers DEF with_min_expiry, Hints, Hint
  <2> QED BY <2>1, <2>2, <2>3
<1> HIDE DEF hints
<1>4. encode(hints, now) \in Hints \cup {NONE}
    BY <1>1, <1>3, EncodedHints DEF Shape
<1>5. GoodCopy(c, origin)
    BY <1>1, <1>4, Numbers DEF GoodCopy, CopyType, Copy, Placeholder, Shape
<1>6. /\ copy' = [copy EXCEPT ![r] = Given(r, c)]
      /\ got' = [got EXCEPT ![r] = NONE] /\ pc' = [pc EXCEPT ![r] = "idle"]
      /\ UNCHANGED <<now, origin, entry, slot, waiters, held, remote, write>>
    BY DEF Fallback, Give, hints
<1> HIDE DEF c
<1>7. Shape'
    BY <1>1, <1>6 DEF Shape, PerCook
<1>8. copy'[r] # NONE => GoodCopy(copy'[r], origin')
    BY <1>1, <1>5, <1>6 DEF Given, Shape, PerCook
<1>9. GoodCook(r)'
    BY <1>1, <1>6, <1>8 DEF GoodCook, Shape, PerCook
<1> QED BY <1>6, <1>7, <1>9, OneCook

-----------------------------------------------------------------------------
\* Only the pin of an entry changes when it is written.
LEMMA PinnedIsGood ==
    ASSUME NEW e, GoodEntry(e, origin), NEW n \in Nat
    PROVE  LET w == Retained([e EXCEPT !.pin = n]) IN w = NONE \/ GoodEntry(w, origin)
  BY DEF Retained, GoodEntry, EntryType

LEMMA WrittenInv ==
    ASSUME IInv, NEW r \in Cooks, pc[r] \in {"store", "revalidate"},
           entry' = NONE \/ entry' = entry \/ GoodEntry(entry', origin),
           write' = [write EXCEPT ![r] = NONE], pc' = [pc EXCEPT ![r] = "idle"],
           UNCHANGED <<now, origin, slot, waiters, copy, held, got, remote>>
    PROVE  IInv'
<1>1. GoodCook(r) /\ Shape
    BY DEF IInv
<1>2. Shape'
    BY <1>1 DEF Shape, PerCook
<1>3. GoodCook(r)'
    BY <1>1 DEF GoodCook, Shape
<1> QED BY <1>2, <1>3, OneCook

LEMMA StoreInv ==
    ASSUME IInv, NEW r \in Cooks, Store(r)
    PROVE  IInv'
<1>1. GoodEntry(write[r].new, origin) /\ Shape /\ pc[r] = "store"
    BY DEF IInv, GoodCook, Store
<1> DEFINE pin == Most(IF entry = NONE THEN 0 ELSE entry.pin, now + PinTtl)
<1>2. pin \in Nat
    BY <1>1, Numbers DEF IInv, GoodEntry, EntryType, Most, Shape
<1>3. entry' = Retained([write[r].new EXCEPT !.pin = pin])
    BY DEF Store
<1> HIDE DEF pin
<1>4. entry' = NONE \/ GoodEntry(entry', origin)
    BY <1>1, <1>2, <1>3, PinnedIsGood
<1> QED BY <1>1, <1>4, WrittenInv DEF Store

LEMMA RevalidateInv ==
    ASSUME IInv, NEW r \in Cooks, Revalidate(r)
    PROVE  IInv'
<1>1. GoodEntry(write[r].new, origin) /\ Shape /\ pc[r] = "revalidate"
    BY DEF IInv, GoodCook, Revalidate
<1>2. CASE entry = NONE
  <2>1. entry' = NONE \/ GoodEntry(entry', origin)
      BY <1>1, <1>2 DEF Revalidate, Retained
  <2> QED BY <1>1, <2>1, WrittenInv DEF Revalidate
<1>3. CASE entry # NONE /\ entry.copy.wire # write[r].old
    BY <1>1, <1>3, WrittenInv DEF Revalidate
<1>4. CASE entry # NONE /\ entry.copy.wire = write[r].old
  <2> DEFINE pin == Most(write[r].new.pin, entry.pin)
  <2>1. pin \in Nat
      BY <1>1, <1>4 DEF IInv, GoodEntry, EntryType, Most
  <2>2. entry' = Retained([write[r].new EXCEPT !.pin = pin])
      BY <1>4 DEF Revalidate
  <2> HIDE DEF pin
  <2>3. entry' = NONE \/ GoodEntry(entry', origin)
      BY <1>1, <2>1, <2>2, PinnedIsGood
  <2> QED BY <1>1, <2>3, WrittenInv DEF Revalidate
<1> QED BY <1>2, <1>3, <1>4

LEMMA LeaveInv ==
    ASSUME IInv, NEW r \in Cooks, Leave(r)
    PROVE  IInv'
<1>1. GoodCook(r) /\ Shape
    BY DEF IInv
<1>2. /\ pc' = [pc EXCEPT ![r] = "idle"] /\ waiters' = waiters \ {r}
      /\ held' = [held EXCEPT ![r] = NONE] /\ got' = [got EXCEPT ![r] = NONE]
      /\ remote' = [remote EXCEPT ![r] = NONE] /\ write' = [write EXCEPT ![r] = NONE]
      /\ UNCHANGED <<now, origin, entry, slot, copy>>
    BY DEF Leave
<1>3. Shape'
    BY <1>1, <1>2 DEF Shape, PerCook
<1>4. GoodCook(r)'
    BY <1>1, <1>2 DEF GoodCook, Shape, PerCook
<1> QED BY <1>2, <1>3, <1>4, OneCook

-----------------------------------------------------------------------------
\* The invariant the three theorems follow from.
THEOREM IInvHolds == Spec => []IInv
<1>1. Init => IInv
    BY FreshnessAssumption DEF Init, IInv, Shape, PerCook, GoodCook
<1>2. IInv /\ [Next]_vars => IInv'
  <2> SUFFICES ASSUME IInv, [Next]_vars
               PROVE  IInv'
      OBVIOUS
  <2>1. CASE UNCHANGED vars
    <3>1. Shape'
        BY <2>1 DEF IInv, Shape, PerCook, vars, cookvars
    <3>2. \A q \in Cooks : GoodCook(q)'
        BY <2>1, GoodCookStays DEF IInv, Shape, vars, cookvars
    <3> QED BY <2>1, <3>1, <3>2 DEF IInv, vars, cookvars
  <2>2. ASSUME NEW r \in Cooks, ServeEntry(r) \/ CheckEntry(r)
        PROVE  IInv'
      BY <2>2, ServeEntryInv, CheckEntryInv
  <2>3. ASSUME NEW r \in Cooks, NEW h \in Policies, Connect304(r, h) \/ Connect200(r, h)
        PROVE  IInv'
      BY <2>3, Connect304Inv, Connect200Inv
  <2>4. ASSUME NEW r \in Cooks, RenderLocal(r) \/ Handoff(r) \/ RemoteFetch(r)
        PROVE  IInv'
      BY <2>4, RenderLocalInv, HandoffInv, RemoteFetchInv
  <2>5. ASSUME NEW r \in Cooks, PostReturns(r) \/ Fallback(r)
        PROVE  IInv'
      BY <2>5, PostReturnsInv, FallbackInv
  <2>6. ASSUME NEW r \in Cooks, Store(r) \/ Revalidate(r) \/ Leave(r)
        PROVE  IInv'
      BY <2>6, StoreInv, RevalidateInv, LeaveInv
  <2>7. CASE Publish \/ Tick \/ Evict
      BY <2>7, SourceInv
  <2> QED BY <2>1, <2>2, <2>3, <2>4, <2>5, <2>6, <2>7 DEF Next
<1> QED BY <1>1, <1>2, PTL DEF Spec

(* Every copy with a cache string is at least as new as the version the    *)
(* string describes, unless a joiner took it over (cook.rs,                *)
(* resolve_cache, maybe_handoff and the deferred writes).                  *)
THEOREM BytesMatchTheirHints == Spec => []CopiesHonest
<1>1. IInv => CopiesHonest
    BY DEF IInv, GoodCook, GoodEntry, GoodCopy, CopiesHonest, Copies
<1> QED BY <1>1, IInvHolds, PTL

(* Nothing is reused unasked beyond the time the source has allowed for    *)
(* it: the client's fresh copy, the fresh entry and the browser's pinned   *)
(* thumbnail (cook.rs, check_client_fresh and check_entry; http_cache.rs,  *)
(* freshness_deadline and pin_max_age).                                    *)
THEOREM NoReuseBeyondGrant == Spec => []ServedWithinGrant
<1>1. IInv => ServedWithinGrant
  <2> SUFFICES ASSUME IInv
               PROVE  ServedWithinGrant
      OBVIOUS
  <2>1. ASSUME NEW r \in Cooks, is_fresh(Own(r), now), copy[r].bytes # Placeholder
        PROVE  now < copy[r].allowed
    <3>1. copy[r] # NONE /\ copy[r].wire # NONE /\ GoodCopy(copy[r], origin) /\ now \in Nat
        BY <2>1 DEF IInv, Shape, GoodCook, Own, is_fresh, decode
    <3>2. copy[r].wire \in Hints /\ copy[r].allowed \in Nat
          /\ freshness_deadline(copy[r].wire) <= copy[r].allowed
        BY <2>1, <3>1 DEF GoodCopy, CopyType
    <3>3. now < freshness_deadline(copy[r].wire)
        BY <2>1, <3>1 DEF is_fresh, Own, freshness_deadline
    <3> QED BY <3>1, <3>2, <3>3, DeadlineIsNat
  <2>2. ASSUME entry # NONE
        PROVE  /\ entry.pin \in Nat /\ entry.copy.allowed \in Nat
               /\ entry.copy.wire \in Hints \cup {NONE}
               /\ entry.copy.wire # NONE =>
                      freshness_deadline(entry.copy.wire) <= entry.copy.allowed
      BY <2>2 DEF IInv, GoodEntry, GoodCopy, EntryType, CopyType
  <2>3. ASSUME FoundFresh
        PROVE  now < entry.copy.allowed
    <3>1. entry.copy.wire # NONE
        BY <2>3 DEF FoundFresh, freshness_deadline, decode, IInv, Shape
    <3> QED BY <2>2, <2>3, <3>1, DeadlineIsNat DEF FoundFresh, Found, IInv, Shape
  <2>4. ASSUME Pinned, PinReuse > 0
        PROVE  now + PinReuse <= entry.copy.allowed
    <3> DEFINE h == decode(entry.copy.wire)
    <3>1. now \in Nat /\ entry # NONE
        BY <2>4 DEF Pinned, IInv, Shape
    <3>2. h # NONE /\ ~h.noStore /\ ~h.noCache /\ entry.copy.wire # NONE
        BY <2>4 DEF PinReuse, pin_max_age, decode
    <3> DEFINE d == freshness_deadline(entry.copy.wire)
    <3>3. PinReuse = SatSub(Least(d, entry.pin), now)
        BY <3>2 DEF PinReuse, pin_max_age, freshness_deadline
    <3>4. entry.pin \in Nat /\ entry.copy.allowed \in Nat
          /\ d \in Nat /\ d <= entry.copy.allowed
        BY <2>2, <3>1, <3>2, DeadlineIsNat
    <3> HIDE DEF d
    <3> QED BY <2>4, <3>1, <3>3, <3>4 DEF SatSub, Least
  <2> QED BY <2>1, <2>3, <2>4 DEF ServedWithinGrant
<1> QED BY <1>1, IInvHolds, PTL

(* A 304 vouches for the version the source serves (cook.rs,               *)
(* handle_not_modified).                                                   *)
THEOREM ConfirmedIsCurrent == Spec => []NotModifiedServesOwnRender
<1>1. IInv => NotModifiedServesOwnRender
  <2> SUFFICES ASSUME IInv, NEW r \in Cooks, pc[r] = "connect", Confirmed(r),
                      ~Vouched(r).lent, ~(held[r] = NONE /\ copy[r].bytes = Placeholder)
               PROVE  Vouched(r).bytes = origin
      BY DEF NotModifiedServesOwnRender
  <2> DEFINE c == Vouched(r)
  <2>1. /\ prior(r) = decode(c.wire) /\ c.wire # NONE
        /\ held[r] = NONE => copy[r] # NONE
      BY ValidatorIsOfVouched DEF Confirmed
  <2>2. GoodCopy(c, origin) /\ c.bytes # Placeholder
      BY <2>1 DEF IInv, GoodCook, GoodEntry, Vouched
  <2> HIDE DEF c
  <2>3. c.wire \in Hints /\ c.wire.ver = origin
      BY <2>1, <2>2, DecodedHints DEF GoodCopy, CopyType, Confirmed
  <2> QED BY <2>1, <2>2, <2>3 DEF GoodCopy, CopyType, IInv, Shape, c
<1> QED BY <1>1, IInvHolds, PTL
=============================================================================
