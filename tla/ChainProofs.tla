----------------------------- MODULE ChainProofs -----------------------------
(***************************************************************************)
(* Proofs about the chain of caches, for any number of links and cooks,    *)
(* any keys, cache strings that coincide, colliding pin identifiers, lost  *)
(* requests and late writes: no copy outlives the response it stands for,  *)
(* a live thumbnail of a native link only gives way to a put or to one of  *)
(* its own cache string, and a pin that SQLite was told of is kept.        *)
(***************************************************************************)
EXTENDS CacheChain, TLAPS

-----------------------------------------------------------------------------
(* What the constants and the chosen chain look like.                      *)
Typed == setup \in Setups /\ TypeOK

LEMMA Chosen ==
    ASSUME Typed
    PROVE  /\ Kind \in [Tiers -> {"memory", "sqlite", "cloud"}]
           /\ PinTtl \in Nat
           /\ N \in Tiers /\ 1 \in Tiers /\ N > 1
           /\ \A t \in Tiers : Kind[t] = "cloud" => t = N
           /\ now \in Nat
    BY ChainAssumption DEF Typed, TypeOK, Kind, PinTtl, Tiers

LEMMA TtlTyped ==
    ASSUME Typed, NEW t \in Tiers
    PROVE  /\ Ttl(t) \in Nat /\ Ttl(t) <= PinTtl
           /\ Kind[t] # "cloud" => Ttl(t) = PinTtl
           /\ setup.plan \in Nat /\ setup.plan > 0
<1>1. setup.plan \in Nat /\ setup.plan > 0
    BY ChainAssumption DEF Typed
<1> QED BY <1>1, Chosen DEF Ttl, MinOf

LEMMA Entries ==
    ASSUME NEW e \in Entry
    PROVE  /\ e.pin_until \in Nat /\ e.cache_until \in Nat
           /\ e.ver \in Cooks /\ e.tok \in Cooks /\ e.cache \in Strings
           /\ e # NONE
    BY NoneAssumption DEF Entry

LEMMA OtherDeadline ==
    ASSUME NEW e \in Entry, NEW n \in Nat
    PROVE  /\ [e EXCEPT !.pin_until = n] \in Entry
           /\ [e EXCEPT !.cache_until = n] \in Entry
    BY DEF Entry

\* An entry whose pin lasts is live.
LEMMA PinIsLife ==
    ASSUME Typed, NEW e \in Entry, e.pin_until > now
    PROVE  Live(e)
<1>1. e.pin_until \in Nat /\ e.cache_until \in Nat /\ now \in Nat
    BY Entries, Chosen
<1> QED BY <1>1, Entries DEF Live, retain_until, MaxOf

-----------------------------------------------------------------------------
(* What a step does to the links.  A row that is left is one that was      *)
(* there, perhaps with another pin, or the one that was written, perhaps   *)
(* capped; SQLite keeps its live pins, and as the last link their aliases. *)
Rows == [Keys -> Entry \cup {NONE}]
LinksTyped == store \in [Tiers -> Rows] /\ alias \in [Ids -> Keys \cup {NONE}]

From(new, old) ==
    new # NONE => /\ old # NONE
                  /\ new.ver = old.ver /\ new.tok = old.tok /\ new.cache = old.cache
                  /\ new.cache_until = old.cache_until \/ new.cache_until < old.cache_until

\* The live pins of one link.
KeepsPins(t, rows) ==
    \A k \in Keys : PinLive(store[t][k]) =>
        rows[k] # NONE /\ rows[k].pin_until >= store[t][k].pin_until

PinsStay ==
    /\ \A t \in Tiers : Kind[t] = "sqlite" => KeepsPins(t, store'[t])
    /\ Kind[N] = "sqlite" =>
         \A i \in Ids : (alias[i] # NONE /\ PinLive(store[N][alias[i]])) => alias'[i] = alias[i]

LinksKept == \A t \in Tiers, k \in Keys : From(store'[t][k], store[t][k])
LinksWritten(t, k, e) ==
    \A s \in Tiers, j \in Keys :
        From(store'[s][j], store[s][j]) \/ (s = t /\ j = k /\ From(store'[s][j], e))

LEMMA SetLinkEffect ==
    ASSUME Typed, NEW t \in Tiers, NEW rows \in Rows, SetLink(t, rows),
           Kind[t] = "sqlite" => KeepsPins(t, rows)
    PROVE  /\ LinksTyped' /\ PinsStay
           /\ store' = [store EXCEPT ![t] = rows]
<1> USE Chosen
<1>1. store \in [Tiers -> Rows] /\ alias \in [Ids -> Keys \cup {NONE}]
    BY DEF Typed, TypeOK, Rows
<1>2. store' = [store EXCEPT ![t] = rows]
    BY DEF SetLink
<1>3. store' \in [Tiers -> Rows]
    BY <1>1, <1>2
<1>4. alias' \in [Ids -> Keys \cup {NONE}]
    BY <1>1 DEF SetLink, Cascade
<1>5. ASSUME NEW s \in Tiers, Kind[s] = "sqlite"
      PROVE  KeepsPins(s, store'[s])
  <2>1. CASE s = t
    BY <1>1, <1>2, <1>5, <2>1
  <2>2. CASE s # t
    <3> SUFFICES ASSUME NEW k \in Keys, PinLive(store[s][k])
                 PROVE  store[s][k] # NONE /\ store[s][k].pin_until >= store[s][k].pin_until
        BY <1>1, <1>2, <2>2 DEF KeepsPins
    <3>1. store[s][k] \in Entry
        BY <1>1 DEF Rows, PinLive
    <3>2. store[s][k].pin_until \in Nat
        BY <3>1, Entries
    <3> QED BY <3>2 DEF PinLive
  <2> QED BY <2>1, <2>2
<1>6. ASSUME Kind[N] = "sqlite", NEW i \in Ids, alias[i] # NONE, PinLive(store[N][alias[i]])
      PROVE  alias'[i] = alias[i]
  <2>1. CASE t = N
    <3>1. rows[alias[i]] # NONE
        BY <1>1, <1>6, <2>1 DEF KeepsPins
    <3> QED BY <3>1, <1>1, <2>1 DEF SetLink, Cascade
  <2>2. CASE t # N
    BY <2>2 DEF SetLink
  <2> QED BY <2>1, <2>2
<1> QED BY <1>2, <1>3, <1>4, <1>5, <1>6 DEF LinksTyped, PinsStay

\* What one row of a link may become.
LEMMA RowTyped ==
    ASSUME Typed, NEW t \in Tiers, NEW k \in Keys
    PROVE  store[t][k] \in Entry \cup {NONE}
    BY DEF Typed, TypeOK

\* The cloud's cap shortens deadlines.
LEMMA CappedEffect ==
    ASSUME Typed, NEW t \in Tiers, NEW e \in Entry
    PROVE  /\ Capped(t, e) \in Entry /\ Capped(t, e) # NONE
           /\ From(Capped(t, e), e)
           /\ Capped(t, e).pin_until <= e.pin_until
           /\ Kind[t] # "cloud" => Capped(t, e) = e
<1> DEFINE c == MinOf(e.cache_until, now + setup.plan)
           p == MinOf(e.pin_until, now + setup.plan)
<1>1. e.cache_until \in Nat /\ e.pin_until \in Nat /\ now \in Nat /\ setup.plan \in Nat
    BY Entries, Chosen, TtlTyped
<1>2. /\ c \in Nat /\ p \in Nat /\ p <= e.pin_until
      /\ c = e.cache_until \/ c < e.cache_until
    BY <1>1 DEF MinOf
<1>3. CASE Kind[t] # "cloud"
    BY <1>1, <1>3, Entries DEF Capped, From
<1>4. CASE Kind[t] = "cloud"
  <2> HIDE DEF c, p
  <2>1. Capped(t, e) = [e EXCEPT !.cache_until = c, !.pin_until = p]
      BY <1>4 DEF Capped, c, p
  <2>2. /\ Capped(t, e) \in Entry
        /\ Capped(t, e).ver = e.ver /\ Capped(t, e).tok = e.tok /\ Capped(t, e).cache = e.cache
        /\ Capped(t, e).cache_until = c /\ Capped(t, e).pin_until = p
      BY <2>1, <1>2 DEF Entry
  <2> QED BY <2>2, <1>2, <1>4, Entries DEF From
<1> QED BY <1>3, <1>4

LEMMA InsertEffect ==
    ASSUME Typed, NEW t \in Tiers, NEW k \in Keys, NEW e \in Entry, NEW isPut \in BOOLEAN,
           PinLive(store[t][k]) => e.pin_until >= store[t][k].pin_until,
           SetLink(t, Insert(t, k, e, isPut))
    PROVE  LinksTyped' /\ PinsStay /\ LinksWritten(t, k, e)
<1> DEFINE rows == Insert(t, k, e, isPut)
<1>1. rows \in Rows
  <2>1. store[t] \in Rows /\ Capped(t, e) \in Entry
      BY CappedEffect DEF Typed, TypeOK, Rows
  <2> QED BY <2>1 DEF Insert, Purged, Rows
<1>2. \A j \in Keys : j # k =>
        /\ rows[j] \in {NONE, store[t][j]}
        /\ Live(store[t][j]) => rows[j] = store[t][j]
    BY RowTyped DEF Insert, Purged, Typed, TypeOK
<1>3. /\ rows[k] \in {NONE, Capped(t, e)}
      /\ Kind[t] = "sqlite" => (Live(e) => rows[k] = e)
    BY CappedEffect DEF Insert, Purged, Typed, TypeOK
<1>4. \A j \in Keys : PinLive(store[t][j]) => Live(store[t][j])
  <2> SUFFICES ASSUME NEW j \in Keys, PinLive(store[t][j]) PROVE Live(store[t][j])
      OBVIOUS
  <2>1. store[t][j] \in Entry
      BY RowTyped DEF PinLive
  <2> QED BY <2>1, PinIsLife DEF PinLive
<1>5. ASSUME Kind[t] = "sqlite" PROVE KeepsPins(t, rows)
  <2> SUFFICES ASSUME NEW j \in Keys, PinLive(store[t][j])
               PROVE  rows[j] # NONE /\ rows[j].pin_until >= store[t][j].pin_until
      BY DEF KeepsPins
  <2>1. store[t][j] \in Entry /\ store[t][j].pin_until \in Nat /\ store[t][j] # NONE
      BY RowTyped, Entries DEF PinLive
  <2>2. CASE j # k
      BY <2>1, <2>2, <1>2, <1>4
  <2>3. CASE j = k
    <3>1. e.pin_until \in Nat /\ now \in Nat
        BY Entries, Chosen
    <3>2. e.pin_until > now
        BY <2>1, <2>3, <3>1 DEF PinLive
    <3>3. Live(e)
        BY <3>2, PinIsLife
    <3> QED BY <3>3, <2>1, <2>3, <1>3, <1>5, Entries
  <2> QED BY <2>2, <2>3
<1>6. /\ LinksTyped' /\ PinsStay
      /\ store' = [store EXCEPT ![t] = rows]
    BY <1>1, <1>5, SetLinkEffect
<1>7. LinksWritten(t, k, e)
  <2> SUFFICES ASSUME NEW s \in Tiers, NEW j \in Keys
               PROVE  From(store'[s][j], store[s][j]) \/ (s = t /\ j = k /\ From(store'[s][j], e))
      BY DEF LinksWritten
  <2>1. CASE s = t
    <3>1. j # k => From(rows[j], store[t][j])
        BY <1>2 DEF From
    <3>2. From(rows[k], e)
        BY <1>3, CappedEffect DEF From
    <3>3. store'[s][j] = rows[j]
        BY <2>1, <1>6 DEF Typed, TypeOK
    <3> QED BY <2>1, <3>1, <3>2, <3>3
  <2>2. CASE s # t
      BY <2>2, <1>6 DEF From, Typed, TypeOK
  <2> QED BY <2>1, <2>2
<1> QED BY <1>6, <1>7

LEMMA KeepPinEffect ==
    ASSUME NEW e \in Entry, NEW old \in Entry \cup {NONE}
    PROVE  /\ KeepPin(e, old) \in Entry
           /\ KeepPin(e, old).ver = e.ver
           /\ KeepPin(e, old).tok = e.tok /\ KeepPin(e, old).cache = e.cache
           /\ KeepPin(e, old).cache_until = e.cache_until
           /\ old # NONE => KeepPin(e, old).pin_until >= old.pin_until
<1>1. CASE old = NONE
    BY <1>1 DEF KeepPin
<1>2. CASE old # NONE
  <2>1. old.pin_until \in Nat /\ e.pin_until \in Nat
      BY <1>2, Entries
  <2>2. MaxOf(e.pin_until, old.pin_until) \in Nat /\ MaxOf(e.pin_until, old.pin_until) >= old.pin_until
      BY <2>1 DEF MaxOf
  <2>3. KeepPin(e, old) = [e EXCEPT !.pin_until = MaxOf(e.pin_until, old.pin_until)]
      BY <1>2 DEF KeepPin
  <2> QED BY <2>2, <2>3 DEF Entry
<1> QED BY <1>1, <1>2

\* put and revalidate write under k, with the later of the two pins.
LEMMA WriteEffect ==
    ASSUME Typed, NEW t \in Tiers, NEW k \in Keys, NEW e \in Entry, NEW isPut \in BOOLEAN,
           SetLink(t, Insert(t, k, KeepPin(e, store[t][k]), isPut))
    PROVE  LinksTyped' /\ PinsStay /\ LinksWritten(t, k, e)
<1> DEFINE new == KeepPin(e, store[t][k])
<1>1. /\ new \in Entry
      /\ new.ver = e.ver /\ new.tok = e.tok /\ new.cache = e.cache
      /\ new.cache_until = e.cache_until
      /\ PinLive(store[t][k]) => new.pin_until >= store[t][k].pin_until
    BY RowTyped, KeepPinEffect DEF PinLive
<1>2. LinksTyped' /\ PinsStay /\ LinksWritten(t, k, new)
  <2> HIDE DEF new
  <2>1. SetLink(t, Insert(t, k, new, isPut))
      BY DEF new
  <2> QED BY <1>1, <2>1, InsertEffect
<1>3. e # NONE /\ new # NONE
    BY <1>1, Entries
<1>4. LinksWritten(t, k, e)
    BY <1>1, <1>2, <1>3 DEF LinksWritten, From
<1> QED BY <1>2, <1>4

LEMMA Untouched ==
    ASSUME Typed, UNCHANGED <<store, alias>>
    PROVE  LinksTyped' /\ PinsStay /\ LinksKept
<1>1. LinksTyped'
    BY DEF Typed, TypeOK, LinksTyped, Rows
<1>2. ASSUME NEW t \in Tiers, NEW k \in Keys, PinLive(store[t][k])
      PROVE  store[t][k] # NONE /\ store[t][k].pin_until >= store[t][k].pin_until
  <2>1. store[t][k] \in Entry
      BY <1>2, RowTyped DEF PinLive
  <2>2. store[t][k].pin_until \in Nat
      BY <2>1, Entries
  <2> QED BY <2>2, <1>2 DEF PinLive
<1> QED BY <1>1, <1>2 DEF PinsStay, KeepsPins, LinksKept, From

LEMMA PutEffect ==
    ASSUME Typed, NEW t \in Tiers, NEW k \in Keys, NEW e \in Entry, put(t, k, e)
    PROVE  LinksTyped' /\ PinsStay /\ LinksWritten(t, k, e)
    BY WriteEffect DEF put

\* A copy does not touch a live row, a revalidation one it was not decided on.
LEMMA PromoteEffect ==
    ASSUME Typed, NEW t \in Tiers, NEW k \in Keys, NEW e \in Entry, promote(t, k, e)
    PROVE  /\ LinksTyped' /\ PinsStay /\ LinksWritten(t, k, e)
           /\ Live(store[t][k]) => LinksKept
<1>1. CASE UNCHANGED <<store, alias>>
    BY <1>1, Untouched DEF LinksKept, LinksWritten
<1>2. CASE ~Live(store[t][k]) /\ SetLink(t, Insert(t, k, e, FALSE))
  <2>1. ~PinLive(store[t][k])
    <3>1. ASSUME PinLive(store[t][k]) PROVE FALSE
      <4>1. store[t][k] \in Entry
          BY <3>1, RowTyped DEF PinLive
      <4> QED BY <4>1, <3>1, <1>2, PinIsLife DEF PinLive
    <3> QED BY <3>1
  <2> QED BY <1>2, <2>1, InsertEffect
<1> QED BY <1>1, <1>2 DEF promote

LEMMA RevalidateEffect ==
    ASSUME Typed, NEW t \in Tiers, NEW k \in Keys, NEW e \in Entry, NEW c,
           revalidate(t, k, e, c)
    PROVE  /\ LinksTyped' /\ PinsStay /\ LinksWritten(t, k, e)
           /\ Differs(t, k, c) => LinksKept
<1>1. CASE UNCHANGED <<store, alias>>
    BY <1>1, Untouched DEF LinksKept, LinksWritten
<1>2. CASE /\ ~Differs(t, k, c)
           /\ SetLink(t, Insert(t, k, KeepPin(e, store[t][k]), FALSE))
    BY <1>2, WriteEffect
<1> QED BY <1>1, <1>2 DEF revalidate

\* A read, or an eviction: one row changes at most its pin, or goes.
LEMMA RowEffect ==
    ASSUME Typed, NEW t \in Tiers, NEW k \in Keys, NEW e \in Entry \cup {NONE},
           SetLink(t, [store[t] EXCEPT ![k] = e]), From(e, store[t][k]),
           (Kind[t] = "sqlite" /\ PinLive(store[t][k])) =>
               e # NONE /\ e.pin_until >= store[t][k].pin_until
    PROVE  LinksTyped' /\ PinsStay /\ LinksKept
<1> DEFINE rows == [store[t] EXCEPT ![k] = e]
<1>1. store \in [Tiers -> Rows] /\ rows \in Rows
    BY DEF Typed, TypeOK, Rows
<1>2. Kind[t] = "sqlite" => KeepsPins(t, rows)
  <2> SUFFICES ASSUME Kind[t] = "sqlite", NEW j \in Keys, PinLive(store[t][j])
               PROVE  rows[j] # NONE /\ rows[j].pin_until >= store[t][j].pin_until
      BY DEF KeepsPins
  <2>1. store[t][j] \in Entry /\ store[t][j].pin_until \in Nat /\ store[t][j] # NONE
      BY RowTyped, Entries DEF PinLive
  <2> QED BY <1>1, <2>1 DEF Rows
<1>3. LinksTyped' /\ PinsStay /\ store' = [store EXCEPT ![t] = rows]
    BY <1>1, <1>2, SetLinkEffect
<1>4. LinksKept
  <2> SUFFICES ASSUME NEW s \in Tiers, NEW j \in Keys PROVE From(store'[s][j], store[s][j])
      BY DEF LinksKept
  <2>1. CASE s = t
      BY <1>1, <1>3, <2>1 DEF From, Rows
  <2>2. CASE s # t
      BY <1>1, <1>3, <2>2 DEF From
  <2> QED BY <2>1, <2>2
<1> QED BY <1>3, <1>4

LEMMA AccessEffect ==
    ASSUME Typed, NEW e \in Entry, NEW pin \in BOOLEAN, NEW ttl \in Nat
    PROVE  /\ access(e, pin, ttl) \in Entry
           /\ From(access(e, pin, ttl), e)
           /\ access(e, pin, ttl).pin_until >= e.pin_until
<1>1. e.pin_until \in Nat /\ now \in Nat
    BY Entries, Chosen
<1>2. MaxOf(e.pin_until, now + ttl) \in Nat /\ MaxOf(e.pin_until, now + ttl) >= e.pin_until
    BY <1>1 DEF MaxOf
<1>3. CASE ~pin /\ ttl > 0
  <2>1. access(e, pin, ttl) = [e EXCEPT !.pin_until = MaxOf(e.pin_until, now + ttl)]
      BY <1>3 DEF access
  <2> QED BY <2>1, <1>2, Entries DEF Entry, From
<1>4. CASE ~(~pin /\ ttl > 0)
    BY <1>1, <1>4, Entries DEF access, From
<1> QED BY <1>3, <1>4

\* Aliases without a live pin make room.
LEMMA AliasesRoom ==
    ASSUME Typed, store' = store, alias' = IF Kind[N] = "memory" THEN LiveAliases ELSE alias
    PROVE  LinksTyped' /\ PinsStay /\ LinksKept
<1>1. LinksTyped' /\ LinksKept
    BY DEF Typed, TypeOK, LinksTyped, Rows, LiveAliases, LinksKept, From
<1>2. ASSUME NEW t \in Tiers PROVE KeepsPins(t, store'[t])
  <2> SUFFICES ASSUME NEW j \in Keys, PinLive(store[t][j])
               PROVE  store[t][j] # NONE /\ store[t][j].pin_until >= store[t][j].pin_until
      BY DEF KeepsPins
  <2>1. store[t][j] \in Entry
      BY RowTyped DEF PinLive
  <2>2. store[t][j].pin_until \in Nat
      BY <2>1, Entries
  <2> QED BY <2>2 DEF PinLive
<1> QED BY <1>1, <1>2 DEF PinsStay

\* A pin that is handed out stands on the last link.
Kept(id, k, u) ==
    u > now => /\ alias[id] = k
               /\ store[N][k] # NONE
               /\ store[N][k].pin_until >= u

LEMMA RowChanges ==
    ASSUME NEW t \in Tiers, NEW k \in Keys, NEW p,
           store' = [store EXCEPT ![t][k].pin_until = p]
    PROVE  store' = [store EXCEPT ![t] = [store[t] EXCEPT ![k] =
                                            [store[t][k] EXCEPT !.pin_until = p]]]
    OBVIOUS

\* A claim extends the pin of a live row, under an identifier nobody else has.
LEMMA ClaimEffect ==
    ASSUME Typed, NEW k \in Keys, NEW i \in Ids, LiveAliases[i] \in {NONE, k},
           Live(store[N][k]),
           store' = [store EXCEPT ![N][k].pin_until = MaxOf(@, now + Ttl(N))],
           alias' = [LiveAliases EXCEPT ![i] = k]
    PROVE  /\ LinksTyped' /\ PinsStay /\ LinksKept
           /\ alias'[i] = k /\ store'[N][k] # NONE
           /\ store'[N][k].pin_until >= now + Ttl(N)
<1> USE Chosen, TtlTyped
<1>1. store[N][k] \in Entry /\ store[N][k] # NONE
    BY RowTyped DEF Live
<1> DEFINE e == [store[N][k] EXCEPT !.pin_until = MaxOf(store[N][k].pin_until, now + Ttl(N))]
<1>2. store[N][k].pin_until \in Nat
    BY <1>1, Entries
<1>3. /\ MaxOf(store[N][k].pin_until, now + Ttl(N)) \in Nat
      /\ MaxOf(store[N][k].pin_until, now + Ttl(N)) >= store[N][k].pin_until
      /\ MaxOf(store[N][k].pin_until, now + Ttl(N)) >= now + Ttl(N)
    BY <1>2 DEF MaxOf
<1>4. /\ e \in Entry /\ e # NONE /\ e.pin_until >= store[N][k].pin_until /\ e.pin_until >= now + Ttl(N)
      /\ From(e, store[N][k])
  <2>1. e \in Entry /\ e.ver = store[N][k].ver /\ e.tok = store[N][k].tok
        /\ e.cache = store[N][k].cache /\ e.cache_until = store[N][k].cache_until
        /\ e.pin_until = MaxOf(store[N][k].pin_until, now + Ttl(N))
      BY <1>1, <1>3 DEF Entry
  <2> QED BY <2>1, <1>1, <1>3, Entries DEF From
<1>5. store \in [Tiers -> Rows] /\ store[N] \in Rows
    BY DEF Typed, TypeOK, Rows
<1>6. store' = [store EXCEPT ![N] = [store[N] EXCEPT ![k] = e]]
    BY <1>5, RowChanges
<1> HIDE DEF e
<1>7. /\ store'[N][k] = e
      /\ \A t \in Tiers, j \in Keys : (t # N \/ j # k) => store'[t][j] = store[t][j]
    BY <1>5, <1>6 DEF Rows
<1>8. LinksTyped'
  <2>1. store' \in [Tiers -> Rows]
    <3>1. [store[N] EXCEPT ![k] = e] \in Rows
        BY <1>4, <1>5 DEF Rows
    <3> QED BY <3>1, <1>5, <1>6
  <2>2. alias' \in [Ids -> Keys \cup {NONE}]
      BY DEF Typed, TypeOK, LiveAliases
  <2> QED BY <2>1, <2>2 DEF LinksTyped
<1>9. LinksKept
    BY <1>4, <1>7 DEF LinksKept, From
<1>10. ASSUME NEW t \in Tiers PROVE KeepsPins(t, store'[t])
  <2> SUFFICES ASSUME NEW j \in Keys, PinLive(store[t][j])
               PROVE  store'[t][j] # NONE /\ store'[t][j].pin_until >= store[t][j].pin_until
      BY DEF KeepsPins
  <2>1. store[t][j] \in Entry /\ store[t][j] # NONE
      BY RowTyped DEF PinLive
  <2>2. store[t][j].pin_until \in Nat
      BY <2>1, Entries
  <2>3. CASE t = N /\ j = k
      BY <2>3, <1>4, <1>7
  <2>4. CASE t # N \/ j # k
      BY <2>1, <2>2, <2>4, <1>7
  <2> QED BY <2>3, <2>4
<1>11. ASSUME NEW j \in Ids, alias[j] # NONE, PinLive(store[N][alias[j]])
       PROVE  alias'[j] = alias[j]
  <2>1. alias'[j] = IF j = i THEN k ELSE alias[j]
      BY <1>11 DEF LiveAliases
  <2>2. LiveAliases[j] = alias[j]
      BY <1>11 DEF LiveAliases
  <2> QED BY <2>1, <2>2, <1>11
<1>12. alias'[i] = k
    BY DEF LiveAliases
<1> QED BY <1>4, <1>7, <1>8, <1>9, <1>10, <1>11, <1>12 DEF PinsStay

-----------------------------------------------------------------------------
(* Types, and what a cook carries from one phase to the next.              *)
CookTyped ==
    /\ pc \in [Cooks -> Phases]
    /\ key \in [Cooks -> Keys]
    /\ at \in [Cooks -> Tiers]
    /\ held \in [Cooks -> Entry \cup {NONE}]
    /\ missed \in [Cooks -> SUBSET Tiers]
    /\ copy \in [Cooks -> Entry \cup {NONE}]
    /\ expected \in [Cooks -> Strings \cup {NONE}]
    /\ attempt \in [Cooks -> 0..(Attempts - 1)]
    /\ retried \in [Cooks -> BOOLEAN]
    /\ until \in [Cooks -> Nat]

TaskType == [op : {"promote", "put", "revalidate", "land"}, tier : Tiers, key : Keys,
             entry : Entry, cache : Strings \cup {NONE}, from : Cooks \X Phases]

HistoryTyped ==
    /\ promised \subseteq [id : Ids, key : Keys, until : Nat]
    /\ granted \in [Cooks -> Nat]
    /\ answer \in [Cooks -> [ver : Cooks, cache : Strings]]

ClockTyped == setup \in Setups /\ now \in 0..setup.MaxTime /\ lost \in 0..MaxLost

Carries(r) ==
    /\ pc[r] \in {"put", "expire", "reval", "promote", "refresh"} => copy[r] # NONE
    /\ pc[r] \in {"claim", "promote"} => held[r] # NONE
    /\ pc[r] = "refresh" => at[r] < N
    /\ pc[r] = "expire" => at[r] = N

CooksWell == CookTyped /\ \A r \in Cooks : Carries(r)

Shape == ClockTyped /\ LinksTyped /\ tasks \subseteq TaskType /\ HistoryTyped /\ CooksWell

LEMMA ShapeIsTyped == Shape => Typed
    BY DEF Shape, ClockTyped, LinksTyped, HistoryTyped, CooksWell, CookTyped, Typed, TypeOK,
           Rows, TaskType

\* A cook that goes on to a phase in which it needs nothing.
Free == {"get", "pinget", "pinonly", "decide", "done", "gone"}

LEMMA FreeStep ==
    ASSUME CooksWell, NEW r \in Cooks, NEW l \in Free, N \in Tiers, 1 \in Tiers,
           pc' = [pc EXCEPT ![r] = l], at' \in [Cooks -> Tiers],
           \A q \in Cooks \ {r} : at'[q] = at[q],
           UNCHANGED <<key, missed, expected, attempt, retried, until>>,
           held' \in [Cooks -> Entry \cup {NONE}], copy' = copy,
           \A q \in Cooks \ {r} : held'[q] = held[q]
    PROVE  CooksWell'
    BY DEF CooksWell, CookTyped, Carries, Free, Phases

LEMMA AfterFree ==
    ASSUME Typed PROVE AfterWrites \in Free
    BY DEF AfterWrites, Free

LEMMA AdvanceFree ==
    ASSUME Shape, NEW r \in Cooks, NEW l \in Free, Advance(r, l),
           UNCHANGED <<key, held, missed, copy, expected, attempt, retried, until>>,
           pc[r] \notin {"refresh", "expire"} \/ at[r] = N
    PROVE  CooksWell'
<1> USE ShapeIsTyped, Chosen
<1>1. CASE at[r] = N
    BY <1>1, FreeStep DEF Shape, Advance, Goto, CooksWell, CookTyped
<1>2. CASE at[r] # N
  <2>1. at[r] \in 1..N /\ at[r] + 1 \in Tiers
      BY <1>2, ChainAssumption DEF Shape, CooksWell, CookTyped, Tiers
  <2> QED BY <1>2, <2>1 DEF Shape, CooksWell, CookTyped, Carries, Advance
<1> QED BY <1>1, <1>2

LEMMA EndStep ==
    ASSUME CooksWell, NEW r \in Cooks, NEW l \in {"done", "gone"}, End(r, l),
           N \in Tiers, 1 \in Tiers, key' = key
    PROVE  CooksWell'
<1>1. 0 \in 0..(Attempts - 1)
    BY ChainAssumption
<1> QED BY <1>1 DEF CooksWell, CookTyped, Carries, Phases, End, Goto

\* Nothing changes but the cook itself.
Still == UNCHANGED <<setup, now, lost, tasks, history>>

-----------------------------------------------------------------------------
(* What each action does to the links and to the cooks.                    *)
LEMMA ClockStays ==
    ASSUME Shape, setup' = setup, now' = now, lost' \in 0..MaxLost
    PROVE  ClockTyped'
    BY DEF Shape, ClockTyped

LEMMA BeginShape ==
    ASSUME Shape, NEW r \in Cooks, Begin(r), setup' = setup, lost' \in 0..MaxLost
    PROVE  Shape' /\ PinsStay /\ LinksKept
<1> USE ShapeIsTyped, Chosen
<1>1. LinksTyped' /\ PinsStay /\ LinksKept
    BY Untouched DEF Begin
<1>2. CooksWell'
    BY FreeStep, AfterFree DEF Begin, Goto, Free, Shape, CooksWell, CookTyped
<1> QED BY <1>1, <1>2, ClockStays DEF Shape, Begin, HistoryTyped, history

LEMMA ServeShape ==
    ASSUME Shape, NEW r \in Cooks, Serve(r), setup' = setup, lost' \in 0..MaxLost
    PROVE  Shape' /\ PinsStay /\ LinksKept
<1> USE ShapeIsTyped, Chosen
<1>1. LinksTyped' /\ PinsStay /\ LinksKept
    BY Untouched DEF Serve
<1>2. CooksWell'
    BY FreeStep, AfterFree DEF Serve, Goto, Shape, CooksWell, CookTyped
<1> QED BY <1>1, <1>2, ClockStays DEF Shape, Serve, HistoryTyped, history

\* How much of a link a lookup may change.
LEMMA LookupEffect ==
    ASSUME Typed, NEW t \in Tiers, NEW k \in Keys, NEW pin \in BOOLEAN, NEW ttl \in Nat, NEW e,
           \/ e = store[t][k]
           \/ Hits(store[t][k], pin) /\ e = access(store[t][k], pin, ttl)
           \/ Kind[t] = "memory" /\ e = NONE,
           SetLink(t, [store[t] EXCEPT ![k] = e])
    PROVE  LinksTyped' /\ PinsStay /\ LinksKept
<1>1. CASE e = store[t][k]
  <2>1. e \in Entry \cup {NONE} /\ From(e, store[t][k])
      BY <1>1, RowTyped DEF From
  <2>2. PinLive(store[t][k]) => e # NONE /\ e.pin_until >= store[t][k].pin_until
      BY <1>1, <2>1, Entries DEF PinLive
  <2> QED BY <2>1, <2>2, RowEffect
<1>2. CASE Hits(store[t][k], pin) /\ e = access(store[t][k], pin, ttl)
  <2>1. store[t][k] \in Entry
      BY <1>2, RowTyped DEF Hits
  <2>2. e \in Entry /\ From(e, store[t][k]) /\ e.pin_until >= store[t][k].pin_until
      BY <1>2, <2>1, AccessEffect
  <2> QED BY <2>2, Entries, RowEffect
<1>3. CASE Kind[t] = "memory" /\ e = NONE
    BY <1>3, RowEffect DEF From
<1> QED BY <1>1, <1>2, <1>3

\* What the read of one link finds.
LEMMA FoundTyped ==
    ASSUME Shape, NEW r \in Cooks
    PROVE  /\ Extends(r) \in Nat /\ at[r] \in Tiers /\ key[r] \in Keys
           /\ Found(r) \in Entry \cup {NONE}
           /\ Hit(r) => /\ store[at[r]][key[r]] \in Entry
                        /\ Accessed(r) \in Entry
                        /\ From(Accessed(r), store[at[r]][key[r]])
<1> USE ShapeIsTyped, Chosen
<1>1. at[r] \in Tiers /\ key[r] \in Keys /\ held[r] \in Entry \cup {NONE}
    BY DEF Shape, CooksWell, CookTyped
<1>2. Extends(r) \in Nat
    BY <1>1, TtlTyped DEF Extends
<1>3. ASSUME Hit(r)
      PROVE  /\ store[at[r]][key[r]] \in Entry
             /\ Accessed(r) \in Entry
             /\ From(Accessed(r), store[at[r]][key[r]])
  <2>1. store[at[r]][key[r]] \in Entry
      BY <1>1, <1>3, RowTyped DEF Hit, Hits
  <2>2. (pc[r] = "pinonly") \in BOOLEAN
      OBVIOUS
  <2> QED BY <1>2, <2>1, <2>2, AccessEffect DEF Accessed
<1> QED BY <1>1, <1>2, <1>3 DEF Found

LEMMA ReceiveCooks ==
    ASSUME Shape, NEW r \in Cooks, Receive(r)
    PROVE  CooksWell'
<1> USE ShapeIsTyped, Chosen
<1> DEFINE t == at[r]
           last == t = N \/ (Hit(r) /\ (pc[r] = "get" => PinTtl = 0))
<1>1. /\ t \in Tiers /\ pc[r] \in {"get", "pinget", "pinonly"}
      /\ Found(r) \in Entry \cup {NONE}
      /\ held' = [held EXCEPT ![r] = Found(r)]
      /\ UNCHANGED <<key, copy, expected, attempt, retried, until>>
    BY FoundTyped DEF Receive
<1>2. missed[r] \cup {t} \subseteq Tiers
    BY <1>1 DEF Shape, CooksWell, CookTyped
<1>3. CASE last
  <2>1. /\ Goto(r, AfterRead(pc[r], Found(r)))
        /\ missed' = [missed EXCEPT ![r] = {}]
      BY <1>3 DEF Receive
  <2> QED BY <2>1, <1>1
      DEF AfterRead, Shape, CooksWell, CookTyped, Carries, Goto, Phases
<1>4. CASE ~last
  <2>1. /\ at' = [at EXCEPT ![r] = t + 1] /\ pc' = pc
        /\ missed' = [missed EXCEPT ![r] = IF Found(r) = NONE THEN missed[r] \cup {t} ELSE missed[r]]
      BY <1>4 DEF Receive
  <2>2. t + 1 \in Tiers
      BY <1>1, <1>4, ChainAssumption DEF Tiers
  <2> QED BY <2>1, <2>2, <1>2, <1>1 DEF Shape, CooksWell, CookTyped, Carries
<1> QED BY <1>3, <1>4

LEMMA PromotionsTyped ==
    ASSUME Shape, NEW r \in Cooks
    PROVE  Promotions(r) \subseteq TaskType
<1>1. CASE ~(Hit(r) /\ held[r] = NONE)
    BY <1>1 DEF Promotions
<1>2. CASE Hit(r) /\ held[r] = NONE
  <2>1. /\ Accessed(r) \in Entry /\ key[r] \in Keys
        /\ missed[r] \subseteq Tiers /\ pc[r] \in Phases
      BY <1>2, FoundTyped DEF Shape, CooksWell, CookTyped
  <2>2. \A m \in missed[r] : Request("promote", m, key[r], Accessed(r), NONE, <<r, pc[r]>>) \in TaskType
      BY <2>1 DEF Request, TaskType
  <2> QED BY <2>2, <1>2 DEF Promotions
<1> QED BY <1>1, <1>2

LEMMA ReadShape ==
    ASSUME Shape, NEW r \in Cooks, Read(r), setup' = setup, lost' \in 0..MaxLost
    PROVE  Shape' /\ PinsStay /\ LinksKept
<1> USE ShapeIsTyped, Chosen
<1> DEFINE t == at[r]
           k == key[r]
           pin == pc[r] = "pinonly"
           e == store[t][k]
           row == IF Hit(r) THEN Accessed(r)
                  ELSE IF Kind[t] = "memory" /\ e # NONE /\ ~Live(e) THEN NONE ELSE e
<1>1. t \in Tiers /\ k \in Keys /\ pin \in BOOLEAN /\ Extends(r) \in Nat
    BY FoundTyped
<1>2. LinksTyped' /\ PinsStay /\ LinksKept
  <2>1. \/ row = e
        \/ Hits(e, pin) /\ row = access(e, pin, Extends(r))
        \/ Kind[t] = "memory" /\ row = NONE
      BY DEF Hit, Accessed
  <2>2. SetLink(t, [store[t] EXCEPT ![k] = row])
    <3>1. [store[t] EXCEPT ![k] = row] =
          [store[t] EXCEPT ![k] = IF Hit(r) THEN Accessed(r)
                                  ELSE IF Kind[t] = "memory" /\ e # NONE /\ ~Live(e) THEN NONE ELSE @]
        OBVIOUS
    <3> QED BY <3>1 DEF Read
  <2> HIDE DEF row
  <2> QED BY <1>1, <2>1, <2>2, LookupEffect
<1>3. CooksWell'
    BY ReceiveCooks DEF Read
<1>4. tasks' \subseteq TaskType
    BY PromotionsTyped DEF Read, Shape
<1> QED BY <1>2, <1>3, <1>4, ClockStays DEF Shape, Read, Receive, HistoryTyped, history

LEMMA DeadlineTyped ==
    ASSUME Typed, NEW d \in Deadlines PROVE d \in Nat
    BY Chosen, ChainAssumption DEF Deadlines

\* What a decision is made of.
LEMMA DecidedTyped ==
    ASSUME Shape, NEW r \in Cooks, NEW d \in Deadlines, NEW c, c \in Encoded(d)
    PROVE  /\ c \in Strings /\ d \in Nat
           /\ held[r] # NONE => held[r] \in Entry
<1>1. c \in Strings
    BY ShapeIsTyped, ChainAssumption DEF Encoded, Typed
<1>2. d \in Nat
    BY ShapeIsTyped, DeadlineTyped
<1>3. held[r] # NONE => held[r] \in Entry
    BY DEF Shape, CooksWell, CookTyped
<1> QED BY <1>1, <1>2, <1>3

LEMMA NotModifiedShape ==
    ASSUME Shape, NEW r \in Cooks, NEW d \in Deadlines, NEW c, c \in Encoded(d),
           NotModified(r, d, c), setup' = setup, lost' \in 0..MaxLost
    PROVE  Shape' /\ PinsStay /\ LinksKept
<1> USE ShapeIsTyped, Chosen
<1>1. LinksTyped' /\ PinsStay /\ LinksKept
    BY Untouched DEF NotModified
<1>2. CooksWell'
  <2> DEFINE new == [held[r] EXCEPT !.tok = r, !.cache = c, !.cache_until = d]
  <2>0. c \in Strings /\ d \in Nat /\ held[r] \in Entry
      BY DecidedTyped DEF NotModified
  <2>1. new \in Entry /\ held[r].cache \in Strings
      BY <2>0 DEF Entry
  <2>2. new # NONE /\ copy' = [copy EXCEPT ![r] = new]
      BY <2>1, Entries DEF NotModified
  <2> HIDE DEF new
  <2> QED BY <2>1, <2>2 DEF NotModified, Goto, Shape, CooksWell, CookTyped, Carries, Phases
<1>3. HistoryTyped'
  <2>0. c \in Strings /\ d \in Nat /\ held[r] \in Entry
      BY DecidedTyped DEF NotModified
  <2>1. held[r].ver \in Cooks /\ c \in Strings /\ d \in Nat
      BY <2>0, Entries
  <2> QED BY <2>1 DEF NotModified, Shape, HistoryTyped
<1> QED BY <1>1, <1>2, <1>3, ClockStays DEF Shape, NotModified

LEMMA RenderedShape ==
    ASSUME Shape, NEW r \in Cooks, NEW d \in Deadlines, NEW c, c \in Encoded(d),
           Rendered(r, d, c), setup' = setup, lost' \in 0..MaxLost
    PROVE  Shape' /\ PinsStay /\ LinksKept
<1> USE ShapeIsTyped, Chosen
<1>1. LinksTyped' /\ PinsStay /\ LinksKept
    BY Untouched DEF Rendered
<1>2. CooksWell'
  <2> DEFINE new == [ver |-> r, tok |-> r, cache |-> c, cache_until |-> d, pin_until |-> 0]
  <2>0. c \in Strings /\ d \in Nat
      BY DecidedTyped
  <2>1. new \in Entry /\ copy' = [copy EXCEPT ![r] = new]
      BY <2>0 DEF Rendered, Entry
  <2>2. new # NONE
      BY <2>1, Entries
  <2> HIDE DEF new
  <2> QED BY <2>1, <2>2 DEF Rendered, Goto, Shape, CooksWell, CookTyped, Carries, Phases
<1>3. HistoryTyped'
  <2>1. c \in Strings /\ d \in Nat
      BY DecidedTyped
  <2> QED BY <2>1 DEF Rendered, Shape, HistoryTyped
<1> QED BY <1>1, <1>2, <1>3, ClockStays DEF Shape, Rendered

\* CacheEntry::new gives another pin and leaves the rest.
LEMMA PinnedTyped ==
    ASSUME Typed, NEW e \in Entry
    PROVE  /\ Pinned(e) \in Entry
           /\ Pinned(e).ver = e.ver /\ Pinned(e).tok = e.tok /\ Pinned(e).cache = e.cache
           /\ Pinned(e).cache_until = e.cache_until
<1>1. (IF PinTtl = 0 THEN 0 ELSE now + PinTtl) \in Nat
    BY Chosen
<1> QED BY <1>1 DEF Pinned, Entry

LEMMA CopyTyped ==
    ASSUME Shape, NEW r \in Cooks, pc[r] \in {"put", "expire", "reval", "promote", "refresh"}
    PROVE  copy[r] \in Entry /\ at[r] \in Tiers /\ key[r] \in Keys
    BY DEF Shape, CooksWell, CookTyped, Carries

LEMMA PutShape ==
    ASSUME Shape, NEW r \in Cooks, PutLink(r), setup' = setup, lost' \in 0..MaxLost
    PROVE  Shape' /\ PinsStay /\ LinksWritten(at[r], key[r], Pinned(copy[r]))
<1> USE ShapeIsTyped, Chosen
<1>1. LinksTyped' /\ PinsStay /\ LinksWritten(at[r], key[r], Pinned(copy[r]))
    BY CopyTyped, PinnedTyped, PutEffect DEF PutLink
<1>2. CooksWell'
    BY AdvanceFree, AfterFree DEF PutLink
<1> QED BY <1>1, <1>2, ClockStays DEF Shape, PutLink, HistoryTyped, history

LEMMA RevalidateShape ==
    ASSUME Shape, NEW r \in Cooks, RevalidateLink(r), setup' = setup, lost' \in 0..MaxLost
    PROVE  Shape' /\ PinsStay /\ LinksWritten(at[r], key[r], copy[r])
<1> USE ShapeIsTyped, Chosen
<1>1. LinksTyped' /\ PinsStay /\ LinksWritten(at[r], key[r], copy[r])
    BY CopyTyped, RevalidateEffect DEF RevalidateLink
<1>2. CooksWell'
    BY AdvanceFree, AfterFree DEF RevalidateLink
<1> QED BY <1>1, <1>2, ClockStays DEF Shape, RevalidateLink, HistoryTyped, history

LEMMA ExpireShape ==
    ASSUME Shape, NEW r \in Cooks, Expire(r), setup' = setup, lost' \in 0..MaxLost
    PROVE  Shape' /\ PinsStay /\ LinksWritten(N, key[r], copy[r])
<1> USE ShapeIsTyped, Chosen
<1>1. LinksTyped' /\ PinsStay /\ LinksWritten(N, key[r], copy[r])
    BY CopyTyped, RevalidateEffect DEF Expire
<1>2. at[r] = N
    BY DEF Expire, Shape, CooksWell, Carries
<1>3. CooksWell'
    BY <1>2, AdvanceFree, AfterFree DEF Expire
<1> QED BY <1>1, <1>3, ClockStays DEF Shape, Expire, HistoryTyped, history

LEMMA ElapsedIsLast ==
    ASSUME Shape, NEW r \in Cooks, pc[r] = "put", Elapsed(r)
    PROVE  at[r] = N
    BY ShapeIsTyped, Chosen, CopyTyped DEF Elapsed

LEMMA ProbeShape ==
    ASSUME Shape, NEW r \in Cooks, Probe(r), setup' = setup, lost' \in 0..MaxLost
    PROVE  Shape' /\ PinsStay /\ LinksKept
<1> USE ShapeIsTyped, Chosen
<1> DEFINE e == store[N][key[r]]
<1>1. LinksTyped' /\ PinsStay /\ LinksKept
    BY Untouched DEF Probe
<1>2. at[r] = N /\ copy[r] \in Entry /\ key[r] \in Keys
    BY ElapsedIsLast, CopyTyped DEF Probe
<1>3. CASE Hits(e, FALSE)
  <2>1. e \in Entry
      BY <1>2, <1>3, RowTyped DEF Hits
  <2>2. e.cache \in Strings /\ e.pin_until \in Nat
      BY <2>1, Entries
  <2> DEFINE new == [copy[r] EXCEPT !.pin_until = e.pin_until]
  <2>3. new \in Entry /\ new # NONE /\ copy' = [copy EXCEPT ![r] = new]
      BY <1>2, <1>3, <2>2, OtherDeadline, Entries DEF Probe
  <2>4. /\ pc' = [pc EXCEPT ![r] = "expire"] /\ at' = at
        /\ expected' = [expected EXCEPT ![r] = e.cache]
        /\ UNCHANGED <<key, held, missed, attempt, retried, until>>
      BY <1>3 DEF Probe
  <2> HIDE DEF new, e
  <2>5. CooksWell'
      BY <1>2, <2>2, <2>3, <2>4 DEF Shape, CooksWell, CookTyped, Carries, Phases
  <2> QED BY <1>1, <2>5, ClockStays DEF Shape, Probe, HistoryTyped, history
<1>4. CASE ~Hits(e, FALSE)
  <2>1. CooksWell'
      BY <1>2, <1>4, AdvanceFree, AfterFree DEF Probe
  <2> QED BY <1>1, <2>1, ClockStays DEF Shape, Probe, HistoryTyped, history
<1> QED BY <1>3, <1>4

\* The identifier a cook claims, and what its pin needs.
PinId(r) == Candidate[key[r]][attempt[r]]

LEMMA PinIdTyped ==
    ASSUME Shape, NEW r \in Cooks
    PROVE  PinId(r) \in Ids /\ key[r] \in Keys
    BY ChainAssumption DEF Shape, CooksWell, CookTyped, PinId

LEMMA ClaimShape ==
    ASSUME Shape, NEW r \in Cooks, Claim(r), setup' = setup, lost' \in 0..MaxLost
    PROVE  /\ Shape' /\ PinsStay /\ LinksKept
           /\ pc'[r] \in {"claim", "done", "promote", "confirm"}
           /\ pc'[r] = "promote" => /\ held[r] # NONE
                                    /\ From(copy'[r], held[r])
           /\ pc'[r] # "promote" => copy'[r] = copy[r]
           /\ pc'[r] = "confirm" =>
                /\ alias'[PinId(r)] = key[r] /\ attempt'[r] = attempt[r]
                /\ store'[N][key[r]] # NONE
                /\ Kind[N] = "sqlite" => store'[N][key[r]].pin_until >= until'[r]
<1> USE ShapeIsTyped, Chosen
<1> DEFINE i == Candidate[key[r]][attempt[r]]
           e == store[N][key[r]]
<1>1. i \in Ids /\ key[r] \in Keys /\ i = PinId(r)
    BY PinIdTyped DEF PinId
<1>2. CASE /\ OwnedByOther(r, i)
           /\ IF AttemptsLeft(r)
              THEN attempt' = [attempt EXCEPT ![r] = @ + 1] /\ UNCHANGED <<pc, at>>
              ELSE Goto(r, "done") /\ UNCHANGED attempt
           /\ alias' = IF Kind[N] = "memory" THEN LiveAliases ELSE alias
           /\ UNCHANGED <<store, copy, until>>
  <2>1. LinksTyped' /\ PinsStay /\ LinksKept
      BY <1>2, AliasesRoom
  <2>2. UNCHANGED <<key, held, missed, expected, retried>> /\ pc[r] = "claim"
      BY DEF Claim
  <2>3. CASE AttemptsLeft(r)
    <3>1. attempt[r] + 1 \in 0..(Attempts - 1)
        BY <2>3, ChainAssumption DEF AttemptsLeft, Shape, CooksWell, CookTyped
    <3>2. CooksWell'
        BY <3>1, <2>2, <2>3, <1>2 DEF Shape, CooksWell, CookTyped, Carries
    <3> QED BY <3>2, <2>1, <2>2, <2>3, <1>2, ClockStays DEF Shape, Claim, HistoryTyped, history
  <2>4. CASE ~AttemptsLeft(r)
    <3>1. CooksWell'
        BY <2>2, <2>4, <1>2, FreeStep DEF Free, Goto, Shape, CooksWell, CookTyped
    <3>2. pc'[r] = "done"
        BY <2>4, <1>2 DEF Goto, Shape, CooksWell, CookTyped
    <3> QED BY <3>1, <3>2, <2>1, <1>2, ClockStays DEF Shape, Claim, HistoryTyped, history
  <2> QED BY <2>3, <2>4
<1>3. CASE /\ ~OwnedByOther(r, i)
           /\ ~Live(e)
           /\ IF retried[r] THEN Goto(r, "done") /\ UNCHANGED copy
              ELSE /\ Goto(r, "promote")
                   /\ copy' = [copy EXCEPT ![r] =
                                 [held[r] EXCEPT !.pin_until = MaxOf(@, now + PinTtl)]]
           /\ alias' = IF Kind[N] = "memory" THEN LiveAliases ELSE alias
           /\ UNCHANGED <<store, attempt, until>>
  <2>1. LinksTyped' /\ PinsStay /\ LinksKept
      BY <1>3, AliasesRoom
  <2>2. UNCHANGED <<key, held, missed, expected, retried>> /\ pc[r] = "claim"
      BY DEF Claim
  <2>3. CASE retried[r]
    <3>1. CooksWell'
        BY <2>2, <2>3, <1>3, FreeStep DEF Free, Goto, Shape, CooksWell, CookTyped
    <3>2. pc'[r] = "done"
        BY <2>3, <1>3 DEF Goto, Shape, CooksWell, CookTyped
    <3> QED BY <3>1, <3>2, <2>1, <1>3, <2>3, ClockStays DEF Shape, Claim, HistoryTyped, history
  <2>4. CASE ~retried[r]
    <3> DEFINE n == MaxOf(held[r].pin_until, now + PinTtl)
               new == [held[r] EXCEPT !.pin_until = n]
    <3>1. held[r] \in Entry
        BY <2>2 DEF Shape, CooksWell, CookTyped, Carries
    <3>2. n \in Nat
        BY <3>1, Entries DEF MaxOf
    <3>3. new \in Entry /\ new # NONE /\ copy' = [copy EXCEPT ![r] = new]
        BY <3>1, <3>2, <2>4, <1>3, OtherDeadline, Entries
    <3>4. From(new, held[r])
        BY <3>1, Entries DEF From, Entry
    <3> HIDE DEF new
    <3>5. CooksWell'
        BY <3>1, <3>3, <2>2, <2>4, <1>3, Entries
        DEF Shape, CooksWell, CookTyped, Carries, Goto, Phases
    <3>6. pc'[r] = "promote" /\ copy'[r] = new
        BY <3>3, <2>4, <1>3 DEF Goto, Shape, CooksWell, CookTyped
    <3> QED BY <3>1, <3>4, <3>5, <3>6, <2>1, <1>3, Entries, ClockStays
            DEF Shape, Claim, HistoryTyped, history
  <2> QED BY <2>3, <2>4
<1>4. CASE /\ ~OwnedByOther(r, i)
           /\ Live(e)
           /\ store' = [store EXCEPT ![N][key[r]].pin_until = MaxOf(@, now + Ttl(N))]
           /\ alias' = [LiveAliases EXCEPT ![i] = key[r]]
           /\ until' = [until EXCEPT ![r] = now + PinTtl]
           /\ Goto(r, "confirm")
           /\ UNCHANGED <<copy, attempt>>
  <2>1. /\ LinksTyped' /\ PinsStay /\ LinksKept
        /\ alias'[i] = key[r] /\ store'[N][key[r]] # NONE
        /\ store'[N][key[r]].pin_until >= now + Ttl(N)
      BY <1>1, <1>4, ClaimEffect DEF OwnedByOther
  <2>2. UNCHANGED <<key, held, missed, expected, retried>> /\ pc[r] = "claim"
      BY DEF Claim
  <2>3. CooksWell'
      BY <2>2, <1>4 DEF Shape, CooksWell, CookTyped, Carries, Goto, Phases
  <2>4. pc'[r] = "confirm" /\ until'[r] = now + PinTtl
      BY <1>4 DEF Goto, Shape, CooksWell, CookTyped
  <2>5. Kind[N] = "sqlite" => store'[N][key[r]].pin_until >= until'[r]
    <3>1. Kind[N] = "sqlite" => Ttl(N) = PinTtl
        BY TtlTyped
    <3> QED BY <2>1, <2>4, <3>1
  <2>6. /\ UNCHANGED <<now, tasks, promised, granted, answer>> /\ copy' = copy /\ attempt' = attempt
      BY <1>4 DEF Claim, history
  <2> QED BY <2>1, <2>3, <2>4, <2>5, <2>6, <1>1, ClockStays DEF Shape, HistoryTyped
<1> QED BY <1>2, <1>3, <1>4 DEF Claim

LEMMA ClaimAgain ==
    ASSUME Shape, NEW r \in Cooks, pc[r] = "promote", Advance(r, "claim"),
           attempt' = [attempt EXCEPT ![r] = 0], retried' = [retried EXCEPT ![r] = TRUE],
           UNCHANGED <<key, held, missed, copy, expected, until>>
    PROVE  CooksWell'
<1> USE ShapeIsTyped, Chosen
<1>1. 0 \in 0..(Attempts - 1)
    BY ChainAssumption
<1>2. at[r] # N => at[r] + 1 \in Tiers
    BY ChainAssumption DEF Shape, CooksWell, CookTyped, Tiers
<1>3. CASE at[r] = N
    BY <1>1, <1>3 DEF Shape, CooksWell, CookTyped, Carries, Advance, Goto, Phases
<1>4. CASE at[r] # N
    BY <1>1, <1>2, <1>4 DEF Shape, CooksWell, CookTyped, Carries, Advance
<1> QED BY <1>3, <1>4

LEMMA PromoteShape ==
    ASSUME Shape, NEW r \in Cooks, PromoteLink(r), setup' = setup, lost' \in 0..MaxLost
    PROVE  Shape' /\ PinsStay /\ LinksWritten(at[r], key[r], copy[r])
<1> USE ShapeIsTyped, Chosen
<1>1. LinksTyped' /\ PinsStay /\ LinksWritten(at[r], key[r], copy[r])
    BY CopyTyped, PromoteEffect DEF PromoteLink
<1>2. CooksWell'
    BY ClaimAgain DEF PromoteLink
<1> QED BY <1>1, <1>2, ClockStays DEF Shape, PromoteLink, HistoryTyped, history

LEMMA ConfirmShape ==
    ASSUME Shape, NEW r \in Cooks, Confirm(r), setup' = setup, lost' \in 0..MaxLost
    PROVE  /\ Shape' /\ PinsStay /\ LinksKept
           /\ \/ pc'[r] = "refresh" /\ copy'[r] = store[N][key[r]] /\ UNCHANGED <<store, alias>>
              \/ pc'[r] = "done" /\ copy'[r] = copy[r]
<1> USE ShapeIsTyped, Chosen
<1> DEFINE e == store[N][key[r]]
<1>1. key[r] \in Keys /\ UNCHANGED <<key, held, missed, expected, attempt, retried, until>>
    BY DEF Shape, CooksWell, CookTyped, Confirm
<1>2. CASE PinLive(e)
  <2>1. e \in Entry /\ e # NONE
      BY <1>1, <1>2, RowTyped DEF PinLive
  <2>2. copy' = [copy EXCEPT ![r] = e] /\ Goto(r, "refresh") /\ UNCHANGED <<store, alias>>
      BY <1>2 DEF Confirm
  <2>3. LinksTyped' /\ PinsStay /\ LinksKept
      BY <2>2, Untouched
  <2> HIDE DEF e
  <2>4. CooksWell' /\ pc'[r] = "refresh" /\ copy'[r] = e
      BY <2>1, <2>2, <1>1 DEF AfterRead, Shape, CooksWell, CookTyped, Carries, Goto, Phases
  <2> USE DEF e
  <2> QED BY <2>2, <2>3, <2>4, ClockStays DEF Shape, Confirm, HistoryTyped, history
<1>3. CASE ~PinLive(e)
  <2> DEFINE row == IF Kind[N] = "memory" /\ ~Live(e) THEN NONE ELSE e
  <2>1. /\ Goto(r, "done") /\ copy' = copy
        /\ SetLink(N, [store[N] EXCEPT ![key[r]] = row])
    <3>1. [store[N] EXCEPT ![key[r]] = row] =
          [store[N] EXCEPT ![key[r]] = IF Kind[N] = "memory" /\ ~Live(@) THEN NONE ELSE @]
        OBVIOUS
    <3> QED BY <3>1, <1>3 DEF Confirm
  <2>2. row = e \/ (Kind[N] = "memory" /\ row = NONE)
      OBVIOUS
  <2> HIDE DEF row
  <2>3. LinksTyped' /\ PinsStay /\ LinksKept
    <3>1. 0 \in Nat /\ FALSE \in BOOLEAN
        OBVIOUS
    <3> QED BY <3>1, <1>1, <2>1, <2>2, LookupEffect
  <2>4. CooksWell' /\ pc'[r] = "done"
      BY <1>1, <2>1, FreeStep DEF Free, Goto, Shape, CooksWell, CookTyped
  <2> QED BY <2>1, <2>3, <2>4, ClockStays DEF Shape, Confirm, HistoryTyped, history
<1> QED BY <1>2, <1>3

LEMMA RefreshShape ==
    ASSUME Shape, NEW r \in Cooks, Refresh(r), setup' = setup, lost' \in 0..MaxLost
    PROVE  /\ Shape' /\ PinsStay /\ LinksWritten(at[r], key[r], copy[r])
           /\ \/ pc'[r] = "done" /\ copy'[r] = NONE /\ held'[r] = NONE
              \/ pc'[r] = "refresh" /\ UNCHANGED <<copy, held, attempt, until, promised>>
<1> USE ShapeIsTyped, Chosen
<1>1. LinksTyped' /\ PinsStay /\ LinksWritten(at[r], key[r], copy[r])
    BY CopyTyped, RevalidateEffect DEF Refresh
<1>2. at[r] \in Tiers /\ at[r] < N /\ pc[r] = "refresh"
    BY DEF Refresh, Shape, CooksWell, CookTyped, Carries
<1>3. CASE at[r] = N - 1
  <2>1. /\ End(r, "done") /\ granted' = granted /\ answer' = answer /\ key' = key
        /\ promised' = promised \cup {[id |-> PinId(r), key |-> key[r], until |-> until[r]]}
      BY <1>3 DEF Refresh, PinId
  <2>2. until[r] \in Nat
      BY DEF Shape, CooksWell, CookTyped
  <2>3. HistoryTyped'
      BY <2>1, <2>2, PinIdTyped DEF Shape, HistoryTyped
  <2>4. CooksWell'
      BY <2>1, EndStep DEF Shape
  <2>5. pc'[r] = "done" /\ copy'[r] = NONE /\ held'[r] = NONE
      BY <2>1 DEF End, Goto, Shape, CooksWell, CookTyped
  <2> QED BY <1>1, <2>3, <2>4, <2>5, ClockStays DEF Shape, Refresh
<1>4. CASE at[r] # N - 1
  <2>1. /\ at' = [at EXCEPT ![r] = @ + 1]
        /\ UNCHANGED <<pc, held, missed, copy, expected, attempt, retried, until, history, key>>
      BY <1>4 DEF Refresh
  <2>2. at[r] + 1 \in Tiers /\ at[r] + 1 < N
      BY <1>2, <1>4, ChainAssumption DEF Tiers
  <2>3. CooksWell'
      BY <2>1, <2>2, <1>2 DEF Shape, CooksWell, CookTyped, Carries
  <2> QED BY <1>1, <1>2, <2>1, <2>3, ClockStays DEF Shape, Refresh, HistoryTyped, history
<1> QED BY <1>3, <1>4

LEMMA LeaveShape ==
    ASSUME Shape, NEW r \in Cooks, Leave(r), setup' = setup, lost' \in 0..MaxLost
    PROVE  Shape' /\ PinsStay /\ LinksKept
<1> USE ShapeIsTyped, Chosen
<1>1. LinksTyped' /\ PinsStay /\ LinksKept
    BY Untouched DEF Leave
<1>2. CooksWell'
    BY EndStep DEF Leave, Shape
<1> QED BY <1>1, <1>2, ClockStays DEF Shape, Leave, HistoryTyped, history

LEMMA CooksStay ==
    ASSUME Shape, UNCHANGED cook
    PROVE  CooksWell'
    BY DEF Shape, CooksWell, CookTyped, Carries, cook

LEMMA BackfillShape ==
    ASSUME Shape, NEW task \in tasks, Backfill(task), setup' = setup, lost' \in 0..MaxLost
    PROVE  Shape' /\ PinsStay /\ LinksWritten(task.tier, task.key, task.entry)
<1> USE ShapeIsTyped, Chosen
<1>1. task.tier \in Tiers /\ task.key \in Keys /\ task.entry \in Entry
    BY DEF Shape, TaskType
<1>2. LinksTyped' /\ PinsStay /\ LinksWritten(task.tier, task.key, task.entry)
    BY <1>1, PromoteEffect DEF Backfill
<1> QED BY <1>2, CooksStay, ClockStays DEF Shape, Backfill, HistoryTyped, history

LEMMA LookupLostShape ==
    ASSUME Shape, NEW r \in Cooks, LookupLost(r), setup' = setup, lost' \in 0..MaxLost
    PROVE  Shape' /\ PinsStay /\ LinksKept
<1> USE ShapeIsTyped, Chosen
<1> DEFINE pin == pc[r] = "pinonly"
<1>1. /\ key[r] \in Keys /\ pin \in BOOLEAN /\ Extends(r) \in Nat
      /\ pc[r] \in {"get", "pinget", "pinonly"} /\ at[r] = N
      /\ UNCHANGED <<key, held, copy, expected, attempt, retried, until>>
    BY FoundTyped DEF LookupLost
<1>2. LinksTyped' /\ PinsStay /\ LinksKept
  <2>1. CASE UNCHANGED <<store, alias>>
      BY <2>1, Untouched
  <2>2. CASE Hit(r) /\ SetLink(N, [store[N] EXCEPT ![key[r]] = Accessed(r)])
    <3>1. Hits(store[N][key[r]], pin) /\ Accessed(r) = access(store[N][key[r]], pin, Extends(r))
        BY <1>1, <2>2 DEF Hit, Accessed
    <3> QED BY <3>1, <2>2, <1>1, LookupEffect
  <2> QED BY <2>1, <2>2 DEF LookupLost
<1>3. CooksWell'
  <2>1. /\ Goto(r, AfterRead(pc[r], held[r]))
        /\ missed' = [missed EXCEPT ![r] = {}]
      BY DEF LookupLost
  <2> QED BY <2>1, <1>1 DEF AfterRead, Shape, CooksWell, CookTyped, Carries, Goto, Phases
<1> QED BY <1>2, <1>3, ClockStays DEF Shape, LookupLost, HistoryTyped, history

LEMMA PinLostShape ==
    ASSUME Shape, NEW r \in Cooks, PinLost(r), setup' = setup, lost' \in 0..MaxLost
    PROVE  Shape' /\ PinsStay /\ LinksKept
<1> USE ShapeIsTyped, Chosen
<1>1. LinksTyped' /\ PinsStay /\ LinksKept
  <2>1. CASE UNCHANGED <<store, alias>>
      BY <2>1, Untouched
  <2>2. CASE ~UNCHANGED <<store, alias>>
    <3>1. /\ Live(store[N][key[r]])
          /\ ~OwnedByOther(r, PinId(r))
          /\ store' = [store EXCEPT ![N][key[r]].pin_until = MaxOf(@, now + Ttl(N))]
          /\ alias' = [LiveAliases EXCEPT ![PinId(r)] = key[r]]
        BY <2>2 DEF PinLost, Claimable, PinId
    <3> QED BY <3>1, PinIdTyped, ClaimEffect DEF OwnedByOther
  <2> QED BY <2>1, <2>2
<1>2. CooksWell'
    BY EndStep DEF PinLost, Shape
<1> QED BY <1>1, <1>2, ClockStays DEF Shape, PinLost, HistoryTyped, history

LEMMA RequestTyped ==
    ASSUME Shape, NEW r \in Cooks, NEW op \in {"promote", "put", "revalidate"},
           NEW e \in Entry, pc[r] \in Phases
    PROVE  Request(op, N, key[r], e, expected[r], <<r, pc[r]>>) \in TaskType
    BY ShapeIsTyped, Chosen DEF Shape, CooksWell, CookTyped, Request, TaskType

\* A row that the cloud works out now and writes later.
LEMMA LandingTyped ==
    ASSUME Shape, NEW r \in Cooks, NEW e \in Entry
    PROVE  /\ Landing(r, e) \in TaskType
           /\ Landing(r, e).op = "land" /\ Landing(r, e).key = key[r]
           /\ Landing(r, e).from = <<r, pc[r]>>
           /\ From(Landing(r, e).entry, e)
           /\ Landing(r, e).entry = Capped(N, KeepPin(e, store[N][key[r]]))
<1> USE ShapeIsTyped, Chosen
<1> DEFINE kept == KeepPin(e, store[N][key[r]])
<1>1. key[r] \in Keys /\ store[N][key[r]] \in Entry \cup {NONE} /\ pc[r] \in Phases
    BY RowTyped DEF Shape, CooksWell, CookTyped
<1>2. /\ kept \in Entry /\ kept.ver = e.ver /\ kept.tok = e.tok /\ kept.cache = e.cache
      /\ kept.cache_until = e.cache_until
    BY <1>1, KeepPinEffect
<1> HIDE DEF kept
<1>3. /\ Capped(N, kept) \in Entry /\ From(Capped(N, kept), kept)
    BY <1>2, CappedEffect
<1>4. From(Capped(N, kept), e)
    BY <1>2, <1>3, Entries DEF From
<1>5. Landing(r, e) = Request("land", N, key[r], Capped(N, kept), NONE, <<r, pc[r]>>)
    BY DEF Landing, kept
<1> USE DEF kept
<1> QED BY <1>1, <1>3, <1>4, <1>5 DEF Request, TaskType

LEMMA ReadLateShape ==
    ASSUME Shape, NEW r \in Cooks, ReadLate(r), setup' = setup, lost' \in 0..MaxLost
    PROVE  Shape' /\ PinsStay /\ LinksKept
<1> USE ShapeIsTyped, Chosen
<1>1. LinksTyped' /\ PinsStay /\ LinksKept
    BY Untouched DEF ReadLate
<1>2. CooksWell'
    BY ReceiveCooks DEF ReadLate
<1>3. tasks' \subseteq TaskType
  <2>1. Accessed(r) \in Entry
      BY FoundTyped DEF ReadLate
  <2> QED BY <2>1, LandingTyped, PromotionsTyped DEF ReadLate, Shape
<1> QED BY <1>1, <1>2, <1>3, ClockStays DEF Shape, ReadLate, Receive, HistoryTyped, history

\* The aliases a claim leaves.
LEMMA ClaimAliases ==
    ASSUME Typed, Kind[N] # "sqlite", NEW k \in Keys, NEW i \in Ids, store' = store,
           alias' = [LiveAliases EXCEPT ![i] = k]
    PROVE  LinksTyped' /\ PinsStay /\ LinksKept
<1>1. LinksTyped'
    BY DEF Typed, TypeOK, LinksTyped, Rows, LiveAliases
<1>2. LinksKept
    BY DEF LinksKept, From
<1>3. ASSUME NEW t \in Tiers PROVE KeepsPins(t, store'[t])
  <2> SUFFICES ASSUME NEW j \in Keys, PinLive(store[t][j])
               PROVE  store[t][j] # NONE /\ store[t][j].pin_until >= store[t][j].pin_until
      BY DEF KeepsPins
  <2>1. store[t][j] \in Entry
      BY RowTyped DEF PinLive
  <2>2. store[t][j].pin_until \in Nat
      BY <2>1, Entries
  <2> QED BY <2>2 DEF PinLive
<1> QED BY <1>1, <1>2, <1>3 DEF PinsStay

\* The claim whose row the cloud writes later.
LEMMA ClaimedTyped ==
    ASSUME Shape, NEW r \in Cooks, Claimable(r)
    PROVE  /\ store[N][key[r]] \in Entry /\ key[r] \in Keys /\ PinId(r) \in Ids
           /\ [store[N][key[r]] EXCEPT !.pin_until = MaxOf(@, now + Ttl(N))] \in Entry
           /\ From([store[N][key[r]] EXCEPT !.pin_until = MaxOf(@, now + Ttl(N))], store[N][key[r]])
<1> USE ShapeIsTyped, Chosen
<1> DEFINE e == store[N][key[r]]
           n == MaxOf(e.pin_until, now + Ttl(N))
<1>1. e \in Entry /\ key[r] \in Keys /\ PinId(r) \in Ids
    BY PinIdTyped, RowTyped DEF Claimable, Live
<1>2. e.pin_until \in Nat /\ now + Ttl(N) \in Nat
    BY <1>1, Entries, TtlTyped
<1>3. n \in Nat
    BY <1>2 DEF MaxOf
<1>4. [e EXCEPT !.pin_until = MaxOf(@, now + Ttl(N))] = [e EXCEPT !.pin_until = n]
    OBVIOUS
<1> HIDE DEF n, e
<1>5. /\ [e EXCEPT !.pin_until = n] \in Entry
      /\ From([e EXCEPT !.pin_until = n], e)
    BY <1>1, <1>3, Entries DEF Entry, From
<1> USE DEF e
<1> QED BY <1>1, <1>4, <1>5

LEMMA ClaimLateShape ==
    ASSUME Shape, NEW r \in Cooks, ClaimLate(r), Kind[N] = "cloud",
           setup' = setup, lost' \in 0..MaxLost
    PROVE  Shape' /\ PinsStay /\ LinksKept
<1> USE ShapeIsTyped, Chosen
<1> DEFINE e == [store[N][key[r]] EXCEPT !.pin_until = MaxOf(@, now + Ttl(N))]
<1>1. e \in Entry /\ key[r] \in Keys /\ PinId(r) \in Ids
    BY ClaimedTyped DEF ClaimLate
<1>2. tasks' = tasks \cup {Landing(r, e)}
    BY DEF ClaimLate
<1> HIDE DEF e
<1>3. LinksTyped' /\ PinsStay /\ LinksKept
    BY <1>1, ClaimAliases DEF ClaimLate, PinId
<1>4. tasks' \subseteq TaskType
    BY <1>1, <1>2, LandingTyped DEF Shape
<1>5. CooksWell'
    BY DEF ClaimLate, Goto, Shape, CooksWell, CookTyped, Carries, Phases
<1> QED BY <1>3, <1>4, <1>5, ClockStays DEF Shape, ClaimLate, HistoryTyped, history

LEMMA WriteLostShape ==
    ASSUME Shape, NEW r \in Cooks, WriteLost(r), setup' = setup, lost' \in 0..MaxLost
    PROVE  Shape' /\ PinsStay /\ LinksKept
<1> USE ShapeIsTyped, Chosen
<1>1. LinksTyped' /\ PinsStay /\ LinksKept
    BY Untouched DEF WriteLost
<1>2. /\ pc[r] \in {"put", "reval", "expire", "promote"} /\ pc[r] \in Phases /\ at[r] = N
      /\ UNCHANGED <<key, held, missed, copy, expected, until>>
    BY DEF WriteLost, Phases
<1>3. copy[r] \in Entry
    BY <1>2, CopyTyped
<1>4. CooksWell'
  <2>1. CASE pc[r] = "promote"
      BY <2>1, <1>2, ClaimAgain DEF WriteLost
  <2>2. CASE pc[r] # "promote"
      BY <2>2, <1>2, AdvanceFree, AfterFree DEF WriteLost
  <2> QED BY <2>1, <2>2
<1>5. tasks' \subseteq TaskType
  <2>1. Lifetime(r) \in Nat
    <3>1. copy[r].cache_until \in Nat /\ now \in Nat
        BY <1>3, Entries
    <3> QED BY <3>1 DEF Lifetime
  <2>2. [copy[r] EXCEPT !.cache_until = Lifetime(r)] \in Entry
      BY <2>1, <1>3, OtherDeadline
  <2>3. \A op \in {"promote", "put", "revalidate"} :
          \A e \in {copy[r], [copy[r] EXCEPT !.cache_until = Lifetime(r)]} :
            Request(op, N, key[r], e, expected[r], <<r, pc[r]>>) \in TaskType
      BY <1>2, <1>3, <2>2, RequestTyped
  <2>4. Pinned(copy[r]) \in Entry
      BY <1>3, PinnedTyped
  <2>5. \/ tasks' = tasks
        \/ \E op \in {"promote", "put", "revalidate"} :
             \E e \in {copy[r], [copy[r] EXCEPT !.cache_until = Lifetime(r)]} :
               tasks' = tasks \cup {Request(op, N, key[r], e, expected[r], <<r, pc[r]>>)}
        \/ \E e \in {copy[r], Pinned(copy[r])} : tasks' = tasks \cup {Landing(r, e)}
      BY DEF WriteLost
  <2>6. \A e \in {copy[r], Pinned(copy[r])} : Landing(r, e) \in TaskType
      BY <1>3, <2>4, LandingTyped
  <2> QED BY <2>3, <2>5, <2>6 DEF Shape
<1> QED BY <1>1, <1>4, <1>5, ClockStays DEF Shape, WriteLost, HistoryTyped, history

\* The entry a late put brings, its lifetime counted from now.
Arriving(task) == Pinned([task.entry EXCEPT !.cache_until = now + @])

LEMMA ArrivingTyped ==
    ASSUME Shape, NEW task \in tasks
    PROVE  /\ Arriving(task) \in Entry
           /\ Arriving(task).ver = task.entry.ver /\ Arriving(task).tok = task.entry.tok
           /\ Arriving(task).cache = task.entry.cache
           /\ Arriving(task).cache_until = now + task.entry.cache_until
<1> USE ShapeIsTyped, Chosen
<1> DEFINE e == [task.entry EXCEPT !.cache_until = now + task.entry.cache_until]
<1>1. task.entry \in Entry
    BY DEF Shape, TaskType
<1>2. task.entry.cache_until \in Nat
    BY <1>1, Entries
<1>3. /\ e \in Entry
      /\ e.ver = task.entry.ver /\ e.tok = task.entry.tok /\ e.cache = task.entry.cache
      /\ e.cache_until = now + task.entry.cache_until
    BY <1>1, <1>2 DEF Entry
<1>4. Arriving(task) = Pinned(e)
    BY DEF Arriving
<1> HIDE DEF e
<1> QED BY <1>3, <1>4, PinnedTyped

\* A row the cloud had worked out is written, whatever is there.
LEMMA LandEffect ==
    ASSUME Typed, Kind[N] # "sqlite", NEW k \in Keys, NEW e \in Entry,
           SetLink(N, [store[N] EXCEPT ![k] = e])
    PROVE  LinksTyped' /\ PinsStay /\ LinksWritten(N, k, e)
<1> USE Chosen
<1> DEFINE rows == [store[N] EXCEPT ![k] = e]
<1>1. store \in [Tiers -> Rows] /\ rows \in Rows
    BY DEF Typed, TypeOK, Rows
<1>2. LinksTyped' /\ PinsStay /\ store' = [store EXCEPT ![N] = rows]
    BY <1>1, SetLinkEffect
<1>3. ASSUME NEW s \in Tiers, NEW j \in Keys
      PROVE  From(store'[s][j], store[s][j]) \/ (s = N /\ j = k /\ From(store'[s][j], e))
  <2>1. store'[s][j] = IF s = N /\ j = k THEN e ELSE store[s][j]
      BY <1>1, <1>2 DEF Rows
  <2> QED BY <2>1, Entries DEF From
<1> QED BY <1>2, <1>3 DEF LinksWritten

LEMMA ArriveShape ==
    ASSUME Shape, NEW task \in tasks, Arrive(task), setup' = setup, lost' \in 0..MaxLost
    PROVE  /\ Shape' /\ PinsStay
           /\ LinksWritten(N, task.key,
                           IF task.op = "put" THEN Arriving(task) ELSE task.entry)
<1> USE ShapeIsTyped, Chosen
<1>1. task.key \in Keys /\ task.entry \in Entry /\ task.from[1] \in Cooks
    BY DEF Shape, TaskType
<1>2. CASE task.op = "put"
  <2>1. /\ put(N, task.key, Arriving(task))
        /\ granted' = [granted EXCEPT ![task.from[1]] = Arriving(task).cache_until]
      BY <1>2 DEF Arrive, Arriving
  <2>2. LinksTyped' /\ PinsStay /\ LinksWritten(N, task.key, Arriving(task))
      BY <2>1, <1>1, ArrivingTyped, PutEffect
  <2>3. HistoryTyped'
      BY <2>1, <1>1, ArrivingTyped, Entries DEF Arrive, Shape, HistoryTyped
  <2> QED BY <1>2, <2>2, <2>3, CooksStay, ClockStays DEF Shape, Arrive
<1>3. CASE task.op = "land"
  <2>1. /\ SetLink(N, [store[N] EXCEPT ![task.key] = task.entry])
        /\ granted' = granted /\ Kind[N] = "cloud"
      BY <1>3 DEF Arrive
  <2>2. LinksTyped' /\ PinsStay /\ LinksWritten(N, task.key, task.entry)
      BY <2>1, <1>1, LandEffect
  <2> QED BY <1>3, <2>1, <2>2, CooksStay, ClockStays DEF Shape, Arrive, HistoryTyped
<1>4. CASE task.op \notin {"put", "land"}
  <2>1. revalidate(N, task.key, task.entry, task.cache) /\ granted' = granted
      BY <1>4 DEF Arrive
  <2>2. LinksTyped' /\ PinsStay /\ LinksWritten(N, task.key, task.entry)
      BY <2>1, <1>1, RevalidateEffect
  <2> QED BY <1>4, <2>1, <2>2, CooksStay, ClockStays DEF Shape, Arrive, HistoryTyped
<1> QED BY <1>2, <1>3, <1>4

LEMMA EvictShape ==
    ASSUME Shape, NEW t \in Tiers, NEW k \in Keys, Evict(t, k), setup' = setup, lost' \in 0..MaxLost
    PROVE  Shape' /\ PinsStay /\ LinksKept
<1> USE ShapeIsTyped, Chosen
<1>1. Kind[t] = "memory" /\ SetLink(t, [store[t] EXCEPT ![k] = NONE])
    BY DEF Evict
<1>2. LinksTyped' /\ PinsStay /\ LinksKept
    BY <1>1, RowEffect DEF From
<1> QED BY <1>2, CooksStay, ClockStays DEF Shape, Evict, HistoryTyped, history

LEMMA TickShape ==
    ASSUME Shape, Tick, setup' = setup, lost' \in 0..MaxLost
    PROVE  Shape' /\ PinsStay /\ LinksKept
<1> USE ShapeIsTyped, Chosen
<1>1. LinksTyped' /\ PinsStay /\ LinksKept
    BY Untouched DEF Tick
<1>2. ClockTyped'
    BY ChainAssumption DEF Shape, ClockTyped, Tick
<1> QED BY <1>1, <1>2, CooksStay DEF Shape, Tick, HistoryTyped, history

LEMMA InitShape == Init => Shape
<1> SUFFICES ASSUME Init PROVE Shape
    OBVIOUS
<1>1. /\ setup.keys \subseteq Keys /\ setup.MaxTime \in Nat /\ 1 \in Tiers
      /\ 0 \in 0..(Attempts - 1)
    BY ChainAssumption DEF Init, Tiers
<1>2. ClockTyped /\ LinksTyped /\ HistoryTyped /\ tasks \subseteq TaskType
    BY <1>1, ChainAssumption DEF Init, ClockTyped, LinksTyped, Rows, HistoryTyped, TaskType
<1>3. CooksWell
  <2>1. key \in [Cooks -> Keys]
      BY <1>1 DEF Init
  <2> QED BY <1>1, <2>1 DEF Init, CooksWell, CookTyped, Carries, Phases
<1> QED BY <1>2, <1>3 DEF Shape

LEMMA StepShape ==
    ASSUME Shape, NEW r \in Cooks, Begin(r) \/ Step(r) \/ Leave(r), setup' = setup,
           lost' \in 0..MaxLost
    PROVE  Shape' /\ PinsStay
    BY BeginShape, ReadShape, ServeShape, NotModifiedShape, RenderedShape, PutShape,
       RevalidateShape, ProbeShape, ExpireShape, ClaimShape, PromoteShape, ConfirmShape,
       RefreshShape, LeaveShape DEF Step

LEMMA NextShape ==
    ASSUME Shape, [Next]_vars
    PROVE  Shape' /\ PinsStay /\ setup' = setup /\ now' \in Nat /\ now <= now'
<1> USE ShapeIsTyped, Chosen
<1>1. CASE UNCHANGED vars
  <2>1. PinsStay /\ LinksTyped'
      BY <1>1, Untouched DEF vars
  <2> QED BY <1>1, <2>1, CooksStay DEF vars, Shape, ClockTyped, HistoryTyped, history
<1>2. CASE Next
  <2>1. setup' = setup /\ lost' \in 0..MaxLost
      BY <1>2, ChainAssumption DEF Next, Answered, Unanswered, Shape, ClockTyped
  <2>2. now' \in Nat /\ now <= now'
    <3>1. CASE Answered
      <4>1. ASSUME NEW r \in Cooks, Begin(r) \/ Step(r) \/ Leave(r)
            PROVE  now' = now
        <5>1. ASSUME NEW d \in Deadlines, NEW c, NotModified(r, d, c) \/ Rendered(r, d, c)
              PROVE  now' = now
            BY <5>1 DEF NotModified, Rendered
        <5> QED BY <4>1, <5>1 DEF Begin, Step, Leave, Read, Receive, Serve, PutLink,
               RevalidateLink, Probe, Expire, Claim, PromoteLink, Confirm, Refresh
      <4>2. (\E task \in tasks : Backfill(task) \/ Arrive(task)) => now' = now
          BY DEF Backfill, Arrive
      <4>3. (\E t \in Tiers, k \in Keys : Evict(t, k)) => now' = now
          BY DEF Evict
      <4> QED BY <3>1, <4>1, <4>2, <4>3 DEF Answered, Tick
    <3>2. CASE \E r \in Cooks : Unanswered(r)
        BY <3>2 DEF Unanswered, LookupLost, PinLost, WriteLost, ReadLate, ClaimLate, Receive
    <3> QED BY <1>2, <3>1, <3>2 DEF Next
  <2>3. ASSUME NEW r \in Cooks, Begin(r) \/ Step(r) \/ Leave(r)
        PROVE  Shape' /\ PinsStay
      BY <2>1, <2>3, StepShape
  <2>4. ASSUME NEW task \in tasks, Backfill(task) \/ Arrive(task)
        PROVE  Shape' /\ PinsStay
      BY <2>1, <2>4, BackfillShape, ArriveShape
  <2>5. ASSUME NEW t \in Tiers, NEW k \in Keys, Evict(t, k)
        PROVE  Shape' /\ PinsStay
      BY <2>1, <2>5, EvictShape
  <2>6. CASE Tick
      BY <2>1, <2>2, <2>6, TickShape
  <2>7. ASSUME NEW r \in Cooks, Unanswered(r)
        PROVE  Shape' /\ PinsStay
      BY <2>1, <2>7, LookupLostShape, PinLostShape, ReadLateShape, ClaimLateShape, WriteLostShape
         DEF Unanswered
  <2> QED BY <1>2, <2>1, <2>2, <2>3, <2>4, <2>5, <2>6, <2>7 DEF Next, Answered
<1> QED BY <1>1, <1>2

(* Whatever a cook carries in a phase, of entries, links and attempts, is   *)
(* what the code has at hand there.                                        *)
THEOREM ShapeHolds == Spec => []Shape
<1>1. Shape /\ [Next]_vars => Shape'
    BY NextShape
<1> QED BY <1>1, InitShape, PTL DEF Spec

(* The caches and their cooks keep their types, and no claim goes past its *)
(* last attempt (issue_pin).                                               *)
THEOREM ChainTyped == Spec => []TypeOK
<1>1. Shape => TypeOK
    BY ShapeIsTyped DEF Typed
<1> QED BY <1>1, ShapeHolds, PTL

-----------------------------------------------------------------------------
(* Pins.  A pin stands as soon as it has been claimed, before the client   *)
(* hears of it.                                                            *)
PinsGood ==
    Kind[N] = "sqlite" =>
        /\ \A p \in promised : Kept(p.id, p.key, p.until)
        /\ \A r \in Cooks : pc[r] \in {"confirm", "refresh"} => Kept(PinId(r), key[r], until[r])

LEMMA KeptStays ==
    ASSUME Shape, Shape', PinsStay, Kind[N] = "sqlite", now' \in Nat, now <= now',
           NEW i \in Ids, NEW k \in Keys, NEW u \in Nat, Kept(i, k, u), u > now'
    PROVE  /\ alias'[i] = k /\ store'[N][k] # NONE
           /\ store'[N][k].pin_until >= u
<1> USE ShapeIsTyped, Chosen
<1>1. u > now /\ alias[i] = k /\ store[N][k] # NONE /\ store[N][k].pin_until >= u
    BY DEF Kept
<1>2. store[N][k] \in Entry /\ k # NONE
    BY <1>1, RowTyped, NoneAssumption
<1>3. store[N][k].pin_until \in Nat
    BY <1>2, Entries
<1>4. PinLive(store[N][k])
    BY <1>1, <1>3 DEF PinLive
<1>5. /\ store'[N][k] # NONE /\ store'[N][k].pin_until >= store[N][k].pin_until
      /\ alias'[i] = k
    BY <1>1, <1>2, <1>4 DEF PinsStay, KeepsPins
<1>6. store'[N][k].pin_until >= u
  <2>1. store'[N][k] \in Entry
      BY <1>5 DEF Shape, LinksTyped, Rows
  <2>2. store'[N][k].pin_until \in Nat
      BY <2>1, Entries
  <2> QED BY <1>1, <1>3, <1>5, <2>2
<1> QED BY <1>5, <1>6

\* What other cooks do leaves a claimed pin standing.
LEMMA PinsKeep ==
    ASSUME Shape, Shape', PinsGood, PinsStay, setup' = setup, now' \in Nat, now <= now',
           promised' = promised,
           \A q \in Cooks : pc'[q] \in {"confirm", "refresh"} =>
               \/ /\ pc[q] \in {"confirm", "refresh"}
                  /\ key'[q] = key[q] /\ attempt'[q] = attempt[q] /\ until'[q] = until[q]
               \/ /\ alias'[PinId(q)'] = key'[q] /\ store'[N][key'[q]] # NONE
                  /\ Kind[N] = "sqlite" => store'[N][key'[q]].pin_until >= until'[q]
    PROVE  PinsGood'
<1> SUFFICES ASSUME Kind[N] = "sqlite" PROVE PinsGood'
    BY DEF PinsGood, Kind
<1>1. ASSUME NEW p \in promised PROVE Kept(p.id, p.key, p.until)'
  <2>1. p.id \in Ids /\ p.key \in Keys /\ p.until \in Nat /\ Kept(p.id, p.key, p.until)
      BY DEF Shape, HistoryTyped, PinsGood
  <2> QED BY <2>1, KeptStays DEF Kept
<1>2. ASSUME NEW q \in Cooks, pc'[q] \in {"confirm", "refresh"}
      PROVE  Kept(PinId(q), key[q], until[q])'
  <2>1. CASE /\ pc[q] \in {"confirm", "refresh"}
             /\ key'[q] = key[q] /\ attempt'[q] = attempt[q] /\ until'[q] = until[q]
    <3>1. /\ PinId(q) \in Ids /\ key[q] \in Keys /\ until[q] \in Nat
          /\ Kept(PinId(q), key[q], until[q])
        BY <2>1, PinIdTyped DEF PinsGood, Shape, CooksWell, CookTyped
    <3>2. PinId(q)' = PinId(q)
        BY <2>1 DEF PinId
    <3>3. until[q] > now' => /\ alias'[PinId(q)] = key[q] /\ store'[N][key[q]] # NONE
                             /\ store'[N][key[q]].pin_until >= until[q]
        BY <3>1, KeptStays
    <3> QED BY <2>1, <3>2, <3>3 DEF Kept
  <2>2. CASE /\ alias'[PinId(q)'] = key'[q] /\ store'[N][key'[q]] # NONE
             /\ Kind[N] = "sqlite" => store'[N][key'[q]].pin_until >= until'[q]
      BY <2>2 DEF Kept
  <2> QED BY <1>2, <2>1, <2>2
<1> QED BY <1>1, <1>2 DEF PinsGood

LEMMA NextPins ==
    ASSUME Shape, PinsGood, [Next]_vars
    PROVE  PinsGood'
<1> DEFINE same(q) == /\ pc[q] \in {"confirm", "refresh"}
                      /\ key'[q] = key[q] /\ attempt'[q] = attempt[q] /\ until'[q] = until[q]
<1>1. Shape' /\ PinsStay /\ setup' = setup /\ now' \in Nat /\ now <= now'
    BY NextShape
<1>2. CASE UNCHANGED <<cook, promised>>
    BY <1>1, <1>2, PinsKeep DEF cook
<1>3. ASSUME NEW r \in Cooks, Begin(r) \/ Serve(r) \/ Read(r) \/ PutLink(r) \/ RevalidateLink(r)
                 \/ Probe(r) \/ Expire(r) \/ PromoteLink(r) \/ LookupLost(r) \/ WriteLost(r)
                 \/ ReadLate(r)
                 \/ \E d \in Deadlines : \E c \in Encoded(d) : NotModified(r, d, c) \/ Rendered(r, d, c)
      PROVE  PinsGood'
  <2>1. /\ \A q \in Cooks \ {r} : pc'[q] = pc[q] /\ attempt'[q] = attempt[q]
        /\ UNCHANGED <<key, until, promised>>
        /\ pc'[r] \notin {"confirm", "refresh"}
    <3> USE DEF Shape, CooksWell, CookTyped, Goto, AfterWrites, history
    <3>1. CASE Begin(r) \/ Serve(r)
        BY <3>1 DEF Begin, Serve
    <3>2. CASE Read(r)
        BY <3>2 DEF Read, Receive, AfterRead
    <3>9. CASE ReadLate(r)
        BY <3>9 DEF ReadLate, Receive, AfterRead
    <3>3. CASE LookupLost(r)
        BY <3>3 DEF LookupLost, AfterRead
    <3>4. CASE PutLink(r) \/ RevalidateLink(r)
        BY <3>4 DEF PutLink, RevalidateLink, Advance
    <3>5. CASE Probe(r) \/ Expire(r)
        BY <3>5 DEF Probe, Expire, Advance
    <3>6. CASE PromoteLink(r)
        BY <3>6 DEF PromoteLink, Advance
    <3>7. CASE WriteLost(r)
        BY <3>7 DEF WriteLost, Advance
    <3>8. CASE \E d \in Deadlines : \E c \in Encoded(d) : NotModified(r, d, c) \/ Rendered(r, d, c)
        BY <3>8 DEF NotModified, Rendered
    <3> QED BY <1>3, <3>1, <3>2, <3>3, <3>4, <3>5, <3>6, <3>7, <3>8, <3>9
  <2>2. \A q \in Cooks : pc'[q] \in {"confirm", "refresh"} => same(q)
      BY <2>1
  <2> QED BY <1>1, <2>1, <2>2, PinsKeep
<1>4. ASSUME NEW r \in Cooks, Leave(r) \/ PinLost(r)
      PROVE  PinsGood'
  <2>1. /\ \A q \in Cooks \ {r} : pc'[q] = pc[q] /\ attempt'[q] = attempt[q] /\ until'[q] = until[q]
        /\ UNCHANGED <<key, promised>>
        /\ pc'[r] \notin {"confirm", "refresh"}
      BY <1>4 DEF Shape, CooksWell, CookTyped, Leave, PinLost, End, Goto, history
  <2>2. \A q \in Cooks : pc'[q] \in {"confirm", "refresh"} => same(q)
      BY <2>1
  <2> QED BY <1>1, <2>1, <2>2, PinsKeep
<1>5. ASSUME NEW r \in Cooks, Claim(r), setup' = setup, lost' \in 0..MaxLost
      PROVE  PinsGood'
  <2>1. /\ \A q \in Cooks \ {r} : pc'[q] = pc[q] /\ attempt'[q] = attempt[q] /\ until'[q] = until[q]
        /\ UNCHANGED <<key, promised>>
      BY <1>5 DEF Shape, CooksWell, CookTyped, Claim, Goto, history
  <2>2. pc'[r] \in {"confirm", "refresh"} =>
            /\ alias'[PinId(r)'] = key'[r] /\ store'[N][key'[r]] # NONE
            /\ Kind[N] = "sqlite" => store'[N][key'[r]].pin_until >= until'[r]
    <3>1. pc'[r] \in {"confirm", "refresh"} => pc'[r] = "confirm" /\ attempt'[r] = attempt[r]
        BY <1>5, ClaimShape
    <3>2. pc'[r] \in {"confirm", "refresh"} => PinId(r)' = PinId(r) /\ key'[r] = key[r]
        BY <2>1, <3>1 DEF PinId
    <3> QED BY <1>5, <3>1, <3>2, ClaimShape
  <2>3. \A q \in Cooks : pc'[q] \in {"confirm", "refresh"} =>
            \/ same(q)
            \/ /\ alias'[PinId(q)'] = key'[q] /\ store'[N][key'[q]] # NONE
               /\ Kind[N] = "sqlite" => store'[N][key'[q]].pin_until >= until'[q]
      BY <2>1, <2>2
  <2> QED BY <1>1, <2>1, <2>3, PinsKeep
<1>6. ASSUME NEW r \in Cooks, Confirm(r)
      PROVE  PinsGood'
  <2>1. /\ \A q \in Cooks \ {r} : pc'[q] = pc[q]
        /\ UNCHANGED <<key, promised, attempt, until>> /\ pc[r] = "confirm"
      BY <1>6 DEF Shape, CooksWell, CookTyped, Confirm, Goto, history
  <2>2. \A q \in Cooks : pc'[q] \in {"confirm", "refresh"} => same(q)
      BY <2>1
  <2> QED BY <1>1, <2>1, <2>2, PinsKeep
<1>7. ASSUME NEW r \in Cooks, Refresh(r)
      PROVE  PinsGood'
  <2>1. CASE at[r] # N - 1
    <3>1. UNCHANGED <<pc, key, promised, attempt, until>>
        BY <1>7, <2>1 DEF Refresh, history
    <3>2. \A q \in Cooks : pc'[q] \in {"confirm", "refresh"} => same(q)
        BY <3>1
    <3> QED BY <1>1, <3>1, <3>2, PinsKeep
  <2>2. CASE at[r] = N - 1
    <3>1. /\ \A q \in Cooks \ {r} : pc'[q] = pc[q] /\ attempt'[q] = attempt[q] /\ until'[q] = until[q]
          /\ pc'[r] = "done" /\ key' = key /\ pc[r] = "refresh"
          /\ promised' = promised \cup {[id |-> PinId(r), key |-> key[r], until |-> until[r]]}
        BY <1>7, <2>2 DEF Shape, CooksWell, CookTyped, Refresh, End, Goto, PinId
    <3> SUFFICES ASSUME Kind[N] = "sqlite" PROVE PinsGood'
        BY <1>1 DEF PinsGood, Kind
    <3>2. ASSUME NEW i \in Ids, NEW k \in Keys, NEW u \in Nat, Kept(i, k, u)
          PROVE  u > now' => /\ alias'[i] = k /\ store'[N][k] # NONE
                             /\ store'[N][k].pin_until >= u
        BY <1>1, <3>2, KeptStays
    <3>3. ASSUME NEW q \in Cooks, pc[q] \in {"confirm", "refresh"}
          PROVE  /\ PinId(q) \in Ids /\ key[q] \in Keys /\ until[q] \in Nat
                 /\ Kept(PinId(q), key[q], until[q])
        BY <3>3, PinIdTyped DEF PinsGood, Shape, CooksWell, CookTyped
    <3>4. ASSUME NEW p \in promised' PROVE Kept(p.id, p.key, p.until)'
      <4>1. p.id \in Ids /\ p.key \in Keys /\ p.until \in Nat /\ Kept(p.id, p.key, p.until)
        <5>1. CASE p \in promised
            BY <5>1 DEF Shape, HistoryTyped, PinsGood
        <5>2. CASE p = [id |-> PinId(r), key |-> key[r], until |-> until[r]]
            BY <5>2, <3>1, <3>3
        <5> QED BY <3>1, <5>1, <5>2
      <4> QED BY <4>1, <3>2 DEF Kept
    <3>5. ASSUME NEW q \in Cooks, pc'[q] \in {"confirm", "refresh"}
          PROVE  Kept(PinId(q), key[q], until[q])'
      <4>1. q # r /\ pc[q] \in {"confirm", "refresh"} /\ PinId(q)' = PinId(q)
            /\ key'[q] = key[q] /\ until'[q] = until[q]
          BY <3>1, <3>5 DEF PinId
      <4>2. until[q] > now' => /\ alias'[PinId(q)] = key[q] /\ store'[N][key[q]] # NONE
                               /\ store'[N][key[q]].pin_until >= until[q]
          BY <4>1, <3>2, <3>3
      <4> QED BY <4>1, <4>2 DEF Kept
    <3> QED BY <3>4, <3>5 DEF PinsGood
  <2> QED BY <2>1, <2>2
<1>8. CASE Next
  <2>1. ASSUME NEW r \in Cooks, Begin(r) \/ Step(r) \/ Leave(r), UNCHANGED lost
        PROVE  PinsGood'
    <3>1. lost' \in 0..MaxLost
        BY <2>1 DEF Shape, ClockTyped
    <3> QED BY <1>1, <2>1, <3>1, <1>3, <1>4, <1>5, <1>6, <1>7 DEF Step
  <2>2. ASSUME NEW task \in tasks, Backfill(task) \/ Arrive(task)
        PROVE  PinsGood'
      BY <2>2, <1>2 DEF Backfill, Arrive, history
  <2>3. ASSUME NEW t \in Tiers, NEW k \in Keys, Evict(t, k)
        PROVE  PinsGood'
      BY <2>3, <1>2 DEF Evict, history
  <2>4. CASE Tick
      BY <2>4, <1>2 DEF Tick, history
  <2>5. ASSUME NEW r \in Cooks, Unanswered(r)
        PROVE  PinsGood'
    <3>1. CASE ClaimLate(r)
        BY <2>5, <3>1, <1>1 DEF Unanswered, PinsGood, Kind
    <3> QED BY <2>5, <3>1, <1>3, <1>4 DEF Unanswered
  <2> QED BY <1>8, <2>1, <2>2, <2>3, <2>4, <2>5 DEF Next, Answered
<1>9. CASE UNCHANGED vars
    BY <1>9, <1>2 DEF vars, history
<1> QED BY <1>8, <1>9

(* From the claim of an SQLite link on, before the client hears of it, the *)
(* row and its alias stand until the deadline that was claimed.            *)
THEOREM PinsHold == Spec => [](Shape /\ PinsGood)
<1>1. Init => PinsGood
    BY DEF Init, PinsGood
<1>2. Shape /\ PinsGood /\ [Next]_vars => (Shape /\ PinsGood)'
    BY NextShape, NextPins
<1> QED BY <1>1, <1>2, InitShape, PTL DEF Spec

-----------------------------------------------------------------------------
\* Without a pin lifetime no cook looks for a pin.
Pinless ==
    PinTtl = 0 =>
        /\ promised = {}
        /\ \A r \in Cooks : pc[r] \in {"idle", "get", "decide", "put", "reval", "expire",
                                       "done", "gone"}

LEMMA NextPinless ==
    ASSUME Shape, Pinless, [Next]_vars
    PROVE  Pinless'
<1> SUFFICES ASSUME PinTtl = 0, setup' = setup PROVE Pinless'
    BY NextShape DEF Pinless, PinTtl
<1>1. /\ promised = {} /\ AfterWrites = "done"
      /\ \A r \in Cooks : pc[r] \in {"idle", "get", "decide", "put", "reval", "expire",
                                     "done", "gone"}
    BY DEF Pinless, AfterWrites
<1>2. CASE UNCHANGED <<pc, promised>>
    BY <1>1, <1>2 DEF Pinless
<1>3. ASSUME NEW r \in Cooks, NEW l \in {"get", "decide", "put", "reval", "expire", "done", "gone"},
             pc' = [pc EXCEPT ![r] = l] \/ pc' = pc, promised' = promised
      PROVE  Pinless'
    BY <1>1, <1>3 DEF Pinless, Shape, CooksWell, CookTyped
<1>4. ASSUME NEW r \in Cooks, Begin(r) \/ Step(r) \/ Leave(r)
      PROVE  Pinless'
  <2>1. CASE Begin(r) \/ Leave(r) \/ Serve(r)
      BY <2>1, <1>1, <1>3 DEF Begin, Leave, Serve, Goto, End, history
  <2>2. CASE Read(r)
    <3>1. pc[r] = "get"
        BY <2>2, <1>1 DEF Read, Receive
    <3>2. promised' = promised
        BY <2>2 DEF Read, Receive, history
    <3>3. pc'[r] \in {"get", "decide"} /\ \A q \in Cooks \ {r} : pc'[q] = pc[q]
        BY <2>2, <3>1 DEF Read, Receive, AfterRead, Goto, Shape, CooksWell, CookTyped
    <3> QED BY <1>1, <3>2, <3>3 DEF Pinless
  <2>3. CASE \E d \in Deadlines : \E c \in Encoded(d) : NotModified(r, d, c) \/ Rendered(r, d, c)
      BY <2>3, <1>3 DEF NotModified, Rendered, Goto
  <2>4. CASE PutLink(r) \/ RevalidateLink(r) \/ Probe(r) \/ Expire(r)
      BY <2>4, <1>1, <1>3 DEF PutLink, RevalidateLink, Probe, Expire, Advance, Goto, history
  <2>5. CASE Claim(r) \/ PromoteLink(r) \/ Confirm(r) \/ Refresh(r)
      BY <2>5, <1>1 DEF Claim, PromoteLink, Confirm, Refresh
  <2> QED BY <1>4, <2>1, <2>2, <2>3, <2>4, <2>5 DEF Step
<1>5. ASSUME NEW r \in Cooks, Unanswered(r)
      PROVE  Pinless'
  <2>1. CASE LookupLost(r)
    <3>1. pc[r] = "get"
        BY <2>1, <1>1 DEF LookupLost
    <3>2. promised' = promised
        BY <2>1 DEF LookupLost, history
    <3>3. pc'[r] = "decide" /\ \A q \in Cooks \ {r} : pc'[q] = pc[q]
        BY <2>1, <3>1 DEF LookupLost, AfterRead, Goto, Shape, CooksWell, CookTyped
    <3> QED BY <1>1, <3>2, <3>3 DEF Pinless
  <2>2. CASE PinLost(r)
      BY <2>2, <1>1 DEF PinLost
  <2>4. CASE ReadLate(r)
    <3>1. Extends(r) = 0
        BY <1>1, ShapeIsTyped, FoundTyped, TtlTyped, Chosen DEF Extends
    <3> QED BY <2>4, <3>1 DEF ReadLate
  <2>5. CASE ClaimLate(r)
      BY <2>5, <1>1 DEF ClaimLate, Claimable
  <2>3. CASE WriteLost(r)
    <3>1. pc[r] # "promote"
        BY <1>1
    <3>2. Advance(r, "done") /\ promised' = promised
        BY <2>3, <1>1, <3>1 DEF WriteLost, history
    <3> QED BY <3>2, <1>3 DEF Advance, Goto
  <2> QED BY <1>5, <2>1, <2>2, <2>3, <2>4, <2>5 DEF Unanswered
<1>6. CASE Next
  <2>1. ASSUME NEW task \in tasks, Backfill(task) \/ Arrive(task)
        PROVE  Pinless'
      BY <2>1, <1>2 DEF Backfill, Arrive, history, cook
  <2>2. ASSUME NEW t \in Tiers, NEW k \in Keys, Evict(t, k)
        PROVE  Pinless'
      BY <2>2, <1>2 DEF Evict, history, cook
  <2>3. CASE Tick
      BY <2>3, <1>2 DEF Tick, history, cook
  <2> QED BY <1>4, <1>5, <1>6, <2>1, <2>2, <2>3 DEF Next, Answered
<1>7. CASE UNCHANGED vars
    BY <1>7, <1>2 DEF vars, cook, history
<1> QED BY <1>6, <1>7

(* Without a pin lifetime no cook gets as far as a claim (finish).          *)
THEOREM PinlessHolds == Spec => []Pinless
<1>1. Init => Pinless
    BY DEF Init, Pinless
<1>2. Shape /\ Pinless /\ [Next]_vars => Pinless'
    BY NextPinless
<1> QED BY <1>1, <1>2, ShapeHolds, PTL DEF Spec

(* "A pinned entry stays until its pin expires", where SQLite is the last  *)
(* link: what issue_pin and the refresh of the layers have told a client,  *)
(* the pin route resolves until its deadline; no put, revalidation, copy,  *)
(* claim or eviction of any other cook takes it back.                      *)
THEOREM PinsAreKept == Spec => []PinPromiseKept
<1>1. Shape /\ PinsGood /\ Pinless => PinPromiseKept
  <2> SUFFICES ASSUME Shape, PinsGood, Pinless, Kind[N] = "sqlite",
                      NEW p \in promised, p.until > now
               PROVE  /\ alias[p.id] = p.key /\ Resolve(p.id) # NONE
                      /\ Resolve(p.id).pin_until >= p.until
      BY DEF PinPromiseKept
  <2>1. /\ alias[p.id] = p.key /\ store[N][p.key] # NONE
        /\ store[N][p.key].pin_until >= p.until /\ p.key \in Keys /\ p.until \in Nat
      BY DEF PinsGood, Kept, Shape, HistoryTyped
  <2>2. PinTtl > 0 /\ now \in Nat /\ N \in Tiers
      BY ShapeIsTyped, Chosen DEF Pinless
  <2>3. store[N][p.key] \in Entry /\ p.key # NONE
      BY <2>1, <2>2, ShapeIsTyped, RowTyped, NoneAssumption
  <2>4. PinLive(store[N][p.key])
      BY <2>1, <2>2, <2>3, Entries DEF PinLive
  <2>5. Resolve(p.id) = store[N][p.key]
      BY <2>1, <2>2, <2>3, <2>4 DEF Resolve, pin_data
  <2> QED BY <2>1, <2>5
<1> QED BY <1>1, PinsHold, PinlessHolds, PTL

-----------------------------------------------------------------------------
(* What the links hold.  f[q] is the answer of cook q: the render it shows *)
(* and the cache string it was sent with.                                  *)

\* A cook that has not decided yet; it has no answer.
Early == {"idle", "get", "decide"}

\* An entry shows the render its response showed, under the response's
\* cache string, and lasts no longer than the response asked for.
Right(e, f, phase, grants) ==
    e # NONE => /\ f[e.tok] = [ver |-> e.ver, cache |-> e.cache]
                /\ e.cache_until <= grants[e.tok]
                /\ phase[e.tok] \notin Early

\* A response showed render v under the cache string a revalidation expects.
Expects(c, v, f) == \E q \in Cooks : f[q] = [ver |-> v, cache |-> c] /\ pc[q] \notin Early

CookOK(r, f) ==
    /\ Right(held[r], f, pc, granted) /\ Right(copy[r], f, pc, granted)
    /\ pc[r] = "put" => /\ copy[r].ver = r /\ copy[r].tok = r
                        /\ granted[r] = copy[r].cache_until
    /\ pc[r] = "reval" => Expects(expected[r], copy[r].ver, f)

\* A late put starts its lifetime when it arrives.
TaskOK(task, f) ==
    /\ task.op # "put" => Right(task.entry, f, pc, granted)
    /\ task.op = "put" =>
         /\ task.from[2] = "put"
         /\ task.entry.ver = task.from[1] /\ task.entry.tok = task.from[1]
         /\ f[task.from[1]] = [ver |-> task.entry.ver, cache |-> task.entry.cache]
         /\ pc[task.from[1]] \notin Early \cup {"put"}
         /\ granted[task.from[1]] <= now + task.entry.cache_until

Sound(f) ==
    /\ \A t \in Tiers, k \in Keys : Right(store[t][k], f, pc, granted)
    /\ \A r \in Cooks : CookOK(r, f)
    /\ \A task \in tasks : TaskOK(task, f)

\* A cook puts its render into the last link once.
OnePut ==
    \A s, t \in tasks : (s.op = "put" /\ t.op = "put" /\ s.from[1] = t.from[1]) => s = t

Renders == [Cooks -> [ver : Cooks, cache : Strings]]

\* Cooks go on, and an answer that was given stays.
Onward(f, g) ==
    \A q \in Cooks :
        /\ pc[q] \notin Early => pc'[q] \notin Early /\ g[q] = f[q] /\ granted'[q] >= granted[q]
        /\ pc[q] \notin Early \cup {"put"} => pc'[q] # "put"

LEMMA RightStays ==
    ASSUME Shape, Shape', NEW f \in Renders, NEW g \in Renders, Onward(f, g),
           NEW e \in Entry \cup {NONE}, Right(e, f, pc, granted)
    PROVE  Right(e, g, pc', granted')
<1> SUFFICES ASSUME e # NONE PROVE Right(e, g, pc', granted')
    BY DEF Right
<1>1. e.tok \in Cooks /\ e.cache_until \in Nat /\ e \in Entry
    BY Entries
<1>2. granted[e.tok] \in Nat /\ granted'[e.tok] \in Nat
    BY <1>1 DEF Shape, HistoryTyped
<1> QED BY <1>1, <1>2 DEF Right, Onward

LEMMA GrantsTyped ==
    ASSUME Shape' PROVE granted' \in [Cooks -> Nat]
    BY DEF Shape, HistoryTyped

LEMMA RightFrom ==
    ASSUME NEW new \in Entry \cup {NONE}, NEW old \in Entry \cup {NONE}, From(new, old),
           NEW f, NEW phase, NEW grants \in [Cooks -> Nat], Right(old, f, phase, grants)
    PROVE  Right(new, f, phase, grants)
<1> SUFFICES ASSUME new # NONE PROVE Right(new, f, phase, grants)
    BY DEF Right
<1>1. /\ old # NONE /\ new.ver = old.ver /\ new.tok = old.tok /\ new.cache = old.cache
      /\ new.cache_until = old.cache_until \/ new.cache_until < old.cache_until
    BY DEF From
<1>2. new.cache_until \in Nat /\ old.cache_until \in Nat /\ old.tok \in Cooks
    BY <1>1, Entries
<1>3. grants[old.tok] \in Nat
    BY <1>2
<1> QED BY <1>1, <1>2, <1>3 DEF Right

\* Rows of the links after a step that writes what is right.
LinksRight(g) ==
    \A t \in Tiers, k \in Keys :
        \/ From(store'[t][k], store[t][k])
        \/ \E e \in Entry : From(store'[t][k], e) /\ Right(e, g, pc', granted')

LEMMA KeptIsRight ==
    ASSUME LinksKept, NEW g PROVE LinksRight(g)
    BY DEF LinksKept, LinksRight

LEMMA WrittenIsRight ==
    ASSUME NEW t, NEW k, NEW e \in Entry, LinksWritten(t, k, e), NEW g,
           Right(e, g, pc', granted')
    PROVE  LinksRight(g)
    BY DEF LinksWritten, LinksRight

OthersSame(r) ==
    \A q \in Cooks \ {r} : /\ pc'[q] = pc[q] /\ held'[q] = held[q] /\ copy'[q] = copy[q]
                           /\ expected'[q] = expected[q]
                           /\ pc[q] = "put" => granted'[q] = granted[q]

LEMMA OtherCooks ==
    ASSUME Shape, Shape', NEW f \in Renders, NEW g \in Renders, Sound(f), Onward(f, g),
           NEW q \in Cooks, pc'[q] = pc[q], held'[q] = held[q], copy'[q] = copy[q],
           expected'[q] = expected[q], pc[q] = "put" => granted'[q] = granted[q]
    PROVE  CookOK(q, g)'
<1>1. CookOK(q, f)
    BY DEF Sound
<1>2. held[q] \in Entry \cup {NONE} /\ copy[q] \in Entry \cup {NONE}
    BY DEF Shape, CooksWell, CookTyped
<1>3. Right(held[q], g, pc', granted') /\ Right(copy[q], g, pc', granted')
    BY <1>1, <1>2, RightStays DEF CookOK
<1>4. pc[q] = "reval" => Expects(expected[q], copy[q].ver, g)'
    BY <1>1, <1>2 DEF CookOK, Expects, Onward
<1> QED BY <1>1, <1>3, <1>4 DEF CookOK

LEMMA OldTasks ==
    ASSUME Shape, Shape', NEW f \in Renders, NEW g \in Renders, Sound(f), Onward(f, g),
           now <= now', NEW task \in tasks,
           task.op = "put" => granted'[task.from[1]] = granted[task.from[1]]
    PROVE  TaskOK(task, g)'
<1>1. TaskOK(task, f)
    BY DEF Sound
<1>2. task.entry \in Entry /\ task.from[1] \in Cooks
    BY DEF Shape, TaskType
<1>3. task.op # "put" => Right(task.entry, g, pc', granted')
    BY <1>1, <1>2, RightStays DEF TaskOK
<1>4. task.op = "put" =>
         /\ g[task.from[1]] = f[task.from[1]]
         /\ pc'[task.from[1]] \notin Early \cup {"put"}
         /\ granted'[task.from[1]] <= now' + task.entry.cache_until
  <2>1. granted[task.from[1]] \in Nat /\ task.entry.cache_until \in Nat /\ now \in Nat /\ now' \in Nat
      BY <1>2, Entries, ChainAssumption DEF Shape, HistoryTyped, ClockTyped
  <2> QED BY <1>1, <1>2, <2>1 DEF TaskOK, Onward
<1> QED BY <1>1, <1>3, <1>4 DEF TaskOK

\* What is left to show of a step: what the cooks carry and new tasks.
LEMMA SoundParts ==
    ASSUME Shape, Shape', NEW f \in Renders, NEW g \in Renders, Sound(f), Onward(f, g),
           LinksRight(g), now <= now',
           \A q \in Cooks : CookOK(q, g)',
           \A task \in tasks' :
               \/ task \in tasks /\ (task.op = "put" =>
                                        granted'[task.from[1]] = granted[task.from[1]])
               \/ TaskOK(task, g)'
    PROVE  Sound(g)'
<1>1. ASSUME NEW t \in Tiers, NEW k \in Keys
      PROVE  Right(store'[t][k], g, pc', granted')
  <2>0. store'[t][k] \in Entry \cup {NONE}
      BY DEF Shape, LinksTyped, Rows
  <2>1. CASE From(store'[t][k], store[t][k])
    <3>1. Right(store[t][k], f, pc, granted) /\ store[t][k] \in Entry \cup {NONE}
        BY ShapeIsTyped, RowTyped DEF Sound
    <3>2. Right(store[t][k], g, pc', granted')
        BY <3>1, RightStays
    <3> QED BY <2>1, <2>0, <3>1, <3>2, GrantsTyped, RightFrom
  <2>2. CASE \E e \in Entry : From(store'[t][k], e) /\ Right(e, g, pc', granted')
      BY <2>2, <2>0, GrantsTyped, RightFrom
  <2> QED BY <2>1, <2>2 DEF LinksRight
<1>2. ASSUME NEW task \in tasks' PROVE TaskOK(task, g)'
    BY <1>2, OldTasks
<1> QED BY <1>1, <1>2 DEF Sound

LEMMA SoundStep ==
    ASSUME Shape, Shape', NEW f \in Renders, NEW g \in Renders, Sound(f), Onward(f, g),
           LinksRight(g), now <= now',
           NEW r \in Cooks, OthersSame(r), CookOK(r, g)',
           \A task \in tasks' :
               \/ task \in tasks /\ (task.op = "put" =>
                                        granted'[task.from[1]] = granted[task.from[1]])
               \/ TaskOK(task, g)'
    PROVE  Sound(g)'
<1>1. ASSUME NEW q \in Cooks PROVE CookOK(q, g)'
  <2>1. CASE q = r
      BY <2>1
  <2>2. CASE q # r
      BY <2>2, OtherCooks DEF OthersSame
  <2> QED BY <2>1, <2>2
<1> QED BY <1>1, SoundParts

-----------------------------------------------------------------------------
(* One lemma per action.                                                   *)
LEMMA NoNewPut ==
    ASSUME OnePut, \A task \in tasks' : task \in tasks \/ task.op # "put"
    PROVE  OnePut'
    BY DEF OnePut

LEMMA HeldRight ==
    ASSUME Shape, Shape', NEW f \in Renders, NEW g \in Renders, Sound(f), Onward(f, g),
           NEW r \in Cooks
    PROVE  Right(held[r], g, pc', granted') /\ Right(copy[r], g, pc', granted')
<1>1. held[r] \in Entry \cup {NONE} /\ copy[r] \in Entry \cup {NONE}
    BY DEF Shape, CooksWell, CookTyped
<1> QED BY <1>1, RightStays DEF Sound, CookOK

\* A cook that goes on with what it has, or gives it up.
LEMMA MoveSound ==
    ASSUME Shape, Shape', NEW f \in Renders, Sound(f), OnePut, NEW r \in Cooks,
           OthersSame(r), LinksKept, UNCHANGED <<tasks, granted, now>>,
           pc[r] \notin Early => pc'[r] \notin Early,
           pc'[r] \notin {"put", "expire", "reval"},
           held'[r] \in {held[r], NONE}, copy'[r] \in {copy[r], NONE}
    PROVE  Sound(f)' /\ OnePut'
<1>1. Onward(f, f)
    BY DEF Onward, OthersSame, Shape, HistoryTyped
<1>2. CookOK(r, f)'
  <2>1. Right(NONE, f, pc', granted')
      BY DEF Right
  <2>2. Right(held'[r], f, pc', granted') /\ Right(copy'[r], f, pc', granted')
      BY <1>1, <2>1, HeldRight
  <2> QED BY <2>2 DEF CookOK
<1>3. now <= now'
    BY ChainAssumption DEF Shape, ClockTyped
<1> QED BY <1>1, <1>2, <1>3, SoundStep, KeptIsRight, NoNewPut

LEMMA BeginSound ==
    ASSUME Shape, Shape', NEW f \in Renders, Sound(f), OnePut, NEW r \in Cooks,
           setup' = setup, lost' \in 0..MaxLost, Begin(r) \/ Serve(r) \/ LookupLost(r)
    PROVE  Sound(f)' /\ OnePut'
<1>1. /\ OthersSame(r) /\ UNCHANGED <<tasks, granted, now>>
      /\ pc[r] \notin Early => pc'[r] \notin Early
      /\ pc'[r] \notin {"put", "expire", "reval"}
      /\ held'[r] \in {held[r], NONE} /\ copy'[r] = copy[r]
    BY DEF Begin, Serve, LookupLost, AfterRead, Goto, AfterWrites, OthersSame, Early, history,
       Shape, CooksWell, CookTyped
<1>2. LinksKept
    BY BeginShape, ServeShape, LookupLostShape
<1> QED BY <1>1, <1>2, MoveSound

LEMMA LeaveSound ==
    ASSUME Shape, Shape', NEW f \in Renders, Sound(f), OnePut, NEW r \in Cooks,
           setup' = setup, lost' \in 0..MaxLost, Leave(r) \/ PinLost(r)
    PROVE  Sound(f)' /\ OnePut'
<1>1. /\ OthersSame(r) /\ UNCHANGED <<tasks, granted, now>>
      /\ pc'[r] \in {"done", "gone"}
      /\ held'[r] = NONE /\ copy'[r] = NONE
    BY DEF Leave, PinLost, End, Goto, OthersSame, history, Shape, CooksWell, CookTyped
<1>2. LinksKept
    BY LeaveShape, PinLostShape
<1> QED BY <1>1, <1>2, MoveSound DEF Early

\* A row the cloud is to write is as right as what it was worked out from.
LEMMA LandsRight ==
    ASSUME Shape, Shape', NEW f, NEW r \in Cooks, NEW e \in Entry,
           Right(e, f, pc', granted')
    PROVE  /\ Landing(r, e).op = "land"
           /\ Right(Landing(r, e).entry, f, pc', granted')
<1>1. /\ Landing(r, e).op = "land" /\ Landing(r, e).entry \in Entry
      /\ From(Landing(r, e).entry, e)
    BY LandingTyped DEF TaskType
<1> QED BY <1>1, GrantsTyped, RightFrom

LEMMA ReadSound ==
    ASSUME Shape, Shape', NEW f \in Renders, Sound(f), OnePut, NEW r \in Cooks,
           setup' = setup, lost' \in 0..MaxLost, Read(r) \/ ReadLate(r)
    PROVE  Sound(f)' /\ OnePut'
<1>0. Receive(r)
    BY DEF Read, ReadLate
<1>1. /\ OthersSame(r) /\ UNCHANGED <<granted, now>>
      /\ pc[r] \notin Early => pc'[r] \notin Early
      /\ pc'[r] \notin {"put", "expire", "reval"}
      /\ held'[r] = Found(r) /\ copy'[r] = copy[r]
    BY <1>0 DEF Receive, AfterRead, Goto, OthersSame, Early, history, Shape, CooksWell, CookTyped
<1>2. Onward(f, f)
    BY <1>1 DEF Onward, OthersSame, Shape, HistoryTyped
<1>3. ASSUME Hit(r) PROVE Accessed(r) \in Entry /\ Right(Accessed(r), f, pc', granted')
  <2>1. /\ at[r] \in Tiers /\ key[r] \in Keys
        /\ store[at[r]][key[r]] \in Entry /\ Accessed(r) \in Entry
        /\ From(Accessed(r), store[at[r]][key[r]])
      BY <1>3, FoundTyped
  <2>2. Right(store[at[r]][key[r]], f, pc', granted')
      BY <2>1, <1>2, RightStays DEF Sound
  <2> QED BY <2>1, <2>2, GrantsTyped, RightFrom
<1>4. Right(Found(r), f, pc', granted')
  <2>1. CASE Hit(r) /\ held[r] = NONE
      BY <2>1, <1>3 DEF Found
  <2>2. CASE ~(Hit(r) /\ held[r] = NONE)
    <3>1. Found(r) = held[r]
        BY <2>2 DEF Found
    <3> QED BY <3>1, <1>2, HeldRight
  <2> QED BY <2>1, <2>2
<1>5. CookOK(r, f)'
    BY <1>1, <1>2, <1>4, HeldRight DEF CookOK
<1>6. ASSUME NEW task \in Promotions(r)
      PROVE  task.op = "promote" /\ Right(task.entry, f, pc', granted')
  <2>1. Hit(r) /\ task.op = "promote" /\ task.entry = Accessed(r)
      BY <1>6 DEF Promotions, Request
  <2> QED BY <2>1, <1>3
<1>7. ASSUME ReadLate(r)
      PROVE  /\ Landing(r, Accessed(r)).op = "land"
             /\ Right(Landing(r, Accessed(r)).entry, f, pc', granted')
  <2>1. Hit(r)
      BY <1>7 DEF ReadLate
  <2> QED BY <2>1, <1>3, LandsRight
<1>8. \A task \in tasks' :
        \/ task \in tasks
        \/ task \in Promotions(r)
        \/ ReadLate(r) /\ task = Landing(r, Accessed(r))
    BY DEF Read, ReadLate
<1>9. \A task \in tasks' :
        \/ task \in tasks /\ (task.op = "put" => granted'[task.from[1]] = granted[task.from[1]])
        \/ task.op # "put" /\ TaskOK(task, f)'
    BY <1>1, <1>6, <1>7, <1>8 DEF TaskOK
<1>10. now <= now' /\ LinksRight(f)
    BY <1>1, ReadShape, ReadLateShape, KeptIsRight, ChainAssumption DEF Shape, ClockTyped
<1> QED BY <1>1, <1>2, <1>5, <1>9, <1>10, SoundStep, NoNewPut

\* What cook r writes is its answer.
LEMMA Decided ==
    ASSUME Shape, Shape', NEW f \in Renders, f = answer, Sound(f), OnePut,
           NEW r \in Cooks, pc[r] = "decide",
           NEW v \in Cooks, NEW c \in Strings, NEW d \in Nat,
           OthersSame(r), LinksKept, UNCHANGED <<tasks, now>>,
           granted' = [granted EXCEPT ![r] = d],
           answer' = [answer EXCEPT ![r] = [ver |-> v, cache |-> c]],
           held'[r] = NONE, copy'[r] # NONE, copy'[r].ver = v, copy'[r].tok = r,
           copy'[r].cache = c, copy'[r].cache_until = d,
           \/ pc'[r] = "put" /\ v = r
           \/ pc'[r] = "reval" /\ expected'[r] = held[r].cache /\ held[r] # NONE /\ v = held[r].ver
    PROVE  (\E g \in Renders : g = answer' /\ Sound(g)') /\ OnePut'
<1>1. PICK g \in Renders : g = [f EXCEPT ![r] = [ver |-> v, cache |-> c]]
    BY DEF Renders
<1>2. Onward(f, g)
    BY <1>1 DEF Onward, OthersSame, Early, Renders, Shape, HistoryTyped
<1>3. Right(copy'[r], g, pc', granted')
    BY <1>1 DEF Right, Early, Renders, Shape, HistoryTyped
<1>4. pc'[r] = "reval" => Expects(expected[r], copy[r].ver, g)'
  <2> SUFFICES ASSUME pc'[r] = "reval" PROVE Expects(expected[r], copy[r].ver, g)'
      OBVIOUS
  <2>1. held[r] \in Entry /\ expected'[r] = held[r].cache /\ v = held[r].ver
      BY DEF Shape, CooksWell, CookTyped
  <2>2. held[r].tok \in Cooks
      BY <2>1, Entries
  <2>3. Right(held[r], g, pc', granted')
      BY <1>2, HeldRight
  <2> QED BY <2>1, <2>2, <2>3, Entries DEF Right, Expects
<1>5. CookOK(r, g)'
    BY <1>3, <1>4 DEF CookOK, Right, Shape, HistoryTyped
<1>6. ASSUME NEW task \in tasks, task.op = "put"
      PROVE  granted'[task.from[1]] = granted[task.from[1]]
  <2>1. TaskOK(task, f) /\ task.from[1] \in Cooks
      BY DEF Sound, Shape, TaskType
  <2>2. task.from[1] # r
      BY <2>1, <1>6 DEF TaskOK, Early
  <2> QED BY <2>1, <2>2 DEF Shape, HistoryTyped
<1>7. now <= now' /\ LinksRight(g)
    BY KeptIsRight, ChainAssumption DEF Shape, ClockTyped
<1>8. Sound(g)' /\ OnePut'
    BY <1>2, <1>5, <1>6, <1>7, SoundStep, NoNewPut
<1> QED BY <1>1, <1>8

LEMMA DecideSound ==
    ASSUME Shape, Shape', NEW f \in Renders, f = answer, Sound(f), OnePut, NEW r \in Cooks,
           setup' = setup, lost' \in 0..MaxLost, NEW d \in Deadlines, NEW c, c \in Encoded(d),
           NotModified(r, d, c) \/ Rendered(r, d, c)
    PROVE  (\E g \in Renders : g = answer' /\ Sound(g)') /\ OnePut'
<1>0. c \in Strings /\ d \in Nat
    BY DecidedTyped
<1>1. /\ pc[r] = "decide" /\ OthersSame(r) /\ UNCHANGED <<tasks, now>>
      /\ granted' = [granted EXCEPT ![r] = d] /\ held'[r] = NONE
    BY DEF NotModified, Rendered, Goto, OthersSame, Shape, CooksWell, CookTyped, HistoryTyped
<1>2. LinksKept
    BY NotModifiedShape, RenderedShape
<1>3. CASE Rendered(r, d, c)
  <2>1. /\ copy'[r] = [ver |-> r, tok |-> r, cache |-> c, cache_until |-> d, pin_until |-> 0]
        /\ answer' = [answer EXCEPT ![r] = [ver |-> r, cache |-> c]]
        /\ pc'[r] = "put"
      BY <1>3 DEF Rendered, Goto, Shape, CooksWell, CookTyped
  <2>2. copy'[r] \in Entry
      BY <2>1, <1>0 DEF Entry
  <2>3. /\ copy'[r] # NONE /\ copy'[r].ver = r /\ copy'[r].tok = r /\ copy'[r].cache = c
        /\ copy'[r].cache_until = d
      BY <2>1, <2>2, Entries
  <2> QED BY <1>0, <1>1, <1>2, <2>3, <2>1, Decided
<1>4. CASE NotModified(r, d, c)
  <2>1. /\ copy'[r] = [held[r] EXCEPT !.tok = r, !.cache = c, !.cache_until = d] /\ pc'[r] = "reval"
        /\ held[r] \in Entry /\ held[r] # NONE /\ expected'[r] = held[r].cache
        /\ answer' = [answer EXCEPT ![r] = [ver |-> held[r].ver, cache |-> c]]
      BY <1>4 DEF NotModified, Goto, Shape, CooksWell, CookTyped
  <2>2. copy'[r] \in Entry /\ held[r].ver \in Cooks
      BY <2>1, <1>0 DEF Entry
  <2>3. /\ copy'[r] # NONE /\ copy'[r].ver = held[r].ver /\ copy'[r].tok = r /\ copy'[r].cache = c
        /\ copy'[r].cache_until = d
      BY <2>1, <2>2, Entries DEF Entry
  <2> QED BY <1>0, <1>1, <1>2, <2>1, <2>2, <2>3, Decided
<1> QED BY <1>3, <1>4

\* A write of what the cook carries.
LEMMA WriteSound ==
    ASSUME Shape, Shape', NEW f \in Renders, Sound(f), OnePut, NEW r \in Cooks,
           OthersSame(r), UNCHANGED <<tasks, granted, now, held, copy, expected>>,
           LinksRight(f), pc[r] \notin Early,
           pc'[r] \in {pc[r]} \cup {"pinget", "done", "claim"}
    PROVE  Sound(f)' /\ OnePut'
<1>1. Onward(f, f)
    BY DEF Onward, OthersSame, Shape, HistoryTyped, Early
<1>2. CookOK(r, f)'
  <2>1. CookOK(r, f)
      BY DEF Sound
  <2>2. Expects(expected[r], copy[r].ver, f) => Expects(expected[r], copy[r].ver, f)'
      BY <1>1 DEF Expects, Onward
  <2> QED BY <1>1, <2>1, <2>2, HeldRight DEF CookOK
<1>3. now <= now'
    BY ChainAssumption DEF Shape, ClockTyped
<1> QED BY <1>1, <1>2, <1>3, SoundStep, NoNewPut

LEMMA PutSound ==
    ASSUME Shape, Shape', NEW f \in Renders, Sound(f), OnePut, NEW r \in Cooks,
           setup' = setup, lost' \in 0..MaxLost,
           PutLink(r) \/ RevalidateLink(r) \/ Expire(r) \/ PromoteLink(r)
    PROVE  Sound(f)' /\ OnePut'
<1>1. /\ OthersSame(r) /\ UNCHANGED <<tasks, granted, now, held, copy, expected>>
      /\ pc[r] \notin Early /\ pc[r] \in {"put", "reval", "expire", "promote"}
      /\ pc'[r] \in {pc[r]} \cup {"pinget", "done", "claim"}
    BY DEF PutLink, RevalidateLink, Expire, PromoteLink, Advance, Goto, AfterWrites, OthersSame,
       Early, history, Shape, CooksWell, CookTyped
<1>2. copy[r] \in Entry /\ key[r] \in Keys
    BY <1>1, CopyTyped
<1>3. Onward(f, f)
    BY <1>1 DEF Onward, OthersSame, Shape, HistoryTyped, Early
<1>4. Right(copy[r], f, pc', granted')
    BY <1>3, HeldRight
<1>5. LinksRight(f)
  <2>1. CASE PutLink(r)
    <3>1. /\ Pinned(copy[r]) \in Entry
          /\ From(Pinned(copy[r]), copy[r])
        BY <1>2, ShapeIsTyped, PinnedTyped, Entries DEF From
    <3>2. Right(Pinned(copy[r]), f, pc', granted')
        BY <3>1, <1>2, <1>4, GrantsTyped, RightFrom
    <3> QED BY <2>1, <3>1, <3>2, PutShape, WrittenIsRight
  <2>2. CASE RevalidateLink(r) \/ Expire(r) \/ PromoteLink(r)
      BY <2>2, <1>2, <1>4, RevalidateShape, ExpireShape, PromoteShape, WrittenIsRight
  <2> QED BY <2>1, <2>2
<1> QED BY <1>1, <1>5, WriteSound

LEMMA ProbeSound ==
    ASSUME Shape, Shape', NEW f \in Renders, Sound(f), OnePut, NEW r \in Cooks,
           setup' = setup, lost' \in 0..MaxLost, Probe(r)
    PROVE  Sound(f)' /\ OnePut'
<1> DEFINE e == store[N][key[r]]
<1>1. /\ OthersSame(r) /\ UNCHANGED <<tasks, granted, now, held>> /\ pc[r] = "put"
    BY DEF Probe, Advance, Goto, OthersSame, history, Shape, CooksWell, CookTyped
<1>2. LinksKept /\ at[r] = N /\ copy[r] \in Entry /\ copy[r] # NONE
    BY ProbeShape, ElapsedIsLast, CopyTyped, Entries DEF Probe
<1>3. CASE Hits(e, FALSE)
  <2>1. copy'[r] = [copy[r] EXCEPT !.pin_until = e.pin_until] /\ pc'[r] = "expire"
      BY <1>3 DEF Probe, Shape, CooksWell, CookTyped
  <2>2. From(copy'[r], copy[r]) /\ copy'[r] \in Entry \cup {NONE}
      BY <2>1, <1>2 DEF From, Entry, Shape, CooksWell, CookTyped
  <2>3. Onward(f, f)
      BY <1>1, <2>1 DEF Onward, OthersSame, Shape, HistoryTyped, Early
  <2>4. CookOK(r, f)'
    <3>1. Right(copy'[r], f, pc', granted')
        BY <2>2, <2>3, <1>2, HeldRight, GrantsTyped, RightFrom
    <3> QED BY <1>1, <2>1, <2>3, <3>1, HeldRight DEF CookOK
  <2>5. now <= now'
      BY <1>1, ChainAssumption DEF Shape, ClockTyped
  <2> QED BY <1>1, <1>2, <2>3, <2>4, <2>5, SoundStep, KeptIsRight, NoNewPut
<1>4. CASE ~Hits(e, FALSE)
  <2>1. UNCHANGED <<copy, expected>> /\ pc'[r] \in {"pinget", "done"}
      BY <1>2, <1>4 DEF Probe, Advance, Goto, AfterWrites, Shape, CooksWell, CookTyped
  <2> QED BY <1>1, <1>2, <2>1, KeptIsRight, WriteSound DEF Early
<1> QED BY <1>3, <1>4

LEMMA ClaimSound ==
    ASSUME Shape, Shape', NEW f \in Renders, Sound(f), OnePut, NEW r \in Cooks,
           setup' = setup, lost' \in 0..MaxLost, Claim(r)
    PROVE  Sound(f)' /\ OnePut'
<1>1. /\ OthersSame(r) /\ UNCHANGED <<tasks, granted, now, held>> /\ pc[r] = "claim"
    BY DEF Claim, Goto, OthersSame, history, Shape, CooksWell, CookTyped
<1>2. pc'[r] \in {"claim", "done", "promote", "confirm"} /\ LinksKept
    BY ClaimShape
<1>3. Onward(f, f)
    BY <1>1, <1>2 DEF Onward, OthersSame, Shape, HistoryTyped, Early
<1>4. Right(copy'[r], f, pc', granted')
  <2>1. Right(held[r], f, pc', granted') /\ Right(copy[r], f, pc', granted')
      BY <1>3, HeldRight
  <2>2. copy'[r] \in Entry \cup {NONE} /\ held[r] \in Entry \cup {NONE}
      BY DEF Shape, CooksWell, CookTyped
  <2> QED BY <2>1, <2>2, <1>2, ClaimShape, GrantsTyped, RightFrom
<1>5. CookOK(r, f)' /\ now <= now'
    BY <1>1, <1>2, <1>3, <1>4, HeldRight, ChainAssumption DEF CookOK, Shape, ClockTyped
<1> QED BY <1>1, <1>2, <1>3, <1>5, SoundStep, KeptIsRight, NoNewPut

LEMMA ClaimLateSound ==
    ASSUME Shape, Shape', NEW f \in Renders, Sound(f), OnePut, NEW r \in Cooks,
           setup' = setup, lost' \in 0..MaxLost, Kind[N] = "cloud", ClaimLate(r)
    PROVE  Sound(f)' /\ OnePut'
<1> DEFINE e == [store[N][key[r]] EXCEPT !.pin_until = MaxOf(@, now + Ttl(N))]
<1>1. /\ OthersSame(r) /\ UNCHANGED <<granted, now, held, copy, expected>>
      /\ pc[r] = "claim" /\ pc'[r] = "confirm" /\ tasks' = tasks \cup {Landing(r, e)}
    BY DEF ClaimLate, Claimable, Goto, OthersSame, history, Shape, CooksWell, CookTyped
<1>2. e \in Entry /\ From(e, store[N][key[r]]) /\ store[N][key[r]] \in Entry /\ key[r] \in Keys
    BY ClaimedTyped DEF ClaimLate
<1> HIDE DEF e
<1>3. Onward(f, f)
    BY <1>1 DEF Onward, OthersSame, Shape, HistoryTyped, Early
<1>4. Right(e, f, pc', granted')
  <2>1. Right(store[N][key[r]], f, pc, granted)
      BY <1>2, ShapeIsTyped, Chosen DEF Sound
  <2>2. Right(store[N][key[r]], f, pc', granted')
      BY <2>1, <1>2, <1>3, RightStays
  <2> QED BY <2>2, <1>2, GrantsTyped, RightFrom
<1>5. Landing(r, e).op = "land" /\ Right(Landing(r, e).entry, f, pc', granted')
    BY <1>2, <1>4, LandsRight
<1>6. CookOK(r, f)'
    BY <1>1, <1>3, HeldRight DEF CookOK
<1>7. \A task \in tasks' :
        \/ task \in tasks /\ (task.op = "put" => granted'[task.from[1]] = granted[task.from[1]])
        \/ task.op # "put" /\ TaskOK(task, f)'
    BY <1>1, <1>5 DEF TaskOK
<1>8. now <= now' /\ LinksRight(f)
    BY <1>1, ClaimLateShape, KeptIsRight, ChainAssumption DEF Shape, ClockTyped
<1> QED BY <1>1, <1>3, <1>6, <1>7, <1>8, SoundStep, NoNewPut

LEMMA ConfirmSound ==
    ASSUME Shape, Shape', NEW f \in Renders, Sound(f), OnePut, NEW r \in Cooks,
           setup' = setup, lost' \in 0..MaxLost, Confirm(r)
    PROVE  Sound(f)' /\ OnePut'
<1>1. /\ OthersSame(r) /\ UNCHANGED <<tasks, granted, now, held>> /\ pc[r] = "confirm"
    BY DEF Confirm, Goto, OthersSame, history, Shape, CooksWell, CookTyped
<1>2. /\ pc'[r] \in {"refresh", "done"} /\ LinksKept
      /\ copy'[r] \in {copy[r], store[N][key[r]]}
    BY ConfirmShape
<1>3. Onward(f, f)
    BY <1>1, <1>2 DEF Onward, OthersSame, Shape, HistoryTyped, Early
<1>4. Right(copy'[r], f, pc', granted')
  <2>1. N \in Tiers /\ key[r] \in Keys
      BY ShapeIsTyped, Chosen DEF Shape, CooksWell, CookTyped
  <2>2. store[N][key[r]] \in Entry \cup {NONE} /\ Right(store[N][key[r]], f, pc, granted)
      BY <2>1, ShapeIsTyped, RowTyped DEF Sound
  <2>3. Right(store[N][key[r]], f, pc', granted')
      BY <2>2, <1>3, RightStays
  <2> QED BY <1>2, <1>3, <2>3, HeldRight
<1>5. CookOK(r, f)' /\ now <= now'
    BY <1>1, <1>2, <1>3, <1>4, HeldRight, ChainAssumption DEF CookOK, Shape, ClockTyped
<1> QED BY <1>1, <1>2, <1>3, <1>5, SoundStep, KeptIsRight, NoNewPut

LEMMA RefreshSound ==
    ASSUME Shape, Shape', NEW f \in Renders, Sound(f), OnePut, NEW r \in Cooks,
           setup' = setup, lost' \in 0..MaxLost, Refresh(r)
    PROVE  Sound(f)' /\ OnePut'
<1>1. /\ OthersSame(r) /\ UNCHANGED <<tasks, granted, now>> /\ pc[r] = "refresh"
    BY DEF Refresh, End, Goto, OthersSame, history, Shape, CooksWell, CookTyped
<1>2. /\ pc'[r] \in {"refresh", "done"} /\ LinksWritten(at[r], key[r], copy[r])
      /\ held'[r] \in {held[r], NONE} /\ copy'[r] \in {copy[r], NONE}
    BY RefreshShape
<1>3. Onward(f, f)
    BY <1>1, <1>2 DEF Onward, OthersSame, Shape, HistoryTyped, Early
<1>4. copy[r] \in Entry /\ Right(copy[r], f, pc', granted')
    BY <1>1, <1>3, CopyTyped, HeldRight
<1>5. LinksRight(f)
    BY <1>2, <1>4, WrittenIsRight
<1>6. CookOK(r, f)'
  <2>1. Right(NONE, f, pc', granted')
      BY DEF Right
  <2>2. Right(held'[r], f, pc', granted') /\ Right(copy'[r], f, pc', granted')
      BY <1>2, <1>3, <2>1, HeldRight
  <2> QED BY <1>2, <2>2 DEF CookOK
<1>7. now <= now'
    BY <1>1, ChainAssumption DEF Shape, ClockTyped
<1> QED BY <1>1, <1>3, <1>5, <1>6, <1>7, SoundStep, NoNewPut

\* A step of no cook: a task, an eviction, the clock.
LEMMA QuietSound ==
    ASSUME Shape, Shape', NEW f \in Renders, Sound(f), OnePut, UNCHANGED cook,
           tasks' \subseteq tasks, now <= now', LinksRight(f),
           \A q \in Cooks : granted'[q] >= granted[q] /\ (pc[q] = "put" => granted'[q] = granted[q]),
           \A task \in tasks' : task.op = "put" => granted'[task.from[1]] = granted[task.from[1]]
    PROVE  Sound(f)' /\ OnePut'
<1>1. Onward(f, f)
    BY DEF Onward, cook
<1>2. ASSUME NEW q \in Cooks PROVE CookOK(q, f)'
    BY <1>1, OtherCooks DEF cook
<1> QED BY <1>1, <1>2, SoundParts, NoNewPut

LEMMA CalmSound ==
    ASSUME Shape, Shape', NEW f \in Renders, Sound(f), OnePut, UNCHANGED <<cook, granted>>,
           tasks' \subseteq tasks, now <= now', LinksRight(f)
    PROVE  Sound(f)' /\ OnePut'
<1>1. \A q \in Cooks : granted'[q] >= granted[q]
    BY DEF Shape, HistoryTyped
<1> QED BY <1>1, QuietSound

LEMMA BackfillSound ==
    ASSUME Shape, Shape', NEW f \in Renders, Sound(f), OnePut, NEW task \in tasks,
           setup' = setup, lost' \in 0..MaxLost, Backfill(task)
    PROVE  Sound(f)' /\ OnePut'
<1>1. UNCHANGED <<cook, granted, now>> /\ tasks' \subseteq tasks /\ task.op = "promote"
    BY DEF Backfill, history
<1>2. LinksWritten(task.tier, task.key, task.entry) /\ task.entry \in Entry
    BY BackfillShape DEF Shape, TaskType
<1>3. Right(task.entry, f, pc', granted')
    BY <1>1 DEF Sound, TaskOK, cook
<1>4. LinksRight(f) /\ now <= now'
    BY <1>1, <1>2, <1>3, WrittenIsRight, ChainAssumption DEF Shape, ClockTyped
<1> QED BY <1>1, <1>4, CalmSound

LEMMA EvictSound ==
    ASSUME Shape, Shape', NEW f \in Renders, Sound(f), OnePut, setup' = setup,
           lost' \in 0..MaxLost, NEW t \in Tiers, NEW k \in Keys, Evict(t, k)
    PROVE  Sound(f)' /\ OnePut'
<1>1. UNCHANGED <<cook, granted, now, tasks>>
    BY DEF Evict, history
<1>2. LinksRight(f) /\ now <= now'
    BY <1>1, EvictShape, KeptIsRight, ChainAssumption DEF Shape, ClockTyped
<1> QED BY <1>1, <1>2, CalmSound

LEMMA TickSound ==
    ASSUME Shape, Shape', NEW f \in Renders, Sound(f), OnePut, setup' = setup,
           lost' \in 0..MaxLost, Tick
    PROVE  Sound(f)' /\ OnePut'
<1>1. UNCHANGED <<cook, granted, tasks>> /\ now' = now + 1
    BY DEF Tick, history
<1>2. LinksRight(f) /\ now <= now'
    BY <1>1, TickShape, KeptIsRight, ChainAssumption DEF Shape, ClockTyped
<1> QED BY <1>1, <1>2, CalmSound

\* A late put starts a lifetime of its own, no shorter than the one before.
LEMMA ArriveSound ==
    ASSUME Shape, Shape', NEW f \in Renders, Sound(f), OnePut, NEW task \in tasks,
           setup' = setup, lost' \in 0..MaxLost, Arrive(task)
    PROVE  Sound(f)' /\ OnePut'
<1> DEFINE r == task.from[1]
<1>1. UNCHANGED <<cook, now>> /\ tasks' = tasks \ {task} /\ task.op \in {"put", "revalidate", "land"}
    BY DEF Arrive
<1>2. TaskOK(task, f) /\ task.entry \in Entry /\ r \in Cooks /\ granted[r] \in Nat
    BY DEF Sound, Shape, TaskType, HistoryTyped
<1>3. now <= now'
    BY <1>1, ChainAssumption DEF Shape, ClockTyped
<1>4. CASE task.op # "put"
  <2>1. granted' = granted /\ LinksWritten(N, task.key, task.entry)
      BY <1>4, ArriveShape DEF Arrive
  <2>2. Right(task.entry, f, pc', granted')
      BY <1>1, <1>2, <1>4, <2>1 DEF TaskOK, cook
  <2> QED BY <1>1, <1>2, <1>3, <2>1, <2>2, WrittenIsRight, CalmSound
<1>5. CASE task.op = "put"
  <2>1. /\ Arriving(task) \in Entry
        /\ Arriving(task).ver = task.entry.ver /\ Arriving(task).tok = task.entry.tok
        /\ Arriving(task).cache = task.entry.cache
        /\ Arriving(task).cache_until = now + task.entry.cache_until
      BY ArrivingTyped
  <2>2. /\ granted' = [granted EXCEPT ![r] = Arriving(task).cache_until]
        /\ LinksWritten(N, task.key, Arriving(task))
      BY <1>5, ArriveShape DEF Arrive, Arriving
  <2>3. /\ task.entry.ver = r /\ task.entry.tok = r
        /\ f[r] = [ver |-> task.entry.ver, cache |-> task.entry.cache]
        /\ pc[r] \notin Early \cup {"put"} /\ granted[r] <= now + task.entry.cache_until
      BY <1>2, <1>5 DEF TaskOK
  <2>4. granted'[r] = now + task.entry.cache_until /\ \A q \in Cooks \ {r} : granted'[q] = granted[q]
      BY <1>2, <2>1, <2>2 DEF Shape, HistoryTyped
  <2>5. Right(Arriving(task), f, pc', granted')
    <3>1. Arriving(task).cache_until \in Nat
        BY <2>1, Entries
    <3> QED BY <1>1, <2>1, <2>3, <2>4, <3>1 DEF Right, cook
  <2>6. \A q \in Cooks : granted'[q] >= granted[q] /\ (pc[q] = "put" => granted'[q] = granted[q])
    <3>1. ASSUME NEW q \in Cooks, q # r PROVE granted'[q] >= granted[q]
        BY <2>4, <3>1 DEF Shape, HistoryTyped
    <3> QED BY <2>3, <2>4, <3>1
  <2>7. \A s \in tasks' : s.op = "put" => granted'[s.from[1]] = granted[s.from[1]]
    <3> SUFFICES ASSUME NEW s \in tasks', s.op = "put"
                 PROVE  granted'[s.from[1]] = granted[s.from[1]]
        OBVIOUS
    <3>1. s \in tasks /\ s # task
        BY <1>1
    <3>2. s.from[1] \in Cooks /\ s.from[1] # r
        BY <1>5, <3>1 DEF OnePut, Shape, TaskType
    <3> QED BY <2>4, <3>2
  <2> QED BY <1>1, <1>3, <2>1, <2>2, <2>5, <2>6, <2>7, WrittenIsRight, QuietSound
<1> QED BY <1>1, <1>4, <1>5

\* The request a lost write leaves behind, or none.
Left(r, task) ==
    \/ /\ pc[r] = "put" /\ pc'[r] # "put"
       /\ task = Request("put", N, key[r], [copy[r] EXCEPT !.cache_until = Lifetime(r)],
                         expected[r], <<r, "put">>)
    \/ /\ pc[r] \in {"reval", "expire"}
       /\ task = Request("revalidate", N, key[r], copy[r], expected[r], <<r, pc[r]>>)
    \/ /\ pc[r] = "promote"
       /\ task = Request("promote", N, key[r], copy[r], expected[r], <<r, pc[r]>>)
    \/ \E e \in {copy[r], Pinned(copy[r])} : task = Landing(r, e)

LEMMA WriteLostLeaves ==
    ASSUME Shape, NEW r \in Cooks, WriteLost(r)
    PROVE  /\ OthersSame(r) /\ UNCHANGED <<granted, now, held, copy, expected>>
           /\ pc[r] \in {"put", "reval", "expire", "promote"}
           /\ pc'[r] \in {"pinget", "done", "claim"}
           /\ tasks' = tasks \/ \E task : tasks' = tasks \cup {task} /\ Left(r, task)
<1> USE ShapeIsTyped
<1>1. /\ OthersSame(r) /\ UNCHANGED <<granted, now, held, copy, expected>>
      /\ pc[r] \in {"put", "reval", "expire", "promote"}
      /\ pc'[r] \in {"pinget", "done", "claim"}
    BY DEF WriteLost, Advance, Goto, AfterWrites, OthersSame, history, Shape, CooksWell, CookTyped
<1>2. tasks' = tasks \/ \E task : tasks' = tasks \cup {task} /\ Left(r, task)
  <2>1. CASE pc[r] = "put"
      BY <2>1, <1>1 DEF WriteLost, Left
  <2>2. CASE pc[r] \in {"reval", "expire"}
      BY <2>2, <1>1 DEF WriteLost, Left
  <2>3. CASE pc[r] = "promote"
      BY <2>3, <1>1 DEF WriteLost, Left
  <2> QED BY <1>1, <2>1, <2>2, <2>3
<1> QED BY <1>1, <1>2

LEMMA WriteLostSound ==
    ASSUME Shape, Shape', NEW f \in Renders, Sound(f), OnePut, NEW r \in Cooks,
           setup' = setup, lost' \in 0..MaxLost, WriteLost(r)
    PROVE  Sound(f)' /\ OnePut'
<1>1. /\ OthersSame(r) /\ UNCHANGED <<granted, now, held, copy, expected>>
      /\ pc[r] \in {"put", "reval", "expire", "promote"}
      /\ pc'[r] \in {"pinget", "done", "claim"}
      /\ tasks' = tasks \/ \E task : tasks' = tasks \cup {task} /\ Left(r, task)
    BY WriteLostLeaves
<1>2. Onward(f, f)
    BY <1>1 DEF Onward, OthersSame, Shape, HistoryTyped, Early
<1>3. Right(copy[r], f, pc', granted') /\ Right(held[r], f, pc', granted') /\ CookOK(r, f)
    BY <1>2, HeldRight DEF Sound
<1>4. CookOK(r, f)'
    BY <1>1, <1>3 DEF CookOK
<1>5. /\ now <= now' /\ LinksRight(f) /\ now \in Nat
      /\ copy[r] \in Entry /\ copy[r].cache_until \in Nat
  <2>1. copy[r] \in Entry
      BY <1>1, CopyTyped
  <2> QED BY <1>1, <2>1, Entries, WriteLostShape, KeptIsRight, ChainAssumption DEF Shape, ClockTyped
<1>6. ASSUME NEW task, Left(r, task) PROVE TaskOK(task, f)'
  <2>1. CASE /\ pc[r] = "put" /\ pc'[r] # "put"
             /\ task = Request("put", N, key[r], [copy[r] EXCEPT !.cache_until = Lifetime(r)],
                               expected[r], <<r, "put">>)
    <3> DEFINE e == [copy[r] EXCEPT !.cache_until = Lifetime(r)]
    <3>1. task.op = "put" /\ task.from = <<r, "put">> /\ task.entry = e
        BY <2>1 DEF Request
    <3>2. /\ e.ver = r /\ e.tok = r /\ e.cache = copy[r].cache /\ e.cache_until = Lifetime(r)
          /\ granted[r] = copy[r].cache_until /\ copy[r].ver = r /\ copy[r].tok = r
        BY <1>3, <1>5, <2>1 DEF CookOK, Entry
    <3>3. f[r] = [ver |-> e.ver, cache |-> e.cache] /\ pc'[r] \notin Early \cup {"put"}
        BY <1>1, <1>3, <1>5, <2>1, <3>2, Entries DEF Right, Early
    <3>4. copy[r].cache_until <= now + Lifetime(r)
        BY <1>5 DEF Lifetime
    <3> QED BY <1>1, <3>1, <3>2, <3>3, <3>4 DEF TaskOK
  <2>2. CASE \/ task = Request("revalidate", N, key[r], copy[r], expected[r], <<r, pc[r]>>)
             \/ task = Request("promote", N, key[r], copy[r], expected[r], <<r, pc[r]>>)
    <3>1. task.op # "put" /\ task.entry = copy[r]
        BY <2>2 DEF Request
    <3> QED BY <1>3, <3>1 DEF TaskOK
  <2>3. ASSUME NEW e \in {copy[r], Pinned(copy[r])}, task = Landing(r, e)
        PROVE  TaskOK(task, f)'
    <3>1. e \in Entry /\ From(e, copy[r])
        BY <1>5, ShapeIsTyped, PinnedTyped, Entries DEF From
    <3>2. Right(e, f, pc', granted')
        BY <3>1, <1>3, <1>5, GrantsTyped, RightFrom
    <3>3. task.op = "land" /\ Right(task.entry, f, pc', granted')
        BY <2>3, <3>1, <3>2, LandsRight
    <3> QED BY <3>3 DEF TaskOK
  <2> QED BY <1>6, <2>1, <2>2, <2>3 DEF Left
<1>7. \A task \in tasks' :
        \/ task \in tasks /\ (task.op = "put" => granted'[task.from[1]] = granted[task.from[1]])
        \/ TaskOK(task, f)'
    BY <1>1, <1>6
<1>8. Sound(f)'
    BY <1>1, <1>2, <1>4, <1>5, <1>7, SoundStep
<1>9. OnePut'
  <2>1. CASE \E task : tasks' = tasks \cup {task} /\ Left(r, task) /\ task.op = "put"
    <3>1. PICK task : tasks' = tasks \cup {task} /\ Left(r, task) /\ task.op = "put"
        BY <2>1
    <3>2. pc[r] = "put" /\ task.from[1] = r
        BY <3>1 DEF Left, Request, Landing
    <3>3. \A s \in tasks : s.op = "put" => s.from[1] # r
        BY <3>2 DEF Sound, TaskOK
    <3> QED BY <3>1, <3>2, <3>3 DEF OnePut
  <2>2. CASE ~\E task : tasks' = tasks \cup {task} /\ Left(r, task) /\ task.op = "put"
    <3>1. \A task \in tasks' : task \in tasks \/ task.op # "put"
        BY <1>1, <2>2
    <3> QED BY <3>1, NoNewPut
  <2> QED BY <2>1, <2>2
<1> QED BY <1>8, <1>9

-----------------------------------------------------------------------------
\* Only the cloud is told of an entry whose lifetime is over.
Expiring == \A r \in Cooks : pc[r] = "expire" => Kind[N] = "cloud"

LEMMA NextExpiring ==
    ASSUME Shape, Expiring, [Next]_vars
    PROVE  Expiring'
<1>1. setup' = setup
    BY NextShape
<1>2. CASE pc' = pc
    BY <1>1, <1>2 DEF Expiring, Kind
<1>3. ASSUME NEW r \in Cooks, NEW l, pc' = [pc EXCEPT ![r] = l],
             l = "expire" => Kind[N] = "cloud"
      PROVE  Expiring'
    BY <1>1, <1>3 DEF Expiring, Kind, Shape, CooksWell, CookTyped
<1>4. ASSUME NEW r \in Cooks, Begin(r) \/ Step(r) \/ Leave(r)
      PROVE  Expiring'
  <2>1. CASE Begin(r) \/ Leave(r) \/ Serve(r) \/ RevalidateLink(r) \/ PutLink(r) \/ Expire(r)
      BY <2>1, <1>2, <1>3 DEF Begin, Leave, Serve, RevalidateLink, PutLink, Expire, Goto, End,
         Advance, AfterWrites
  <2>2. CASE Read(r)
      BY <2>2, <1>2, <1>3 DEF Read, Receive, AfterRead, Goto
  <2>3. CASE \E d \in Deadlines : \E c \in Encoded(d) : NotModified(r, d, c) \/ Rendered(r, d, c)
      BY <2>3, <1>3 DEF NotModified, Rendered, Goto
  <2>4. CASE Probe(r)
    <3>1. Kind[N] = "cloud"
        BY <2>4, ElapsedIsLast DEF Probe, Elapsed
    <3>2. pc' = pc \/ \E l : pc' = [pc EXCEPT ![r] = l]
        BY <2>4 DEF Probe, Advance, Goto
    <3> QED BY <3>1, <3>2, <1>2, <1>3
  <2>5. CASE Claim(r)
      BY <2>5, <1>2, <1>3 DEF Claim, Goto
  <2>6. CASE PromoteLink(r) \/ Confirm(r) \/ Refresh(r)
      BY <2>6, <1>2, <1>3 DEF PromoteLink, Confirm, Refresh, Advance, Goto, End
  <2> QED BY <1>4, <2>1, <2>2, <2>3, <2>4, <2>5, <2>6 DEF Step
<1>5. ASSUME NEW r \in Cooks, Unanswered(r)
      PROVE  Expiring'
  <2>1. Kind[N] = "cloud"
      BY <1>5 DEF Unanswered
  <2> QED BY <2>1, <1>1 DEF Expiring, Kind
<1>6. CASE Next
  <2>1. ASSUME NEW task \in tasks, Backfill(task) \/ Arrive(task)
        PROVE  Expiring'
      BY <2>1, <1>2 DEF Backfill, Arrive, cook
  <2>2. ASSUME NEW t \in Tiers, NEW k \in Keys, Evict(t, k)
        PROVE  Expiring'
      BY <2>2, <1>2 DEF Evict, cook
  <2>3. CASE Tick
      BY <2>3, <1>2 DEF Tick, cook
  <2> QED BY <1>4, <1>5, <1>6, <2>1, <2>2, <2>3 DEF Next, Answered
<1>7. CASE UNCHANGED vars
    BY <1>7, <1>2 DEF vars, cook
<1> QED BY <1>6, <1>7

Told == (\E f \in Renders : f = answer /\ Sound(f)) /\ OnePut /\ Expiring

LEMMA AnswerStays ==
    ASSUME NEW r \in Cooks, Begin(r) \/ Step(r) \/ Leave(r),
           ~\E d \in Deadlines : \E c \in Encoded(d) : NotModified(r, d, c) \/ Rendered(r, d, c)
    PROVE  answer' = answer
    BY DEF Begin, Step, Leave, Read, Receive, Serve, PutLink, RevalidateLink, Probe, Expire,
       Claim, PromoteLink, Confirm, Refresh, history

LEMMA NextTold ==
    ASSUME Shape, Told, [Next]_vars
    PROVE  Told'
<1>1. Shape' /\ setup' = setup
    BY NextShape
<1>2. PICK f \in Renders : f = answer /\ Sound(f)
    BY DEF Told
<1>3. OnePut
    BY DEF Told
<1>7. Expiring'
    BY NextExpiring DEF Told
<1>4. Sound(f)' /\ OnePut' /\ answer' = answer => Told'
    BY <1>2, <1>7 DEF Told
<1>5. CASE UNCHANGED vars
    BY <1>2, <1>3, <1>4, <1>5 DEF vars, cook, history, Sound, CookOK, TaskOK, OnePut, Expects
<1>6. CASE Next
  <2>1. lost' \in 0..MaxLost
      BY <1>6, ChainAssumption DEF Next, Answered, Unanswered, Shape, ClockTyped
  <2>2. ASSUME NEW r \in Cooks, Begin(r) \/ Step(r) \/ Leave(r)
        PROVE  Told'
    <3>1. ASSUME NEW d \in Deadlines, NEW c \in Encoded(d), NotModified(r, d, c) \/ Rendered(r, d, c)
          PROVE  Told'
        BY <3>1, <1>1, <1>2, <1>3, <1>7, <2>1, DecideSound DEF Told
    <3>2. CASE ~\E d \in Deadlines : \E c \in Encoded(d) : NotModified(r, d, c) \/ Rendered(r, d, c)
      <4>1. answer' = answer
          BY <2>2, <3>2, AnswerStays
      <4>2. Sound(f)' /\ OnePut'
          BY <3>2, <2>2, <1>1, <1>2, <1>3, <2>1, BeginSound, LeaveSound, ReadSound, PutSound,
             ProbeSound, ClaimSound, ConfirmSound, RefreshSound DEF Step
      <4> QED BY <4>1, <4>2, <1>4
    <3> QED BY <3>1, <3>2
  <2>3. ASSUME NEW task \in tasks, Backfill(task) \/ Arrive(task)
        PROVE  Told'
    <3>1. answer' = answer
        BY <2>3 DEF Backfill, Arrive, history
    <3> QED BY <2>3, <3>1, <1>1, <1>2, <1>3, <1>4, <2>1, BackfillSound, ArriveSound
  <2>4. ASSUME NEW t \in Tiers, NEW k \in Keys, Evict(t, k)
        PROVE  Told'
    <3>1. answer' = answer
        BY <2>4 DEF Evict, history
    <3> QED BY <2>4, <3>1, <1>1, <1>2, <1>3, <1>4, <2>1, EvictSound
  <2>5. CASE Tick
    <3>1. answer' = answer
        BY <2>5 DEF Tick, history
    <3> QED BY <2>5, <3>1, <1>1, <1>2, <1>3, <1>4, <2>1, TickSound
  <2>6. ASSUME NEW r \in Cooks, Unanswered(r)
        PROVE  Told'
    <3>1. answer' = answer
        BY <2>6 DEF Unanswered, LookupLost, PinLost, WriteLost, ReadLate, ClaimLate, Receive, history
    <3>2. Kind[N] = "cloud"
        BY <2>6 DEF Unanswered
    <3> QED BY <2>6, <3>1, <3>2, <1>1, <1>2, <1>3, <1>4, <2>1, BeginSound, LeaveSound, ReadSound,
            ClaimLateSound, WriteLostSound DEF Unanswered
  <2> QED BY <1>6, <2>2, <2>3, <2>4, <2>5, <2>6 DEF Next, Answered
<1> QED BY <1>5, <1>6

LEMMA InitTold == Init => Told
<1> SUFFICES ASSUME Init PROVE Told
    OBVIOUS
<1>1. PICK f : f = answer
    OBVIOUS
<1>2. f \in Renders
    BY <1>1, InitShape DEF Shape, HistoryTyped, Renders
<1>3. Sound(f) /\ OnePut /\ Expiring
    BY DEF Init, Sound, CookOK, Right, OnePut, Expiring
<1> QED BY <1>1, <1>2, <1>3 DEF Told

(* Every entry, wherever it is, shows the render its response showed, under *)
(* that response's cache string and for no longer than it asked for.       *)
THEOREM ToldHolds == Spec => [](Shape /\ Told)
<1>1. Shape /\ Told /\ [Next]_vars => (Shape /\ Told)'
    BY NextShape, NextTold
<1> QED BY <1>1, InitShape, InitTold, PTL DEF Spec

(* A promotion and a revalidation copy an entry with its deadline: however *)
(* many links it went through and however late it comes, no link keeps an  *)
(* entry for lookups beyond what its own response asked for.               *)
THEOREM NoCopyOutlives == Spec => []CopiesNeverOutlive
<1>1. Shape /\ Told => CopiesNeverOutlive
    BY DEF Told, Sound, Right, CopiesNeverOutlive
<1> QED BY <1>1, ToldHolds, PTL

-----------------------------------------------------------------------------
(* What takes the place of a live row of a native link.                    *)
Steady(t, k) ==
    (store'[t][k] # NONE /\ store'[t][k].ver # store[t][k].ver) =>
        Puts(store'[t][k].ver, t, k) \/ Shown(store'[t][k].ver, store[t][k].cache)

LEMMA KeptIsSteady ==
    ASSUME LinksKept, NEW t \in Tiers, NEW k \in Keys
    PROVE  Steady(t, k)
    BY DEF LinksKept, From, Steady

\* A write is steady where it does not reach, and if it is a put or of the same string.
LEMMA WriteIsSteady ==
    ASSUME NEW s, NEW j, NEW e \in Entry, LinksWritten(s, j, e),
           NEW t \in Tiers, NEW k \in Keys,
           t = s /\ k = j => Puts(e.ver, t, k) \/ Shown(e.ver, store[t][k].cache)
    PROVE  Steady(t, k)
    BY DEF LinksWritten, From, Steady

\* A copy leaves a live row alone.
LEMMA PromoteIsSteady ==
    ASSUME Typed, NEW s \in Tiers, NEW j \in Keys, NEW e \in Entry, promote(s, j, e),
           NEW t \in Tiers, NEW k \in Keys, Live(store[t][k])
    PROVE  Steady(t, k)
<1>1. LinksWritten(s, j, e) /\ (Live(store[s][j]) => LinksKept)
    BY PromoteEffect
<1>2. CASE t = s /\ k = j
    BY <1>1, <1>2, KeptIsSteady
<1>3. CASE ~(t = s /\ k = j)
    BY <1>1, <1>3, WriteIsSteady
<1> QED BY <1>2, <1>3

\* A revalidation brings a render that its cache string stood for.
LEMMA RevalidateIsSteady ==
    ASSUME Typed, NEW s \in Tiers, NEW j \in Keys, NEW e \in Entry, NEW c,
           revalidate(s, j, e, c), Shown(e.ver, c),
           NEW t \in Tiers, NEW k \in Keys, Live(store[t][k])
    PROVE  Steady(t, k)
<1>1. /\ LinksWritten(s, j, e)
      /\ Differs(s, j, c) => LinksKept
    BY RevalidateEffect
<1>2. CASE Differs(s, j, c)
    BY <1>1, <1>2, KeptIsSteady
<1>3. CASE ~Differs(s, j, c)
  <2>1. t = s /\ k = j => store[t][k].cache = c
      BY <1>3 DEF Differs, Live
  <2> QED BY <1>1, <2>1, WriteIsSteady
<1> QED BY <1>2, <1>3

LEMMA CookIsSteady ==
    ASSUME Shape, NEW f \in Renders, f = answer, Sound(f), Expiring,
           NEW r \in Cooks, Begin(r) \/ Step(r) \/ Leave(r),
           setup' = setup, lost' \in 0..MaxLost,
           NEW t \in Tiers, NEW k \in Keys, Kind[t] # "cloud", Live(store[t][k])
    PROVE  Steady(t, k)
<1> USE ShapeIsTyped
<1>1. CookOK(r, f) /\ at[r] \in Tiers /\ key[r] \in Keys
    BY DEF Sound, Shape, CooksWell, CookTyped
<1>2. CASE PutLink(r)
  <2>1. copy[r] \in Entry /\ LinksWritten(at[r], key[r], Pinned(copy[r]))
      BY <1>2, CopyTyped, PutShape DEF PutLink
  <2>2. Pinned(copy[r]) \in Entry /\ Pinned(copy[r]).ver = r
      BY <2>1, <1>1, <1>2, PinnedTyped DEF CookOK, PutLink
  <2>3. Puts(r, at[r], key[r])
      BY <1>2 DEF Puts, PutLink
  <2> QED BY <2>1, <2>2, <2>3, WriteIsSteady
<1>3. CASE RevalidateLink(r)
  <2>1. copy[r] \in Entry /\ revalidate(at[r], key[r], copy[r], expected[r])
      BY <1>3, CopyTyped DEF RevalidateLink
  <2>2. Shown(copy[r].ver, expected[r])
      BY <1>1, <1>3 DEF RevalidateLink, CookOK, Expects, Shown
  <2> QED BY <2>1, <2>2, <1>1, RevalidateIsSteady
<1>4. CASE Expire(r)
  <2>1. LinksWritten(N, key[r], copy[r]) /\ copy[r] \in Entry
      BY <1>4, CopyTyped, ExpireShape DEF Expire
  <2>2. t # N
      BY <1>4 DEF Expire, Expiring
  <2> QED BY <2>1, <2>2, WriteIsSteady
<1>5. CASE PromoteLink(r)
  <2>1. copy[r] \in Entry /\ promote(at[r], key[r], copy[r])
      BY <1>5, CopyTyped DEF PromoteLink
  <2> QED BY <2>1, <1>1, PromoteIsSteady
<1>6. CASE Refresh(r)
  <2>1. copy[r] \in Entry /\ revalidate(at[r], key[r], copy[r], copy[r].cache)
      BY <1>6, CopyTyped DEF Refresh
  <2>2. f[copy[r].tok] = [ver |-> copy[r].ver, cache |-> copy[r].cache] /\ copy[r].tok \in Cooks
      BY <2>1, <1>1, Entries DEF CookOK, Right
  <2>3. Shown(copy[r].ver, copy[r].cache)
      BY <2>2 DEF Shown
  <2> QED BY <2>1, <2>3, <1>1, RevalidateIsSteady
<1>7. CASE \/ Begin(r) \/ Leave(r) \/ Read(r) \/ Serve(r) \/ Probe(r) \/ Claim(r) \/ Confirm(r)
           \/ \E d \in Deadlines : \E c \in Encoded(d) : NotModified(r, d, c) \/ Rendered(r, d, c)
  <2>1. LinksKept
      BY <1>7, BeginShape, LeaveShape, ReadShape, ServeShape, ProbeShape, ClaimShape, ConfirmShape,
         NotModifiedShape, RenderedShape
  <2> QED BY <2>1, KeptIsSteady
<1> QED BY <1>2, <1>3, <1>4, <1>5, <1>6, <1>7 DEF Step

LEMMA TaskIsSteady ==
    ASSUME Shape, NEW task \in tasks, Backfill(task) \/ Arrive(task),
           setup' = setup, lost' \in 0..MaxLost,
           NEW t \in Tiers, NEW k \in Keys, Kind[t] # "cloud", Live(store[t][k])
    PROVE  Steady(t, k)
<1> USE ShapeIsTyped
<1>1. task.entry \in Entry /\ task.tier \in Tiers /\ task.key \in Keys
    BY DEF Shape, TaskType
<1>2. CASE Backfill(task)
    BY <1>1, <1>2, PromoteIsSteady DEF Backfill
<1>3. CASE Arrive(task)
  <2>1. PICK e \in Entry : LinksWritten(N, task.key, e)
      BY <1>1, <1>3, ArriveShape, ArrivingTyped
  <2>2. t # N
      BY <1>3 DEF Arrive
  <2> QED BY <2>1, <2>2, WriteIsSteady
<1> QED BY <1>2, <1>3

LEMMA NextSteady ==
    ASSUME Shape, Told, Next,
           NEW t \in Tiers, NEW k \in Keys, Kind[t] # "cloud", Live(store[t][k])
    PROVE  Steady(t, k)
<1>1. Shape' /\ setup' = setup /\ lost' \in 0..MaxLost
    BY NextShape, ChainAssumption DEF Next, Answered, Unanswered, Shape, ClockTyped
<1>2. PICK f \in Renders : f = answer /\ Sound(f)
    BY DEF Told
<1>3. ASSUME NEW r \in Cooks, Begin(r) \/ Step(r) \/ Leave(r)
      PROVE  Steady(t, k)
    BY <1>1, <1>2, <1>3, CookIsSteady DEF Told
<1>4. ASSUME NEW task \in tasks, Backfill(task) \/ Arrive(task)
      PROVE  Steady(t, k)
    BY <1>1, <1>4, TaskIsSteady
<1>5. ASSUME NEW s \in Tiers, NEW j \in Keys, Evict(s, j)
      PROVE  Steady(t, k)
    BY <1>1, <1>5, EvictShape, KeptIsSteady
<1>6. CASE Tick
    BY <1>1, <1>6, TickShape, KeptIsSteady
<1>7. ASSUME NEW r \in Cooks, Unanswered(r)
      PROVE  Steady(t, k)
    BY <1>1, <1>7, LookupLostShape, PinLostShape, ReadLateShape, ClaimLateShape, WriteLostShape,
       KeptIsSteady DEF Unanswered
<1> QED BY <1>3, <1>4, <1>5, <1>6, <1>7 DEF Next, Answered

(* "A delayed promotion must not replace a newer render" and "preserves    *)
(* live pin deadlines", in the native links: the thumbnail of a live row   *)
(* only gives way to the put of a render, or to one a response showed      *)
(* under the very cache string the row has; and no step shortens the pin   *)
(* of an SQLite row.                                                       *)
THEOREM OnlyRendersReplace == Spec => ReplacedOnlyByRender
<1> DEFINE A == \A t \in Tiers, k \in Keys : (Kind[t] # "cloud" /\ Live(store[t][k])) =>
        /\ (store'[t][k] # NONE /\ store'[t][k].ver # store[t][k].ver) =>
              \/ Puts(store'[t][k].ver, t, k)
              \/ Shown(store'[t][k].ver, store[t][k].cache)
        /\ (Kind[t] = "sqlite" /\ PinLive(store[t][k])) =>
              store'[t][k] # NONE /\ store'[t][k].pin_until >= store[t][k].pin_until
<1>1. Shape /\ Told /\ [Next]_vars => [A]_vars
  <2> SUFFICES ASSUME Shape, Told, Next, NEW t \in Tiers, NEW k \in Keys,
                      Kind[t] # "cloud", Live(store[t][k])
               PROVE  /\ Steady(t, k)
                      /\ (Kind[t] = "sqlite" /\ PinLive(store[t][k])) =>
                            store'[t][k] # NONE /\ store'[t][k].pin_until >= store[t][k].pin_until
      BY DEF Steady
  <2>1. Steady(t, k)
      BY NextSteady
  <2>2. PinsStay
      BY NextShape
  <2> QED BY <2>1, <2>2 DEF PinsStay, KeepsPins
<1>2. ReplacedOnlyByRender <=> [][A]_vars
    BY DEF ReplacedOnlyByRender
<1> HIDE DEF A
<1> QED BY <1>1, <1>2, ToldHolds, PTL DEF Spec

-----------------------------------------------------------------------------
(* Pins as leases.  No deadline anywhere is more than one lifetime away,   *)
(* and a call on a link moves the pins of one key only.                    *)
Timely(e) == e # NONE => e.pin_until <= now + PinTtl

LinksTimely == \A t \in Tiers, k \in Keys : Timely(store[t][k])
CookTimely(r) == Timely(held[r]) /\ Timely(copy[r]) /\ until[r] <= now + PinTtl
TasksTimely == \A task \in tasks : Timely(task.entry)

PinsTimely == LinksTimely /\ (\A r \in Cooks : CookTimely(r)) /\ TasksTimely

SamePin(new, old) == new # NONE => old # NONE /\ new.pin_until = old.pin_until

OneKey(k) ==
    /\ \A t \in Tiers, j \in Keys :
         SamePin(store'[t][j], store[t][j]) \/ (j = k /\ Timely(store'[t][j]))
    /\ \A i \in Ids : alias'[i] \in {alias[i], NONE, k}

LEMMA UntouchedPins ==
    ASSUME UNCHANGED <<store, alias>>, NEW k
    PROVE  OneKey(k)
    BY DEF OneKey, SamePin

LEMMA SetLinkPins ==
    ASSUME Typed, NEW t \in Tiers, NEW k \in Keys, NEW rows, SetLink(t, rows),
           \A j \in Keys : SamePin(rows[j], store[t][j]) \/ (j = k /\ Timely(rows[j]))
    PROVE  OneKey(k)
<1>1. store \in [Tiers -> Rows] /\ store' = [store EXCEPT ![t] = rows]
    BY DEF Typed, TypeOK, Rows, SetLink
<1>2. ASSUME NEW s \in Tiers, NEW j \in Keys
      PROVE  SamePin(store'[s][j], store[s][j]) \/ (j = k /\ Timely(store'[s][j]))
  <2>1. CASE s = t
      BY <1>1, <2>1
  <2>2. CASE s # t
      BY <1>1, <2>2 DEF SamePin
  <2> QED BY <2>1, <2>2
<1>3. ASSUME NEW i \in Ids PROVE alias'[i] \in {alias[i], NONE, k}
    BY DEF SetLink, Cascade
<1> QED BY <1>2, <1>3 DEF OneKey

\* A lookup of one row, or its end.
LEMMA RowPins ==
    ASSUME Typed, NEW t \in Tiers, NEW k \in Keys, NEW e,
           SetLink(t, [store[t] EXCEPT ![k] = e]), e = store[t][k] \/ Timely(e)
    PROVE  OneKey(k)
<1> DEFINE rows == [store[t] EXCEPT ![k] = e]
<1>1. store[t] \in Rows
    BY DEF Typed, TypeOK, Rows
<1>2. \A j \in Keys : SamePin(rows[j], store[t][j]) \/ (j = k /\ Timely(rows[j]))
    BY <1>1 DEF Rows, SamePin
<1> QED BY <1>2, SetLinkPins

LEMMA CappedTimely ==
    ASSUME Typed, NEW t \in Tiers, NEW e \in Entry, Timely(e)
    PROVE  Timely(Capped(t, e))
<1>1. /\ e.pin_until \in Nat /\ Capped(t, e).pin_until \in Nat
      /\ Capped(t, e).pin_until <= e.pin_until
    BY Entries, CappedEffect
<1>2. e.pin_until <= now + PinTtl /\ now + PinTtl \in Nat
    BY Entries, Chosen DEF Timely
<1> QED BY <1>1, <1>2 DEF Timely

LEMMA InsertPins ==
    ASSUME Typed, NEW t \in Tiers, NEW k \in Keys, NEW e \in Entry, NEW isPut \in BOOLEAN,
           Timely(e), SetLink(t, Insert(t, k, e, isPut))
    PROVE  OneKey(k)
<1> DEFINE rows == Insert(t, k, e, isPut)
<1>1. \A j \in Keys : j # k => rows[j] \in {NONE, store[t][j]}
    BY DEF Insert, Purged, Typed, TypeOK
<1>2. rows[k] \in {NONE, Capped(t, e)}
    BY DEF Insert, Purged, Typed, TypeOK
<1>3. \A j \in Keys : SamePin(rows[j], store[t][j]) \/ (j = k /\ Timely(rows[j]))
  <2> HIDE DEF rows
  <2>1. Timely(Capped(t, e)) /\ Timely(NONE)
      BY CappedTimely DEF Timely
  <2>2. Timely(rows[k])
      BY <2>1, <1>2
  <2> QED BY <2>2, <1>1 DEF SamePin
<1> HIDE DEF rows
<1>4. SetLink(t, rows)
    BY DEF rows
<1> QED BY <1>3, <1>4, SetLinkPins

LEMMA Later ==
    ASSUME Typed, NEW e \in Entry, Timely(e), NEW n \in Nat, n <= now + PinTtl
    PROVE  /\ [e EXCEPT !.pin_until = MaxOf(@, n)] \in Entry
           /\ Timely([e EXCEPT !.pin_until = MaxOf(@, n)])
<1>1. e.pin_until \in Nat /\ e.pin_until <= now + PinTtl /\ now + PinTtl \in Nat
    BY Entries, Chosen DEF Timely
<1>2. MaxOf(e.pin_until, n) \in Nat /\ MaxOf(e.pin_until, n) <= now + PinTtl
    BY <1>1 DEF MaxOf
<1>3. [e EXCEPT !.pin_until = MaxOf(@, n)] = [e EXCEPT !.pin_until = MaxOf(e.pin_until, n)]
    OBVIOUS
<1>4. [e EXCEPT !.pin_until = MaxOf(e.pin_until, n)].pin_until = MaxOf(e.pin_until, n)
    BY DEF Entry
<1> QED BY <1>2, <1>3, <1>4, OtherDeadline DEF Timely

LEMMA KeepPinTimely ==
    ASSUME Typed, LinksTimely, NEW t \in Tiers, NEW k \in Keys, NEW e \in Entry, Timely(e)
    PROVE  KeepPin(e, store[t][k]) \in Entry /\ Timely(KeepPin(e, store[t][k]))
<1>1. CASE store[t][k] = NONE
    BY <1>1 DEF KeepPin
<1>2. CASE store[t][k] # NONE
  <2>1. store[t][k].pin_until \in Nat /\ store[t][k].pin_until <= now + PinTtl
      BY <1>2, RowTyped, Entries DEF LinksTimely, Timely
  <2>2. KeepPin(e, store[t][k]) = [e EXCEPT !.pin_until = MaxOf(@, store[t][k].pin_until)]
      BY <1>2 DEF KeepPin
  <2> QED BY <2>1, <2>2, Later
<1> QED BY <1>1, <1>2

LEMMA WritePins ==
    ASSUME Typed, LinksTimely, NEW t \in Tiers, NEW k \in Keys, NEW e \in Entry, Timely(e),
           \/ put(t, k, e)
           \/ promote(t, k, e)
           \/ \E c : revalidate(t, k, e, c)
    PROVE  OneKey(k)
<1> DEFINE new == KeepPin(e, store[t][k])
<1>1. new \in Entry /\ Timely(new)
    BY KeepPinTimely
<1>2. \/ UNCHANGED <<store, alias>>
      \/ SetLink(t, Insert(t, k, e, FALSE))
      \/ \E isPut \in BOOLEAN : SetLink(t, Insert(t, k, new, isPut))
    BY DEF put, promote, revalidate
<1> HIDE DEF new
<1> QED BY <1>1, <1>2, UntouchedPins, InsertPins

LEMMA AccessTimely ==
    ASSUME Typed, NEW e \in Entry, Timely(e), NEW pin \in BOOLEAN,
           NEW ttl \in Nat, ttl <= PinTtl
    PROVE  Timely(access(e, pin, ttl))
<1>1. CASE ~pin /\ ttl > 0
  <2>1. now + ttl \in Nat /\ now + ttl <= now + PinTtl
      BY Chosen
  <2>2. access(e, pin, ttl) = [e EXCEPT !.pin_until = MaxOf(@, now + ttl)]
      BY <1>1 DEF access
  <2> QED BY <2>1, <2>2, Later
<1>2. CASE ~(~pin /\ ttl > 0)
    BY <1>2 DEF access
<1> QED BY <1>1, <1>2

LEMMA ClaimPins ==
    ASSUME Typed, LinksTimely, NEW k \in Keys, NEW i \in Ids, Live(store[N][k]),
           store' = [store EXCEPT ![N][k].pin_until = MaxOf(@, now + Ttl(N))],
           alias' = [LiveAliases EXCEPT ![i] = k]
    PROVE  OneKey(k)
<1> USE Chosen
<1> DEFINE e == [store[N][k] EXCEPT !.pin_until = MaxOf(@, now + Ttl(N))]
<1>0. now + Ttl(N) \in Nat /\ now + Ttl(N) <= now + PinTtl
    BY TtlTyped
<1>1. store[N][k] \in Entry /\ Timely(store[N][k])
    BY RowTyped DEF Live, LinksTimely
<1>2. Timely(e)
    BY <1>0, <1>1, Later
<1>3. store \in [Tiers -> Rows]
    BY DEF Typed, TypeOK, Rows
<1>4. store' = [store EXCEPT ![N] = [store[N] EXCEPT ![k] = e]]
  <2>1. store' = [store EXCEPT ![N][k].pin_until = MaxOf(store[N][k].pin_until, now + Ttl(N))]
      OBVIOUS
  <2>2. e = [store[N][k] EXCEPT !.pin_until = MaxOf(store[N][k].pin_until, now + Ttl(N))]
      OBVIOUS
  <2> HIDE DEF e
  <2> QED BY <1>3, <2>1, <2>2, RowChanges
<1> HIDE DEF e
<1>5. ASSUME NEW t \in Tiers, NEW j \in Keys
      PROVE  SamePin(store'[t][j], store[t][j]) \/ (j = k /\ Timely(store'[t][j]))
  <2>1. CASE t = N /\ j = k
    <3>1. store'[t][j] = e
        BY <2>1, <1>3, <1>4 DEF Rows
    <3> QED BY <2>1, <3>1, <1>2 DEF Timely
  <2>2. CASE ~(t = N /\ j = k)
    <3>1. store'[t][j] = store[t][j]
        BY <2>2, <1>3, <1>4 DEF Rows
    <3> QED BY <3>1 DEF SamePin
  <2> QED BY <2>1, <2>2
<1>6. ASSUME NEW j \in Ids PROVE alias'[j] \in {alias[j], NONE, k}
    BY DEF LiveAliases
<1> QED BY <1>5, <1>6 DEF OneKey

LEMMA RoomPins ==
    ASSUME store' = store, alias' = IF Kind[N] = "memory" THEN LiveAliases ELSE alias, NEW k
    PROVE  OneKey(k)
    BY DEF OneKey, SamePin, LiveAliases

\* What a step that is not one of the clock does for the pins.
Leasing == now' = now /\ PinsTimely' /\ \E k \in Keys : OneKey(k)

LEMMA StepLeasing ==
    ASSUME Shape, PinsTimely, setup' = setup, now' = now, NEW k \in Keys, OneKey(k),
           \A q \in Cooks :
              \/ UNCHANGED <<held[q], copy[q], until[q]>>
              \/ /\ Timely(held'[q]) /\ Timely(copy'[q])
                 /\ until'[q] <= now + PinTtl,
           \A task \in tasks' : task \in tasks \/ Timely(task.entry)
    PROVE  Leasing
<1>1. PinTtl' = PinTtl
    BY DEF PinTtl
<1>2. LinksTimely'
  <2> SUFFICES ASSUME NEW t \in Tiers, NEW j \in Keys PROVE Timely(store[t][j])'
      BY DEF LinksTimely
  <2>1. CASE SamePin(store'[t][j], store[t][j])
      BY <2>1, <1>1 DEF SamePin, PinsTimely, LinksTimely, Timely
  <2>2. CASE Timely(store'[t][j])
      BY <2>2, <1>1 DEF Timely
  <2> QED BY <2>1, <2>2 DEF OneKey
<1>3. ASSUME NEW q \in Cooks PROVE CookTimely(q)'
    BY <1>1 DEF PinsTimely, CookTimely, Timely
<1>4. TasksTimely'
    BY <1>1 DEF PinsTimely, TasksTimely, Timely
<1> QED BY <1>2, <1>3, <1>4 DEF Leasing, PinsTimely

\* Cooks other than r keep what they carry, and r keeps no more than before.
Carried(r) ==
    /\ \A q \in Cooks \ {r} : UNCHANGED <<held[q], copy[q], until[q]>>
    /\ held'[r] \in {held[r], NONE}
    /\ copy'[r] \in {copy[r], NONE}
    /\ until'[r] \in {until[r], 0}

LEMMA CarriedLeasing ==
    ASSUME Shape, PinsTimely, setup' = setup, now' = now, NEW k \in Keys, OneKey(k),
           NEW r \in Cooks, Carried(r),
           \A task \in tasks' : task \in tasks \/ Timely(task.entry)
    PROVE  Leasing
<1>1. CookTimely(r) /\ 0 <= now + PinTtl
    BY Chosen, ShapeIsTyped DEF PinsTimely
<1>2. Timely(held'[r]) /\ Timely(copy'[r]) /\ until'[r] <= now + PinTtl
    BY <1>1 DEF Carried, CookTimely, Timely
<1>3. \A q \in Cooks : \/ UNCHANGED <<held[q], copy[q], until[q]>>
                       \/ /\ Timely(held'[q]) /\ Timely(copy'[q])
                          /\ until'[q] <= now + PinTtl
    BY <1>2 DEF Carried
<1> QED BY <1>3, StepLeasing

\* Steps that write nothing, or what the cook carries.
LEMMA BeginLeasing ==
    ASSUME Shape, PinsTimely, setup' = setup, NEW r \in Cooks, Begin(r) \/ Serve(r) \/ Leave(r)
    PROVE  Leasing
<1>1. key[r] \in Keys /\ now' = now /\ tasks' = tasks /\ UNCHANGED <<store, alias>>
    BY DEF Shape, CooksWell, CookTyped, Begin, Serve, Leave
<1>2. Carried(r)
    BY DEF Shape, CooksWell, CookTyped, Begin, Serve, Leave, End, Carried
<1> QED BY <1>1, <1>2, UntouchedPins, CarriedLeasing

LEMMA PinnedTimely ==
    ASSUME Typed, NEW e \in Entry
    PROVE  Timely(Pinned(e))
<1>1. (IF PinTtl = 0 THEN 0 ELSE now + PinTtl) <= now + PinTtl
    BY Chosen
<1>2. Pinned(e).pin_until = IF PinTtl = 0 THEN 0 ELSE now + PinTtl
    BY DEF Pinned, Entry
<1> QED BY <1>1, <1>2 DEF Timely

LEMMA WriteLeasing ==
    ASSUME Shape, PinsTimely, setup' = setup, NEW r \in Cooks,
           PutLink(r) \/ RevalidateLink(r) \/ Expire(r) \/ PromoteLink(r) \/ Refresh(r)
    PROVE  Leasing
<1> USE ShapeIsTyped, Chosen
<1>1. /\ pc[r] \in {"put", "expire", "reval", "promote", "refresh"}
      /\ now' = now /\ tasks' = tasks
    BY DEF PutLink, RevalidateLink, Expire, PromoteLink, Refresh
<1>2. /\ copy[r] \in Entry /\ at[r] \in Tiers /\ key[r] \in Keys /\ N \in Tiers
      /\ LinksTimely /\ Timely(copy[r])
    BY <1>1, CopyTyped DEF PinsTimely, CookTimely
<1>3. Pinned(copy[r]) \in Entry /\ Timely(Pinned(copy[r]))
    BY <1>2, PinnedTyped, PinnedTimely
<1>4. OneKey(key[r])
  <2>1. CASE PutLink(r)
      BY <2>1, <1>2, <1>3, WritePins DEF PutLink
  <2>2. CASE RevalidateLink(r)
      BY <2>2, <1>2, WritePins DEF RevalidateLink
  <2>3. CASE Expire(r)
      BY <2>3, <1>2, WritePins DEF Expire
  <2>4. CASE PromoteLink(r)
      BY <2>4, <1>2, WritePins DEF PromoteLink
  <2>5. CASE Refresh(r)
      BY <2>5, <1>2, WritePins DEF Refresh
  <2> QED BY <2>1, <2>2, <2>3, <2>4, <2>5
<1>5. Carried(r)
    BY DEF Shape, CooksWell, CookTyped, Carried, PutLink, RevalidateLink, Expire, PromoteLink,
           Refresh, End
<1> QED BY <1>1, <1>2, <1>4, <1>5, CarriedLeasing

\* Decisions give the copy the pin of the entry that was read, or none.
LEMMA DecideLeasing ==
    ASSUME Shape, PinsTimely, setup' = setup, NEW r \in Cooks, NEW d \in Deadlines, NEW c,
           NotModified(r, d, c) \/ Rendered(r, d, c)
    PROVE  Leasing
<1> USE ShapeIsTyped, Chosen
<1>1. /\ key[r] \in Keys /\ now' = now /\ tasks' = tasks /\ UNCHANGED <<store, alias>>
      /\ CookTimely(r) /\ held[r] \in Entry \cup {NONE} /\ 0 <= now + PinTtl
    BY DEF Shape, CooksWell, CookTyped, NotModified, Rendered, PinsTimely
<1>2. Timely(copy'[r]) /\ Timely(held'[r]) /\ until'[r] = until[r]
  <2>1. CASE NotModified(r, d, c)
    <3>1. held[r] \in Entry
        BY <1>1, <2>1 DEF NotModified
    <3>2. [held[r] EXCEPT !.tok = r, !.cache = c, !.cache_until = d].pin_until = held[r].pin_until
        BY <3>1 DEF Entry
    <3>3. /\ copy'[r] = [held[r] EXCEPT !.tok = r, !.cache = c, !.cache_until = d]
          /\ held'[r] = NONE
        BY <2>1 DEF NotModified, Shape, CooksWell, CookTyped
    <3>4. held[r].pin_until <= now + PinTtl
        BY <1>1, <3>1, Entries DEF CookTimely, Timely
    <3> QED BY <2>1, <3>2, <3>3, <3>4 DEF Timely, NotModified
  <2>2. CASE Rendered(r, d, c)
    <3>1. copy'[r].pin_until = 0 /\ held'[r] = NONE
        BY <2>2 DEF Rendered, Shape, CooksWell, CookTyped
    <3> QED BY <1>1, <2>2, <3>1 DEF Timely, Rendered
  <2> QED BY <2>1, <2>2
<1>3. \A q \in Cooks : \/ UNCHANGED <<held[q], copy[q], until[q]>>
                       \/ /\ Timely(held'[q]) /\ Timely(copy'[q])
                          /\ until'[q] <= now + PinTtl
  <2>1. \A q \in Cooks \ {r} : UNCHANGED <<held[q], copy[q], until[q]>>
      BY DEF Shape, CooksWell, CookTyped, NotModified, Rendered
  <2> QED BY <1>1, <1>2, <2>1 DEF CookTimely
<1> QED BY <1>1, <1>3, UntouchedPins, StepLeasing

\* A lookup extends a pin to one lifetime from now, and hands that on.
LEMMA FoundTimely ==
    ASSUME Shape, PinsTimely, NEW r \in Cooks
    PROVE  /\ Timely(Found(r)) /\ (Hit(r) => Timely(Accessed(r)))
           /\ \A task \in Promotions(r) : Timely(task.entry)
<1> USE ShapeIsTyped, Chosen
<1>1. at[r] \in Tiers /\ key[r] \in Keys /\ CookTimely(r)
    BY FoundTyped DEF PinsTimely
<1>2. Extends(r) \in Nat /\ Extends(r) <= PinTtl
    BY <1>1, TtlTyped DEF Extends
<1>3. ASSUME Hit(r) PROVE Timely(Accessed(r))
  <2>1. store[at[r]][key[r]] \in Entry /\ Timely(store[at[r]][key[r]])
      BY <1>1, <1>3, FoundTyped DEF PinsTimely, LinksTimely
  <2>2. (pc[r] = "pinonly") \in BOOLEAN
      OBVIOUS
  <2> QED BY <1>2, <2>1, <2>2, AccessTimely DEF Accessed
<1>4. Timely(Found(r))
    BY <1>1, <1>3 DEF Found, CookTimely
<1>5. \A task \in Promotions(r) : Timely(task.entry)
    BY <1>3 DEF Promotions, Request
<1> QED BY <1>3, <1>4, <1>5

LEMMA ReceiveLeasing ==
    ASSUME Shape, PinsTimely, setup' = setup, NEW r \in Cooks, Receive(r), OneKey(key[r]),
           \A task \in tasks' : task \in tasks \cup Promotions(r) \/ Timely(task.entry)
    PROVE  Leasing
<1>1. /\ held' = [held EXCEPT ![r] = Found(r)]
      /\ UNCHANGED <<now, copy, until>>
    BY DEF Receive
<1>2. CookTimely(r) /\ Timely(Found(r)) /\ key[r] \in Keys
    BY FoundTimely, FoundTyped DEF PinsTimely
<1>3. \A q \in Cooks : \/ UNCHANGED <<held[q], copy[q], until[q]>>
                       \/ /\ Timely(held'[q]) /\ Timely(copy'[q])
                          /\ until'[q] <= now + PinTtl
    BY <1>1, <1>2 DEF CookTimely, Shape, CooksWell, CookTyped
<1>4. \A task \in tasks' : task \in tasks \/ Timely(task.entry)
    BY FoundTimely
<1> QED BY <1>1, <1>2, <1>3, <1>4, StepLeasing

LEMMA ReadLeasing ==
    ASSUME Shape, PinsTimely, setup' = setup, NEW r \in Cooks, Read(r)
    PROVE  Leasing
<1> USE ShapeIsTyped, Chosen
<1> DEFINE t == at[r]
           k == key[r]
           e == store[t][k]
           row == IF Hit(r) THEN Accessed(r)
                  ELSE IF Kind[t] = "memory" /\ e # NONE /\ ~Live(e) THEN NONE ELSE e
<1>1. t \in Tiers /\ k \in Keys
    BY FoundTyped
<1>2. OneKey(k)
  <2>1. SetLink(t, [store[t] EXCEPT ![k] = row])
    <3>1. [store[t] EXCEPT ![k] = row] =
          [store[t] EXCEPT ![k] = IF Hit(r) THEN Accessed(r)
                                  ELSE IF Kind[t] = "memory" /\ e # NONE /\ ~Live(e) THEN NONE ELSE @]
        OBVIOUS
    <3> QED BY <3>1 DEF Read
  <2>2. row = store[t][k] \/ Timely(row)
      BY FoundTimely DEF Timely
  <2> HIDE DEF row
  <2> QED BY <1>1, <2>1, <2>2, RowPins
<1> QED BY <1>2, ReceiveLeasing DEF Read

LEMMA LandingTimely ==
    ASSUME Shape, PinsTimely, NEW r \in Cooks, NEW e \in Entry, Timely(e)
    PROVE  Timely(Landing(r, e).entry)
<1> USE ShapeIsTyped, Chosen
<1>1. key[r] \in Keys /\ LinksTimely
    BY FoundTyped DEF PinsTimely
<1>2. KeepPin(e, store[N][key[r]]) \in Entry /\ Timely(KeepPin(e, store[N][key[r]]))
    BY <1>1, KeepPinTimely
<1> QED BY <1>2, CappedTimely, LandingTyped

LEMMA ReadLateLeasing ==
    ASSUME Shape, PinsTimely, setup' = setup, NEW r \in Cooks, ReadLate(r)
    PROVE  Leasing
<1>1. Accessed(r) \in Entry /\ Timely(Accessed(r))
    BY FoundTyped, FoundTimely DEF ReadLate
<1>2. Timely(Landing(r, Accessed(r)).entry)
    BY <1>1, LandingTimely
<1>3. \A task \in tasks' : task \in tasks \cup Promotions(r) \/ Timely(task.entry)
    BY <1>2 DEF ReadLate
<1> QED BY <1>3, UntouchedPins, ReceiveLeasing DEF ReadLate

LEMMA LookupLostLeasing ==
    ASSUME Shape, PinsTimely, setup' = setup, NEW r \in Cooks, LookupLost(r)
    PROVE  Leasing
<1> USE ShapeIsTyped, Chosen
<1>1. /\ key[r] \in Keys /\ at[r] = N
      /\ UNCHANGED <<now, tasks, held, copy, until>>
    BY FoundTyped DEF LookupLost
<1>2. OneKey(key[r])
  <2>1. CASE UNCHANGED <<store, alias>>
      BY <2>1, UntouchedPins
  <2>2. CASE Hit(r) /\ SetLink(N, [store[N] EXCEPT ![key[r]] = Accessed(r)])
      BY <1>1, <2>2, FoundTimely, RowPins
  <2> QED BY <2>1, <2>2 DEF LookupLost
<1> QED BY <1>1, <1>2, StepLeasing

LEMMA ProbeLeasing ==
    ASSUME Shape, PinsTimely, setup' = setup, NEW r \in Cooks, Probe(r)
    PROVE  Leasing
<1> USE ShapeIsTyped, Chosen
<1> DEFINE e == store[N][key[r]]
<1>1. /\ key[r] \in Keys /\ UNCHANGED <<now, tasks, store, alias, held, until>>
      /\ CookTimely(r)
    BY DEF Shape, CooksWell, CookTyped, Probe, PinsTimely
<1>2. copy' = copy \/ (Hits(e, FALSE) /\ copy' = [copy EXCEPT ![r].pin_until = e.pin_until])
    BY DEF Probe
<1>3. Hits(e, FALSE) => e.pin_until <= now + PinTtl
    BY <1>1 DEF Hits, PinsTimely, LinksTimely, Timely
<1>4. copy[r] \in Entry
    BY CopyTyped DEF Probe
<1>5. Hits(e, FALSE) => [copy[r] EXCEPT !.pin_until = e.pin_until].pin_until = e.pin_until
    BY <1>4 DEF Entry
<1>6. \A q \in Cooks : \/ UNCHANGED <<held[q], copy[q], until[q]>>
                       \/ /\ Timely(held'[q]) /\ Timely(copy'[q])
                          /\ until'[q] <= now + PinTtl
  <2> HIDE DEF e
  <2>1. \A q \in Cooks \ {r} : copy'[q] = copy[q]
      BY <1>2 DEF Shape, CooksWell, CookTyped
  <2>2. CASE copy' = copy
      BY <2>2, <1>1
  <2>3. CASE Hits(e, FALSE) /\ copy' = [copy EXCEPT ![r].pin_until = e.pin_until]
    <3>1. copy'[r] = [copy[r] EXCEPT !.pin_until = e.pin_until]
        BY <2>3 DEF Shape, CooksWell, CookTyped
    <3>2. Timely(copy'[r])
        BY <3>1, <2>3, <1>3, <1>5 DEF Timely
    <3> QED BY <3>2, <2>1, <1>1 DEF CookTimely
  <2> QED BY <2>2, <2>3, <1>2
<1> QED BY <1>1, <1>6, UntouchedPins, StepLeasing

LEMMA ConfirmLeasing ==
    ASSUME Shape, PinsTimely, setup' = setup, NEW r \in Cooks, Confirm(r)
    PROVE  Leasing
<1> USE ShapeIsTyped, Chosen
<1> DEFINE e == store[N][key[r]]
           row == IF Kind[N] = "memory" /\ ~Live(e) THEN NONE ELSE e
<1>1. /\ key[r] \in Keys /\ UNCHANGED <<now, tasks, held, until>>
      /\ CookTimely(r)
    BY DEF Shape, CooksWell, CookTyped, Confirm, PinsTimely
<1>2. Timely(e)
    BY <1>1 DEF PinsTimely, LinksTimely
<1>3. \/ copy' = [copy EXCEPT ![r] = e] /\ UNCHANGED <<store, alias>>
      \/ copy' = copy /\ SetLink(N, [store[N] EXCEPT ![key[r]] = row])
  <2>1. [store[N] EXCEPT ![key[r]] = row] =
        [store[N] EXCEPT ![key[r]] = IF Kind[N] = "memory" /\ ~Live(@) THEN NONE ELSE @]
      OBVIOUS
  <2> QED BY <2>1 DEF Confirm
<1>4. OneKey(key[r])
  <2>1. row = e \/ Timely(row)
      BY DEF Timely
  <2> HIDE DEF row
  <2> QED BY <1>1, <1>3, <2>1, UntouchedPins, RowPins
<1>5. \A q \in Cooks : \/ UNCHANGED <<held[q], copy[q], until[q]>>
                       \/ /\ Timely(held'[q]) /\ Timely(copy'[q])
                          /\ until'[q] <= now + PinTtl
  <2> HIDE DEF e, row
  <2> QED BY <1>1, <1>2, <1>3 DEF CookTimely, Shape, CooksWell, CookTyped
<1> QED BY <1>1, <1>4, <1>5, StepLeasing

\* A claim asks for one lifetime from now.
LEMMA ClaimLeasing ==
    ASSUME Shape, PinsTimely, setup' = setup, NEW r \in Cooks, Claim(r)
    PROVE  Leasing
<1> USE ShapeIsTyped, Chosen
<1>1. /\ key[r] \in Keys /\ PinId(r) \in Ids /\ UNCHANGED <<now, tasks, held>>
      /\ CookTimely(r) /\ LinksTimely /\ held[r] \in Entry
      /\ now + PinTtl \in Nat
    BY PinIdTyped DEF Shape, CooksWell, CookTyped, Claim, PinsTimely, Carries
<1> DEFINE new == [held[r] EXCEPT !.pin_until = MaxOf(@, now + PinTtl)]
<1>2. Timely(new)
    BY <1>1, Later DEF CookTimely
<1>3. OneKey(key[r])
  <2>1. \/ /\ store' = store
           /\ alias' = IF Kind[N] = "memory" THEN LiveAliases ELSE alias
        \/ /\ Live(store[N][key[r]])
           /\ store' = [store EXCEPT ![N][key[r]].pin_until = MaxOf(@, now + Ttl(N))]
           /\ alias' = [LiveAliases EXCEPT ![PinId(r)] = key[r]]
      BY DEF Claim, PinId
  <2> QED BY <2>1, <1>1, RoomPins, ClaimPins
<1>4. /\ copy' = copy \/ copy' = [copy EXCEPT ![r] = new]
      /\ until' = until \/ until' = [until EXCEPT ![r] = now + PinTtl]
    BY DEF Claim
<1>5. \A q \in Cooks : \/ UNCHANGED <<held[q], copy[q], until[q]>>
                       \/ /\ Timely(held'[q]) /\ Timely(copy'[q])
                          /\ until'[q] <= now + PinTtl
  <2> HIDE DEF new
  <2>1. \A q \in Cooks \ {r} : UNCHANGED <<held[q], copy[q], until[q]>>
      BY <1>1, <1>4 DEF Shape, CooksWell, CookTyped
  <2>2. copy'[r] \in {copy[r], new} /\ until'[r] \in {until[r], now + PinTtl}
      BY <1>4 DEF Shape, CooksWell, CookTyped
  <2> QED BY <1>1, <1>2, <2>1, <2>2 DEF CookTimely
<1> QED BY <1>1, <1>3, <1>5, StepLeasing

LEMMA PinLostLeasing ==
    ASSUME Shape, PinsTimely, setup' = setup, NEW r \in Cooks, PinLost(r)
    PROVE  Leasing
<1> USE ShapeIsTyped, Chosen
<1>1. /\ key[r] \in Keys /\ PinId(r) \in Ids /\ UNCHANGED <<now, tasks>> /\ LinksTimely
    BY PinIdTyped DEF PinLost, PinsTimely
<1>2. OneKey(key[r])
  <2>1. \/ UNCHANGED <<store, alias>>
        \/ /\ Live(store[N][key[r]])
           /\ store' = [store EXCEPT ![N][key[r]].pin_until = MaxOf(@, now + Ttl(N))]
           /\ alias' = [LiveAliases EXCEPT ![PinId(r)] = key[r]]
      BY DEF PinLost, Claimable, PinId
  <2> QED BY <2>1, <1>1, UntouchedPins, ClaimPins
<1>3. Carried(r)
    BY DEF Shape, CooksWell, CookTyped, PinLost, End, Carried
<1> QED BY <1>1, <1>2, <1>3, CarriedLeasing

\* The claim whose row is written later is no different.
LEMMA ClaimLateLeasing ==
    ASSUME Shape, PinsTimely, setup' = setup, NEW r \in Cooks, ClaimLate(r)
    PROVE  Leasing
<1> USE ShapeIsTyped, Chosen
<1> DEFINE e == [store[N][key[r]] EXCEPT !.pin_until = MaxOf(@, now + Ttl(N))]
<1>1. /\ store[N][key[r]] \in Entry /\ key[r] \in Keys /\ e \in Entry
      /\ Timely(store[N][key[r]]) /\ CookTimely(r)
    BY ClaimedTyped DEF ClaimLate, PinsTimely, LinksTimely
<1>2. Timely(e)
  <2>1. now + Ttl(N) \in Nat /\ now + Ttl(N) <= now + PinTtl
      BY TtlTyped
  <2> QED BY <1>1, <2>1, Later
<1>3. tasks' = tasks \cup {Landing(r, e)}
    BY DEF ClaimLate
<1> HIDE DEF e
<1>4. \A task \in tasks' : task \in tasks \/ Timely(task.entry)
    BY <1>1, <1>2, <1>3, LandingTimely
<1>5. OneKey(key[r])
    BY DEF ClaimLate, OneKey, SamePin, LiveAliases
<1>6. \A q \in Cooks : \/ UNCHANGED <<held[q], copy[q], until[q]>>
                       \/ /\ Timely(held'[q]) /\ Timely(copy'[q])
                          /\ until'[q] <= now + PinTtl
    BY <1>1 DEF ClaimLate, CookTimely, Shape, CooksWell, CookTyped
<1> QED BY <1>1, <1>4, <1>5, <1>6, StepLeasing DEF ClaimLate

LEMMA WriteLostLeasing ==
    ASSUME Shape, PinsTimely, setup' = setup, NEW r \in Cooks, WriteLost(r)
    PROVE  Leasing
<1> USE ShapeIsTyped, Chosen
<1>1. /\ key[r] \in Keys /\ UNCHANGED <<now, store, alias, held, copy, until>>
      /\ Timely(copy[r]) /\ pc[r] \in {"put", "reval", "expire", "promote"}
    BY DEF Shape, CooksWell, CookTyped, WriteLost, PinsTimely, CookTimely
<1>2. copy[r] \in Entry
    BY <1>1, CopyTyped
<1>3. [copy[r] EXCEPT !.cache_until = Lifetime(r)] \in Entry
      /\ Timely([copy[r] EXCEPT !.cache_until = Lifetime(r)])
  <2>1. Lifetime(r) \in Nat
    <3>1. copy[r].cache_until \in Nat
        BY <1>2, Entries
    <3> QED BY <3>1 DEF Lifetime
  <2>2. [copy[r] EXCEPT !.cache_until = Lifetime(r)].pin_until = copy[r].pin_until
      BY <1>2 DEF Entry
  <2>3. copy[r] # NONE
      BY <1>2, Entries
  <2> QED BY <1>1, <1>2, <2>1, <2>2, <2>3, OtherDeadline DEF Timely
<1>6. \A e \in {copy[r], Pinned(copy[r])} : Timely(Landing(r, e).entry)
    BY <1>1, <1>2, PinnedTyped, PinnedTimely, LandingTimely
<1>4. \/ tasks' = tasks
      \/ \E task :
            /\ tasks' = tasks \cup {task}
            /\ \/ task.entry \in {copy[r], [copy[r] EXCEPT !.cache_until = Lifetime(r)]}
               \/ \E e \in {copy[r], Pinned(copy[r])} : task = Landing(r, e)
    BY WriteLostLeaves DEF Left, Request
<1>5. \A task \in tasks' : task \in tasks \/ Timely(task.entry)
    BY <1>1, <1>3, <1>4, <1>6
<1> QED BY <1>1, <1>5, UntouchedPins, StepLeasing

\* A write that comes late.
LEMMA TaskLeasing ==
    ASSUME Shape, PinsTimely, setup' = setup, NEW task \in tasks, Backfill(task) \/ Arrive(task)
    PROVE  Leasing
<1> USE ShapeIsTyped, Chosen
<1>1. /\ task.tier \in Tiers /\ task.key \in Keys /\ task.entry \in Entry
      /\ Timely(task.entry) /\ LinksTimely
      /\ UNCHANGED <<now, held, copy, until>> /\ tasks' \subseteq tasks
    BY DEF Shape, TaskType, PinsTimely, TasksTimely, Backfill, Arrive, cook
<1>2. Arriving(task) \in Entry /\ Timely(Arriving(task))
  <2>1. [task.entry EXCEPT !.cache_until = now + @] \in Entry
    <3>1. now + task.entry.cache_until \in Nat
        BY <1>1, Entries
    <3> QED BY <1>1, <3>1 DEF Entry
  <2> QED BY <2>1, PinnedTimely, PinnedTyped DEF Arriving
<1>3. OneKey(task.key)
  <2>1. \/ promote(task.tier, task.key, task.entry)
        \/ put(N, task.key, Arriving(task))
        \/ revalidate(N, task.key, task.entry, task.cache)
        \/ SetLink(N, [store[N] EXCEPT ![task.key] = task.entry])
      BY DEF Backfill, Arrive, Arriving
  <2>2. CASE promote(task.tier, task.key, task.entry)
      BY <2>2, <1>1, WritePins
  <2>3. CASE put(N, task.key, Arriving(task))
      BY <2>3, <1>1, <1>2, WritePins
  <2>4. CASE revalidate(N, task.key, task.entry, task.cache)
      BY <2>4, <1>1, WritePins
  <2>5. CASE SetLink(N, [store[N] EXCEPT ![task.key] = task.entry])
      BY <2>5, <1>1, RowPins
  <2> QED BY <2>1, <2>2, <2>3, <2>4, <2>5
<1> QED BY <1>1, <1>3, StepLeasing

LEMMA EvictLeasing ==
    ASSUME Shape, PinsTimely, setup' = setup, NEW t \in Tiers, NEW k \in Keys, Evict(t, k)
    PROVE  Leasing
<1>1. OneKey(k)
    BY ShapeIsTyped, RowPins DEF Evict, Timely
<1> QED BY <1>1, StepLeasing DEF Evict, cook

LEMMA TickTimely ==
    ASSUME Shape, PinsTimely, setup' = setup, Tick
    PROVE  PinsTimely'
<1>1. now' = now + 1 /\ PinTtl' = PinTtl /\ now \in Nat /\ PinTtl \in Nat
    BY ShapeIsTyped, Chosen DEF Tick, PinTtl
<1>2. ASSUME NEW e \in Entry \cup {NONE}, Timely(e)
      PROVE  e # NONE => e.pin_until <= now' + PinTtl'
    BY <1>1, <1>2, Entries DEF Timely
<1>3. \A t \in Tiers, k \in Keys : store[t][k] \in Entry \cup {NONE}
    BY ShapeIsTyped, RowTyped
<1>4. \A q \in Cooks : held[q] \in Entry \cup {NONE} /\ copy[q] \in Entry \cup {NONE} /\ until[q] \in Nat
    BY DEF Shape, CooksWell, CookTyped
<1>5. \A task \in tasks : task.entry \in Entry
    BY DEF Shape, TaskType
<1>6. UNCHANGED <<store, tasks, held, copy, until>>
    BY DEF Tick, cook
<1>7. LinksTimely'
    BY <1>2, <1>3, <1>6 DEF PinsTimely, LinksTimely, Timely
<1>8. ASSUME NEW q \in Cooks PROVE CookTimely(q)'
    BY <1>1, <1>2, <1>4, <1>6 DEF PinsTimely, CookTimely, Timely
<1>9. TasksTimely'
    BY <1>2, <1>5, <1>6 DEF PinsTimely, TasksTimely, Timely
<1> QED BY <1>7, <1>8, <1>9 DEF PinsTimely

\* An action of a cook, of a late write or of a link.
LEMMA NextLeasing ==
    ASSUME Shape, PinsTimely, Next
    PROVE  Leasing \/ Tick
<1>1. setup' = setup /\ lost' \in 0..MaxLost
    BY ChainAssumption DEF Next, Answered, Unanswered, Shape, ClockTyped
<1>2. ASSUME NEW r \in Cooks, Begin(r) \/ Step(r) \/ Leave(r)
      PROVE  Leasing
  <2>1. CASE \E d \in Deadlines : \E c \in Encoded(d) : NotModified(r, d, c) \/ Rendered(r, d, c)
      BY <2>1, <1>1, DecideLeasing
  <2>2. CASE ~\E d \in Deadlines : \E c \in Encoded(d) : NotModified(r, d, c) \/ Rendered(r, d, c)
      BY <2>2, <1>1, <1>2, BeginLeasing, ReadLeasing, WriteLeasing, ProbeLeasing,
         ClaimLeasing, ConfirmLeasing DEF Step
  <2> QED BY <2>1, <2>2
<1>3. ASSUME NEW task \in tasks, Backfill(task) \/ Arrive(task)
      PROVE  Leasing
    BY <1>1, <1>3, TaskLeasing
<1>4. ASSUME NEW t \in Tiers, NEW k \in Keys, Evict(t, k)
      PROVE  Leasing
    BY <1>1, <1>4, EvictLeasing
<1>5. ASSUME NEW r \in Cooks, Unanswered(r)
      PROVE  Leasing
    BY <1>1, <1>5, LookupLostLeasing, PinLostLeasing, ReadLateLeasing, ClaimLateLeasing,
       WriteLostLeasing DEF Unanswered
<1> QED BY <1>2, <1>3, <1>4, <1>5 DEF Next, Answered

\* Only the last refresh hands a pin out.
LEMMA NextPromises ==
    ASSUME Shape, [Next]_vars, promised' # promised
    PROVE  \E r \in Cooks :
               /\ Refresh(r) /\ at[r] = N - 1
               /\ promised' = promised \cup {[id |-> PinId(r), key |-> key[r], until |-> until[r]]}
<1>1. PICK r \in Cooks : Refresh(r)
  <2>1. ASSUME NEW r \in Cooks, Step(r), ~Refresh(r)
        PROVE  FALSE
    <3> USE DEF history
    <3>1. ~Read(r) /\ ~Serve(r)
        BY DEF Read, Receive, Serve
    <3>2. ASSUME NEW d \in Deadlines, NEW c \in Encoded(d), NotModified(r, d, c) \/ Rendered(r, d, c)
          PROVE  FALSE
        BY <3>2 DEF NotModified, Rendered
    <3>3. ~PutLink(r) /\ ~RevalidateLink(r) /\ ~Probe(r) /\ ~Expire(r)
        BY DEF PutLink, RevalidateLink, Probe, Expire
    <3>4. ~Claim(r) /\ ~PromoteLink(r) /\ ~Confirm(r)
        BY DEF Claim, PromoteLink, Confirm
    <3> QED BY <2>1, <3>1, <3>2, <3>3, <3>4 DEF Step
  <2>2. ASSUME NEW r \in Cooks, Begin(r) \/ Leave(r) \/ Unanswered(r)
        PROVE  FALSE
      BY <2>2 DEF Begin, Leave, Unanswered, LookupLost, PinLost, ReadLate, Receive, ClaimLate,
         WriteLost, history
  <2>3. ASSUME \/ \E task \in tasks : Backfill(task) \/ Arrive(task)
               \/ \E t \in Tiers, k \in Keys : Evict(t, k)
               \/ Tick
               \/ UNCHANGED vars
        PROVE  FALSE
      BY <2>3 DEF Backfill, Arrive, Evict, Tick, vars, history
  <2> QED BY <2>1, <2>2, <2>3 DEF Next, Answered
<1>2. at[r] = N - 1
    BY <1>1 DEF Refresh, history
<1> QED BY <1>1, <1>2 DEF Refresh, PinId

-----------------------------------------------------------------------------
(* The leases themselves.                                                  *)
Table == [i \in Ids |-> Lease(i)]

LEMMA LeaseIs ==
    ASSUME Typed, NEW i \in Ids
    PROVE  Lease(i) = IF Durable /\ alias[i] # NONE /\ PinLive(store[N][alias[i]])
                      THEN [key |-> alias[i], until |-> store[N][alias[i]].pin_until]
                      ELSE NONE
    BY DEF Lease, pin_data, PinLive

LEMMA LeaseTyped ==
    ASSUME Typed, NEW i \in Ids
    PROVE  /\ Lease(i) \in [key : Keys, until : Nat] \cup {NONE}
           /\ Lease(i) # NONE =>
                /\ Durable /\ alias[i] \in Keys /\ PinLive(store[N][alias[i]])
                /\ Lease(i) = [key |-> alias[i], until |-> store[N][alias[i]].pin_until]
           /\ Lease(i) = NONE =>
                ~(Durable /\ alias[i] # NONE /\ PinLive(store[N][alias[i]]))
<1>1. CASE Durable /\ alias[i] # NONE /\ PinLive(store[N][alias[i]])
  <2>1. alias[i] \in Keys
      BY <1>1 DEF Typed, TypeOK
  <2>2. store[N][alias[i]] \in Entry
      BY <1>1, <2>1, RowTyped, Chosen DEF PinLive
  <2>3. store[N][alias[i]].pin_until \in Nat
      BY <2>2, Entries
  <2> QED BY <1>1, <2>1, <2>3, LeaseIs, NoneAssumption
<1>2. CASE ~(Durable /\ alias[i] # NONE /\ PinLive(store[N][alias[i]]))
    BY <1>2, LeaseIs
<1> QED BY <1>1, <1>2

\* A step that moves the pins of k moves the deadline of the leases of k.
LEMMA LeasesExtend ==
    ASSUME Shape, Shape', PinsTimely', PinsStay, setup' = setup, now' = now, promised' = promised,
           NEW k \in Keys, OneKey(k)
    PROVE  (\E d \in now + 1..now + PinTtl : Pins!Extend(k, d)) \/ UNCHANGED Table
<1> USE Chosen
<1>0. /\ Typed /\ PinTtl' = PinTtl /\ Durable' = Durable /\ N \in Tiers
      /\ now \in Nat /\ PinTtl \in Nat
      /\ store' \in [Tiers -> [Keys -> Entry \cup {NONE}]]
      /\ alias' \in [Ids -> Keys \cup {NONE}]
    BY ShapeIsTyped DEF Shape, LinksTyped, Rows, PinTtl, Durable, Kind
<1> SUFFICES ASSUME Durable
             PROVE  (\E d \in now + 1..now + PinTtl : Pins!Extend(k, d)) \/ UNCHANGED Table
  <2>1. ~Durable => \A i \in Ids : Lease(i) = NONE /\ Lease(i)' = NONE
      BY <1>0 DEF Lease
  <2> QED BY <2>1 DEF Table
<1>1. ASSUME NEW i \in Ids, Lease(i) # NONE
      PROVE  /\ Lease(i) = [key |-> alias[i], until |-> store[N][alias[i]].pin_until]
             /\ alias'[i] = alias[i] /\ PinLive(store[N][alias[i]])'
             /\ Lease(i)' = [key |-> alias[i], until |-> store'[N][alias[i]].pin_until]
             /\ store[N][alias[i]].pin_until <= store'[N][alias[i]].pin_until
             /\ alias[i] # k => Lease(i)' = Lease(i)
  <2>1. /\ Lease(i) = [key |-> alias[i], until |-> store[N][alias[i]].pin_until]
        /\ alias[i] \in Keys /\ alias[i] # NONE /\ PinLive(store[N][alias[i]])
      BY <1>0, <1>1, LeaseTyped, NoneAssumption
  <2>2. /\ alias'[i] = alias[i]
        /\ store'[N][alias[i]] # NONE
        /\ store'[N][alias[i]].pin_until >= store[N][alias[i]].pin_until
      BY <1>0, <2>1 DEF PinsStay, KeepsPins, Durable
  <2>3. store[N][alias[i]].pin_until \in Nat /\ store'[N][alias[i]].pin_until \in Nat
    <3>1. store[N][alias[i]] \in Entry /\ store'[N][alias[i]] \in Entry
        BY <1>0, <2>1, <2>2, RowTyped DEF PinLive
    <3> QED BY <3>1, Entries
  <2>4. PinLive(store[N][alias[i]])'
      BY <1>0, <2>1, <2>2, <2>3 DEF PinLive
  <2>5. Lease(i)' = [key |-> alias[i], until |-> store'[N][alias[i]].pin_until]
    <3>1. /\ alias'[i] # NONE /\ store'[N][alias'[i]] # NONE
          /\ store'[N][alias'[i]].pin_until > now'
        BY <2>1, <2>2, <2>4 DEF PinLive
    <3> QED BY <1>0, <2>2, <3>1 DEF Lease, pin_data, PinLive
  <2>6. alias[i] # k => store'[N][alias[i]].pin_until = store[N][alias[i]].pin_until
      BY <1>0, <2>1, <2>2 DEF OneKey, SamePin
  <2> QED BY <2>1, <2>2, <2>3, <2>4, <2>5, <2>6
<1>2. ASSUME NEW i \in Ids, Lease(i) = NONE, Lease(i)' # NONE
      PROVE  /\ PinLive(store[N][k])'
             /\ Lease(i)' = [key |-> k, until |-> store'[N][k].pin_until]
  <2>1. /\ Lease(i)' = [key |-> alias'[i], until |-> store'[N][alias'[i]].pin_until]
        /\ alias'[i] \in Keys /\ alias'[i] # NONE
        /\ store'[N][alias'[i]] # NONE /\ store'[N][alias'[i]].pin_until > now
    <3>1. alias'[i] # NONE /\ store'[N][alias'[i]] # NONE /\ store'[N][alias'[i]].pin_until > now
        BY <1>0, <1>2 DEF Lease, pin_data, PinLive
    <3>2. alias'[i] \in Keys
        BY <1>0, <3>1
    <3> QED BY <1>0, <3>1, <3>2 DEF Lease, pin_data, PinLive
  <2>2. alias'[i] = k
    <3> SUFFICES ASSUME alias'[i] # k PROVE FALSE
        OBVIOUS
    <3>1. alias'[i] = alias[i]
        BY <2>1 DEF OneKey
    <3>2. store[N][alias[i]] # NONE /\ store[N][alias[i]].pin_until > now
        BY <1>0, <2>1, <3>1 DEF OneKey, SamePin
    <3> QED BY <1>0, <1>2, <2>1, <3>1, <3>2, LeaseTyped DEF PinLive
  <2> QED BY <1>0, <2>1, <2>2 DEF PinLive
<1>3. CASE PinLive(store[N][k])'
  <2> DEFINE d == store'[N][k].pin_until
  <2>1. d \in now + 1..now + PinTtl
    <3>1. store'[N][k] \in Entry /\ store'[N][k] # NONE /\ d > now
        BY <1>0, <1>3 DEF PinLive
    <3>2. d <= now + PinTtl
        BY <1>0, <3>1 DEF PinsTimely, LinksTimely, Timely
    <3>3. d \in Nat
        BY <3>1, Entries
    <3> QED BY <1>0, <3>1, <3>2, <3>3
  <2>2. Pins!Extend(k, d)
    <3>1. UNCHANGED <<PinTtl, now, IF Durable THEN promised ELSE {}>>
        BY <1>0
    <3>2. Table' \in [Ids -> [key : Keys, until : Nat] \cup {NONE}]
      <4>1. \A i \in Ids : Lease(i)' \in [key : Keys, until : Nat] \cup {NONE}
        <5> SUFFICES ASSUME NEW i \in Ids, Lease(i)' # NONE
                     PROVE  Lease(i)' \in [key : Keys, until : Nat]
            OBVIOUS
        <5>1. d \in Nat
            BY <1>0, <2>1
        <5>2. CASE Lease(i) = NONE
            BY <1>2, <5>1, <5>2
        <5>3. CASE Lease(i) # NONE
          <6>1. alias[i] \in Keys
              BY <1>0, <5>3, LeaseTyped
          <6>2. store'[N][alias[i]] \in Entry
              BY <1>0, <1>1, <5>3, <6>1 DEF PinLive
          <6> QED BY <1>1, <5>3, <6>1, <6>2, Entries
        <5> QED BY <5>2, <5>3
      <4> QED BY <4>1 DEF Table
    <3>3. ASSUME NEW i \in Ids PROVE Pins!Moves(k, d, Lease(i), Lease(i)')
      <4>1. CASE Lease(i) = NONE
          BY <1>2, <4>1 DEF Pins!Moves
      <4>2. CASE Lease(i) # NONE /\ alias[i] = k
          BY <1>1, <4>2 DEF Pins!Moves
      <4>3. CASE Lease(i) # NONE /\ alias[i] # k
        <5>1. Lease(i).key # k /\ Lease(i)' = Lease(i)
            BY <1>1, <4>3
        <5> QED BY <5>1, <4>3 DEF Pins!Moves
      <4> QED BY <4>1, <4>2, <4>3
    <3> QED BY <3>1, <3>2, <3>3 DEF Pins!Extend, Table
  <2> HIDE DEF d
  <2> QED BY <2>1, <2>2
<1>4. CASE ~PinLive(store[N][k])'
  <2>1. ASSUME NEW i \in Ids PROVE Lease(i)' = Lease(i)
    <3>1. CASE Lease(i) = NONE
        BY <1>2, <1>4, <3>1
    <3>2. CASE Lease(i) # NONE
        BY <1>1, <1>4, <3>2 DEF PinLive
    <3> QED BY <3>1, <3>2
  <2> QED BY <2>1 DEF Table
<1> QED BY <1>3, <1>4

\* The last refresh tells the client of a pin whose lease covers what it says.
LEMMA LeasesPromise ==
    ASSUME Shape, PinsTimely, PinsGood, NEW r \in Cooks, Refresh(r), at[r] = N - 1,
           setup' = setup,
           promised' = promised \cup {[id |-> PinId(r), key |-> key[r], until |-> until[r]]}
    PROVE  Pins!Next \/ UNCHANGED Pins!lvars
<1> USE ShapeIsTyped, Chosen
<1> DEFINE p == [id |-> PinId(r), key |-> key[r], until |-> until[r]]
<1>1. /\ PinId(r) \in Ids /\ key[r] \in Keys /\ until[r] \in Nat /\ until[r] <= now + PinTtl
      /\ pc[r] = "refresh" /\ copy[r] \in Entry
    BY PinIdTyped, CopyTyped DEF Shape, CooksWell, CookTyped, PinsTimely, CookTimely, Refresh
<1>2. alias' = alias /\ store'[N] = store[N] /\ now' = now
  <2>0. at[r] \in Tiers /\ store \in [Tiers -> Rows]
      BY DEF Typed, TypeOK, Rows
  <2>1. at[r] \in Tiers /\ at[r] # N /\ store \in [Tiers -> Rows]
    <3> HIDE DEF Rows, Tiers
    <3>1. N \in Nat
        BY ChainAssumption
    <3> QED BY <2>0, <3>1
  <2>2. revalidate(at[r], key[r], copy[r], copy[r].cache)
      BY DEF Refresh
  <2> QED BY <2>1, <2>2 DEF revalidate, SetLink, Refresh
<1>3. PinTtl' = PinTtl /\ Durable' = Durable /\ Table' = Table
  <2>1. PinTtl' = PinTtl /\ Durable' = Durable
      BY DEF PinTtl, Durable, Kind
  <2>2. \A i \in Ids : Lease(i)' = Lease(i)
      BY <1>2, <2>1 DEF Lease, pin_data, PinLive
  <2> QED BY <2>1, <2>2 DEF Table
<1>4. CASE ~Durable
    BY <1>2, <1>3, <1>4 DEF Pins!lvars, Table
<1>5. CASE Durable
  <2>1. until[r] > now => Pins!Covers(Lease(PinId(r)), p)
    <3> SUFFICES ASSUME until[r] > now PROVE Pins!Covers(Lease(PinId(r)), p)
        OBVIOUS
    <3>1. alias[PinId(r)] = key[r] /\ store[N][key[r]] # NONE /\ store[N][key[r]].pin_until >= until[r]
        BY <1>1, <1>5 DEF PinsGood, Kept, Durable
    <3>2. key[r] # NONE /\ store[N][key[r]].pin_until \in Nat
        BY <1>1, <3>1, RowTyped, Entries, NoneAssumption
    <3>3. PinLive(store[N][key[r]])
        BY <1>1, <3>1, <3>2 DEF PinLive
    <3>4. Lease(PinId(r)) = [key |-> key[r], until |-> store[N][key[r]].pin_until]
        BY <1>1, <1>5, <3>1, <3>2, <3>3, LeaseIs
    <3>5. Lease(PinId(r)) # NONE
        BY <1>1, <1>5, <3>1, <3>2, <3>3, LeaseTyped
    <3> QED BY <3>1, <3>4, <3>5 DEF Pins!Covers
  <2>2. p \in [id : Ids, key : Keys, until : 0..now + PinTtl]
      BY <1>1
  <2>3. Table[PinId(r)] = Lease(PinId(r))
      BY <1>1 DEF Table
  <2>4. Pins!Promise(p)
      BY <1>2, <1>3, <1>5, <2>1, <2>3 DEF Pins!Promise, Table
  <2> QED BY <2>2, <2>4 DEF Pins!Next
<1> QED BY <1>4, <1>5

LEMMA LeasesTick ==
    ASSUME Shape, Tick, setup' = setup
    PROVE  Pins!Tick
<1> USE ShapeIsTyped, Chosen
<1>1. /\ now' = now + 1 /\ UNCHANGED <<store, alias, promised>>
      /\ PinTtl' = PinTtl /\ Durable' = Durable
    BY DEF Tick, history, PinTtl, Durable, Kind
<1>2. ASSUME NEW i \in Ids
      PROVE  Lease(i)' = IF Lease(i) # NONE /\ Lease(i).until > now + 1 THEN Lease(i) ELSE NONE
  <2>1. CASE Lease(i) = NONE
    <3>1. Durable /\ alias[i] # NONE => ~PinLive(store[N][alias[i]])
        BY <2>1, LeaseTyped
    <3>2. Durable /\ alias[i] # NONE /\ store[N][alias[i]] # NONE =>
              store[N][alias[i]].pin_until \in Nat
        BY RowTyped, Entries DEF Typed, TypeOK
    <3>3. Durable /\ alias[i] # NONE => ~PinLive(store[N][alias[i]])'
        BY <1>1, <3>1, <3>2 DEF PinLive
    <3> QED BY <1>1, <2>1, <3>3 DEF Lease, pin_data
  <2>2. CASE Lease(i) # NONE
    <3>1. /\ Durable /\ alias[i] \in Keys /\ alias[i] # NONE /\ store[N][alias[i]] # NONE
          /\ Lease(i) = [key |-> alias[i], until |-> store[N][alias[i]].pin_until]
        BY <2>2, LeaseTyped, NoneAssumption DEF PinLive
    <3>2. PinLive(store[N][alias[i]])' <=> Lease(i).until > now + 1
        BY <1>1, <3>1 DEF PinLive
    <3>3. Lease(i)' = IF PinLive(store[N][alias[i]])' THEN Lease(i) ELSE NONE
        BY <1>1, <3>1 DEF Lease, pin_data
    <3> QED BY <2>2, <3>2, <3>3
  <2> QED BY <2>1, <2>2
<1>3. UNCHANGED <<PinTtl, IF Durable THEN promised ELSE {}>>
    BY <1>1
<1> QED BY <1>1, <1>2, <1>3 DEF Pins!Tick

(* No pin deadline, in a link, in a cook's hands or in a late write, is    *)
(* further away than one lifetime, however long the write took to come.    *)
THEOREM TimelyHolds == Spec => [](Shape /\ PinsTimely)
<1>1. Init => PinsTimely
  <2> SUFFICES ASSUME Init PROVE PinsTimely
      OBVIOUS
  <2>1. 0 <= now + PinTtl
      BY InitShape, ShapeIsTyped, Chosen
  <2> QED BY <2>1 DEF Init, PinsTimely, LinksTimely, CookTimely, TasksTimely, Timely
<1>2. Shape /\ PinsTimely /\ [Next]_vars => PinsTimely'
  <2> SUFFICES ASSUME Shape, PinsTimely, [Next]_vars PROVE PinsTimely'
      OBVIOUS
  <2>1. CASE UNCHANGED vars
      BY <2>1 DEF vars, cook, PinsTimely, LinksTimely, CookTimely, TasksTimely, Timely, PinTtl
  <2>2. CASE Next
      BY <2>2, NextLeasing, TickTimely DEF Next, Leasing
  <2> QED BY <2>1, <2>2
<1>3. Shape /\ PinsTimely /\ [Next]_vars => (Shape /\ PinsTimely)'
    BY <1>2, NextShape
<1> QED BY <1>1, <1>3, InitShape, PTL DEF Spec

(* A pin of a chain that ends in SQLite is a lease: whatever cooks, copies,*)
(* late writes, refreshes and purges do to the rows, an identifier keeps   *)
(* its key until its deadline, deadlines only move away and never beyond   *)
(* one lifetime, and clients are only told what a lease covers.            *)
THEOREM PinsAreLeases == Spec => ImplementsLeases
<1>1. Init => Pins!Init
  <2> SUFFICES ASSUME Init PROVE Pins!Init
      OBVIOUS
  <2>1. PinTtl \in Nat
      BY InitShape, ShapeIsTyped, Chosen
  <2>2. \A i \in Ids : Lease(i) = NONE
      BY DEF Init, Lease, pin_data
  <2> QED BY <2>1, <2>2 DEF Init, Pins!Init
<1>2. Shape /\ PinsTimely /\ PinsGood /\ Shape' /\ PinsTimely' /\ [Next]_vars =>
          [Pins!Next]_(Pins!lvars)
  <2> SUFFICES ASSUME Shape, PinsTimely, PinsGood, Shape', PinsTimely', [Next]_vars
               PROVE  Pins!Next \/ UNCHANGED Pins!lvars
      OBVIOUS
  <2>1. PinsStay /\ setup' = setup
      BY NextShape
  <2>2. CASE promised' # promised
      BY <2>1, <2>2, NextPromises, LeasesPromise
  <2>3. CASE Tick
      BY <2>1, <2>3, LeasesTick DEF Pins!Next
  <2>4. CASE UNCHANGED vars
      BY <2>4 DEF vars, history, Pins!lvars, Lease, pin_data, PinLive, PinTtl, Durable, Kind
  <2>5. CASE Next /\ ~Tick /\ promised' = promised
    <3>1. PICK k \in Keys : OneKey(k)
        BY <2>5, NextLeasing DEF Leasing
    <3>2. now' = now
        BY <2>5, NextLeasing DEF Leasing
    <3>3. (\E d \in now + 1..now + PinTtl : Pins!Extend(k, d)) \/ UNCHANGED Table
        BY <2>1, <2>5, <3>1, <3>2, LeasesExtend
    <3>4. UNCHANGED Table => UNCHANGED Pins!lvars
        BY <2>1, <2>5, <3>2 DEF Pins!lvars, Table, PinTtl, Durable, Kind
    <3> QED BY <3>3, <3>4 DEF Pins!Next
  <2> QED BY <2>2, <2>3, <2>4, <2>5
<1> QED BY <1>1, <1>2, TimelyHolds, PinsHold, PTL DEF Spec, ImplementsLeases, Pins!Spec
=============================================================================
