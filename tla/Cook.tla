-------------------------------- MODULE Cook --------------------------------
(***************************************************************************)
(* One cook after another for one source (cook.rs): from the cache to the  *)
(* connection, through inspect, shortcut, the in-process renderer and the  *)
(* handoffs, to the result and to the entry that is stored.                *)
(*                                                                         *)
(* The process is of some tier and has some tools and handoff targets.  A  *)
(* cook is either a client's or one that a lower tier handed off, which    *)
(* has no cache.  What cooks do to each other while they run is modelled   *)
(* elsewhere (Debounce, HandoffChain, CookFreshness); here the deferred    *)
(* writes of one may still be waiting when the next one begins.            *)
(***************************************************************************)
EXTENDS Renderers

CONSTANTS
    Sources,  \* [magic, svg, url, ctype, coding]: what a source looks like
    ToolSets, \* which external tools an environment may have
    Pending   \* bound on the writes that wait

\* What `infer` and the Content-Type say of a source is one of the kinds.
ASSUME CookAssumption ==
    /\ \A s \in Sources : /\ s.coding \in Codings
                          /\ s.magic # NONE => s.magic.kind \in Kinds
                          /\ s.ctype # NONE => s.ctype.kind \in Kinds
    /\ Pending \in Nat

ASSUME NoneAssumption == NONE \notin {"Placeholder", "Fallback"}

\* A stored entry: the thumbnail bytes, the placeholder token, whether it is
\* fresh, whether it has a validator, and (history) that nothing could render it.
\* A write: the entry it expects to find (a revalidation) or NONE, and the new one.
Entry == [thumb : {"none", "image"}, token : BOOLEAN, fresh : BOOLEAN,
          val : BOOLEAN, missing : BOOLEAN]

Write(old, new) == [old |-> old, new |-> new]

VARIABLES
    tier, tools, targets, src, \* the process and the source
    entry,     \* the durable entry, or NONE
    after,     \* writes that wait for the response to be sent
    pc,
    remote,    \* ctx_handoff
    quota,     \* render_disabled
    own,       \* the client's copy: "none", "copy" (with a validator), "fresh"
    sent,      \* whose validator the conditional GET carries: "none", "client", "stored"
    held,      \* the entry that validator belongs to, or NONE
    media,     \* kind and extension, or NONE
    open,      \* the connection can be read
    status,
    image,     \* render_image
    thumb,     \* out_thumbnail
    token,     \* out_placeholder
    source,    \* placeholder_source
    message,   \* out_message is not empty
    note,      \* render_note
    hit,       \* cache_hit
    next,      \* the least tier the handoff chain has not tried
    tried,     \* tried_any
    missing    \* history: the thumbnail stands for a renderer nobody has

process == <<tier, tools, targets, src>>
asked == <<remote, quota, own, sent, held>>
look == <<media, open>>
out == <<status, image, thumb, token, source, message, note, hit>>
chain == <<next, tried, missing>>
vars == <<process, entry, after, pc, asked, look, out, chain>>

-----------------------------------------------------------------------------
Init ==
    /\ tier \in 1..3
    /\ tools \in (IF tier = 3 THEN ToolSets ELSE {{}})
    /\ targets \in SUBSET {2, 3}
    /\ src \in Sources
    /\ entry = NONE
    /\ after = {}
    /\ pc = "idle"
    /\ remote = FALSE /\ quota = FALSE
    /\ own = "none" /\ sent = "none" /\ held = NONE
    /\ media = NONE /\ open = FALSE
    /\ status = "Processing" /\ image = FALSE /\ thumb = "none" /\ token = FALSE
    /\ source = NONE /\ message = FALSE /\ note = FALSE /\ hit = FALSE
    /\ next = 2 /\ tried = FALSE /\ missing = FALSE

Sniffed == sniff(src.magic, src.svg, src.url, src.ctype)

\* restore_cached_media
Restore(e) ==
    /\ thumb' = e.thumb
    /\ token' = e.token
    /\ media' = Sniffed
    /\ hit' = TRUE

(* resolve_cache after the debounce: the client's own hints, then a fresh  *)
(* entry, else a conditional GET with the validator of the stored entry if *)
(* it has one.  A handed off cook comes with the media of the lower tier   *)
(* and with the validator the lower tier had.                              *)
ResolveCache(r, q, o) ==
    /\ pc = "idle"
    /\ r => (tier > 1 /\ ~q /\ o # "fresh")
    /\ remote' = r
    /\ quota' = q
    /\ own' = o
    /\ LET e == IF r THEN NONE ELSE entry IN
       \/ /\ o = "fresh"
          /\ status' = "Fresh"
          /\ pc' = "finish"
          /\ UNCHANGED <<sent, held, media, thumb, token, hit>>
       \/ /\ o # "fresh" /\ e # NONE /\ e.fresh
          /\ Restore(e)
          /\ status' = "Complete"
          /\ pc' = "finish"
          /\ UNCHANGED <<sent, held>>
       \/ /\ o # "fresh" /\ ~(e # NONE /\ e.fresh)
          /\ IF e # NONE /\ e.val
             THEN sent' = "stored" /\ held' = e
             ELSE sent' = (IF o = "copy" THEN "client" ELSE "none") /\ held' = NONE
          /\ media' = IF r THEN Sniffed ELSE NONE
          /\ pc' = "connect"
          /\ UNCHANGED <<status, thumb, token, hit>>
    /\ UNCHANGED <<process, entry, after, open, image, source, message, note, chain>>

-----------------------------------------------------------------------------
(* connect: a back-off (429, 503 or a window one of them opened), an error *)
(* (the network, a 4xx or 5xx, a recent failure, a 304 nobody asked for),  *)
(* a 304, or a 2xx whose body stays open.                                  *)
ConnectOverloaded ==
    /\ pc = "connect"
    /\ status' = "Overloaded"
    /\ pc' = "finish"
    /\ UNCHANGED <<process, entry, after, asked, look, image, thumb, token, source,
                   message, note, hit, chain>>

Fail == status' = "Failed" /\ message' = TRUE

ConnectFailed ==
    /\ pc = "connect"
    /\ Fail
    /\ pc' = "finish"
    /\ UNCHANGED <<process, entry, after, asked, look, image, thumb, token, source,
                   note, hit, chain>>

\* Seeded fault: a 304 is believed whoever asked for it.
Connect304Unasked ==
    /\ pc = "connect"
    /\ status' = "Fresh"
    /\ pc' = "finish"
    /\ UNCHANGED <<process, entry, after, asked, look, image, thumb, token, source,
                   message, note, hit, chain>>

\* The stored entry is fresh again; its metadata is written later.
Connect304 ==
    /\ pc = "connect"
    /\ sent # "none"
    /\ status' = "Fresh"
    /\ pc' = "finish"
    /\ IF sent = "stored"
       THEN /\ Restore(held)
            /\ after' = after \cup {Write(held, [held EXCEPT !.fresh = TRUE])}
       ELSE UNCHANGED <<thumb, token, media, hit, after>>
    /\ UNCHANGED <<process, entry, asked, open, image, source, message, note, chain>>

\* The response replaces nothing of what the cook was handed off with.
ConnectOk ==
    /\ pc = "connect"
    /\ open' = TRUE
    /\ pc' = IF remote THEN "shortcut" ELSE "inspect"
    /\ UNCHANGED <<process, entry, after, asked, media, out, chain>>

InspectReads ==
    /\ pc = "inspect"
    /\ media' = Sniffed
    /\ pc' = "shortcut"
    /\ UNCHANGED <<process, entry, after, asked, open, out, chain>>

InspectFails ==
    /\ pc = "inspect"
    /\ Fail
    /\ pc' = "finish"
    /\ UNCHANGED <<process, entry, after, asked, look, image, thumb, token, source,
                   note, hit, chain>>

\* A shortcut that finds a thumbnail closes the connection.
ShortcutFinds ==
    /\ pc = "shortcut"
    /\ Shortcuts(media)
    /\ image' = TRUE
    /\ open' = FALSE
    /\ pc' = "deliver"
    /\ UNCHANGED <<process, entry, after, asked, media, status, thumb, token, source,
                   message, note, hit, chain>>

\* None found: the quota gate, the in-process renderer or the handoffs are next.
ShortcutMisses ==
    /\ pc = "shortcut"
    /\ IF quota
       THEN Fail /\ pc' = "finish"
       ELSE /\ pc' = IF tier > 1 THEN "render" ELSE "handoff"
            /\ UNCHANGED <<status, message>>
    /\ UNCHANGED <<process, entry, after, asked, look, image, thumb, token, source,
                   note, hit, chain>>

-----------------------------------------------------------------------------
\* Seeded fault: nothing is filtered.
StoreAll(th, tok, srce, miss) ==
    \E val \in BOOLEAN :
        after' = after \cup {Write(NONE, [thumb |-> th, token |-> tok, fresh |-> TRUE,
                                          val |-> val, missing |-> miss])}

(* CacheStore::store of the result as it is before finish: placeholders    *)
(* for missing handlers are left out.  The upstream response says whether  *)
(* the entry has a validator and how long it is fresh (Age ends it, at     *)
(* once for a response that is not cacheable).                             *)
store(th, tok, srce, miss) ==
    IF srce = "Placeholder" THEN UNCHANGED after
    ELSE \E val \in BOOLEAN :
           after' = after \cup {Write(NONE, [thumb |-> th, token |-> tok, fresh |-> TRUE,
                                             val |-> val, missing |-> miss])}

\* deliver, and the write a client's cook defers; the encoder may fail.
Deliver ==
    /\ pc = "deliver"
    /\ image' = FALSE
    /\ pc' = "finish"
    /\ \/ /\ thumb' = "image"
          /\ status' = "Complete"
          /\ IF remote THEN UNCHANGED after ELSE store("image", token, source, FALSE)
       \/ UNCHANGED <<thumb, status, after>>
    /\ UNCHANGED <<process, entry, asked, look, token, source, message, note, hit, chain>>

\* The renderer of the process's own tier.
Render ==
    /\ pc = "render"
    /\ \E o \in IF tier = 2 THEN Tier2(media, src.coding)
                ELSE Tier3(media, src.coding, remote, tools) :
        /\ open' = ~o.taken
        /\ image' = o.image
        /\ status' = IF o.failed THEN "Failed" ELSE status
        /\ message' = o.message
        /\ note' = o.note
        /\ source' = IF o.claim THEN source ELSE "Fallback"
        /\ pc' = IF ~o.claim THEN "handoff" ELSE IF o.image THEN "deliver" ELSE "finish"
    /\ UNCHANGED <<process, entry, after, asked, media, thumb, token, hit, chain>>

-----------------------------------------------------------------------------
\* The tier the chain starts with.
start_tier ==
    LET routed == route(media) IN
    IF 2 \in targets /\ (\/ routed = 1 /\ media.kind = "Image"
                         \/ routed = 3 /\ 3 \notin targets)
    THEN 2 ELSE routed

\* The tiers that are still to be tried.
Ahead == {t \in targets : t >= start_tier /\ t >= next}

(* What a higher tier answers: a rendered thumbnail, a placeholder whose   *)
(* bytes the handoff route cleared, "not modified" when the source says so *)
(* to the higher tier, or no success.                                      *)
Reply(ok, th, tok, srce, msg) ==
    [ok |-> ok, thumb |-> th, token |-> tok, source |-> srce, message |-> msg]

HandoffAnswers ==
    {Reply(TRUE, "image", FALSE, NONE, FALSE),
     Reply(TRUE, "none", FALSE, NONE, FALSE),
     Reply(TRUE, "none", TRUE, "Placeholder", TRUE),
     Reply(FALSE, "none", TRUE, NONE, FALSE)}
      \cup {Reply(TRUE, "none", TRUE, "Fallback", m) : m \in BOOLEAN}

\* Seeded fault: where a placeholder came from is not taken over.
Applied_source(a) == NONE

\* placeholder_source of apply_handoff_response
Applied(a) == a.source

(* The connection is closed first.  A placeholder of tier 2 leaves the     *)
(* item to a configured tier 3; any other success is applied and stored.   *)
Handoff ==
    /\ pc = "handoff"
    /\ Ahead # {}
    /\ open' = FALSE
    /\ tried' = TRUE
    /\ \E a \in HandoffAnswers :
        LET t == Min(Ahead)
            applied == a.ok /\ ~(t = 2 /\ 3 \in targets /\ a.token)
        IN
        /\ next' = t + 1
        /\ IF applied
           THEN /\ status' = "Complete"
                /\ thumb' = a.thumb
                /\ token' = a.token
                /\ source' = Applied(a)
                /\ message' = a.message
                /\ missing' = (a.source = "Placeholder")
                /\ pc' = "finish"
                /\ IF remote THEN UNCHANGED after
                   ELSE store(a.thumb, a.token, Applied(a), a.source = "Placeholder")
           ELSE /\ message' = TRUE
                /\ UNCHANGED <<status, thumb, token, source, missing, pc, after>>
    /\ UNCHANGED <<process, entry, asked, media, image, note, hit>>

\* Every target failed.
HandoffsFail ==
    /\ pc = "handoff"
    /\ Ahead = {} /\ tried
    /\ status' = "Failed"
    /\ pc' = "finish"
    /\ UNCHANGED <<process, entry, after, asked, look, image, thumb, token, source,
                   message, note, hit, chain>>

\* No target at all: the placeholder of a missing renderer.
NoHandoff ==
    /\ pc = "handoff"
    /\ Ahead = {} /\ ~tried
    /\ open' = FALSE
    /\ status' = "Complete"
    /\ source' = "Placeholder"
    /\ message' = TRUE
    /\ missing' = TRUE
    /\ pc' = "finish"
    /\ UNCHANGED <<process, entry, after, asked, media, image, thumb, token, note, hit,
                   next, tried>>

-----------------------------------------------------------------------------
\* Seeded fault: the icon is named by the failure alone.
finish_without_token ==
    /\ pc = "finish"
    /\ pc' = "done"
    /\ IF thumb = "none" /\ status # "Fresh"
       THEN /\ thumb' = "icon"
            /\ token' = (status = "Failed")
            /\ IF media # NONE /\ status = "Failed"
               THEN status' = "Complete" /\ source' = "Fallback"
               ELSE UNCHANGED <<status, source>>
       ELSE UNCHANGED <<thumb, token, status, source>>
    /\ UNCHANGED <<process, entry, after, asked, look, image, message, note, hit, chain>>

(* finish: an icon for the kind, or for an unknown kind, in place of a     *)
(* missing thumbnail; a failure after the kind is known is a success with  *)
(* a fallback.  The writes that wait may be run before the response to     *)
(* publish a pin; that is one of the orders WriteBack allows.              *)
finish ==
    /\ pc = "finish"
    /\ pc' = "done"
    /\ IF thumb = "none" /\ status # "Fresh"
       THEN /\ thumb' = "icon"
            /\ token' = TRUE
            /\ IF media # NONE /\ status = "Failed"
               THEN status' = "Complete" /\ source' = "Fallback"
               ELSE UNCHANGED <<status, source>>
       ELSE UNCHANGED <<thumb, token, status, source>>
    /\ UNCHANGED <<process, entry, after, asked, look, image, message, note, hit, chain>>

\* A deferred write runs, at any time and in any order; a revalidation only if
\* the entry is still the one it was read from.
WriteBack ==
    /\ \E w \in after :
        /\ entry' = IF w.old = NONE \/ w.old = entry THEN w.new ELSE entry
        /\ after' = after \ {w}
    /\ UNCHANGED <<process, pc, asked, look, out, chain>>

\* Time passes for the entry: it becomes stale, or it is evicted.
Age ==
    /\ entry # NONE
    /\ entry' \in {NONE, [entry EXCEPT !.fresh = FALSE]}
    /\ entry' # entry
    /\ UNCHANGED <<process, after, pc, asked, look, out, chain>>

\* The next cook starts from nothing but the process and the cache.
NextCook ==
    /\ pc = "done"
    /\ Cardinality(after) <= Pending
    /\ pc' = "idle"
    /\ remote' = FALSE /\ quota' = FALSE
    /\ own' = "none" /\ sent' = "none" /\ held' = NONE
    /\ media' = NONE /\ open' = FALSE
    /\ status' = "Processing" /\ image' = FALSE /\ thumb' = "none" /\ token' = FALSE
    /\ source' = NONE /\ message' = FALSE /\ note' = FALSE /\ hit' = FALSE
    /\ next' = 2 /\ tried' = FALSE /\ missing' = FALSE
    /\ UNCHANGED <<process, entry, after>>

Step ==
    \/ \E r, q \in BOOLEAN, o \in {"none", "copy", "fresh"} : ResolveCache(r, q, o)
    \/ ConnectOverloaded \/ ConnectFailed \/ Connect304 \/ ConnectOk
    \/ InspectReads \/ InspectFails
    \/ ShortcutFinds \/ ShortcutMisses
    \/ Deliver \/ Render
    \/ Handoff \/ HandoffsFail \/ NoHandoff
    \/ finish

Next == Step \/ WriteBack \/ Age \/ NextCook

Spec == Init /\ [][Next]_vars

-----------------------------------------------------------------------------
(* Every variable has its type: in particular what sniffing says of a      *)
(* source is a kind the dispatch and the renderers know.                   *)
TypeOK ==
    /\ tier \in 1..3 /\ targets \subseteq {2, 3} /\ src \in Sources
    /\ entry \in Entry \cup {NONE}
    /\ \A w \in after : w.old \in Entry \cup {NONE} /\ w.new \in Entry
    /\ pc \in {"idle", "connect", "inspect", "shortcut", "deliver", "render", "handoff",
               "finish", "done"}
    /\ remote \in BOOLEAN /\ quota \in BOOLEAN /\ open \in BOOLEAN /\ image \in BOOLEAN
    /\ token \in BOOLEAN /\ message \in BOOLEAN /\ note \in BOOLEAN /\ hit \in BOOLEAN
    /\ tried \in BOOLEAN /\ missing \in BOOLEAN
    /\ own \in {"none", "copy", "fresh"} /\ sent \in {"none", "client", "stored"}
    /\ held \in Entry \cup {NONE}
    /\ media # NONE => media.kind \in Kinds
    /\ status \in {"Processing", "Complete", "Fresh", "Failed", "Overloaded"}
    /\ thumb \in {"none", "image", "icon"}
    /\ source \in {"Placeholder", "Fallback", NONE}
    /\ next \in 2..4

done == pc = "done"

(* A result's token says whether its bytes are a picture of the source or  *)
(* an icon, whichever path it came by: a client decides by the token what  *)
(* to keep, and finish what to pin.                                        *)
ThumbnailTruth ==
    done => /\ thumb = "image" => ~token /\ source = NONE
            /\ thumb = "icon" => token

(* The durable cache never holds the placeholder of a renderer nobody has, *)
(* neither this process's nor one a higher tier answered: a renderer that  *)
(* is installed later would not be asked for as long as the entry lives.   *)
NeverStoresMissing == entry # NONE => ~entry.missing

(* A picture that was made by this cook or for it comes without the        *)
(* message of an earlier attempt that failed (tier 2 before a tool, or     *)
(* tier 2's handoff before tier 3's).                                      *)
NoStaleMessage == (done /\ thumb = "image" /\ ~hit) => ~message

(* An empty answer that is not a stored one ("use your copy") goes only to *)
(* a client that has a copy, even when the source answers 304 to a request *)
(* without a validator.                                                    *)
EmptyOnlyForCopies == (done /\ thumb = "none" /\ ~hit) => own # "none"

\* The source to_result names.
ResultSource ==
    IF hit THEN "Cache" ELSE IF status = "Fresh" THEN "NotModified"
    ELSE IF source # NONE THEN source ELSE IF token THEN "Fallback" ELSE "Render"

(* What a handed off cook ends with, once the handoff route has cleared    *)
(* the bytes of a placeholder and apply_handoff_response has filtered its  *)
(* source, is one of the answers Handoff assumes: the two ends of a        *)
(* handoff fit, through every chain of tiers.                              *)
AnswersAssumed ==
    (done /\ remote /\ status \notin {"Failed", "Overloaded"}) =>
        Reply(TRUE, IF token THEN "none" ELSE thumb, token,
              IF ResultSource \in {"Placeholder", "Fallback"} THEN ResultSource ELSE NONE,
              message) \in HandoffAnswers

(* "Always return a thumbnail ... except for NotModified, where an empty   *)
(* thumbnail tells the caller 'use your cached copy'" (finish).            *)
AlwaysThumbnail == (done /\ ~remote /\ ResultSource # "NotModified") => thumb # "none"
=============================================================================
