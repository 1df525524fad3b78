------------------------------ MODULE CookProofs ------------------------------
(***************************************************************************)
(* Proofs about one cook after another, for any sources, tools, tiers and  *)
(* targets, any answers of the source and of the higher tiers, any order   *)
(* of the deferred writes: the token of a result tells what its bytes are, *)
(* nothing that stands for a missing renderer is stored, a message does    *)
(* not outlive the rescue, an empty answer needs a copy, and the two ends  *)
(* of a handoff fit.                                                       *)
(***************************************************************************)
EXTENDS Cook, TLAPS

-----------------------------------------------------------------------------
(* The inductive invariant, by what the parts speak of.                    *)

\* What is stored, waits to be stored or was read for a revalidation.
Sound(e) == e # NONE => ~e.missing /\ (e.thumb = "image" => ~e.token)

CacheSound ==
    /\ Sound(entry) /\ Sound(held)
    /\ \A w \in after : Sound(w.old) /\ Sound(w.new)

\* Who was asked for what: only a client's cook has a stored entry to ask for.
AskedRight ==
    /\ sent = "stored" => held # NONE /\ ~remote
    /\ sent = "client" => own = "copy"
    /\ pc = "idle" => sent = "none"
    /\ remote => ~hit

\* Before a result is made nothing of it is there, but for a failure and its
\* message while the renderers and the handoffs are tried.
Nothing == thumb = "none" /\ ~token /\ ~hit /\ ~missing

InProgress ==
    /\ pc \in {"idle", "connect", "inspect", "shortcut", "deliver", "render", "handoff"} =>
          Nothing /\ status # "Fresh" /\ source # "Placeholder"
    /\ pc \in {"idle", "connect", "inspect", "shortcut", "deliver", "render"} =>
          source = NONE /\ ~message
    /\ pc \in {"idle", "connect", "inspect", "shortcut"} => ~tried

\* What a result is made of, before the icon is put in and after.
Picture == (thumb = "image" => ~token /\ source = NONE /\ (hit \/ ~message))

Unmodified ==
    status = "Fresh" =>
        hit \/ (own # "none" /\ thumb = "none" /\ ~token /\ source = NONE /\ ~message)

Explained == source = "Placeholder" => message

Results ==
    /\ pc \in {"finish", "done"} => Picture /\ Unmodified /\ Explained
    /\ pc = "finish" => thumb # "icon"
    /\ pc = "done" => (thumb = "icon" => token) /\ (thumb = "none" => status = "Fresh")

\* The types, in two groups.
Flags ==
    /\ remote \in BOOLEAN /\ quota \in BOOLEAN /\ open \in BOOLEAN /\ image \in BOOLEAN
    /\ token \in BOOLEAN /\ message \in BOOLEAN /\ note \in BOOLEAN /\ hit \in BOOLEAN
    /\ tried \in BOOLEAN /\ missing \in BOOLEAN

Values ==
    /\ tier \in 1..3 /\ targets \subseteq {2, 3} /\ src \in Sources
    /\ entry \in Entry \cup {NONE} /\ held \in Entry \cup {NONE}
    /\ \A w \in after : w.old \in Entry \cup {NONE} /\ w.new \in Entry
    /\ pc \in {"idle", "connect", "inspect", "shortcut", "deliver", "render", "handoff",
               "finish", "done"}
    /\ own \in {"none", "copy", "fresh"} /\ sent \in {"none", "client", "stored"}
    /\ media # NONE => media.kind \in Kinds
    /\ status \in {"Processing", "Complete", "Fresh", "Failed", "Overloaded"}
    /\ thumb \in {"none", "image", "icon"}
    /\ source \in {"Placeholder", "Fallback", NONE}
    /\ next \in 2..4

IInv == Flags /\ Values /\ CacheSound /\ AskedRight /\ InProgress /\ Results

-----------------------------------------------------------------------------
(* What the operators the model is built from return.                      *)

LEMMA ExtKind == \A e : ext_to_kind(e) \in Kinds
<1> SUFFICES ASSUME NEW e PROVE ext_to_kind(e) \in Kinds
    OBVIOUS
<1> DEFINE c == {k \in DOMAIN ExtensionsOf : e \in ExtensionsOf[k]}
<1>1. DOMAIN ExtensionsOf \subseteq Kinds
    BY DEF ExtensionsOf, Kinds
<1>2. CASE c = {}
    BY <1>2 DEF ext_to_kind, Kinds
<1>3. CASE c # {}
  <2>1. ext_to_kind(e) \in c
      BY <1>3 DEF ext_to_kind
  <2> QED BY <2>1, <1>1
<1> QED BY <1>2, <1>3

\* Whatever is known of a source, sniffing it names a kind.
LEMMA SniffedKind ==
    ASSUME src \in Sources
    PROVE  Sniffed.kind \in Kinds
<1>1. /\ src.magic # NONE => src.magic.kind \in Kinds
      /\ src.ctype # NONE => src.ctype.kind \in Kinds
    BY CookAssumption
<1>2. \A k, e : File(k, e).kind = k
    BY DEF File
<1>3. \A u : src.ctype # NONE => FromHeader(src.ctype, u).kind \in Kinds
    BY <1>1, <1>2, ExtKind DEF FromHeader
<1>4. \A u : src.magic # NONE => sniff_magic(src.magic, src.svg, u).kind \in Kinds
    BY <1>1, <1>2, ExtKind DEF sniff_magic, Kinds
<1> QED BY <1>2, <1>3, <1>4, ExtKind DEF Sniffed, sniff, Kinds

\* An image is claimed and comes without a message; what is claimed without an
\* image has failed.
Proper(o) ==
    /\ o \in Outcome
    /\ o.image => o.claim /\ ~o.message
    /\ (o.claim /\ ~o.image) => o.failed

LEMMA Constants ==
    /\ Proper(Declined) /\ ~Declined.claim
    /\ Proper(Missing) /\ ~Missing.claim
    /\ \A o \in Decoded : Proper(o) /\ o.claim
BY DEF Proper, Outcome, Declined, Missing, Decoded, Rendered, Undecodable

LEMMA ToolProper == \A name, tools_ : \A o \in Tool(name, tools_) : Proper(o)
BY Constants DEF Tool

LEMMA Tier2Proper == \A f, coding : \A o \in Tier2(f, coding) : Proper(o)
<1> SUFFICES ASSUME NEW f, NEW coding, NEW o \in Tier2(f, coding)
             PROVE  Proper(o)
    OBVIOUS
<1>1. Undecodable \in Decoded
    BY DEF Decoded
<1>2. \A g, c : \A p \in render_image(g, c) \cup render_video(g) \cup render_vector(g) : Proper(p)
    BY <1>1, Constants DEF render_image, render_video, render_vector
<1>3. CASE f.kind = "Image"
    BY <1>2, <1>3, Constants DEF Tier2
<1>4. CASE f.kind = "Video"
    BY <1>2, <1>4, Constants DEF Tier2
<1>5. CASE f.kind = "Vector"
    BY <1>2, <1>5, Constants DEF Tier2
<1>6. CASE f.kind \notin {"Image", "Video", "Vector"}
    BY <1>6, Constants DEF Tier2
<1> QED BY <1>3, <1>4, <1>5, <1>6

\* The rescue of an outcome that has no image.
LEMMA FallbackProper ==
    ASSUME NEW f, NEW tools_, NEW o, Proper(o), ~o.image
    PROVE  \A p \in render_image_ffmpeg_fallback(f, tools_, o) : Proper(p)
BY DEF render_image_ffmpeg_fallback, Proper, Outcome

LEMMA Tier3Proper ==
    \A f, coding, r, tools_ : \A o \in Tier3(f, coding, r, tools_) : Proper(o)
<1> SUFFICES ASSUME NEW f, NEW coding, NEW r, NEW tools_, NEW o \in Tier3(f, coding, r, tools_)
             PROVE  Proper(o)
    OBVIOUS
<1>1. CASE f.kind = "Document"
    BY <1>1, Constants, ToolProper DEF Tier3, render_document_tier3
<1>2. CASE f.kind = "Geometry"
    BY <1>2, Constants, ToolProper DEF Tier3, render_geometry_tier3
<1>3. CASE f.kind = "Image" /\ f.ext = "jpeg"
  <2>1. o \in render_jpeg(f, coding, tools_)
      BY <1>3 DEF Tier3
  <2>2. CASE coding = "arith"
      BY <2>1, <2>2, ToolProper DEF render_jpeg
  <2>3. CASE coding # "arith"
    <3>1. PICK p \in Tier2(f, coding) :
            o \in IF p.claim THEN {p} ELSE render_image_ffmpeg_fallback(f, tools_, p)
        BY <2>1, <2>3 DEF render_jpeg
    <3>2. Proper(p)
        BY Tier2Proper
    <3>3. ~p.claim => ~p.image
        BY <3>2 DEF Proper
    <3> QED BY <3>1, <3>2, <3>3, FallbackProper
  <2> QED BY <2>2, <2>3
<1>4. CASE f.kind = "Image" /\ f.ext # "jpeg"
  <2>1. o \in render_other_image(f, coding, tools_)
      BY <1>4 DEF Tier3
  <2>2. PICK p \in Tier2(f, coding) :
          o \in IF p.claim /\ p.image THEN {p} ELSE render_image_ffmpeg_fallback(f, tools_, p)
      BY <2>1 DEF render_other_image
  <2>3. Proper(p)
      BY Tier2Proper
  <2>4. ~(p.claim /\ p.image) => ~p.image
      BY <2>3 DEF Proper
  <2> QED BY <2>2, <2>3, <2>4, FallbackProper
<1>5. CASE f.kind = "Video"
    BY <1>5, Tier2Proper DEF Tier3
<1>6. CASE f.kind \notin {"Document", "Geometry", "Image", "Video"}
    BY <1>6, Constants, Tier2Proper DEF Tier3
<1> QED BY <1>1, <1>2, <1>3, <1>4, <1>5, <1>6

\* The chain of tiers moves on by one that is tried.
LEMMA NextTier ==
    ASSUME Ahead # {}, targets \subseteq {2, 3}
    PROVE  Min(Ahead) + 1 \in 2..4
<1> DEFINE S == Ahead
<1> HIDE DEF S
<1>1. S # {} /\ S \subseteq {2, 3}
    BY DEF Ahead, S
<1>2. \E x \in S : \A y \in S : x <= y
  <2>1. CASE 2 \in S
    <3>1. \A y \in S : 2 <= y
        BY <1>1
    <3> QED BY <2>1, <3>1
  <2>2. CASE 2 \notin S
    <3>1. S = {3}
        BY <1>1, <2>2
    <3> QED BY <3>1
  <2> QED BY <2>1, <2>2
<1>3. Min(S) \in S
    BY <1>2, Zenon DEF Min
<1>4. \A m \in S : m + 1 \in 2..4
    BY <1>1
<1> QED BY <1>3, <1>4 DEF S

-----------------------------------------------------------------------------
(* Every step keeps every part.                                            *)

LEMMA InitSound == Init => IInv
<1> SUFFICES ASSUME Init PROVE IInv
    OBVIOUS
<1> USE NoneAssumption DEF Init
<1>1. Flags
    BY DEF Flags
<1>2. Values
    BY DEF Values
<1>3. CacheSound
    BY DEF Flags, Values, CacheSound, Sound
<1>4. AskedRight
    BY DEF Flags, Values, AskedRight, InProgress, Nothing
<1>5. InProgress
    BY DEF Flags, Values, AskedRight, InProgress, Nothing
<1>6. Results
    BY DEF Flags, Values, InProgress, Nothing, Results, Picture, Unmodified, Explained
<1> QED BY <1>1, <1>2, <1>3, <1>4, <1>5, <1>6 DEF IInv

LEMMA ConnectOverloadedSound == IInv /\ ConnectOverloaded => IInv'
<1> SUFFICES ASSUME IInv, ConnectOverloaded PROVE IInv'
    OBVIOUS
<1> USE NoneAssumption DEF ConnectOverloaded, process, asked, look, out, chain
<1>1. Flags'
    BY DEF IInv, Flags
<1>2. Values'
    BY DEF IInv, Values
<1>3. CacheSound'
    BY DEF IInv, Flags, Values, CacheSound, Sound
<1>4. AskedRight'
    BY DEF IInv, Flags, Values, AskedRight, InProgress, Nothing
<1>5. InProgress'
    BY DEF IInv, Flags, Values, AskedRight, InProgress, Nothing
<1>6. Results'
    BY DEF IInv, Flags, Values, InProgress, Nothing, Results, Picture, Unmodified, Explained
<1> QED BY <1>1, <1>2, <1>3, <1>4, <1>5, <1>6 DEF IInv

LEMMA ConnectFailedSound == IInv /\ ConnectFailed => IInv'
<1> SUFFICES ASSUME IInv, ConnectFailed PROVE IInv'
    OBVIOUS
<1> USE NoneAssumption DEF ConnectFailed, Fail, process, asked, look, out, chain
<1>1. Flags'
    BY DEF IInv, Flags
<1>2. Values'
    BY DEF IInv, Values
<1>3. CacheSound'
    BY DEF IInv, Flags, Values, CacheSound, Sound
<1>4. AskedRight'
    BY DEF IInv, Flags, Values, AskedRight, InProgress, Nothing
<1>5. InProgress'
    BY DEF IInv, Flags, Values, AskedRight, InProgress, Nothing
<1>6. Results'
    BY DEF IInv, Flags, Values, InProgress, Nothing, Results, Picture, Unmodified, Explained
<1> QED BY <1>1, <1>2, <1>3, <1>4, <1>5, <1>6 DEF IInv

LEMMA ConnectOkSound == IInv /\ ConnectOk => IInv'
<1> SUFFICES ASSUME IInv, ConnectOk PROVE IInv'
    OBVIOUS
<1> USE NoneAssumption DEF ConnectOk, process, asked, look, out, chain
<1>1. Flags'
    BY DEF IInv, Flags
<1>2. Values'
    BY DEF IInv, Values
<1>3. CacheSound'
    BY DEF IInv, Flags, Values, CacheSound, Sound
<1>4. AskedRight'
    BY DEF IInv, Flags, Values, AskedRight, InProgress, Nothing
<1>5. InProgress'
    BY DEF IInv, Flags, Values, AskedRight, InProgress, Nothing
<1>6. Results'
    BY DEF IInv, Flags, Values, InProgress, Nothing, Results, Picture, Unmodified, Explained
<1> QED BY <1>1, <1>2, <1>3, <1>4, <1>5, <1>6 DEF IInv

LEMMA InspectFailsSound == IInv /\ InspectFails => IInv'
<1> SUFFICES ASSUME IInv, InspectFails PROVE IInv'
    OBVIOUS
<1> USE NoneAssumption DEF InspectFails, Fail, process, asked, look, out, chain
<1>1. Flags'
    BY DEF IInv, Flags
<1>2. Values'
    BY DEF IInv, Values
<1>3. CacheSound'
    BY DEF IInv, Flags, Values, CacheSound, Sound
<1>4. AskedRight'
    BY DEF IInv, Flags, Values, AskedRight, InProgress, Nothing
<1>5. InProgress'
    BY DEF IInv, Flags, Values, AskedRight, InProgress, Nothing
<1>6. Results'
    BY DEF IInv, Flags, Values, InProgress, Nothing, Results, Picture, Unmodified, Explained
<1> QED BY <1>1, <1>2, <1>3, <1>4, <1>5, <1>6 DEF IInv

LEMMA ShortcutFindsSound == IInv /\ ShortcutFinds => IInv'
<1> SUFFICES ASSUME IInv, ShortcutFinds PROVE IInv'
    OBVIOUS
<1> USE NoneAssumption DEF ShortcutFinds, process, asked, look, out, chain
<1>1. Flags'
    BY DEF IInv, Flags
<1>2. Values'
    BY DEF IInv, Values
<1>3. CacheSound'
    BY DEF IInv, Flags, Values, CacheSound, Sound
<1>4. AskedRight'
    BY DEF IInv, Flags, Values, AskedRight, InProgress, Nothing
<1>5. InProgress'
    BY DEF IInv, Flags, Values, AskedRight, InProgress, Nothing
<1>6. Results'
    BY DEF IInv, Flags, Values, InProgress, Nothing, Results, Picture, Unmodified, Explained
<1> QED BY <1>1, <1>2, <1>3, <1>4, <1>5, <1>6 DEF IInv

LEMMA ShortcutMissesSound == IInv /\ ShortcutMisses => IInv'
<1> SUFFICES ASSUME IInv, ShortcutMisses PROVE IInv'
    OBVIOUS
<1> USE NoneAssumption DEF ShortcutMisses, Fail, process, asked, look, out, chain
<1>1. Flags'
    BY DEF IInv, Flags
<1>2. Values'
    BY DEF IInv, Values
<1>3. CacheSound'
    BY DEF IInv, Flags, Values, CacheSound, Sound
<1>4. AskedRight'
    BY DEF IInv, Flags, Values, AskedRight, InProgress, Nothing
<1>5. InProgress'
    BY DEF IInv, Flags, Values, AskedRight, InProgress, Nothing
<1>6. Results'
    BY DEF IInv, Flags, Values, InProgress, Nothing, Results, Picture, Unmodified, Explained
<1> QED BY <1>1, <1>2, <1>3, <1>4, <1>5, <1>6 DEF IInv

LEMMA HandoffsFailSound == IInv /\ HandoffsFail => IInv'
<1> SUFFICES ASSUME IInv, HandoffsFail PROVE IInv'
    OBVIOUS
<1> USE NoneAssumption DEF HandoffsFail, process, asked, look, out, chain
<1>1. Flags'
    BY DEF IInv, Flags
<1>2. Values'
    BY DEF IInv, Values
<1>3. CacheSound'
    BY DEF IInv, Flags, Values, CacheSound, Sound
<1>4. AskedRight'
    BY DEF IInv, Flags, Values, AskedRight, InProgress, Nothing
<1>5. InProgress'
    BY DEF IInv, Flags, Values, AskedRight, InProgress, Nothing
<1>6. Results'
    BY DEF IInv, Flags, Values, InProgress, Nothing, Results, Picture, Unmodified, Explained
<1> QED BY <1>1, <1>2, <1>3, <1>4, <1>5, <1>6 DEF IInv

LEMMA NoHandoffSound == IInv /\ NoHandoff => IInv'
<1> SUFFICES ASSUME IInv, NoHandoff PROVE IInv'
    OBVIOUS
<1> USE NoneAssumption DEF NoHandoff, process, asked, look, out, chain
<1>1. Flags'
    BY DEF IInv, Flags
<1>2. Values'
    BY DEF IInv, Values
<1>3. CacheSound'
    BY DEF IInv, Flags, Values, CacheSound, Sound
<1>4. AskedRight'
    BY DEF IInv, Flags, Values, AskedRight, InProgress, Nothing
<1>5. InProgress'
    BY DEF IInv, Flags, Values, AskedRight, InProgress, Nothing
<1>6. Results'
    BY DEF IInv, Flags, Values, InProgress, Nothing, Results, Picture, Unmodified, Explained
<1> QED BY <1>1, <1>2, <1>3, <1>4, <1>5, <1>6 DEF IInv

LEMMA finishSound == IInv /\ finish => IInv'
<1> SUFFICES ASSUME IInv, finish PROVE IInv'
    OBVIOUS
<1> USE NoneAssumption DEF finish, process, asked, look, out, chain
<1>1. Flags'
    BY DEF IInv, Flags
<1>2. Values'
    BY DEF IInv, Values
<1>3. CacheSound'
    BY DEF IInv, Flags, Values, CacheSound, Sound
<1>4. AskedRight'
    BY DEF IInv, Flags, Values, AskedRight, InProgress, Nothing
<1>5. InProgress'
    BY DEF IInv, Flags, Values, AskedRight, InProgress, Nothing
<1>6. Results'
    BY DEF IInv, Flags, Values, InProgress, Nothing, Results, Picture, Unmodified, Explained
<1> QED BY <1>1, <1>2, <1>3, <1>4, <1>5, <1>6 DEF IInv

LEMMA IInvTyped == IInv => TypeOK
BY Zenon DEF IInv, Flags, Values, TypeOK

\* An entry that is revalidated, or whose time has come, is no less sound.
LEMMA RefreshedSound ==
    ASSUME NEW e \in Entry, e # NONE, Sound(e), NEW b \in BOOLEAN
    PROVE  [e EXCEPT !.fresh = b] \in Entry /\ Sound([e EXCEPT !.fresh = b])
BY DEF Entry, Sound

\* What restore_cached_media takes from a sound entry.
LEMMA RestoreSound ==
    ASSUME NEW e \in Entry, e # NONE, Sound(e), src \in Sources, Restore(e)
    PROVE  /\ thumb' \in {"none", "image"} /\ token' \in BOOLEAN /\ hit'
           /\ hit' \in BOOLEAN
           /\ thumb' = "image" => ~token'
           /\ media'.kind \in Kinds
<1>1. e.thumb \in {"none", "image"} /\ e.token \in BOOLEAN /\ (e.thumb = "image" => ~e.token)
    BY DEF Entry, Sound
<1> QED BY <1>1, SniffedKind DEF Restore

LEMMA ResolveCacheSound ==
    ASSUME IInv, NEW r \in BOOLEAN, NEW q \in BOOLEAN, NEW o \in {"none", "copy", "fresh"},
           ResolveCache(r, q, o)
    PROVE  IInv'
<1> USE NoneAssumption
<1> DEFINE e == IF r THEN NONE ELSE entry
<1>1. /\ pc = "idle" /\ remote' = r /\ quota' = q /\ own' = o
      /\ r => ~q /\ o # "fresh"
      /\ UNCHANGED <<process, entry, after, open, image, source, message, note, chain>>
    BY DEF ResolveCache
<1>2. Flags /\ Values /\ CacheSound /\ Sound(e) /\ (e # NONE => e \in Entry)
    BY DEF IInv, CacheSound, Values, Sound
<1>3. thumb = "none" /\ ~token /\ ~hit /\ ~missing /\ ~tried /\ ~message /\ source = NONE
      /\ src \in Sources
    BY <1>1 DEF IInv, Values, InProgress, Nothing
<1>4. src' = src /\ source' = NONE /\ ~message' /\ ~tried' /\ ~missing'
    BY <1>1, <1>3, Zenon DEF process, chain, IInv, Flags
<1>5. CASE o = "fresh" /\ status' = "Fresh" /\ pc' = "finish"
           /\ UNCHANGED <<sent, held, media, thumb, token, hit>>
  <2> USE <1>1, <1>3, <1>5 DEF process, chain
  <2>1. Flags'
      BY DEF IInv, Flags
  <2>2. Values'
      BY DEF IInv, Values
  <2>3. CacheSound'
      BY DEF IInv, CacheSound, Sound
  <2>4. AskedRight'
      BY DEF IInv, AskedRight
  <2>5. InProgress' /\ Results'
      BY DEF InProgress, Results, Picture, Unmodified, Explained
  <2> QED BY <2>1, <2>2, <2>3, <2>4, <2>5 DEF IInv
<1>6. CASE o # "fresh" /\ e # NONE /\ e.fresh /\ Restore(e) /\ status' = "Complete"
           /\ pc' = "finish" /\ UNCHANGED <<sent, held>>
  <2> USE <1>1, <1>3, <1>6 DEF process, chain
  <2>1. /\ thumb' \in {"none", "image"} /\ token' \in BOOLEAN /\ hit' /\ hit' \in BOOLEAN
        /\ thumb' = "image" => ~token'
        /\ media'.kind \in Kinds
      BY <1>2, RestoreSound
  <2>2. Flags'
      BY <2>1 DEF IInv, Flags
  <2>3. Values'
      BY <2>1 DEF IInv, Values
  <2>4. CacheSound'
      BY <1>2 DEF CacheSound, Sound
  <2>5. AskedRight'
      BY <1>4 DEF IInv, AskedRight
  <2>6. InProgress' /\ Results'
      BY <2>1, <1>4 DEF InProgress, Results, Picture, Unmodified, Explained
  <2> QED BY <2>2, <2>3, <2>4, <2>5, <2>6 DEF IInv
<1>7. CASE o # "fresh" /\ pc' = "connect" /\ media' = (IF r THEN Sniffed ELSE NONE)
           /\ UNCHANGED <<status, thumb, token, hit>>
           /\ \/ e # NONE /\ sent' = "stored" /\ held' = e
              \/ sent' = (IF o = "copy" THEN "client" ELSE "none") /\ held' = NONE
  <2> USE <1>1, <1>3, <1>7 DEF process, chain
  <2>1. media' # NONE => media'.kind \in Kinds
      BY SniffedKind
  <2>2. Flags'
      BY DEF IInv, Flags
  <2>3. Values'
      BY <2>1, <1>2 DEF IInv, Values
  <2>4. CacheSound'
      BY <1>2 DEF IInv, CacheSound, Sound
  <2>5. AskedRight'
      BY <1>4 DEF IInv, AskedRight
  <2>6. InProgress' /\ Results'
      BY <1>4 DEF IInv, InProgress, Nothing, Results
  <2> QED BY <2>2, <2>3, <2>4, <2>5, <2>6 DEF IInv
<1>8. \/ o = "fresh" /\ status' = "Fresh" /\ pc' = "finish"
         /\ UNCHANGED <<sent, held, media, thumb, token, hit>>
      \/ o # "fresh" /\ e # NONE /\ e.fresh /\ Restore(e) /\ status' = "Complete"
         /\ pc' = "finish" /\ UNCHANGED <<sent, held>>
      \/ /\ o # "fresh" /\ pc' = "connect" /\ media' = (IF r THEN Sniffed ELSE NONE)
         /\ UNCHANGED <<status, thumb, token, hit>>
         /\ \/ e # NONE /\ sent' = "stored" /\ held' = e
            \/ sent' = (IF o = "copy" THEN "client" ELSE "none") /\ held' = NONE
    BY Zenon DEF ResolveCache
<1> QED BY <1>5, <1>6, <1>7, <1>8

LEMMA Connect304Sound == IInv /\ Connect304 => IInv'
<1> SUFFICES ASSUME IInv, Connect304 PROVE IInv'
    OBVIOUS
<1> USE NoneAssumption
<1>1. /\ pc = "connect" /\ sent # "none" /\ status' = "Fresh" /\ pc' = "finish"
      /\ UNCHANGED <<process, entry, asked, open, image, source, message, note, chain>>
    BY DEF Connect304
<1>2. Nothing /\ ~tried /\ ~message /\ source = NONE /\ src \in Sources
    BY <1>1 DEF IInv, Values, InProgress
<1>3. Flags /\ Values /\ CacheSound /\ AskedRight
    BY DEF IInv
<1> USE DEF process, asked, chain
<1>4. CASE sent = "stored" /\ Restore(held)
           /\ after' = after \cup {Write(held, [held EXCEPT !.fresh = TRUE])}
  <2>1. held # NONE /\ held \in Entry /\ Sound(held) /\ ~remote
      BY <1>3, <1>4 DEF AskedRight, Values, CacheSound
  <2>2. /\ thumb' \in {"none", "image"} /\ token' \in BOOLEAN /\ hit' /\ hit' \in BOOLEAN
        /\ thumb' = "image" => ~token'
        /\ media'.kind \in Kinds
      BY <1>2, <1>4, <2>1, RestoreSound
  <2>3. /\ [held EXCEPT !.fresh = TRUE] \in Entry
        /\ Sound([held EXCEPT !.fresh = TRUE])
      BY <2>1, RefreshedSound
  <2>4. \A w \in after' : w \in after \/ (w.old = held /\ w.new = [held EXCEPT !.fresh = TRUE])
    <3>1. \A old, new : Write(old, new).old = old /\ Write(old, new).new = new
        BY DEF Write
    <3> QED BY <1>4, <3>1
  <2>5. Flags'
      BY <1>1, <1>3, <2>2 DEF Flags
  <2>6. Values'
      BY <1>1, <1>3, <2>1, <2>2, <2>3, <2>4 DEF Values
  <2>7. CacheSound'
    <3>1. Sound(entry') /\ Sound(held')
        BY <1>1, <1>3 DEF CacheSound
    <3> QED BY <1>3, <2>1, <2>3, <2>4, <3>1 DEF CacheSound
  <2>8. AskedRight'
      BY <1>1, <1>2, <1>3, <2>1 DEF AskedRight
  <2>9. InProgress' /\ Results'
      BY <1>1, <1>2, <2>2 DEF InProgress, Results, Picture, Unmodified, Explained
  <2> QED BY <2>5, <2>6, <2>7, <2>8, <2>9 DEF IInv
<1>5. CASE sent # "stored" /\ UNCHANGED <<thumb, token, media, hit, after>>
  <2>1. own = "copy"
      BY <1>1, <1>3, <1>5 DEF AskedRight, Values
  <2>2. Flags'
      BY <1>1, <1>3, <1>5 DEF Flags
  <2>3. Values'
      BY <1>1, <1>3, <1>5 DEF Values
  <2>4. CacheSound'
      BY <1>1, <1>3, <1>5 DEF CacheSound, Sound
  <2>5. AskedRight'
      BY <1>1, <1>2, <1>3, <1>5 DEF AskedRight, Nothing
  <2>6. InProgress' /\ Results'
      BY <1>1, <1>2, <1>5, <2>1 DEF InProgress, Nothing, Results, Picture, Unmodified, Explained
  <2> QED BY <2>2, <2>3, <2>4, <2>5, <2>6 DEF IInv
<1>6. \/ sent = "stored" /\ Restore(held)
         /\ after' = after \cup {Write(held, [held EXCEPT !.fresh = TRUE])}
      \/ sent # "stored" /\ UNCHANGED <<thumb, token, media, hit, after>>
    BY DEF Connect304
<1> QED BY <1>4, <1>5, <1>6

LEMMA InspectReadsSound == IInv /\ InspectReads => IInv'
<1> SUFFICES ASSUME IInv, InspectReads PROVE IInv'
    OBVIOUS
<1> USE NoneAssumption DEF InspectReads, process, asked, out, chain
<1>1. Sniffed.kind \in Kinds
    BY SniffedKind DEF IInv, Values
<1>2. Flags'
    BY DEF IInv, Flags
<1>3. Values'
    BY <1>1 DEF IInv, Values
<1>4. CacheSound'
    BY DEF IInv, CacheSound, Sound
<1>5. AskedRight'
    BY DEF IInv, AskedRight, InProgress, Nothing
<1>6. InProgress' /\ Results'
    BY DEF IInv, InProgress, Nothing, Results
<1> QED BY <1>2, <1>3, <1>4, <1>5, <1>6 DEF IInv

\* What store adds is a sound entry, if the picture that is stored has no token
\* and only a placeholder stands for a missing renderer.
LEMMA StoreSound ==
    ASSUME NEW th \in {"none", "image"}, NEW tok \in BOOLEAN, NEW srce, NEW miss \in BOOLEAN,
           th = "image" => ~tok, miss => srce = "Placeholder",
           store(th, tok, srce, miss)
    PROVE  \A w \in after' : w \in after \/ (w.old = NONE /\ w.new \in Entry /\ Sound(w.new))
<1>1. CASE srce = "Placeholder"
    BY <1>1 DEF store
<1>2. CASE srce # "Placeholder"
  <2>1. PICK val \in BOOLEAN :
          after' = after \cup {Write(NONE, [thumb |-> th, token |-> tok, fresh |-> TRUE,
                                            val |-> val, missing |-> miss])}
      BY <1>2 DEF store
  <2>2. ~miss
      BY <1>2
  <2> DEFINE new == [thumb |-> th, token |-> tok, fresh |-> TRUE, val |-> val, missing |-> miss]
  <2>3. new \in Entry
      BY DEF Entry
  <2>4. Sound(new)
      BY <2>2 DEF Sound
  <2>5. Write(NONE, new).old = NONE /\ Write(NONE, new).new = new
      BY DEF Write
  <2> QED BY <2>1, <2>3, <2>4, <2>5
<1> QED BY <1>1, <1>2

\* The writes that wait are sound after one more sound one.
LEMMA MoreSound ==
    ASSUME Values, CacheSound, UNCHANGED <<entry, held>>,
           \A w \in after' : w \in after \/ (w.old = NONE /\ w.new \in Entry /\ Sound(w.new))
    PROVE  /\ CacheSound'
           /\ \A w \in after' : w.old \in Entry \cup {NONE} /\ w.new \in Entry
<1>1. \A w \in after' : w.old \in Entry \cup {NONE} /\ w.new \in Entry
    BY DEF Values
<1>2. \A w \in after' : Sound(w.old) /\ Sound(w.new)
  <2>1. Sound(NONE)
      BY DEF Sound
  <2> QED BY <2>1 DEF CacheSound
<1>3. Sound(entry') /\ Sound(held')
    BY DEF CacheSound
<1> QED BY <1>1, <1>2, <1>3 DEF CacheSound

LEMMA DeliverSound == IInv /\ Deliver => IInv'
<1> SUFFICES ASSUME IInv, Deliver PROVE IInv'
    OBVIOUS
<1> USE NoneAssumption
<1>1. /\ pc = "deliver" /\ pc' = "finish" /\ ~image' /\ image' \in BOOLEAN
      /\ UNCHANGED <<process, entry, asked, look, token, source, message, note, hit, chain>>
      /\ \/ /\ thumb' = "image" /\ status' = "Complete"
            /\ UNCHANGED after \/ store("image", token, source, FALSE)
         \/ UNCHANGED <<thumb, status, after>>
    BY DEF Deliver
<1>2. Nothing /\ source = NONE /\ ~message /\ status # "Fresh"
    BY <1>1 DEF IInv, InProgress
<1>3. Flags /\ Values /\ CacheSound /\ AskedRight
    BY DEF IInv
<1> USE DEF process, asked, look, chain
<1>4. \A w \in after' : w \in after \/ (w.old = NONE /\ w.new \in Entry /\ Sound(w.new))
  <2>1. CASE store("image", token, source, FALSE)
      BY <1>2, <1>3, <2>1, StoreSound DEF Flags, Nothing
  <2> QED BY <1>1, <2>1
<1>5. Flags'
    BY <1>1, <1>3 DEF Flags
<1>6. CacheSound' /\ \A w \in after' : w.old \in Entry \cup {NONE} /\ w.new \in Entry
    BY <1>1, <1>3, <1>4, MoreSound
<1>7. Values'
  <2>1. thumb' \in {"none", "image", "icon"}
        /\ status' \in {"Processing", "Complete", "Fresh", "Failed", "Overloaded"}
      BY <1>1, <1>3 DEF Values
  <2>2. UNCHANGED <<tier, targets, src, entry, held, own, sent, media, source, next>>
      BY <1>1
  <2>3. pc' = "finish"
      BY <1>1
  <2> QED BY <1>3, <1>6, <2>1, <2>2, <2>3 DEF Values
<1>8. AskedRight'
    BY <1>1, <1>2, <1>3 DEF AskedRight, Nothing
<1>9. InProgress' /\ Results'
    BY <1>1, <1>2 DEF InProgress, Nothing, Results, Picture, Unmodified, Explained
<1> QED BY <1>5, <1>6, <1>7, <1>8, <1>9 DEF IInv

LEMMA RenderSound == IInv /\ Render => IInv'
<1> SUFFICES ASSUME IInv, Render PROVE IInv'
    OBVIOUS
<1> USE NoneAssumption
<1>1. PICK o \in IF tier = 2 THEN Tier2(media, src.coding)
                 ELSE Tier3(media, src.coding, remote, tools) :
        /\ pc = "render"
        /\ open' = ~o.taken /\ image' = o.image
        /\ status' = IF o.failed THEN "Failed" ELSE status
        /\ message' = o.message /\ note' = o.note
        /\ source' = IF o.claim THEN source ELSE "Fallback"
        /\ pc' = IF ~o.claim THEN "handoff" ELSE IF o.image THEN "deliver" ELSE "finish"
        /\ UNCHANGED <<process, entry, after, asked, media, thumb, token, hit, chain>>
    BY DEF Render
<1>2. Proper(o)
    BY Tier2Proper, Tier3Proper
<1>3. /\ o.claim \in BOOLEAN /\ o.taken \in BOOLEAN /\ o.image \in BOOLEAN
      /\ o.failed \in BOOLEAN /\ o.message \in BOOLEAN /\ o.note \in BOOLEAN
      /\ o.image => o.claim /\ ~o.message
      /\ (o.claim /\ ~o.image) => o.failed
    BY <1>2 DEF Proper, Outcome
<1>4. Nothing /\ source = NONE /\ status # "Fresh"
    BY <1>1 DEF IInv, InProgress
<1>5. Flags /\ Values /\ CacheSound /\ AskedRight
    BY DEF IInv
<1> USE DEF process, asked, chain
<1>6. Flags'
    BY <1>1, <1>3, <1>5 DEF Flags
<1>7. Values'
    BY <1>1, <1>3, <1>5 DEF Values
<1>8. CacheSound'
    BY <1>1, <1>5 DEF CacheSound, Sound
<1>9. AskedRight'
    BY <1>1, <1>3, <1>4, <1>5 DEF AskedRight
<1>10. InProgress' /\ Results'
    BY <1>1, <1>3, <1>4 DEF InProgress, Nothing, Results, Picture, Unmodified, Explained
<1> QED BY <1>6, <1>7, <1>8, <1>9, <1>10 DEF IInv

\* What a higher tier may answer.
LEMMA AnswersProper ==
    ASSUME NEW a \in HandoffAnswers
    PROVE  /\ a.thumb \in {"none", "image"} /\ a.token \in BOOLEAN /\ a.message \in BOOLEAN
           /\ a.source \in {"Placeholder", "Fallback", NONE}
           /\ a.thumb = "image" => ~a.token /\ ~a.message /\ a.source = NONE
           /\ a.source = "Placeholder" => a.message
<1>1. CASE a = Reply(TRUE, "image", FALSE, NONE, FALSE)
    BY <1>1, NoneAssumption DEF Reply
<1>2. CASE a = Reply(TRUE, "none", FALSE, NONE, FALSE)
    BY <1>2, NoneAssumption DEF Reply
<1>3. CASE a = Reply(TRUE, "none", TRUE, "Placeholder", TRUE)
    BY <1>3, NoneAssumption DEF Reply
<1>4. CASE a = Reply(FALSE, "none", TRUE, NONE, FALSE)
    BY <1>4, NoneAssumption DEF Reply
<1>5. CASE a = Reply(TRUE, "none", TRUE, "Fallback", TRUE)
    BY <1>5, NoneAssumption DEF Reply
<1>6. CASE a = Reply(TRUE, "none", TRUE, "Fallback", FALSE)
    BY <1>6, NoneAssumption DEF Reply
<1> QED BY <1>1, <1>2, <1>3, <1>4, <1>5, <1>6 DEF HandoffAnswers

LEMMA HandoffSound == IInv /\ Handoff => IInv'
<1> SUFFICES ASSUME IInv, Handoff PROVE IInv'
    OBVIOUS
<1> USE NoneAssumption
<1>1. /\ pc = "handoff" /\ Ahead # {} /\ ~open' /\ open' \in BOOLEAN /\ tried' /\ tried' \in BOOLEAN
      /\ next' = Min(Ahead) + 1
      /\ UNCHANGED <<process, entry, asked, media, image, note, hit>>
    BY DEF Handoff
<1>2. PICK a \in HandoffAnswers :
        \/ /\ status' = "Complete" /\ thumb' = a.thumb /\ token' = a.token
           /\ source' = a.source /\ message' = a.message
           /\ missing' = (a.source = "Placeholder")
           /\ pc' = "finish"
           /\ IF remote THEN UNCHANGED after
              ELSE store(a.thumb, a.token, a.source, a.source = "Placeholder")
        \/ message' = TRUE /\ UNCHANGED <<status, thumb, token, source, missing, pc, after>>
    BY Zenon DEF Handoff, Applied
<1>3. /\ a.thumb \in {"none", "image"} /\ a.token \in BOOLEAN /\ a.message \in BOOLEAN
      /\ a.source \in {"Placeholder", "Fallback", NONE}
      /\ a.thumb = "image" => ~a.token /\ ~a.message /\ a.source = NONE
      /\ a.source = "Placeholder" => a.message
    BY AnswersProper
<1>4. Nothing /\ source # "Placeholder" /\ status # "Fresh"
    BY <1>1 DEF IInv, InProgress
<1>5. Flags /\ Values /\ CacheSound /\ AskedRight
    BY DEF IInv
<1>6. next' \in 2..4
    BY <1>1, <1>5, NextTier DEF Values
<1> USE DEF process, asked
<1>7. CASE /\ status' = "Complete" /\ thumb' = a.thumb /\ token' = a.token
           /\ source' = a.source /\ message' = a.message
           /\ missing' = (a.source = "Placeholder")
           /\ pc' = "finish"
           /\ IF remote THEN UNCHANGED after
              ELSE store(a.thumb, a.token, a.source, a.source = "Placeholder")
  <2>1. \A w \in after' : w \in after \/ (w.old = NONE /\ w.new \in Entry /\ Sound(w.new))
    <3>1. CASE store(a.thumb, a.token, a.source, a.source = "Placeholder")
        BY <1>3, <3>1, StoreSound
    <3> QED BY <1>7, <3>1
  <2>2. Flags'
      BY <1>1, <1>3, <1>5, <1>7 DEF Flags
  <2>3. CacheSound' /\ \A w \in after' : w.old \in Entry \cup {NONE} /\ w.new \in Entry
      BY <1>1, <1>5, <2>1, MoreSound
  <2>4. Values'
      BY <1>1, <1>3, <1>5, <1>6, <1>7, <2>3 DEF Values
  <2>5. AskedRight'
      BY <1>1, <1>4, <1>5, <1>7 DEF AskedRight
  <2>6. InProgress' /\ Results'
      BY <1>3, <1>7 DEF InProgress, Results, Picture, Unmodified, Explained
  <2> QED BY <2>2, <2>3, <2>4, <2>5, <2>6 DEF IInv
<1>8. CASE message' = TRUE /\ UNCHANGED <<status, thumb, token, source, missing, pc, after>>
  <2>1. Flags'
      BY <1>1, <1>5, <1>8 DEF Flags
  <2>2. Values'
      BY <1>1, <1>5, <1>6, <1>8 DEF Values
  <2>3. CacheSound'
      BY <1>1, <1>5, <1>8 DEF CacheSound, Sound
  <2>4. AskedRight'
      BY <1>1, <1>4, <1>5, <1>8 DEF AskedRight
  <2>5. InProgress' /\ Results'
      BY <1>1, <1>4, <1>8 DEF InProgress, Nothing, Results
  <2> QED BY <2>1, <2>2, <2>3, <2>4, <2>5 DEF IInv
<1> QED BY <1>2, <1>7, <1>8

LEMMA WriteBackSound == IInv /\ WriteBack => IInv'
<1> SUFFICES ASSUME IInv, WriteBack PROVE IInv'
    OBVIOUS
<1>1. PICK w \in after :
        /\ entry' = IF w.old = NONE \/ w.old = entry THEN w.new ELSE entry
        /\ after' = after \ {w}
        /\ UNCHANGED <<process, pc, asked, look, out, chain>>
    BY DEF WriteBack
<1> USE DEF process, asked, look, out, chain
<1>2. w.new \in Entry /\ Sound(w.new)
    BY DEF IInv, Values, CacheSound
<1>3. entry' \in Entry \cup {NONE}
    BY <1>1, <1>2 DEF IInv, Values
<1>4. Flags'
    BY <1>1 DEF IInv, Flags
<1>5. Values'
    BY <1>1, <1>3 DEF IInv, Values
<1>6. CacheSound'
  <2>1. Sound(entry)
      BY DEF IInv, CacheSound
  <2>2. Sound(entry')
      BY <1>1, <1>2, <2>1
  <2>3. \A v \in after' : Sound(v.old) /\ Sound(v.new)
      BY <1>1 DEF IInv, CacheSound
  <2>4. Sound(held')
      BY <1>1 DEF IInv, CacheSound
  <2> QED BY <2>2, <2>3, <2>4 DEF CacheSound
<1>7. AskedRight' /\ InProgress' /\ Results'
    BY <1>1 DEF IInv, AskedRight, InProgress, Nothing, Results, Picture, Unmodified, Explained
<1> QED BY <1>4, <1>5, <1>6, <1>7 DEF IInv

LEMMA AgeSound == IInv /\ Age => IInv'
<1> SUFFICES ASSUME IInv, Age PROVE IInv'
    OBVIOUS
<1>1. /\ entry # NONE /\ entry' \in {NONE, [entry EXCEPT !.fresh = FALSE]}
      /\ UNCHANGED <<process, after, pc, asked, look, out, chain>>
    BY DEF Age
<1> USE DEF process, asked, look, out, chain
<1>2. entry \in Entry /\ Sound(entry)
    BY <1>1 DEF IInv, Values, CacheSound
<1>3. entry' \in Entry \cup {NONE} /\ Sound(entry')
  <2>1. Sound(NONE)
      BY DEF Sound
  <2> QED BY <1>1, <1>2, <2>1, RefreshedSound
<1>4. Flags'
    BY <1>1 DEF IInv, Flags
<1>5. Values'
    BY <1>1, <1>3 DEF IInv, Values
<1>6. CacheSound'
    BY <1>1, <1>3 DEF IInv, CacheSound, Sound
<1>7. AskedRight' /\ InProgress' /\ Results'
    BY <1>1 DEF IInv, AskedRight, InProgress, Nothing, Results, Picture, Unmodified, Explained
<1> QED BY <1>4, <1>5, <1>6, <1>7 DEF IInv

LEMMA NextCookSound == IInv /\ NextCook => IInv'
<1> SUFFICES ASSUME IInv, NextCook PROVE IInv'
    OBVIOUS
<1> USE NoneAssumption DEF NextCook, process
<1>1. Flags'
    BY DEF IInv, Flags
<1>2. Values'
    BY DEF IInv, Values
<1>3. CacheSound'
    BY DEF IInv, CacheSound, Sound
<1>4. AskedRight'
    BY DEF AskedRight
<1>5. InProgress' /\ Results'
    BY DEF InProgress, Nothing, Results
<1> QED BY <1>1, <1>2, <1>3, <1>4, <1>5 DEF IInv

LEMMA StutterSound == IInv /\ UNCHANGED vars => IInv'
<1> SUFFICES ASSUME IInv, UNCHANGED vars PROVE IInv'
    OBVIOUS
<1> USE DEF vars, process, asked, look, out, chain
<1>1. Flags' /\ Values'
    BY DEF IInv, Flags, Values
<1>2. CacheSound'
    BY DEF IInv, CacheSound, Sound
<1>3. AskedRight' /\ InProgress' /\ Results'
    BY DEF IInv, AskedRight, InProgress, Nothing, Results, Picture, Unmodified, Explained
<1> QED BY <1>1, <1>2, <1>3 DEF IInv

LEMMA StepSound == IInv /\ [Next]_vars => IInv'
<1> SUFFICES ASSUME IInv, [Next]_vars PROVE IInv'
    OBVIOUS
<1>1. CASE \E r, q \in BOOLEAN, o \in {"none", "copy", "fresh"} : ResolveCache(r, q, o)
    BY <1>1, ResolveCacheSound
<1>2. CASE ConnectOverloaded \/ ConnectFailed \/ Connect304 \/ ConnectOk
    BY <1>2, ConnectOverloadedSound, ConnectFailedSound, Connect304Sound, ConnectOkSound
<1>3. CASE InspectReads \/ InspectFails \/ ShortcutFinds \/ ShortcutMisses
    BY <1>3, InspectReadsSound, InspectFailsSound, ShortcutFindsSound, ShortcutMissesSound
<1>4. CASE Deliver \/ Render \/ Handoff \/ HandoffsFail \/ NoHandoff
    BY <1>4, DeliverSound, RenderSound, HandoffSound, HandoffsFailSound, NoHandoffSound
<1>5. CASE finish \/ WriteBack \/ Age \/ NextCook
    BY <1>5, finishSound, WriteBackSound, AgeSound, NextCookSound
<1>6. CASE UNCHANGED vars
    BY <1>6, StutterSound
<1> QED BY <1>1, <1>2, <1>3, <1>4, <1>5, <1>6, Zenon DEF Next, Step

-----------------------------------------------------------------------------
(* The theorems.                                                           *)

LEMMA Always == Spec => []IInv
<1>1. Init => IInv
    BY InitSound
<1>2. IInv /\ [Next]_vars => IInv'
    BY StepSound
<1> QED BY <1>1, <1>2, PTL DEF Spec

\* Every variable keeps its type, whatever a source looks like.
THEOREM CookTyped == Spec => []TypeOK
BY Always, IInvTyped, PTL

\* The token of a result tells a picture of the source from an icon, whichever
\* path the result came by.
THEOREM TokenTellsTheTruth == Spec => []ThumbnailTruth
<1>1. IInv => ThumbnailTruth
    BY DEF IInv, Results, Picture, ThumbnailTruth, done
<1> QED BY <1>1, Always, PTL

\* No placeholder of a renderer nobody has is ever stored.
THEOREM MissingIsNotStored == Spec => []NeverStoresMissing
<1>1. IInv => NeverStoresMissing
    BY DEF IInv, CacheSound, Sound, NeverStoresMissing
<1> QED BY <1>1, Always, PTL

\* The message of an attempt that failed does not outlive the rescue.
THEOREM RescueClearsMessage == Spec => []NoStaleMessage
<1>1. IInv => NoStaleMessage
    BY DEF IInv, Results, Picture, NoStaleMessage, done
<1> QED BY <1>1, Always, PTL

\* An empty answer that is not a stored one goes to a client with a copy.
THEOREM EmptyNeedsCopy == Spec => []EmptyOnlyForCopies
<1>1. IInv => EmptyOnlyForCopies
    BY DEF IInv, Results, Unmodified, EmptyOnlyForCopies, done
<1> QED BY <1>1, Always, PTL

\* What a handed off cook ends with is an answer the lower tier expects.
THEOREM HandoffEndsFit == Spec => []AnswersAssumed
<1>1. IInv => AnswersAssumed
  <2> SUFFICES ASSUME IInv, pc = "done", remote, status \notin {"Failed", "Overloaded"}
               PROVE  AnswersAssumed
      BY DEF AnswersAssumed, done
  <2> USE NoneAssumption
  <2>1. Flags /\ Values /\ Picture /\ Unmodified /\ Explained /\ ~hit
        /\ (thumb = "icon" => token) /\ (thumb = "none" => status = "Fresh")
      BY DEF IInv, Results, AskedRight
  <2>2. CASE thumb = "image"
    <3>1. ~token /\ token = FALSE /\ ~message /\ message = FALSE /\ source = NONE
        BY <2>1, <2>2, Zenon DEF Picture, Flags
    <3>2. ResultSource \notin {"Placeholder", "Fallback"}
        BY <2>1, <3>1 DEF ResultSource
    <3>3. Reply(TRUE, "image", FALSE, NONE, FALSE) \in HandoffAnswers
        BY DEF HandoffAnswers
    <3> QED BY <2>2, <3>1, <3>2, <3>3 DEF AnswersAssumed
  <2>3. CASE thumb = "none"
    <3>1. ~token /\ token = FALSE /\ ~message /\ message = FALSE /\ source = NONE
        BY <2>1, <2>3, Zenon DEF Unmodified, Flags
    <3>2. ResultSource \notin {"Placeholder", "Fallback"}
        BY <2>1, <3>1 DEF ResultSource
    <3>3. Reply(TRUE, "none", FALSE, NONE, FALSE) \in HandoffAnswers
        BY DEF HandoffAnswers
    <3> QED BY <2>3, <3>1, <3>2, <3>3 DEF AnswersAssumed
  <2>4. CASE thumb = "icon"
    <3>1. token /\ token = TRUE /\ status # "Fresh"
        BY <2>1, <2>4, Zenon DEF Unmodified, Flags
    <3>2. ResultSource \in {"Placeholder", "Fallback"}
        BY <2>1, <3>1 DEF ResultSource, Values
    <3>3. ResultSource = "Placeholder" => message = TRUE
        BY <2>1, <3>1, Zenon DEF ResultSource, Explained, Flags
    <3>4. Reply(TRUE, "none", TRUE, "Placeholder", TRUE) \in HandoffAnswers
        BY DEF HandoffAnswers
    <3>5. Reply(TRUE, "none", TRUE, "Fallback", message) \in HandoffAnswers
        BY <2>1 DEF HandoffAnswers, Flags
    <3> QED BY <3>1, <3>2, <3>3, <3>4, <3>5 DEF AnswersAssumed
  <2> QED BY <2>1, <2>2, <2>3, <2>4 DEF Values
<1> QED BY <1>1, Always, PTL
=============================================================================
