---------------------------- MODULE ShortcutRead ----------------------------
(***************************************************************************)
(* The calls one cook makes on its buffer: inspect sniffs the first page,  *)
(* the shortcut of the media kind reads what it needs (shortcut.rs), and   *)
(* when no thumbnail comes of it an in-process renderer takes the buffer   *)
(* as a reader and reads it to the end, many of them without a seek        *)
(* (collect_and_decode_image_crate, the document and model renderers).     *)
(***************************************************************************)
EXTENDS HttpBuffer, Sequences

CONSTANTS
    Kinds,      \* the media kinds, see Tries
    Files,      \* the contents a file of each kind may have
    Header,     \* HEADER_SCAN
    RawHeader,  \* RAW_HEADER_SCAN
    IfdFetch,   \* IFD1_FETCH
    DimsReads,  \* the reads <<offset, length>> for the source's dimensions
    ExifTail,   \* the tail of a WebP file that is searched
    AudioFetch, \* audio_cover_max_fetch
    Budget,     \* progressive_partial_read_bytes
    ZipWindow,  \* zip_tail_size
    MetaBudget, \* ODT_META_HEAD_BUDGET
    MaxPreview, \* the longest preview the raw renderer takes
    Dir,        \* the size of a directory
    MaxSubs,    \* the sub-directories of one that are looked at
    Buf         \* the buffer size of the progressive loop and the renderer

\* The shortcuts of a kind, in their order.
Tries == [jpeg |-> <<"exif", "whole", "progressive">>,
          tiff |-> <<"exif", "whole">>,
          png  |-> <<"exif", "whole">>,
          webp |-> <<"webp">>,
          raw  |-> <<"raw">>,
          zip  |-> <<"zip">>,
          pdf  |-> <<"whole">>,
          mp3  |-> <<"audio">>]

ASSUME ShortcutAssumption ==
    /\ Kinds \subseteq DOMAIN Tries
    /\ {Header, RawHeader, IfdFetch, ExifTail, AudioFetch, Budget, ZipWindow, Dir, MaxSubs, Buf}
           \subseteq Nat \ {0}
    /\ {MetaBudget, MaxPreview} \subseteq Nat
    /\ Dir <= IfdFetch

INSTANCE Containers

ASSUME FilesAssumption ==
    /\ NONE \notin Readings
    /\ \A k \in Kinds : \A f \in Files[k] :
          CASE k \in {"tiff", "raw"}         -> IsBlock(f)
            [] k \in {"jpeg", "png", "webp"} -> IsSegmented(f)
            [] k = "mp3"                     -> f = NONE \/ IsTag(f)
            [] k = "zip"                     -> IsArchive(f)
            [] OTHER                         -> TRUE

VARIABLES
    kind,
    tries, \* the shortcuts that are left, the running one first
    step,  \* what comes next when the running call is over
    file,  \* the contents of the file, as far as a shortcut looks at them
    look,  \* what the running shortcut has found, see NoLook
    got    \* bytes the current read loop has got, whether they are the source's
           \* from byte 0 on, and whether the cook only used read_at before and
           \* had every read answered

cookvars == <<kind, tries, step, file, look, got>>
allvars == <<vars, cookvars>>

-----------------------------------------------------------------------------
Fresh(clean) == [n |-> 0, exact |-> TRUE, clean |-> clean]

(* The bytes that hold the thumbnail, the directories still to be read and *)
(* those that were read outside the header.                                *)
NoLook == [span |-> NONE, pending |-> <<>>, read |-> {}]

CookInit ==
    /\ Init
    /\ kind \in Kinds
    /\ tries = Tries[kind]
    /\ step = "sniff"
    /\ file \in Files[kind]
    /\ look = NoLook
    /\ got = Fresh(TRUE)

To(s) == step' = s /\ UNCHANGED <<kind, tries, file, look, got>>

Found(s, span) ==
    /\ step' = s
    /\ look' = [look EXCEPT !.span = span]
    /\ UNCHANGED <<kind, tries, file, got>>

Try(s) == step = "shortcut" /\ Head(tries) = s

\* Small images and PDF documents are read as a whole.
TryWhole ==
    /\ Try("whole")
    /\ known # NONE /\ known > 0
    /\ ReadAt(0, known)
    /\ To("decode")

-----------------------------------------------------------------------------
(* Exif and raw previews: the header is scanned, the bytes its directories *)
(* name are read, and for Exif, if need be, the dimensions of the source.  *)
Scanned(n) == MinOf(n, len)

TryHeader ==
    /\ \/ Try("exif") /\ ReadAt(0, Header)
       \/ Try("raw") /\ ReadAt(0, RawHeader)
    /\ To("header")

TailFrom(n) == SatSub(known, n)

TryWebp ==
    /\ Try("webp")
    /\ known # NONE /\ known > 0
    /\ ReadAt(TailFrom(ExifTail), ExifTail)
    /\ To("header")

HeaderSpan ==
    CASE kind = "jpeg" -> find_jpeg_exif_shortcut(file, Scanned(Header))
      [] kind = "png"  -> find_png_exif_shortcut(file, Scanned(Header))
      [] kind = "webp" -> find_webp_exif(file, TailFrom(ExifTail), len)
      [] kind = "tiff" -> find_tiff_embedded_jpeg_span(file, Scanned(Header))
      [] kind = "raw"  -> find_tiff_embedded_jpeg_span(file, Scanned(RawHeader))

ReadPreview ==
    /\ step = "header"
    /\ HeaderSpan # NONE
    /\ ReadAt(HeaderSpan.off, HeaderSpan.n)
    /\ Found("preview", HeaderSpan)

(* Nothing in the header of a raw file: the sub-directories of the first   *)
(* directory that lie beyond it are read one by one.  A read that fails is *)
(* passed over.                                                            *)
Ifd0 == parse_tiff_ifd(file, file.first, 0, Scanned(RawHeader))

SubIfds ==
    /\ step = "header" /\ kind = "raw"
    /\ Idle
    /\ HeaderSpan = NONE
    /\ step' = "subifds"
    /\ look' = [look EXCEPT !.pending = IF Ifd0 = NONE THEN <<>>
                    ELSE Kept(Ifd0.subs, Nat \ 0..(Scanned(RawHeader) - 1))]
    /\ UNCHANGED <<vars, kind, tries, file, got>>

ReadSubIfd ==
    /\ step = "subifds"
    /\ look.pending # <<>>
    /\ ReadAt(Head(look.pending), IfdFetch)
    /\ To("subifd")

\* The preview of a directory read by itself, as its own buffer shows it.
Preview(at) ==
    LET ifd == parse_tiff_ifd(file, at, at, Scanned(at + IfdFetch)) IN
    IF ifd = NONE THEN NONE ELSE ifd.preview

ParseSubIfd ==
    /\ step = "subifd"
    /\ Idle
    /\ LET at == Head(look.pending)
       IN  look' = [span |-> IF Better(Preview(at), look.span) THEN Preview(at)
                             ELSE look.span,
                    pending |-> Tail(look.pending),
                    read |-> look.read \cup {at}]
    /\ step' = "subifds"
    /\ UNCHANGED <<vars, kind, tries, file, got>>

ReadSubPreview ==
    /\ step = "subifds"
    /\ look.pending = <<>> /\ look.span # NONE
    /\ ReadAt(look.span.off, look.span.n)
    /\ To("preview")

\* No sub-directory has a preview: the next one of the chain is the last try.
Ifd1Beyond == file.classic /\ Ifd0 # NONE /\ Ifd0.next > Scanned(RawHeader)

ReadIfd1 ==
    /\ step = "subifds"
    /\ look.pending = <<>> /\ look.span = NONE
    /\ Ifd1Beyond
    /\ ReadAt(Ifd0.next, IfdFetch)
    /\ To("ifd1")

Ifd1Span == Preview(Ifd0.next)

ReadIfd1Preview ==
    /\ step = "ifd1"
    /\ Ifd1Span # NONE
    /\ ReadAt(Ifd1Span.off, Ifd1Span.n)
    /\ Found("preview", Ifd1Span)

(* The dimensions of the source are in its Exif data, or are looked for in *)
(* the frame header of the JPEG or the header of the WebP file.            *)
DimsKnown ==
    /\ step = "preview" /\ kind # "tiff"
    /\ Idle
    /\ UNCHANGED vars
    /\ To("decode")

ReadDims(o, n) ==
    /\ step = "preview" /\ kind \in {"jpeg", "webp"}
    /\ ReadAt(o, n)
    /\ To("decode")

\* A TIFF or PNG file without them is searched for a JPEG frame in vain.
ReadNoDims(o, n) ==
    /\ step = "preview" /\ kind \in {"tiff", "png"}
    /\ ReadAt(o, n)
    /\ To("none")

-----------------------------------------------------------------------------
(* ZIP: the tail is fetched, meta.xml is read when it is near the start,   *)
(* and the thumbnail is taken from the tail or read where it lies.         *)
TryZip ==
    /\ Try("zip")
    /\ known # NONE /\ known > 0
    /\ IF TailFrom(ZipWindow) = 0 THEN ReadAt(0, known)
       ELSE FetchRange(TailFrom(ZipWindow), ZipWindow)
    /\ To("directory")

Directory == zip_scan_dir_entry(file, TailFrom(ZipWindow))

HeadEnd == Directory.meta.at + Directory.meta.n + 1

MetaNear == Directory.meta # NONE /\ HeadEnd <= MetaBudget

ReadMeta ==
    /\ step = "directory"
    /\ Directory # NONE
    /\ MetaNear
    /\ ReadAt(0, HeadEnd)
    /\ To("entry")

NoMeta ==
    /\ step = "directory"
    /\ Idle
    /\ Directory # NONE
    /\ ~MetaNear
    /\ UNCHANGED vars
    /\ To("entry")

Thumb == Directory.thumb

InTail == Thumb # NONE /\ Thumb.at >= TailFrom(ZipWindow)

BeforeTail == Thumb # NONE /\ Thumb.at < TailFrom(ZipWindow)

\* The data in the tail, or in a read of its length and a unit for the header.
Extracted ==
    IF Thumb = NONE THEN NONE
    ELSE IF InTail
    THEN zip_extract_from_buffer(Thumb, TailFrom(ZipWindow), len - TailFrom(ZipWindow))
    ELSE zip_extract_from_buffer(Thumb, Thumb.at, MinOf(Thumb.n + 1, SatSub(len, Thumb.at)))

ZipInline ==
    /\ step = "entry"
    /\ Idle
    /\ InTail /\ Extracted # NONE
    /\ UNCHANGED vars
    /\ Found("decode", Extracted)

ReadEntry ==
    /\ step = "entry"
    /\ BeforeTail
    /\ ReadAt(Thumb.at, Thumb.n + 1)
    /\ To("extract")

Extract ==
    /\ step = "extract"
    /\ Idle
    /\ Extracted # NONE
    /\ UNCHANGED vars
    /\ Found("decode", Extracted)

-----------------------------------------------------------------------------
\* Cover art: the start of the file is read and searched for an APIC frame.
AudioRead == IF known = NONE THEN AudioFetch ELSE MinOf(known, AudioFetch)

TryAudio ==
    /\ Try("audio")
    /\ AudioRead > 0
    /\ ReadAt(0, AudioRead)
    /\ To("apic")

ApicSpan ==
    IF file = NONE THEN NONE
    ELSE find_id3_apic(file.frames, file.first, MinOf(AudioRead, len))

\* The connection is closed before the cover is decoded.
Cover ==
    /\ step = "apic"
    /\ ApicSpan # NONE
    /\ close
    /\ Found("cover", ApicSpan)

DecodeCover ==
    /\ step = "cover"
    /\ UNCHANGED vars
    /\ \E s \in {"served", "bare"} : To(s)

-----------------------------------------------------------------------------
(* A progressive JPEG: its size is in the header, and the read of a prefix *)
(* begins anew.                                                            *)
TrySize ==
    /\ Try("progressive")
    /\ ReadAt(0, Header)
    /\ To("size")

\* Seeded fault: the buffer is not rewound.
TryProgressiveInPlace ==
    /\ step = "size"
    /\ Idle
    /\ eof' = Budget
    /\ streaming' = TRUE
    /\ step' = "progressive"
    /\ got' = Fresh(FALSE)
    /\ UNCHANGED <<source, data, call, kind, tries, file, look>>

\* rewind, set_eof and enter_streaming_mode.
TryProgressive ==
    /\ step = "size"
    /\ Idle
    /\ cursor' = 0
    /\ eof' = Budget
    /\ streaming' = TRUE
    /\ step' = "progressive"
    /\ got' = Fresh(FALSE)
    /\ UNCHANGED <<source, data, pc, want, saved, ret, kind, tries, file, look>>

ReadProgressive ==
    /\ step = "progressive"
    /\ Read(Buf)
    /\ To("progressive")

-----------------------------------------------------------------------------
\* What was read holds no thumbnail, or the shortcut does not apply at all.
NothingFound ==
    \/ step \in {"shortcut", "preview", "size", "decode", "none"}
    \/ step = "apic" /\ ApicSpan = NONE
    \/ step = "header" /\ kind # "raw" /\ HeaderSpan = NONE
    \/ step = "subifds" /\ look.pending = <<>> /\ look.span = NONE /\ ~Ifd1Beyond
    \/ step = "ifd1" /\ Ifd1Span = NONE
    \/ step = "directory" /\ Directory = NONE
    \/ step = "entry" /\ ~BeforeTail /\ Extracted = NONE
    \/ step = "extract" /\ Extracted = NONE

(* The next shortcut of the kind follows, or the renderer; no renderer in  *)
(* this process claims an office document or an audio file.                *)
GiveUp ==
    /\ NothingFound
    /\ Idle
    /\ tries' = Tail(tries)
    /\ step' = IF Tail(tries) # <<>> THEN "shortcut"
               ELSE IF kind \in {"zip", "mp3"} THEN "handoff"
               ELSE IF kind = "raw" THEN "raw" ELSE "render"
    /\ file' = IF kind = "raw" THEN file ELSE NONE
    /\ look' = NoLook
    /\ got' = Fresh(got.clean)
    /\ UNCHANGED <<vars, kind>>

\* A thumbnail came of it; the connection is closed and delivery follows.
Decoded ==
    /\ step = "decode"
    /\ close
    /\ To("served")

\* Some renderers seek to the start first (libav, the raw preview).
RenderSeek ==
    /\ step = "render"
    /\ got.n = 0
    /\ Seek(0)
    /\ To("render")

(* Others look for the length first, SeekFrom::End through the bridge, and *)
(* go back; without a known length the bridge refuses and nothing moves.   *)
RenderMeasure ==
    /\ step = "render"
    /\ got.n = 0
    /\ End # NONE
    /\ Seek(End)
    /\ To("measured")

\* What libav is given is searched for a rotation before it.
RotationHint ==
    /\ step = "nopreview" \/ (step = "render" /\ got.n = 0)
    /\ Read(Buf)
    /\ To("hinted")

RenderBack ==
    /\ step \in {"measured", "hinted"}
    /\ Seek(0)
    /\ To("render")

(* extract_raw_preview: the renderer of raw files looks for a preview of   *)
(* its own, with reads that may return less than they ask for.             *)
RawSeek(at, s) ==
    /\ Seek(at)
    /\ To(s)

RawRead(n, s) ==
    /\ Read(n)
    /\ To(s)

(* What may be made of a directory of which the buffer has `n` units: with *)
(* some of its entries missing there may be something or nothing.          *)
Parsed(at, n) ==
    IF at \notin DOMAIN file.ifds \/ n <= 0 THEN {NONE}
    ELSE IF n < Dir THEN {NONE, file.ifds[at]} ELSE {file.ifds[at]}

\* raw_subifd_offsets: the sub-directories beyond what was read.
RawSubIfds ==
    /\ step = "rawheader"
    /\ Idle
    /\ \E ifd \in Parsed(file.first, cursor - file.first) :
          look' = [NoLook EXCEPT !.pending =
                      IF ~file.classic \/ ifd = NONE THEN <<>>
                      ELSE Kept(tiff_u32_values(file, ifd.subs, 0, cursor, MaxSubs), Nat \ 0..cursor)]
    /\ step' = "rawsubs"
    /\ UNCHANGED <<vars, kind, tries, file, got>>

(* raw_ifd_jpeg_span: strips only, and what their fields hold is taken for *)
(* the offset and the length whether it is a value or where values begin.  *)
StripSpan(ifd) ==
    IF ifd.strips.off.n = 0 \/ ifd.strips.n.n = 0 THEN NONE
    ELSE Jpeg([off |-> ifd.strips.off.v, n |-> ifd.strips.n.v])

\* The preview of a directory, when it is not too long.
RawParse ==
    /\ step = "rawtable"
    /\ Idle
    /\ LET at == Head(look.pending) IN
       \E ifd \in Parsed(at, cursor - at) :
          LET p == IF ifd = NONE THEN NONE ELSE StripSpan(ifd)
              fits == p # NONE /\ p.n <= MaxPreview
          IN  look' = [span |-> IF fits /\ Better(p, look.span) THEN p ELSE look.span,
                       pending |-> Tail(look.pending),
                       read |-> IF fits THEN look.read \cup {at} ELSE look.read]
    /\ step' = "rawsubs"
    /\ UNCHANGED <<vars, kind, tries, file, got>>

SpanEnd == look.span.off + look.span.n

RawStep ==
    \/ step = "raw" /\ RawSeek(0, "rawstart")
    \/ step = "rawstart" /\ RawRead(RawHeader, "rawheader")
    \/ RawSubIfds
    \/ step = "rawsubs" /\ look.pending # <<>> /\ RawSeek(Head(look.pending), "rawsub")
    \/ step = "rawsub" /\ RawRead(IfdFetch, "rawtable")
    \/ RawParse
    \/ /\ step = "rawsubs" /\ look.pending = <<>> /\ look.span # NONE
       /\ RawSeek(look.span.off, "rawjpeg")
    \/ step = "rawjpeg" /\ cursor < SpanEnd /\ RawRead(SpanEnd - cursor, "rawjpeg")

\* The preview is decoded, or the file is left to libav.
RawOver ==
    /\ Idle
    /\ \/ step = "rawsubs" /\ look.pending = <<>> /\ look.span = NONE /\ step' = "nopreview"
       \/ step = "rawdecode" /\ step' \in {"previewed", "nopreview"}
    /\ file' = NONE
    /\ look' = NoLook
    /\ UNCHANGED <<vars, kind, tries, got>>

\* The renderer's read_to_end.
Render ==
    /\ step = "render"
    /\ Read(Buf)
    /\ To("render")

-----------------------------------------------------------------------------
\* The artificial end is lifted when the progressive loop is over.
ProgressiveOver ==
    /\ step = "progressive"
    /\ PastEnd \/ StreamingEnd
    /\ To("clear")

ClearEof ==
    /\ step = "clear"
    /\ set_eof(NONE)
    /\ To("decode")

\* read() gave the renderer its last bytes: none.
RenderOver ==
    /\ step = "render"
    /\ ~streaming
    /\ PastEnd \/ CopyPage
    /\ cursor' = cursor
    /\ To("rendered")

RenderOverStreaming ==
    /\ step = "render"
    /\ streaming
    /\ PastEnd \/ StreamingEnd
    /\ To("rendered")

\* Every other step of a call that goes well.
Answered ==
    /\ \/ Answer \/ CopyPage \/ ForwardEnd \/ StreamingPage \/ StreamingChunk
       \/ StartTail \/ StartForward \/ StartStreamingTail \/ StartStream
       \/ (step \notin {"progressive", "render"} /\ PastEnd)
    /\ ~(step = "render" /\ pc' = "idle" /\ cursor' = cursor)
    /\ UNCHANGED <<kind, tries, file, look>>
    /\ step' = IF pc' # "idle" THEN step
               ELSE IF step = "sniff" THEN "shortcut"
               ELSE IF step = "rawjpeg" /\ (cursor' = cursor \/ cursor' = SpanEnd)
               THEN "rawdecode" ELSE step
    /\ got' = IF step \in {"progressive", "render"} /\ pc' = "idle"
              THEN [got EXCEPT !.n = @ + cursor' - cursor,
                               !.exact = @ /\ ret'.exact /\ cursor = got.n]
              ELSE got

(* A failed read, of the stream or of a range, fails the shortcut that     *)
(* asked for it and no more: the next one goes on with the cursor wherever *)
(* the read left it, and after the progressive one with its mode and its   *)
(* artificial end in place.  Only the sniff and the renderer's own read    *)
(* fail the cook; the raw renderer takes a failed read for an empty one.   *)
AfterFailure ==
    CASE step = "subifd" -> "subifds"
      [] step \in {"entry", "rawheader", "rawtable", "hinted"} -> step
      [] step = "rawjpeg" -> "rawdecode"
      [] step \in {"sniff", "render"} -> "failed"
      [] OTHER -> "none"

ReadFailed ==
    /\ NetworkError \/ SeekBehindStream
    /\ step' = AfterFailure
    /\ look' = IF step = "subifd" THEN [look EXCEPT !.pending = Tail(@)] ELSE look
    /\ got' = [got EXCEPT !.clean = FALSE]
    /\ UNCHANGED <<kind, tries, file>>

CookNext ==
    \/ TryWhole
    \/ TryHeader \/ TryWebp \/ ReadPreview
    \/ SubIfds \/ ReadSubIfd \/ ParseSubIfd \/ ReadSubPreview
    \/ ReadIfd1 \/ ReadIfd1Preview
    \/ DimsKnown
    \/ \E r \in DimsReads : ReadDims(r[1], r[2])
    \/ \E r \in DimsReads : ReadNoDims(r[1], r[2])
    \/ TryZip \/ ReadMeta \/ NoMeta \/ ZipInline \/ ReadEntry \/ Extract
    \/ TryAudio \/ Cover \/ DecodeCover
    \/ TrySize \/ TryProgressive \/ ReadProgressive \/ ProgressiveOver \/ ClearEof
    \/ GiveUp \/ Decoded
    \/ RawStep \/ RawOver \/ RotationHint
    \/ RenderSeek \/ RenderMeasure \/ RenderBack \/ Render \/ RenderOver \/ RenderOverStreaming
    \/ Answered \/ ReadFailed

CookSpec == CookInit /\ [][CookNext]_allvars

-----------------------------------------------------------------------------
(* "Leaves both untouched on any failure so the caller can fall through":  *)
(* a renderer that reads the buffer to its end after a shortcut gave up    *)
(* has read the source, from its first byte to its last.                   *)
RendererReadsSource == step = "rendered" => (got.n = len /\ got.exact)

(* The same for the shortcuts that only use read_at, as long as none of    *)
(* the reads has failed: they leave no trace in what the renderer sees.  A *)
(* read that fails, of the stream or of a range, does: its shortcut gives  *)
(* up with the cursor where the read stood.                                *)
ReadAtLeavesSource == got.clean => RendererReadsSource

(* The progressive decoder is given a prefix of the source, and not less   *)
(* than its budget, whatever was tried and has failed before.              *)
ProgressivePrefix ==
    (tries # <<>> /\ Head(tries) = "progressive" /\ step \in {"clear", "decode"}) =>
        got.exact /\ got.n >= MinOf(Budget, len)

(* The preview a TIFF or raw file is served with is the longest of those   *)
(* the scanned header tells of: of all directories its links lead to,      *)
(* whatever cycles and shared links they have, as far as directories and   *)
(* fields lie inside it and MaxSubs allows.  When the header tells of      *)
(* none, it is the longest that the sub-directories read by themselves     *)
(* tell of, and only then that of the next directory of the chain.  The    *)
(* renderer takes the longest it has read.                                 *)
Told(previews) == previews \ {NONE}

InHeader(upto) ==
    Told({parse_tiff_ifd(file, o, 0, upto).preview : o \in Reachable(file, upto)})

BySubIfds == Told({Preview(o) : o \in look.read})

ByStrips == Told({StripSpan(file.ifds[o]) : o \in look.read})

Candidates ==
    IF step = "rawdecode" THEN ByStrips
    ELSE IF HeaderSpan # NONE THEN InHeader(Scanned(IF kind = "tiff" THEN Header ELSE RawHeader))
    ELSE IF BySubIfds # {} THEN BySubIfds
    ELSE {Preview(Ifd0.next)}

PreviewIsLongest ==
    (/\ kind \in {"tiff", "raw"} /\ look.span # NONE
     /\ step \in {"preview", "decode", "rawdecode"}) => IsLongest(look.span, Candidates)

(* What is decoded as the thumbnail of a container are the bytes of the    *)
(* file that the container names, through every change of origin: segment, *)
(* tail window, local header, frame.  A cover may be cut off, by the limit *)
(* on what is read for it or by the end of the file.  One origin is lost:  *)
(* a directory of a raw file that is read by itself has the values of a    *)
(* field looked up in its own buffer, or, by the renderer, not at all, so  *)
(* with its strips or tiles in arrays it may name other bytes.             *)
Displaced ==
    LET arrays == {o \in DOMAIN file.ifds : InArrays(file.ifds[o])} IN
    IF step = "rawdecode" THEN {StripSpan(file.ifds[o]) : o \in arrays}
    ELSE IF HeaderSpan = NONE THEN {Preview(o) : o \in arrays}
    ELSE {}

Named ==
    CASE kind = "tiff" -> NamedByTiff(file, 0)
      [] kind = "raw" -> NamedByTiff(file, 0) \cup Displaced
      [] kind \in {"jpeg", "png"} -> NamedByExif(file, BeforeImage(file))
      [] kind = "webp" -> NamedByExif(file, DOMAIN file)
      [] kind = "mp3" -> {[s EXCEPT !.n = MinOf(@, SatSub(MinOf(AudioRead, len), s.off))] :
                             s \in NamedById3(file)}
      [] kind = "zip" -> NamedByZip(file)

DecodesNamedBytes ==
    (step \in {"decode", "cover", "rawdecode"} /\ look.span # NONE) => look.span \in Named

-----------------------------------------------------------------------------
(* The inductive invariant of the reads (see ThumbnailProofs).  It says    *)
(* nothing of the offsets a shortcut computes: a file may name any.        *)

(* The cache holds bytes of the source in their places, whatever the call  *)
(* in progress is about.  Only the tail of an archive is fetched from the  *)
(* middle of a page.                                                       *)
CacheIsSource ==
    /\ len \in Lens /\ known \in {len, NONE} /\ ranges \in BOOLEAN
    /\ stream_pos \in 0..len
    /\ have \in [Pages -> 0..Page]
    /\ \A p \in Pages : have[p] > 0 => p * Page + have[p] <= len
    /\ wrong \subseteq 0..Limit /\ suspect \subseteq Pages
    /\ kind # "zip" => wrong = {}
    /\ chunk \in [start : 0..len, len : 0..len]
    /\ chunk.len > 0 => chunk.start + chunk.len = stream_pos
    /\ ChunkOfStreaming
    /\ StreamedBytesKept

\* What a waiting call relies on.
CallFits ==
    /\ pc = "forward" => ~streaming
    /\ pc = "stream" => streaming
    /\ pc = "tail" => known # NONE
    /\ pc = "range" => kind = "zip" /\ saved \in 0..len /\ want \in Nat
    /\ ~streaming => eof = NONE

\* The steps of the shortcuts that use read_at and fetch_range only.
Fetching == {"sniff", "shortcut", "header", "preview", "subifds", "subifd", "ifd1", "none",
             "decode", "directory", "entry", "extract", "apic", "size"}

\* The steps of the renderers.
Rendering == {"render", "rendered", "measured", "hinted", "nopreview", "raw", "rawstart",
              "rawheader", "rawsubs", "rawsub", "rawtable", "rawjpeg", "rawdecode"}

\* The shortcuts that are left are of the kind; no archive is rendered here.
OfKind ==
    /\ kind \in Kinds
    /\ tries \in Seq({Tries[kind][i] : i \in DOMAIN Tries[kind]})
    /\ step \in Fetching \cup {"progressive", "clear"} => tries # <<>>
    /\ step \in {"size", "progressive", "clear"} => Head(tries) = "progressive" /\ kind = "jpeg"
    /\ step \in {"header", "preview", "subifds", "subifd", "ifd1", "directory", "entry",
                 "extract"} => Head(tries) # "progressive"
    /\ step \in Rendering => kind # "zip"

\* Calls are made in these steps only; those of the renderers are plain reads.
Asking == Fetching \cup {"progressive", "render", "rawheader", "rawtable", "rawjpeg", "hinted"}

Asks ==
    pc \notin {"idle", "closed"} => step \in Asking /\ (step = "render" => saved = NONE)

\* read_at has put the cursor back to the start, or will.
CursorAtStart == IF pc \in {"idle", "range"} THEN cursor = 0 ELSE saved = 0

Undisturbed ==
    got.clean =>
        /\ ~streaming
        /\ step \notin {"progressive", "clear"}
        /\ step \in Fetching => CursorAtStart
        /\ step \notin {"render", "rendered", "failed"} => got.n = 0 /\ got.exact

\* A loop of reads that has begun at byte 0 has got what is before the cursor.
ReadsOn ==
    /\ cursor = got.n /\ cursor \in 0..len
    /\ got.exact
    /\ pc \in {"idle", "read", "forward", "stream", "tail", "copy"}
    /\ pc # "idle" => saved = NONE /\ want = Buf
    /\ pc = "stream" => cursor >= stream_pos
    /\ pc = "tail" => TailStart <= cursor
    /\ pc = "copy" => cursor >= len \/ Available > 0

LoopReadsOn ==
    /\ got = [n |-> got.n, exact |-> got.exact, clean |-> got.clean]
    /\ (step = "progressive" \/ (step = "render" /\ got.clean)) => ReadsOn
    /\ step = "progressive" => streaming /\ eof = Budget
    /\ step = "clear" => got.exact /\ got.n >= MinOf(Budget, len)

ReadInv ==
    /\ CacheIsSource
    /\ CallFits
    /\ OfKind
    /\ Asks
    /\ Undisturbed
    /\ LoopReadsOn
    /\ ReadAtLeavesSource
    /\ ProgressivePrefix

-----------------------------------------------------------------------------
(* The inductive invariant of what the shortcuts find (see                 *)
(* ThumbnailProofs).  It assumes nothing of what Range requests answer.    *)

\* The steps in which a shortcut of the kind looks into the file.
LooksInto == [jpeg |-> {"header", "preview"},
              tiff |-> {"header", "preview"},
              png  |-> {"header", "preview"},
              webp |-> {"header", "preview"},
              raw  |-> {"header", "preview", "subifds", "subifd", "ifd1"},
              zip  |-> {"directory", "entry", "extract"},
              pdf  |-> {},
              mp3  |-> {"apic", "cover"}]

LookSteps == UNION {LooksInto[k] : k \in DOMAIN LooksInto}

\* The steps of the raw renderer before and after it has read a directory.
RawBegins == {"raw", "rawstart", "rawheader"}
RawFinds == {"rawsubs", "rawsub", "rawtable", "rawjpeg", "rawdecode"}

IsLook(l) == l = [span |-> l.span, pending |-> l.pending, read |-> l.read]

(* The shortcuts that look into the file come first, and the file is kept  *)
(* for them and for the raw renderer.                                      *)
Untried == tries = Tries[kind] /\ file \in Files[kind]

FileKept ==
    /\ kind \in Kinds
    /\ IsLook(look)
    /\ len \in Nat /\ known \in {len, NONE}
    /\ Asks
    /\ \/ Untried
       \/ tries \in {<<"whole", "progressive">>, <<"whole">>, <<"progressive">>, <<>>}
    /\ step \in Fetching \cup {"progressive", "clear"} =>
          tries # <<>> /\ (kind = "raw" => Untried)
    /\ step \in LookSteps => Untried /\ step \in LooksInto[kind]
    /\ step \in RawBegins \cup RawFinds =>
          kind = "raw" /\ tries = <<>> /\ file \in Files[kind]

\* The window a shortcut searches does not move any more.
WindowFixed ==
    /\ step \in {"header", "directory", "entry", "extract"} /\ kind \in {"webp", "zip"} =>
          known = len
    /\ step \in {"entry", "extract"} => Directory # NONE
    /\ step = "cover" => pc = "closed"

NothingFoundYet ==
    step \in RawBegins \cup {"sniff", "shortcut", "header", "directory", "entry", "extract",
                             "apic", "size", "progressive", "clear"} => look = NoLook

SubIfdsFind ==
    /\ step \in {"subifds", "subifd", "ifd1"} =>
          /\ HeaderSpan = NONE
          /\ look.pending \in Seq(Nat) /\ look.read \subseteq Nat
          /\ IsLongest(look.span, BySubIfds)
    /\ step = "subifd" => look.pending # <<>>
    /\ step = "ifd1" => look.span = NONE /\ Ifd0 # NONE

RawRendererFinds ==
    step \in RawFinds =>
        look.read \subseteq DOMAIN file.ifds /\ IsLongest(look.span, ByStrips)

\* What is served is what was looked for.
SpanIsRight ==
    /\ (step \in {"preview", "decode"} /\ look.span # NONE) =>
          /\ kind # "mp3" /\ file \in Files[kind]
          /\ look.span \in Named
          /\ kind \in {"tiff", "raw"} => IsLongest(look.span, Candidates)
    /\ step = "cover" => look.span \in Named

LookInv ==
    /\ FileKept
    /\ WindowFixed
    /\ NothingFoundYet
    /\ SubIfdsFind
    /\ RawRendererFinds
    /\ SpanIsRight

-----------------------------------------------------------------------------
(* Statements that do not hold of the code: the README tells how.          *)

(* "JPEG/TIFF files with an embedded thumbnail are served from the         *)
(* thumbnail bytes only": a preview that was read is not given up while    *)
(* every request is answered.                                              *)
TiffPreviewServed == (kind = "tiff" /\ step = "none") => ~got.clean

(* "Closes the HTTP connection on success.  Leaves both untouched on any   *)
(* failure".                                                               *)
FailureLeavesConnection == step # "bare"

(* "Picks the largest embedded JPEG - typically the full-resolution        *)
(* preview": also when its directory lies beyond the header.               *)
LargestPreviewServed ==
    (kind = "raw" /\ step = "decode" /\ got.clean) =>
        \A o \in Reachable(file, len) :
            LET p == parse_tiff_ifd(file, o, 0, len).preview IN p # NONE => p.n <= look.span.n

(* "Returns (jpeg_file_offset, jpeg_byte_count)": also of a directory that *)
(* is read by itself and has its strips or tiles in arrays.                *)
SpanInFile ==
    (kind = "raw" /\ step \in {"decode", "rawdecode"} /\ look.span # NONE) =>
        look.span \in NamedByTiff(file, 0)

(* "Read the TIFF header (first 32 KB - likely already cached)": the       *)
(* renderer's one read fills its buffer, or ends with the file.            *)
RawHeaderRead ==
    (step = "rawheader" /\ Idle /\ got.clean) => cursor = MinOf(RawHeader, len)

(* "Read the ISOBMFF `irot` box from a seekable reader": the search for    *)
(* the box begins at the start of the file.                                *)
HintFromStart == (step = "hinted" /\ ~Idle) => cursor = 0
=============================================================================
