------------------------------ MODULE Containers ------------------------------
(***************************************************************************)
(* Where a container names its thumbnail (shortcut.rs): the directories of *)
(* a TIFF block, which is a TIFF or raw file or lies in a segment of       *)
(* another image; the frames of an ID3 tag; the central directory of a ZIP *)
(* archive.                                                                *)
(*                                                                         *)
(* A TIFF block is [classic, first, ifds, words]: whether it has the magic *)
(* number 42, the offset of its first directory and, by offset, its        *)
(* directories and the other words a field may point to.  A directory      *)
(* names its JPEG preview with a pair of tags of its own (`direct`), or as *)
(* the first of its strips or tiles; their offsets and lengths and the     *)
(* offsets of the sub-directories are fields [n, v]: the one value v, or n *)
(* values that begin at v.  The fields of strips that hold no JPEG are     *)
(* empty, and a JPEG of fewer than four bytes has the length 0.            *)
(*                                                                         *)
(* A JPEG, PNG or WebP file is, by offset, its segments or chunks [kind,   *)
(* n] with a TIFF block in each.  A tag is [first, frames], its frames     *)
(* [apic, text, n] again by offset.  An archive is [cd, dir]: where the    *)
(* central directory begins and its entries [name, at, extra, n].  The     *)
(* headers of segments, frames and ZIP entries and the words take one unit.*)
(***************************************************************************)
EXTENDS Naturals, Sequences

CONSTANTS
    NONE,
    Dir,    \* the size of a directory
    MaxSubs \* how many values of a field of sub-directories are read: 32

Spans == [off : Nat, n : Nat]

Fields == [n : Nat, v : Nat]

Layouts == [off : Fields, n : Fields]

Directories ==
    [next : Nat, subs : Fields, direct : Spans \cup {NONE}, strips : Layouts, tiles : Layouts]

\* What is made of a directory that was read.
Readings == [next : Nat, subs : Seq(Nat), preview : Spans \cup {NONE}]

(* The shapes above.                                                       *)
IsBlock(f) ==
    /\ f.classic \in BOOLEAN
    /\ f.first \in Nat
    /\ DOMAIN f.ifds \subseteq Nat
    /\ f.ifds \in [DOMAIN f.ifds -> Directories]
    /\ DOMAIN f.words \subseteq Nat
    /\ f.words \in [DOMAIN f.words -> Nat]

IsSegmented(f) ==
    /\ DOMAIN f \subseteq Nat
    /\ \A at \in DOMAIN f : IsBlock(f[at]) /\ f[at].n \in Nat

IsTag(f) ==
    /\ f.first \in Nat
    /\ DOMAIN f.frames \subseteq Nat
    /\ f.frames \in [DOMAIN f.frames -> [apic : BOOLEAN, text : Nat, n : Nat]]

IsArchive(f) ==
    /\ f.cd \in Nat
    /\ f.dir \in Seq([name : {"thumb", "meta", "other"}, at : Nat, extra : Nat, n : Nat])

Lesser(a, b) == IF a <= b THEN a ELSE b

\* The elements of s that are in S, in their order.
Kept(s, S) ==
    LET kept[i \in 0..Len(s)] ==
            IF i = 0 THEN <<>>
            ELSE IF s[i] \in S THEN Append(kept[i - 1], s[i])
            ELSE kept[i - 1]
    IN  kept[Len(s)]

-----------------------------------------------------------------------------
(* The values of a field, in a buffer of the bytes from..upto - 1 of the   *)
(* file.  Several values are looked for at v in the buffer, although v     *)
(* counts from the start of the file.                                      *)
Word(f, o) == IF o \in DOMAIN f.words THEN f.words[o] ELSE 0

\* How many of the values of a field the buffer has, of those that are read.
Covered(field, from, upto, most) ==
    LET n == Lesser(field.n, most)
        end == from + field.v
    IN  IF field.n = 1 \/ end + n <= upto THEN n ELSE IF end < upto THEN upto - end ELSE 0

tiff_u32_values(f, field, from, upto, most) ==
    [i \in 1..Covered(field, from, upto, most) |->
        IF field.n = 1 THEN field.v ELSE Word(f, from + field.v + i - 1)]

\* The first strip or tile, when both its offset and its length are found.
FirstOf(f, layout, from, upto) ==
    LET off == tiff_u32_values(f, layout.off, from, upto, 1)
        n == tiff_u32_values(f, layout.n, from, upto, 1)
    IN  IF off = <<>> \/ n = <<>> THEN NONE ELSE [off |-> Head(off), n |-> Head(n)]

\* A JPEG that is too short is none.
Jpeg(p) == IF p # NONE /\ p.n = 0 THEN NONE ELSE p

PreviewOf(f, ifd, from, upto) ==
    LET strip == FirstOf(f, ifd.strips, from, upto)
        tile == FirstOf(f, ifd.tiles, from, upto)
    IN  Jpeg(IF ifd.direct # NONE THEN ifd.direct ELSE IF strip # NONE THEN strip ELSE tile)

\* Whether the buffer has all of the directory at an offset of the block.
HasIfd(f, at, upto) == at \in DOMAIN f.ifds /\ at + Dir <= upto

\* The directory at an offset of the block, as far as the buffer has it.
parse_tiff_ifd(f, at, from, upto) ==
    IF ~HasIfd(f, at, upto) THEN NONE
    ELSE [next |-> f.ifds[at].next,
          subs |-> tiff_u32_values(f, f.ifds[at].subs, from, upto, MaxSubs),
          preview |-> PreviewOf(f, f.ifds[at], from, upto)]

\* Seeded fault: the last preview wins.
BetterLast(p, best) == p # NONE

Better(p, best) == p # NONE /\ (best = NONE \/ p.n > best.n)

\* What a directory leads to and the buffer may cover.
Leads(ifd, upto) == Kept(<<ifd.next>> \o ifd.subs, 1..(upto - 1))

\* One round of the walk over the directories.
Round(f, upto, w) ==
    LET at == Head(w.queue)
        ifd == parse_tiff_ifd(f, at, 0, upto)
    IN  IF at \in w.visited \/ ifd = NONE
        THEN [w EXCEPT !.queue = Tail(@), !.visited = @ \cup {at}]
        ELSE [queue |-> Tail(w.queue) \o Leads(ifd, upto),
              visited |-> w.visited \cup {at},
              best |-> IF Better(ifd.preview, w.best) THEN ifd.preview ELSE w.best]

Walks == [queue : Seq(Nat), visited : SUBSET Nat, best : Spans \cup {NONE}]

\* The preview in the first `upto` units of a TIFF or raw file.
find_tiff_embedded_jpeg_span(f, upto) ==
    LET walk[w \in Walks] == IF w.queue = <<>> THEN w.best ELSE walk[Round(f, upto, w)]
    IN  IF f.classic THEN walk[[queue |-> <<f.first>>, visited |-> {}, best |-> NONE]]
        ELSE NONE

-----------------------------------------------------------------------------
(* Exif: only the second directory of the chain holds the thumbnail, and   *)
(* only its own pair of tags counts.                                       *)
parse_tiff_exif_thumbnail(f, upto) ==
    LET ifd1 == IF HasIfd(f, f.first, upto) THEN f.ifds[f.first].next ELSE 0 IN
    IF f.classic /\ ifd1 # 0 /\ HasIfd(f, ifd1, upto) THEN Jpeg(f.ifds[ifd1].direct) ELSE NONE

\* Seeded fault: the block is placed as if the buffer began at byte 0.
ExifInBuffer(f, at, from, upto) ==
    LET data_start == at - from + 1
        p == parse_tiff_exif_thumbnail(f[at], Lesser(f[at].n, upto - at - 1))
    IN  IF f[at].kind # "exif" \/ p = NONE THEN NONE ELSE [p EXCEPT !.off = @ + data_start]

(* The thumbnail in the Exif segment at `at`, as far as a buffer of the    *)
(* bytes from..upto - 1 has it; its offset counts from the file's start.   *)
ExifIn(f, at, from, upto) ==
    LET data_start == at - from + 1
        p == parse_tiff_exif_thumbnail(f[at], Lesser(f[at].n, upto - at - 1))
    IN  IF f[at].kind # "exif" \/ p = NONE THEN NONE
        ELSE [p EXCEPT !.off = @ + from + data_start]

(* Segment after segment up to the image data: a JPEG goes on after Exif   *)
(* data without a thumbnail, a PNG does not.                               *)
FromSegments(f, upto, goesOn) ==
    LET from[at \in Nat] ==
            IF at \notin DOMAIN f \/ at >= upto THEN NONE
            ELSE LET span == ExifIn(f, at, 0, upto) IN
                 IF span # NONE THEN span
                 ELSE IF f[at].kind = "image" \/ (f[at].kind = "exif" /\ ~goesOn) THEN NONE
                 ELSE from[at + 1 + f[at].n]
    IN  from[0]

find_jpeg_exif_shortcut(f, upto) == FromSegments(f, upto, TRUE)
find_png_exif_shortcut(f, upto) == FromSegments(f, upto, FALSE)

(* The tail of a WebP file begins anywhere: every place that looks like an *)
(* Exif chunk is tried.                                                    *)
find_webp_exif(f, from, upto) ==
    LET found == {o \in DOMAIN f : from <= o /\ o < upto /\ ExifIn(f, o, from, upto) # NONE}
    IN  IF found = {} THEN NONE
        ELSE ExifIn(f, CHOOSE o \in found : \A p \in found : o <= p, from, upto)

-----------------------------------------------------------------------------
\* What follows the texts of an APIC frame, as far as the buffer has it.
extract_apic_image(frame, start, end) ==
    IF start + frame.text >= end THEN NONE
    ELSE [off |-> start + frame.text, n |-> end - start - frame.text]

(* Frame after frame up to the first that is none; the size the tag states *)
(* for itself is not looked at.                                            *)
find_id3_apic(frames, first, upto) ==
    LET from[pos \in Nat] ==
            IF pos \notin DOMAIN frames \/ pos >= upto THEN NONE
            ELSE LET after == pos + 1 + frames[pos].n IN
                 IF frames[pos].apic
                 THEN extract_apic_image(frames[pos], pos + 1, Lesser(after, upto))
                 ELSE from[after]
    IN  from[first]

-----------------------------------------------------------------------------
\* Of several entries with such a name, the first counts.
FirstNamed(dir, name) ==
    LET named == {i \in 1..Len(dir) : dir[i].name = name} IN
    IF named = {} THEN NONE ELSE dir[CHOOSE i \in named : \A j \in named : i <= j]

zip_scan_dir(dir) == [thumb |-> FirstNamed(dir, "thumb"), meta |-> FirstNamed(dir, "meta")]

\* The central directory, when the tail of the file holds all of it.
zip_scan_dir_entry(f, tail_start) ==
    IF f.cd < tail_start THEN NONE ELSE zip_scan_dir(f.dir)

(* The data of an entry in a buffer of `size` bytes from `start` on: where *)
(* it is in the file, or none when the buffer ends before it.              *)
zip_extract_from_buffer(e, start, size) ==
    LET data_off == (e.at - start) + 1 + e.extra IN
    IF e.at < start \/ data_off + e.n > size THEN NONE
    ELSE [off |-> start + data_off, n |-> e.n]

-----------------------------------------------------------------------------
(* The references the walks are held against.                              *)

\* What every set that is closed under the links and has the first one has.
Linked(all, first, links(_)) ==
    {o \in all : \A S \in SUBSET all :
        (first \in S /\ \A s \in S : links(s) \cap all \subseteq S) => o \in S}

\* The directories a chain of links inside the buffer leads to; 0 is no link.
Reachable(f, upto) ==
    LET ifd(o) == parse_tiff_ifd(f, o, 0, upto)
        links(o) == ({ifd(o).next} \cup {ifd(o).subs[i] : i \in 1..Len(ifd(o).subs)}) \ {0}
    IN  Linked({o \in DOMAIN f.ifds : HasIfd(f, o, upto)}, f.first, links)

\* One of the longest of the spans ps, and none when there are none.
IsLongest(span, ps) ==
    IF span = NONE THEN ps = {} ELSE span \in ps /\ \A p \in ps : p.n <= span.n

\* Where the segments or frames really begin, the first at `first`.
Starts(f, first) ==
    LET links(o) == {o + 1 + f[o].n} IN Linked(DOMAIN f, first, links)

(* The bytes of the file that the container names as thumbnails: an offset *)
(* in a field counts from the start of the block, wherever it is read.     *)
ValueOf(f, field) == IF field.n = 1 THEN field.v ELSE Word(f, field.v)

NamedBy(f, ifd) ==
    ({ifd.direct} \ {NONE})
    \cup {[off |-> ValueOf(f, l.off), n |-> ValueOf(f, l.n)] :
             l \in {k \in {ifd.strips, ifd.tiles} : k.off.n > 0 /\ k.n.n > 0}}

NamedByTiff(f, top) ==
    {[off |-> top + p.off, n |-> p.n] : p \in UNION {NamedBy(f, f.ifds[o]) : o \in DOMAIN f.ifds}}

\* Strips or tiles of which the offsets or lengths are not in the directory itself.
InArrays(ifd) == \E l \in {ifd.strips, ifd.tiles} : l.off.n > 1 \/ l.n.n > 1

NamedByExif(f, at) ==
    UNION {NamedByTiff(f[o], o + 1) : o \in {s \in at : f[s].kind = "exif"}}

BeforeImage(f) ==
    {o \in Starts(f, 0) : \A p \in Starts(f, 0) : f[p].kind = "image" => o < p}

NamedById3(f) ==
    {[off |-> o + 1 + f.frames[o].text, n |-> f.frames[o].n - f.frames[o].text] :
        o \in {s \in Starts(f.frames, f.first) : f.frames[s].apic}}

NamedByZip(f) ==
    {[off |-> e.at + 1 + e.extra, n |-> e.n] :
        e \in {f.dir[i] : i \in {j \in DOMAIN f.dir : f.dir[j].name = "thumb"}}}
=============================================================================
