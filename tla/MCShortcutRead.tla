--------------------------- MODULE MCShortcutRead ---------------------------
(* Pages of two bytes; the cook itself computes the ranges it asks for.    *)
EXTENDS Thumbnail, TLC

NoRanges == {}

SomeDims == {<<8, 1>>, <<0, 6>>}

P(o, n) == [off |-> o, n |-> n]

\* One value, or the first of several that begin at o.
One(v) == [n |-> 1, v |-> v]
Many(n, o) == [n |-> n, v |-> o]
Empty == [n |-> 0, v |-> 0]

NoLayout == [off |-> Empty, n |-> Empty]

Ifd(next, subs, p) ==
    [next |-> next, subs |-> subs, direct |-> p, strips |-> NoLayout, tiles |-> NoLayout]

Strips(ifd, off, n) == [ifd EXCEPT !.strips = [off |-> off, n |-> n]]
Tiles(ifd, off, n) == [ifd EXCEPT !.tiles = [off |-> off, n |-> n]]

Block(first, ifds, words) ==
    [classic |-> TRUE, first |-> first, ifds |-> ifds, words |-> words]

(* The directories of a TIFF file, every link between the first two and    *)
(* the third, which lies beyond the header of six; any preview may be the  *)
(* longest.  Fields are in the directory, in the header, or partly or as a *)
(* whole beyond it; two sub-directories are looked at and a third is not.  *)
TiffWords == (4 :> 2) @@ (5 :> 3) @@ (6 :> 0)

Laid(next, subs) ==
    LET d == Ifd(next, subs, NONE) IN
    {Strips(d, One(3), Many(2, 5)),
     Strips(d, Many(2, 5), Many(2, 4)),
     Tiles(Strips(d, Many(2, 6), One(3)), One(3), One(1)),
     Tiles(Strips(d, One(3), One(0)), One(3), One(3))}

Tiffs ==
    {Block(0, (0 :> a) @@ (2 :> b) @@ (7 :> Ifd(0, Empty, P(4, 3))), TiffWords) :
        a \in {Ifd(x, s, p) : x \in {0, 2, 7}, s \in {Empty, One(2), Many(2, 4), One(7)},
                              p \in {NONE, P(3, 1), P(3, 3)}}
              \cup Laid(2, Empty) \cup Laid(0, Many(2, 5)),
        b \in {Ifd(x, Empty, p) : x \in {0, 2, 7}, p \in {NONE, P(3, 2)}}}
    \cup {Block(0, (0 :> Ifd(0, Many(3, 3), NONE)) @@ (2 :> Ifd(0, Empty, P(3, n))),
                 (3 :> 0) @@ (4 :> w) @@ (5 :> 2)) : n \in {1, 2}, w \in {0, 2}}
    \cup {[Block(0, 0 :> Ifd(0, Empty, P(3, 2)), TiffWords) EXCEPT !.classic = FALSE]}

(* Raw files: sub-directories inside, across and beyond the header of      *)
(* four, one that the end of the file cuts off, and some with their strips *)
(* in arrays, before and after the directory.                              *)
RawWords == (1 :> 4) @@ (2 :> 4) @@ (3 :> 5) @@ (5 :> 6)

Raws ==
    {Block(0, (0 :> a) @@ (2 :> b) @@ (4 :> c) @@ (5 :> d) @@ (8 :> Ifd(0, Empty, P(0, 1))),
           RawWords) :
        a \in {Ifd(x, s, NONE) : x \in {0, 2, 5}, s \in {Empty, One(5), Many(2, 2), Many(3, 1), One(8)}},
        b \in {Ifd(x, Empty, p) : x \in {0, 2}, p \in {NONE, P(3, 1)}},
        c \in {Ifd(0, Empty, NONE), Ifd(0, Empty, P(6, 2)),
               Strips(Ifd(0, Empty, NONE), One(6), One(2)),
               Strips(Ifd(0, Empty, NONE), Many(2, 1), One(1))},
        d \in {Strips(Ifd(0, Empty, NONE), One(1), One(2))}}
    \cup {[Block(0, (0 :> Ifd(5, One(4), NONE)) @@ (4 :> c) @@ (5 :> Ifd(0, Empty, P(1, 2))), RawWords)
              EXCEPT !.classic = FALSE] : c \in {Ifd(0, Empty, p) : p \in {NONE, P(6, 2)}}}

Segment(k, n, ifds) ==
    [kind |-> k, n |-> n, classic |-> TRUE, first |-> 0, ifds |-> ifds, words |-> 0 :> 0]

Exif(n, next, p) ==
    Segment("exif", n, (0 :> Ifd(next, Empty, NONE)) @@ (2 :> Ifd(0, Empty, p)))

Plain(k, n) == Segment(k, n, 0 :> Ifd(0, Empty, NONE))

(* Exif data at the start, behind another segment, behind Exif data without *)
(* a thumbnail and behind the image.                                        *)
Segmented ==
    {0 :> Exif(n, x, p) : n \in {3, 5}, x \in {0, 2}, p \in {NONE, P(1, 2)}}
    \cup {(0 :> Plain(k, n)) @@ ((n + 1) :> Exif(4, 2, P(1, 2))) :
              k \in {"other", "image"}, n \in {0, 1, 2}}
    \cup {(0 :> Exif(0, 0, NONE)) @@ (1 :> Exif(4, 2, P(2, 1))),
          0 :> [Exif(4, 2, P(1, 2)) EXCEPT !.classic = FALSE]}

Frame(a, text, n) == [apic |-> a, text |-> text, n |-> n]

Tags ==
    {NONE}
    \cup {[first |-> 1, frames |-> 1 :> Frame(TRUE, t, n)] : t \in {0, 1, 2}, n \in {2, 4}}
    \cup {[first |-> 0, frames |-> (0 :> Frame(FALSE, 0, n)) @@ ((n + 1) :> Frame(TRUE, 0, 2))] :
              n \in {0, 1, 3}}

Entry(name, at, extra, n) == [name |-> name, at |-> at, extra |-> extra, n |-> n]

Thumbs ==
    {Entry("thumb", 0, 0, 1), Entry("thumb", 1, 1, 1),
     Entry("thumb", 6, 1, 1), Entry("thumb", 6, 2, 1)}

Archives ==
    {[cd |-> c, dir |-> d] :
        c \in {3, 7},
        d \in {<<>>, <<Entry("meta", 1, 0, 1)>>}
              \cup {<<t>> : t \in Thumbs}
              \cup {<<Entry("meta", 1, 0, 1), t>> : t \in Thumbs}
              \cup {<<Entry("thumb", 6, 0, 1), t>> : t \in Thumbs}}

SomeFiles ==
    [k \in Kinds |-> CASE k = "tiff" -> Tiffs
                       [] k = "raw" -> Raws
                       [] k \in {"jpeg", "png", "webp"} -> Segmented
                       [] k = "mp3" -> Tags
                       [] k = "zip" -> Archives
                       [] OTHER -> {NONE}]

(* Sizes around the canvas, its minimal part, pixel art and their           *)
(* multiples; one of each is enough where the read matters.                 *)
Lengths == {1, 3, 99, 101, 150, 199, 201, 245, 251, 256, 375, 801, 1003, 4000}

SomeDecodes ==
    [k \in Kinds |-> CASE k = "pdf" -> Lengths \X Lengths
                       [] k \in {"raw", "png"} -> {<<245, 196>>, <<1247, 1000>>, <<1003, 99>>}
                       [] k = "webp" -> {<<245, 196>>, <<256, 4000>>, <<801, 375>>}
                       [] OTHER -> {<<245, 196>>}]
=============================================================================
