---------------------------------- MODULE Fit ----------------------------------
(***************************************************************************)
(* The geometry of a thumbnail: how a shortcut shrinks what it decoded     *)
(* (pre_scale_to_target) and how deliver fits an image on the canvas       *)
(* (fit_to_target).  Pixels are left out, sizes are exact.                 *)
(*                                                                         *)
(* The code computes in f32.  An operator that rounds therefore is the set *)
(* of what it may return: on a tie, or where the exact value is whole, the *)
(* error of the quotient may fall to either side.                          *)
(***************************************************************************)
EXTENDS Naturals

CONSTANTS
    TargetW, TargetH, \* exact_width, exact_height
    Slack             \* the pixels within which a resize is skipped

ASSUME FitAssumption ==
    /\ {TargetW, TargetH} \subseteq Nat \ {0}
    /\ TargetW % 5 = 0 /\ TargetH % 5 = 0
    /\ Slack \in Nat

Size(w, h) == [w |-> w, h |-> h]

Least(a, b) == IF a <= b THEN a ELSE b
Most(a, b) == IF a >= b THEN a ELSE b
Clamp(n, lo, hi) == Least(Most(n, lo), hi)
Distance(a, b) == Most(a, b) - Least(a, b)

Floor(a, b) == {a \div b} \cup (IF a > 0 /\ a % b = 0 THEN {(a \div b) - 1} ELSE {})
Ceil(a, b) == IF a % b = 0 THEN {a \div b, (a \div b) + 1} ELSE {(a \div b) + 1}
Nearest(a, b) ==
    {q \in {a \div b, (a \div b) + 1} : 2 * a <= (2 * q + 1) * b /\ 2 * q * b <= 2 * a + b}

\* n times a scale <<numerator, denominator>>.
Times(n, scale) == <<n * scale[1], scale[2]>>
Rounded(n, scale) == Nearest(Times(n, scale)[1], Times(n, scale)[2])

Lower(p, q) == IF p[1] * q[2] <= q[1] * p[2] THEN p ELSE q
Higher(p, q) == IF p[1] * q[2] >= q[1] * p[2] THEN p ELSE q

-----------------------------------------------------------------------------
Divisors == {1, 2, 4, 8, 16, 32, 64, 128, 256, 512, 1024, 2048, 4096}

\* Halvings to twice the target, the truncated way, for images of up to a million pixels a side.
Halved(s) ==
    LET fits(d) == s.w \div d >= TargetW * 2 /\ s.h \div d >= TargetH * 2
    IN  {Size(s.w \div d, s.h \div d) :
            d \in {d \in Divisors : (d = 1 \/ fits(d)) /\ \A e \in Divisors : fits(e) => e <= d}}

FillScale(s) == Higher(<<TargetW, s.w>>, <<TargetH, s.h>>)
FitScale(s) == Lower(<<TargetW, s.w>>, <<TargetH, s.h>>)

Shrunk(s, scale) ==
    IF scale[1] >= scale[2] THEN {s}
    ELSE {Size(Most(w, TargetW), Most(h, TargetH)) :
            w \in Ceil(s.w * scale[1], scale[2]), h \in Ceil(s.h * scale[1], scale[2])}

\* Seeded fault: shrunk until it fits, not until it fills.
pre_scale_to_fit(s) == UNION {Shrunk(h, FitScale(h)) : h \in Halved(s)}

pre_scale_to_target(s) == UNION {Shrunk(h, FillScale(h)) : h \in Halved(s)}

ScaledBy(s, scale) ==
    {Size(Most(w, 1), Most(h, 1)) : w \in Rounded(s.w, scale), h \in Rounded(s.h, scale)}

(* The renderers of tier 2 scale to the rounded size that fills, and the   *)
(* library's resize keeps the proportions within it.                       *)
pre_scale(s) ==
    UNION {ScaledBy(s, Lower(<<c.w, s.w>>, <<c.h, s.h>>)) : c \in ScaledBy(s, FillScale(s))}

\* A frame of libav is scaled to fill and turned after that.
decode_with_libav(s, turned) ==
    {IF turned THEN Size(c.h, c.w) ELSE c : c \in ScaledBy(s, FillScale(s))}

-----------------------------------------------------------------------------
\* min_fill_ratio.
MinW == (TargetW * 3) \div 5
MinH == (TargetH * 3) \div 5

\* fill_budget: at most a tenth of the canvas is given up to the crop.
Blend(s, transparent) ==
    LET near_square == s.w >= s.h /\ 2 * s.w <= 3 * s.h
        max_scale == <<10 * FitScale(s)[1], 9 * FitScale(s)[2]>>
    IN  IF near_square THEN IF transparent THEN FitScale(s) ELSE FillScale(s)
        ELSE Lower(FillScale(s), max_scale)

Wide(s) ==
    {[resize |-> Size(Most(w, TargetW), MinH), crop |-> Size(TargetW, MinH), clamped |-> TRUE] :
        w \in Rounded(s.w, <<MinH, s.h>>)}

Tall(s) ==
    {[resize |-> Size(MinW, Most(h, TargetH)), crop |-> Size(MinW, TargetH), clamped |-> TRUE] :
        h \in Rounded(s.h, <<MinW, s.w>>)}

Normal(s, transparent) ==
    LET b == Blend(s, transparent) IN
    {[resize |-> Size(Most(w, 1), Most(h, 1)),
      crop |-> Size(Least(Most(w, 1), TargetW), Least(Most(h, 1), TargetH)),
      clamped |-> FALSE] : w \in Rounded(s.w, b), h \in Rounded(s.h, b)}

\* The size to scale to and the part of it that is kept.
Plans(s, transparent) ==
    UNION {IF Clamp(h, 1, TargetH) < MinH THEN Wide(s)
           ELSE IF Clamp(w, 1, TargetW) < MinW THEN Tall(s)
           ELSE Normal(s, transparent) :
             w \in Rounded(s.w, FitScale(s)), h \in Rounded(s.h, FitScale(s))}

\* Seeded fault: the resize is skipped for a source just over the target, too.
NearIdentity(s, p, pixel_art) ==
    /\ ~pixel_art /\ ~p.clamped
    /\ p.crop = p.resize
    /\ 100 * Distance(p.resize.w, s.w) <= 6 * s.w
    /\ Distance(p.resize.w, s.w) <= Slack

\* A resize this small is skipped.
Skipped(s, p, pixel_art) ==
    /\ ~pixel_art /\ ~p.clamped
    /\ p.crop = p.resize
    /\ s.w <= p.resize.w /\ s.h <= p.resize.h
    /\ 100 * Distance(p.resize.w, s.w) <= 6 * s.w
    /\ Distance(p.resize.w, s.w) <= Slack

(* The part of the source that is read: a clamped source through a window, *)
(* the others as a whole.                                                  *)
Windows(s, p) ==
    IF ~p.clamped THEN {[x |-> 0, y |-> 0, w |-> s.w, h |-> s.h]}
    ELSE LET crop_x == (p.resize.w - p.crop.w) \div 2
             crop_y == (p.resize.h - p.crop.h) \div 4
             W == {Clamp(w, 1, s.w) : w \in Nearest(p.crop.w * s.w, p.resize.w)}
             H == {Clamp(h, 1, s.h) : h \in Nearest(p.crop.h * s.h, p.resize.h)}
         IN  UNION {{[x |-> Least(x, s.w - w), y |-> Least(y, s.h - h), w |-> w, h |-> h] :
                        x \in Floor(crop_x * s.w, p.resize.w),
                        y \in Floor(crop_y * s.h, p.resize.h)} : w \in W, h \in H}

(* fit_to_target: what is scaled and kept, the part of the source that is  *)
(* read for it, and the content that is put on the canvas.                 *)
fit_to_target(s, transparent, pixel_art) ==
    UNION {{[plan |-> p, window |-> v,
             content |-> IF Skipped(s, p, pixel_art) THEN s ELSE p.crop] :
                v \in Windows(s, p)} : p \in Plans(s, transparent)}
=============================================================================
