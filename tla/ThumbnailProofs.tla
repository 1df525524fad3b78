--------------------------- MODULE ThumbnailProofs ---------------------------
(***************************************************************************)
(* Proofs about the way from the bytes of a source to its thumbnail: the   *)
(* buffer over one HTTP stream, for any page size, thresholds, source and  *)
(* answers; what a cook does with it; and the geometry of the thumbnail,   *)
(* for any canvas, any image and every error of the rounding.              *)
(***************************************************************************)
EXTENDS Thumbnail, FiniteSetTheorems, NaturalsInduction, TLAPS

(* The geometry of a thumbnail.                                            *)
Sizes == [w : Nat \ {0}, h : Nat \ {0}]

\* Where the integer quotient lies.
LEMMA Quotient ==
    ASSUME NEW a \in Nat, NEW b \in Nat \ {0}
    PROVE  /\ a \div b \in Nat
           /\ b * (a \div b) <= a
           /\ a < b * ((a \div b) + 1)
           /\ a % b = 0 => b * (a \div b) = a
  OBVIOUS

LEMMA NearestIsNat ==
    ASSUME NEW a \in Nat, NEW b \in Nat \ {0}
    PROVE  Nearest(a, b) \subseteq Nat
  BY Quotient DEF Nearest

LEMMA FloorIsNat ==
    ASSUME NEW a \in Nat, NEW b \in Nat \ {0}
    PROVE  Floor(a, b) \subseteq Nat
<1>1. (a > 0 /\ a % b = 0) => a \div b > 0
    BY Quotient
<1> QED BY <1>1, Quotient DEF Floor

\* What is put on the canvas by a plan, and what is scaled for it.
Plan(p) ==
    /\ p.crop.w \in 1..TargetW /\ p.crop.h \in 1..TargetH
    /\ p.resize.w \in Nat /\ p.crop.w <= p.resize.w
    /\ p.resize.h \in Nat /\ p.crop.h <= p.resize.h

LEMMA Canvas ==
    /\ TargetW \in Nat \ {0} /\ TargetH \in Nat \ {0}
    /\ MinW \in 1..TargetW /\ MinH \in 1..TargetH
<1>1. TargetW \in Nat \ {0} /\ TargetH \in Nat \ {0} /\ TargetW % 5 = 0 /\ TargetH % 5 = 0
    BY FitAssumption
<1>2. (TargetW * 3) \div 5 \in 1..TargetW
    BY <1>1
<1>3. (TargetH * 3) \div 5 \in 1..TargetH
    BY <1>1
<1> QED BY <1>1, <1>2, <1>3 DEF MinW, MinH

LEMMA WidePlan ==
    ASSUME NEW s \in Sizes, NEW p \in Wide(s)
    PROVE  Plan(p)
<1>1. PICK w \in Rounded(s.w, <<MinH, s.h>>) :
          p = [resize |-> Size(Most(w, TargetW), MinH), crop |-> Size(TargetW, MinH), clamped |-> TRUE]
    BY DEF Wide
<1>2. w \in Nat
    BY NearestIsNat, Canvas DEF Rounded, Times, Sizes
<1> QED BY <1>1, <1>2, Canvas DEF Plan, Size, Most

LEMMA TallPlan ==
    ASSUME NEW s \in Sizes, NEW p \in Tall(s)
    PROVE  Plan(p)
<1>1. PICK h \in Rounded(s.h, <<MinW, s.w>>) :
          p = [resize |-> Size(MinW, Most(h, TargetH)), crop |-> Size(MinW, TargetH), clamped |-> TRUE]
    BY DEF Tall
<1>2. h \in Nat
    BY NearestIsNat, Canvas DEF Rounded, Times, Sizes
<1> QED BY <1>1, <1>2, Canvas DEF Plan, Size, Most

\* A scale is a quotient of two positive numbers.
Scale(c) == c[1] \in Nat \ {0} /\ c[2] \in Nat \ {0}

LEMMA ScaleRounds ==
    ASSUME NEW c, Scale(c), NEW n \in Nat
    PROVE  Rounded(n, c) \subseteq Nat
<1>1. n * c[1] \in Nat
    BY DEF Scale
<1> QED BY <1>1, NearestIsNat DEF Rounded, Times, Scale

LEMMA BlendScales ==
    ASSUME NEW s \in Sizes, NEW transparent \in BOOLEAN
    PROVE  Scale(Blend(s, transparent))
<1>1. Scale(FitScale(s)) /\ Scale(FillScale(s))
    BY Canvas DEF Scale, FitScale, FillScale, Lower, Higher, Sizes
<1>2. Scale(<<10 * FitScale(s)[1], 9 * FitScale(s)[2]>>)
    BY <1>1 DEF Scale
<1>3. Blend(s, transparent) \in {FitScale(s), FillScale(s), <<10 * FitScale(s)[1], 9 * FitScale(s)[2]>>}
    BY DEF Blend, Lower
<1> QED BY <1>1, <1>2, <1>3

LEMMA NormalPlan ==
    ASSUME NEW s \in Sizes, NEW transparent \in BOOLEAN, NEW p \in Normal(s, transparent)
    PROVE  Plan(p)
<1>1. PICK w \in Rounded(s.w, Blend(s, transparent)), h \in Rounded(s.h, Blend(s, transparent)) :
          p = [resize |-> Size(Most(w, 1), Most(h, 1)),
               crop |-> Size(Least(Most(w, 1), TargetW), Least(Most(h, 1), TargetH)),
               clamped |-> FALSE]
    BY DEF Normal
<1>2. w \in Nat /\ h \in Nat
    BY BlendScales, ScaleRounds DEF Sizes
<1> QED BY <1>1, <1>2, Canvas DEF Plan, Size, Most, Least

LEMMA AnyPlan ==
    ASSUME NEW s \in Sizes, NEW transparent \in BOOLEAN, NEW p \in Plans(s, transparent)
    PROVE  Plan(p)
<1>1. p \in Wide(s) \/ p \in Tall(s) \/ p \in Normal(s, transparent)
    BY DEF Plans
<1> QED BY <1>1, WidePlan, TallPlan, NormalPlan

LEMMA AnyWindow ==
    ASSUME NEW s \in Sizes, NEW p, Plan(p), NEW v \in Windows(s, p)
    PROVE  /\ {v.x, v.y, v.w, v.h} \subseteq Nat
           /\ v.w > 0 /\ v.h > 0
           /\ v.x + v.w <= s.w /\ v.y + v.h <= s.h
<1>1. CASE ~p.clamped
    BY <1>1 DEF Windows, Sizes
<1>2. CASE p.clamped
  <2> DEFINE crop_x == (p.resize.w - p.crop.w) \div 2
             crop_y == (p.resize.h - p.crop.h) \div 4
             W == {Clamp(w, 1, s.w) : w \in Nearest(p.crop.w * s.w, p.resize.w)}
             H == {Clamp(h, 1, s.h) : h \in Nearest(p.crop.h * s.h, p.resize.h)}
             At(w, h) == {[x |-> Least(x, s.w - w), y |-> Least(y, s.h - h), w |-> w, h |-> h] :
                             x \in Floor(crop_x * s.w, p.resize.w),
                             y \in Floor(crop_y * s.h, p.resize.h)}
  <2>1. p.crop.w \in Nat /\ p.crop.h \in Nat /\ p.resize.w \in Nat \ {0} /\ p.resize.h \in Nat \ {0}
      BY Canvas DEF Plan
  <2>2. crop_x \in Nat /\ crop_y \in Nat
      BY <2>1 DEF Plan
  <2>3. \A w \in W : w \in 1..s.w
    <3>1. p.crop.w * s.w \in Nat
        BY <2>1 DEF Sizes
    <3>2. Nearest(p.crop.w * s.w, p.resize.w) \subseteq Nat
        BY <2>1, <3>1, NearestIsNat
    <3> QED BY <3>2 DEF Sizes, Clamp, Least, Most
  <2>4. \A h \in H : h \in 1..s.h
    <3>1. p.crop.h * s.h \in Nat
        BY <2>1 DEF Sizes
    <3>2. Nearest(p.crop.h * s.h, p.resize.h) \subseteq Nat
        BY <2>1, <3>1, NearestIsNat
    <3> QED BY <3>2 DEF Sizes, Clamp, Least, Most
  <2>5. Floor(crop_x * s.w, p.resize.w) \subseteq Nat
    <3>1. crop_x * s.w \in Nat
        BY <2>2 DEF Sizes
    <3> QED BY <2>1, <3>1, FloorIsNat
  <2>6. Floor(crop_y * s.h, p.resize.h) \subseteq Nat
    <3>1. crop_y * s.h \in Nat
        BY <2>2 DEF Sizes
    <3> QED BY <2>1, <3>1, FloorIsNat
  <2>7. Windows(s, p) = UNION {At(w, h) : w \in W, h \in H}
      BY <1>2 DEF Windows
  <2>8. PICK w \in W, h \in H : v \in At(w, h)
    <3> HIDE DEF W, H, At
    <3> QED BY <2>7
  <2>9. PICK x \in Nat, y \in Nat :
            v = [x |-> Least(x, s.w - w), y |-> Least(y, s.h - h), w |-> w, h |-> h]
    <3> HIDE DEF W, H, crop_x, crop_y
    <3> QED BY <2>5, <2>6, <2>8
  <2>10. w \in 1..s.w /\ h \in 1..s.h
    <3> HIDE DEF W, H
    <3> QED BY <2>3, <2>4
  <2> QED BY <2>9, <2>10 DEF Least, Sizes
<1> QED BY <1>1, <1>2

(* deliver.rs: whatever the image, the content that place_on_canvas gets   *)
(* fits the canvas, so that blit_rgb_onto writes inside its rows, and the  *)
(* window lies in the image, so that crop_imm cuts what it was asked for.  *)
THEOREM FitsCanvas ==
    \A s \in Sizes : \A transparent, pixel_art \in BOOLEAN :
        \A f \in fit_to_target(s, transparent, pixel_art) :
            /\ f.content.w \in 1..TargetW /\ f.content.h \in 1..TargetH
            /\ f.window.x + f.window.w <= s.w /\ f.window.y + f.window.h <= s.h
<1> TAKE s \in Sizes
<1> TAKE transparent, pixel_art \in BOOLEAN
<1> TAKE f \in fit_to_target(s, transparent, pixel_art)
<1>1. PICK p \in Plans(s, transparent) : \E v \in Windows(s, p) :
          f = [plan |-> p, window |-> v, content |-> IF Skipped(s, p, pixel_art) THEN s ELSE p.crop]
    BY DEF fit_to_target
<1>2. PICK v \in Windows(s, p) :
          f = [plan |-> p, window |-> v, content |-> IF Skipped(s, p, pixel_art) THEN s ELSE p.crop]
    BY <1>1
<1>3. Plan(p)
    BY AnyPlan
<1>4. f.window.x + f.window.w <= s.w /\ f.window.y + f.window.h <= s.h
    BY <1>2, <1>3, AnyWindow
<1>5. CASE Skipped(s, p, pixel_art)
  <2>1. f.content = s /\ s.w <= p.crop.w /\ s.h <= p.crop.h
      BY <1>2, <1>5 DEF Skipped
  <2> QED BY <1>3, <1>4, <2>1, Canvas DEF Plan, Sizes
<1>6. CASE ~Skipped(s, p, pixel_art)
    BY <1>2, <1>3, <1>4, <1>6 DEF Plan
<1> QED BY <1>5, <1>6

-----------------------------------------------------------------------------
\* A size times a scale below one does not grow, whichever way it is rounded up.
LEMMA CeilShrinks ==
    ASSUME NEW n \in Nat \ {0}, NEW a \in Nat \ {0}, NEW b \in Nat \ {0}, a < b,
           NEW c \in Ceil(n * a, b)
    PROVE  c \in 0..n
<1>1. n * a \in Nat /\ n * a < n * b
    OBVIOUS
<1>2. (n * a) \div b \in Nat /\ b * ((n * a) \div b) <= n * a
    BY <1>1, Quotient
<1>3. ASSUME NEW q \in Nat, b * q < n * b
      PROVE  q + 1 <= n
    BY <1>3
<1>4. (n * a) \div b + 1 <= n
    BY <1>1, <1>2, <1>3
<1> QED BY <1>1, <1>2, <1>4 DEF Ceil

LEMMA HalvedKeeps ==
    ASSUME NEW s \in Sizes, NEW h \in Halved(s)
    PROVE  /\ h \in [w : 0..s.w, h : 0..s.h]
           /\ (s.w >= TargetW /\ s.h >= TargetH) => (h.w >= TargetW /\ h.h >= TargetH)
<1>1. PICK d \in Divisors : /\ h = Size(s.w \div d, s.h \div d)
                            /\ d = 1 \/ (s.w \div d >= TargetW * 2 /\ s.h \div d >= TargetH * 2)
    BY DEF Halved
<1>2. d \in Nat \ {0}
    BY DEF Divisors
<1>3. s.w \div d \in 0..s.w /\ s.h \div d \in 0..s.h
    BY <1>2 DEF Sizes
<1>4. d = 1 => (s.w \div d = s.w /\ s.h \div d = s.h)
    BY DEF Sizes
<1> QED BY <1>1, <1>3, <1>4, Canvas DEF Size

(* shortcut.rs: the shrinking before deliver leaves what deliver needs: an *)
(* image that covered the canvas still does, and none grows.               *)
THEOREM PreScaleCovers ==
    \A s \in Sizes : (s.w >= TargetW /\ s.h >= TargetH) =>
        \A g \in pre_scale_to_target(s) :
            g.w \in TargetW..s.w /\ g.h \in TargetH..s.h
<1> SUFFICES ASSUME NEW s \in Sizes, s.w >= TargetW, s.h >= TargetH,
                    NEW g \in pre_scale_to_target(s)
             PROVE  g.w \in TargetW..s.w /\ g.h \in TargetH..s.h
    OBVIOUS
<1>1. PICK h \in Halved(s) : g \in Shrunk(h, FillScale(h))
    BY DEF pre_scale_to_target
<1>2. h \in Sizes /\ h.w \in TargetW..s.w /\ h.h \in TargetH..s.h
    BY HalvedKeeps, Canvas DEF Sizes
<1>3. Scale(FillScale(h))
    BY <1>2, Canvas DEF Scale, FillScale, Higher, Sizes
<1>4. CASE FillScale(h)[1] >= FillScale(h)[2]
    BY <1>1, <1>2, <1>4 DEF Shrunk
<1>5. CASE FillScale(h)[1] < FillScale(h)[2]
  <2>1. PICK w \in Ceil(h.w * FillScale(h)[1], FillScale(h)[2]),
             v \in Ceil(h.h * FillScale(h)[1], FillScale(h)[2]) :
                g = Size(Most(w, TargetW), Most(v, TargetH))
    <3> HIDE DEF FillScale
    <3> QED BY <1>1, <1>3, <1>5 DEF Shrunk, Scale
  <2>2. w \in 0..h.w /\ v \in 0..h.h
      BY <1>2, <1>3, <1>5, CeilShrinks DEF Scale, Sizes
  <2>3. /\ h.w \in Nat /\ TargetW <= h.w /\ h.w <= s.w
        /\ h.h \in Nat /\ TargetH <= h.h /\ h.h <= s.h
      BY <1>2, Canvas DEF Sizes
  <2>4. Most(w, TargetW) \in TargetW..s.w /\ Most(v, TargetH) \in TargetH..s.h
      BY <2>2, <2>3, Canvas DEF Most, Sizes
  <2>5. g.w = Most(w, TargetW) /\ g.h = Most(v, TargetH)
      BY <2>1 DEF Size
  <2> QED BY <2>4, <2>5
<1> QED BY <1>3, <1>4, <1>5 DEF Scale

-----------------------------------------------------------------------------
(* Where the thumbnail lies on the one canvas the code configures          *)
(* (ThumbnailConfig::CANONICAL), and what the roundings on the way to it   *)
(* add up to.                                                              *)
Canonical == TargetW = 250 /\ TargetH = 200 /\ Slack = 8

\* What rounding a product leaves open.
LEMMA RoundedWithin ==
    ASSUME NEW c, Scale(c), NEW n \in Nat, NEW r \in Rounded(n, c)
    PROVE  /\ r \in Nat /\ n * c[1] \in Nat /\ r * c[2] \in Nat
           /\ 2 * (n * c[1]) <= 2 * (r * c[2]) + c[2]
           /\ 2 * (r * c[2]) <= 2 * (n * c[1]) + c[2]
<1>1. r \in Nat
    BY ScaleRounds
<1>2. c[1] \in Nat /\ c[2] \in Nat /\ n * c[1] \in Nat /\ r * c[2] \in Nat
    BY <1>1 DEF Scale
<1>3. 2 * (n * c[1]) <= (2 * r + 1) * c[2] /\ 2 * r * c[2] <= 2 * (n * c[1]) + c[2]
    BY DEF Rounded, Times, Nearest
<1>4. (2 * r + 1) * c[2] = 2 * (r * c[2]) + c[2] /\ 2 * r * c[2] = 2 * (r * c[2])
    BY <1>1, <1>2
<1> QED BY <1>1, <1>2, <1>3, <1>4

\* Rounding does not cross a whole number.
LEMMA RoundedBetween ==
    ASSUME NEW c, Scale(c), NEW n \in Nat, NEW r \in Rounded(n, c), NEW k \in Nat
    PROVE  /\ k * c[2] <= n * c[1] => k <= r
           /\ n * c[1] <= k * c[2] => r <= k
<1>1. /\ r \in Nat /\ n * c[1] \in Nat /\ r * c[2] \in Nat
      /\ 2 * (n * c[1]) <= 2 * (r * c[2]) + c[2]
      /\ 2 * (r * c[2]) <= 2 * (n * c[1]) + c[2]
    BY RoundedWithin
<1>2. c[2] \in Nat \ {0} /\ k * c[2] \in Nat
    BY DEF Scale
<1>3. r + 1 <= k => r * c[2] + c[2] <= k * c[2]
    BY <1>1, <1>2
<1>4. k + 1 <= r => k * c[2] + c[2] <= r * c[2]
    BY <1>1, <1>2
<1> QED BY <1>1, <1>2, <1>3, <1>4

\* The larger scale fills the canvas, the smaller fits it.
LEMMA FillFills ==
    ASSUME NEW s \in Sizes
    PROVE  /\ Scale(FillScale(s))
           /\ TargetW * FillScale(s)[2] <= s.w * FillScale(s)[1]
           /\ TargetH * FillScale(s)[2] <= s.h * FillScale(s)[1]
<1>1. s.w \in Nat \ {0} /\ s.h \in Nat \ {0} /\ TargetW \in Nat \ {0} /\ TargetH \in Nat \ {0}
    BY Canvas DEF Sizes
<1>2. CASE TargetW * s.h >= TargetH * s.w
  <2>1. FillScale(s) = <<TargetW, s.w>>
      BY <1>2 DEF FillScale, Higher
  <2> QED BY <1>1, <1>2, <2>1 DEF Scale
<1>3. CASE ~(TargetW * s.h >= TargetH * s.w)
  <2>1. FillScale(s) = <<TargetH, s.h>>
      BY <1>3 DEF FillScale, Higher
  <2> QED BY <1>1, <1>3, <2>1 DEF Scale
<1> QED BY <1>2, <1>3

LEMMA FitIs ==
    ASSUME NEW s \in Sizes
    PROVE  /\ Scale(FitScale(s))
           /\ \/ FitScale(s) = <<TargetW, s.w>> /\ TargetW * s.h <= TargetH * s.w
              \/ FitScale(s) = <<TargetH, s.h>> /\ TargetH * s.w <= TargetW * s.h
<1>1. s.w \in Nat \ {0} /\ s.h \in Nat \ {0} /\ TargetW \in Nat \ {0} /\ TargetH \in Nat \ {0}
    BY Canvas DEF Sizes
<1>2. \/ FitScale(s) = <<TargetW, s.w>> /\ TargetW * s.h <= TargetH * s.w
      \/ FitScale(s) = <<TargetH, s.h>> /\ TargetH * s.w <= TargetW * s.h
  <2>1. CASE TargetW * s.h <= TargetH * s.w
      BY <2>1 DEF FitScale, Lower
  <2>2. CASE ~(TargetW * s.h <= TargetH * s.w)
      BY <1>1, <2>2 DEF FitScale, Lower
  <2> QED BY <2>1, <2>2
<1> QED BY <1>1, <1>2 DEF Scale

(* What is neither too wide nor too tall is scaled to well over the        *)
(* minimal part of the canvas.                                             *)
LEMMA NormalIsLarge ==
    ASSUME Canonical, NEW s \in Sizes, NEW transparent \in BOOLEAN,
           NEW w0 \in Rounded(s.w, FitScale(s)), NEW h0 \in Rounded(s.h, FitScale(s)),
           w0 >= 150, h0 >= 120,
           NEW w \in Rounded(s.w, Blend(s, transparent)),
           NEW h \in Rounded(s.h, Blend(s, transparent))
    PROVE  w \in Nat /\ h \in Nat /\ w >= 166 /\ h >= 132
<1> DEFINE b == Blend(s, transparent)
           fit == FitScale(s)
           fill == FillScale(s)
<1>1. Scale(fit) /\ Scale(fill) /\ Scale(b) /\ s.w \in Nat \ {0} /\ s.h \in Nat \ {0}
    BY FitIs, FillFills, BlendScales DEF Sizes
<1>2. w \in Nat /\ h \in Nat /\ w0 \in Nat /\ h0 \in Nat
    BY <1>1, ScaleRounds
<1>3. 166 * b[2] <= s.w * b[1] /\ 132 * b[2] <= s.h * b[1]
  <2>1. CASE b = fill
    <3>1. 250 * fill[2] <= s.w * fill[1] /\ 200 * fill[2] <= s.h * fill[1]
        BY FillFills DEF Canonical
    <3> QED BY <1>1, <2>1, <3>1 DEF Scale
  <2>2. CASE b = <<10 * fit[1], 9 * fit[2]>>
    <3>1. fit[1] \in Nat /\ fit[2] \in Nat \ {0} /\ s.w * fit[1] \in Nat /\ s.h * fit[1] \in Nat
        BY <1>1 DEF Scale
    <3>2. /\ 2 * (w0 * fit[2]) <= 2 * (s.w * fit[1]) + fit[2]
          /\ 2 * (h0 * fit[2]) <= 2 * (s.h * fit[1]) + fit[2]
        BY <1>1, RoundedWithin
    <3>3. 150 * fit[2] <= w0 * fit[2] /\ 120 * fit[2] <= h0 * fit[2]
        BY <1>2, <3>1
    <3>4. w0 * fit[2] \in Nat /\ h0 * fit[2] \in Nat
        BY <1>2, <3>1
    <3>5. 166 * (9 * fit[2]) <= 10 * (s.w * fit[1]) /\ 132 * (9 * fit[2]) <= 10 * (s.h * fit[1])
        BY <3>1, <3>2, <3>3, <3>4
    <3>6. s.w * (10 * fit[1]) = 10 * (s.w * fit[1]) /\ s.h * (10 * fit[1]) = 10 * (s.h * fit[1])
        BY <1>1, <3>1
    <3>7. b[1] = 10 * fit[1] /\ b[2] = 9 * fit[2]
        BY <2>2
    <3> QED BY <3>5, <3>6, <3>7
  <2>3. CASE b = fit /\ s.w >= s.h /\ 2 * s.w <= 3 * s.h
    <3>1. \/ fit = <<250, s.w>> /\ 250 * s.h <= 200 * s.w
          \/ fit = <<200, s.h>> /\ 200 * s.w <= 250 * s.h
        BY FitIs DEF Canonical
    <3> QED BY <1>1, <2>3, <3>1
  <2> QED
    <3>1. b = fill \/ b = <<10 * fit[1], 9 * fit[2]>> \/ (b = fit /\ s.w >= s.h /\ 2 * s.w <= 3 * s.h)
        BY DEF Blend, Lower
    <3> QED BY <2>1, <2>2, <2>3, <3>1
<1>4. 166 <= w /\ 132 <= h
    BY <1>1, <1>3, RoundedBetween
<1> QED BY <1>2, <1>4

LEMMA CanonicalMinimum ==
    ASSUME Canonical
    PROVE  MinW = 150 /\ MinH = 120
BY DEF Canonical, MinW, MinH

\* A plan that is not clamped, and the sizes it was chosen for.
IsNormal(s, transparent, p) ==
    /\ p \in Normal(s, transparent)
    /\ \E w0 \in Rounded(s.w, FitScale(s)), h0 \in Rounded(s.h, FitScale(s)) :
          w0 >= 150 /\ h0 >= 120

LEMMA PlanIs ==
    ASSUME Canonical,
           NEW s \in Sizes, NEW transparent \in BOOLEAN, NEW p \in Plans(s, transparent)
    PROVE  p \in Wide(s) \/ p \in Tall(s) \/ IsNormal(s, transparent, p)
<1>1. PICK w0 \in Rounded(s.w, FitScale(s)), h0 \in Rounded(s.h, FitScale(s)) :
          p \in IF Clamp(h0, 1, TargetH) < MinH THEN Wide(s)
                ELSE IF Clamp(w0, 1, TargetW) < MinW THEN Tall(s)
                ELSE Normal(s, transparent)
    BY DEF Plans
<1>2. w0 \in Nat /\ h0 \in Nat
    BY FitIs, ScaleRounds DEF Sizes
<1>3. /\ ~(Clamp(h0, 1, TargetH) < MinH) => h0 >= 120
      /\ ~(Clamp(w0, 1, TargetW) < MinW) => w0 >= 150
    BY <1>2, CanonicalMinimum DEF Canonical, Clamp, Least, Most
<1> QED BY <1>1, <1>3 DEF IsNormal

\* What a normal plan scales to.
LEMMA NormalResize ==
    ASSUME Canonical, NEW s \in Sizes, NEW transparent \in BOOLEAN, NEW p, IsNormal(s, transparent, p)
    PROVE  /\ p.resize.w \in Rounded(s.w, Blend(s, transparent))
           /\ p.resize.h \in Rounded(s.h, Blend(s, transparent))
           /\ p.resize.w \in Nat /\ p.resize.h \in Nat
           /\ p.resize.w >= 166 /\ p.resize.h >= 132
           /\ p.crop = Size(Least(p.resize.w, 250), Least(p.resize.h, 200))
           /\ ~p.clamped
<1>1. PICK w \in Rounded(s.w, Blend(s, transparent)), h \in Rounded(s.h, Blend(s, transparent)) :
          p = [resize |-> Size(Most(w, 1), Most(h, 1)),
               crop |-> Size(Least(Most(w, 1), TargetW), Least(Most(h, 1), TargetH)),
               clamped |-> FALSE]
    BY DEF IsNormal, Normal
<1>2. PICK w0 \in Rounded(s.w, FitScale(s)), h0 \in Rounded(s.h, FitScale(s)) : w0 >= 150 /\ h0 >= 120
    BY DEF IsNormal
<1>3. w \in Nat /\ h \in Nat /\ w >= 166 /\ h >= 132
    BY <1>2, NormalIsLarge
<1>4. Most(w, 1) = w /\ Most(h, 1) = h
    BY <1>3 DEF Most
<1>5. p = [resize |-> Size(w, h), crop |-> Size(Least(w, 250), Least(h, 200)), clamped |-> FALSE]
    BY <1>1, <1>4 DEF Canonical
<1>6. p.resize = Size(w, h) /\ p.crop = Size(Least(w, 250), Least(h, 200)) /\ ~p.clamped
    BY <1>5
<1>7. p.resize.w = w /\ p.resize.h = h
    BY <1>6 DEF Size
<1> QED BY <1>3, <1>6, <1>7

(* An image that is taken as it is was to be scaled up by little, so it is *)
(* large enough, too.                                                      *)
LEMMA SkippedIsLarge ==
    ASSUME Canonical, NEW s \in Sizes, NEW transparent \in BOOLEAN, NEW p, IsNormal(s, transparent, p),
           NEW pixel_art, Skipped(s, p, pixel_art)
    PROVE  s.w >= 150 /\ s.h >= 120
<1> DEFINE b == Blend(s, transparent)
           w == p.resize.w
           h == p.resize.h
<1>1. /\ w \in Rounded(s.w, b) /\ h \in Rounded(s.h, b)
      /\ w \in Nat /\ h \in Nat /\ w >= 166 /\ h >= 132
    BY NormalResize
<1>2. s.w \in Nat \ {0} /\ s.h \in Nat \ {0} /\ b[1] \in Nat \ {0} /\ b[2] \in Nat \ {0}
    BY BlendScales DEF Sizes, Scale
<1>3. s.w <= w /\ w - s.w <= 8 /\ 100 * (w - s.w) <= 6 * s.w
    BY <1>1, <1>2 DEF Skipped, Canonical, Distance, Most, Least
<1>4. s.w >= 158
    BY <1>1, <1>2, <1>3
<1>5. /\ s.w * b[1] \in Nat /\ s.h * b[1] \in Nat /\ w * b[2] \in Nat /\ h * b[2] \in Nat
      /\ 2 * (s.w * b[1]) <= 2 * (w * b[2]) + b[2]
      /\ 2 * (h * b[2]) <= 2 * (s.h * b[1]) + b[2]
    BY <1>1, <1>2, BlendScales, RoundedWithin
<1> HIDE DEF b, w, h
<1>6. 263 * s.w <= s.h * (2 * w + 1)
  <2>1. 263 * b[2] <= 2 * (h * b[2]) - b[2]
      BY <1>1, <1>2, <1>5
  <2>2. 263 * b[2] <= 2 * (s.h * b[1])
      BY <1>2, <1>5, <2>1
  <2>3. (263 * b[2]) * s.w <= (2 * (s.h * b[1])) * s.w
      BY <1>2, <1>5, <2>2
  <2>4. (2 * (s.h * b[1])) * s.w = s.h * (2 * (s.w * b[1]))
      BY <1>2
  <2>5. s.h * (2 * (s.w * b[1])) <= s.h * (2 * (w * b[2]) + b[2])
      BY <1>2, <1>5
  <2>6. s.h * (2 * (w * b[2]) + b[2]) = (s.h * (2 * w + 1)) * b[2]
      BY <1>1, <1>2
  <2>7. (263 * s.w) * b[2] <= (s.h * (2 * w + 1)) * b[2]
    <3>1. (263 * b[2]) * s.w = (263 * s.w) * b[2]
        BY <1>2
    <3> QED BY <1>2, <1>5, <2>3, <2>4, <2>5, <2>6, <3>1
  <2> DEFINE x == 263 * s.w
             y == s.h * (2 * w + 1)
  <2>8. x \in Nat /\ y \in Nat /\ x * b[2] <= y * b[2]
      BY <1>1, <1>2, <2>7
  <2> HIDE DEF x, y
  <2>9. x <= y
      BY <1>2, <2>8
  <2> QED BY <2>9 DEF x, y
<1>7. s.h >= 120
  <2>1. SUFFICES ASSUME s.h <= 119 PROVE FALSE
      BY <1>2
  <2>2. s.h * (2 * w + 1) <= 119 * (2 * w + 1)
      BY <1>1, <1>2, <2>1
  <2>3. 263 * s.w <= 119 * (2 * w + 1)
      BY <1>1, <1>2, <1>6, <2>2
  <2> QED BY <1>1, <1>2, <1>3, <1>4, <2>3
<1> QED BY <1>2, <1>4, <1>7

(* deliver.rs: the thumbnail covers the minimal part of the canvas.        *)
LEMMA MinimalPart ==
    ASSUME Canonical, NEW s \in Sizes, NEW transparent \in BOOLEAN, NEW pixel_art \in BOOLEAN,
           NEW f \in fit_to_target(s, transparent, pixel_art)
    PROVE  f.content.w >= MinW /\ f.content.h >= MinH
<1>1. PICK p \in Plans(s, transparent) : \E v \in Windows(s, p) :
          f = [plan |-> p, window |-> v, content |-> IF Skipped(s, p, pixel_art) THEN s ELSE p.crop]
    BY DEF fit_to_target
<1>2. f.content = IF Skipped(s, p, pixel_art) THEN s ELSE p.crop
    BY <1>1
<1>3. CASE p \in Wide(s) \/ p \in Tall(s)
  <2>1. p.clamped /\ p.crop \in {Size(TargetW, MinH), Size(MinW, TargetH)}
      BY <1>3 DEF Wide, Tall
  <2>2. f.content = p.crop
      BY <1>2, <2>1 DEF Skipped
  <2>3. f.content = [w |-> TargetW, h |-> MinH] \/ f.content = [w |-> MinW, h |-> TargetH]
      BY <2>1, <2>2 DEF Size
  <2> QED BY <2>3, CanonicalMinimum DEF Canonical
<1>4. CASE IsNormal(s, transparent, p)
  <2>1. /\ p.resize.w \in Nat /\ p.resize.h \in Nat /\ p.resize.w >= 166 /\ p.resize.h >= 132
        /\ p.crop = Size(Least(p.resize.w, 250), Least(p.resize.h, 200))
      BY <1>4, NormalResize
  <2>2. p.crop.w >= 150 /\ p.crop.h >= 120
    <3>1. p.crop.w = Least(p.resize.w, 250) /\ p.crop.h = Least(p.resize.h, 200)
        BY <2>1 DEF Size
    <3> QED BY <2>1, <3>1 DEF Least
  <2>3. Skipped(s, p, pixel_art) => s.w >= 150 /\ s.h >= 120
      BY <1>4, SkippedIsLarge
  <2> QED BY <1>2, <2>2, <2>3, CanonicalMinimum
<1> QED BY <1>1, <1>3, <1>4, PlanIs

LEMMA FillIs ==
    ASSUME NEW s \in Sizes
    PROVE  \/ FillScale(s) = <<TargetW, s.w>> /\ TargetH * s.w <= TargetW * s.h
           \/ FillScale(s) = <<TargetH, s.h>> /\ TargetW * s.h <= TargetH * s.w
<1>1. s.w \in Nat \ {0} /\ s.h \in Nat \ {0} /\ TargetW \in Nat \ {0} /\ TargetH \in Nat \ {0}
    BY Canvas DEF Sizes
<1>2. CASE TargetW * s.h >= TargetH * s.w
    BY <1>1, <1>2 DEF FillScale, Higher
<1>3. CASE ~(TargetW * s.h >= TargetH * s.w)
    BY <1>1, <1>3 DEF FillScale, Higher
<1> QED BY <1>2, <1>3

\* The sides of an image after it was scaled.
LEMMA ScaledSides ==
    ASSUME NEW s \in Sizes, NEW c, Scale(c), NEW g \in ScaledBy(s, c)
    PROVE  /\ g \in Sizes
           /\ \E w \in Rounded(s.w, c), h \in Rounded(s.h, c) :
                 /\ g.w = Most(w, 1) /\ g.h = Most(h, 1)
                 /\ w \in Nat /\ h \in Nat
<1>1. PICK w \in Rounded(s.w, c), h \in Rounded(s.h, c) : g = [w |-> Most(w, 1), h |-> Most(h, 1)]
    BY DEF ScaledBy, Size
<1>2. w \in Nat /\ h \in Nat
    BY ScaleRounds DEF Sizes
<1>3. Most(w, 1) \in Nat \ {0} /\ Most(h, 1) \in Nat \ {0}
    BY <1>2 DEF Most
<1>4. g \in Sizes
    BY <1>1, <1>3 DEF Sizes
<1> QED BY <1>1, <1>2, <1>4

\* What was scaled to fill the canvas covers it.
LEMMA FilledCovers ==
    ASSUME NEW s \in Sizes, NEW c \in ScaledBy(s, FillScale(s))
    PROVE  /\ c \in Sizes /\ c.w >= TargetW /\ c.h >= TargetH
           /\ c.w \in Rounded(s.w, FillScale(s)) /\ c.h \in Rounded(s.h, FillScale(s))
<1>1. PICK w \in Rounded(s.w, FillScale(s)), h \in Rounded(s.h, FillScale(s)) :
          c.w = Most(w, 1) /\ c.h = Most(h, 1) /\ w \in Nat /\ h \in Nat
    BY FillFills, ScaledSides
<1>2. TargetW <= w /\ TargetH <= h
    BY FillFills, RoundedBetween, Canvas DEF Sizes
<1>3. Most(w, 1) = w /\ Most(h, 1) = h
    BY <1>1, <1>2, Canvas DEF Most
<1> QED BY <1>1, <1>2, <1>3, FillFills, ScaledSides

(* The image library's resize keeps the proportions within the size it is  *)
(* asked for, which costs tier 2 at most one column.                       *)
LEMMA PreScaled ==
    ASSUME Canonical, NEW s \in Sizes, NEW g \in pre_scale(s)
    PROVE  /\ g \in Sizes /\ g.w >= 249 /\ g.h >= 200
           /\ \E c : Scale(c) /\ g.w \in Rounded(s.w, c) /\ g.h \in Rounded(s.h, c)
<1> DEFINE fill == FillScale(s)
<1>1. PICK c \in ScaledBy(s, fill) : g \in ScaledBy(s, Lower(<<c.w, s.w>>, <<c.h, s.h>>))
    BY DEF pre_scale
<1>2. /\ c.w \in Nat \ {0} /\ c.h \in Nat \ {0} /\ c.w >= 250 /\ c.h >= 200
      /\ c.w \in Rounded(s.w, fill) /\ c.h \in Rounded(s.h, fill)
    BY FilledCovers DEF Sizes, Canonical
<1>3. s.w \in Nat \ {0} /\ s.h \in Nat \ {0}
    BY DEF Sizes
<1>4. PICK q \in {<<c.w, s.w>>, <<c.h, s.h>>} : Lower(<<c.w, s.w>>, <<c.h, s.h>>) = q
    BY DEF Lower
<1>5. Scale(q)
    BY <1>2, <1>3, <1>4 DEF Scale
<1>6. g \in Sizes
    BY <1>1, <1>4, <1>5, ScaledSides
<1>7. PICK w \in Rounded(s.w, q), h \in Rounded(s.h, q) :
          g.w = Most(w, 1) /\ g.h = Most(h, 1) /\ w \in Nat /\ h \in Nat
    BY <1>1, <1>4, <1>5, ScaledSides
<1>8. w >= 249 /\ h >= 200
  <2>1. \/ fill = <<250, s.w>> /\ 200 * s.w <= 250 * s.h
        \/ fill = <<200, s.h>> /\ 250 * s.h <= 200 * s.w
      BY FillIs DEF Canonical
  <2>2. CASE q = <<c.w, s.w>>
    <3>1. c.w <= w
        BY <1>2, <1>3, <1>5, <2>2, RoundedBetween
    <3>2. CASE fill = <<250, s.w>> /\ 200 * s.w <= 250 * s.h
      <4>1. 250 * s.h <= c.w * s.h
          BY <1>2, <1>3
      <4>2. 200 * s.w <= s.h * c.w
          BY <1>2, <1>3, <3>2, <4>1
      <4>3. 200 <= h
          BY <1>3, <1>5, <2>2, <4>2, RoundedBetween
      <4> QED BY <1>2, <1>7, <3>1, <4>3
    <3>3. CASE fill = <<200, s.h>> /\ 250 * s.h <= 200 * s.w
      <4>1. 2 * (s.w * 200) <= 2 * (c.w * s.h) + s.h
          BY <1>2, <1>3, <3>3, RoundedWithin, FillFills
      <4>2. 2 * (s.h * c.w) <= 2 * (h * s.w) + s.w
          BY <1>3, <1>5, <2>2, RoundedWithin
      <4>3. h <= 199 => h * s.w <= 199 * s.w
          BY <1>3, <1>7
      <4>4. c.w * s.h = s.h * c.w /\ c.w * s.h \in Nat /\ h * s.w \in Nat
          BY <1>2, <1>3, <1>7
      <4>5. 200 <= h
          BY <1>3, <1>7, <3>3, <4>1, <4>2, <4>3, <4>4
      <4> QED BY <1>2, <1>7, <3>1, <4>5
    <3> QED BY <2>1, <3>2, <3>3
  <2>3. CASE q = <<c.h, s.h>>
    <3>1. c.h <= h
        BY <1>2, <1>3, <1>5, <2>3, RoundedBetween
    <3>2. CASE fill = <<200, s.h>> /\ 250 * s.h <= 200 * s.w
      <4>1. 200 * s.w <= c.h * s.w
          BY <1>2, <1>3
      <4>2. 250 * s.h <= s.w * c.h
          BY <1>2, <1>3, <3>2, <4>1
      <4>3. 250 <= w
          BY <1>3, <1>5, <2>3, <4>2, RoundedBetween
      <4> QED BY <1>2, <1>7, <3>1, <4>3
    <3>3. CASE fill = <<250, s.w>> /\ 200 * s.w <= 250 * s.h
      <4>1. 2 * (s.h * 250) <= 2 * (c.h * s.w) + s.w
          BY <1>2, <1>3, <3>3, RoundedWithin, FillFills
      <4>2. 2 * (s.w * c.h) <= 2 * (w * s.h) + s.h
          BY <1>3, <1>5, <2>3, RoundedWithin
      <4>3. w <= 248 => w * s.h <= 248 * s.h
          BY <1>3, <1>7
      <4>4. c.h * s.w = s.w * c.h /\ c.h * s.w \in Nat /\ w * s.h \in Nat
          BY <1>2, <1>3, <1>7
      <4>5. 249 <= w
          BY <1>3, <1>7, <3>3, <4>1, <4>2, <4>3, <4>4
      <4> QED BY <1>2, <1>7, <3>1, <4>5
    <3> QED BY <2>1, <3>2, <3>3
  <2> QED BY <1>4, <2>2, <2>3
<1>9. g.w = w /\ g.h = h
    BY <1>7, <1>8 DEF Most
<1> QED BY <1>5, <1>6, <1>7, <1>8, <1>9

\* Of the two scales and what lies between, none is above the one that fills.
LEMMA BlendBelowFill ==
    ASSUME NEW s \in Sizes, NEW transparent \in BOOLEAN
    PROVE  Blend(s, transparent)[1] * FillScale(s)[2] <= FillScale(s)[1] * Blend(s, transparent)[2]
<1> DEFINE fit == FitScale(s)
           fill == FillScale(s)
           b == Blend(s, transparent)
           more == <<10 * fit[1], 9 * fit[2]>>
<1>1. /\ s.w \in Nat \ {0} /\ s.h \in Nat \ {0} /\ TargetW \in Nat \ {0} /\ TargetH \in Nat \ {0}
      /\ Scale(fit) /\ Scale(fill)
    BY Canvas, FitIs, FillFills DEF Sizes
<1>2. fit[1] * fill[2] <= fill[1] * fit[2]
    BY <1>1, FitIs, FillIs
<1>3. b = fit \/ b = fill \/ (b = more /\ ~(fill[1] * more[2] <= more[1] * fill[2]))
    BY DEF Blend, Lower
<1>4. more[1] = 10 * fit[1] /\ more[2] = 9 * fit[2]
    OBVIOUS
<1> SUFFICES b[1] * fill[2] <= fill[1] * b[2]
    OBVIOUS
<1> HIDE DEF fit, fill, b, more
<1>5. CASE b = fill
  <2>1. fill[1] \in Nat /\ fill[2] \in Nat
      BY <1>1 DEF Scale
  <2> QED BY <1>5, <2>1
<1>6. CASE b = more /\ ~(fill[1] * more[2] <= more[1] * fill[2])
  <2>1. more[1] \in Nat /\ more[2] \in Nat /\ fill[1] \in Nat /\ fill[2] \in Nat
      BY <1>1, <1>4 DEF Scale
  <2>2. b[1] = more[1] /\ b[2] = more[2]
      BY <1>6
  <2>3. more[1] * fill[2] < fill[1] * more[2]
      BY <1>6, <2>1
  <2> QED BY ONLY <2>2, <2>3, <2>1
<1> QED BY <1>2, <1>3, <1>5, <1>6

\* What is neither shrunk nor almost square is scaled to little over what fits.
LEMMA BlendNearFit ==
    ASSUME NEW s \in Sizes, NEW transparent \in BOOLEAN, ~(s.w >= s.h /\ 2 * s.w <= 3 * s.h)
    PROVE  Blend(s, transparent)[1] * (9 * FitScale(s)[2]) <= (10 * FitScale(s)[1]) * Blend(s, transparent)[2]
<1> DEFINE fit == FitScale(s)
           fill == FillScale(s)
           b == Blend(s, transparent)
           more == <<10 * fit[1], 9 * fit[2]>>
<1>1. Scale(fit) /\ Scale(fill)
    BY FitIs, FillFills
<1>2. b = more \/ (b = fill /\ fill[1] * more[2] <= more[1] * fill[2])
    BY DEF Blend, Lower
<1>3. more[1] = 10 * fit[1] /\ more[2] = 9 * fit[2]
    OBVIOUS
<1> HIDE DEF fit, fill, b, more
<1>4. b[1] * more[2] <= more[1] * b[2]
    BY <1>1, <1>2, <1>3 DEF Scale
<1> QED BY <1>3, <1>4 DEF b, fit

(* An image that covers the canvas, but for a column tier 2 may lose, is   *)
(* scaled to no more than its size and that column.                        *)
LEMMA ResizeShrinks ==
    ASSUME Canonical, NEW lost \in {0, 1}, NEW s \in Sizes, s.w + lost >= 250, s.h >= 200,
           NEW transparent \in BOOLEAN, NEW p, IsNormal(s, transparent, p)
    PROVE  p.resize.w <= s.w + lost /\ p.resize.h <= s.h + lost
<1> DEFINE b == Blend(s, transparent)
           fit == FitScale(s)
           fill == FillScale(s)
<1>1. p.resize.w \in Rounded(s.w, b) /\ p.resize.h \in Rounded(s.h, b)
    BY NormalResize
<1>2. s.w \in Nat \ {0} /\ s.h \in Nat \ {0}
    BY DEF Sizes
<1>3. /\ Scale(b) /\ Scale(fit) /\ Scale(fill)
      /\ b[1] \in Nat \ {0} /\ b[2] \in Nat \ {0}
    BY BlendScales, FitIs, FillFills DEF Scale
<1>4. b[1] * fill[2] <= fill[1] * b[2]
    BY BlendBelowFill
<1>5. CASE b[1] <= b[2]
  <2>1. s.w * b[1] <= s.w * b[2] /\ s.h * b[1] <= s.h * b[2]
      BY <1>2, <1>3, <1>5
  <2>2. p.resize.w <= s.w /\ p.resize.h <= s.h
      BY <1>1, <1>2, <1>3, <2>1, RoundedBetween
  <2>3. p.resize.w \in Nat /\ p.resize.h \in Nat
      BY NormalResize
  <2> QED BY <1>2, <2>2, <2>3
<1>6. CASE b[1] > b[2]
  <2>1. \/ fill = <<250, s.w>>
        \/ fill = <<200, s.h>>
      BY FillIs DEF Canonical
  <2>2. fill[1] > fill[2]
    <3>1. SUFFICES ASSUME fill[1] <= fill[2] PROVE FALSE
        BY <1>3 DEF Scale
    <3>2. fill[1] \in Nat \ {0} /\ fill[2] \in Nat \ {0}
        BY <1>3 DEF Scale
    <3>3. b[2] * fill[2] < b[1] * fill[2]
        BY <1>3, <1>6, <3>2
    <3>4. fill[1] * b[2] <= b[2] * fill[2]
        BY <1>3, <3>1, <3>2
    <3>5. b[2] * fill[2] \in Nat /\ b[1] * fill[2] \in Nat /\ fill[1] * b[2] \in Nat
        BY <1>3, <3>2
    <3> QED BY <1>4, <3>3, <3>4, <3>5
  <2>3. fill = <<250, 249>> /\ s.w = 249 /\ lost = 1
      BY <1>2, <2>1, <2>2
  <2>4. b[1] * 249 <= 250 * b[2]
      BY <1>4, <2>3
  <2>5. s.h <= 249
    <3>1. CASE s.w >= s.h
        BY <1>2, <2>3, <3>1
    <3>2. CASE ~(s.w >= s.h)
      <4>1. b[1] * (9 * fit[2]) <= (10 * fit[1]) * b[2]
          BY <3>2, BlendNearFit
      <4>2. fit = <<200, s.h>> \/ (fit = <<250, s.w>> /\ 250 * s.h <= 200 * s.w)
          BY FitIs DEF Canonical
      <4>3. fit = <<200, s.h>>
          BY <1>2, <2>3, <3>2, <4>2
      <4>4. b[1] * (9 * s.h) <= 2000 * b[2]
          BY <4>1, <4>3
      <4>5. b[2] * (9 * s.h) <= b[1] * (9 * s.h)
          BY <1>2, <1>3, <1>6
      <4>6. b[2] * (9 * s.h) <= 2000 * b[2]
          BY <1>2, <1>3, <4>4, <4>5
      <4>7. s.h >= 250 => b[2] * (9 * s.h) >= b[2] * 2250
          BY <1>2, <1>3
      <4> QED BY <1>2, <1>3, <4>6, <4>7
    <3> QED BY <3>1, <3>2
  <2>6. s.w * b[1] <= 250 * b[2]
    <3>1. s.w * b[1] = 249 * b[1] /\ b[1] * 249 = 249 * b[1]
        BY <1>3, <2>3
    <3> QED BY <2>4, <3>1
  <2>7. s.h * b[1] <= (s.h + 1) * b[2]
    <3> DEFINE e == b[1] - b[2]
    <3>1. e \in Nat /\ b[1] = b[2] + e
        BY <1>3, <1>6
    <3> HIDE DEF e
    <3>2. 249 * e <= b[2]
        BY <1>3, <2>4, <3>1
    <3>3. s.h * e <= 249 * e
        BY <1>2, <2>5, <3>1
    <3>4. s.h * b[1] = s.h * b[2] + s.h * e /\ (s.h + 1) * b[2] = s.h * b[2] + b[2]
        BY <1>2, <1>3, <3>1
    <3>5. s.h * e \in Nat /\ s.h * b[2] \in Nat
        BY <1>2, <1>3, <3>1
    <3> QED BY <1>3, <3>1, <3>2, <3>3, <3>4, <3>5
  <2>8. p.resize.w <= 250 /\ p.resize.h <= s.h + 1
      BY <1>1, <1>2, <1>3, <2>6, <2>7, RoundedBetween
  <2> QED BY <2>3, <2>8
<1> QED BY <1>3, <1>5, <1>6

\* A window is as large as the part it is scaled to, but for the column.
LEMMA WindowHolds ==
    ASSUME NEW n \in Nat \ {0}, NEW part \in Nat \ {0}, NEW whole \in Nat \ {0}, NEW lost \in {0, 1},
           part <= whole, whole <= n + lost, part <= n + lost,
           NEW q \in Nearest(part * n, whole)
    PROVE  Clamp(q, 1, n) + lost >= part
<1> DEFINE c == <<part, whole>>
<1>1. Scale(c)
    BY DEF Scale
<1>2. part * n = n * part
    OBVIOUS
<1>3. q \in Rounded(n, c)
    BY <1>2 DEF Rounded, Times
<1>4. q \in Nat
    BY <1>1, <1>3, ScaleRounds
<1>5. CASE lost = 0
  <2>1. part * whole <= n * part
      BY <1>5
  <2>2. part <= q
      BY <1>1, <1>3, <2>1, RoundedBetween
  <2> QED BY <1>4, <1>5, <2>2 DEF Clamp, Least, Most
<1>6. CASE lost = 1
  <2> DEFINE less == part - 1
  <2>1. less \in Nat /\ part = less + 1
      OBVIOUS
  <2>2. less * whole <= n * part
    <3> HIDE DEF less
    <3>1. part * whole <= part * (n + 1)
        BY <1>6
    <3>2. part * whole = less * whole + whole /\ part * (n + 1) = n * part + part
        BY <2>1
    <3>3. less * whole \in Nat /\ n * part \in Nat
        BY <2>1
    <3> QED BY <3>1, <3>2, <3>3
  <2>3. less <= q
      BY <1>1, <1>3, <2>1, <2>2, RoundedBetween
  <2> QED BY <1>4, <1>6, <2>3 DEF Clamp, Least, Most
<1> QED BY <1>5, <1>6

\* What is scaled by no more than 1 does not grow.
LEMMA RoundedShrinks ==
    ASSUME NEW n \in Nat \ {0}, NEW c, Scale(c), c[1] <= c[2], NEW r \in Rounded(n, c)
    PROVE  r \in Nat /\ r <= n
<1>1. c[1] \in Nat /\ c[2] \in Nat
    BY DEF Scale
<1>2. n * c[1] <= n * c[2]
    BY <1>1
<1> QED BY <1>2, RoundedBetween, ScaleRounds

(* deliver.rs: the window a large enough image is read through is no       *)
(* smaller than what it is scaled to.                                      *)
LEMMA NotScaledUp ==
    ASSUME Canonical, NEW lost \in {0, 1}, NEW s \in Sizes, s.w + lost >= 250, s.h >= 200,
           NEW transparent \in BOOLEAN, NEW pixel_art \in BOOLEAN,
           NEW f \in fit_to_target(s, transparent, pixel_art),
           NEW scaled, scaled = IF f.plan.clamped THEN f.plan.crop ELSE f.plan.resize
    PROVE  f.window.w + lost >= scaled.w /\ f.window.h + lost >= scaled.h
<1>1. PICK p \in Plans(s, transparent) : \E v \in Windows(s, p) :
          f = [plan |-> p, window |-> v, content |-> IF Skipped(s, p, pixel_art) THEN s ELSE p.crop]
    BY DEF fit_to_target
<1>2. PICK v \in Windows(s, p) :
          f = [plan |-> p, window |-> v, content |-> IF Skipped(s, p, pixel_art) THEN s ELSE p.crop]
    BY <1>1
<1>3. f.window = v /\ scaled = IF p.clamped THEN p.crop ELSE p.resize
    BY <1>2
<1>4. s.w \in Nat \ {0} /\ s.h \in Nat \ {0}
    BY DEF Sizes
<1>5. CASE IsNormal(s, transparent, p)
  <2>1. ~p.clamped
      BY <1>5, NormalResize
  <2>2. v = [x |-> 0, y |-> 0, w |-> s.w, h |-> s.h]
      BY <2>1 DEF Windows
  <2>3. v.w = s.w /\ v.h = s.h /\ scaled = p.resize
      BY <1>3, <2>1, <2>2
  <2> QED BY <1>3, <1>5, <2>3, ResizeShrinks
<1>6. ASSUME p.clamped
      PROVE  \E qw \in Nearest(p.crop.w * s.w, p.resize.w), qh \in Nearest(p.crop.h * s.h, p.resize.h) :
                v.w = Clamp(qw, 1, s.w) /\ v.h = Clamp(qh, 1, s.h)
  <2>1. PICK w \in {Clamp(q, 1, s.w) : q \in Nearest(p.crop.w * s.w, p.resize.w)},
             h \in {Clamp(q, 1, s.h) : q \in Nearest(p.crop.h * s.h, p.resize.h)} :
             v.w = w /\ v.h = h
      BY <1>6 DEF Windows
  <2> QED BY <2>1
<1>7. CASE p \in Wide(s)
  <2>1. PICK w \in Rounded(s.w, <<120, s.h>>) :
            p = [resize |-> [w |-> Most(w, 250), h |-> 120], crop |-> [w |-> 250, h |-> 120],
                 clamped |-> TRUE]
      BY <1>7, CanonicalMinimum DEF Wide, Canonical, Size
  <2>2. /\ p.clamped /\ p.resize.w = Most(w, 250) /\ p.resize.h = 120
        /\ p.crop.w = 250 /\ p.crop.h = 120
      BY <2>1
  <2>3. w \in Nat /\ w <= s.w
    <3>1. Scale(<<120, s.h>>) /\ <<120, s.h>>[1] <= <<120, s.h>>[2]
        BY <1>4 DEF Scale
    <3> QED BY <1>4, <3>1, RoundedShrinks
  <2>4. Most(w, 250) \in Nat \ {0} /\ 250 <= Most(w, 250) /\ Most(w, 250) <= s.w + lost
      BY <1>4, <2>3 DEF Most
  <2>5. PICK qw \in Nearest(250 * s.w, Most(w, 250)), qh \in Nearest(120 * s.h, 120) :
            v.w = Clamp(qw, 1, s.w) /\ v.h = Clamp(qh, 1, s.h)
      BY <1>6, <2>2
  <2>6. v.w + lost >= 250
      BY <1>4, <2>4, <2>5, WindowHolds
  <2>7. v.h + lost >= 120
      BY <1>4, <2>5, WindowHolds
  <2> QED BY <1>3, <2>2, <2>6, <2>7
<1>8. CASE p \in Tall(s)
  <2>1. PICK h \in Rounded(s.h, <<150, s.w>>) :
            p = [resize |-> [w |-> 150, h |-> Most(h, 200)], crop |-> [w |-> 150, h |-> 200],
                 clamped |-> TRUE]
      BY <1>8, CanonicalMinimum DEF Tall, Canonical, Size
  <2>2. /\ p.clamped /\ p.resize.w = 150 /\ p.resize.h = Most(h, 200)
        /\ p.crop.w = 150 /\ p.crop.h = 200
      BY <2>1
  <2>3. h \in Nat /\ h <= s.h
    <3>1. Scale(<<150, s.w>>) /\ <<150, s.w>>[1] <= <<150, s.w>>[2]
        BY <1>4 DEF Scale
    <3> QED BY <1>4, <3>1, RoundedShrinks
  <2>4. Most(h, 200) \in Nat \ {0} /\ 200 <= Most(h, 200) /\ Most(h, 200) <= s.h + lost
      BY <1>4, <2>3 DEF Most
  <2>5. PICK qw \in Nearest(150 * s.w, 150), qh \in Nearest(200 * s.h, Most(h, 200)) :
            v.w = Clamp(qw, 1, s.w) /\ v.h = Clamp(qh, 1, s.h)
      BY <1>6, <2>2
  <2>6. v.w + lost >= 150
      BY <1>4, <2>5, WindowHolds
  <2>7. v.h + lost >= 200
      BY <1>4, <2>4, <2>5, WindowHolds
  <2> QED BY <1>3, <2>2, <2>6, <2>7
<1> QED BY <1>1, <1>5, <1>7, <1>8, PlanIs

-----------------------------------------------------------------------------
(* How far the proportions of g are from those of d: k halves of a pixel   *)
(* of the longer side.                                                     *)
Skew(g, d, k) == 2 * Distance(g.w * d.h, g.h * d.w) <= k * Most(d.w, d.h)

(* One side of it, for a scale a / b that leaves 2 * b * x within u and v  *)
(* of the exact value.                                                     *)
LEMMA SkewScaled ==
    ASSUME NEW a \in Nat, NEW b \in Nat \ {0}, NEW k \in Nat, NEW j \in Nat, a * k <= j * b,
           NEW x \in Nat, NEW y \in Nat, NEW X \in Nat, NEW Y \in Nat, NEW M \in Nat,
           NEW p \in Nat, NEW q \in Nat, NEW u \in Nat, NEW v \in Nat,
           2 * (b * p) <= 2 * (a * x) + u, 2 * (a * y) <= 2 * (b * q) + v,
           u * Y + v * X <= 2 * (b * M),
           2 * (x * Y) <= 2 * (y * X) + k * M
    PROVE  2 * (p * Y) <= 2 * (q * X) + (j + 2) * M
<1> DEFINE bpY == b * (p * Y)
           bqX == b * (q * X)
           axY == a * (x * Y)
           ayX == a * (y * X)
           akM == a * (k * M)
           bM == b * M
           bjM == b * (j * M)
<1>1. /\ bpY \in Nat /\ bqX \in Nat /\ axY \in Nat /\ ayX \in Nat /\ akM \in Nat
      /\ bM \in Nat /\ bjM \in Nat /\ u * Y \in Nat /\ v * X \in Nat
    OBVIOUS
<1>2. 2 * bpY <= 2 * axY + u * Y
  <2>1. (2 * (b * p)) * Y <= (2 * (a * x) + u) * Y
      OBVIOUS
  <2>2. (2 * (b * p)) * Y = 2 * bpY /\ (2 * (a * x) + u) * Y = 2 * axY + u * Y
      OBVIOUS
  <2> QED BY <2>1, <2>2
<1>3. 2 * ayX <= 2 * bqX + v * X
  <2>1. (2 * (a * y)) * X <= (2 * (b * q) + v) * X
      OBVIOUS
  <2>2. (2 * (a * y)) * X = 2 * ayX /\ (2 * (b * q) + v) * X = 2 * bqX + v * X
      OBVIOUS
  <2> QED BY <2>1, <2>2
<1>4. 2 * axY <= 2 * ayX + akM
  <2>1. a * (2 * (x * Y)) <= a * (2 * (y * X) + k * M)
      OBVIOUS
  <2>2. a * (2 * (x * Y)) = 2 * axY /\ a * (2 * (y * X) + k * M) = 2 * ayX + akM
      OBVIOUS
  <2> QED BY <2>1, <2>2
<1>5. akM <= bjM
  <2>1. (a * k) * M <= (j * b) * M
      OBVIOUS
  <2>2. (a * k) * M = akM /\ (j * b) * M = bjM
      OBVIOUS
  <2> QED BY <2>1, <2>2
<1>6. 2 * bpY <= 2 * bqX + bjM + 2 * bM
  <2> HIDE DEF bpY, bqX, axY, ayX, akM, bM, bjM
  <2>1. u * Y + v * X <= 2 * bM
      BY DEF bM
  <2> QED BY <1>1, <1>2, <1>3, <1>4, <1>5, <2>1
<1> DEFINE lhs == 2 * (p * Y)
           rhs == 2 * (q * X) + (j + 2) * M
<1>7. lhs \in Nat /\ rhs \in Nat
    OBVIOUS
<1>8. b * lhs = 2 * bpY /\ b * rhs = 2 * bqX + bjM + 2 * bM
    OBVIOUS
<1>9. b * lhs <= b * rhs
    BY <1>6, <1>8
<1>10. lhs <= rhs
  <2> HIDE DEF lhs, rhs
  <2> QED BY <1>7, <1>9
<1> QED BY <1>10

LEMMA SkewIs ==
    ASSUME NEW g, NEW d, NEW k \in Nat, g.w \in Nat, g.h \in Nat, d.w \in Nat, d.h \in Nat
    PROVE  /\ Most(d.w, d.h) \in Nat /\ d.w <= Most(d.w, d.h) /\ d.h <= Most(d.w, d.h)
           /\ Skew(g, d, k) <=>
                /\ 2 * (g.w * d.h) <= 2 * (g.h * d.w) + k * Most(d.w, d.h)
                /\ 2 * (g.h * d.w) <= 2 * (g.w * d.h) + k * Most(d.w, d.h)
<1>1. Most(d.w, d.h) \in Nat /\ d.w <= Most(d.w, d.h) /\ d.h <= Most(d.w, d.h)
    BY DEF Most
<1> DEFINE x == g.w * d.h
           y == g.h * d.w
           m == k * Most(d.w, d.h)
<1>2. x \in Nat /\ y \in Nat /\ m \in Nat
    BY <1>1
<1>3. Skew(g, d, k) <=> 2 * Distance(x, y) <= m
    BY DEF Skew
<1> HIDE DEF x, y, m
<1>4. Distance(x, y) = IF x >= y THEN x - y ELSE y - x
    BY <1>2 DEF Distance, Most, Least
<1>5. Skew(g, d, k) <=> 2 * x <= 2 * y + m /\ 2 * y <= 2 * x + m
    BY <1>2, <1>3, <1>4
<1> QED BY <1>1, <1>5 DEF x, y, m

\* Both sides scaled by the same scale and rounded.
LEMMA SkewRounded ==
    ASSUME NEW c, Scale(c), NEW k \in Nat, NEW j \in Nat, c[1] * k <= j * c[2],
           NEW g \in Sizes, NEW d \in Sizes, Skew(g, d, k),
           NEW r, r.w \in Rounded(g.w, c), r.h \in Rounded(g.h, c)
    PROVE  Skew(r, d, j + 2)
<1> DEFINE M == Most(d.w, d.h)
           a == c[1]
           b == c[2]
<1>1. /\ g.w \in Nat /\ g.h \in Nat /\ d.w \in Nat /\ d.h \in Nat
      /\ a \in Nat \ {0} /\ b \in Nat \ {0}
    BY DEF Sizes, Scale
<1>2. /\ r.w \in Nat /\ r.h \in Nat
      /\ 2 * (g.w * a) <= 2 * (r.w * b) + b /\ 2 * (r.w * b) <= 2 * (g.w * a) + b
      /\ 2 * (g.h * a) <= 2 * (r.h * b) + b /\ 2 * (r.h * b) <= 2 * (g.h * a) + b
    BY <1>1, RoundedWithin
<1>3. /\ M \in Nat /\ d.w <= M /\ d.h <= M
      /\ 2 * (g.w * d.h) <= 2 * (g.h * d.w) + k * M
      /\ 2 * (g.h * d.w) <= 2 * (g.w * d.h) + k * M
    BY <1>1, SkewIs
<1> HIDE DEF M, a, b
<1>4. /\ g.w * a = a * g.w /\ g.h * a = a * g.h
      /\ r.w * b = b * r.w /\ r.h * b = b * r.h
    BY <1>1, <1>2
<1>5. a * k <= j * b
    BY DEF a, b
<1>6. b * d.h + b * d.w <= 2 * (b * M)
  <2>1. b * d.h <= b * M /\ b * d.w <= b * M
      BY <1>1, <1>3
  <2>2. b * d.h \in Nat /\ b * d.w \in Nat /\ b * M \in Nat
      BY <1>1, <1>3
  <2> QED BY <2>1, <2>2
<1>7. b * d.w + b * d.h <= 2 * (b * M)
    BY <1>1, <1>6
<1>8. 2 * (r.w * d.h) <= 2 * (r.h * d.w) + (j + 2) * M
    BY <1>1, <1>2, <1>3, <1>4, <1>5, <1>6, SkewScaled
<1>9. 2 * (r.h * d.w) <= 2 * (r.w * d.h) + (j + 2) * M
    BY <1>1, <1>2, <1>3, <1>4, <1>5, <1>7, SkewScaled
<1> QED BY <1>1, <1>2, <1>8, <1>9, SkewIs DEF M

LEMMA SkewOfSame ==
    ASSUME NEW d \in Sizes
    PROVE  Skew(d, d, 0)
<1>1. d.w \in Nat /\ d.h \in Nat /\ d.w * d.h = d.h * d.w
    BY DEF Sizes
<1> QED BY <1>1, SkewIs

\* What the halvings drop is less than a pixel of the halved image.
LEMMA HalvedSkew ==
    ASSUME NEW d \in Sizes, NEW h \in Halved(d)
    PROVE  h = d \/ (h \in Sizes /\ h.w >= 2 * TargetW /\ h.h >= 2 * TargetH /\ Skew(h, d, 2))
<1>1. PICK n \in Divisors : /\ h = Size(d.w \div n, d.h \div n)
                            /\ n = 1 \/ (d.w \div n >= TargetW * 2 /\ d.h \div n >= TargetH * 2)
    BY DEF Halved
<1>2. n \in Nat \ {0} /\ d.w \in Nat \ {0} /\ d.h \in Nat \ {0} /\ d = [w |-> d.w, h |-> d.h]
    BY DEF Divisors, Sizes
<1>3. CASE n = 1
  <2>1. d.w \div n = d.w /\ d.h \div n = d.h
      BY <1>2, <1>3
  <2> QED BY <1>1, <1>2, <2>1 DEF Size
<1>4. CASE n # 1
  <2>1. /\ h.w = d.w \div n /\ h.h = d.h \div n
        /\ h = [w |-> d.w \div n, h |-> d.h \div n]
      BY <1>1 DEF Size
  <2>2. /\ h.w \in Nat /\ n * h.w <= d.w /\ d.w < n * (h.w + 1)
        /\ h.h \in Nat /\ n * h.h <= d.h /\ d.h < n * (h.h + 1)
      BY <1>2, <2>1, Quotient
  <2>3. h \in Sizes /\ h.w >= 2 * TargetW /\ h.h >= 2 * TargetH
      BY <1>1, <1>4, <2>1, <2>2, Canvas DEF Sizes
  <2>4. h.w * d.h <= h.h * d.w + d.w
    <3>1. h.w * d.h <= h.w * (n * (h.h + 1))
        BY <1>2, <2>2
    <3>2. h.w * (n * (h.h + 1)) = (n * h.w) * (h.h + 1)
        BY <1>2, <2>2
    <3>3. (n * h.w) * (h.h + 1) <= d.w * (h.h + 1)
        BY <1>2, <2>2
    <3>4. d.w * (h.h + 1) = h.h * d.w + d.w
        BY <1>2, <2>2
    <3> QED BY <1>2, <2>2, <3>1, <3>2, <3>3, <3>4
  <2>5. h.h * d.w <= h.w * d.h + d.h
    <3>1. h.h * d.w <= h.h * (n * (h.w + 1))
        BY <1>2, <2>2
    <3>2. h.h * (n * (h.w + 1)) = (n * h.h) * (h.w + 1)
        BY <1>2, <2>2
    <3>3. (n * h.h) * (h.w + 1) <= d.h * (h.w + 1)
        BY <1>2, <2>2
    <3>4. d.h * (h.w + 1) = h.w * d.h + d.h
        BY <1>2, <2>2
    <3> QED BY <1>2, <2>2, <3>1, <3>2, <3>3, <3>4
  <2>6. Most(d.w, d.h) \in Nat /\ d.w <= Most(d.w, d.h) /\ d.h <= Most(d.w, d.h)
      BY <1>2 DEF Most
  <2>7. h.w * d.h \in Nat /\ h.h * d.w \in Nat
      BY <1>2, <2>2
  <2>8. Skew(h, d, 2)
      BY <1>2, <2>2, <2>4, <2>5, <2>6, <2>7, SkewIs
  <2> QED BY <2>3, <2>8
<1> QED BY <1>3, <1>4

LEMMA CeilWithin ==
    ASSUME NEW a \in Nat, NEW b \in Nat \ {0}, NEW c \in Ceil(a, b)
    PROVE  c \in Nat /\ a <= b * c /\ b * c <= a + b
<1> DEFINE q == a \div b
<1>1. q \in Nat /\ b * q <= a /\ a < b * (q + 1) /\ (a % b = 0 => b * q = a)
    BY Quotient
<1>2. c \in {q, q + 1} /\ (c = q => a % b = 0)
    BY DEF Ceil
<1>3. b * (q + 1) = b * q + b
    BY <1>1
<1> QED BY <1>1, <1>2, <1>3

(* The shrinking before deliver: the image is as it was, or covers the     *)
(* canvas and has its proportions to one and a half pixels.                *)
LEMMA PreScaleSkew ==
    ASSUME NEW d \in Sizes, NEW g \in pre_scale_to_target(d)
    PROVE  g = d \/ (g \in Sizes /\ g.w >= TargetW /\ g.h >= TargetH /\ Skew(g, d, 3))
<1>1. PICK h \in Halved(d) : g \in Shrunk(h, FillScale(h))
    BY DEF pre_scale_to_target
<1>2. h \in Sizes /\ Skew(h, d, 2) /\ h.w \in Nat \ {0} /\ h.h \in Nat \ {0}
  <2>1. Skew(d, d, 2)
    <3>1. d.w \in Nat /\ d.h \in Nat /\ d.w * d.h = d.h * d.w /\ d.w * d.h \in Nat
        BY DEF Sizes
    <3> QED BY <3>1, SkewIs
  <2> QED BY <2>1, HalvedSkew DEF Sizes
<1> DEFINE fill == FillScale(h)
           a == fill[1]
           b == fill[2]
           M == Most(d.w, d.h)
<1>3. a \in Nat \ {0} /\ b \in Nat \ {0} /\ TargetW * b <= h.w * a /\ TargetH * b <= h.h * a
    BY <1>2, FillFills DEF Scale
<1>4. fill = <<TargetW, h.w>> \/ fill = <<TargetH, h.h>>
    BY <1>2, FillIs
<1>5. CASE a >= b
  <2>1. g = h
      BY <1>1, <1>5 DEF Shrunk
  <2>2. ~(h.w >= 2 * TargetW /\ h.h >= 2 * TargetH)
    <3>1. (a = TargetW /\ b = h.w) \/ (a = TargetH /\ b = h.h)
        BY <1>4
    <3> HIDE DEF a, b
    <3> QED BY <1>2, <1>5, <3>1, Canvas
  <2> QED BY <2>1, <2>2, HalvedSkew
<1>6. CASE a < b
  <2>1. PICK w \in Ceil(h.w * a, b), v \in Ceil(h.h * a, b) :
            g = [w |-> Most(w, TargetW), h |-> Most(v, TargetH)]
      BY <1>1, <1>3, <1>6 DEF Shrunk, Size
  <2>2. /\ h.w * a \in Nat /\ h.h * a \in Nat
        /\ w \in Nat /\ h.w * a <= b * w /\ b * w <= h.w * a + b
        /\ v \in Nat /\ h.h * a <= b * v /\ b * v <= h.h * a + b
      BY <1>2, <1>3, CeilWithin
  <2>3. TargetW <= w /\ TargetH <= v
    <3>1. ASSUME NEW t \in Nat, NEW q \in Nat, t * b <= b * q
          PROVE  t <= q
        BY <1>3, <3>1
    <3>2. TargetW * b <= b * w /\ TargetH * b <= b * v
        BY <1>3, <2>2, Canvas
    <3> QED BY <2>2, <3>1, <3>2, Canvas
  <2>4. g.w = w /\ g.h = v /\ g = [w |-> w, h |-> v]
      BY <2>1, <2>2, <2>3, Canvas DEF Most
  <2>5. g \in Sizes /\ g.w >= TargetW /\ g.h >= TargetH
      BY <2>2, <2>3, <2>4, Canvas DEF Sizes
  <2>6. PICK k \in Nat, j \in Nat : j \in 0..1 /\ a * k <= j * b /\ Skew(h, d, k)
    <3>1. CASE h = d
      <4>1. a * 0 <= 0 * b
          BY <1>3
      <4> QED BY <3>1, <4>1, SkewOfSame
    <3>2. CASE h # d
      <4>1. h.w >= 2 * TargetW /\ h.h >= 2 * TargetH
          BY <3>2, HalvedSkew
      <4>2. a * 2 <= 1 * b
          BY <1>2, <1>4, <4>1, Canvas
      <4> QED BY <1>2, <4>2
    <3> QED BY <3>1, <3>2
  <2>7. /\ d.w \in Nat /\ d.h \in Nat /\ M \in Nat /\ d.w <= M /\ d.h <= M
        /\ 2 * (h.w * d.h) <= 2 * (h.h * d.w) + k * M
        /\ 2 * (h.h * d.w) <= 2 * (h.w * d.h) + k * M
      BY <1>2, <2>6, SkewIs DEF Sizes
  <2> DEFINE u == 2 * b
  <2> HIDE DEF a, b, M, fill
  <2>8. /\ 2 * (b * w) <= 2 * (a * h.w) + u /\ 2 * (a * h.w) <= 2 * (b * w) + 0
        /\ 2 * (b * v) <= 2 * (a * h.h) + u /\ 2 * (a * h.h) <= 2 * (b * v) + 0
    <3>1. h.w * a = a * h.w /\ h.h * a = a * h.h /\ b * w \in Nat /\ b * v \in Nat
        BY <1>2, <1>3, <2>2
    <3> QED BY <1>3, <2>2, <3>1
  <2>9. u * d.h + 0 * d.w <= 2 * (b * M) /\ u * d.w + 0 * d.h <= 2 * (b * M)
    <3>1. b * d.h <= b * M /\ b * d.w <= b * M
        BY <1>3, <2>7
    <3>2. u * d.h + 0 * d.w = 2 * (b * d.h) /\ u * d.w + 0 * d.h = 2 * (b * d.w)
        BY <1>3, <2>7
    <3>3. b * d.h \in Nat /\ b * d.w \in Nat /\ b * M \in Nat
        BY <1>3, <2>7
    <3> QED BY <3>1, <3>2, <3>3
  <2>10. u \in Nat
      BY <1>3
  <2> HIDE DEF u
  <2>11. 2 * (w * d.h) <= 2 * (v * d.w) + (j + 2) * M
      BY <1>2, <1>3, <2>2, <2>6, <2>7, <2>8, <2>9, <2>10, SkewScaled
  <2>12. 2 * (v * d.w) <= 2 * (w * d.h) + (j + 2) * M
    <3>1. 2 * (b * v) <= 2 * (a * h.h) + u /\ 2 * (a * h.w) <= 2 * (b * w) + 0
        BY <2>8
    <3>2. u * d.w + 0 * d.h <= 2 * (b * M)
        BY <2>9
    <3>3. 2 * (h.h * d.w) <= 2 * (h.w * d.h) + k * M
        BY <2>7
    <3> QED BY <1>2, <1>3, <2>2, <2>6, <2>7, <2>10, <3>1, <3>2, <3>3, SkewScaled
  <2>13. (j + 2) * M <= 3 * M
      BY <2>6, <2>7
  <2>14. Skew(g, d, 3)
    <3>1. /\ 2 * (g.w * d.h) <= 2 * (g.h * d.w) + 3 * M
          /\ 2 * (g.h * d.w) <= 2 * (g.w * d.h) + 3 * M
      <4>1. w * d.h \in Nat /\ v * d.w \in Nat /\ 3 * M \in Nat /\ (j + 2) * M \in Nat
          BY <2>2, <2>6, <2>7
      <4> QED BY <2>4, <2>11, <2>12, <2>13, <4>1
    <3> QED BY <2>2, <2>4, <2>7, <3>1, SkewIs DEF M
  <2> QED BY <2>5, <2>14
<1> QED BY <1>3, <1>5, <1>6

\* What fills bounds the scale of a plan.
LEMMA BlendAtMost ==
    ASSUME NEW s \in Sizes, NEW transparent \in BOOLEAN, NEW m \in Nat, NEW n \in Nat,
           m * FillScale(s)[1] <= n * FillScale(s)[2]
    PROVE  m * Blend(s, transparent)[1] <= n * Blend(s, transparent)[2]
<1> DEFINE b1 == Blend(s, transparent)[1]
           b2 == Blend(s, transparent)[2]
           f1 == FillScale(s)[1]
           f2 == FillScale(s)[2]
<1>1. b1 \in Nat \ {0} /\ b2 \in Nat \ {0} /\ f1 \in Nat \ {0} /\ f2 \in Nat \ {0}
    BY BlendScales, FillFills DEF Scale
<1>2. b1 * f2 <= f1 * b2 /\ m * f1 <= n * f2
    BY BlendBelowFill
<1> SUFFICES m * b1 <= n * b2
    OBVIOUS
<1> HIDE DEF b1, b2, f1, f2
<1>3. m * (b1 * f2) <= m * (f1 * b2)
    BY <1>1, <1>2
<1>4. (m * f1) * b2 <= (n * f2) * b2
    BY <1>1, <1>2
<1>5. /\ m * (b1 * f2) = f2 * (m * b1)
      /\ m * (f1 * b2) = (m * f1) * b2
      /\ (n * f2) * b2 = f2 * (n * b2)
    BY <1>1
<1>6. m * b1 \in Nat /\ n * b2 \in Nat
    BY <1>1
<1>7. f2 * (m * b1) \in Nat /\ (m * f1) * b2 \in Nat /\ f2 * (n * b2) \in Nat
    BY <1>1
<1>8. f2 * (m * b1) <= f2 * (n * b2)
    BY <1>3, <1>4, <1>5, <1>7
<1>9. ASSUME NEW x \in Nat, NEW y \in Nat, f2 * x <= f2 * y
      PROVE  x <= y
    BY <1>1, <1>9
<1> QED BY <1>6, <1>8, <1>9

\* An image deliver is given: how large it is, how far from what was decoded.
TrueTo(g, d) ==
    \/ g = d
    \/ g.w >= 200 /\ g.h >= 200 /\ Skew(g, d, 2)
    \/ g.w >= 250 /\ g.h >= 200 /\ Skew(g, d, 3)

(* deliver.rs: what is not clamped keeps the proportions of the decoded    *)
(* image to two and a half pixels.                                         *)
LEMMA KeepsProportion ==
    ASSUME Canonical, NEW d \in Sizes, NEW g \in Sizes, TrueTo(g, d),
           NEW transparent \in BOOLEAN, NEW p, IsNormal(g, transparent, p)
    PROVE  Skew(p.resize, d, 5)
<1> DEFINE b == Blend(g, transparent)
           fill == FillScale(g)
<1>1. Scale(b) /\ b[1] \in Nat /\ b[2] \in Nat
    BY BlendScales DEF Scale
<1>2. p.resize.w \in Rounded(g.w, b) /\ p.resize.h \in Rounded(g.h, b)
    BY NormalResize
<1>3. /\ g.w \in Nat \ {0} /\ g.h \in Nat \ {0}
      /\ fill = <<250, g.w>> \/ fill = <<200, g.h>>
    BY FillIs DEF Canonical, Sizes
<1>4. PICK k \in Nat : Skew(g, d, k) /\ b[1] * k <= 3 * b[2]
  <2>1. CASE g = d
    <3>1. b[1] * 0 <= 3 * b[2]
        BY <1>1
    <3> QED BY <2>1, <3>1, SkewOfSame
  <2>2. CASE g.w >= 200 /\ g.h >= 200 /\ Skew(g, d, 2)
    <3>1. 4 * fill[1] <= 5 * fill[2]
        BY <1>3, <2>2
    <3>2. 4 * b[1] <= 5 * b[2]
        BY <3>1, BlendAtMost
    <3>3. b[1] * 2 <= 3 * b[2]
        BY <1>1, <3>2
    <3> QED BY <2>2, <3>3
  <2>3. CASE g.w >= 250 /\ g.h >= 200 /\ Skew(g, d, 3)
    <3>1. 1 * fill[1] <= 1 * fill[2]
        BY <1>3, <2>3
    <3>2. 1 * b[1] <= 1 * b[2]
        BY <3>1, BlendAtMost
    <3>3. b[1] * 3 <= 3 * b[2]
        BY <1>1, <3>2
    <3> QED BY <2>3, <3>3
  <2> QED BY <2>1, <2>2, <2>3 DEF TrueTo
<1>5. Skew(p.resize, d, 3 + 2)
    BY <1>1, <1>2, <1>4, SkewRounded
<1> QED BY <1>5

\* What each way of handing an image over leaves of it.
LEMMA KeptByShortcut ==
    ASSUME Canonical, NEW d \in Sizes, NEW g \in pre_scale_to_target(d)
    PROVE  g \in Sizes /\ TrueTo(g, d)
BY PreScaleSkew DEF Canonical, TrueTo

LEMMA SkewOnce ==
    ASSUME NEW d \in Sizes, NEW c, Scale(c), NEW g, g.w \in Rounded(d.w, c), g.h \in Rounded(d.h, c)
    PROVE  Skew(g, d, 2)
<1>1. c[1] * 0 <= 0 * c[2]
    BY DEF Scale
<1>2. Skew(g, d, 0 + 2)
    BY <1>1, SkewOfSame, SkewRounded
<1> QED BY <1>2

LEMMA KeptByTierTwo ==
    ASSUME Canonical, NEW d \in Sizes, NEW g \in pre_scale(d)
    PROVE  g \in Sizes /\ TrueTo(g, d) /\ g.w >= 249 /\ g.h >= 200
<1>1. g \in Sizes /\ g.w >= 249 /\ g.h >= 200 /\ Skew(g, d, 2)
    BY PreScaled, SkewOnce
<1>2. g.w >= 200
    BY <1>1 DEF Sizes
<1> QED BY <1>1, <1>2 DEF TrueTo

LEMMA KeptByLibav ==
    ASSUME Canonical, NEW d \in Sizes, NEW g \in decode_with_libav(d, FALSE)
    PROVE  g \in Sizes /\ TrueTo(g, d) /\ g.w >= 250 /\ g.h >= 200
<1>1. g \in ScaledBy(d, FillScale(d))
    BY DEF decode_with_libav
<1>2. g \in Sizes /\ g.w >= 250 /\ g.h >= 200
    BY <1>1, FilledCovers DEF Canonical
<1>3. Skew(g, d, 2)
    BY <1>1, FilledCovers, FillFills, SkewOnce
<1>4. g.w >= 200
    BY <1>2 DEF Sizes
<1> QED BY <1>2, <1>3, <1>4 DEF TrueTo

LEMMA KeptWhenTurned ==
    ASSUME Canonical, NEW d \in Sizes, NEW g \in decode_with_libav(d, TRUE)
    PROVE  g \in Sizes /\ TrueTo(g, Size(d.h, d.w))
<1>1. PICK c \in ScaledBy(d, FillScale(d)) : g = [w |-> c.h, h |-> c.w]
    BY DEF decode_with_libav, Size
<1>2. c \in Sizes /\ c.w >= 250 /\ c.h >= 200
    BY FilledCovers DEF Canonical
<1>3. Skew(c, d, 2)
    BY FilledCovers, FillFills, SkewOnce
<1>4. g \in Sizes /\ g.w = c.h /\ g.h = c.w /\ g.w >= 200 /\ g.h >= 200
    BY <1>1, <1>2 DEF Sizes
<1> DEFINE e == [w |-> d.h, h |-> d.w]
<1>5. /\ c.w \in Nat /\ c.h \in Nat /\ d.w \in Nat /\ d.h \in Nat
      /\ Most(d.w, d.h) = Most(d.h, d.w)
    BY <1>2 DEF Sizes, Most
<1>6. /\ 2 * (c.w * d.h) <= 2 * (c.h * d.w) + 2 * Most(d.w, d.h)
      /\ 2 * (c.h * d.w) <= 2 * (c.w * d.h) + 2 * Most(d.w, d.h)
    BY <1>3, <1>5, SkewIs
<1>7. e.w = d.h /\ e.h = d.w
    OBVIOUS
<1> HIDE DEF e
<1>8. Skew(g, e, 2)
    BY <1>4, <1>5, <1>6, <1>7, SkewIs
<1> QED BY <1>4, <1>8 DEF TrueTo, Size, e

-----------------------------------------------------------------------------
(* Offsets and pages.  The other proofs use these facts and not the        *)
(* division.                                                               *)
LEMMA Paging ==
    ASSUME NEW o \in Nat
    PROVE  /\ PageOf(o) \in Nat
           /\ InPage(o) \in Nat
           /\ InPage(o) < Page
           /\ o = PageOf(o) * Page + InPage(o)
<1>1. Page \in Nat \ {0}
    BY BufferAssumption
<1> QED BY <1>1 DEF PageOf, InPage

\* A multiple of the page size begins its page.
LEMMA Aligned ==
    ASSUME NEW p \in Nat
    PROVE  /\ p * Page \in Nat
           /\ PageOf(p * Page) = p
           /\ InPage(p * Page) = 0
           /\ (p + 1) * Page = p * Page + Page
<1>1. Page \in Nat \ {0}
    BY BufferAssumption
<1>2. p * Page \in Nat /\ (p + 1) * Page = p * Page + Page
    BY <1>1
<1> DEFINE q == PageOf(p * Page)
<1>3. q \in Nat /\ q * Page <= p * Page /\ p * Page < (q + 1) * Page
    BY <1>1, <1>2, Paging
<1>4. ~(q < p)
  <2>1. SUFFICES ASSUME q < p PROVE FALSE
      OBVIOUS
  <2>2. (q + 1) * Page <= p * Page
      BY <1>1, <1>3, <2>1
  <2> QED BY <1>1, <1>2, <1>3, <2>2
<1>5. ~(p < q)
  <2>1. SUFFICES ASSUME p < q PROVE FALSE
      OBVIOUS
  <2>2. (p + 1) * Page <= q * Page
      BY <1>1, <1>3, <2>1
  <2> QED BY <1>1, <1>2, <1>3, <2>2
<1>6. q = p
    BY <1>3, <1>4, <1>5
<1> QED BY <1>1, <1>2, <1>6, Paging

LEMMA PageBegins ==
    ASSUME NEW o \in Nat
    PROVE  PageOf(o) * Page \in Nat /\ PageOf(o) * Page <= o
<1>1. PageOf(o) \in Nat /\ InPage(o) \in Nat /\ o = PageOf(o) * Page + InPage(o)
    BY Paging
<1>2. PageOf(o) * Page \in Nat
    BY <1>1, Aligned
<1> QED BY <1>1, <1>2

\* Pages grow with offsets.
LEMMA PagesGrow ==
    ASSUME NEW a \in Nat, NEW b \in Nat, a <= b
    PROVE  PageOf(a) <= PageOf(b)
<1>1. Page \in Nat \ {0}
    BY BufferAssumption
<1>2. PageOf(a) \in Nat /\ PageOf(b) \in Nat
    BY Paging
<1>3. SUFFICES ASSUME PageOf(b) < PageOf(a) PROVE FALSE
    BY <1>2
<1>4. (PageOf(b) + 1) * Page <= PageOf(a) * Page
    BY <1>1, <1>2, <1>3
<1> QED BY <1>1, <1>2, <1>4, Paging

\* An offset within the bounds of a page lies in it.
LEMMA WithinPage ==
    ASSUME NEW o \in Nat, NEW p \in Nat, p * Page <= o, o < (p + 1) * Page
    PROVE  PageOf(o) = p
<1>1. Page \in Nat \ {0}
    BY BufferAssumption
<1>2. PageOf(o) \in Nat /\ p <= PageOf(o)
    BY <1>1, Aligned, PagesGrow, Paging
<1>3. SUFFICES ASSUME p < PageOf(o) PROVE FALSE
    BY <1>2
<1>4. (p + 1) * Page <= PageOf(o) * Page
    BY <1>1, <1>2, <1>3
<1> QED BY <1>1, <1>2, <1>4, Paging

-----------------------------------------------------------------------------
(* store_chunk_at.                                                         *)
Cached(o) == InPage(o) < have[PageOf(o)]

\* The cache as the type invariant describes it.
Cache ==
    /\ have \in [Pages -> 0..Page]
    /\ wrong \subseteq 0..Limit
    /\ suspect \subseteq Pages

LEMMA PagesOfOffsets ==
    ASSUME NEW o \in 0..Limit
    PROVE  PageOf(o) \in Pages
<1>1. o \in Nat /\ Limit \in Nat /\ o <= Limit
    BY BufferAssumption
<1>2. PageOf(o) \in Nat /\ PageOf(Limit) \in Nat /\ PageOf(o) <= PageOf(Limit)
    BY <1>1, Paging, PagesGrow
<1> QED BY <1>2 DEF Pages

\* The pages keep what they have and hold every byte of the chunk.
LEMMA StoreFills ==
    ASSUME Cache, NEW off \in Nat, NEW n \in Nat, off + n <= Limit, NEW from, Store(off, n, from)
    PROVE  /\ have' \in [Pages -> 0..Page]
           /\ wrong' \subseteq 0..Limit
           /\ \A o \in 0..Limit : Cached(o) => Cached(o)'
           /\ \A o \in off..(off + n - 1) : Cached(o)'
           /\ \A p \in Pages : have'[p] = have[p] \/ p * Page + have'[p] <= off + n
<1>1. Page \in Nat \ {0} /\ Limit \in Nat
    BY BufferAssumption
<1>2. have' = [p \in Pages |-> IF Lo(p, off) < Hi(p, off, n)
                                THEN MaxOf(have[p], Hi(p, off, n) - p * Page)
                                ELSE have[p]]
    BY DEF Store
<1>3. ASSUME NEW p \in Pages
      PROVE  /\ have[p] \in 0..Page
             /\ have'[p] \in 0..Page
             /\ have'[p] >= have[p]
             /\ have'[p] = have[p] \/ p * Page + have'[p] <= off + n
  <2>1. p \in Nat /\ p * Page \in Nat /\ (p + 1) * Page = p * Page + Page
      BY Aligned DEF Pages
  <2>2. have[p] \in 0..Page
      BY DEF Cache
  <2>3. CASE Lo(p, off) < Hi(p, off, n)
    <3>1. have'[p] = MaxOf(have[p], Hi(p, off, n) - p * Page)
        BY <1>2, <2>3
    <3> QED BY <1>1, <2>1, <2>2, <2>3, <3>1 DEF MaxOf, MinOf, Lo, Hi
  <2>4. CASE ~(Lo(p, off) < Hi(p, off, n))
    <3>1. have'[p] = have[p]
        BY <1>2, <2>4
    <3> QED BY <1>1, <2>2, <3>1
  <2> QED BY <2>3, <2>4
<1>4. have' \in [Pages -> 0..Page]
    BY <1>2, <1>3
<1>5. wrong' \subseteq 0..Limit
    BY DEF Store, Cache
<1>6. ASSUME NEW o \in 0..Limit, Cached(o)
      PROVE  Cached(o)'
  <2>1. PageOf(o) \in Pages /\ InPage(o) \in Nat
      BY <1>1, <1>6, PagesOfOffsets, Paging
  <2>2. have[PageOf(o)] \in 0..Page /\ have'[PageOf(o)] \in 0..Page /\ have'[PageOf(o)] >= have[PageOf(o)]
      BY <1>3, <2>1
  <2>3. InPage(o) < have'[PageOf(o)]
      BY <1>1, <1>6, <2>1, <2>2 DEF Cached
  <2> QED BY <2>3 DEF Cached
<1>7. ASSUME NEW o \in off..(off + n - 1)
      PROVE  Cached(o)'
  <2> DEFINE p == PageOf(o)
  <2>1. o \in 0..Limit
      BY <1>1
  <2>2. p \in Pages /\ p \in Nat /\ InPage(o) \in Nat /\ InPage(o) < Page /\ o = p * Page + InPage(o)
      BY <2>1, PagesOfOffsets, Paging
  <2>3. p * Page \in Nat /\ (p + 1) * Page = p * Page + Page
      BY <2>2, Aligned
  <2>4. Lo(p, off) < Hi(p, off, n) /\ Hi(p, off, n) - p * Page > InPage(o)
      BY <1>1, <2>1, <2>2, <2>3 DEF MaxOf, MinOf, Lo, Hi
  <2>5. have'[p] = MaxOf(have[p], Hi(p, off, n) - p * Page)
      BY <1>2, <2>2, <2>4
  <2>6. Hi(p, off, n) - p * Page \in Int /\ have[p] \in 0..Page
      BY <1>1, <1>3, <2>2, <2>3 DEF MinOf, Hi
  <2> QED BY <1>1, <2>2, <2>4, <2>5, <2>6 DEF MaxOf, Cached
<1> QED BY <1>3, <1>4, <1>5, <1>6, <1>7

(* A byte that is not the source's gets into the cache in a page of the    *)
(* chunk; when the chunk is the source's, before the chunk in the page it  *)
(* begins inside.                                                          *)
LEMMA StoreSpoils ==
    ASSUME Cache, NEW off \in Nat, NEW n \in Nat, off + n <= Limit, NEW from, Store(off, n, from)
    PROVE  \A o \in wrong' \ wrong :
               /\ o \in 0..Limit
               /\ ~Cached(o)
               /\ n > 0
               /\ PageOf(o) \in PageOf(off)..PageOf(off + n - 1)
               /\ from = off => o < off /\ PageOf(o) = PageOf(off) /\ InPage(off) > 0
<1> TAKE o \in wrong' \ wrong
<1> DEFINE p == PageOf(o)
<1>1. Page \in Nat \ {0} /\ Limit \in Nat
    BY BufferAssumption
<1>2. /\ o \in 0..Limit
      /\ o < Hi(p, off, n)
      /\ Lo(p, off) < Hi(p, off, n)
      /\ InPage(o) >= have[p]
      /\ o < off \/ from # off
    BY DEF Store
<1>3. p \in Pages /\ p \in Nat /\ InPage(o) \in Nat /\ InPage(o) < Page /\ o = p * Page + InPage(o)
    BY <1>2, PagesOfOffsets, Paging
<1>4. p * Page \in Nat /\ (p + 1) * Page = p * Page + Page /\ have[p] \in 0..Page
    BY <1>3, Aligned DEF Cache
<1>5. ~Cached(o)
    BY <1>1, <1>2, <1>3, <1>4 DEF Cached
<1>6. /\ off < p * Page + Page
      /\ p * Page < off + n
      /\ n > 0
    BY <1>1, <1>2, <1>3, <1>4 DEF MaxOf, MinOf, Lo, Hi
<1>7. PageOf(off) \in Nat /\ PageOf(off) <= p
  <2>1. CASE off <= o
      BY <1>2, <2>1, PagesGrow, Paging
  <2>2. CASE o < off
    <3>1. PageOf(off) = p
        BY <1>1, <1>3, <1>4, <1>6, <2>2, WithinPage
    <3> QED BY <1>3, <3>1
  <2> QED BY <1>2, <2>1, <2>2
<1>8. off + n - 1 \in Nat /\ PageOf(off + n - 1) \in Nat /\ p <= PageOf(off + n - 1)
  <2>1. off + n - 1 \in Nat /\ p * Page <= off + n - 1
      BY <1>4, <1>6
  <2>2. PageOf(p * Page) <= PageOf(off + n - 1)
      BY <1>4, <2>1, PagesGrow
  <2> QED BY <1>3, <2>1, <2>2, Aligned, Paging
<1>9. ASSUME from = off
      PROVE  o < off /\ PageOf(o) = PageOf(off) /\ InPage(off) > 0
  <2>1. o < off
      BY <1>2, <1>9
  <2>2. PageOf(off) = p
      BY <1>1, <1>3, <1>4, <1>6, <2>1, WithinPage
  <2>3. off = p * Page + InPage(off) /\ InPage(off) \in Nat
      BY <2>2, Paging
  <2> QED BY <1>3, <1>4, <2>1, <2>2, <2>3
<1> QED BY <1>2, <1>3, <1>5, <1>6, <1>7, <1>8, <1>9

-----------------------------------------------------------------------------
(* The state of the running call, and what it has been told.               *)
CallOK ==
    /\ cursor \in 0..Limit
    /\ pc \in {"idle", "read", "forward", "stream", "tail", "copy", "range", "closed"}
    /\ want \in Nat
    /\ saved \in Nat \cup {NONE}
    /\ saved # NONE => saved <= Limit
    /\ ret \in [exact : BOOLEAN, sound : BOOLEAN, end : BOOLEAN, within : BOOLEAN]
    /\ ret.sound
    /\ ret.end

LEMMA CallHolds ==
    ASSUME IInv
    PROVE  CallOK
  BY BufferAssumption DEF IInv, TypeOK, Bounded, ReadsSourceBytes, EndIsReal, CallOK

LEMMA Lengths ==
    ASSUME IInv
    PROVE  /\ Page \in Nat \ {0} /\ Limit \in Nat /\ TailFetch \in Nat
           /\ len \in Nat /\ len < Limit
           /\ stream_pos \in 0..len
           /\ NONE \notin Int
           /\ known = len \/ known = NONE
  BY BufferAssumption DEF IInv, TypeOK

LEMMA CacheHolds ==
    ASSUME IInv
    PROVE  Cache
  BY DEF IInv, TypeOK, Cache

\* A step that leaves the buffer's data alone.
LEMMA QuietStep ==
    ASSUME IInv, UNCHANGED <<source, data, eof, streaming>>, pc # "closed",
           CallOK', Waits', CopyHasByte'
    PROVE  IInv'
<1> USE DEF source, data
<1>1. TypeOK'
    BY BufferAssumption DEF IInv, TypeOK, CallOK
<1>2. Bounded'
    BY BufferAssumption DEF IInv, Bounded, CallOK
<1>3. StreamedBytesKept'
    BY DEF IInv, StreamedBytesKept
<1>4. WrongIsSuspect' /\ ChunkOfStreaming'
    BY DEF IInv, WrongIsSuspect, ChunkOfStreaming
<1>5. ReadsSourceBytes' /\ EndIsReal'
    BY DEF CallOK, ReadsSourceBytes, EndIsReal
<1> QED BY <1>1, <1>2, <1>3, <1>4, <1>5 DEF IInv

\* A read's answer is right when its bytes and its end are.
LEMMA DeliverIsSound ==
    ASSUME IInv, NEW n \in Nat, NEW bad, Deliver(n, bad),
           want > 0, n <= Room, cursor + n <= Limit,
           \A o \in bad : PageOf(o) \in suspect,
           n = 0 => AtEnd \/ cursor >= len \/ PageOf(cursor) \in suspect
    PROVE  /\ CallOK'
           /\ pc' = "idle" \/ (pc' = "read" /\ want' > 0)
<1> USE CallHolds, Lengths
<1>1. ret' = Verdict(n, bad)
    BY DEF Deliver
<1>2. /\ ret' \in [exact : BOOLEAN, sound : BOOLEAN, end : BOOLEAN, within : BOOLEAN]
      /\ ret'.sound
      /\ ret'.end
    BY <1>1 DEF Verdict
<1>3. n <= want
    BY DEF Room, MinOf, CallOK
<1>4. /\ cursor' \in 0..Limit
      /\ want' \in Nat
      /\ saved' \in Nat \cup {NONE}
      /\ saved' # NONE => saved' <= Limit
      /\ pc' = "idle" \/ (pc' = "read" /\ want' > 0)
  <2>1. CASE saved = NONE
      BY <1>3, <2>1 DEF Deliver, CallOK
  <2>2. CASE saved # NONE /\ (n = 0 \/ n = want)
      BY <1>3, <2>2 DEF Deliver, CallOK
  <2>3. CASE saved # NONE /\ ~(n = 0 \/ n = want)
      BY <1>3, <2>3 DEF Deliver, CallOK
  <2> QED BY <2>1, <2>2, <2>3
<1> QED BY <1>2, <1>4 DEF CallOK

\* Between calls and at the start of a read there is nothing to wait for.
LEMMA AtRest ==
    ASSUME pc' = "idle" \/ (pc' = "read" /\ want' > 0)
    PROVE  Waits' /\ CopyHasByte'
  BY DEF Waits, CopyHasByte

LEMMA ReturnKeeps ==
    ASSUME IInv, pc # "closed", NEW n \in Nat, NEW bad, Return(n, bad),
           want > 0, n <= Room, cursor + n <= Limit,
           \A o \in bad : PageOf(o) \in suspect,
           n = 0 => AtEnd \/ cursor >= len \/ PageOf(cursor) \in suspect
    PROVE  IInv'
<1>1. Deliver(n, bad) /\ UNCHANGED <<source, data, eof, streaming>>
    BY DEF Return
<1>2. CallOK' /\ (pc' = "idle" \/ (pc' = "read" /\ want' > 0))
    BY <1>1, DeliverIsSound
<1> QED BY <1>1, <1>2, AtRest, QuietStep

LEMMA FailKeeps ==
    ASSUME IInv, pc # "closed", Fail
    PROVE  IInv'
<1>1. CallOK'
    BY CallHolds DEF CallOK, Fail
<1> QED BY <1>1, AtRest, QuietStep DEF Fail

-----------------------------------------------------------------------------
(* The calls.                                                              *)
LEMMA CallsKeep ==
    ASSUME IInv, Calls
    PROVE  IInv'
<1> USE CallHolds, Lengths
<1>1. ASSUME NEW o \in 0..(len + 1), NEW n \in Wants, ReadAt(o, n)
      PROVE  IInv'
  <2>1. CallOK' /\ pc' = "read" /\ want' > 0
      BY <1>1, BufferAssumption DEF ReadAt, CallOK
  <2> QED BY <1>1, <2>1, AtRest, QuietStep DEF ReadAt, Idle
<1>2. ASSUME NEW n \in Wants, Read(n)
      PROVE  IInv'
  <2>1. CallOK' /\ pc' = "read" /\ want' > 0
      BY <1>2, BufferAssumption DEF Read, CallOK
  <2> QED BY <1>2, <2>1, AtRest, QuietStep DEF Read, Idle
<1>3. ASSUME NEW r \in RangeCalls, FetchRange(r[1], r[2])
      PROVE  IInv'
  <2>1. r[1] \in Nat /\ r[2] \in Nat \ {0} /\ r[1] + r[2] <= Limit
      BY <1>3, BufferAssumption
  <2>2. CallOK'
      BY <1>3, <2>1 DEF FetchRange, CallOK
  <2>3. Waits' /\ CopyHasByte'
      BY <1>3, <2>1 DEF FetchRange, Waits, CopyHasByte
  <2> QED BY <1>3, <2>2, <2>3, QuietStep DEF FetchRange, Idle
<1>4. ASSUME NEW o \in 0..(len + 1), Seek(o)
      PROVE  IInv'
  <2>1. CallOK' /\ pc' = "idle"
      BY <1>4 DEF Seek, Idle, CallOK
  <2> QED BY <1>4, <2>1, AtRest, QuietStep DEF Seek, Idle
<1>5. ASSUME NEW e \in Eofs \cup {NONE}, set_eof(e)
      PROVE  IInv'
  <2>1. eof' \in Nat \cup {NONE}
      BY <1>5, BufferAssumption DEF set_eof
  <2> QED
    BY <1>5, <2>1 DEF set_eof, source, data, call, Idle, IInv, TypeOK, Bounded, StreamedBytesKept,
        WrongIsSuspect, ChunkOfStreaming, Waits, CopyHasByte, ReadsSourceBytes, EndIsReal
<1>6. CASE enter_streaming_mode
    BY <1>6 DEF enter_streaming_mode, source, data, call, Idle, IInv, TypeOK, Bounded,
        StreamedBytesKept, WrongIsSuspect, ChunkOfStreaming, Waits, CopyHasByte,
        ReadsSourceBytes, EndIsReal
<1>7. CASE close
  <2>1. 0 \in Pages
      BY Paging DEF Pages
  <2>2. have' \in [Pages -> 0..Page] /\ \A p \in Pages : have'[p] > 0 => have'[p] = have[p]
      BY <1>7, <2>1 DEF close, IInv, TypeOK
  <2> QED
    BY <1>7, <2>2 DEF close, source, IInv, TypeOK, Bounded, StreamedBytesKept, WrongIsSuspect,
        ChunkOfStreaming, Waits, CopyHasByte, ReadsSourceBytes, EndIsReal
<1> QED BY <1>1, <1>2, <1>3, <1>4, <1>5, <1>6, <1>7 DEF Calls

-----------------------------------------------------------------------------
(* The reads that need no network.                                         *)
LEMMA PastEndKeeps ==
    ASSUME IInv, PastEnd
    PROVE  IInv'
<1> USE CallHolds, Lengths
<1>1. want > 0 /\ 0 <= Room /\ cursor + 0 <= Limit
    BY DEF IInv, Waits, PastEnd, Room, MinOf, CallOK
<1> QED BY <1>1, ReturnKeeps DEF PastEnd

\* What a page has of the bytes from the cursor on.
LEMMA AvailableBytes ==
    ASSUME IInv
    PROVE  /\ PageOf(cursor) \in Pages
           /\ Available \in Nat
           /\ Available > 0 <=> Cached(cursor)
           /\ cursor + Available <= Limit
<1> USE CallHolds, Lengths
<1> DEFINE p == PageOf(cursor)
<1>1. p \in Pages /\ p \in Nat /\ InPage(cursor) \in Nat /\ cursor = p * Page + InPage(cursor)
    BY PagesOfOffsets, Paging DEF CallOK
<1>2. have[p] \in 0..Page /\ (have[p] > 0 => p * Page + have[p] <= Limit)
    BY <1>1 DEF IInv, TypeOK, Bounded
<1>3. p * Page \in Nat
    BY <1>1, Aligned
<1> QED BY <1>1, <1>2, <1>3 DEF Available, SatSub, Cached, CallOK

\* A page there is nothing to wait for has the byte or there is none.
LEMMA SettledHasByte ==
    ASSUME IInv, ~streaming, pc # "closed", Settled
    PROVE  cursor >= len \/ Available > 0
<1> USE CallHolds, Lengths
<1> DEFINE p == PageOf(cursor)
<1>1. /\ p \in Pages /\ p \in Nat /\ InPage(cursor) \in Nat /\ InPage(cursor) < Page
      /\ cursor = p * Page + InPage(cursor) /\ cursor \in Nat
    BY AvailableBytes, PagesOfOffsets, Paging DEF CallOK
<1>2. p * Page \in Nat /\ (p + 1) * Page = p * Page + Page
    BY <1>1, Aligned
<1>3. CASE known # NONE /\ p * Page >= known
    BY <1>1, <1>2, <1>3
<1>4. CASE have[p] >= Expected
  <2>1. have[p] \in 0..Page
      BY <1>1 DEF IInv, TypeOK
  <2>2. CASE known = NONE
    <3>1. Cached(cursor)
        BY <1>1, <1>4, <2>1, <2>2 DEF Expected, Cached
    <3> QED BY <3>1, AvailableBytes
  <2>3. CASE known = len
    <3>1. Expected = SatSub(MinOf(len, p * Page + Page), p * Page)
        BY <1>2, <2>3 DEF Expected
    <3>2. cursor >= len \/ InPage(cursor) < have[p]
        BY <1>1, <1>2, <1>4, <2>1, <3>1 DEF SatSub, MinOf
    <3> QED BY <3>2, AvailableBytes DEF Cached
  <2> QED BY <2>2, <2>3
<1>5. CASE stream_pos >= (p + 1) * Page
  <2>1. cursor \in 0..(stream_pos - 1)
      BY <1>1, <1>2, <1>5
  <2>2. Cached(cursor)
      BY <2>1 DEF IInv, StreamedBytesKept, Cached
  <2> QED BY <2>2, AvailableBytes
<1> QED BY <1>3, <1>4, <1>5 DEF Settled

LEMMA RoomIsPositive ==
    ASSUME IInv, want > 0
    PROVE  Room \in Nat \ {0} /\ Room <= want
  BY CallHolds, Lengths DEF CallOK, Room, MinOf

LEMMA CachedBytes ==
    ASSUME IInv
    PROVE  \A o \in wrong : PageOf(o) \in suspect
  BY DEF IInv, WrongIsSuspect

LEMMA CopyPageKeeps ==
    ASSUME IInv, CopyPage
    PROVE  IInv'
<1> USE CallHolds, Lengths
<1> DEFINE rest == IF End = NONE THEN Available ELSE MinOf(Available, SatSub(End, cursor))
           n == MinOf(Room, rest)
<1>1. want > 0 /\ pc # "closed"
    BY DEF CopyPage, IInv, Waits
<1>2. Room \in Nat \ {0} /\ Available \in Nat /\ cursor \in Nat
    BY <1>1, RoomIsPositive, AvailableBytes DEF CallOK
<1>3. End \in Nat \cup {NONE}
    BY DEF End, IInv, TypeOK
<1>4. n \in Nat /\ n <= Room /\ n <= Available
    BY <1>2, <1>3 DEF MinOf, SatSub
<1>5. n = 0 => AtEnd \/ Available = 0
    BY <1>2, <1>3 DEF MinOf, SatSub, AtEnd
<1>6. Available = 0 => cursor >= len \/ PageOf(cursor) \in suspect
  <2>1. CASE pc = "copy"
      BY <1>2, <2>1 DEF IInv, CopyHasByte
  <2>2. CASE pc # "copy"
      BY <1>1, <1>2, <2>2, SettledHasByte DEF CopyPage
  <2> QED BY <2>1, <2>2
<1>7. cursor + n <= Limit
    BY <1>2, <1>4, AvailableBytes
<1>8. Return(n, wrong \cap (cursor..(cursor + n - 1)))
    BY DEF CopyPage
<1> HIDE DEF n, rest
<1> QED BY <1>1, <1>4, <1>5, <1>6, <1>7, <1>8, CachedBytes, ReturnKeeps

LEMMA StreamingPageKeeps ==
    ASSUME IInv, StreamingPage
    PROVE  IInv'
<1> USE CallHolds, Lengths
<1> DEFINE n == MinOf(Room, Available)
<1>1. want > 0 /\ pc # "closed" /\ Available > 0
    BY DEF StreamingPage, Looking, IInv, Waits
<1>2. Room \in Nat \ {0} /\ Available \in Nat /\ cursor \in Nat
    BY <1>1, RoomIsPositive, AvailableBytes DEF CallOK
<1>3. n \in Nat \ {0} /\ n <= Room /\ n <= Available
    BY <1>1, <1>2 DEF MinOf
<1>4. cursor + n <= Limit
    BY <1>2, <1>3, AvailableBytes
<1>5. Return(n, wrong \cap (cursor..(cursor + n - 1)))
    BY DEF StreamingPage
<1> HIDE DEF n
<1> QED BY <1>1, <1>3, <1>4, <1>5, CachedBytes, ReturnKeeps

\* Bytes of a chunk that ends where the stream stands.
LEMMA ChunkIsSound ==
    ASSUME IInv, want > 0, NEW c, NEW pos \in 0..len,
           c.start \in Nat, c.len \in Nat, c.start + c.len = pos,
           c.start <= cursor, cursor < c.start + c.len, FromChunk(c, pos)
    PROVE  CallOK' /\ (pc' = "idle" \/ (pc' = "read" /\ want' > 0))
<1> USE CallHolds, Lengths
<1> DEFINE n == MinOf(Room, c.start + c.len - cursor)
<1>1. Room \in Nat \ {0} /\ cursor \in Nat
    BY RoomIsPositive DEF CallOK
<1>2. n \in Nat \ {0} /\ n <= Room /\ cursor + n <= Limit
    BY <1>1 DEF MinOf
<1>3. Deliver(n, {})
    BY DEF FromChunk
<1> HIDE DEF n
<1> QED BY <1>2, <1>3, DeliverIsSound

LEMMA StreamingChunkKeeps ==
    ASSUME IInv, StreamingChunk
    PROVE  IInv'
<1> USE CallHolds, Lengths
<1>1. want > 0 /\ pc # "closed"
    BY DEF StreamingChunk, Looking, IInv, Waits
<1>2. /\ chunk.start \in 0..len /\ chunk.len \in 0..len
      /\ chunk.start <= cursor /\ cursor < chunk.start + chunk.len
      /\ chunk.start + chunk.len = stream_pos
    BY DEF StreamingChunk, InChunk, IInv, TypeOK, CallOK
<1>3. CallOK' /\ (pc' = "idle" \/ (pc' = "read" /\ want' > 0))
    BY <1>1, <1>2, ChunkIsSound DEF StreamingChunk
<1> QED BY <1>1, <1>3, AtRest, QuietStep DEF StreamingChunk

-----------------------------------------------------------------------------
(* Where a read goes when it needs the network.                            *)

\* The tail a Range request is worth begins at or before the offset.
LEMMA TailBefore ==
    ASSUME IInv, known # NONE, NEW o \in Nat, o >= SatSub(known, TailFetch)
    PROVE  TailStart \in 0..len /\ TailStart <= o
<1> USE Lengths
<1>1. SatSub(known, TailFetch) \in 0..len
    BY DEF SatSub
<1>2. TailStart \in Nat /\ TailStart <= SatSub(known, TailFetch)
    BY <1>1, PageBegins DEF TailStart
<1> QED BY <1>1, <1>2

\* Going on to wait for the network changes nothing else.
LEMMA GotoKeeps ==
    ASSUME IInv, NEW l \in {"forward", "stream", "tail"}, Goto(l),
           pc \in {"read", "copy"},
           l = "forward" => ~streaming,
           l = "stream" => streaming /\ cursor >= stream_pos,
           l = "tail" => known # NONE /\ TailStart <= cursor
    PROVE  IInv'
<1>1. want > 0
    BY DEF IInv, Waits
<1>2. CallOK'
    BY CallHolds DEF CallOK, Goto
<1>3. Waits' /\ CopyHasByte'
    BY <1>1 DEF Waits, CopyHasByte, Goto, TailStart, source, data
<1> QED BY <1>2, <1>3, QuietStep DEF Goto

LEMMA StartTailKeeps ==
    ASSUME IInv, StartTail
    PROVE  IInv'
<1> USE CallHolds, Lengths
<1>1. PageOf(cursor) * Page \in Nat /\ PageOf(cursor) * Page <= cursor
    BY PageBegins DEF CallOK
<1>2. known # NONE /\ PageOf(cursor) * Page >= SatSub(known, TailFetch)
    BY DEF StartTail, TailWorth
<1>3. TailStart \in 0..len /\ TailStart <= PageOf(cursor) * Page
    BY <1>1, <1>2, TailBefore
<1>4. TailStart <= cursor
    BY <1>1, <1>3 DEF CallOK
<1> QED BY <1>2, <1>4, GotoKeeps DEF StartTail

LEMMA StartStreamingTailKeeps ==
    ASSUME IInv, StartStreamingTail
    PROVE  IInv'
<1> USE CallHolds, Lengths
<1>1. cursor \in Nat /\ known # NONE /\ cursor >= SatSub(known, TailFetch)
    BY DEF StartStreamingTail, TailWorth, CallOK
<1>2. TailStart <= cursor
    BY <1>1, TailBefore
<1> QED BY <1>1, <1>2, GotoKeeps DEF StartStreamingTail

LEMMA StartForwardKeeps ==
    ASSUME IInv, StartForward
    PROVE  IInv'
  BY GotoKeeps DEF StartForward

LEMMA StartStreamKeeps ==
    ASSUME IInv, StartStream
    PROVE  IInv'
  BY GotoKeeps DEF StartStream, Looking

-----------------------------------------------------------------------------
(* The primary stream.                                                     *)
LEMMA ForwardChunkKeeps ==
    ASSUME IInv, NEW n \in 1..MaxChunk, ForwardChunk(n)
    PROVE  IInv'
<1> USE CallHolds, Lengths, CacheHolds
<1>1. n \in Nat \ {0} /\ stream_pos + n <= len /\ stream_pos + n <= Limit
    BY BufferAssumption DEF ForwardChunk
<1>2. Store(stream_pos, n, stream_pos) /\ ~streaming /\ pc = "forward"
    BY DEF ForwardChunk, IInv, Waits
<1>3. /\ have' \in [Pages -> 0..Page]
      /\ wrong' \subseteq 0..Limit
      /\ \A o \in 0..Limit : Cached(o) => Cached(o)'
      /\ \A o \in stream_pos..(stream_pos + n - 1) : Cached(o)'
      /\ \A p \in Pages : have'[p] = have[p] \/ p * Page + have'[p] <= stream_pos + n
    BY <1>1, <1>2, StoreFills
<1>4. \A o \in 0..(stream_pos - 1) : Cached(o)
    BY <1>2 DEF IInv, StreamedBytesKept, Cached
<1>5. wrong' \subseteq wrong
    BY <1>1, <1>2, <1>4, StoreSpoils
<1>6. /\ stream_pos' = stream_pos + n
      /\ UNCHANGED <<source, known, suspect, chunk, eof, streaming, call>>
    BY DEF ForwardChunk
<1>7. TypeOK'
  <2>1. chunk.len = 0
      BY <1>2 DEF IInv, ChunkOfStreaming
  <2> QED BY <1>1, <1>3, <1>6, <2>1 DEF IInv, TypeOK, source, call
<1>8. Bounded'
  <2>1. \A p \in Pages : p * Page \in Nat
      BY Aligned DEF Pages
  <2> QED BY <1>1, <1>3, <1>6, <2>1 DEF IInv, Bounded, call
<1>9. StreamedBytesKept'
  <2>1. \A o \in 0..(stream_pos + n - 1) : Cached(o)'
      BY <1>1, <1>3, <1>4
  <2> QED BY <1>6, <2>1 DEF StreamedBytesKept, Cached
<1>10. WrongIsSuspect' /\ ChunkOfStreaming'
    BY <1>5, <1>6 DEF IInv, WrongIsSuspect, ChunkOfStreaming
<1>11. Waits' /\ CopyHasByte'
    BY <1>2, <1>6 DEF IInv, Waits, CopyHasByte, call
<1>12. ReadsSourceBytes' /\ EndIsReal'
    BY <1>6 DEF IInv, ReadsSourceBytes, EndIsReal, call
<1> QED BY <1>7, <1>8, <1>9, <1>10, <1>11, <1>12 DEF IInv

\* The end of the stream tells the length at most.
LEMMA StreamEndKeeps ==
    ASSUME IInv, NEW l \in {"forward", "stream"}, StreamEnd(l), CallOK', Waits', CopyHasByte'
    PROVE  IInv'
<1> USE CallHolds, Lengths
<1>1. known' \in {len, NONE}
    BY DEF StreamEnd
<1>2. UNCHANGED <<source, stream_pos, have, wrong, suspect, chunk, eof, streaming>> /\ pc # "closed"
    BY DEF StreamEnd
<1>3. TypeOK'
    BY <1>1, <1>2 DEF IInv, TypeOK, CallOK, source
<1>4. Bounded'
    BY <1>2 DEF IInv, Bounded, CallOK
<1>5. StreamedBytesKept' /\ WrongIsSuspect' /\ ChunkOfStreaming'
    BY <1>2 DEF IInv, StreamedBytesKept, WrongIsSuspect, ChunkOfStreaming
<1>6. ReadsSourceBytes' /\ EndIsReal'
    BY DEF CallOK, ReadsSourceBytes, EndIsReal
<1> QED BY <1>3, <1>4, <1>5, <1>6 DEF IInv

LEMMA ForwardEndKeeps ==
    ASSUME IInv, ForwardEnd
    PROVE  IInv'
<1> USE CallHolds, Lengths
<1>1. StreamEnd("forward") /\ pc = "forward" /\ stream_pos = len /\ pc' = "copy"
    BY DEF ForwardEnd, StreamEnd
<1>2. want > 0 /\ ~streaming
    BY <1>1 DEF IInv, Waits
<1>3. CallOK'
    BY DEF ForwardEnd, CallOK
<1>4. Waits'
    BY <1>1, <1>2 DEF ForwardEnd, Waits
<1>5. cursor >= len \/ Available > 0
  <2>1. cursor < len => Cached(cursor)
      BY <1>1, <1>2 DEF IInv, StreamedBytesKept, Cached, CallOK
  <2> QED BY <2>1, AvailableBytes DEF CallOK
<1>6. CopyHasByte'
    BY <1>1, <1>5 DEF CopyHasByte, Available, ForwardEnd, StreamEnd, source
<1> QED BY <1>1, <1>3, <1>4, <1>6, StreamEndKeeps

LEMMA StreamingEndKeeps ==
    ASSUME IInv, StreamingEnd
    PROVE  IInv'
<1> USE CallHolds, Lengths
<1>1. StreamEnd("stream") /\ Deliver(0, {}) /\ pc = "stream" /\ stream_pos = len
    BY DEF StreamingEnd, StreamEnd
<1>2. want > 0 /\ cursor >= len
    BY <1>1 DEF IInv, Waits
<1>3. Room \in Nat \ {0} /\ cursor + 0 <= Limit
    BY <1>2, RoomIsPositive DEF CallOK
<1>4. CallOK' /\ (pc' = "idle" \/ (pc' = "read" /\ want' > 0))
    BY <1>1, <1>2, <1>3, DeliverIsSound
<1> QED BY <1>1, <1>4, AtRest, StreamEndKeeps

LEMMA StreamChunkKeeps ==
    ASSUME IInv, NEW n \in 1..MaxChunk, StreamChunk(n)
    PROVE  IInv'
<1> USE CallHolds, Lengths
<1>1. n \in Nat \ {0} /\ stream_pos + n <= len
    BY BufferAssumption DEF StreamChunk
<1>2. chunk' = [start |-> stream_pos, len |-> n] /\ stream_pos' = stream_pos + n
    BY DEF StreamChunk, NewChunk
<1>3. /\ UNCHANGED <<source, known, have, wrong, suspect, eof, streaming>>
      /\ pc = "stream" /\ streaming /\ want > 0 /\ cursor >= stream_pos
    BY DEF StreamChunk, IInv, Waits
<1>4. CallOK' /\ Waits' /\ CopyHasByte'
  <2>1. CASE cursor < stream_pos + n
    <3>1. FromChunk(chunk', stream_pos')
        BY <1>2, <1>3, <2>1 DEF StreamChunk
    <3>2. CallOK' /\ (pc' = "idle" \/ (pc' = "read" /\ want' > 0))
        BY <1>1, <1>2, <1>3, <2>1, <3>1, ChunkIsSound
    <3> QED BY <3>2, AtRest
  <2>2. CASE ~(cursor < stream_pos + n)
    <3>1. UNCHANGED call
        BY <1>2, <2>2 DEF StreamChunk
    <3>2. CallOK'
        BY <3>1 DEF call, CallOK
    <3>3. Waits' /\ CopyHasByte'
        BY <1>1, <1>2, <1>3, <2>2, <3>1 DEF call, Waits, CopyHasByte, CallOK
    <3> QED BY <3>2, <3>3
  <2> QED BY <2>1, <2>2
<1>5. TypeOK'
    BY <1>1, <1>2, <1>3, <1>4 DEF IInv, TypeOK, CallOK, source
<1>6. Bounded' /\ StreamedBytesKept' /\ WrongIsSuspect' /\ ChunkOfStreaming'
    BY <1>3, <1>4 DEF IInv, Bounded, StreamedBytesKept, WrongIsSuspect, ChunkOfStreaming, CallOK
<1>7. ReadsSourceBytes' /\ EndIsReal'
    BY <1>4 DEF CallOK, ReadsSourceBytes, EndIsReal
<1> QED BY <1>4, <1>5, <1>6, <1>7 DEF IInv

-----------------------------------------------------------------------------
(* The answers to Range requests.                                          *)
LEMMA RangeAnswerKeeps ==
    ASSUME IInv, NEW a \in Answers, NEW n \in 0..Limit,
           NEW start \in 0..Limit, NEW asked \in Nat, start + asked <= Limit,
           RangeAnswer(a, start, n, asked)
    PROVE  /\ have' \in [Pages -> 0..Page]
           /\ wrong' \subseteq 0..Limit
           /\ suspect' \subseteq Pages
           /\ \A o \in 0..Limit : Cached(o) => Cached(o)'
           /\ \A p \in Pages : have'[p] > 0 => p * Page + have'[p] <= Limit
           /\ \A o \in wrong' : PageOf(o) \in suspect'
           /\ \A o \in start..(start + asked - 1) :
                  o < len => Cached(o)' \/ PageOf(o) \in suspect'
<1> USE CallHolds, Lengths, CacheHolds, CachedBytes
<1>1. \A p \in Pages : p * Page \in Nat
    BY Aligned DEF Pages
<1>2. PageOf(start) \in Pages /\ PageOf(start) \in Nat
    BY PagesOfOffsets, Paging
<1>3. ASSUME NEW from, Store(start, n, from), start + n <= Limit
      PROVE  /\ have' \in [Pages -> 0..Page]
             /\ wrong' \subseteq 0..Limit
             /\ \A o \in 0..Limit : Cached(o) => Cached(o)'
             /\ \A o \in start..(start + n - 1) : Cached(o)'
             /\ \A p \in Pages : have'[p] > 0 => p * Page + have'[p] <= Limit
  <2>1. \A p \in Pages : have'[p] = have[p] \/ p * Page + have'[p] <= start + n
      BY <1>3, StoreFills
  <2>2. \A p \in Pages : have'[p] > 0 => p * Page + have'[p] <= Limit
    <3> TAKE p \in Pages
    <3>1. have'[p] \in 0..Page
        BY <1>3, StoreFills
    <3>2. have[p] > 0 => p * Page + have[p] <= Limit
        BY DEF IInv, Bounded
    <3> QED BY <1>1, <1>3, <2>1, <3>1, <3>2
  <2> QED BY <1>3, <2>2, StoreFills
<1>4. CASE a = "range"
  <2>1. /\ n = MinOf(asked, SatSub(len, start))
        /\ Store(start, n, start)
        /\ suspect' = suspect \cup {p \in {PageOf(start)} : InPage(start) > 0}
      BY <1>4 DEF RangeAnswer
  <2>2. n <= asked /\ start + n <= Limit
      BY <2>1 DEF MinOf, SatSub
  <2>3. suspect' \subseteq Pages
      BY <1>2, <2>1 DEF Cache
  <2>4. \A o \in wrong' : PageOf(o) \in suspect'
      BY <2>1, <2>2, StoreSpoils
  <2>5. \A o \in start..(start + asked - 1) : o < len => o \in start..(start + n - 1)
      BY <2>1 DEF MinOf, SatSub
  <2> QED BY <1>3, <2>1, <2>2, <2>3, <2>4, <2>5
<1>5. CASE a = "other"
  <2> DEFINE last == start + MaxOf(n, asked) - 1
  <2>1. /\ n \in 1..(Limit - start)
        /\ Store(start, n, NONE)
        /\ suspect' = suspect \cup (PageOf(start)..PageOf(last))
      BY <1>5 DEF RangeAnswer
  <2>2. start + n <= Limit /\ last \in 0..Limit /\ start + n - 1 \in 0..last
      BY <2>1 DEF MaxOf
  <2>3. PageOf(last) \in Nat /\ PageOf(last) \in Pages
      BY <2>2, PagesOfOffsets, Paging
  <2>4. suspect' \subseteq Pages
    <3>1. PageOf(Limit) \in Nat /\ PageOf(last) <= PageOf(Limit)
        BY <2>2, PagesGrow, Paging
    <3>2. PageOf(start)..PageOf(last) \subseteq Pages
        BY <1>2, <2>3, <3>1 DEF Pages
    <3> QED BY <2>1, <3>2 DEF Cache
  <2>5. PageOf(start + n - 1) \in Nat /\ PageOf(start + n - 1) <= PageOf(last)
      BY <2>2, PagesGrow, Paging
  <2>6. \A o \in wrong' : PageOf(o) \in suspect'
    <3> TAKE o \in wrong'
    <3>1. CASE o \in wrong
        BY <2>1, <3>1
    <3>2. CASE o \notin wrong
      <4>1. PageOf(o) \in PageOf(start)..PageOf(start + n - 1)
          BY <2>1, <2>2, <3>2, StoreSpoils
      <4> QED BY <1>2, <2>1, <2>3, <2>5, <4>1
    <3> QED BY <3>1, <3>2
  <2>7. \A o \in start..(start + asked - 1) : PageOf(o) \in suspect'
    <3> TAKE o \in start..(start + asked - 1)
    <3>1. o \in Nat /\ start <= o /\ last \in Nat /\ o <= last
        BY <2>1, <2>2 DEF MaxOf
    <3>2. PageOf(o) \in Nat /\ PageOf(start) <= PageOf(o) /\ PageOf(o) <= PageOf(last)
        BY <3>1, PagesGrow, Paging
    <3> QED BY <1>2, <2>1, <2>3, <3>2
  <2> HIDE DEF last
  <2> QED BY <1>3, <2>1, <2>2, <2>4, <2>6, <2>7
<1> QED BY <1>4, <1>5 DEF RangeAnswer

\* A step that adds to the pages and moves the call on.
LEMMA PagesStep ==
    ASSUME IInv, pc # "closed", CallOK', Waits', CopyHasByte',
           UNCHANGED <<source, stream_pos, known, chunk, eof, streaming>>,
           have' \in [Pages -> 0..Page], wrong' \subseteq 0..Limit, suspect' \subseteq Pages,
           \A o \in 0..Limit : Cached(o) => Cached(o)',
           \A p \in Pages : have'[p] > 0 => p * Page + have'[p] <= Limit,
           \A o \in wrong' : PageOf(o) \in suspect'
    PROVE  IInv'
<1> USE Lengths
<1>1. TypeOK'
    BY DEF IInv, TypeOK, CallOK, source
<1>2. Bounded'
    BY DEF Bounded, CallOK
<1>3. StreamedBytesKept'
    BY DEF IInv, StreamedBytesKept, Cached
<1>4. WrongIsSuspect' /\ ChunkOfStreaming'
    BY DEF IInv, WrongIsSuspect, ChunkOfStreaming
<1>5. ReadsSourceBytes' /\ EndIsReal'
    BY DEF CallOK, ReadsSourceBytes, EndIsReal
<1> QED BY <1>1, <1>2, <1>3, <1>4, <1>5 DEF IInv

LEMMA TailAnswerKeeps ==
    ASSUME IInv, NEW a \in Answers, NEW n \in 0..Limit, TailAnswer(a, n)
    PROVE  IInv'
<1> USE CallHolds, Lengths
<1>1. /\ pc = "tail" /\ pc' = "copy"
      /\ RangeAnswer(a, TailStart, n, known - TailStart)
      /\ UNCHANGED <<source, stream_pos, known, chunk, cursor, want, saved, ret, eof, streaming>>
    BY DEF TailAnswer
<1>2. known = len /\ TailStart <= cursor /\ want > 0
    BY <1>1 DEF IInv, Waits
<1>3. SatSub(known, TailFetch) \in Nat /\ SatSub(known, TailFetch) <= len
    BY <1>2 DEF SatSub
<1>4. TailStart \in 0..len /\ known - TailStart \in Nat /\ TailStart + (known - TailStart) <= Limit
    BY <1>2, <1>3, PageBegins DEF TailStart
<1>5. /\ have' \in [Pages -> 0..Page]
      /\ wrong' \subseteq 0..Limit
      /\ suspect' \subseteq Pages
      /\ \A o \in 0..Limit : Cached(o) => Cached(o)'
      /\ \A p \in Pages : have'[p] > 0 => p * Page + have'[p] <= Limit
      /\ \A o \in wrong' : PageOf(o) \in suspect'
      /\ \A o \in TailStart..(TailStart + (known - TailStart) - 1) :
             o < len => Cached(o)' \/ PageOf(o) \in suspect'
    BY <1>1, <1>4, RangeAnswerKeeps
<1>6. CallOK'
    BY <1>1 DEF CallOK
<1>7. Waits'
    BY <1>1, <1>2 DEF Waits
<1>8. CopyHasByte'
  <2>1. cursor >= len \/ InPage(cursor) < have'[PageOf(cursor)] \/ PageOf(cursor) \in suspect'
      BY <1>2, <1>4, <1>5 DEF Cached, CallOK
  <2>2. InPage(cursor) \in Nat /\ have'[PageOf(cursor)] \in 0..Page
      BY <1>5, PagesOfOffsets, Paging DEF CallOK
  <2>3. InPage(cursor) < have'[PageOf(cursor)] =>
            SatSub(have'[PageOf(cursor)], InPage(cursor)) > 0
      BY <2>2 DEF SatSub
  <2> QED BY <1>1, <2>1, <2>3 DEF CopyHasByte, Available, source
<1> QED BY <1>1, <1>5, <1>6, <1>7, <1>8, PagesStep

LEMMA RangeDoneKeeps ==
    ASSUME IInv, NEW a \in Answers, NEW n \in 0..Limit, RangeDone(a, n)
    PROVE  IInv'
<1> USE CallHolds, Lengths
<1>1. /\ pc = "range" /\ pc' = "idle" /\ want' = 0 /\ saved' = NONE
      /\ RangeAnswer(a, saved, n, want)
      /\ UNCHANGED <<source, stream_pos, known, chunk, cursor, ret, eof, streaming>>
    BY DEF RangeDone
<1>2. saved \in 0..Limit /\ want \in Nat /\ saved + want <= Limit
    BY <1>1 DEF IInv, Waits, CallOK
<1>3. /\ have' \in [Pages -> 0..Page]
      /\ wrong' \subseteq 0..Limit
      /\ suspect' \subseteq Pages
      /\ \A o \in 0..Limit : Cached(o) => Cached(o)'
      /\ \A p \in Pages : have'[p] > 0 => p * Page + have'[p] <= Limit
      /\ \A o \in wrong' : PageOf(o) \in suspect'
    BY <1>1, <1>2, RangeAnswerKeeps
<1>4. CallOK'
    BY <1>1 DEF CallOK
<1> QED BY <1>1, <1>3, <1>4, AtRest, PagesStep

-----------------------------------------------------------------------------
(* The invariant.                                                          *)
LEMMA RunKeeps ==
    ASSUME IInv, Run
    PROVE  IInv'
<1>1. CASE PastEnd              BY <1>1, PastEndKeeps
<1>2. CASE StartTail            BY <1>2, StartTailKeeps
<1>3. CASE StartForward         BY <1>3, StartForwardKeeps
<1>4. CASE CopyPage             BY <1>4, CopyPageKeeps
<1>5. CASE ForwardEnd           BY <1>5, ForwardEndKeeps
<1>6. CASE StartStreamingTail   BY <1>6, StartStreamingTailKeeps
<1>7. CASE StreamingPage        BY <1>7, StreamingPageKeeps
<1>8. CASE StreamingChunk       BY <1>8, StreamingChunkKeeps
<1>9. CASE SeekBehindStream     BY <1>9, FailKeeps DEF SeekBehindStream, Looking
<1>10. CASE StartStream         BY <1>10, StartStreamKeeps
<1>11. CASE StreamingEnd        BY <1>11, StreamingEndKeeps
<1>12. CASE Answer
  <2>1. PICK n \in 0..Limit :
            \/ n \in 1..MaxChunk /\ (ForwardChunk(n) \/ StreamChunk(n))
            \/ \E a \in Answers : TailAnswer(a, n) \/ RangeDone(a, n)
      BY <1>12 DEF Answer
  <2> QED BY <2>1, ForwardChunkKeeps, StreamChunkKeeps, TailAnswerKeeps, RangeDoneKeeps
<1>13. CASE NetworkError        BY <1>13, FailKeeps DEF NetworkError
<1> QED
  BY <1>1, <1>2, <1>3, <1>4, <1>5, <1>6, <1>7, <1>8, <1>9, <1>10, <1>11, <1>12, <1>13 DEF Run

LEMMA InitHolds == Init => IInv
<1> SUFFICES ASSUME Init PROVE IInv
    OBVIOUS
<1>1. Page \in Nat \ {0} /\ Limit \in Nat /\ len \in Nat /\ 0 \in 0..len
    BY BufferAssumption DEF Init
<1>2. TypeOK
  <2>1. have \in [Pages -> 0..Page] /\ wrong \subseteq 0..Limit /\ suspect \subseteq Pages
      BY <1>1 DEF Init
  <2>2. chunk \in [start : 0..len, len : 0..len] /\ chunk.len = 0
      BY <1>1 DEF Init
  <2>3. ret \in [exact : BOOLEAN, sound : BOOLEAN, end : BOOLEAN, within : BOOLEAN]
      BY DEF Init
  <2>4. /\ len \in Lens /\ known \in {len, NONE} /\ ranges \in BOOLEAN /\ cursor \in Nat
        /\ stream_pos \in 0..len /\ eof \in Nat \cup {NONE} /\ streaming \in BOOLEAN
        /\ want \in Nat /\ saved \in Nat \cup {NONE}
        /\ pc \in {"idle", "read", "forward", "stream", "tail", "copy", "range", "closed"}
      BY <1>1 DEF Init
  <2> QED BY <2>1, <2>2, <2>3, <2>4 DEF TypeOK
<1>3. Bounded
    BY <1>1 DEF Init, Bounded
<1>4. StreamedBytesKept /\ WrongIsSuspect /\ ChunkOfStreaming
    BY DEF Init, StreamedBytesKept, WrongIsSuspect, ChunkOfStreaming
<1>5. Waits /\ CopyHasByte
    BY <1>1 DEF Init, Waits, CopyHasByte
<1>6. ReadsSourceBytes /\ EndIsReal
    BY DEF Init, ReadsSourceBytes, EndIsReal
<1> QED BY <1>2, <1>3, <1>4, <1>5, <1>6 DEF IInv

LEMMA StutterKeeps ==
    ASSUME IInv, UNCHANGED vars
    PROVE  IInv'
<1> USE DEF vars, source, data, call
<1>1. TypeOK' /\ Bounded'
    BY DEF IInv, TypeOK, Bounded
<1>2. StreamedBytesKept' /\ WrongIsSuspect' /\ ChunkOfStreaming'
    BY DEF IInv, StreamedBytesKept, WrongIsSuspect, ChunkOfStreaming
<1>3. Waits' /\ CopyHasByte'
    BY DEF IInv, Waits, CopyHasByte, TailStart, Available
<1>4. ReadsSourceBytes' /\ EndIsReal'
    BY DEF IInv, ReadsSourceBytes, EndIsReal
<1> QED BY <1>1, <1>2, <1>3, <1>4 DEF IInv

(* http_buf.rs: the invariant the proofs rest on is kept by every call,    *)
(* chunk, answer and failure.                                              *)
THEOREM BufferInvariant == Spec => []IInv
<1>1. IInv /\ [Next]_vars => IInv'
    BY CallsKeep, RunKeeps, StutterKeeps DEF Next
<1> QED BY <1>1, InitHolds, PTL DEF Spec

(* http_buf.rs: the buffer's state keeps its types, and a chunk of         *)
(* streaming mode ends where the stream stands.                            *)
THEOREM BufferTyped == Spec => []TypeOK
<1>1. IInv => TypeOK
    BY DEF IInv
<1> QED BY <1>1, BufferInvariant, PTL

(* ensure_page_cached, stream_forward_to_page: outside streaming mode a    *)
(* byte that the stream has delivered is in the cache, so that giving up   *)
(* on a page the stream has passed loses nothing.                          *)
THEOREM NoStreamedByteLost == Spec => []StreamedBytesKept
<1>1. IInv => StreamedBytesKept
    BY DEF IInv
<1> QED BY <1>1, BufferInvariant, PTL

(* read, read_at: bytes that are not the source's at that offset come only *)
(* from a page that a bad or unaligned Range answer spoilt.                *)
THEOREM DeliversSource == Spec => []ReadsSourceBytes
<1>1. IInv => ReadsSourceBytes
    BY DEF IInv
<1> QED BY <1>1, BufferInvariant, PTL

(* read_cached, read_streaming: a read that reports the end of the file is *)
(* at or past an end of it, or in a spoilt page.                           *)
THEOREM EndOnlyAtEnd == Spec => []EndIsReal
<1>1. IInv => EndIsReal
    BY DEF IInv
<1> QED BY <1>1, BufferInvariant, PTL

-----------------------------------------------------------------------------
(* The reads of a cook.  The offsets a shortcut asks for come out of the   *)
(* file and may be any, so these lemmas do without the bounds above: what  *)
(* the cache holds does not depend on the cursor.                          *)
LEMMA SourceFacts ==
    ASSUME CacheIsSource
    PROVE  /\ Page \in Nat \ {0} /\ Limit \in Nat /\ TailFetch \in Nat
           /\ len \in Nat /\ len < Limit
           /\ stream_pos \in 0..len
           /\ NONE \notin Int
           /\ known = len \/ known = NONE
           /\ Cache
  BY BufferAssumption DEF CacheIsSource, Cache

\* A step that leaves the data of the buffer alone.
LEMMA DataStays ==
    ASSUME CacheIsSource, pc # "closed", UNCHANGED <<source, data, streaming, kind>>
    PROVE  CacheIsSource'
  BY DEF CacheIsSource, source, data, ChunkOfStreaming, StreamedBytesKept

\* Bytes of the source that are stored in their places.
LEMMA StoredInPlace ==
    ASSUME CacheIsSource, NEW off \in Nat, NEW n \in Nat, off + n <= len, Store(off, n, off),
           kind # "zip" => \A o \in 0..(off - 1) : PageOf(o) = PageOf(off) => InPage(off) = 0 \/ Cached(o)
    PROVE  /\ have' \in [Pages -> 0..Page]
           /\ wrong' \subseteq 0..Limit
           /\ \A p \in Pages : have'[p] > 0 => p * Page + have'[p] <= len
           /\ kind # "zip" => wrong' = {}
           /\ \A o \in 0..Limit : Cached(o) => Cached(o)'
           /\ \A o \in off..(off + n - 1) : Cached(o)'
<1> USE SourceFacts
<1>1. /\ have' \in [Pages -> 0..Page]
      /\ wrong' \subseteq 0..Limit
      /\ \A o \in 0..Limit : Cached(o) => Cached(o)'
      /\ \A o \in off..(off + n - 1) : Cached(o)'
      /\ \A p \in Pages : have'[p] = have[p] \/ p * Page + have'[p] <= off + n
    BY StoreFills
<1>2. ASSUME NEW p \in Pages, have'[p] > 0
      PROVE  p * Page + have'[p] <= len
  <2>1. p * Page \in Nat
      BY Aligned DEF Pages
  <2>2. have'[p] \in 0..Page
      BY <1>1
  <2>3. have[p] > 0 => p * Page + have[p] <= len
      BY DEF CacheIsSource
  <2> QED BY <1>1, <1>2, <2>1, <2>2, <2>3
<1>3. ASSUME kind # "zip"
      PROVE  wrong' = {}
  <2>1. SUFFICES ASSUME NEW o \in wrong' PROVE FALSE
      OBVIOUS
  <2>2. wrong = {}
      BY <1>3 DEF CacheIsSource
  <2>3. /\ ~Cached(o)
        /\ o \in 0..Limit
        /\ o < off /\ PageOf(o) = PageOf(off) /\ InPage(off) > 0
      BY <2>2, StoreSpoils
  <2>4. o \in 0..(off - 1) /\ ~(InPage(off) = 0)
      BY <2>3, Paging
  <2> QED BY <1>3, <2>3, <2>4
<1> QED BY <1>1, <1>2, <1>3

\* A step that adds to the pages.
LEMMA PagesAdded ==
    ASSUME CacheIsSource, pc # "closed",
           UNCHANGED <<source, stream_pos, known, chunk, streaming, kind>>,
           have' \in [Pages -> 0..Page], wrong' \subseteq 0..Limit, suspect' \subseteq Pages,
           \A p \in Pages : have'[p] > 0 => p * Page + have'[p] <= len,
           kind # "zip" => wrong' = {},
           \A o \in 0..Limit : Cached(o) => Cached(o)'
    PROVE  CacheIsSource'
<1> USE SourceFacts
<1>1. StreamedBytesKept'
    BY DEF CacheIsSource, StreamedBytesKept, Cached
<1> QED BY <1>1 DEF CacheIsSource, ChunkOfStreaming, source

LEMMA ForwardChunkData ==
    ASSUME CacheIsSource, CallFits, NEW n \in 1..MaxChunk, ForwardChunk(n), kind' = kind
    PROVE  CacheIsSource'
<1> USE SourceFacts
<1>1. n \in Nat \ {0} /\ stream_pos + n <= len /\ stream_pos + n <= Limit
    BY BufferAssumption DEF ForwardChunk
<1>2. Store(stream_pos, n, stream_pos) /\ ~streaming /\ pc = "forward"
    BY DEF ForwardChunk, CallFits
<1>3. \A o \in 0..(stream_pos - 1) : Cached(o)
    BY <1>2 DEF CacheIsSource, StreamedBytesKept, Cached
<1>4. /\ have' \in [Pages -> 0..Page]
      /\ wrong' \subseteq 0..Limit
      /\ \A p \in Pages : have'[p] > 0 => p * Page + have'[p] <= len
      /\ kind # "zip" => wrong' = {}
      /\ \A o \in 0..Limit : Cached(o) => Cached(o)'
      /\ \A o \in stream_pos..(stream_pos + n - 1) : Cached(o)'
    BY <1>1, <1>2, <1>3, StoredInPlace
<1>5. /\ stream_pos' = stream_pos + n
      /\ UNCHANGED <<source, known, suspect, chunk, eof, streaming, call>>
    BY DEF ForwardChunk
<1>6. StreamedBytesKept'
  <2>1. \A o \in 0..(stream_pos + n - 1) : Cached(o)'
      BY <1>1, <1>3, <1>4
  <2> QED BY <1>5, <2>1 DEF StreamedBytesKept, Cached
<1>7. chunk.len = 0
    BY <1>2 DEF CacheIsSource, ChunkOfStreaming
<1> QED BY <1>1, <1>4, <1>5, <1>6, <1>7 DEF CacheIsSource, ChunkOfStreaming, source, call

LEMMA StreamChunkData ==
    ASSUME CacheIsSource, CallFits, NEW n \in 1..MaxChunk, StreamChunk(n), kind' = kind
    PROVE  CacheIsSource'
<1> USE SourceFacts
<1>1. n \in Nat \ {0} /\ stream_pos + n <= len
    BY BufferAssumption DEF StreamChunk
<1>2. /\ chunk' = [start |-> stream_pos, len |-> n] /\ stream_pos' = stream_pos + n
      /\ UNCHANGED <<source, known, have, wrong, suspect, eof, streaming>> /\ streaming
    BY DEF StreamChunk, NewChunk, CallFits
<1> QED BY <1>1, <1>2 DEF CacheIsSource, ChunkOfStreaming, StreamedBytesKept, source

LEMMA StreamEndData ==
    ASSUME CacheIsSource, NEW l \in {"forward", "stream"}, StreamEnd(l), kind' = kind
    PROVE  CacheIsSource' /\ known' = len
<1> USE SourceFacts
<1>1. known' = len
    BY DEF StreamEnd
<1>2. UNCHANGED <<source, stream_pos, have, wrong, suspect, chunk, eof, streaming>> /\ pc # "closed"
    BY DEF StreamEnd
<1> QED BY <1>1, <1>2 DEF CacheIsSource, ChunkOfStreaming, StreamedBytesKept, source

\* The range that was asked for, from a page's start or in an archive.
LEMMA RangeData ==
    ASSUME CacheIsSource, pc # "closed", Answers \subseteq {"range"},
           NEW a \in Answers, NEW n \in 0..Limit, NEW start \in 0..len, NEW asked \in Nat,
           kind # "zip" => InPage(start) = 0,
           RangeAnswer(a, start, n, asked),
           UNCHANGED <<source, stream_pos, known, chunk, streaming, kind>>
    PROVE  /\ CacheIsSource'
           /\ \A o \in start..(start + asked - 1) : o < len => Cached(o)'
<1> USE SourceFacts
<1>1. /\ n = MinOf(asked, SatSub(len, start))
      /\ Store(start, n, start)
      /\ suspect' = suspect \cup {p \in {PageOf(start)} : InPage(start) > 0}
    BY DEF RangeAnswer
<1>2. n \in Nat /\ start \in Nat /\ start + n <= len
    BY <1>1 DEF MinOf, SatSub
<1>3. /\ have' \in [Pages -> 0..Page]
      /\ wrong' \subseteq 0..Limit
      /\ \A p \in Pages : have'[p] > 0 => p * Page + have'[p] <= len
      /\ kind # "zip" => wrong' = {}
      /\ \A o \in 0..Limit : Cached(o) => Cached(o)'
      /\ \A o \in start..(start + n - 1) : Cached(o)'
    BY <1>1, <1>2, StoredInPlace
<1>4. suspect' \subseteq Pages
  <2>1. PageOf(start) \in Pages
      BY PagesOfOffsets
  <2> QED BY <1>1, <2>1 DEF Cache
<1>5. CacheIsSource'
    BY <1>3, <1>4, PagesAdded
<1>6. \A o \in start..(start + asked - 1) : o < len => o \in start..(start + n - 1)
    BY <1>1 DEF MinOf, SatSub
<1> QED BY <1>3, <1>5, <1>6

LEMMA CloseData ==
    ASSUME CacheIsSource, close, kind' = kind
    PROVE  CacheIsSource'
<1>1. 0 \in Pages
    BY SourceFacts, Paging DEF Pages
<1>2. have' \in [Pages -> 0..Page] /\ \A p \in Pages : have'[p] > 0 => have'[p] = have[p]
    BY <1>1, SourceFacts DEF close, CacheIsSource
<1> QED BY <1>2 DEF close, source, CacheIsSource, ChunkOfStreaming, StreamedBytesKept

-----------------------------------------------------------------------------
(* What a step of a running call does to the call.                         *)
Running == {"read", "forward", "stream", "tail", "copy"}

CallStep ==
    \/ pc \in Running /\ \E n, bad : Deliver(n, bad)
    \/ pc \in Running /\ pc' \in Running /\ UNCHANGED <<cursor, want, saved, ret>>
    \/ pc = "range" /\ pc' = "idle" /\ UNCHANGED cursor

LEMMA AnsweredSteps ==
    ASSUME Answered
    PROVE  /\ \/ \E n \in 1..MaxChunk : ForwardChunk(n)
              \/ \E n \in 1..MaxChunk : StreamChunk(n)
              \/ \E n \in 0..Limit, a \in Answers : TailAnswer(a, n)
              \/ \E n \in 0..Limit, a \in Answers : RangeDone(a, n)
              \/ CopyPage \/ ForwardEnd \/ StreamingPage \/ StreamingChunk
              \/ StartTail \/ StartForward \/ StartStreamingTail \/ StartStream
              \/ PastEnd
           /\ UNCHANGED <<kind, tries, file, look>>
<1>1. Answer => \/ \E n \in 1..MaxChunk : ForwardChunk(n)
                \/ \E n \in 1..MaxChunk : StreamChunk(n)
                \/ \E n \in 0..Limit, a \in Answers : TailAnswer(a, n)
                \/ \E n \in 0..Limit, a \in Answers : RangeDone(a, n)
    BY Zenon DEF Answer
<1> QED BY <1>1, Zenon DEF Answered

LEMMA AnsweredIsCallStep ==
    ASSUME Answered
    PROVE  CallStep
<1>1. ASSUME NEW n \in 1..MaxChunk, ForwardChunk(n)
      PROVE  CallStep
    BY <1>1 DEF ForwardChunk, call, CallStep, Running
<1>2. ASSUME NEW n \in 1..MaxChunk, StreamChunk(n)
      PROVE  CallStep
  <2>1. pc = "stream" /\ (UNCHANGED call \/ FromChunk(chunk', stream_pos'))
      BY <1>2 DEF StreamChunk
  <2> QED BY <2>1 DEF FromChunk, call, CallStep, Running
<1>3. ASSUME NEW n \in 0..Limit, NEW a \in Answers, TailAnswer(a, n)
      PROVE  CallStep
    BY <1>3 DEF TailAnswer, CallStep, Running
<1>4. ASSUME NEW n \in 0..Limit, NEW a \in Answers, RangeDone(a, n)
      PROVE  CallStep
    BY <1>4 DEF RangeDone, CallStep
<1>5. CASE CopyPage
    BY <1>5 DEF CopyPage, Return, CallStep, Running
<1>6. CASE ForwardEnd
    BY <1>6 DEF ForwardEnd, StreamEnd, CallStep, Running
<1>7. CASE StreamingPage
    BY <1>7 DEF StreamingPage, Looking, Return, CallStep, Running
<1>8. CASE StreamingChunk
    BY <1>8 DEF StreamingChunk, FromChunk, Looking, CallStep, Running
<1>9. CASE StartTail \/ StartForward \/ StartStreamingTail \/ StartStream
    BY <1>9 DEF StartTail, StartForward, StartStreamingTail, StartStream, Looking, Goto, CallStep, Running
<1>10. CASE PastEnd
    BY <1>10 DEF PastEnd, Return, CallStep, Running
<1> QED BY <1>1, <1>2, <1>3, <1>4, <1>5, <1>6, <1>7, <1>8, <1>9, <1>10, AnsweredSteps

\* read_at puts the cursor back, however its offset and length came about.
LEMMA ReadAtPutsBack ==
    ASSUME CursorAtStart, CallStep
    PROVE  CursorAtStart'
<1>1. NONE # 0
    BY BufferAssumption
<1>2. CASE pc \in Running /\ \E n, bad : Deliver(n, bad)
  <2>1. saved = 0
      BY <1>2 DEF CursorAtStart, Running
  <2>2. PICK n, bad : Deliver(n, bad)
      BY <1>2
  <2>3. (pc' = "idle" /\ cursor' = 0) \/ (pc' = "read" /\ saved' = 0)
      BY <1>1, <2>1, <2>2 DEF Deliver
  <2> QED BY <2>3 DEF CursorAtStart
<1>3. CASE pc \in Running /\ pc' \in Running /\ UNCHANGED <<cursor, want, saved, ret>>
    BY <1>3 DEF CursorAtStart, Running
<1>4. CASE pc = "range" /\ pc' = "idle" /\ UNCHANGED cursor
    BY <1>4 DEF CursorAtStart
<1> QED BY <1>2, <1>3, <1>4 DEF CallStep

\* Every step of a call that goes well keeps what the cache holds.
LEMMA AnsweredData ==
    ASSUME CacheIsSource, CallFits, Answers \subseteq {"range"}, Answered
    PROVE  CacheIsSource' /\ CallFits'
<1> USE SourceFacts
<1>1. kind' = kind
    BY AnsweredSteps
<1>2. CASE UNCHANGED <<source, data, eof, streaming>> /\ CallStep /\ pc' # "tail"
           /\ (pc' = "forward" => ~streaming) /\ (pc' = "stream" => streaming)
  <2>1. pc # "closed" /\ pc' # "range"
      BY <1>2 DEF CallStep, Running, Deliver
  <2> QED BY <1>1, <1>2, <2>1, DataStays DEF CallFits, data
<1>3. ASSUME NEW n \in 1..MaxChunk, ForwardChunk(n)
      PROVE  CacheIsSource' /\ CallFits'
  <2>1. CacheIsSource'
      BY <1>1, <1>3, ForwardChunkData
  <2> QED BY <1>3, <2>1 DEF ForwardChunk, CallFits, call
<1>4. ASSUME NEW n \in 1..MaxChunk, StreamChunk(n)
      PROVE  CacheIsSource' /\ CallFits'
  <2>1. CacheIsSource'
      BY <1>1, <1>4, StreamChunkData
  <2>2. /\ pc = "stream" /\ (UNCHANGED call \/ FromChunk(chunk', stream_pos'))
        /\ UNCHANGED <<eof, streaming>>
      BY <1>4 DEF StreamChunk
  <2>3. pc' \in {"stream", "idle", "read"}
      BY <2>2 DEF FromChunk, Deliver, call
  <2> QED BY <2>1, <2>2, <2>3 DEF CallFits
<1>5. ASSUME NEW n \in 0..Limit, NEW a \in Answers, TailAnswer(a, n)
      PROVE  CacheIsSource' /\ CallFits'
  <2>1. /\ pc = "tail" /\ pc' = "copy"
        /\ RangeAnswer(a, TailStart, n, known - TailStart)
        /\ UNCHANGED <<source, stream_pos, known, chunk, cursor, want, saved, ret, eof, streaming>>
      BY <1>5 DEF TailAnswer
  <2>2. known = len
      BY <2>1 DEF CallFits
  <2>3. SatSub(known, TailFetch) \in Nat /\ SatSub(known, TailFetch) <= len
      BY <2>2 DEF SatSub
  <2>4. TailStart \in 0..len /\ known - TailStart \in Nat /\ InPage(TailStart) = 0
    <3>1. PageOf(SatSub(known, TailFetch)) \in Nat
        BY <2>3, Paging
    <3>2. InPage(TailStart) = 0
        BY <3>1, Aligned DEF TailStart
    <3>3. TailStart \in Nat /\ TailStart <= SatSub(known, TailFetch)
        BY <2>3, PageBegins DEF TailStart
    <3> QED BY <2>2, <2>3, <3>2, <3>3
  <2>5. CacheIsSource'
      BY <1>1, <2>1, <2>4, RangeData
  <2> QED BY <2>1, <2>5 DEF CallFits
<1>6. ASSUME NEW n \in 0..Limit, NEW a \in Answers, RangeDone(a, n)
      PROVE  CacheIsSource' /\ CallFits'
  <2>1. /\ pc = "range" /\ pc' = "idle"
        /\ RangeAnswer(a, saved, n, want)
        /\ UNCHANGED <<source, stream_pos, known, chunk, cursor, ret, eof, streaming>>
      BY <1>6 DEF RangeDone
  <2>2. kind = "zip" /\ saved \in 0..len /\ want \in Nat
      BY <2>1 DEF CallFits
  <2>3. CacheIsSource'
      BY <1>1, <2>1, <2>2, RangeData
  <2> QED BY <2>1, <2>3 DEF CallFits
<1>7. CASE ForwardEnd
  <2>1. CacheIsSource'
      BY <1>1, <1>7, StreamEndData DEF ForwardEnd
  <2> QED BY <1>7, <2>1 DEF ForwardEnd, StreamEnd, CallFits
<1>8. CASE StartTail \/ StartStreamingTail
  <2>1. /\ known # NONE /\ pc = "read" /\ pc' = "tail"
        /\ UNCHANGED <<source, data, eof, streaming>>
      BY <1>8 DEF StartTail, StartStreamingTail, TailWorth, Goto
  <2>2. CacheIsSource'
      BY <1>1, <2>1, DataStays
  <2> QED BY <2>1, <2>2 DEF CallFits, data
<1>9. CASE StartForward \/ StartStream
  <2>1. /\ UNCHANGED <<source, data, eof, streaming>>
        /\ \/ pc' = "forward" /\ ~streaming
           \/ pc' = "stream" /\ streaming
      BY <1>9 DEF StartForward, StartStream, Looking, Goto
  <2> QED BY <1>2, <2>1, AnsweredIsCallStep
<1>10. CASE PastEnd \/ CopyPage \/ StreamingPage \/ StreamingChunk
  <2>1. UNCHANGED <<source, data, eof, streaming>> /\ pc' \in {"idle", "read"}
      BY <1>10 DEF PastEnd, CopyPage, StreamingPage, StreamingChunk, FromChunk, Return, Deliver
  <2> QED BY <1>2, <2>1, AnsweredIsCallStep
<1> QED BY <1>3, <1>4, <1>5, <1>6, <1>7, <1>8, <1>9, <1>10, AnsweredSteps

-----------------------------------------------------------------------------
(* A loop of reads from the start on: the renderer's, the progressive one. *)

\* What a step that goes well does to the step and to what was got.
LEMMA AnsweredGot ==
    ASSUME Answered, got = [n |-> got.n, exact |-> got.exact, clean |-> got.clean]
    PROVE  /\ got' = [n |-> got'.n, exact |-> got'.exact, clean |-> got'.clean]
           /\ got'.clean = got.clean
           /\ (step \in {"progressive", "render"} /\ pc' = "idle") =>
                  /\ got'.n = got.n + cursor' - cursor
                  /\ got'.exact <=> got.exact /\ ret'.exact /\ cursor = got.n
           /\ ~(step \in {"progressive", "render"} /\ pc' = "idle") => got' = got
           /\ step' = step \/ (step = "sniff" /\ step' = "shortcut")
                           \/ (step = "rawjpeg" /\ step' = "rawdecode")
           /\ pc' # "idle" => step' = step
<1>1. got' = IF step \in {"progressive", "render"} /\ pc' = "idle"
             THEN [got EXCEPT !.n = @ + cursor' - cursor,
                              !.exact = @ /\ ret'.exact /\ cursor = got.n]
             ELSE got
    BY Zenon DEF Answered
<1>2. /\ step' = step \/ (step = "sniff" /\ step' = "shortcut")
                      \/ (step = "rawjpeg" /\ step' = "rawdecode")
      /\ pc' # "idle" => step' = step
  <2>1. step' = IF pc' # "idle" THEN step
               ELSE IF step = "sniff" THEN "shortcut"
               ELSE IF step = "rawjpeg" /\ (cursor' = cursor \/ cursor' = SpanEnd)
               THEN "rawdecode" ELSE step
      BY Zenon DEF Answered
  <2> QED BY <2>1
<1>3. CASE step \in {"progressive", "render"} /\ pc' = "idle"
  <2> DEFINE m == got.n + cursor' - cursor
             e == got.exact /\ ret'.exact /\ cursor = got.n
  <2>1. got' = [got EXCEPT !.n = m, !.exact = e]
      BY <1>1, <1>3, Zenon
  <2> HIDE DEF m, e
  <2>2. got' = [n |-> m, exact |-> e, clean |-> got.clean]
      BY <2>1
  <2>3. got'.n = m /\ got'.exact = e /\ got'.clean = got.clean
      BY <2>2
  <2>4. got' = [n |-> got'.n, exact |-> got'.exact, clean |-> got'.clean]
      BY <2>2, <2>3
  <2> USE DEF m, e
  <2> QED BY <1>3, <2>3, <2>4, <1>2
<1>4. CASE ~(step \in {"progressive", "render"} /\ pc' = "idle")
    BY <1>1, <1>4, <1>2
<1> QED BY <1>3, <1>4

LEMMA BytesAtCursor ==
    ASSUME CacheIsSource, cursor \in 0..len
    PROVE  /\ PageOf(cursor) \in Pages
           /\ Available \in Nat
           /\ Available > 0 <=> Cached(cursor)
           /\ cursor + Available <= len
<1> USE SourceFacts
<1> DEFINE p == PageOf(cursor)
<1>1. p \in Pages /\ p \in Nat /\ InPage(cursor) \in Nat /\ cursor = p * Page + InPage(cursor)
    BY PagesOfOffsets, Paging
<1>2. have[p] \in 0..Page /\ (have[p] > 0 => p * Page + have[p] <= len)
    BY <1>1 DEF CacheIsSource
<1>3. p * Page \in Nat
    BY <1>1, Aligned
<1> QED BY <1>1, <1>2, <1>3 DEF Available, SatSub, Cached

\* A page there is nothing to wait for has the byte or there is none.
LEMMA SettledPage ==
    ASSUME CacheIsSource, cursor \in 0..len, ~streaming, pc # "closed", Settled
    PROVE  cursor = len \/ Available > 0
<1> USE SourceFacts
<1> DEFINE p == PageOf(cursor)
<1>1. /\ p \in Pages /\ p \in Nat /\ InPage(cursor) \in Nat /\ InPage(cursor) < Page
      /\ cursor = p * Page + InPage(cursor) /\ cursor \in Nat
    BY BytesAtCursor, Paging
<1>2. p * Page \in Nat /\ (p + 1) * Page = p * Page + Page
    BY <1>1, Aligned
<1>3. CASE known # NONE /\ p * Page >= known
    BY <1>1, <1>2, <1>3
<1>4. CASE have[p] >= Expected
  <2>1. have[p] \in 0..Page
      BY <1>1 DEF CacheIsSource
  <2>2. CASE known = NONE
    <3>1. Cached(cursor)
        BY <1>1, <1>4, <2>1, <2>2 DEF Expected, Cached
    <3> QED BY <3>1, BytesAtCursor
  <2>3. CASE known = len
    <3>1. Expected = SatSub(MinOf(len, p * Page + Page), p * Page)
        BY <1>2, <2>3 DEF Expected
    <3>2. cursor >= len \/ InPage(cursor) < have[p]
        BY <1>1, <1>2, <1>4, <2>1, <3>1 DEF SatSub, MinOf
    <3> QED BY <1>1, <3>2, BytesAtCursor DEF Cached
  <2> QED BY <2>2, <2>3
<1>5. CASE stream_pos >= (p + 1) * Page
  <2>1. cursor \in 0..(stream_pos - 1)
      BY <1>1, <1>2, <1>5
  <2>2. Cached(cursor)
      BY <2>1 DEF CacheIsSource, StreamedBytesKept, Cached
  <2> QED BY <2>2, BytesAtCursor
<1> QED BY <1>3, <1>4, <1>5 DEF Settled

LEMMA LoopRoom ==
    ASSUME ReadsOn, pc # "idle"
    PROVE  Room = Buf /\ Buf \in Nat \ {0} /\ saved = NONE
  BY ShortcutAssumption DEF ReadsOn, Room

\* A read of the loop that comes back.
LEMMA LoopDelivers ==
    ASSUME ReadsOn, pc # "idle", NEW n, Deliver(n, {})
    PROVE  pc' = "idle" /\ cursor' = cursor + n /\ ret'.exact
<1>1. saved = NONE
    BY DEF ReadsOn
<1> QED BY <1>1 DEF Deliver, Verdict

\* Cached bytes are the source's; none come at its end only.
LEMMA LoopCopies ==
    ASSUME CacheIsSource, CallFits, ReadsOn, kind # "zip", CopyPage
    PROVE  \E n \in Nat : Deliver(n, {}) /\ cursor + n <= len /\ (n = 0 => cursor = len)
<1> USE SourceFacts
<1> DEFINE rest == IF End = NONE THEN Available ELSE MinOf(Available, SatSub(End, cursor))
           n == MinOf(Room, rest)
<1>1. pc \in {"read", "forward", "copy"} /\ ~streaming /\ eof = NONE
    BY DEF CopyPage, CallFits
<1>2. cursor \in 0..len /\ Room \in Nat \ {0} /\ Available \in Nat /\ cursor + Available <= len
    BY <1>1, BytesAtCursor, LoopRoom DEF ReadsOn
<1>3. End = known
    BY <1>1 DEF End
<1>4. n \in Nat /\ n <= Available /\ (n = 0 => cursor = len \/ Available = 0)
    BY <1>2, <1>3 DEF MinOf, SatSub
<1>5. Available = 0 => cursor = len
  <2>1. CASE pc = "copy"
      BY <1>2, <2>1 DEF ReadsOn
  <2>2. CASE pc # "copy"
      BY <1>1, <1>2, <2>2, SettledPage DEF CopyPage
  <2> QED BY <2>1, <2>2
<1>6. Return(n, wrong \cap (cursor..(cursor + n - 1))) /\ wrong = {}
    BY DEF CopyPage, CacheIsSource
<1> HIDE DEF n, rest
<1>7. Deliver(n, {})
    BY <1>6 DEF Return
<1> QED BY <1>2, <1>4, <1>5, <1>7

\* In streaming mode: from the cache, or from the chunk.
LEMMA LoopStreams ==
    ASSUME CacheIsSource, ReadsOn, kind # "zip", StreamingPage \/ StreamingChunk
    PROVE  \E n \in Nat : Deliver(n, {}) /\ cursor + n <= len
<1> USE SourceFacts
<1>1. pc # "idle" /\ cursor \in 0..len
    BY DEF StreamingPage, StreamingChunk, Looking, ReadsOn
<1>2. Room \in Nat \ {0} /\ Available \in Nat /\ cursor + Available <= len
    BY <1>1, BytesAtCursor, LoopRoom
<1>3. CASE StreamingPage
  <2> DEFINE n == MinOf(Room, Available)
  <2>1. Return(n, wrong \cap (cursor..(cursor + n - 1))) /\ wrong = {}
      BY <1>3 DEF StreamingPage, CacheIsSource
  <2>2. n \in Nat /\ cursor + n <= len
      BY <1>1, <1>2 DEF MinOf
  <2> HIDE DEF n
  <2>3. Deliver(n, {})
      BY <2>1 DEF Return
  <2> QED BY <2>2, <2>3
<1>4. CASE StreamingChunk
  <2> DEFINE n == MinOf(Room, chunk.start + chunk.len - cursor)
  <2>1. /\ chunk.start \in 0..len /\ chunk.len \in 0..len
        /\ chunk.start <= cursor /\ cursor < chunk.start + chunk.len
        /\ chunk.start + chunk.len = stream_pos
      BY <1>1, <1>4 DEF StreamingChunk, InChunk, CacheIsSource
  <2>2. n \in Nat /\ cursor + n <= len
      BY <1>1, <1>2, <2>1 DEF MinOf
  <2>3. Deliver(n, {})
      BY <1>4, <2>1 DEF StreamingChunk, FromChunk
  <2> HIDE DEF n
  <2> QED BY <2>2, <2>3
<1> QED BY <1>3, <1>4

\* What a loop gets goes on where it has got to.
LEMMA LoopGoesOn ==
    ASSUME CacheIsSource, ReadsOn, pc # "idle", NEW n \in Nat, Deliver(n, {}), cursor + n <= len,
           len' = len, got'.n = got.n + cursor' - cursor,
           got'.exact <=> got.exact /\ ret'.exact /\ cursor = got.n
    PROVE  ReadsOn'
<1>1. pc' = "idle" /\ cursor' = cursor + n /\ ret'.exact
    BY LoopDelivers
<1>2. cursor = got.n /\ cursor \in Nat /\ got.exact
    BY SourceFacts DEF ReadsOn
<1>3. cursor' = got'.n /\ got'.exact /\ cursor' \in 0..len'
    BY <1>1, <1>2, SourceFacts
<1> QED BY <1>1, <1>3 DEF ReadsOn

\* A loop that waits, and the page or the chunk it waits for.
LEMMA LoopWaits ==
    ASSUME ReadsOn, got' = got, pc' \in Running, pc # "idle", UNCHANGED <<cursor, want, saved, len>>,
           pc' = "stream" => cursor' >= stream_pos',
           pc' = "tail" => TailStart' <= cursor',
           pc' = "copy" => cursor' >= len' \/ Available' > 0
    PROVE  ReadsOn'
  BY DEF ReadsOn, Running

LEMMA LoopAnswered ==
    ASSUME CacheIsSource, CallFits, ReadsOn, kind # "zip", Answers \subseteq {"range"},
           step \in {"progressive", "render"}, Answered,
           got = [n |-> got.n, exact |-> got.exact, clean |-> got.clean]
    PROVE  ReadsOn'
<1> USE SourceFacts
<1>1. /\ pc' = "idle" => /\ got'.n = got.n + cursor' - cursor
                         /\ got'.exact <=> got.exact /\ ret'.exact /\ cursor = got.n
      /\ pc' # "idle" => got' = got
    BY AnsweredGot
<1>2. cursor \in 0..len /\ (pc # "idle" => pc \in Running /\ saved = NONE)
    BY DEF ReadsOn, Running
<1>3. ASSUME NEW n \in Nat, Deliver(n, {}), cursor + n <= len, pc # "idle", len' = len
      PROVE  ReadsOn'
  <2>1. pc' = "idle"
      BY <1>3, LoopDelivers
  <2> QED BY <1>1, <1>3, <2>1, LoopGoesOn
<1>4. ASSUME NEW n \in 1..MaxChunk, ForwardChunk(n)
      PROVE  ReadsOn'
  <2>1. pc = "forward" /\ UNCHANGED <<call, source>>
      BY <1>4 DEF ForwardChunk
  <2> QED BY <1>1, <2>1, LoopWaits DEF call, source, Running
<1>5. ASSUME NEW n \in 1..MaxChunk, StreamChunk(n)
      PROVE  ReadsOn'
  <2>1. /\ pc = "stream" /\ len' = len /\ cursor >= stream_pos
        /\ n \in Nat \ {0} /\ stream_pos + n <= len
        /\ stream_pos' = stream_pos + n
        /\ chunk' = [start |-> stream_pos, len |-> n]
        /\ IF chunk'.start <= cursor /\ cursor < chunk'.start + n
           THEN FromChunk(chunk', stream_pos')
           ELSE UNCHANGED call
      BY <1>5, BufferAssumption DEF StreamChunk, NewChunk, ReadsOn, source
  <2>2. CASE cursor < stream_pos + n
    <3> DEFINE m == MinOf(Room, stream_pos + n - cursor)
    <3>1. Room \in Nat \ {0}
        BY <2>1, LoopRoom
    <3>2. m \in Nat /\ cursor + m <= len
        BY <1>2, <2>1, <2>2, <3>1 DEF MinOf
    <3>3. Deliver(m, {})
        BY <2>1, <2>2 DEF FromChunk
    <3> HIDE DEF m
    <3> QED BY <1>3, <2>1, <3>2, <3>3
  <2>3. CASE ~(cursor < stream_pos + n)
    <3>1. UNCHANGED call
        BY <2>1, <2>3
    <3> QED BY <1>1, <1>2, <2>1, <2>3, <3>1, LoopWaits DEF call, Running
  <2> QED BY <2>2, <2>3
<1>6. ASSUME NEW n \in 0..Limit, NEW a \in Answers, TailAnswer(a, n)
      PROVE  ReadsOn'
  <2>1. /\ pc = "tail" /\ pc' = "copy"
        /\ RangeAnswer(a, TailStart, n, known - TailStart)
        /\ UNCHANGED <<source, stream_pos, known, chunk, cursor, want, saved, ret, eof, streaming>>
      BY <1>6 DEF TailAnswer
  <2>2. known = len /\ TailStart <= cursor
      BY <2>1 DEF CallFits, ReadsOn
  <2>3. SatSub(known, TailFetch) \in Nat /\ SatSub(known, TailFetch) <= len
      BY <2>2 DEF SatSub
  <2>4. TailStart \in 0..len /\ known - TailStart \in Nat /\ InPage(TailStart) = 0
    <3>1. PageOf(SatSub(known, TailFetch)) \in Nat
        BY <2>3, Paging
    <3>2. InPage(TailStart) = 0
        BY <3>1, Aligned DEF TailStart
    <3>3. TailStart \in Nat /\ TailStart <= SatSub(known, TailFetch)
        BY <2>3, PageBegins DEF TailStart
    <3> QED BY <2>2, <2>3, <3>2, <3>3
  <2>5. kind' = kind
      BY AnsweredSteps
  <2>6. CacheIsSource' /\ \A o \in TailStart..(TailStart + (known - TailStart) - 1) : o < len => Cached(o)'
      BY <2>1, <2>4, <2>5, RangeData
  <2>7. cursor' = cursor /\ len' = len
      BY <2>1 DEF source
  <2>8. cursor < len => Available' > 0
    <3> SUFFICES ASSUME cursor < len PROVE Available' > 0
        OBVIOUS
    <3>1. cursor \in TailStart..(TailStart + (known - TailStart) - 1)
        BY <1>2, <2>2, <2>4
    <3>2. InPage(cursor) < have'[PageOf(cursor)]
        BY <2>6, <3>1 DEF Cached
    <3>3. InPage(cursor) \in Nat /\ have'[PageOf(cursor)] \in 0..Page
        BY <1>2, <2>6, PagesOfOffsets, Paging DEF CacheIsSource
    <3> QED BY <2>7, <3>2, <3>3 DEF Available, SatSub
  <2> QED BY <1>1, <1>2, <2>1, <2>7, <2>8, LoopWaits DEF Running
<1>7. ASSUME NEW n \in 0..Limit, NEW a \in Answers, RangeDone(a, n)
      PROVE  ReadsOn'
    BY <1>7 DEF RangeDone, ReadsOn
<1>8. CASE CopyPage
  <2>1. len' = len /\ pc # "idle"
      BY <1>8 DEF CopyPage, Return, source
  <2> QED BY <1>3, <1>8, <2>1, LoopCopies
<1>9. CASE StreamingPage \/ StreamingChunk
  <2>1. len' = len /\ pc # "idle"
      BY <1>9 DEF StreamingPage, StreamingChunk, Looking, Return, source
  <2> QED BY <1>3, <1>9, <2>1, LoopStreams
<1>10. CASE ForwardEnd
  <2>1. /\ pc = "forward" /\ pc' = "copy" /\ stream_pos = len /\ ~streaming
        /\ UNCHANGED <<source, have, cursor, want, saved>>
      BY <1>10 DEF ForwardEnd, StreamEnd, CallFits
  <2>2. cursor < len => Available > 0
    <3>1. cursor < len => Cached(cursor)
        BY <1>2, <2>1 DEF CacheIsSource, StreamedBytesKept, Cached
    <3> QED BY <1>2, <3>1, BytesAtCursor
  <2>3. Available' = Available
      BY <2>1 DEF Available
  <2> QED BY <1>1, <1>2, <2>1, <2>2, <2>3, LoopWaits DEF source, Running
<1>11. CASE StartTail \/ StartStreamingTail
  <2>1. /\ pc = "read" /\ pc' = "tail" /\ known = len
        /\ UNCHANGED <<source, data, cursor, want, saved>>
        /\ cursor >= SatSub(known, TailFetch)
    <3>1. CASE StartTail
      <4>1. /\ PageOf(cursor) * Page >= SatSub(known, TailFetch) /\ known # NONE
            /\ pc = "read" /\ pc' = "tail" /\ UNCHANGED <<source, data, cursor, want, saved>>
          BY <3>1 DEF StartTail, TailWorth, Goto
      <4>2. PageOf(cursor) * Page \in Nat /\ PageOf(cursor) * Page <= cursor
          BY <1>2, PageBegins
      <4>3. SatSub(known, TailFetch) \in Nat
          BY <4>1 DEF SatSub
      <4> QED BY <1>2, <4>1, <4>2, <4>3
    <3>2. CASE StartStreamingTail
        BY <3>2 DEF StartStreamingTail, TailWorth, Goto
    <3> QED BY <1>11, <3>1, <3>2
  <2>2. SatSub(known, TailFetch) \in Nat
      BY <2>1 DEF SatSub
  <2>3. TailStart \in Nat /\ TailStart <= SatSub(known, TailFetch)
      BY <2>2, PageBegins DEF TailStart
  <2>4. TailStart' = TailStart
      BY <2>1 DEF TailStart, data
  <2> QED BY <1>1, <1>2, <2>1, <2>2, <2>3, <2>4, LoopWaits DEF source, Running
<1>12. CASE StartForward \/ StartStream
  <2>1. /\ pc # "idle" /\ UNCHANGED <<source, data, cursor, want, saved>>
        /\ pc' = "forward" \/ (pc' = "stream" /\ cursor >= stream_pos)
      BY <1>12 DEF StartForward, StartStream, Looking, Goto
  <2> QED BY <1>1, <2>1, LoopWaits DEF source, data, Running
<1>13. CASE PastEnd
  <2>1. Deliver(0, {}) /\ pc # "idle" /\ len' = len
      BY <1>13 DEF PastEnd, Return, source
  <2> QED BY <1>2, <1>3, <2>1
<1> QED BY <1>4, <1>5, <1>6, <1>7, <1>8, <1>9, <1>10, <1>11, <1>12, <1>13, AnsweredSteps

-----------------------------------------------------------------------------
(* The steps of the cook.                                                  *)
LEMMA ReadFacts ==
    ASSUME ReadInv
    PROVE  CacheIsSource /\ CallFits /\ OfKind /\ Asks /\ Undisturbed /\ LoopReadsOn
  BY DEF ReadInv

LEMMA TriesOf ==
    ASSUME NEW k \in Kinds, NEW t \in {Tries[k][i] : i \in DOMAIN Tries[k]}
    PROVE  /\ t = "progressive" => k = "jpeg"
           /\ t = "zip" => k = "zip"
  BY ShortcutAssumption DEF Tries

\* The shortcut that runs is one of its kind.
LEMMA TriedIsOfKind ==
    ASSUME OfKind, tries # <<>>
    PROVE  /\ Head(tries) = "progressive" => kind = "jpeg"
           /\ Head(tries) = "zip" => kind = "zip"
<1>1. kind \in Kinds /\ Head(tries) \in {Tries[kind][i] : i \in DOMAIN Tries[kind]}
    BY DEF OfKind
<1> QED BY <1>1, TriesOf

\* A step of a shortcut that calls read_at, fetch_range or nothing.
LEMMA ShortcutGoesOn ==
    ASSUME ReadInv, pc = "idle", step \in Fetching, step' \in Fetching,
           UNCHANGED <<source, data, eof, streaming, kind, tries, got>>,
           \/ pc' = "idle" /\ cursor' = cursor
           \/ pc' = "read" /\ saved' = cursor
           \/ pc' = "range" /\ cursor' = cursor /\ kind = "zip" /\ saved' \in 0..len /\ want' \in Nat,
           \/ Head(tries) # "progressive" /\ step' # "size"
           \/ Head(tries) = "progressive" /\ kind = "jpeg" /\ step' = "size"
    PROVE  ReadInv'
<1> USE ReadFacts DEF source, data
<1>1. CacheIsSource'
    BY DataStays
<1>2. CallFits'
    BY DEF CallFits
<1>3. OfKind' /\ Asks'
    BY DEF OfKind, Fetching, Rendering, Asks, Asking
<1>4. Undisturbed'
    BY DEF Undisturbed, CursorAtStart, Fetching
<1>5. LoopReadsOn' /\ ReadAtLeavesSource' /\ ProgressivePrefix'
    BY DEF LoopReadsOn, ReadAtLeavesSource, RendererReadsSource, ProgressivePrefix, Fetching
<1> QED BY <1>1, <1>2, <1>3, <1>4, <1>5 DEF ReadInv

\* A step of none of the shortcuts' reads and of none of the loops.
LEMMA StepsAside ==
    ASSUME ReadInv, CacheIsSource', CallFits', Asks', UNCHANGED <<streaming, kind, tries, got>>,
           step' \notin Fetching \cup {"progressive", "clear", "render", "rendered"},
           step' \in Rendering => kind # "zip",
           step' = "failed" \/ step \notin {"render", "rendered", "failed"}
                            \/ (step = "render" /\ got.n = 0)
    PROVE  ReadInv'
<1> USE ReadFacts
<1>1. OfKind'
    BY DEF OfKind, Fetching, Rendering
<1>2. Undisturbed'
    BY DEF Undisturbed, LoopReadsOn, ReadsOn
<1>3. LoopReadsOn' /\ ReadAtLeavesSource' /\ ProgressivePrefix'
    BY DEF LoopReadsOn, ReadAtLeavesSource, RendererReadsSource, ProgressivePrefix, Fetching
<1> QED BY <1>1, <1>2, <1>3 DEF ReadInv

\* The same when the buffer is only asked for something.
LEMMA AsksAside ==
    ASSUME ReadInv, pc # "closed", UNCHANGED <<source, data, eof, streaming, kind, tries, got>>,
           pc' = "idle" \/ (pc' = "read" /\ step' \in {"rawheader", "rawtable", "rawjpeg", "hinted"}),
           step' \notin Fetching \cup {"progressive", "clear", "render", "rendered"},
           step' \in Rendering => kind # "zip",
           step' = "failed" \/ step \notin {"render", "rendered", "failed"}
                            \/ (step = "render" /\ got.n = 0)
    PROVE  ReadInv'
<1>1. CacheIsSource' /\ CallFits' /\ Asks'
    BY ReadFacts, DataStays DEF CallFits, Asks, Asking
<1> QED BY <1>1, StepsAside

\* The calls of the shortcuts, and what they make of the answers.
LEMMA ShortcutsKeep ==
    ASSUME ReadInv,
           \/ TryWhole \/ TryHeader \/ TryWebp \/ ReadPreview
           \/ SubIfds \/ ReadSubIfd \/ ParseSubIfd \/ ReadSubPreview
           \/ ReadIfd1 \/ ReadIfd1Preview
           \/ DimsKnown
           \/ \E r \in DimsReads : ReadDims(r[1], r[2])
           \/ \E r \in DimsReads : ReadNoDims(r[1], r[2])
           \/ ReadMeta \/ NoMeta \/ ZipInline \/ ReadEntry \/ Extract \/ TryAudio
    PROVE  ReadInv'
<1> USE DEF Idle
<1>1. ASSUME NEW o, NEW n, ReadAt(o, n)
      PROVE  /\ pc = "idle" /\ pc' = "read" /\ saved' = cursor
             /\ UNCHANGED <<source, data, eof, streaming>>
    BY <1>1 DEF ReadAt
<1>2. step \in {"header", "preview", "subifds", "subifd", "ifd1", "directory", "entry", "extract"}
          => Head(tries) # "progressive"
    BY ReadFacts DEF OfKind
<1>3. CASE TryWhole \/ TryHeader \/ TryWebp \/ TryAudio
  <2>1. /\ step = "shortcut" /\ Head(tries) # "progressive" /\ step' \in {"decode", "header", "apic"}
        /\ UNCHANGED <<kind, tries, got>>
        /\ \E o, n : ReadAt(o, n)
      BY <1>3 DEF TryWhole, TryHeader, TryWebp, TryAudio, Try, To
  <2> QED BY <1>1, <2>1, ShortcutGoesOn DEF Fetching
<1>4. CASE ReadPreview \/ ReadSubIfd \/ ReadSubPreview \/ ReadIfd1 \/ ReadIfd1Preview \/ ReadMeta \/ ReadEntry
  <2>1. /\ step \in {"header", "subifds", "ifd1", "directory", "entry"}
        /\ step' \in {"preview", "subifd", "ifd1", "entry", "extract"}
        /\ UNCHANGED <<kind, tries, got>>
        /\ \E o, n : ReadAt(o, n)
      BY <1>4 DEF ReadPreview, ReadSubIfd, ReadSubPreview, ReadIfd1, ReadIfd1Preview, ReadMeta,
          ReadEntry, To, Found
  <2> QED BY <1>1, <1>2, <2>1, ShortcutGoesOn DEF Fetching
<1>5. ASSUME NEW r \in DimsReads, ReadDims(r[1], r[2]) \/ ReadNoDims(r[1], r[2])
      PROVE  ReadInv'
  <2>1. /\ step = "preview" /\ step' \in {"decode", "none"} /\ UNCHANGED <<kind, tries, got>>
        /\ ReadAt(r[1], r[2])
      BY <1>5 DEF ReadDims, ReadNoDims, To
  <2> QED BY <1>1, <1>2, <2>1, ShortcutGoesOn DEF Fetching
<1>6. CASE SubIfds \/ ParseSubIfd \/ DimsKnown \/ NoMeta \/ ZipInline \/ Extract
  <2>1. /\ step \in {"header", "subifd", "preview", "directory", "entry", "extract"}
        /\ step' \in {"subifds", "decode", "entry"}
        /\ UNCHANGED <<vars, kind, tries, got>> /\ pc = "idle"
      BY <1>6 DEF SubIfds, ParseSubIfd, DimsKnown, NoMeta, ZipInline, Extract, To, Found
  <2> QED BY <1>2, <2>1, ShortcutGoesOn DEF Fetching, vars, source, data, call
<1> QED BY <1>3, <1>4, <1>5, <1>6

LEMMA TryZipKeeps ==
    ASSUME ReadInv, TryZip
    PROVE  ReadInv'
<1> USE ReadFacts, SourceFacts DEF Idle
<1>1. /\ step = "shortcut" /\ Head(tries) = "zip" /\ step' = "directory"
      /\ UNCHANGED <<kind, tries, got>> /\ known = len
      /\ IF TailFrom(ZipWindow) = 0 THEN ReadAt(0, known) ELSE FetchRange(TailFrom(ZipWindow), ZipWindow)
    BY DEF TryZip, Try, To
<1>2. kind = "zip"
    BY <1>1, TriedIsOfKind DEF OfKind, Fetching, Rendering
<1>3. CASE ReadAt(0, known)
    BY <1>1, <1>3, ShortcutGoesOn DEF ReadAt, Fetching
<1>4. CASE FetchRange(TailFrom(ZipWindow), ZipWindow)
  <2>1. TailFrom(ZipWindow) \in 0..len /\ ZipWindow \in Nat
      BY <1>1, ShortcutAssumption DEF TailFrom, SatSub
  <2> QED BY <1>1, <1>2, <1>4, <2>1, ShortcutGoesOn DEF FetchRange, Fetching
<1> QED BY <1>1, <1>3, <1>4

\* The connection is closed when something was found.
LEMMA ClosingKeeps ==
    ASSUME ReadInv, Cover \/ DecodeCover \/ Decoded
    PROVE  ReadInv'
<1> USE ReadFacts DEF Idle
<1>1. CASE Cover \/ Decoded
  <2>1. /\ close /\ UNCHANGED <<kind, tries, got>> /\ step \in {"apic", "decode"}
        /\ step' \in {"cover", "served"}
      BY <1>1 DEF Cover, Decoded, Found, To
  <2>2. CacheIsSource'
      BY <2>1, CloseData
  <2>3. CallFits' /\ Asks' /\ UNCHANGED streaming
      BY <2>1 DEF CallFits, Asks, close
  <2> QED BY <2>1, <2>2, <2>3, StepsAside DEF Fetching, Rendering
<1>2. CASE DecodeCover
  <2>1. UNCHANGED <<vars, kind, tries, got>> /\ step = "cover" /\ step' \in {"served", "bare"}
      BY <1>2 DEF DecodeCover, To
  <2>2. CacheIsSource' /\ CallFits' /\ Asks'
      BY <2>1 DEF CacheIsSource, CallFits, Asks, Asking, Fetching, vars, source, data, call,
          ChunkOfStreaming, StreamedBytesKept
  <2> QED BY <2>1, <2>2, StepsAside DEF Fetching, Rendering, vars
<1> QED BY <1>1, <1>2

\* No shortcut is left, or the next one begins where the first one did.
LEMMA GiveUpKeeps ==
    ASSUME ReadInv, GiveUp
    PROVE  ReadInv'
<1> USE ReadFacts, SourceFacts DEF Idle
<1>1. /\ step \in Fetching /\ pc = "idle" /\ UNCHANGED <<vars, kind>>
      /\ tries' = Tail(tries)
      /\ step' = IF Tail(tries) # <<>> THEN "shortcut"
                 ELSE IF kind \in {"zip", "mp3"} THEN "handoff"
                 ELSE IF kind = "raw" THEN "raw" ELSE "render"
      /\ got' = [n |-> 0, exact |-> TRUE, clean |-> got.clean]
    BY DEF GiveUp, NothingFound, Fetching, Fresh
<1>2. tries # <<>>
    BY <1>1 DEF OfKind
<1>3. CacheIsSource' /\ CallFits' /\ Asks'
    BY <1>1, DataStays DEF CallFits, Asks, vars, call
<1>4. OfKind'
  <2>1. tries' \in Seq({Tries[kind][i] : i \in DOMAIN Tries[kind]})
      BY <1>1, <1>2 DEF OfKind
  <2>2. step' = "shortcut" => tries' # <<>>
      BY <1>1
  <2>3. step' \in {"shortcut", "handoff", "raw", "render"} /\ (step' \in {"render", "raw"} => kind # "zip")
      BY <1>1
  <2>4. kind' = kind /\ kind \in Kinds
      BY <1>1 DEF OfKind
  <2> QED BY <2>1, <2>2, <2>3, <2>4 DEF OfKind, Fetching, Rendering
<1>5. got.clean => cursor = 0 /\ ~streaming
    BY <1>1 DEF Undisturbed, CursorAtStart
<1>6. step' \in {"shortcut", "handoff", "raw", "render"}
    BY <1>1
<1>7. got'.n = 0 /\ got'.exact /\ got'.clean = got.clean
    BY <1>1
<1>8. Undisturbed'
    BY <1>1, <1>5, <1>6, <1>7 DEF Undisturbed, CursorAtStart, vars, call
<1>9. LoopReadsOn'
    BY <1>1, <1>5, <1>6, <1>7 DEF LoopReadsOn, ReadsOn, vars, call, source
<1>10. ReadAtLeavesSource' /\ ProgressivePrefix'
    BY <1>6 DEF ReadAtLeavesSource, RendererReadsSource, ProgressivePrefix
<1> QED BY <1>3, <1>4, <1>8, <1>9, <1>10 DEF ReadInv

\* The progressive shortcut rewinds, reads up to its budget and lifts the end.
LEMMA ProgressiveKeeps ==
    ASSUME ReadInv,
           TrySize \/ TryProgressive \/ ReadProgressive \/ ProgressiveOver \/ ClearEof
    PROVE  ReadInv'
<1> USE ReadFacts, SourceFacts DEF Idle
<1>1. Budget \in Nat \ {0} /\ Buf \in Nat \ {0}
    BY ShortcutAssumption
<1>2. CASE TryProgressive
  <2>1. /\ pc = "idle" /\ cursor' = 0 /\ eof' = Budget /\ streaming' /\ step' = "progressive"
        /\ got' = [n |-> 0, exact |-> TRUE, clean |-> FALSE]
        /\ UNCHANGED <<source, data, pc, want, saved, ret, kind, tries>>
        /\ step \in Fetching /\ Head(tries) = "progressive"
      BY <1>2 DEF TryProgressive, OfKind, Fresh, Fetching
  <2>2. CacheIsSource'
      BY <2>1 DEF CacheIsSource, ChunkOfStreaming, StreamedBytesKept, source, data
  <2>3. CallFits' /\ Asks'
      BY <2>1 DEF CallFits, Asks
  <2>4. OfKind'
      BY <2>1, TriedIsOfKind DEF OfKind, Fetching, Rendering
  <2>5. ~got'.clean /\ got'.exact /\ got'.n = 0
      BY <2>1
  <2>6. Undisturbed' /\ ReadAtLeavesSource' /\ ProgressivePrefix'
      BY <2>1, <2>5 DEF Undisturbed, ReadAtLeavesSource, ProgressivePrefix
  <2>7. LoopReadsOn'
      BY <2>1, <2>5 DEF LoopReadsOn, ReadsOn, source
  <2> QED BY <2>2, <2>3, <2>4, <2>6, <2>7 DEF ReadInv
<1>3. CASE ReadProgressive
  <2>1. /\ pc = "idle" /\ pc' = "read" /\ saved' = NONE /\ want' = Buf
        /\ step = "progressive" /\ UNCHANGED <<kind, tries, got, step, source, data, eof, streaming, cursor>>
      BY <1>3 DEF ReadProgressive, Read, To
  <2>2. CacheIsSource' /\ CallFits' /\ Asks'
      BY <2>1, DataStays DEF CallFits, Asks, Asking
  <2>3. OfKind' /\ Undisturbed' /\ ReadAtLeavesSource' /\ ProgressivePrefix'
      BY <2>1 DEF OfKind, Rendering, Undisturbed, ReadAtLeavesSource, RendererReadsSource, ProgressivePrefix, Fetching
  <2>4. LoopReadsOn'
      BY <2>1 DEF LoopReadsOn, ReadsOn, source
  <2> QED BY <2>2, <2>3, <2>4 DEF ReadInv
<1>4. CASE ProgressiveOver
  <2>1. /\ step = "progressive" /\ step' = "clear" /\ UNCHANGED <<kind, tries, got>>
        /\ PastEnd \/ StreamingEnd
      BY <1>4 DEF ProgressiveOver, To
  <2>2. ReadsOn /\ eof = Budget /\ streaming /\ cursor \in 0..len /\ got.n = cursor /\ got.exact
      BY <2>1 DEF LoopReadsOn, ReadsOn
  <2>3. pc \in {"read", "stream"} /\ Deliver(0, {}) /\ UNCHANGED <<len, eof, streaming>>
      BY <2>1 DEF PastEnd, StreamingEnd, StreamEnd, Return, source
  <2>4. pc' = "idle"
      BY <2>2, <2>3, LoopDelivers
  <2>5. CacheIsSource'
    <3>1. CASE PastEnd
        BY <2>1, <3>1, DataStays DEF PastEnd, Return
    <3>2. CASE StreamingEnd
        BY <2>1, <3>2, StreamEndData DEF StreamingEnd
    <3> QED BY <2>1, <3>1, <3>2
  <2>6. cursor >= MinOf(Budget, len)
    <3>1. CASE PastEnd
        BY <1>1, <2>2, <3>1 DEF PastEnd, AtEnd, End, MinOf
    <3>2. CASE StreamingEnd
        BY <1>1, <2>2, <3>2 DEF StreamingEnd, StreamEnd, ReadsOn, MinOf
    <3> QED BY <2>1, <3>1, <3>2
  <2>7. CallFits' /\ Asks'
      BY <2>3, <2>4 DEF CallFits, Asks
  <2>8. OfKind' /\ Undisturbed' /\ ReadAtLeavesSource'
      BY <2>1, <2>2 DEF OfKind, Rendering, Undisturbed, ReadAtLeavesSource, RendererReadsSource, Fetching
  <2>9. LoopReadsOn' /\ ProgressivePrefix'
      BY <2>1, <2>2, <2>3, <2>6 DEF LoopReadsOn, ProgressivePrefix
  <2> QED BY <2>5, <2>7, <2>8, <2>9 DEF ReadInv
<1>5. CASE ClearEof
  <2>1. /\ step = "clear" /\ step' = "decode" /\ eof' = NONE
        /\ UNCHANGED <<source, data, call, streaming, kind, tries, got>> /\ pc = "idle"
      BY <1>5 DEF ClearEof, set_eof, To
  <2>2. CacheIsSource' /\ CallFits' /\ Asks'
      BY <2>1, DataStays DEF CallFits, Asks, call
  <2>3. OfKind' /\ Undisturbed' /\ ReadAtLeavesSource'
      BY <2>1 DEF OfKind, Rendering, Undisturbed, ReadAtLeavesSource, RendererReadsSource, Fetching
  <2>4. LoopReadsOn' /\ ProgressivePrefix'
      BY <2>1 DEF LoopReadsOn, ProgressivePrefix, source
  <2> QED BY <2>2, <2>3, <2>4 DEF ReadInv
<1>6. CASE TrySize
  <2>1. /\ pc = "idle" /\ pc' = "read" /\ saved' = cursor
        /\ step = "shortcut" /\ step' = "size" /\ Head(tries) = "progressive"
        /\ UNCHANGED <<source, data, eof, streaming, kind, tries, got>>
      BY <1>6 DEF TrySize, Try, To, ReadAt
  <2>2. kind = "jpeg"
      BY <2>1, TriedIsOfKind DEF OfKind, Fetching
  <2> QED BY <2>1, <2>2, ShortcutGoesOn DEF Fetching
<1> QED BY <1>2, <1>3, <1>4, <1>5, <1>6

\* The renderer of raw files, the search for a rotation and for the length.
LEMMA AsidesKeep ==
    ASSUME ReadInv, RawStep \/ RawOver \/ RotationHint \/ RenderMeasure
    PROVE  ReadInv'
<1> USE DEF Idle
<1>1. ASSUME NEW o, Seek(o)
      PROVE  pc = "idle" /\ pc' = "idle" /\ UNCHANGED <<source, data, eof, streaming>>
    BY <1>1 DEF Seek
<1>2. ASSUME NEW n, Read(n)
      PROVE  pc = "idle" /\ pc' = "read" /\ UNCHANGED <<source, data, eof, streaming>>
    BY <1>2 DEF Read
<1>3. CASE RawStep
  <2>1. /\ pc = "idle" /\ UNCHANGED <<source, data, eof, streaming>>
        /\ pc' = "idle" \/ (pc' = "read" /\ step' \in {"rawheader", "rawtable", "rawjpeg"})
        /\ UNCHANGED <<kind, tries, got>>
        /\ step \in {"raw", "rawstart", "rawheader", "rawsubs", "rawsub", "rawtable", "rawjpeg"}
        /\ step' \in {"rawstart", "rawheader", "rawsubs", "rawsub", "rawtable", "rawjpeg"}
    <3>1. ASSUME NEW o, NEW s, RawSeek(o, s)
          PROVE  /\ pc = "idle" /\ pc' = "idle" /\ UNCHANGED <<source, data, eof, streaming>>
                 /\ UNCHANGED <<kind, tries, got>> /\ step' = s
        BY <1>1, <3>1 DEF RawSeek, To
    <3>2. ASSUME NEW n, NEW s, RawRead(n, s)
          PROVE  /\ pc = "idle" /\ pc' = "read" /\ UNCHANGED <<source, data, eof, streaming>>
                 /\ UNCHANGED <<kind, tries, got>> /\ step' = s
        BY <1>2, <3>2 DEF RawRead, To
    <3>3. CASE RawSubIfds \/ RawParse
        BY <3>3 DEF RawSubIfds, RawParse, vars, source, data, call
    <3>4. CASE \/ step = "raw" /\ RawSeek(0, "rawstart")
               \/ step = "rawsubs" /\ look.pending # <<>> /\ RawSeek(Head(look.pending), "rawsub")
               \/ /\ step = "rawsubs" /\ look.pending = <<>> /\ look.span # NONE
                  /\ RawSeek(look.span.off, "rawjpeg")
        BY <3>1, <3>4
    <3>5. CASE \/ step = "rawstart" /\ RawRead(RawHeader, "rawheader")
               \/ step = "rawsub" /\ RawRead(IfdFetch, "rawtable")
               \/ step = "rawjpeg" /\ cursor < SpanEnd /\ RawRead(SpanEnd - cursor, "rawjpeg")
        BY <3>2, <3>5
    <3> QED BY <1>3, <3>3, <3>4, <3>5 DEF RawStep
  <2>2. kind # "zip"
      BY <2>1, ReadFacts DEF OfKind, Rendering
  <2> QED BY <2>1, <2>2, AsksAside DEF Fetching, Rendering
<1>4. CASE RawOver
  <2>1. /\ pc = "idle" /\ UNCHANGED <<vars, kind, tries, got>>
        /\ step \in {"rawsubs", "rawdecode"} /\ step' \in {"nopreview", "previewed"}
      BY <1>4 DEF RawOver
  <2>2. kind # "zip"
      BY <2>1, ReadFacts DEF OfKind, Rendering
  <2> QED BY <2>1, <2>2, AsksAside DEF Fetching, Rendering, vars, source, data, call
<1>5. CASE RotationHint
  <2>1. /\ pc = "idle" /\ pc' = "read" /\ UNCHANGED <<source, data, eof, streaming>>
        /\ step = "nopreview" \/ (step = "render" /\ got.n = 0)
        /\ step' = "hinted" /\ UNCHANGED <<kind, tries, got>>
      BY <1>2, <1>5 DEF RotationHint, To
  <2>2. kind # "zip"
      BY <2>1, ReadFacts DEF OfKind, Rendering
  <2> QED BY <2>1, <2>2, AsksAside DEF Fetching, Rendering
<1>6. CASE RenderMeasure
  <2>1. /\ pc = "idle" /\ pc' = "idle" /\ UNCHANGED <<source, data, eof, streaming>>
        /\ step = "render" /\ got.n = 0
        /\ step' = "measured" /\ UNCHANGED <<kind, tries, got>>
      BY <1>1, <1>6 DEF RenderMeasure, To
  <2>2. kind # "zip"
      BY <2>1, ReadFacts DEF OfKind, Rendering
  <2> QED BY <2>1, <2>2, AsksAside DEF Fetching, Rendering
<1> QED BY <1>3, <1>4, <1>5, <1>6

\* The renderer's loop, from its start to the read that brings nothing.
LEMMA RenderKeeps ==
    ASSUME ReadInv, RenderSeek \/ RenderBack \/ Render
    PROVE  ReadInv'
<1> USE ReadFacts, SourceFacts DEF Idle
<1>1. /\ step \in {"render", "measured", "hinted"} /\ step' = "render"
      /\ UNCHANGED <<kind, tries, got>>
    BY DEF RenderSeek, RenderBack, Render, To
<1>2. /\ pc = "idle" /\ UNCHANGED <<source, data, eof, streaming>>
      /\ \/ pc' = "idle" /\ cursor' = 0 /\ (step = "render" => got.n = 0)
         \/ pc' = "read" /\ saved' = NONE /\ want' = Buf /\ cursor' = cursor /\ step = "render"
    BY DEF RenderSeek, RenderBack, Render, Seek, Read
<1>3. CacheIsSource' /\ CallFits' /\ Asks'
    BY <1>1, <1>2, DataStays DEF CallFits, Asks, Asking
<1>4. OfKind'
    BY <1>1 DEF OfKind, Fetching, Rendering
<1>5. Undisturbed' /\ ReadAtLeavesSource' /\ ProgressivePrefix'
    BY <1>1, <1>2 DEF Undisturbed, ReadAtLeavesSource, RendererReadsSource, ProgressivePrefix, Fetching
<1>6. got.clean => ReadsOn'
  <2>1. SUFFICES ASSUME got.clean PROVE ReadsOn'
      OBVIOUS
  <2>2. CASE step = "render"
      BY <1>1, <1>2, <2>1, <2>2 DEF LoopReadsOn, ReadsOn, source
  <2>3. CASE step # "render"
      BY <1>1, <1>2, <2>1, <2>3 DEF Undisturbed, ReadsOn, source
  <2> QED BY <2>2, <2>3
<1>7. LoopReadsOn'
    BY <1>1, <1>6 DEF LoopReadsOn
<1> QED BY <1>3, <1>4, <1>5, <1>7 DEF ReadInv

LEMMA RenderEndKeeps ==
    ASSUME ReadInv, RenderOver \/ RenderOverStreaming
    PROVE  ReadInv'
<1> USE ReadFacts, SourceFacts
<1>1. /\ step = "render" /\ step' = "rendered" /\ UNCHANGED <<kind, tries, got>>
      /\ UNCHANGED <<len, eof, streaming>>
      /\ \/ ~streaming /\ (PastEnd \/ CopyPage) /\ cursor' = cursor
         \/ streaming /\ (PastEnd \/ StreamingEnd)
    BY DEF RenderOver, RenderOverStreaming, To, PastEnd, CopyPage, StreamingEnd, StreamEnd, Return, source
<1>2. CacheIsSource' /\ CallFits' /\ Asks'
  <2>1. saved = NONE
      BY <1>1 DEF PastEnd, CopyPage, StreamingEnd, StreamEnd, Asks
  <2>2. CASE PastEnd \/ CopyPage
    <3>1. /\ pc # "closed" /\ pc' = "idle"
          /\ UNCHANGED <<source, data, eof, streaming>>
        BY <2>1, <2>2 DEF PastEnd, CopyPage, Return, Deliver
    <3> QED BY <1>1, <3>1, DataStays DEF CallFits, Asks
  <2>3. CASE StreamingEnd
    <3>1. pc' = "idle"
        BY <2>1, <2>3 DEF StreamingEnd, Deliver
    <3> QED BY <1>1, <2>3, <3>1, StreamEndData DEF StreamingEnd, CallFits, Asks
  <2> QED BY <1>1, <2>2, <2>3
<1>3. got.clean => got.n = len /\ got.exact
  <2>1. SUFFICES ASSUME got.clean PROVE got.n = len /\ got.exact
      OBVIOUS
  <2>2. ReadsOn /\ ~streaming /\ eof = NONE /\ kind # "zip"
      BY <1>1, <2>1 DEF LoopReadsOn, Undisturbed, CallFits, OfKind, Rendering
  <2>3. cursor \in 0..len /\ got.n = cursor /\ got.exact
      BY <2>2 DEF ReadsOn
  <2>4. cursor = len
    <3>1. CASE PastEnd
        BY <2>2, <2>3, <3>1 DEF PastEnd, AtEnd, End
    <3>2. CASE CopyPage
      <4>1. PICK n \in Nat : Deliver(n, {}) /\ (n = 0 => cursor = len)
          BY <2>2, <3>2, LoopCopies
      <4>2. cursor' = cursor + n
          BY <2>2, <3>2, <4>1, LoopDelivers DEF CopyPage
      <4>3. cursor' = cursor
          BY <1>1, <2>2
      <4> QED BY <2>3, <4>1, <4>2, <4>3
    <3> QED BY <1>1, <2>2, <3>1, <3>2
  <2> QED BY <2>3, <2>4
<1>4. OfKind' /\ Undisturbed' /\ ProgressivePrefix'
    BY <1>1 DEF OfKind, Undisturbed, ProgressivePrefix, Fetching, Rendering
<1>5. LoopReadsOn' /\ ReadAtLeavesSource'
    BY <1>1, <1>3 DEF LoopReadsOn, ReadAtLeavesSource, RendererReadsSource
<1> QED BY <1>2, <1>4, <1>5 DEF ReadInv

\* A call that goes on: of a shortcut, of a loop, or of what does not matter.
LEMMA AnsweredKeeps ==
    ASSUME ReadInv, Answers \subseteq {"range"}, Answered
    PROVE  ReadInv'
<1> USE ReadFacts, SourceFacts
<1>1. CacheIsSource' /\ CallFits' /\ CallStep
    BY AnsweredData, AnsweredIsCallStep
<1>2. UNCHANGED <<kind, tries>>
    BY AnsweredSteps
<1>3. /\ got' = [n |-> got'.n, exact |-> got'.exact, clean |-> got'.clean]
      /\ got'.clean = got.clean
      /\ step \notin {"progressive", "render"} => got' = got
      /\ step' = step \/ (step = "sniff" /\ step' = "shortcut")
                      \/ (step = "rawjpeg" /\ step' = "rawdecode")
      /\ pc' # "idle" => step' = step
    BY AnsweredGot DEF LoopReadsOn
<1>4. UNCHANGED <<eof, streaming>> /\ len' = len
  <2>1. ASSUME NEW n, ForwardChunk(n) \/ StreamChunk(n)
        PROVE  UNCHANGED <<eof, streaming>> /\ len' = len
      BY <2>1 DEF ForwardChunk, StreamChunk, source
  <2>2. ASSUME NEW n, NEW a, TailAnswer(a, n) \/ RangeDone(a, n)
        PROVE  UNCHANGED <<eof, streaming>> /\ len' = len
      BY <2>2 DEF TailAnswer, RangeDone, source
  <2>3. CASE CopyPage \/ ForwardEnd \/ StreamingPage \/ StreamingChunk \/ PastEnd
      BY <2>3 DEF CopyPage, ForwardEnd, StreamEnd, StreamingPage, StreamingChunk, PastEnd, Return, source
  <2>4. CASE StartTail \/ StartForward \/ StartStreamingTail \/ StartStream
      BY <2>4 DEF StartTail, StartForward, StartStreamingTail, StartStream, Goto, source
  <2> QED BY <2>1, <2>2, <2>3, <2>4, AnsweredSteps
<1>5. (step = "progressive" \/ (step = "render" /\ got.clean)) => ReadsOn'
  <2>1. SUFFICES ASSUME step = "progressive" \/ (step = "render" /\ got.clean) PROVE ReadsOn'
      OBVIOUS
  <2>2. ReadsOn /\ got = [n |-> got.n, exact |-> got.exact, clean |-> got.clean]
      BY <2>1 DEF LoopReadsOn
  <2>3. kind # "zip"
      BY <2>1 DEF OfKind, Rendering
  <2> QED BY <2>1, <2>2, <2>3, LoopAnswered
<1>6. OfKind' /\ Asks'
  <2>1. OfKind'
      BY <1>2, <1>3 DEF OfKind, Fetching, Rendering
  <2>2. pc' # "idle" => pc \in Running /\ (saved' = saved \/ saved' = NONE)
      BY <1>1 DEF CallStep, Deliver, Running
  <2>3. Asks'
      BY <1>3, <2>2 DEF Asks, Running
  <2> QED BY <2>1, <2>3
<1>7. Undisturbed'
  <2>1. step' \in Fetching => step \in Fetching
      BY <1>3 DEF Fetching
  <2>2. CursorAtStart => CursorAtStart'
      BY <1>1, ReadAtPutsBack
  <2> QED BY <1>3, <1>4, <2>1, <2>2 DEF Undisturbed
<1>8. LoopReadsOn'
    BY <1>3, <1>4, <1>5 DEF LoopReadsOn
<1>9. ReadAtLeavesSource' /\ ProgressivePrefix'
  <2>1. ReadAtLeavesSource /\ ProgressivePrefix
      BY DEF ReadInv
  <2>2. step' \in {"rendered", "clear", "decode"} => step' = step /\ got' = got
      BY <1>3
  <2> QED BY <1>2, <1>3, <1>4, <2>1, <2>2 DEF ReadAtLeavesSource, RendererReadsSource, ProgressivePrefix
<1> QED BY <1>1, <1>6, <1>7, <1>8, <1>9 DEF ReadInv

\* A call that fails.
LEMMA FailuresKeep ==
    ASSUME ReadInv, ReadFailed
    PROVE  ReadInv'
<1> USE ReadFacts, SourceFacts
<1>1. /\ Fail /\ pc # "closed" /\ pc # "idle"
      /\ UNCHANGED <<kind, tries>>
      /\ got' = [got EXCEPT !.clean = FALSE] /\ step' = AfterFailure
    BY DEF ReadFailed, NetworkError, SeekBehindStream, Looking
<1>2. pc' = "idle" /\ UNCHANGED <<source, data, eof, streaming, cursor>>
    BY <1>1 DEF Fail
<1>3. got' = [n |-> got.n, exact |-> got.exact, clean |-> FALSE]
    BY <1>1 DEF LoopReadsOn
<1>4. step \in Asking
    BY <1>1 DEF Asks
<1>5. \/ step' \in {"failed", "none", "subifds", "rawdecode"}
      \/ step' = step /\ step \in {"entry", "rawheader", "rawtable", "hinted"}
    BY <1>1 DEF AfterFailure
<1>6. /\ step' = "none" => step \in Fetching \cup {"progressive"}
      /\ step' = "subifds" => step = "subifd"
      /\ step' = "rawdecode" => step = "rawjpeg"
    BY <1>1, <1>4 DEF AfterFailure, Asking
<1>7. CacheIsSource' /\ CallFits' /\ Asks'
    BY <1>1, <1>2, DataStays DEF CallFits, Asks
<1>8. OfKind'
    BY <1>1, <1>5, <1>6 DEF OfKind, Fetching, Rendering
<1>9. Undisturbed' /\ ReadAtLeavesSource' /\ ProgressivePrefix'
    BY <1>3, <1>5 DEF Undisturbed, ReadAtLeavesSource, ProgressivePrefix
<1>10. LoopReadsOn'
    BY <1>3, <1>5 DEF LoopReadsOn
<1> QED BY <1>7, <1>8, <1>9, <1>10 DEF ReadInv

-----------------------------------------------------------------------------
LEMMA CookBegins ==
    ASSUME CookInit
    PROVE  ReadInv
<1>1. /\ len \in Nat /\ len \in Lens /\ Page \in Nat \ {0} /\ known \in {len, NONE}
      /\ ranges \in BOOLEAN /\ NONE \notin Int
    BY BufferAssumption DEF CookInit, Init
<1>2. /\ stream_pos = 0 /\ have = [p \in Pages |-> 0] /\ wrong = {} /\ suspect = {} /\ eof = NONE
      /\ ~streaming /\ streaming \in BOOLEAN /\ chunk = [start |-> 0, len |-> 0]
      /\ pc = "read" /\ saved = 0 /\ step = "sniff" /\ kind \in Kinds /\ tries = Tries[kind]
      /\ got = [n |-> 0, exact |-> TRUE, clean |-> TRUE]
    BY DEF CookInit, Init, Fresh
<1>3. CacheIsSource
    BY <1>1, <1>2 DEF CacheIsSource, ChunkOfStreaming, StreamedBytesKept
<1>4. CallFits /\ Asks
    BY <1>2 DEF CallFits, Asks, Asking, Fetching
<1>5. OfKind
  <2> DEFINE Shortcuts == {"exif", "whole", "progressive", "webp", "raw", "zip", "audio"}
  <2>1. kind \in {"jpeg", "tiff", "png", "webp", "raw", "zip", "pdf", "mp3"}
      BY <1>2, ShortcutAssumption DEF Tries
  <2>2. tries \in Seq(Shortcuts) /\ tries # <<>>
    <3>1. CASE kind = "jpeg"
        <4>1. tries = <<"exif", "whole", "progressive">>
            BY <1>2, <3>1 DEF Tries
        <4> QED BY <4>1
    <3>2. CASE kind \in {"tiff", "png"}
        <4>1. tries = <<"exif", "whole">>
            BY <1>2, <3>2 DEF Tries
        <4> QED BY <4>1
    <3>3. CASE kind \in {"webp", "raw", "zip", "pdf", "mp3"}
        <4>1. tries \in {<<"webp">>, <<"raw">>, <<"zip">>, <<"whole">>, <<"audio">>}
            BY <1>2, <3>3 DEF Tries
        <4>2. \E t \in Shortcuts : tries = <<t>>
            BY <4>1
        <4> QED BY <4>2
    <3> QED BY <2>1, <3>1, <3>2, <3>3
  <2>3. tries \in Seq({tries[i] : i \in DOMAIN tries})
      BY <2>2
  <2> QED BY <1>2, <2>2, <2>3 DEF OfKind, Rendering
<1>6. Undisturbed
    BY <1>2 DEF Undisturbed, CursorAtStart
<1>7. LoopReadsOn /\ ReadAtLeavesSource /\ ProgressivePrefix
    BY <1>2 DEF LoopReadsOn, ReadAtLeavesSource, RendererReadsSource, ProgressivePrefix
<1> QED BY <1>3, <1>4, <1>5, <1>6, <1>7 DEF ReadInv

LEMMA CookStutters ==
    ASSUME ReadInv, UNCHANGED allvars
    PROVE  ReadInv'
<1> USE DEF allvars, vars, cookvars, source, data, call
<1>1. CacheIsSource' /\ CallFits' /\ OfKind' /\ Asks'
    BY DEF ReadInv, CacheIsSource, ChunkOfStreaming, StreamedBytesKept, CallFits, OfKind, Asks
<1>2. Undisturbed' /\ LoopReadsOn'
    BY DEF ReadInv, Undisturbed, CursorAtStart, LoopReadsOn, ReadsOn, TailStart, Available
<1>3. ReadAtLeavesSource' /\ ProgressivePrefix'
    BY DEF ReadInv, ReadAtLeavesSource, RendererReadsSource, ProgressivePrefix
<1> QED BY <1>1, <1>2, <1>3 DEF ReadInv

LEMMA CookGoesOn ==
    ASSUME ReadInv, Answers \subseteq {"range"}, [CookNext]_allvars
    PROVE  ReadInv'
<1>1. CASE \/ TryWhole \/ TryHeader \/ TryWebp \/ ReadPreview
           \/ SubIfds \/ ReadSubIfd \/ ParseSubIfd \/ ReadSubPreview
           \/ ReadIfd1 \/ ReadIfd1Preview
           \/ DimsKnown
           \/ \E r \in DimsReads : ReadDims(r[1], r[2])
           \/ \E r \in DimsReads : ReadNoDims(r[1], r[2])
           \/ ReadMeta \/ NoMeta \/ ZipInline \/ ReadEntry \/ Extract \/ TryAudio
    BY <1>1, ShortcutsKeep
<1>2. CASE TryZip
    BY <1>2, TryZipKeeps
<1>3. CASE Cover \/ DecodeCover \/ Decoded
    BY <1>3, ClosingKeeps
<1>4. CASE TrySize \/ TryProgressive \/ ReadProgressive \/ ProgressiveOver \/ ClearEof
    BY <1>4, ProgressiveKeeps
<1>5. CASE GiveUp
    BY <1>5, GiveUpKeeps
<1>6. CASE RawStep \/ RawOver \/ RotationHint \/ RenderMeasure
    BY <1>6, AsidesKeep
<1>7. CASE RenderSeek \/ RenderBack \/ Render
    BY <1>7, RenderKeeps
<1>8. CASE RenderOver \/ RenderOverStreaming
    BY <1>8, RenderEndKeeps
<1>9. CASE Answered
    BY <1>9, AnsweredKeeps
<1>10. CASE ReadFailed
    BY <1>10, FailuresKeep
<1>11. CASE UNCHANGED allvars
    BY <1>11, CookStutters
<1> QED
  BY <1>1, <1>2, <1>3, <1>4, <1>5, <1>6, <1>7, <1>8, <1>9, <1>10, <1>11, Zenon DEF CookNext

(* The inductive invariant of the reads holds, whatever a file says about  *)
(* its contents and whichever reads fail, as long as Range requests that   *)
(* are answered are answered with the range (RangeAnswer has the others).  *)
THEOREM ReadsInvariant ==
    ASSUME Answers \subseteq {"range"}
    PROVE  ThumbSpec => []ReadInv
<1>1. ThumbInit => ReadInv
    BY CookBegins DEF ThumbInit
<1>2. ReadInv /\ [ThumbNext]_thumbvars => ReadInv'
  <2> SUFFICES ASSUME ReadInv, [ThumbNext]_thumbvars PROVE ReadInv'
      OBVIOUS
  <2>1. [CookNext]_allvars
      BY DEF ThumbNext, thumbvars, DeliverShortcut, DeliverRendered
  <2> QED BY <2>1, CookGoesOn
<1> QED BY <1>1, <1>2, PTL DEF ThumbSpec

(* A renderer that reads to the end of the buffer after shortcuts that     *)
(* only used read_at, none of whose reads has failed, has got the source,  *)
(* from its first byte to its last.                                        *)
THEOREM RendererGetsSource ==
    ASSUME Answers \subseteq {"range"}
    PROVE  ThumbSpec => []ReadAtLeavesSource
<1>1. ReadInv => ReadAtLeavesSource
    BY DEF ReadInv
<1> QED BY <1>1, ReadsInvariant, PTL

(* The progressive decoder is given a prefix of the source of at least its *)
(* budget, or all of it, whatever was tried and has failed before.         *)
THEOREM ProgressiveGetsPrefix ==
    ASSUME Answers \subseteq {"range"}
    PROVE  ThumbSpec => []ProgressivePrefix
<1>1. ReadInv => ProgressivePrefix
    BY DEF ReadInv
<1> QED BY <1>1, ReadsInvariant, PTL

-----------------------------------------------------------------------------
(* How a container's thumbnail is found.  The walks are recursive; what    *)
(* they return is shown by least counterexamples, and that there is such a *)
(* function at all by TailRecursion.                                       *)
Less == {p \in Nat \X Nat : p[1] < p[2]}

\* A set of natural numbers that is not empty has a least member.
LEMMA LeastNat ==
    ASSUME NEW T \in SUBSET Nat, T # {}
    PROVE  \E n \in T : \A m \in T : n <= m
<1>1. IsWellFoundedOn(Less, Nat)
    BY NatLessThanWellFounded DEF OpToRel, Less
<1>2. PICK n \in T : \A m \in T : ~(<<m, n>> \in Less)
    BY <1>1, WFMin
<1>3. ASSUME NEW m \in T
      PROVE  n <= m
  <2>1. <<m, n>> \in Less <=> m < n
      BY DEF Less
  <2> QED BY <1>2, <2>1
<1> QED BY <1>3

(* A function that ends in itself has a solution, whether it ends or not:  *)
(* the result at an argument is that at the end of the steps from there.   *)
Steps(S, stop, next, s, b) ==
    \E n \in Nat, r \in [Nat -> S] :
        /\ r[0] = s
        /\ \A i \in 0..(n - 1) : r[i] \notin stop /\ r[i + 1] = next[r[i]]
        /\ r[n] \in stop /\ r[n] = b

LEMMA StepsStop ==
    ASSUME NEW S, NEW stop, NEW next, NEW s \in S, s \in stop, NEW b
    PROVE  Steps(S, stop, next, s, b) <=> b = s
<1>1. ASSUME b = s PROVE Steps(S, stop, next, s, b)
  <2> DEFINE r == [i \in Nat |-> s]
  <2>1. r \in [Nat -> S] /\ r[0] = s
      OBVIOUS
  <2>2. 0..(0 - 1) = {}
      OBVIOUS
  <2>3. \A i \in 0..(0 - 1) : r[i] \notin stop /\ r[i + 1] = next[r[i]]
      BY <2>2
  <2> HIDE DEF r
  <2> QED BY <1>1, <2>1, <2>3 DEF Steps
<1>2. ASSUME Steps(S, stop, next, s, b) PROVE b = s
  <2>1. PICK n \in Nat, r \in [Nat -> S] :
          /\ r[0] = s
          /\ \A i \in 0..(n - 1) : r[i] \notin stop /\ r[i + 1] = next[r[i]]
          /\ r[n] \in stop /\ r[n] = b
      BY <1>2 DEF Steps
  <2>2. n = 0
      BY <2>1
  <2> QED BY <2>1, <2>2
<1> QED BY <1>1, <1>2

LEMMA StepsOn ==
    ASSUME NEW S, NEW stop, NEW next, NEW s \in S, s \notin stop, next[s] \in S, NEW b
    PROVE  Steps(S, stop, next, s, b) <=> Steps(S, stop, next, next[s], b)
<1>1. ASSUME Steps(S, stop, next, s, b) PROVE Steps(S, stop, next, next[s], b)
  <2>1. PICK n \in Nat, r \in [Nat -> S] :
          /\ r[0] = s
          /\ \A i \in 0..(n - 1) : r[i] \notin stop /\ r[i + 1] = next[r[i]]
          /\ r[n] \in stop /\ r[n] = b
      BY <1>1 DEF Steps
  <2>2. n - 1 \in Nat
      BY <2>1
  <2> DEFINE q == [i \in Nat |-> r[i + 1]]
             m == n - 1
  <2>3. q \in [Nat -> S]
      OBVIOUS
  <2>4. q[0] = next[s]
      BY <2>1, <2>2
  <2>5. \A i \in 0..(m - 1) : q[i] \notin stop /\ q[i + 1] = next[q[i]]
    <3> TAKE i \in 0..(m - 1)
    <3>1. i \in Nat /\ i + 1 \in 0..(n - 1)
        BY <2>2
    <3> QED BY <2>1, <3>1
  <2>6. q[m] \in stop /\ q[m] = b
      BY <2>1, <2>2
  <2> HIDE DEF q, m
  <2>7. m \in Nat
      BY <2>2 DEF m
  <2> QED BY <2>3, <2>4, <2>5, <2>6, <2>7 DEF Steps
<1>2. ASSUME Steps(S, stop, next, next[s], b) PROVE Steps(S, stop, next, s, b)
  <2>1. PICK n \in Nat, r \in [Nat -> S] :
          /\ r[0] = next[s]
          /\ \A i \in 0..(n - 1) : r[i] \notin stop /\ r[i + 1] = next[r[i]]
          /\ r[n] \in stop /\ r[n] = b
      BY <1>2 DEF Steps
  <2> DEFINE q == [i \in Nat |-> IF i = 0 THEN s ELSE r[i - 1]]
             m == n + 1
  <2>2. q \in [Nat -> S] /\ q[0] = s
      OBVIOUS
  <2>3. \A i \in 0..(m - 1) : q[i] \notin stop /\ q[i + 1] = next[q[i]]
    <3> TAKE i \in 0..(m - 1)
    <3>1. CASE i = 0
        BY <2>1, <3>1
    <3>2. CASE i # 0
      <4>1. i - 1 \in 0..(n - 1) /\ i \in Nat /\ i - 1 \in Nat
          BY <3>2
      <4>2. q[i] = r[i - 1] /\ q[i + 1] = r[i] /\ (i - 1) + 1 = i
          BY <4>1, <3>2
      <4> QED BY <2>1, <4>1, <4>2
    <3> QED BY <3>1, <3>2
  <2>4. q[m] \in stop /\ q[m] = b
      BY <2>1
  <2> HIDE DEF q, m
  <2>5. m \in Nat
      BY DEF m
  <2> QED BY <2>2, <2>3, <2>4, <2>5 DEF Steps
<1> QED BY <1>1, <1>2

SolvesTail(S, stop, next, out, F) ==
    /\ F = [s \in S |-> F[s]]
    /\ \A s \in S : F[s] = IF s \in stop THEN out[s] ELSE F[next[s]]

LEMMA TailRecursion ==
    ASSUME NEW S, NEW stop, NEW next, NEW out,
           \A s \in S : s \notin stop => next[s] \in S
    PROVE  \E F : SolvesTail(S, stop, next, out, F)
<1> DEFINE Finishes(s) == CHOOSE b : b \in {c \in S : Steps(S, stop, next, s, c)}
           F == [s \in S |-> out[Finishes(s)]]
<1>1. ASSUME NEW s \in S, s \in stop
      PROVE  F[s] = out[s]
  <2>1. {c \in S : Steps(S, stop, next, s, c)} = {s}
      BY <1>1, StepsStop
  <2>2. Finishes(s) = s
      BY <2>1
  <2> QED BY <2>2
<1>2. ASSUME NEW s \in S, s \notin stop
      PROVE  F[s] = F[next[s]]
  <2>1. next[s] \in S
      BY <1>2
  <2>2. {c \in S : Steps(S, stop, next, s, c)} = {c \in S : Steps(S, stop, next, next[s], c)}
      BY <1>2, <2>1, StepsOn
  <2>3. Finishes(s) = Finishes(next[s])
      BY <2>2
  <2> QED BY <2>1, <2>3
<1>3. \A s \in S : F[s] = IF s \in stop THEN out[s] ELSE F[next[s]]
  <2> HIDE DEF Finishes
  <2> QED BY <1>1, <1>2
<1>4. F = [s \in S |-> F[s]]
    OBVIOUS
<1> HIDE DEF F
<1> QED BY <1>3, <1>4 DEF SolvesTail

-----------------------------------------------------------------------------
(* The elements of a sequence that are in a set.                           *)
Elements(q) == {q[i] : i \in 1..Len(q)}

Keeping(s, S, n, k) ==
    k = [i \in 0..n |-> IF i = 0 THEN <<>>
                        ELSE IF s[i] \in S THEN Append(k[i - 1], s[i])
                        ELSE k[i - 1]]

LEMMA KeepingExists ==
    ASSUME NEW s, NEW S, NEW n \in Nat
    PROVE  \E k : Keeping(s, S, n, k)
<1> DEFINE Bad == {m \in Nat : ~ \E k : Keeping(s, S, m, k)}
<1>1. SUFFICES ASSUME Bad # {} PROVE FALSE
    OBVIOUS
<1>2. PICK m \in Bad : \A i \in Bad : m <= i
  <2>1. Bad \in SUBSET Nat
      OBVIOUS
  <2> HIDE DEF Bad
  <2> QED BY <1>1, <2>1, LeastNat
<1>3. m \in Nat
    OBVIOUS
<1>4. CASE m = 0
  <2> DEFINE z == [i \in 0..m |-> <<>>]
  <2>1. \A i \in 0..m : i = 0
      BY <1>4
  <2>2. Keeping(s, S, m, z)
      BY <2>1 DEF Keeping
  <2> QED BY <2>2
<1>5. CASE m # 0
  <2>1. m - 1 \in Nat /\ m - 1 \notin Bad
      BY <1>2, <1>3, <1>5
  <2>2. PICK k : Keeping(s, S, m - 1, k)
      BY <2>1
  <2> DEFINE last == IF s[m] \in S THEN Append(k[m - 1], s[m]) ELSE k[m - 1]
             h == [i \in 0..m |-> IF i = m THEN last ELSE k[i]]
  <2>3. ASSUME NEW i \in 0..m
        PROVE  h[i] = IF i = 0 THEN <<>>
                      ELSE IF s[i] \in S THEN Append(h[i - 1], s[i])
                      ELSE h[i - 1]
    <3>1. CASE i = m
      <4>1. h[i] = last /\ h[i - 1] = k[m - 1] /\ i # 0
          BY <1>3, <1>5, <3>1
      <4> HIDE DEF h
      <4> QED BY <3>1, <4>1
    <3>2. CASE i # m
      <4>1. i \in 0..(m - 1) /\ h[i] = k[i]
          BY <1>3, <3>2
      <4>2. i # 0 => i - 1 \in 0..m /\ i - 1 # m
          BY <1>3, <4>1
      <4>3. i # 0 => h[i - 1] = k[i - 1]
          BY <4>2
      <4>4. k[i] = IF i = 0 THEN <<>>
                   ELSE IF s[i] \in S THEN Append(k[i - 1], s[i])
                   ELSE k[i - 1]
          BY <2>2, <4>1 DEF Keeping
      <4> HIDE DEF h
      <4> QED BY <4>1, <4>3, <4>4
    <3> QED BY <3>1, <3>2
  <2>4. h = [i \in 0..m |-> h[i]]
      OBVIOUS
  <2> HIDE DEF h
  <2>5. Keeping(s, S, m, h)
      BY <2>3, <2>4 DEF Keeping
  <2> QED BY <2>5
<1> QED BY <1>4, <1>5

LEMMA KeptIs ==
    ASSUME NEW T, NEW s \in Seq(T), NEW S
    PROVE  Kept(s, S) \in Seq(T) /\ Elements(Kept(s, S)) = Elements(s) \cap S
<1> DEFINE n == Len(s)
           k == CHOOSE k : Keeping(s, S, n, k)
<1>1. n \in Nat
    OBVIOUS
<1>2. Keeping(s, S, n, k)
    BY <1>1, KeepingExists
<1>3. Kept(s, S) = k[n]
    BY DEF Kept, Keeping
<1> HIDE DEF k, n
<1>4. k[0] = <<>>
    BY <1>1, <1>2 DEF Keeping
<1>5. ASSUME NEW i \in 1..n
      PROVE  k[i] = IF s[i] \in S THEN Append(k[i - 1], s[i]) ELSE k[i - 1]
  <2>1. i \in 0..n /\ i # 0
      BY <1>1
  <2> QED BY <1>2, <2>1, Zenon DEF Keeping
<1> DEFINE Right(i) ==
             /\ k[i] \in Seq(T)
             /\ \A j \in 1..Len(k[i]) : \E l \in 1..i : k[i][j] = s[l] /\ s[l] \in S
             /\ \A l \in 1..i : s[l] \in S => \E j \in 1..Len(k[i]) : k[i][j] = s[l]
           Bad == {i \in 0..n : ~Right(i)}
<1>6. Bad = {}
  <2> SUFFICES ASSUME Bad # {} PROVE FALSE
      OBVIOUS
  <2>1. PICK m \in Bad : \A i \in Bad : m <= i
    <3>1. Bad \in SUBSET Nat
        BY <1>1
    <3> HIDE DEF Bad
    <3> QED BY <3>1, LeastNat
  <2>2. Right(0)
      BY <1>4
  <2>3. m \in 1..n
      BY <1>1, <2>2
  <2>4. m - 1 \in 0..n /\ m - 1 \notin Bad
      BY <1>1, <2>1, <2>3
  <2>5. Right(m - 1)
      BY <2>4
  <2>6. s[m] \in T
      BY <2>3 DEF n
  <2> DEFINE p == k[m - 1]
  <2>7. Right(m)
    <3>1. CASE s[m] \in S
      <4>1. k[m] = Append(p, s[m]) /\ p \in Seq(T)
          BY <1>5, <2>3, <2>5, <3>1
      <4>2. k[m] \in Seq(T) /\ Len(k[m]) = Len(p) + 1 /\ k[m][Len(p) + 1] = s[m]
            /\ \A j \in 1..Len(p) : k[m][j] = p[j]
        <5> HIDE DEF p
        <5> QED BY <2>6, <4>1
      <4>3. \A j \in 1..Len(p) : \E l \in 1..(m - 1) : p[j] = s[l] /\ s[l] \in S
          BY <2>5
      <4>4. \A l \in 1..(m - 1) : s[l] \in S => \E j \in 1..Len(p) : p[j] = s[l]
          BY <2>5
      <4> HIDE DEF p
      <4>5. Len(p) \in Nat /\ m \in Nat \ {0}
          BY <1>1, <2>3, <4>1
      <4>6. \A j \in 1..Len(k[m]) : \E l \in 1..m : k[m][j] = s[l] /\ s[l] \in S
        <5> TAKE j \in 1..Len(k[m])
        <5>1. CASE j = Len(p) + 1
            BY <3>1, <4>2, <4>5, <5>1
        <5>2. CASE j \in 1..Len(p)
          <6>1. PICK l \in 1..(m - 1) : p[j] = s[l] /\ s[l] \in S
              BY <4>3, <5>2
          <6> QED BY <4>2, <4>5, <5>2, <6>1
        <5> QED BY <4>2, <4>5, <5>1, <5>2
      <4>7. \A l \in 1..m : s[l] \in S => \E j \in 1..Len(k[m]) : k[m][j] = s[l]
        <5> TAKE l \in 1..m
        <5> HAVE s[l] \in S
        <5>1. CASE l = m
            BY <4>2, <4>5, <5>1
        <5>2. CASE l \in 1..(m - 1)
          <6>1. PICK j \in 1..Len(p) : p[j] = s[l]
              BY <4>4, <5>2
          <6> QED BY <4>2, <4>5, <6>1
        <5> QED BY <4>5, <5>1, <5>2
      <4> QED BY <4>2, <4>6, <4>7
    <3>2. CASE s[m] \notin S
      <4>1. k[m] = p
          BY <1>5, <2>3, <3>2
      <4>2. \A l \in 1..m : s[l] \in S => l \in 1..(m - 1)
          BY <1>1, <2>3, <3>2
      <4>3. 1..(m - 1) \subseteq 1..m
          BY <1>1, <2>3
      <4> QED BY <2>5, <4>1, <4>2, <4>3
    <3> QED BY <3>1, <3>2
  <2> QED BY <2>1, <2>7
<1>7. Right(n)
  <2>1. n \in 0..n /\ n \notin Bad
      BY <1>1, <1>6
  <2> HIDE DEF Right
  <2> QED BY <2>1
<1>8. Elements(k[n]) = Elements(s) \cap S
  <2>1. \A j \in 1..Len(k[n]) : \E l \in 1..n : k[n][j] = s[l] /\ s[l] \in S
      BY <1>7
  <2>2. \A l \in 1..n : s[l] \in S => \E j \in 1..Len(k[n]) : k[n][j] = s[l]
      BY <1>7
  <2>3. Elements(s) = {s[l] : l \in 1..n}
      BY DEF Elements, n
  <2>4. Elements(k[n]) \subseteq Elements(s) \cap S
      BY <2>1, <2>3 DEF Elements
  <2>5. Elements(s) \cap S \subseteq Elements(k[n])
      BY <2>2, <2>3 DEF Elements
  <2> QED BY <2>4, <2>5
<1> QED BY <1>3, <1>7, <1>8

-----------------------------------------------------------------------------
(* The fields of a directory, as a buffer shows them.  An offset counts    *)
(* from the start of the block when the buffer begins there, and when a    *)
(* field holds its value itself.                                           *)
LEMMA ReadLimits ==
    /\ MaxSubs \in Nat \ {0} /\ Dir \in Nat \ {0} /\ NONE \notin Readings
  BY ShortcutAssumption, FilesAssumption

LEMMA ValuesAre ==
    ASSUME NEW f, IsBlock(f), NEW field, field \in Fields, NEW from \in Nat, NEW upto \in Nat,
           NEW most \in Nat \ {0}
    PROVE  /\ tiff_u32_values(f, field, from, upto, most) \in Seq(Nat)
           /\ Covered(field, from, upto, most) \in Nat
           /\ Len(tiff_u32_values(f, field, from, upto, most)) = Covered(field, from, upto, most)
<1> DEFINE n == Covered(field, from, upto, most)
           v(i) == IF field.n = 1 THEN field.v ELSE Word(f, from + field.v + i - 1)
<1>1. field.n \in Nat /\ field.v \in Nat
    BY DEF Fields
<1>2. n \in Nat
    BY <1>1 DEF Covered, Lesser
<1>3. \A o : Word(f, o) \in Nat
    BY DEF Word, IsBlock
<1>4. tiff_u32_values(f, field, from, upto, most) = [i \in 1..n |-> v(i)]
    BY DEF tiff_u32_values
<1>5. \A i \in 1..n : v(i) \in Nat
    BY <1>1, <1>3
<1> HIDE DEF n, v
<1> QED BY <1>2, <1>4, <1>5 DEF n

LEMMA FirstValueIs ==
    ASSUME NEW f, IsBlock(f), NEW field, field \in Fields, NEW from \in Nat, NEW upto \in Nat,
           NEW q, q = tiff_u32_values(f, field, from, upto, 1), q # <<>>
    PROVE  /\ field.n > 0 /\ Head(q) \in Nat
           /\ from = 0 \/ field.n = 1 => Head(q) = ValueOf(f, field)
<1> DEFINE n == Covered(field, from, upto, 1)
           v(i) == IF field.n = 1 THEN field.v ELSE Word(f, from + field.v + i - 1)
<1>1. field.n \in Nat /\ field.v \in Nat
    BY DEF Fields
<1>2. q \in Seq(Nat) /\ n \in Nat /\ Len(q) = n
    BY ValuesAre
<1>3. n > 0
    BY <1>2
<1>4. field.n > 0
    BY <1>1, <1>3 DEF Covered, Lesser
<1>5. q = [i \in 1..n |-> v(i)]
    BY DEF tiff_u32_values
<1>6. Head(q) = v(1) /\ Head(q) \in Nat
  <2> HIDE DEF v, n
  <2> QED BY <1>2, <1>3, <1>5
<1>7. from = 0 \/ field.n = 1 => v(1) = ValueOf(f, field)
  <2>1. from = 0 => from + field.v + 1 - 1 = field.v
      BY <1>1
  <2> QED BY <2>1 DEF ValueOf
<1> HIDE DEF v, n
<1> QED BY <1>4, <1>6, <1>7

LEMMA FirstIs ==
    ASSUME NEW f, IsBlock(f), NEW layout, layout \in Layouts, NEW from \in Nat, NEW upto \in Nat,
           NEW p, p = FirstOf(f, layout, from, upto), p # NONE
    PROVE  /\ p \in Spans
           /\ layout.off.n > 0 /\ layout.n.n > 0
           /\ (from = 0 \/ (layout.off.n = 1 /\ layout.n.n = 1)) =>
                 p = [off |-> ValueOf(f, layout.off), n |-> ValueOf(f, layout.n)]
<1>1. PICK a, b : a = layout.off /\ b = layout.n /\ a \in Fields /\ b \in Fields
    BY DEF Layouts
<1>2. PICK off : off = tiff_u32_values(f, a, from, upto, 1)
    OBVIOUS
<1>3. PICK n : n = tiff_u32_values(f, b, from, upto, 1)
    OBVIOUS
<1>4. off # <<>> /\ n # <<>> /\ p = [off |-> Head(off), n |-> Head(n)]
    BY <1>1, <1>2, <1>3 DEF FirstOf
<1>5. a.n > 0 /\ Head(off) \in Nat /\ (from = 0 \/ a.n = 1 => Head(off) = ValueOf(f, a))
    BY <1>1, <1>2, <1>4, FirstValueIs
<1>6. b.n > 0 /\ Head(n) \in Nat /\ (from = 0 \/ b.n = 1 => Head(n) = ValueOf(f, b))
    BY <1>1, <1>3, <1>4, FirstValueIs
<1> QED BY <1>1, <1>4, <1>5, <1>6 DEF Spans

(* A preview is one that the directory names, but for arrays that are      *)
(* looked up in a buffer that does not begin with the block.               *)
LEMMA PreviewIs ==
    ASSUME NEW f, IsBlock(f), NEW ifd, ifd \in Directories, NEW from \in Nat, NEW upto \in Nat,
           NEW p, p = PreviewOf(f, ifd, from, upto), p # NONE
    PROVE  p \in Spans /\ (from = 0 \/ ~InArrays(ifd) => p \in NamedBy(f, ifd))
<1> DEFINE strip == FirstOf(f, ifd.strips, from, upto)
           tile == FirstOf(f, ifd.tiles, from, upto)
           held(l) == [off |-> ValueOf(f, l.off), n |-> ValueOf(f, l.n)]
<1>1. /\ ifd.strips \in Layouts /\ ifd.tiles \in Layouts
      /\ ifd.direct \in Spans \cup {NONE}
    BY DEF Directories
<1>2. p \in {ifd.direct, strip, tile}
    BY DEF PreviewOf, Jpeg
<1>3. CASE p = ifd.direct
    BY <1>1, <1>3 DEF NamedBy
<1>4. ASSUME NEW l \in {ifd.strips, ifd.tiles}, p = FirstOf(f, l, from, upto)
      PROVE  p \in Spans /\ (from = 0 \/ ~InArrays(ifd) => p \in NamedBy(f, ifd))
  <2>1. l \in Layouts
      BY <1>1
  <2>2. /\ p \in Spans /\ l.off.n > 0 /\ l.n.n > 0
        /\ (from = 0 \/ (l.off.n = 1 /\ l.n.n = 1)) => p = held(l)
      BY <1>4, <2>1, FirstIs
  <2>3. l.off.n \in Nat /\ l.n.n \in Nat
      BY <2>1 DEF Layouts, Fields
  <2>4. held(l) \in NamedBy(f, ifd)
      BY <2>2 DEF NamedBy
  <2>5. ~InArrays(ifd) => l.off.n = 1 /\ l.n.n = 1
      BY <2>2, <2>3 DEF InArrays
  <2> HIDE DEF held
  <2> QED BY <2>2, <2>4, <2>5
<1> HIDE DEF strip, tile
<1> QED BY <1>2, <1>3, <1>4 DEF strip, tile

LEMMA ReadingIs ==
    ASSUME NEW f, IsBlock(f), NEW at, NEW from \in Nat, NEW upto \in Nat,
           NEW r, r = parse_tiff_ifd(f, at, from, upto)
    PROVE  /\ ~HasIfd(f, at, upto) => r = NONE
           /\ HasIfd(f, at, upto) =>
                /\ at \in Nat /\ f.ifds[at] \in Directories
                /\ r \in Readings /\ r # NONE
                /\ (r.preview # NONE /\ (from = 0 \/ ~InArrays(f.ifds[at]))) =>
                      r.preview \in NamedBy(f, f.ifds[at])
<1> SUFFICES ASSUME HasIfd(f, at, upto)
             PROVE  /\ at \in Nat /\ f.ifds[at] \in Directories
                    /\ r \in Readings /\ r # NONE
                    /\ (r.preview # NONE /\ (from = 0 \/ ~InArrays(f.ifds[at]))) =>
                          r.preview \in NamedBy(f, f.ifds[at])
    BY DEF parse_tiff_ifd
<1> DEFINE ifd == f.ifds[at]
           subs == tiff_u32_values(f, ifd.subs, from, upto, MaxSubs)
           p == PreviewOf(f, ifd, from, upto)
<1>1. at \in Nat /\ ifd \in Directories
    BY DEF IsBlock, HasIfd
<1>2. ifd.next \in Nat /\ ifd.subs \in Fields
    BY <1>1 DEF Directories
<1>3. subs \in Seq(Nat)
    BY <1>2, ReadLimits, ValuesAre
<1>4. p # NONE => p \in Spans /\ (from = 0 \/ ~InArrays(ifd) => p \in NamedBy(f, ifd))
    BY <1>1, PreviewIs
<1>5. r = [next |-> ifd.next, subs |-> subs, preview |-> p]
    BY DEF parse_tiff_ifd
<1> HIDE DEF subs, p, ifd
<1>6. r \in Readings
    BY <1>2, <1>3, <1>4, <1>5 DEF Readings
<1> QED BY <1>1, <1>4, <1>5, <1>6, ReadLimits DEF ifd

(* The walk over the directories of a TIFF block.                          *)
Inside(f, upto) == {o \in DOMAIN f.ifds : HasIfd(f, o, upto)}

IfdAt(f, upto, o) == parse_tiff_ifd(f, o, 0, upto)

LinksOf(f, upto, o) == ({IfdAt(f, upto, o).next} \cup Elements(IfdAt(f, upto, o).subs)) \ {0}

LEMMA DirectoryIs ==
    ASSUME NEW f, IsBlock(f), NEW upto \in Nat, NEW at
    PROVE  /\ at \in Inside(f, upto) =>
                at \in Nat /\ IfdAt(f, upto, at) \in Readings /\ IfdAt(f, upto, at) # NONE
           /\ at \notin Inside(f, upto) => IfdAt(f, upto, at) = NONE
<1>1. at \in Inside(f, upto) <=> HasIfd(f, at, upto)
    BY DEF Inside, HasIfd
<1> QED BY <1>1, ReadingIs DEF IfdAt

LEMMA LeadsAre ==
    ASSUME NEW ifd \in Readings, NEW upto \in Nat
    PROVE  /\ Leads(ifd, upto) \in Seq(Nat)
           /\ Elements(Leads(ifd, upto)) =
                (({ifd.next} \cup Elements(ifd.subs)) \ {0}) \cap 0..(upto - 1)
<1> DEFINE s == <<ifd.next>> \o ifd.subs
<1>1. ifd.next \in Nat /\ ifd.subs \in Seq(Nat)
    BY DEF Readings
<1>2. /\ s \in Seq(Nat) /\ Len(s) = Len(ifd.subs) + 1 /\ s[1] = ifd.next
      /\ \A i \in 1..Len(ifd.subs) : s[i + 1] = ifd.subs[i]
    BY <1>1
<1>3. Elements(s) = {ifd.next} \cup Elements(ifd.subs)
  <2>1. Len(ifd.subs) \in Nat
      BY <1>1
  <2> HIDE DEF s
  <2>2. ASSUME NEW x \in Elements(s) PROVE x \in {ifd.next} \cup Elements(ifd.subs)
    <3>1. PICK i \in 1..Len(s) : x = s[i]
        BY <2>2 DEF Elements
    <3>2. CASE i = 1
        BY <1>2, <3>1, <3>2
    <3>3. CASE i # 1
      <4>1. i - 1 \in 1..Len(ifd.subs) /\ (i - 1) + 1 = i
          BY <1>2, <2>1, <3>3
      <4>2. x = ifd.subs[i - 1]
          BY <1>2, <3>1, <4>1
      <4> QED BY <4>1, <4>2 DEF Elements
    <3> QED BY <3>2, <3>3
  <2>3. ASSUME NEW x \in Elements(ifd.subs) PROVE x \in Elements(s)
    <3>1. PICK i \in 1..Len(ifd.subs) : x = ifd.subs[i]
        BY <2>3 DEF Elements
    <3>2. i + 1 \in 1..Len(s)
        BY <1>2, <2>1
    <3> QED BY <1>2, <3>1, <3>2 DEF Elements
  <2>4. ifd.next \in Elements(s)
      BY <1>2, <2>1 DEF Elements
  <2> QED BY <2>2, <2>3, <2>4
<1>4. Leads(ifd, upto) = Kept(s, 1..(upto - 1))
    BY DEF Leads
<1> HIDE DEF s
<1> DEFINE K == Kept(s, 1..(upto - 1))
<1>5. K \in Seq(Nat) /\ Elements(K) = Elements(s) \cap 1..(upto - 1)
    BY <1>2, KeptIs
<1>6. Elements(s) \cap 1..(upto - 1) = (Elements(s) \ {0}) \cap 0..(upto - 1)
    OBVIOUS
<1> QED BY <1>3, <1>4, <1>5, <1>6 DEF K

Passed(w, at) ==
    [queue |-> Tail(w.queue), visited |-> w.visited \cup {at}, best |-> w.best]

Taken(f, upto, w, at) ==
    LET ifd == IfdAt(f, upto, at)
    IN  [queue |-> Tail(w.queue) \o Leads(ifd, upto),
         visited |-> w.visited \cup {at},
         best |-> IF Better(ifd.preview, w.best) THEN ifd.preview ELSE w.best]

\* A round either passes over a directory or takes its links and its preview.
LEMMA RoundIs ==
    ASSUME NEW f, IsBlock(f), NEW upto \in Nat, NEW w \in Walks, w.queue # <<>>,
           NEW at, at = Head(w.queue), NEW r, r = Round(f, upto, w)
    PROVE  /\ at \in Nat /\ Tail(w.queue) \in Seq(Nat) /\ r \in Walks
           /\ r = IF at \in w.visited \/ at \notin Inside(f, upto)
                  THEN Passed(w, at) ELSE Taken(f, upto, w, at)
<1> DEFINE ifd == IfdAt(f, upto, at)
<1>1. /\ w = [queue |-> w.queue, visited |-> w.visited, best |-> w.best]
      /\ w.queue \in Seq(Nat) /\ w.visited \subseteq Nat /\ w.best \in Spans \cup {NONE}
    BY DEF Walks
<1>2. at \in Nat /\ Tail(w.queue) \in Seq(Nat)
    BY <1>1
<1>3. r = IF at \in w.visited \/ ifd = NONE
          THEN [w EXCEPT !.queue = Tail(@), !.visited = @ \cup {at}]
          ELSE [queue |-> Tail(w.queue) \o Leads(ifd, upto), visited |-> w.visited \cup {at},
                best |-> IF Better(ifd.preview, w.best) THEN ifd.preview ELSE w.best]
    BY DEF Round, IfdAt
<1>4. /\ at \in Inside(f, upto) => ifd \in Readings /\ ifd # NONE
      /\ at \notin Inside(f, upto) => ifd = NONE
    BY DirectoryIs
<1> HIDE DEF ifd
<1>5. CASE at \in w.visited \/ at \notin Inside(f, upto)
  <2>1. at \in w.visited \/ ifd = NONE
      BY <1>4, <1>5
  <2>2. r = Passed(w, at)
      BY <1>1, <1>3, <2>1 DEF Passed
  <2>3. r \in Walks
      BY <1>1, <1>2, <2>2 DEF Walks, Passed
  <2> QED BY <1>2, <1>5, <2>2, <2>3
<1>6. CASE at \notin w.visited /\ at \in Inside(f, upto)
  <2>1. r = [queue |-> Tail(w.queue) \o Leads(ifd, upto), visited |-> w.visited \cup {at},
             best |-> IF Better(ifd.preview, w.best) THEN ifd.preview ELSE w.best]
      BY <1>3, <1>4, <1>6
  <2>2. Leads(ifd, upto) \in Seq(Nat) /\ ifd.preview \in Spans \cup {NONE}
      BY <1>4, <1>6, LeadsAre DEF Readings
  <2>3. Tail(w.queue) \o Leads(ifd, upto) \in Seq(Nat)
      BY <1>2, <2>2
  <2>4. r \in Walks
      BY <1>1, <1>2, <2>1, <2>2, <2>3 DEF Walks
  <2>5. r = Taken(f, upto, w, at)
      BY <2>1, Zenon DEF Taken, ifd
  <2> QED BY <1>2, <1>6, <2>4, <2>5
<1> QED BY <1>5, <1>6

LEMMA FindsByWalk ==
    ASSUME NEW f, IsBlock(f), NEW upto \in Nat, f.classic
    PROVE  \E F :
             /\ \A w \in Walks : F[w] = IF w.queue = <<>> THEN w.best ELSE F[Round(f, upto, w)]
             /\ find_tiff_embedded_jpeg_span(f, upto) =
                   F[[queue |-> <<f.first>>, visited |-> {}, best |-> NONE]]
<1> DEFINE stop == {w \in Walks : w.queue = <<>>}
           next == [w \in Walks |-> Round(f, upto, w)]
           out == [w \in Walks |-> w.best]
           Is(F) == F = [w \in Walks |-> IF w.queue = <<>> THEN w.best
                                         ELSE F[Round(f, upto, w)]]
           W == CHOOSE F : F = [w \in Walks |-> IF w.queue = <<>> THEN w.best
                                                ELSE F[Round(f, upto, w)]]
<1>1. \A w \in Walks : w \notin stop => next[w] \in Walks
  <2> SUFFICES ASSUME NEW w \in Walks, w.queue # <<>> PROVE Round(f, upto, w) \in Walks
      OBVIOUS
  <2> QED BY RoundIs
<1>2. PICK F : SolvesTail(Walks, stop, next, out, F)
  <2> HIDE DEF stop, next, out
  <2> QED BY <1>1, TailRecursion
<1>3. F = [w \in Walks |-> IF w.queue = <<>> THEN w.best ELSE F[Round(f, upto, w)]]
  <2>1. \A w \in Walks : F[w] = IF w.queue = <<>> THEN w.best ELSE F[Round(f, upto, w)]
      BY <1>2 DEF SolvesTail
  <2>2. F = [w \in Walks |-> F[w]]
      BY <1>2, Zenon DEF SolvesTail
  <2> HIDE DEF stop, next, out
  <2> QED BY <2>1, <2>2
<1>4. W = [w \in Walks |-> IF w.queue = <<>> THEN w.best ELSE W[Round(f, upto, w)]]
    BY <1>3
<1>5. find_tiff_embedded_jpeg_span(f, upto) =
         W[[queue |-> <<f.first>>, visited |-> {}, best |-> NONE]]
    BY DEF find_tiff_embedded_jpeg_span
<1> HIDE DEF W
<1>6. \A w \in Walks : W[w] = IF w.queue = <<>> THEN w.best ELSE W[Round(f, upto, w)]
    BY <1>4
<1> QED BY <1>5, <1>6

LEMMA ElementsOf ==
    ASSUME NEW p \in Seq(Nat), NEW q \in Seq(Nat)
    PROVE  /\ Elements(p \o q) = Elements(p) \cup Elements(q)
           /\ p # <<>> => Elements(p) = {Head(p)} \cup Elements(Tail(p))
<1>1. Elements(p \o q) = Elements(p) \cup Elements(q)
  <2>1. Elements(p) \subseteq Elements(p \o q)
      BY DEF Elements
  <2>2. ASSUME NEW x \in Elements(q) PROVE x \in Elements(p \o q)
    <3>1. PICK i \in 1..Len(q) : x = q[i]
        BY <2>2 DEF Elements
    <3>2. Len(p) + i \in 1..Len(p \o q) /\ (p \o q)[Len(p) + i] = q[i]
        OBVIOUS
    <3> QED BY <3>1, <3>2 DEF Elements
  <2>3. ASSUME NEW x \in Elements(p \o q) PROVE x \in Elements(p) \cup Elements(q)
    <3>1. PICK i \in 1..Len(p \o q) : x = (p \o q)[i]
        BY <2>3 DEF Elements
    <3>2. CASE i <= Len(p)
        BY <3>1, <3>2 DEF Elements
    <3>3. CASE i > Len(p)
      <4>1. i - Len(p) \in 1..Len(q) /\ (p \o q)[i] = q[i - Len(p)]
          BY <3>3
      <4> QED BY <3>1, <4>1 DEF Elements
    <3> QED BY <3>2, <3>3
  <2> QED BY <2>1, <2>2, <2>3
<1>2. ASSUME p # <<>> PROVE Elements(p) = {Head(p)} \cup Elements(Tail(p))
  <2>1. /\ Len(p) \in Nat \ {0} /\ Len(Tail(p)) = Len(p) - 1 /\ Head(p) = p[1]
        /\ \A i \in 1..(Len(p) - 1) : Tail(p)[i] = p[i + 1]
      BY <1>2
  <2>2. ASSUME NEW i \in 1..Len(p), i # 1 PROVE p[i] \in Elements(Tail(p))
    <3>1. i - 1 \in 1..(Len(p) - 1) /\ (i - 1) + 1 = i
        BY <2>1, <2>2
    <3> QED BY <2>1, <3>1 DEF Elements
  <2>3. ASSUME NEW i \in 1..(Len(p) - 1) PROVE Tail(p)[i] \in Elements(p)
    <3>1. i + 1 \in 1..Len(p)
        BY <2>1
    <3> QED BY <2>1, <3>1 DEF Elements
  <2>4. p[1] \in Elements(p)
      BY <2>1 DEF Elements
  <2>5. Elements(p) \subseteq {p[1]} \cup Elements(Tail(p))
      BY <2>2 DEF Elements
  <2>6. Elements(Tail(p)) \subseteq Elements(p)
      BY <2>1, <2>3 DEF Elements
  <2> QED BY <2>1, <2>4, <2>5, <2>6
<1> QED BY <1>1, <1>2

\* The directories in reach are the least set that has the first and their links.
LEMMA ReachableIs ==
    ASSUME NEW f, NEW upto
    PROVE  LET D == Inside(f, upto)
               R == Reachable(f, upto)
           IN  /\ R \subseteq D
               /\ f.first \in D => f.first \in R
               /\ \A o \in R : LinksOf(f, upto, o) \cap D \subseteq R
               /\ \A S \in SUBSET D :
                     (f.first \in S /\ \A o \in S : LinksOf(f, upto, o) \cap D \subseteq S) => R \subseteq S
<1> DEFINE D == Inside(f, upto)
           R == Reachable(f, upto)
           Closed(S) == f.first \in S /\ \A o \in S : LinksOf(f, upto, o) \cap D \subseteq S
<1>1. R = {o \in D : \A S \in SUBSET D : Closed(S) => o \in S}
    BY DEF Inside, Reachable, Linked, LinksOf, IfdAt, Elements
<1> HIDE DEF R, D
<1>2. R \subseteq D /\ (f.first \in D => f.first \in R)
    BY <1>1
<1>3. \A S \in SUBSET D : Closed(S) => R \subseteq S
    BY <1>1
<1>4. \A o \in R : LinksOf(f, upto, o) \cap D \subseteq R
    BY <1>1
<1> QED BY <1>2, <1>3, <1>4 DEF R, D

(* What holds between two rounds: the links of the directories that were   *)
(* parsed are known, all that is known is in reach, and the best preview   *)
(* is the longest of those directories.                                    *)
Known(w) == w.visited \cup Elements(w.queue)

Surveyed(f, upto, w) ==
    LET D == Inside(f, upto)
        seen == w.visited \cap D
    IN  /\ w \in Walks
        /\ f.first \notin D => w.best = NONE /\ Known(w) \cap D = {}
        /\ f.first \in D => f.first \in Known(w)
        /\ \A o \in seen : LinksOf(f, upto, o) \cap D \subseteq Known(w)
        /\ Known(w) \cap D \subseteq Reachable(f, upto)
        /\ \A o \in seen : IfdAt(f, upto, o).preview # NONE =>
              w.best # NONE /\ IfdAt(f, upto, o).preview.n <= w.best.n
        /\ w.best # NONE => \E o \in seen : IfdAt(f, upto, o).preview = w.best

LEMMA SurveyBegins ==
    ASSUME NEW f, IsBlock(f), NEW upto \in Nat
    PROVE  Surveyed(f, upto, [queue |-> <<f.first>>, visited |-> {}, best |-> NONE])
<1> DEFINE w == [queue |-> <<f.first>>, visited |-> {}, best |-> NONE]
<1>1. f.first \in Nat
    BY DEF IsBlock
<1>2. w \in Walks /\ w.visited = {} /\ w.best = NONE
    BY <1>1 DEF Walks
<1>3. Known(w) = {f.first}
    BY <1>1 DEF Known, Elements
<1> HIDE DEF w
<1>4. f.first \in Inside(f, upto) => f.first \in Reachable(f, upto)
    BY ReachableIs
<1> QED BY <1>2, <1>3, <1>4 DEF Surveyed, w

LEMMA SurveyGoesOn ==
    ASSUME NEW f, IsBlock(f), NEW upto \in Nat, NEW w, Surveyed(f, upto, w), w.queue # <<>>
    PROVE  Surveyed(f, upto, Round(f, upto, w))
<1> SUFFICES ASSUME NEW at, at = Head(w.queue), NEW r, r = Round(f, upto, w)
             PROVE  Surveyed(f, upto, r)
    OBVIOUS
<1> DEFINE D == Inside(f, upto)
           R == Reachable(f, upto)
           ifd == IfdAt(f, upto, at)
<1>1. w \in Walks /\ w.queue \in Seq(Nat) /\ w.visited \subseteq Nat /\ w.best \in Spans \cup {NONE}
    BY DEF Surveyed, Walks
<1>2. /\ at \in Nat /\ Tail(w.queue) \in Seq(Nat) /\ r \in Walks
    BY <1>1, RoundIs
<1>3. Elements(w.queue) = {at} \cup Elements(Tail(w.queue))
    BY <1>1, ElementsOf
<1>4. at \in Known(w)
    BY <1>3 DEF Known
<1>5. CASE at \in w.visited \/ at \notin D
  <2>1. r.queue = Tail(w.queue) /\ r.best = w.best /\ r.visited = w.visited \cup {at}
    <3>1. r = Passed(w, at)
        BY <1>1, <1>5, RoundIs
    <3> QED BY <3>1 DEF Passed
  <2>2. Known(r) = Known(w)
      BY <1>3, <1>5, <2>1 DEF Known
  <2>3. r.visited \cap D = w.visited \cap D
      BY <1>5, <2>1
  <2> HIDE DEF D, ifd
  <2> QED BY <1>2, <2>1, <2>2, <2>3 DEF Surveyed, D
<1>6. CASE at \notin w.visited /\ at \in D
  <2>1. /\ r.queue = Tail(w.queue) \o Leads(ifd, upto)
        /\ r.visited = w.visited \cup {at}
        /\ r.best = IF Better(ifd.preview, w.best) THEN ifd.preview ELSE w.best
    <3>1. r = Taken(f, upto, w, at)
        BY <1>1, <1>6, RoundIs
    <3> DEFINE q == Tail(w.queue) \o Leads(ifd, upto)
               b == IF Better(ifd.preview, w.best) THEN ifd.preview ELSE w.best
    <3>2. r = [queue |-> q, visited |-> w.visited \cup {at}, best |-> b]
        BY <3>1, Zenon DEF Taken
    <3> HIDE DEF q, b
    <3>3. r.queue = q /\ r.visited = w.visited \cup {at} /\ r.best = b
        BY <3>2
    <3> QED BY <3>3 DEF q, b
  <2>2. ifd \in Readings
      BY <1>6, DirectoryIs
  <2>3. /\ Leads(ifd, upto) \in Seq(Nat)
        /\ Elements(Leads(ifd, upto)) = LinksOf(f, upto, at) \cap 0..(upto - 1)
      BY <2>2, LeadsAre DEF LinksOf
  <2>4. Elements(r.queue) = Elements(Tail(w.queue)) \cup (LinksOf(f, upto, at) \cap 0..(upto - 1))
    <3> HIDE DEF ifd
    <3>1. Elements(Tail(w.queue) \o Leads(ifd, upto))
             = Elements(Tail(w.queue)) \cup Elements(Leads(ifd, upto))
        BY <1>2, <2>3, ElementsOf
    <3> QED BY <2>1, <2>3, <3>1
  <2>5. Known(r) = Known(w) \cup (LinksOf(f, upto, at) \cap 0..(upto - 1))
      BY <1>3, <2>1, <2>4 DEF Known
  <2>6. D \subseteq 0..(upto - 1)
      BY ReadLimits DEF Inside, HasIfd, IsBlock
  <2>7. f.first \in D
      BY <1>4, <1>6 DEF Surveyed
  <2>8. at \in R /\ LinksOf(f, upto, at) \cap D \subseteq R
    <3>1. at \in R
        BY <1>4, <1>6 DEF Surveyed
    <3> QED BY <3>1, ReachableIs
  <2>9. r.visited \cap D = (w.visited \cap D) \cup {at}
      BY <1>6, <2>1
  <2>10. ifd.preview \in Spans \cup {NONE} /\ (ifd.preview # NONE => ifd.preview.n \in Nat)
         /\ (w.best # NONE => w.best.n \in Nat)
      BY <1>1, <2>2 DEF Readings, Spans
  <2>11. \A o \in w.visited \cap D : IfdAt(f, upto, o).preview # NONE => IfdAt(f, upto, o).preview.n \in Nat
      BY DirectoryIs DEF Readings, Spans
  <2> HIDE DEF D, R
  <2>12. f.first \in Known(r)
      BY <2>5, <2>7 DEF Surveyed, D
  <2>13. \A o \in r.visited \cap D : LinksOf(f, upto, o) \cap D \subseteq Known(r)
      BY <2>5, <2>6, <2>9 DEF Surveyed, D
  <2>14. Known(r) \cap D \subseteq R
      BY <2>5, <2>8 DEF Surveyed, D, R
  <2>15. \A o \in r.visited \cap D : IfdAt(f, upto, o).preview # NONE =>
             r.best # NONE /\ IfdAt(f, upto, o).preview.n <= r.best.n
    <3>1. r.best = IF Better(ifd.preview, w.best) THEN ifd.preview ELSE w.best
        BY <2>1
    <3>2. ASSUME ifd.preview # NONE
          PROVE  r.best # NONE /\ ifd.preview.n <= r.best.n
        BY <2>10, <3>1, <3>2 DEF Better
    <3>3. w.best # NONE => r.best # NONE /\ w.best.n <= r.best.n
        BY <2>10, <3>1 DEF Better
    <3>4. r.best # NONE => r.best.n \in Nat
        BY <2>10, <3>1
    <3>5. ASSUME NEW o \in w.visited \cap D, IfdAt(f, upto, o).preview # NONE
          PROVE  r.best # NONE /\ IfdAt(f, upto, o).preview.n <= r.best.n
      <4>1. w.best # NONE /\ IfdAt(f, upto, o).preview.n <= w.best.n
          BY <3>5 DEF Surveyed, D
      <4>2. IfdAt(f, upto, o).preview.n \in Nat
          BY <2>11, <3>5
      <4> QED BY <2>10, <3>3, <3>4, <4>1, <4>2
    <3> QED BY <2>9, <3>2, <3>5
  <2>16. r.best # NONE => \E o \in r.visited \cap D : IfdAt(f, upto, o).preview = r.best
      BY <2>1, <2>9 DEF Surveyed, D
  <2> QED BY <1>2, <2>7, <2>12, <2>13, <2>14, <2>15, <2>16 DEF Surveyed, D, R
<1> QED BY <1>5, <1>6

(* Of the walks for which something fails, take one with the fewest        *)
(* directories left, and of those one with the shortest queue.             *)
Left(upto, w) == 0..(upto - 1) \ w.visited

LEMMA LeastWalk ==
    ASSUME NEW upto \in Nat, NEW B \in SUBSET Walks, B # {}
    PROVE  \E w \in B : \A v \in B :
              /\ Left(upto, v) \subseteq Left(upto, w) => Left(upto, v) = Left(upto, w)
              /\ Left(upto, v) = Left(upto, w) => Len(w.queue) <= Len(v.queue)
<1> DEFINE Counts == {Cardinality(Left(upto, w)) : w \in B}
<1>1. \A w \in B : IsFiniteSet(Left(upto, w)) /\ Cardinality(Left(upto, w)) \in Nat
  <2> TAKE w \in B
  <2>1. IsFiniteSet(0..(upto - 1)) /\ Left(upto, w) \subseteq 0..(upto - 1)
      BY FS_Interval DEF Left
  <2> QED BY <2>1, FS_Subset, FS_CardinalityType
<1>2. PICK c \in Counts : \A d \in Counts : c <= d
  <2>1. Counts \in SUBSET Nat /\ Counts # {}
      BY <1>1
  <2> HIDE DEF Counts
  <2> QED BY <2>1, LeastNat
<1> DEFINE Few == {w \in B : Cardinality(Left(upto, w)) = c}
           Queues == {Len(w.queue) : w \in Few}
<1>3. PICK l \in Queues : \A k \in Queues : l <= k
  <2>1. \A w \in Few : Len(w.queue) \in Nat
      BY DEF Walks
  <2>2. Few # {}
      BY <1>2
  <2>3. Queues \in SUBSET Nat /\ Queues # {}
    <3> HIDE DEF Few
    <3> QED BY <2>1, <2>2
  <2> HIDE DEF Queues
  <2> QED BY <2>3, LeastNat
<1>4. PICK w \in Few : Len(w.queue) = l
    BY <1>3
<1>5. ASSUME NEW v \in B, Left(upto, v) \subseteq Left(upto, w)
      PROVE  Left(upto, v) = Left(upto, w)
  <2>1. Cardinality(Left(upto, v)) >= Cardinality(Left(upto, w))
      BY <1>2, <1>4
  <2> QED BY <1>1, <1>4, <1>5, <2>1, FS_Subset
<1>6. ASSUME NEW v \in B, Left(upto, v) = Left(upto, w)
      PROVE  Len(w.queue) <= Len(v.queue)
  <2>1. v \in Few
      BY <1>4, <1>6
  <2> QED BY <1>3, <1>4, <2>1
<1> QED BY <1>4, <1>5, <1>6

\* What the walk returns is the longest preview of the directories in reach.
LEMMA WalkFinds ==
    ASSUME NEW f, IsBlock(f), NEW upto \in Nat,
           NEW p, p = find_tiff_embedded_jpeg_span(f, upto), p # NONE
    PROVE  /\ p \in Spans
           /\ Reachable(f, upto) \subseteq Inside(f, upto)
           /\ \E o \in Reachable(f, upto) : IfdAt(f, upto, o).preview = p
           /\ \A o \in Reachable(f, upto) :
                 IfdAt(f, upto, o).preview # NONE => IfdAt(f, upto, o).preview.n <= p.n
<1> DEFINE R == Reachable(f, upto)
           start == [queue |-> <<f.first>>, visited |-> {}, best |-> NONE]
           Right(b) == b # NONE =>
              /\ b \in Spans
              /\ \E o \in R : IfdAt(f, upto, o).preview = b
              /\ \A o \in R : IfdAt(f, upto, o).preview # NONE => IfdAt(f, upto, o).preview.n <= b.n
<1>1. PICK F : /\ \A w \in Walks :
                    F[w] = IF w.queue = <<>> THEN w.best ELSE F[Round(f, upto, w)]
               /\ find_tiff_embedded_jpeg_span(f, upto) = F[start]
  <2>1. f.classic
      BY DEF find_tiff_embedded_jpeg_span
  <2> QED BY <2>1, FindsByWalk, Zenon
<1> HIDE DEF start
<1> DEFINE Bad == {w \in Walks : Surveyed(f, upto, w) /\ ~Right(F[w])}
<1>2. Bad = {}
  <2> SUFFICES ASSUME Bad # {} PROVE FALSE
      OBVIOUS
  <2>1. PICK w \in Bad : \A v \in Bad :
              /\ Left(upto, v) \subseteq Left(upto, w) => Left(upto, v) = Left(upto, w)
              /\ Left(upto, v) = Left(upto, w) => Len(w.queue) <= Len(v.queue)
    <3>1. Bad \in SUBSET Walks
        OBVIOUS
    <3> HIDE DEF Bad
    <3> QED BY <3>1, LeastWalk
  <2>2. w \in Walks /\ Surveyed(f, upto, w) /\ ~Right(F[w])
      OBVIOUS
  <2>3. CASE w.queue = <<>>
    <3> DEFINE seen == w.visited \cap Inside(f, upto)
    <3>1. F[w] = w.best /\ w.best \in Spans \cup {NONE}
        BY <1>1, <2>2, <2>3 DEF Walks
    <3>2. Known(w) = w.visited
        BY <2>3 DEF Known, Elements
    <3>3. CASE f.first \in Inside(f, upto)
      <4>1. /\ f.first \in seen /\ seen \subseteq R
            /\ \A o \in seen : LinksOf(f, upto, o) \cap Inside(f, upto) \subseteq seen
          BY <2>2, <3>2, <3>3 DEF Surveyed
      <4>2. R \subseteq seen
          BY <4>1, ReachableIs
      <4> QED BY <2>2, <3>1, <4>1, <4>2 DEF Surveyed
    <3>4. CASE f.first \notin Inside(f, upto)
        BY <2>2, <3>1, <3>4 DEF Surveyed
    <3> QED BY <3>3, <3>4
  <2>4. CASE w.queue # <<>>
    <3> DEFINE at == Head(w.queue)
               r == Round(f, upto, w)
    <3>1. r \in Walks /\ Surveyed(f, upto, r) /\ F[w] = F[r]
      <4>1. r \in Walks /\ Surveyed(f, upto, r)
          BY <2>2, <2>4, RoundIs, SurveyGoesOn
      <4>2. F[w] = F[r]
          BY <1>1, <2>2, <2>4
      <4> QED BY <4>1, <4>2
    <3>2. r \in Bad
        BY <2>2, <3>1
    <3>3. /\ at \in Nat /\ w.queue \in Seq(Nat)
          /\ r = IF at \in w.visited \/ at \notin Inside(f, upto)
                 THEN Passed(w, at) ELSE Taken(f, upto, w, at)
        BY <2>2, <2>4, RoundIs DEF Walks
    <3> HIDE DEF r, at
    <3>4. r.visited = w.visited \cup {at}
        BY <3>3 DEF Passed, Taken
    <3>5. Left(upto, r) = Left(upto, w)
        BY <2>1, <3>2, <3>4 DEF Left
    <3>6. at \in w.visited \/ at \notin 0..(upto - 1)
        BY <3>4, <3>5 DEF Left
    <3>7. at \in w.visited \/ at \notin Inside(f, upto)
        BY <3>3, <3>6, ReadLimits DEF Inside, HasIfd
    <3>8. r.queue = Tail(w.queue)
      <4>1. r = Passed(w, at)
          BY <3>3, <3>7
      <4> QED BY <4>1, Zenon DEF Passed
    <3>9. Len(r.queue) < Len(w.queue)
      <4>1. w.queue \in Seq(Nat)
          BY <3>3
      <4> QED BY <2>4, <3>8, <4>1
    <3>10. Len(w.queue) <= Len(r.queue)
        BY <2>1, <3>2, <3>5
    <3>11. Len(w.queue) \in Nat /\ Len(r.queue) \in Nat
      <4>1. w.queue \in Seq(Nat)
          BY <3>3
      <4> QED BY <2>4, <3>8, <4>1
    <3> QED BY <3>9, <3>10, <3>11
  <2> QED BY <2>3, <2>4
<1>3. Surveyed(f, upto, start) /\ start \in Walks
    BY SurveyBegins DEF start, Surveyed
<1>4. Right(F[start])
    BY <1>2, <1>3
<1>5. R \subseteq Inside(f, upto)
    BY ReachableIs
<1> QED BY <1>1, <1>4, <1>5

-----------------------------------------------------------------------------
(* The thumbnail in Exif data: placed from the start of the file.          *)
LEMMA ExifIsNamed ==
    ASSUME NEW f, IsSegmented(f), NEW at \in DOMAIN f, NEW from \in Nat, from <= at, NEW upto \in Nat,
           NEW p, p = ExifIn(f, at, from, upto), p # NONE, NEW S, at \in S
    PROVE  f[at].kind = "exif" /\ p \in NamedByExif(f, S)
<1> DEFINE b == f[at]
           room == Lesser(b.n, upto - at - 1)
           t == parse_tiff_exif_thumbnail(b, room)
           start == at - from + 1
<1>1. at \in Nat /\ IsBlock(b)
    BY DEF IsSegmented
<1>2. b.kind = "exif" /\ t # NONE /\ p = [t EXCEPT !.off = @ + from + start]
    BY DEF ExifIn
<1>3. PICK o \in DOMAIN b.ifds : t = b.ifds[o].direct
  <2> DEFINE o == IF HasIfd(b, b.first, room) THEN b.ifds[b.first].next ELSE 0
  <2>1. o \in DOMAIN b.ifds /\ t = Jpeg(b.ifds[o].direct)
      BY <1>2 DEF parse_tiff_exif_thumbnail, HasIfd
  <2> HIDE DEF o, t, b
  <2> QED BY <1>2, <2>1 DEF Jpeg
<1>4. t \in Spans
    BY <1>1, <1>2, <1>3 DEF IsBlock, Directories
<1> DEFINE u == [off |-> (at + 1) + t.off, n |-> t.n]
<1>5. p = u
  <2>1. t.off \in Nat /\ t.off + from + start = (at + 1) + t.off
      BY <1>1, <1>4 DEF Spans
  <2>2. t = [off |-> t.off, n |-> t.n]
      BY <1>4 DEF Spans
  <2> HIDE DEF t, start
  <2> QED BY <1>2, <2>1, <2>2
<1>6. u \in NamedByTiff(b, at + 1)
  <2>1. t \in NamedBy(b, b.ifds[o])
      BY <1>2, <1>3 DEF NamedBy
  <2> HIDE DEF t, b
  <2> QED BY <1>3, <2>1 DEF NamedByTiff
<1>7. NamedByTiff(b, at + 1) \subseteq NamedByExif(f, S)
    BY <1>2 DEF NamedByExif
<1> QED BY <1>2, <1>5, <1>6, <1>7

LEMMA StartsAre ==
    ASSUME NEW f, NEW first
    PROVE  LET R == Starts(f, first)
           IN  /\ R \subseteq DOMAIN f
               /\ first \in DOMAIN f => first \in R
               /\ \A o \in R : o + 1 + f[o].n \in DOMAIN f => o + 1 + f[o].n \in R
               /\ \A S \in SUBSET DOMAIN f :
                     (first \in S /\ \A o \in S : o + 1 + f[o].n \in DOMAIN f => o + 1 + f[o].n \in S)
                        => R \subseteq S
<1> DEFINE R == Starts(f, first)
           Closed(S) == /\ first \in S
                        /\ \A o \in S : o + 1 + f[o].n \in DOMAIN f => o + 1 + f[o].n \in S
<1>1. R = {o \in DOMAIN f : \A S \in SUBSET DOMAIN f : Closed(S) => o \in S}
  <2>1. \A S, o : {o + 1 + f[o].n} \cap DOMAIN f \subseteq S
                   <=> (o + 1 + f[o].n \in DOMAIN f => o + 1 + f[o].n \in S)
      OBVIOUS
  <2> QED BY <2>1 DEF Starts, Linked
<1> HIDE DEF R
<1>2. R \subseteq DOMAIN f /\ (first \in DOMAIN f => first \in R)
    BY <1>1
<1>3. \A S \in SUBSET DOMAIN f : Closed(S) => R \subseteq S
    BY <1>1
<1>4. \A o \in R : o + 1 + f[o].n \in DOMAIN f => o + 1 + f[o].n \in R
    BY <1>1
<1> QED BY <1>2, <1>3, <1>4 DEF R

(* On the way from segment to segment: where the next one is said to begin *)
(* one does, unless there is none, and what was passed is no image.        *)
OnTheWay(f, at) ==
    /\ at \in Nat
    /\ at \in DOMAIN f => at \in Starts(f, 0)
    /\ \E V \in SUBSET DOMAIN f :
          /\ \A o \in V : f[o].kind # "image"
          /\ \A o \in V : o + 1 + f[o].n \in DOMAIN f => o + 1 + f[o].n \in V \cup {at}
          /\ 0 \in V \cup {at}

LEMMA NextOnTheWay ==
    ASSUME NEW f, IsSegmented(f), NEW at \in DOMAIN f, OnTheWay(f, at), f[at].kind # "image"
    PROVE  OnTheWay(f, at + 1 + f[at].n)
<1> DEFINE next == at + 1 + f[at].n
<1>1. at \in Nat /\ f[at].n \in Nat /\ next \in Nat
    BY DEF IsSegmented
<1>2. next \in DOMAIN f => next \in Starts(f, 0)
    BY StartsAre DEF OnTheWay
<1>3. PICK V \in SUBSET DOMAIN f :
          /\ \A o \in V : f[o].kind # "image"
          /\ \A o \in V : o + 1 + f[o].n \in DOMAIN f => o + 1 + f[o].n \in V \cup {at}
          /\ 0 \in V \cup {at}
    BY DEF OnTheWay
<1> DEFINE W == V \cup {at}
<1>4. /\ W \in SUBSET DOMAIN f
      /\ \A o \in W : f[o].kind # "image"
      /\ 0 \in W \cup {next}
    BY <1>3
<1>5. \A o \in W : o + 1 + f[o].n \in DOMAIN f => o + 1 + f[o].n \in W \cup {next}
    BY <1>3
<1> HIDE DEF W, next
<1>6. OnTheWay(f, next)
    BY <1>1, <1>2, <1>4, <1>5 DEF OnTheWay
<1> QED BY <1>6 DEF next

LEMMA WayIsBeforeImage ==
    ASSUME NEW f, IsSegmented(f), NEW at \in DOMAIN f, OnTheWay(f, at), f[at].kind # "image"
    PROVE  at \in BeforeImage(f)
<1>1. at \in Nat /\ at \in Starts(f, 0)
    BY DEF OnTheWay
<1>2. PICK V \in SUBSET DOMAIN f :
          /\ \A o \in V : f[o].kind # "image"
          /\ \A o \in V : o + 1 + f[o].n \in DOMAIN f => o + 1 + f[o].n \in V \cup {at}
          /\ 0 \in V \cup {at}
    BY DEF OnTheWay
<1> DEFINE S == V \cup {o \in DOMAIN f : o >= at}
<1>3. S \in SUBSET DOMAIN f /\ 0 \in S
    BY <1>1, <1>2
<1>4. ASSUME NEW o \in S, o + 1 + f[o].n \in DOMAIN f
      PROVE  o + 1 + f[o].n \in S
  <2>1. CASE o \in V
      BY <1>1, <1>2, <1>4, <2>1
  <2>2. CASE o \in DOMAIN f /\ o >= at
    <3>1. o \in Nat /\ f[o].n \in Nat
        BY <2>2 DEF IsSegmented
    <3>2. o + 1 + f[o].n >= at
        BY <1>1, <2>2, <3>1
    <3> QED BY <1>4, <3>2
  <2> QED BY <1>4, <2>1, <2>2
<1> HIDE DEF S
<1>5. Starts(f, 0) \subseteq S
    BY <1>3, <1>4, StartsAre
<1>6. ASSUME NEW p \in Starts(f, 0), f[p].kind = "image"
      PROVE  at < p
  <2>1. p \in DOMAIN f /\ p >= at /\ p # at
      BY <1>2, <1>5, <1>6 DEF S
  <2>2. p \in Nat
      BY <2>1 DEF IsSegmented
  <2> QED BY <1>1, <2>1, <2>2
<1> QED BY <1>1, <1>6 DEF BeforeImage

\* The recursion of FromSegments.
SegmentAt(f, upto, goesOn, at, rest) ==
    IF at \notin DOMAIN f \/ at >= upto THEN NONE
    ELSE LET span == ExifIn(f, at, 0, upto) IN
         IF span # NONE THEN span
         ELSE IF f[at].kind = "image" \/ (f[at].kind = "exif" /\ ~goesOn) THEN NONE
         ELSE rest

LEMMA SegmentsSolve ==
    ASSUME NEW f, IsSegmented(f), NEW upto, NEW goesOn
    PROVE  \E F :
             /\ \A at \in Nat : F[at] = SegmentAt(f, upto, goesOn, at, F[at + 1 + f[at].n])
             /\ FromSegments(f, upto, goesOn) = F[0]
<1> DEFINE Ends(at) == \/ at \notin DOMAIN f \/ at >= upto \/ ExifIn(f, at, 0, upto) # NONE
                       \/ f[at].kind = "image" \/ (f[at].kind = "exif" /\ ~goesOn)
           stop == {at \in Nat : Ends(at)}
           next == [at \in Nat |-> at + 1 + f[at].n]
           out == [at \in Nat |-> IF at \notin DOMAIN f \/ at >= upto THEN NONE
                                  ELSE ExifIn(f, at, 0, upto)]
           W == CHOOSE F : F = [at \in Nat |-> SegmentAt(f, upto, goesOn, at, F[at + 1 + f[at].n])]
<1>1. \A at \in Nat : at \notin stop => next[at] \in Nat
  <2> SUFFICES ASSUME NEW at \in Nat, at \in DOMAIN f PROVE at + 1 + f[at].n \in Nat
      OBVIOUS
  <2> QED BY DEF IsSegmented
<1>2. PICK F : SolvesTail(Nat, stop, next, out, F)
  <2> HIDE DEF stop, next, out
  <2> QED BY <1>1, TailRecursion
<1>3. F = [at \in Nat |-> SegmentAt(f, upto, goesOn, at, F[at + 1 + f[at].n])]
  <2>1. ASSUME NEW at \in Nat
        PROVE  F[at] = SegmentAt(f, upto, goesOn, at, F[at + 1 + f[at].n])
    <3>1. F[at] = IF at \in stop THEN out[at] ELSE F[next[at]]
      <4> HIDE DEF stop, next, out
      <4> QED BY <1>2 DEF SolvesTail
    <3>2. CASE Ends(at)
      <4>1. F[at] = IF at \notin DOMAIN f \/ at >= upto THEN NONE
                    ELSE ExifIn(f, at, 0, upto)
          BY <3>1, <3>2
      <4> QED BY <3>2, <4>1 DEF SegmentAt
    <3>3. CASE ~Ends(at)
      <4>1. F[at] = F[at + 1 + f[at].n]
          BY <3>1, <3>3
      <4> QED BY <3>3, <4>1 DEF SegmentAt
    <3> QED BY <3>2, <3>3
  <2>2. F = [at \in Nat |-> F[at]]
      BY <1>2, Zenon DEF SolvesTail
  <2> QED BY <2>1, <2>2
<1>4. W = [at \in Nat |-> SegmentAt(f, upto, goesOn, at, W[at + 1 + f[at].n])]
    BY <1>3
<1>5. FromSegments(f, upto, goesOn) = W[0]
    BY DEF FromSegments, SegmentAt
<1> HIDE DEF W
<1> QED BY <1>4, <1>5

LEMMA SegmentsFind ==
    ASSUME NEW f, IsSegmented(f), NEW upto \in Nat, NEW goesOn,
           NEW p, p = FromSegments(f, upto, goesOn), p # NONE
    PROVE  p \in NamedByExif(f, BeforeImage(f))
<1> DEFINE Right(b) == b # NONE => b \in NamedByExif(f, BeforeImage(f))
<1>1. PICK F : /\ \A at \in Nat : F[at] = SegmentAt(f, upto, goesOn, at, F[at + 1 + f[at].n])
               /\ FromSegments(f, upto, goesOn) = F[0]
    BY SegmentsSolve
<1> DEFINE Bad == {n \in Nat : \E at \in Nat : /\ n = SatSub(upto, at)
                                              /\ OnTheWay(f, at) /\ ~Right(F[at])}
<1>2. Bad = {}
  <2> SUFFICES ASSUME Bad # {} PROVE FALSE
      OBVIOUS
  <2>1. PICK n \in Bad : \A m \in Bad : n <= m
    <3>1. Bad \in SUBSET Nat
        OBVIOUS
    <3> HIDE DEF Bad
    <3> QED BY <3>1, LeastNat
  <2>2. PICK at \in Nat : n = SatSub(upto, at) /\ OnTheWay(f, at) /\ ~Right(F[at])
      OBVIOUS
  <2>3. F[at] = SegmentAt(f, upto, goesOn, at, F[at + 1 + f[at].n])
      BY <1>1
  <2>4. at \in DOMAIN f /\ at < upto
      BY <2>2, <2>3 DEF SegmentAt
  <2>5. f[at].n \in Nat
      BY <2>4 DEF IsSegmented
  <2>6. CASE ExifIn(f, at, 0, upto) # NONE
    <3>1. F[at] = ExifIn(f, at, 0, upto)
        BY <2>3, <2>4, <2>6 DEF SegmentAt
    <3>2. f[at].kind = "exif"
        BY <2>4, <2>6, ExifIsNamed
    <3>3. at \in BeforeImage(f)
        BY <2>2, <2>4, <3>2, WayIsBeforeImage
    <3> QED BY <2>2, <2>4, <2>6, <3>1, <3>3, ExifIsNamed
  <2>7. CASE ExifIn(f, at, 0, upto) = NONE
    <3> DEFINE next == at + 1 + f[at].n
    <3>1. f[at].kind # "image" /\ F[at] = F[next]
        BY <2>2, <2>3, <2>4, <2>7 DEF SegmentAt
    <3>2. OnTheWay(f, next) /\ next \in Nat
        BY <2>2, <2>4, <2>5, <3>1, NextOnTheWay
    <3>3. SatSub(upto, next) \in Nat /\ SatSub(upto, next) < n
        BY <2>2, <2>4, <2>5 DEF SatSub
    <3> HIDE DEF next
    <3>4. SatSub(upto, next) \in Bad
        BY <2>2, <3>1, <3>2, <3>3
    <3> QED BY <2>1, <2>2, <3>3, <3>4
  <2> QED BY <2>6, <2>7
<1>3. 0 \in DOMAIN f => OnTheWay(f, 0)
  <2> HAVE 0 \in DOMAIN f
  <2>1. 0 \in Starts(f, 0)
      BY StartsAre
  <2>2. \E V \in SUBSET DOMAIN f :
          /\ \A o \in V : f[o].kind # "image"
          /\ \A o \in V : o + 1 + f[o].n \in DOMAIN f => o + 1 + f[o].n \in V \cup {0}
          /\ 0 \in V \cup {0}
    <3>1. {} \in SUBSET DOMAIN f
        OBVIOUS
    <3> QED BY <3>1
  <2> QED BY <2>1, <2>2 DEF OnTheWay
<1>4. CASE 0 \notin DOMAIN f
    BY <1>1, <1>4 DEF SegmentAt
<1>5. CASE OnTheWay(f, 0)
  <2>1. SatSub(upto, 0) \in Nat
      BY DEF SatSub
  <2> QED BY <1>1, <1>2, <1>5, <2>1
<1> QED BY <1>3, <1>4, <1>5

LEMMA LeastOf ==
    ASSUME NEW T \in SUBSET Nat, T # {}
    PROVE  (CHOOSE n \in T : \A m \in T : n <= m) \in T
  BY LeastNat

LEMMA WebpFinds ==
    ASSUME NEW f, IsSegmented(f), NEW from \in Nat, NEW upto \in Nat,
           NEW p, p = find_webp_exif(f, from, upto), p # NONE
    PROVE  p \in NamedByExif(f, DOMAIN f)
<1> DEFINE found == {o \in DOMAIN f : from <= o /\ o < upto /\ ExifIn(f, o, from, upto) # NONE}
           at == CHOOSE o \in found : \A q \in found : o <= q
<1>1. found \in SUBSET Nat /\ found # {} /\ p = ExifIn(f, at, from, upto)
    BY DEF find_webp_exif, IsSegmented
<1>2. at \in found
  <2> HIDE DEF found
  <2> QED BY <1>1, LeastOf
<1> HIDE DEF at
<1> QED BY <1>1, <1>2, ExifIsNamed

\* The recursion of find_id3_apic.
FrameAt(frames, upto, pos, rest) ==
    IF pos \notin DOMAIN frames \/ pos >= upto THEN NONE
    ELSE IF frames[pos].apic
    THEN extract_apic_image(frames[pos], pos + 1, Lesser(pos + 1 + frames[pos].n, upto))
    ELSE rest

LEMMA FramesSolve ==
    ASSUME NEW f, IsTag(f), NEW upto
    PROVE  \E F :
             /\ \A pos \in Nat : F[pos] = FrameAt(f.frames, upto, pos, F[pos + 1 + f.frames[pos].n])
             /\ find_id3_apic(f.frames, f.first, upto) = F[f.first]
<1> DEFINE g == f.frames
           Ends(pos) == pos \notin DOMAIN g \/ pos >= upto \/ g[pos].apic
           stop == {pos \in Nat : Ends(pos)}
           next == [pos \in Nat |-> pos + 1 + g[pos].n]
           out == [pos \in Nat |-> FrameAt(g, upto, pos, NONE)]
           W == CHOOSE F : F = [pos \in Nat |-> FrameAt(g, upto, pos, F[pos + 1 + g[pos].n])]
<1>1. \A pos \in Nat : pos \notin stop => next[pos] \in Nat
  <2> SUFFICES ASSUME NEW pos \in Nat, pos \in DOMAIN g PROVE pos + 1 + g[pos].n \in Nat
      OBVIOUS
  <2> QED BY DEF IsTag
<1>2. PICK F : SolvesTail(Nat, stop, next, out, F)
  <2> HIDE DEF stop, next, out
  <2> QED BY <1>1, TailRecursion
<1>3. F = [pos \in Nat |-> FrameAt(g, upto, pos, F[pos + 1 + g[pos].n])]
  <2>1. ASSUME NEW pos \in Nat
        PROVE  F[pos] = FrameAt(g, upto, pos, F[pos + 1 + g[pos].n])
    <3>1. F[pos] = IF pos \in stop THEN out[pos] ELSE F[next[pos]]
      <4> HIDE DEF stop, next, out
      <4> QED BY <1>2 DEF SolvesTail
    <3>2. CASE Ends(pos)
      <4>1. F[pos] = FrameAt(g, upto, pos, NONE)
          BY <3>1, <3>2
      <4> QED BY <3>2, <4>1 DEF FrameAt
    <3>3. CASE ~Ends(pos)
      <4>1. F[pos] = F[pos + 1 + g[pos].n]
          BY <3>1, <3>3
      <4> QED BY <3>3, <4>1 DEF FrameAt
    <3> QED BY <3>2, <3>3
  <2>2. F = [pos \in Nat |-> F[pos]]
      BY <1>2, Zenon DEF SolvesTail
  <2> QED BY <2>1, <2>2
<1>4. W = [pos \in Nat |-> FrameAt(g, upto, pos, W[pos + 1 + g[pos].n])]
    BY <1>3
<1>5. find_id3_apic(f.frames, f.first, upto) = W[f.first]
    BY DEF find_id3_apic, FrameAt
<1>6. f.first \in Nat
    BY DEF IsTag
<1> HIDE DEF W
<1> QED BY <1>4, <1>5, <1>6

\* A cover cut off at `upto`.
Cut(s, upto) == [s EXCEPT !.n = MinOf(@, SatSub(upto, s.off))]

LEMMA ApicIsNamed ==
    ASSUME NEW f, IsTag(f), NEW pos \in Starts(f.frames, f.first), f.frames[pos].apic,
           NEW upto \in Nat, pos < upto,
           NEW p, p = extract_apic_image(f.frames[pos], pos + 1, Lesser(pos + 1 + f.frames[pos].n, upto)),
           p # NONE
    PROVE  p \in {Cut(s, upto) : s \in NamedById3(f)}
<1> DEFINE g == f.frames[pos]
           off == pos + 1 + g.text
           end == Lesser(pos + 1 + g.n, upto)
           s == [off |-> off, n |-> g.n - g.text]
<1>1. pos \in DOMAIN f.frames
    BY StartsAre
<1>2. pos \in Nat /\ g \in [apic : BOOLEAN, text : Nat, n : Nat]
    BY <1>1 DEF IsTag
<1>3. g.text \in Nat /\ g.n \in Nat /\ off \in Nat
    BY <1>2
<1>4. s \in NamedById3(f)
    BY DEF NamedById3
<1>5. off < end /\ p = [off |-> off, n |-> end - off]
  <2>1. off < end
      BY <1>2, <1>3 DEF extract_apic_image, Lesser
  <2>2. p = [off |-> (pos + 1) + g.text, n |-> end - (pos + 1) - g.text]
      BY <2>1, <1>2, <1>3 DEF extract_apic_image, Lesser
  <2>3. end \in Nat /\ end - (pos + 1) - g.text = end - off
      BY <1>2, <1>3 DEF Lesser
  <2> HIDE DEF g, end
  <2> QED BY <2>1, <2>2, <2>3
<1>6. end - off = MinOf(g.n - g.text, SatSub(upto, off))
    BY <1>2, <1>3, <1>5 DEF Lesser, MinOf, SatSub
<1>7. Cut(s, upto) = [off |-> off, n |-> MinOf(g.n - g.text, SatSub(upto, off))]
  <2> HIDE DEF off, g
  <2> QED BY DEF Cut
<1> HIDE DEF s, off, end, g
<1> QED BY <1>4, <1>5, <1>6, <1>7

LEMMA FramesFind ==
    ASSUME NEW f, IsTag(f), NEW upto \in Nat,
           NEW p, p = find_id3_apic(f.frames, f.first, upto), p # NONE
    PROVE  p \in {Cut(s, upto) : s \in NamedById3(f)}
<1> DEFINE R == Starts(f.frames, f.first)
           Right(b) == b # NONE => b \in {Cut(s, upto) : s \in NamedById3(f)}
           On(pos) == pos \in DOMAIN f.frames => pos \in R
<1>1. PICK F : /\ \A pos \in Nat : F[pos] = FrameAt(f.frames, upto, pos, F[pos + 1 + f.frames[pos].n])
               /\ find_id3_apic(f.frames, f.first, upto) = F[f.first]
    BY FramesSolve
<1> HIDE DEF Right
<1> DEFINE Bad == {n \in Nat : \E pos \in Nat : n = SatSub(upto, pos) /\ On(pos) /\ ~Right(F[pos])}
<1>2. Bad = {}
  <2> SUFFICES ASSUME Bad # {} PROVE FALSE
      OBVIOUS
  <2>1. PICK n \in Bad : \A m \in Bad : n <= m
    <3>1. Bad \in SUBSET Nat
        OBVIOUS
    <3> HIDE DEF Bad
    <3> QED BY <3>1, LeastNat
  <2>2. PICK pos \in Nat : n = SatSub(upto, pos) /\ On(pos) /\ ~Right(F[pos])
      OBVIOUS
  <2>11. \A q \in Nat : (SatSub(upto, q) \in Nat /\ On(q) /\ ~Right(F[q]))
           => SatSub(upto, q) \in Bad
      OBVIOUS
  <2> DEFINE next == pos + 1 + f.frames[pos].n
  <2>3. F[pos] = FrameAt(f.frames, upto, pos, F[next])
      BY <1>1
  <2>4. pos \in DOMAIN f.frames /\ pos < upto
      BY <2>2, <2>3 DEF FrameAt, Right
  <2>5. pos \in R /\ f.frames[pos].n \in Nat
      BY <2>2, <2>4 DEF IsTag
  <2>6. ~f.frames[pos].apic
    <3> SUFFICES ASSUME f.frames[pos].apic PROVE Right(F[pos])
        BY <2>2
    <3>1. F[pos] = extract_apic_image(f.frames[pos], pos + 1, Lesser(pos + 1 + f.frames[pos].n, upto))
        BY <2>3, <2>4 DEF FrameAt
    <3> QED BY <2>4, <2>5, <3>1, ApicIsNamed DEF Right
  <2>7. F[pos] = F[next]
      BY <2>3, <2>4, <2>6 DEF FrameAt
  <2>8. On(next)
    <3>1. next \in DOMAIN f.frames => next \in R
        BY <2>5, StartsAre
    <3> QED BY <3>1
  <2>9. n \in Nat /\ next \in Nat /\ SatSub(upto, next) \in Nat /\ SatSub(upto, next) < n
      BY <2>2, <2>4, <2>5 DEF SatSub
  <2> HIDE DEF next, On, Bad
  <2>10. SatSub(upto, next) \in Bad
    <3>1. ~Right(F[next])
        BY <2>2, <2>7
    <3> QED BY <2>8, <2>9, <2>11, <3>1, Zenon
  <2> QED BY <2>1, <2>2, <2>9, <2>10
<1>3. f.first \in Nat /\ On(f.first) /\ SatSub(upto, f.first) \in Nat
    BY StartsAre DEF IsTag, SatSub
<1>4. Right(F[f.first])
    BY <1>2, <1>3
<1> QED BY <1>1, <1>4 DEF Right

LEMMA FirstNamedIs ==
    ASSUME NEW dir, NEW name, NEW e, e = FirstNamed(dir, name), e # NONE
    PROVE  \E i \in 1..Len(dir) : e = dir[i] /\ dir[i].name = name
<1> DEFINE named == {i \in 1..Len(dir) : dir[i].name = name}
           at == CHOOSE i \in named : \A j \in named : i <= j
<1>1. named # {} /\ e = dir[at]
    BY Zenon DEF FirstNamed
<1>3. named \in SUBSET Nat
    OBVIOUS
<1>2. at \in named
  <2> HIDE DEF named
  <2> QED BY <1>1, <1>3, LeastOf
<1> HIDE DEF at
<1> QED BY <1>1, <1>2

LEMMA EntryIs ==
    ASSUME NEW f, IsArchive(f), NEW i \in 1..Len(f.dir)
    PROVE  f.dir[i].at \in Nat /\ f.dir[i].extra \in Nat /\ i \in DOMAIN f.dir
<1> DEFINE R == [name : {"thumb", "meta", "other"}, at : Nat, extra : Nat, n : Nat]
<1>1. \A e \in R : e.at \in Nat /\ e.extra \in Nat
    OBVIOUS
<1>2. f.dir \in Seq(R)
    BY DEF IsArchive
<1> HIDE DEF R
<1>3. f.dir[i] \in R /\ i \in DOMAIN f.dir
    BY <1>2
<1> QED BY <1>1, <1>3

LEMMA EntryBegins ==
    ASSUME NEW f, IsArchive(f), NEW e, e = FirstNamed(f.dir, "thumb"), e # NONE
    PROVE  e.at \in Nat
<1>1. PICK i \in 1..Len(f.dir) : e = f.dir[i] /\ f.dir[i].name = "thumb"
    BY FirstNamedIs
<1> QED BY <1>1, EntryIs

\* The data of the thumbnail entry, wherever the buffer with it begins.
LEMMA EntryIsNamed ==
    ASSUME NEW f, IsArchive(f), NEW e,
           e = FirstNamed(f.dir, "thumb"), e # NONE,
           NEW start \in Nat, NEW size, NEW p, p = zip_extract_from_buffer(e, start, size), p # NONE
    PROVE  p \in NamedByZip(f)
<1>1. PICK i \in 1..Len(f.dir) : e = f.dir[i] /\ f.dir[i].name = "thumb"
    BY FirstNamedIs
<1>2. e.at \in Nat /\ e.extra \in Nat
    BY <1>1, EntryIs
<1>3. /\ e.at >= start
      /\ p = [off |-> start + ((e.at - start) + 1 + e.extra), n |-> e.n]
    BY <1>2 DEF zip_extract_from_buffer
<1>4. start + ((e.at - start) + 1 + e.extra) = e.at + 1 + e.extra
    BY <1>2
<1>5. p = [off |-> e.at + 1 + e.extra, n |-> e.n]
    BY <1>3, <1>4
<1>6. i \in DOMAIN f.dir
    BY EntryIs
<1> QED BY <1>1, <1>5, <1>6 DEF NamedByZip

-----------------------------------------------------------------------------
(* What the shortcuts look for, in the states of a cook.                   *)
LEMMA FileShapes ==
    ASSUME kind \in Kinds, file \in Files[kind]
    PROVE  /\ kind \in {"jpeg", "tiff", "png", "webp", "raw", "zip", "pdf", "mp3"}
           /\ kind \in {"tiff", "raw"} => IsBlock(file)
           /\ kind \in {"jpeg", "png", "webp"} => IsSegmented(file)
           /\ kind = "mp3" => file = NONE \/ IsTag(file)
           /\ kind = "zip" => IsArchive(file)
<1>1. kind \in {"jpeg", "tiff", "png", "webp", "raw", "zip", "pdf", "mp3"}
    BY ShortcutAssumption DEF Tries
<1>2. CASE kind \in {"tiff", "raw"}
    BY <1>2, FilesAssumption
<1>3. CASE kind \in {"jpeg", "png", "webp"}
    BY <1>3, FilesAssumption
<1>4. CASE kind \in {"mp3", "zip", "pdf"}
    BY <1>4, FilesAssumption
<1> QED BY <1>1, <1>2, <1>3, <1>4

\* What a directory names is among the bytes its block names.
LEMMA DirectoryNames ==
    ASSUME NEW f, NEW o \in DOMAIN f.ifds, NEW p \in NamedBy(f, f.ifds[o]), p \in Spans
    PROVE  p \in NamedByTiff(f, 0)
<1>1. p.off \in Nat /\ p = [off |-> p.off, n |-> p.n]
    BY DEF Spans
<1>2. p = [off |-> 0 + p.off, n |-> p.n]
    BY <1>1
<1> QED BY <1>2 DEF NamedByTiff

\* One more span, and the longer one of it and the longest of the others.
LEMMA LongestGrows ==
    ASSUME NEW ps, ps \subseteq Spans, NEW span, IsLongest(span, ps), NEW p \in Spans, p # NONE
    PROVE  IsLongest(IF Better(p, span) THEN p ELSE span, ps \cup {p})
<1>1. \A q \in ps \cup {p} : q.n \in Nat
    BY DEF Spans
<1>2. CASE span = NONE
    BY <1>1, <1>2 DEF IsLongest, Better
<1>3. CASE span # NONE
  <2>1. span \in ps /\ \A q \in ps : q.n <= span.n
      BY <1>3 DEF IsLongest
  <2>2. CASE p.n > span.n
    <3>1. \A q \in ps \cup {p} : q.n <= p.n
        BY <1>1, <2>1, <2>2
    <3> QED BY <1>3, <2>2, <3>1 DEF IsLongest, Better
  <2>3. CASE ~(p.n > span.n)
    <3>1. \A q \in ps \cup {p} : q.n <= span.n
        BY <1>1, <2>1, <2>3
    <3> QED BY <1>3, <2>1, <2>3, <3>1 DEF IsLongest, Better
  <2> QED BY <2>2, <2>3
<1> QED BY <1>2, <1>3

LEMMA ReadSizes ==
    /\ {Header, RawHeader, IfdFetch, ExifTail, AudioFetch, ZipWindow, Dir} \subseteq Nat
    /\ NONE \notin Nat
  BY ShortcutAssumption, BufferAssumption

\* What the header names.
LEMMA HeaderFinds ==
    ASSUME kind \in {"jpeg", "png", "webp", "tiff", "raw"}, kind \in Kinds, file \in Files[kind],
           len \in Nat, kind = "webp" => known = len, HeaderSpan # NONE
    PROVE  /\ HeaderSpan \in Named
           /\ kind \in {"tiff", "raw"} =>
                 IsLongest(HeaderSpan,
                           InHeader(Scanned(IF kind = "tiff" THEN Header ELSE RawHeader)))
<1>1. Scanned(Header) \in Nat /\ Scanned(RawHeader) \in Nat
    BY ReadSizes DEF Scanned, MinOf
<1>2. CASE kind \in {"tiff", "raw"}
  <2> DEFINE upto == Scanned(IF kind = "tiff" THEN Header ELSE RawHeader)
  <2>1. HeaderSpan = find_tiff_embedded_jpeg_span(file, upto) /\ upto \in Nat
      BY <1>1, <1>2 DEF HeaderSpan
  <2>2. IsBlock(file)
      BY <1>2, FileShapes
  <2> HIDE DEF upto
  <2>3. /\ HeaderSpan \in Spans /\ Reachable(file, upto) \subseteq Inside(file, upto)
        /\ \E o \in Reachable(file, upto) : IfdAt(file, upto, o).preview = HeaderSpan
        /\ \A o \in Reachable(file, upto) : IfdAt(file, upto, o).preview # NONE =>
              IfdAt(file, upto, o).preview.n <= HeaderSpan.n
      BY <2>1, <2>2, WalkFinds
  <2>4. IsLongest(HeaderSpan, InHeader(upto))
    <3>1. InHeader(upto) = {IfdAt(file, upto, o).preview : o \in Reachable(file, upto)} \ {NONE}
        BY DEF InHeader, Told, IfdAt
    <3> QED BY <2>3, <3>1 DEF IsLongest
  <2>5. HeaderSpan \in NamedByTiff(file, 0)
    <3>1. PICK o \in Inside(file, upto) : parse_tiff_ifd(file, o, 0, upto).preview = HeaderSpan
        BY <2>3 DEF IfdAt
    <3>2. PICK r : r = parse_tiff_ifd(file, o, 0, upto)
        OBVIOUS
    <3>4. HasIfd(file, o, upto) /\ r.preview = HeaderSpan /\ 0 \in Nat
        BY <3>1, <3>2 DEF Inside
    <3>6. upto \in Nat /\ 0 \in Nat
        BY <2>1
    <3>7. r.preview # NONE => r.preview \in NamedBy(file, file.ifds[o])
        BY <2>2, <3>2, <3>4, <3>6, ReadingIs
    <3>5. HeaderSpan \in NamedBy(file, file.ifds[o])
        BY <3>4, <3>7
    <3> QED BY <2>2, <2>3, <3>1, <3>5, DirectoryNames DEF Inside
  <2> QED BY <1>2, <2>4, <2>5 DEF Named, upto
<1>3. CASE kind \in {"jpeg", "png"}
  <2>1. PICK goesOn : HeaderSpan = FromSegments(file, Scanned(Header), goesOn)
    <3>1. HeaderSpan \in {find_jpeg_exif_shortcut(file, Scanned(Header)),
                          find_png_exif_shortcut(file, Scanned(Header))}
        BY <1>3 DEF HeaderSpan
    <3> QED BY <3>1, Zenon DEF find_jpeg_exif_shortcut, find_png_exif_shortcut
  <2>2. IsSegmented(file)
      BY <1>3, FileShapes
  <2> QED BY <1>1, <1>3, <2>1, <2>2, SegmentsFind DEF Named
<1>4. CASE kind = "webp"
  <2>1. HeaderSpan = find_webp_exif(file, TailFrom(ExifTail), len)
      BY <1>4 DEF HeaderSpan
  <2>2. IsSegmented(file)
      BY <1>4, FileShapes
  <2>3. TailFrom(ExifTail) \in Nat
      BY <1>4, ReadSizes DEF TailFrom, SatSub
  <2> QED BY <1>4, <2>1, <2>2, <2>3, WebpFinds DEF Named
<1> QED BY <1>2, <1>3, <1>4

\* What a directory read by itself holds.
LEMMA PreviewOfDirectory ==
    ASSUME IsBlock(file), len \in Nat, NEW at, Preview(at) # NONE
    PROVE  /\ at \in DOMAIN file.ifds /\ Preview(at) \in Spans
           /\ Preview(at) \in NamedByTiff(file, 0) \/ InArrays(file.ifds[at])
<1> DEFINE upto == Scanned(at + IfdFetch)
           ifd == parse_tiff_ifd(file, at, at, upto)
<1>1. ifd # NONE /\ Preview(at) = ifd.preview
    BY DEF Preview
<1>2. HasIfd(file, at, upto)
    BY <1>1 DEF parse_tiff_ifd
<1>3. at \in DOMAIN file.ifds /\ at \in Nat
    BY <1>2 DEF HasIfd, IsBlock
<1>4. upto \in Nat
    BY <1>3, ReadSizes DEF Scanned, MinOf
<1> HIDE DEF upto
<1>5. /\ ifd \in Readings
      /\ ~InArrays(file.ifds[at]) => Preview(at) \in NamedBy(file, file.ifds[at])
    BY <1>1, <1>2, <1>3, <1>4, ReadingIs
<1>6. Preview(at) \in Spans
    BY <1>1, <1>5 DEF Readings
<1> QED BY <1>3, <1>5, <1>6, DirectoryNames

\* The spans of the sub-directories that were read by themselves.
LEMMA BySubIfdsAre ==
    ASSUME IsBlock(file), len \in Nat
    PROVE  BySubIfds \subseteq Spans
  BY PreviewOfDirectory DEF BySubIfds, Told

\* The thumbnail of an archive.
LEMMA ArchiveFinds ==
    ASSUME kind = "zip", kind \in Kinds, file \in Files[kind], len \in Nat, known = len,
           Directory # NONE, Extracted # NONE
    PROVE  Extracted \in Named
<1>1. IsArchive(file) /\ TailFrom(ZipWindow) \in Nat
    BY FileShapes, ReadSizes DEF TailFrom, SatSub
<1>2. Thumb = FirstNamed(file.dir, "thumb") /\ Thumb # NONE
    BY DEF Thumb, Directory, Extracted, zip_scan_dir_entry, zip_scan_dir
<1>3. Thumb.at \in Nat
    BY <1>1, <1>2, EntryBegins
<1>4. PICK start \in Nat : \E size : Extracted = zip_extract_from_buffer(Thumb, start, size)
    BY <1>1, <1>2, <1>3 DEF Extracted
<1>5. PICK size : Extracted = zip_extract_from_buffer(Thumb, start, size)
    BY <1>4
<1>6. Extracted \in NamedByZip(file)
    BY <1>1, <1>2, <1>5, EntryIsNamed
<1> QED BY <1>6 DEF Named

\* The cover of an audio file.
LEMMA TagFinds ==
    ASSUME kind = "mp3", kind \in Kinds, file \in Files[kind], len \in Nat, known \in {len, NONE},
           ApicSpan # NONE
    PROVE  ApicSpan \in Named
<1> DEFINE upto == MinOf(AudioRead, len)
<1>1. IsTag(file) /\ ApicSpan = find_id3_apic(file.frames, file.first, upto)
    BY FileShapes DEF ApicSpan
<1>2. upto \in Nat
    BY ReadSizes DEF AudioRead, MinOf
<1>3. Named = {[s EXCEPT !.n = MinOf(@, SatSub(upto, s.off))] : s \in NamedById3(file)}
    BY DEF Named
<1> HIDE DEF upto
<1>4. ApicSpan \in {Cut(s, upto) : s \in NamedById3(file)}
    BY <1>1, <1>2, FramesFind
<1> QED BY <1>3, <1>4 DEF Cut

-----------------------------------------------------------------------------
(* The steps of the cook, for what the shortcuts find.                     *)

\* What is said of an unchanged file does not change.
LEMMA SaidStays ==
    ASSUME UNCHANGED <<kind, file, len>>
    PROVE  /\ kind \in {"tiff", "raw"} => HeaderSpan' = HeaderSpan
           /\ Ifd0' = Ifd0
           /\ \A at : Preview(at)' = Preview(at)
           /\ look.read' = look.read => BySubIfds' = BySubIfds
           /\ look.read' = look.read => ByStrips' = ByStrips
           /\ known' = known => Directory' = Directory
           /\ ((step = "rawdecode" <=> step' = "rawdecode")
               /\ (known' = known \/ (kind \in DOMAIN Tries /\ kind # "mp3"))) => Named' = Named
<1>1. \A n : Scanned(n)' = Scanned(n)
    BY DEF Scanned
<1>2. kind \in {"tiff", "raw"} => HeaderSpan' = HeaderSpan
    BY <1>1 DEF HeaderSpan
<1>3. Ifd0' = Ifd0
    BY <1>1 DEF Ifd0
<1>4. \A at : Preview(at)' = Preview(at)
    BY <1>1 DEF Preview
<1>5. look.read' = look.read => BySubIfds' = BySubIfds
    BY <1>4 DEF BySubIfds
<1>6. known' = known => Directory' = Directory
    BY DEF Directory, TailFrom
<1>12. look.read' = look.read => ByStrips' = ByStrips
    BY DEF ByStrips
<1>7. (kind = "raw" /\ (step = "rawdecode" <=> step' = "rawdecode")) => Displaced' = Displaced
    BY <1>2, <1>4 DEF Displaced
<1>8. ((step = "rawdecode" <=> step' = "rawdecode") /\ known' = known) => Named' = Named
    BY <1>7 DEF Named, AudioRead
<1>9. ((step = "rawdecode" <=> step' = "rawdecode") /\ kind \in DOMAIN Tries /\ kind # "mp3") =>
         Named' = Named
    BY <1>7 DEF Named, Tries
<1> QED BY <1>2, <1>3, <1>4, <1>5, <1>6, <1>8, <1>9, <1>12

LEMMA CandidatesStay ==
    ASSUME UNCHANGED <<kind, file, len>>, kind \in {"tiff", "raw"}, look.read' = look.read,
           step # "rawdecode", step' # "rawdecode"
    PROVE  Candidates' = Candidates
<1>1. \A n : Scanned(n)' = Scanned(n)
    BY DEF Scanned
<1> QED BY <1>1, SaidStays DEF Candidates, InHeader

LEMMA KindIs ==
    ASSUME kind \in Kinds
    PROVE  kind \in {"jpeg", "tiff", "png", "webp", "raw", "zip", "pdf", "mp3"}
  BY ShortcutAssumption DEF Tries

LEMMA Tails ==
    /\ \A a : Head(<<a>>) = a /\ Tail(<<a>>) = <<>> /\ <<a>> # <<>>
    /\ \A a, b : Head(<<a, b>>) = a /\ Tail(<<a, b>>) = <<b>> /\ <<a, b>> # <<>>
    /\ \A a, b, c : Head(<<a, b, c>>) = a /\ Tail(<<a, b, c>>) = <<b, c>> /\ <<a, b, c>> # <<>>
<1>1. \A a : Head(<<a>>) = a /\ Tail(<<a>>) = <<>> /\ <<a>> # <<>>
    OBVIOUS
<1>2. ASSUME NEW a, NEW b
      PROVE  Head(<<a, b>>) = a /\ Tail(<<a, b>>) = <<b>> /\ <<a, b>> # <<>>
    OBVIOUS
<1>3. ASSUME NEW a, NEW b, NEW c
      PROVE  Head(<<a, b, c>>) = a /\ Tail(<<a, b, c>>) = <<b, c>> /\ <<a, b, c>> # <<>>
    OBVIOUS
<1> QED BY <1>1, <1>2, <1>3

\* The first shortcut of a kind, while none was given up.
LEMMA FirstTried ==
    ASSUME kind \in Kinds, tries = Tries[kind]
    PROVE  /\ tries # <<>>
           /\ Head(tries) = "exif" => kind \in {"jpeg", "tiff", "png"}
           /\ \A k \in {"webp", "raw", "zip"} : Head(tries) = k <=> kind = k
           /\ Head(tries) = "audio" <=> kind = "mp3"
           /\ Tail(tries) \in {<<"whole", "progressive">>, <<"whole">>, <<>>}
           /\ kind = "raw" => Tail(tries) = <<>>
<1>1. CASE kind = "jpeg"
  <2>1. tries = <<"exif", "whole", "progressive">>
      BY <1>1 DEF Tries
  <2>2. Head(tries) = "exif" /\ Tail(tries) = <<"whole", "progressive">> /\ tries # <<>>
      BY <2>1, Tails
  <2> QED BY <1>1, <2>2
<1>2. CASE kind \in {"tiff", "png"}
  <2>1. tries = <<"exif", "whole">>
      BY <1>2 DEF Tries
  <2>2. Head(tries) = "exif" /\ Tail(tries) = <<"whole">> /\ tries # <<>>
      BY <2>1, Tails, Zenon
  <2> QED BY <1>2, <2>2
<1>3. CASE kind \in {"webp", "raw", "zip", "pdf", "mp3"}
  <2>1. PICK t \in {"webp", "raw", "zip", "whole", "audio"} :
            /\ tries = <<t>>
            /\ t \in {"webp", "raw", "zip"} => kind = t
            /\ t = "whole" => kind = "pdf"
            /\ t = "audio" => kind = "mp3"
      BY <1>3 DEF Tries
  <2>2. Head(tries) = t /\ Tail(tries) = <<>> /\ tries # <<>>
      BY <2>1, Tails, Zenon
  <2> QED BY <1>3, <2>1, <2>2
<1> QED BY <1>1, <1>2, <1>3, KindIs

\* A shortcut that looks into the file is the first of its kind.
LEMMA LookerIsFirst ==
    ASSUME FileKept, tries # <<>>, Head(tries) \in {"exif", "webp", "raw", "zip", "audio"}
    PROVE  Untried
<1>1. CASE tries \in {<<"whole", "progressive">>, <<"whole">>, <<"progressive">>, <<>>}
    BY <1>1
<1> QED BY <1>1 DEF FileKept

LEMMA FileStays ==
    ASSUME FileKept, UNCHANGED <<kind, tries, file, len>>, known' \in {len, NONE}, Asks',
           IsLook(look') \/ look' = look,
           step' \in Fetching \cup {"progressive", "clear"} =>
               step \in Fetching \cup {"progressive", "clear"},
           step' \in LookSteps => Untried /\ step' \in LooksInto[kind],
           step' \in RawBegins \cup RawFinds => step \in RawBegins \cup RawFinds
    PROVE  FileKept'
  BY DEF FileKept, Untried

\* Steps in which nothing is looked for.
LEMMA NotLooking ==
    ASSUME FileKept',
           step' \in {"failed", "none", "served", "bare", "handoff", "render", "rendered",
                      "measured", "hinted", "nopreview", "previewed"}
    PROVE  LookInv'
  BY DEF LookInv, WindowFixed, NothingFoundYet, SubIfdsFind, RawRendererFinds, SpanIsRight,
     RawBegins, RawFinds

\* Steps of the shortcuts and the renderer before anything was found.
LEMMA NothingYet ==
    ASSUME FileKept', look' = NoLook,
           step' \in RawBegins \cup {"sniff", "shortcut", "decode", "size", "progressive", "clear",
                                   "apic"}
    PROVE  LookInv'
  BY DEF LookInv, WindowFixed, NothingFoundYet, SubIfdsFind, RawRendererFinds, SpanIsRight,
     RawBegins, RawFinds, NoLook

LEMMA LookFacts ==
    ASSUME LookInv
    PROVE  /\ FileKept /\ WindowFixed /\ NothingFoundYet /\ SubIfdsFind /\ RawRendererFinds
           /\ SpanIsRight
           /\ kind \in Kinds /\ len \in Nat /\ known \in {len, NONE}
           /\ look = [span |-> look.span, pending |-> look.pending, read |-> look.read]
  BY DEF LookInv, FileKept, IsLook

\* The first step of a shortcut.
LEMMA TriesLook ==
    ASSUME LookInv, TryWhole \/ TryHeader \/ TryWebp \/ TryZip \/ TryAudio \/ TrySize
    PROVE  LookInv'
<1> USE LookFacts
<1>1. /\ step = "shortcut" /\ UNCHANGED <<kind, tries, file, look, len, known>>
      /\ step' \in {"decode", "header", "directory", "apic", "size"}
      /\ tries # <<>> /\ look = NoLook
  <2>1. CASE TryWhole \/ TryHeader \/ TryWebp \/ TryAudio \/ TrySize
      BY <2>1 DEF TryWhole, TryHeader, TryWebp, TryAudio, TrySize, Try, To, ReadAt, source, data,
         FileKept, Fetching, NothingFoundYet
  <2>2. CASE TryZip
      BY <2>2 DEF TryZip, Try, To, ReadAt, FetchRange, source, data, FileKept, Fetching,
         NothingFoundYet
  <2> QED BY <2>1, <2>2
<1>2. /\ step' = "header" => Head(tries) \in {"exif", "webp", "raw"}
      /\ step' = "directory" => Head(tries) = "zip"
      /\ step' = "apic" => Head(tries) = "audio"
      /\ Head(tries) = "webp" \/ step' = "directory" => known = len
    BY DEF TryWhole, TryHeader, TryWebp, TryZip, TryAudio, TrySize, Try, To
<1>3. step' \in {"header", "directory", "apic"} => Untried /\ step' \in LooksInto[kind]
  <2> SUFFICES ASSUME step' \in {"header", "directory", "apic"}
               PROVE  Untried /\ step' \in LooksInto[kind]
      OBVIOUS
  <2>1. Untried
      BY <1>1, <1>2, LookerIsFirst
  <2>2. /\ step' = "header" => kind \in {"jpeg", "tiff", "png", "webp", "raw"}
        /\ step' = "directory" => kind = "zip"
        /\ step' = "apic" => kind = "mp3"
      BY <1>2, <2>1, FirstTried DEF Untried
  <2> QED BY <2>1, <2>2 DEF LooksInto
<1>4. Asks'
    BY <1>1 DEF Asks, Asking, Fetching
<1>5. step' \in LookSteps => step' \in {"header", "directory", "apic"}
    BY <1>1 DEF LookSteps, LooksInto
<1>6. FileKept'
    BY <1>1, <1>3, <1>4, <1>5, FileStays DEF Fetching, RawBegins, RawFinds
<1>7. CASE step' \in {"decode", "size", "apic"}
    BY <1>1, <1>6, <1>7, NothingYet
<1>8. CASE step' \in {"header", "directory"}
  <2>1. kind = "webp" => Head(tries) = "webp"
      BY <1>3, <1>8, FirstTried DEF Untried
  <2>2. WindowFixed'
      BY <1>1, <1>2, <1>3, <1>8, <2>1, FirstTried DEF WindowFixed, Untried
  <2> QED BY <1>1, <1>6, <1>8, <2>2 DEF LookInv, NothingFoundYet, SubIfdsFind, RawRendererFinds,
             SpanIsRight, RawBegins, RawFinds
<1> QED BY <1>1, <1>7, <1>8

\* A preview that is read where the header, a sub-directory or the next one has it.
LEMMA PreviewLooks ==
    ASSUME LookInv, ReadPreview \/ ReadSubPreview \/ ReadIfd1Preview
    PROVE  LookInv'
<1> USE LookFacts
<1>1. /\ step \in {"header", "subifds", "ifd1"} /\ step' = "preview"
      /\ UNCHANGED <<kind, tries, file, len, known>>
      /\ IsLook(look') /\ look'.read = look.read
      /\ look'.span # NONE
  <2>1. CASE ReadPreview
    <3>1. look' = [span |-> HeaderSpan, pending |-> look.pending, read |-> look.read]
        BY <2>1 DEF ReadPreview, Found
    <3> QED BY <2>1, <3>1 DEF ReadPreview, Found, ReadAt, source, data, IsLook
  <2>2. CASE ReadSubPreview
      BY <2>2 DEF ReadSubPreview, To, ReadAt, source, data, IsLook
  <2>3. CASE ReadIfd1Preview
    <3>1. look' = [span |-> Ifd1Span, pending |-> look.pending, read |-> look.read]
        BY <2>3 DEF ReadIfd1Preview, Found
    <3> QED BY <2>3, <3>1 DEF ReadIfd1Preview, Found, ReadAt, source, data, IsLook
  <2> QED BY <2>1, <2>2, <2>3
<1>2. Asks'
    BY <1>1 DEF Asks, Asking, Fetching
<1>3. Untried /\ kind \in {"jpeg", "tiff", "png", "webp", "raw"} /\ (step # "header" => kind = "raw")
  <2>1. Untried /\ step \in LooksInto[kind]
      BY <1>1 DEF FileKept, LookSteps, LooksInto
  <2> QED BY <1>1, <2>1, KindIs DEF LooksInto
<1>4. FileKept'
  <2>1. step' \in LooksInto[kind]
      BY <1>1, <1>3 DEF LooksInto
  <2> QED BY <1>1, <1>2, <1>3, <2>1, FileStays DEF Fetching, RawBegins, RawFinds
<1>5. /\ look'.span \in Named
      /\ kind \in {"tiff", "raw"} => IsLongest(look'.span, Candidates)
  <2>1. CASE ReadPreview
    <3>1. look'.span = HeaderSpan /\ HeaderSpan # NONE /\ (kind = "webp" => known = len)
        BY <2>1 DEF ReadPreview, Found, WindowFixed
    <3>2. kind \in {"tiff", "raw"} =>
             Candidates = InHeader(Scanned(IF kind = "tiff" THEN Header ELSE RawHeader))
        BY <1>1, <3>1 DEF Candidates
    <3> QED BY <1>3, <3>1, <3>2, HeaderFinds DEF Untried
  <2>2. CASE ReadSubPreview \/ ReadIfd1Preview
    <3>1. kind = "raw" /\ HeaderSpan = NONE /\ IsBlock(file)
        BY <1>3, <2>2, FileShapes DEF ReadSubPreview, ReadIfd1Preview, SubIfdsFind, Untried
    <3>2. /\ IsLongest(look'.span, Candidates)
          /\ \E at : look'.span = Preview(at)
      <4>1. CASE ReadSubPreview
        <5>1. look' = look /\ IsLongest(look.span, BySubIfds) /\ look.span # NONE
            BY <4>1 DEF ReadSubPreview, To, SubIfdsFind
        <5>2. look.span \in BySubIfds
            BY <5>1 DEF IsLongest
        <5>3. Candidates = BySubIfds
            BY <1>1, <3>1, <5>2 DEF Candidates
        <5> QED BY <5>1, <5>2, <5>3 DEF BySubIfds, Told
      <4>2. CASE ReadIfd1Preview
        <5>1. BySubIfds = {} /\ look'.span = Preview(Ifd0.next) /\ Preview(Ifd0.next) # NONE
            BY <4>2 DEF ReadIfd1Preview, Found, SubIfdsFind, IsLongest, Ifd1Span
        <5>2. Candidates = {Preview(Ifd0.next)}
            BY <1>1, <3>1, <5>1 DEF Candidates
        <5>3. look'.span.n \in Nat
            BY <3>1, <5>1, PreviewOfDirectory DEF Spans
        <5> QED BY <1>1, <5>1, <5>2, <5>3 DEF IsLongest
      <4> QED BY <2>2, <4>1, <4>2
    <3>3. PICK at : look'.span = Preview(at)
        BY <3>2
    <3>4. /\ at \in DOMAIN file.ifds
          /\ Preview(at) \in NamedByTiff(file, 0) \/ InArrays(file.ifds[at])
        BY <1>1, <3>1, <3>3, PreviewOfDirectory
    <3>5. InArrays(file.ifds[at]) => Preview(at) \in Displaced
        BY <1>1, <3>1, <3>4 DEF Displaced
    <3>6. look'.span \in NamedByTiff(file, 0) \cup Displaced
        BY <3>3, <3>4, <3>5
    <3> QED BY <3>1, <3>2, <3>6 DEF Named
  <2> QED BY <2>1, <2>2
<1>6. Named' = Named /\ (kind \in {"tiff", "raw"} => Candidates' = Candidates)
    BY <1>1, SaidStays, CandidatesStay
<1>7. SpanIsRight'
    BY <1>1, <1>3, <1>5, <1>6 DEF SpanIsRight, Untried
<1> QED BY <1>1, <1>4, <1>7 DEF LookInv, WindowFixed, NothingFoundYet, SubIfdsFind,
           RawRendererFinds, RawBegins, RawFinds

\* The sub-directories of a raw file, one by one.
LEMMA PendingIs ==
    ASSUME NEW s \in Seq(Nat), NEW S
    PROVE  Kept(s, S) \in Seq(Nat)
  BY KeptIs

LEMMA SubIfdsLook ==
    ASSUME LookInv, SubIfds \/ ReadSubIfd \/ ParseSubIfd \/ ReadIfd1
    PROVE  LookInv'
<1> USE LookFacts
<1>1. /\ step \in {"header", "subifds", "subifd"} /\ step' \in {"subifds", "subifd", "ifd1"}
      /\ UNCHANGED <<kind, tries, file, len, known>>
      /\ step = "header" => kind = "raw"
    BY DEF SubIfds, ReadSubIfd, ParseSubIfd, ReadIfd1, To, ReadAt, vars, source, data
<1>2. Untried /\ kind = "raw" /\ IsBlock(file)
  <2>1. Untried /\ step \in LooksInto[kind]
      BY <1>1 DEF FileKept, LookSteps, LooksInto
  <2>2. kind = "raw"
      BY <1>1, <2>1, KindIs DEF LooksInto
  <2> QED BY <2>1, <2>2, FileShapes DEF Untried
<1>3. Asks'
    BY <1>1, Zenon DEF Asks, Asking, Fetching
<1>4. HeaderSpan' = HeaderSpan /\ Ifd0' = Ifd0
    BY <1>1, <1>2, SaidStays
<1>5. /\ IsLook(look')
      /\ HeaderSpan = NONE
      /\ look'.pending \in Seq(Nat) /\ look'.read \subseteq Nat
      /\ IsLongest(look'.span, BySubIfds')
      /\ step' = "subifd" => look'.pending # <<>>
      /\ step' = "ifd1" => look'.span = NONE /\ Ifd0 # NONE
  <2>1. CASE SubIfds
    <3> DEFINE P == IF Ifd0 = NONE THEN <<>>
                    ELSE Kept(Ifd0.subs, Nat \ 0..(Scanned(RawHeader) - 1))
    <3>1. look = NoLook /\ HeaderSpan = NONE /\ step' = "subifds"
        BY <2>1 DEF SubIfds, NothingFoundYet
    <3>2. P \in Seq(Nat)
      <4>1. Scanned(RawHeader) \in Nat
          BY ReadSizes DEF Scanned, MinOf
      <4>2. Ifd0 # NONE => Ifd0 \in Readings
          BY <1>2, <4>1, ReadingIs DEF Ifd0
      <4>3. Ifd0 # NONE => Ifd0.subs \in Seq(Nat)
          BY <4>2 DEF Readings
      <4> QED BY <4>3, PendingIs
    <3>3. look' = [look EXCEPT !.pending = P]
        BY <2>1 DEF SubIfds
    <3> HIDE DEF P
    <3>4. look' = [span |-> NONE, pending |-> P, read |-> {}]
        BY <3>1, <3>3 DEF NoLook
    <3>5. look'.span = NONE /\ look'.pending = P /\ look'.read = {}
        BY <3>4
    <3>6. BySubIfds' = {}
        BY <3>5 DEF BySubIfds, Told
    <3> QED BY <3>1, <3>2, <3>4, <3>5, <3>6 DEF IsLook, IsLongest
  <2>2. CASE ReadSubIfd \/ ReadIfd1
    <3>1. look' = look /\ step = "subifds"
        BY <2>2 DEF ReadSubIfd, ReadIfd1, To
    <3>2. BySubIfds' = BySubIfds
        BY <1>1, <3>1, SaidStays
    <3>3. /\ step' = "subifd" => look.pending # <<>>
          /\ step' = "ifd1" => look.span = NONE /\ Ifd0 # NONE
        BY <2>2 DEF ReadSubIfd, ReadIfd1, To, Ifd1Beyond
    <3> QED BY <3>1, <3>2, <3>3 DEF SubIfdsFind, IsLook
  <2>3. CASE ParseSubIfd
    <3>0. PICK at : at = Head(look.pending)
        OBVIOUS
    <3> DEFINE best == IF Better(Preview(at), look.span) THEN Preview(at) ELSE look.span
    <3>1. /\ HeaderSpan = NONE /\ look.pending \in Seq(Nat) /\ look.pending # <<>>
          /\ look.read \subseteq Nat /\ IsLongest(look.span, BySubIfds)
          /\ step' = "subifds"
        BY <2>3 DEF ParseSubIfd, SubIfdsFind
    <3>2. at \in Nat /\ Tail(look.pending) \in Seq(Nat)
        BY <3>0, <3>1
    <3>3. look' = [span |-> best, pending |-> Tail(look.pending), read |-> look.read \cup {at}]
      <4>1. ParseSubIfd => look' = [span |-> IF Better(Preview(Head(look.pending)), look.span)
                                            THEN Preview(Head(look.pending)) ELSE look.span,
                                   pending |-> Tail(look.pending),
                                   read |-> look.read \cup {Head(look.pending)}]
          BY Zenon DEF ParseSubIfd
      <4> QED BY <2>3, <3>0, <4>1
    <3>4. Preview(at)' = Preview(at) /\ \A o \in look.read : Preview(o)' = Preview(o)
        BY <1>1, SaidStays
    <3> HIDE DEF best
    <3>7. /\ look'.span = best /\ look'.pending = Tail(look.pending) /\ look'.read = look.read \cup {at}
          /\ IsLook(look')
      <4> DEFINE q == Tail(look.pending)
                 r == look.read \cup {at}
      <4> HIDE DEF q, r
      <4>1. look'.span = best /\ look'.pending = q /\ look'.read = r
          BY <3>3 DEF q, r
      <4>2. look' = [span |-> best, pending |-> q, read |-> r]
          BY <3>3 DEF q, r
      <4>3. IsLook(look')
          BY <4>1, <4>2 DEF IsLook
      <4> QED BY <4>1, <4>3 DEF q, r
    <3>8. BySubIfds' = BySubIfds \cup (IF Preview(at) = NONE THEN {} ELSE {Preview(at)})
        BY <3>4, <3>7 DEF BySubIfds, Told
    <3>9. IsLongest(best, BySubIfds')
      <4>1. CASE Preview(at) = NONE
        <5>1. best = look.span
            BY <4>1 DEF best, Better
        <5> QED BY <3>1, <3>8, <4>1, <5>1
      <4>2. CASE Preview(at) # NONE
        <5>1. Preview(at) \in Spans /\ BySubIfds \subseteq Spans
            BY <1>2, <4>2, PreviewOfDirectory, BySubIfdsAre
        <5> QED BY <3>1, <3>8, <4>2, <5>1, LongestGrows DEF best
      <4> QED BY <4>1, <4>2
    <3> QED BY <3>1, <3>2, <3>7, <3>9
  <2> QED BY <2>1, <2>2, <2>3
<1>6. FileKept'
  <2>1. step' \in LooksInto[kind]
      BY <1>1, <1>2 DEF LooksInto
  <2> QED BY <1>1, <1>2, <1>3, <1>5, <2>1, FileStays DEF Fetching, RawBegins, RawFinds
<1>7. SubIfdsFind'
    BY <1>1, <1>4, <1>5 DEF SubIfdsFind
<1> QED BY <1>1, <1>6, <1>7 DEF LookInv, WindowFixed, NothingFoundYet, RawRendererFinds,
           SpanIsRight, RawBegins, RawFinds

\* The dimensions of the source, which change nothing of what was found.
LEMMA DimsLook ==
    ASSUME LookInv,
           \/ DimsKnown
           \/ \E r \in DimsReads : ReadDims(r[1], r[2])
           \/ \E r \in DimsReads : ReadNoDims(r[1], r[2])
    PROVE  LookInv'
<1> USE LookFacts
<1>1. /\ step = "preview" /\ step' \in {"decode", "none"}
      /\ UNCHANGED <<kind, tries, file, look, len, known>>
    BY DEF DimsKnown, ReadDims, ReadNoDims, To, ReadAt, vars, source, data
<1>2. Asks'
    BY <1>1 DEF Asks, Asking, Fetching
<1>3. FileKept'
    BY <1>1, <1>2, FileStays DEF Fetching, LookSteps, LooksInto, RawBegins, RawFinds
<1>4. CASE step' = "none"
    BY <1>3, <1>4, NotLooking
<1>5. CASE step' = "decode"
  <2>1. look.span # NONE => kind # "mp3" /\ kind \in DOMAIN Tries
      BY <1>1, KindIs DEF SpanIsRight, Tries
  <2>2. look.span # NONE => Named' = Named /\ (kind \in {"tiff", "raw"} => Candidates' = Candidates)
      BY <1>1, <1>5, <2>1, SaidStays, CandidatesStay
  <2>3. SpanIsRight'
      BY <1>1, <1>5, <2>2 DEF SpanIsRight
  <2> QED BY <1>3, <1>5, <2>3 DEF LookInv, WindowFixed, NothingFoundYet, SubIfdsFind,
             RawRendererFinds, RawBegins, RawFinds
<1> QED BY <1>1, <1>4, <1>5

\* The directory of an archive, its local header and the data behind it.
LEMMA ArchiveLooks ==
    ASSUME LookInv, ReadMeta \/ NoMeta \/ ZipInline \/ ReadEntry \/ Extract
    PROVE  LookInv'
<1> USE LookFacts
<1>1. /\ step \in {"directory", "entry", "extract"} /\ step' \in {"entry", "extract", "decode"}
      /\ UNCHANGED <<kind, tries, file, len, known>>
      /\ step' # "decode" => look' = look
      /\ look = NoLook
    BY DEF ReadMeta, NoMeta, ZipInline, ReadEntry, Extract, To, Found, ReadAt, vars, source, data,
       NothingFoundYet
<1>2. Untried /\ kind = "zip" /\ known = len
  <2>1. Untried /\ step \in LooksInto[kind]
      BY <1>1 DEF FileKept, LookSteps, LooksInto
  <2>2. kind = "zip"
      BY <1>1, <2>1, KindIs DEF LooksInto
  <2> QED BY <1>1, <2>1, <2>2 DEF WindowFixed
<1>3. Directory # NONE /\ Directory' = Directory /\ Named' = Named
  <2>1. Directory # NONE
      BY <1>1 DEF ReadMeta, NoMeta, ZipInline, ReadEntry, Extract, WindowFixed
  <2> QED BY <1>1, <2>1, SaidStays
<1>4. Asks'
    BY <1>1 DEF Asks, Asking, Fetching
<1>5. step' = "decode" => /\ look' = [span |-> Extracted, pending |-> <<>>, read |-> {}]
                          /\ Extracted # NONE
    BY <1>1 DEF ReadMeta, NoMeta, ZipInline, ReadEntry, Extract, To, Found, NoLook
<1>6. IsLook(look') \/ look' = look
    BY <1>1, <1>5 DEF IsLook
<1>7. FileKept'
  <2>1. step' \in LookSteps => step' \in LooksInto[kind]
      BY <1>1, <1>2 DEF LookSteps, LooksInto
  <2> QED BY <1>1, <1>2, <1>4, <1>6, <2>1, FileStays DEF Fetching, RawBegins, RawFinds
<1>8. CASE step' = "decode"
  <2>1. look'.span = Extracted /\ Extracted \in Named
      BY <1>2, <1>3, <1>5, <1>8, ArchiveFinds DEF Untried
  <2>2. SpanIsRight'
      BY <1>1, <1>2, <1>3, <1>8, <2>1 DEF SpanIsRight, Untried
  <2> QED BY <1>7, <1>8, <2>2 DEF LookInv, WindowFixed, NothingFoundYet, SubIfdsFind,
             RawRendererFinds, RawBegins, RawFinds
<1>9. CASE step' # "decode"
  <2>1. WindowFixed' /\ NothingFoundYet'
      BY <1>1, <1>2, <1>3, <1>9 DEF WindowFixed, NothingFoundYet, NoLook
  <2> QED BY <1>1, <1>7, <1>9, <2>1 DEF LookInv, SubIfdsFind, RawRendererFinds, SpanIsRight,
             RawBegins, RawFinds
<1> QED BY <1>8, <1>9

\* The cover of an audio file.
LEMMA CoverLooks ==
    ASSUME LookInv, Cover \/ DecodeCover
    PROVE  LookInv'
<1> USE LookFacts
<1>1. UNCHANGED <<kind, tries, file, len, known>>
    BY DEF Cover, DecodeCover, To, Found, close, vars, source, data
<1>2. CASE Cover
  <2>1. /\ step = "apic" /\ step' = "cover" /\ pc' = "closed" /\ ApicSpan # NONE
        /\ look' = [look EXCEPT !.span = ApicSpan] /\ look = NoLook
      BY <1>2 DEF Cover, Found, close, NothingFoundYet
  <2>2. look' = [span |-> ApicSpan, pending |-> <<>>, read |-> {}]
      BY <2>1 DEF NoLook
  <2>3. Untried /\ kind = "mp3"
    <3>1. Untried /\ step \in LooksInto[kind]
        BY <2>1 DEF FileKept, LookSteps, LooksInto
    <3> QED BY <2>1, <3>1, KindIs DEF LooksInto
  <2>4. ApicSpan \in Named /\ Named' = Named
      BY <1>1, <2>1, <2>3, TagFinds, SaidStays DEF Untried
  <2>5. FileKept'
    <3>1. Asks' /\ IsLook(look') /\ step' \in LooksInto[kind]
        BY <2>1, <2>2, <2>3 DEF Asks, IsLook, LooksInto
    <3> QED BY <1>1, <2>1, <2>3, <3>1, FileStays DEF Fetching, RawBegins, RawFinds
  <2>6. SpanIsRight'
      BY <2>1, <2>2, <2>4 DEF SpanIsRight
  <2> QED BY <2>1, <2>5, <2>6 DEF LookInv, WindowFixed, NothingFoundYet, SubIfdsFind,
             RawRendererFinds, RawBegins, RawFinds
<1>3. CASE DecodeCover
  <2>1. step = "cover" /\ step' \in {"served", "bare"} /\ UNCHANGED <<look, pc>>
      BY <1>3 DEF DecodeCover, To, vars, call
  <2>2. Asks'
      BY <2>1 DEF Asks, WindowFixed
  <2>3. FileKept'
      BY <1>1, <2>1, <2>2, FileStays DEF Fetching, LookSteps, LooksInto, RawBegins, RawFinds
  <2> QED BY <2>1, <2>3, NotLooking
<1> QED BY <1>2, <1>3

\* The progressive shortcut looks for nothing.
LEMMA ProgressiveLooks ==
    ASSUME LookInv, TryProgressive \/ ReadProgressive \/ ProgressiveOver \/ ClearEof \/ Decoded
    PROVE  LookInv'
<1> USE LookFacts
<1>1. UNCHANGED <<kind, tries, file, look, len>> /\ known' \in {len, NONE}
  <2>1. CASE TryProgressive \/ ReadProgressive \/ ClearEof \/ Decoded
      BY <2>1 DEF TryProgressive, ReadProgressive, ClearEof, Decoded, Read, set_eof, close, To,
         source, data
  <2>2. CASE ProgressiveOver
      BY <2>2 DEF ProgressiveOver, PastEnd, Return, StreamingEnd, StreamEnd, To, source, data
  <2> QED BY <2>1, <2>2
<1>2. \/ step \in {"size", "progressive", "clear"} /\ step' \in {"progressive", "clear", "decode"}
      \/ step = "decode" /\ step' = "served"
    BY DEF TryProgressive, ReadProgressive, ProgressiveOver, ClearEof, Decoded, To
<1>3. Asks'
  <2>1. CASE TryProgressive \/ ReadProgressive \/ ClearEof \/ Decoded
      BY <2>1 DEF TryProgressive, ReadProgressive, ClearEof, Decoded, To, Read, set_eof, close, call,
         Asks, Asking, Fetching, Idle
  <2>2. CASE ProgressiveOver
    <3>1. pc' = "idle"
        BY <2>2 DEF ProgressiveOver, PastEnd, Return, StreamingEnd, Deliver
    <3> QED BY <3>1 DEF Asks
  <2> QED BY <2>1, <2>2
<1>4. FileKept'
    BY <1>1, <1>2, <1>3, FileStays DEF Fetching, LookSteps, LooksInto, RawBegins, RawFinds
<1>5. CASE step = "decode"
    BY <1>2, <1>4, <1>5, NotLooking
<1>6. CASE step # "decode"
  <2>1. look = NoLook
      BY <1>2, <1>6 DEF NothingFoundYet
  <2> QED BY <1>1, <1>2, <1>4, <1>6, <2>1, NothingYet
<1> QED BY <1>5, <1>6

\* The next shortcut begins, or the renderer, with nothing found.
LEMMA GiveUpLooks ==
    ASSUME LookInv, GiveUp
    PROVE  LookInv'
<1> USE LookFacts
<1>1. /\ step \in Fetching /\ UNCHANGED <<vars, kind>> /\ pc = "idle"
      /\ tries' = Tail(tries)
      /\ step' = IF Tail(tries) # <<>> THEN "shortcut"
                 ELSE IF kind \in {"zip", "mp3"} THEN "handoff"
                 ELSE IF kind = "raw" THEN "raw" ELSE "render"
      /\ file' = IF kind = "raw" THEN file ELSE NONE
      /\ look' = NoLook
    BY DEF GiveUp, NothingFound, Fetching, Idle
<1>2. tries # <<>> /\ (kind = "raw" => Untried)
    BY <1>1 DEF FileKept
<1>3. /\ Tail(tries) \in {<<"whole", "progressive">>, <<"whole">>, <<"progressive">>, <<>>}
      /\ kind = "raw" => Tail(tries) = <<>> /\ file \in Files[kind]
  <2>1. CASE Untried
      BY <2>1, FirstTried DEF Untried
  <2>2. CASE ~Untried
    <3>1. tries \in {<<"whole", "progressive">>, <<"whole">>, <<"progressive">>}
        BY <1>2, <2>2 DEF FileKept
    <3>2. Tail(tries) \in {<<"progressive">>, <<>>}
        BY <3>1, Tails
    <3> QED BY <1>2, <2>2, <3>2
  <2> QED BY <2>1, <2>2
<1>4. UNCHANGED <<len, known, pc, saved>>
    BY <1>1 DEF vars, source, data, call
<1>5. FileKept'
  <2>1. Asks'
      BY <1>1, <1>4 DEF Asks
  <2>2. step' \in {"shortcut", "handoff", "raw", "render"}
      BY <1>1
  <2>3. step' = "shortcut" => tries' # <<>> /\ kind # "raw"
      BY <1>1, <1>3
  <2>4. step' = "raw" => kind = "raw" /\ tries' = <<>> /\ file' \in Files[kind]
      BY <1>1, <1>3
  <2>5. IsLook(look')
      BY <1>1 DEF IsLook, NoLook
  <2> HIDE LookFacts
  <2>6. kind' \in Kinds /\ len' \in Nat /\ known' \in {len', NONE}
      BY <1>1, <1>4, LookFacts
  <2>7. tries' \in {<<"whole", "progressive">>, <<"whole">>, <<"progressive">>, <<>>}
      BY <1>1, <1>3
  <2>8. /\ step' \notin LookSteps
        /\ step' \in Fetching \cup {"progressive", "clear"} => step' = "shortcut"
        /\ step' \in RawBegins \cup RawFinds => step' = "raw"
      BY <2>2 DEF Fetching, LookSteps, LooksInto, RawBegins, RawFinds
  <2>9. kind' = kind
      BY <1>1
  <2> QED BY <2>9, <2>1, <2>3, <2>4, <2>5, <2>6, <2>7, <2>8 DEF FileKept
<1>6. CASE step' \in {"shortcut", "raw"}
    BY <1>1, <1>5, <1>6, NothingYet DEF RawBegins
<1>7. CASE step' \in {"handoff", "render"}
    BY <1>5, <1>7, NotLooking
<1> QED BY <1>1, <1>6, <1>7

\* The renderers of other files look for nothing.
LEMMA RenderLooks ==
    ASSUME LookInv,
           \/ RotationHint \/ RenderSeek \/ RenderMeasure \/ RenderBack \/ Render
           \/ RenderOver \/ RenderOverStreaming
    PROVE  LookInv'
<1> USE LookFacts
<1>1. UNCHANGED <<kind, tries, file, look, len>> /\ known' \in {len, NONE}
  <2>1. CASE RotationHint \/ RenderSeek \/ RenderMeasure \/ RenderBack \/ Render
      BY <2>1 DEF RotationHint, RenderSeek, RenderMeasure, RenderBack, Render, Seek, Read, To,
         source, data
  <2>2. CASE RenderOver
      BY <2>2 DEF RenderOver, PastEnd, CopyPage, Return, To, source, data
  <2>3. CASE RenderOverStreaming
      BY <2>3 DEF RenderOverStreaming, PastEnd, Return, StreamingEnd, StreamEnd, To, source, data
  <2> QED BY <2>1, <2>2, <2>3
<1>2. step' \in {"render", "rendered", "measured", "hinted"}
    BY DEF RotationHint, RenderSeek, RenderMeasure, RenderBack, Render, RenderOver,
       RenderOverStreaming, To
<1>3. Asks'
  <2>1. CASE RotationHint \/ RenderSeek \/ RenderMeasure \/ RenderBack \/ Render
      BY <1>2, <2>1 DEF RotationHint, RenderSeek, RenderMeasure, RenderBack, Render, Seek, Read, To,
         Asks, Asking, Fetching, Idle
  <2>2. CASE RenderOver
    <3>1. pc' = "idle"
      <4>1. step = "render" /\ cursor' = cursor /\ pc \in {"read", "forward", "copy"}
            /\ step' = "rendered"
          BY <2>2 DEF RenderOver, PastEnd, CopyPage, To
      <4>2. saved = NONE
          BY <4>1 DEF FileKept, Asks
      <4>3. \E n, bad : Deliver(n, bad)
          BY <2>2 DEF RenderOver, PastEnd, CopyPage, Return
      <4> QED BY <4>2, <4>3 DEF Deliver
    <3> QED BY <3>1 DEF Asks
  <2>3. CASE RenderOverStreaming
    <3>1. pc' = "idle"
        BY <2>3 DEF RenderOverStreaming, PastEnd, Return, StreamingEnd, Deliver
    <3> QED BY <3>1 DEF Asks
  <2> QED BY <2>1, <2>2, <2>3
<1>4. FileKept'
    BY <1>1, <1>2, <1>3, FileStays DEF Fetching, LookSteps, LooksInto, RawBegins, RawFinds
<1> QED BY <1>2, <1>4, NotLooking

\* The renderer of raw files.
LEMMA RawSeeksLook ==
    ASSUME LookInv, UNCHANGED <<kind, tries, file, look, len, known>>, Asks',
           \/ step \in {"raw", "rawstart"} /\ step' \in {"rawstart", "rawheader"}
           \/ step \in RawFinds /\ step' \in RawFinds
    PROVE  LookInv'
<1> USE LookFacts
<1>1. FileKept'
    BY FileStays DEF Fetching, LookSteps, LooksInto, RawBegins, RawFinds
<1>2. NothingFoundYet' /\ RawRendererFinds'
    BY SaidStays DEF NothingFoundYet, RawRendererFinds, RawBegins, RawFinds, NoLook
<1>3. WindowFixed' /\ SubIfdsFind' /\ SpanIsRight'
    BY DEF WindowFixed, SubIfdsFind, SpanIsRight, RawFinds
<1> QED BY <1>1, <1>2, <1>3 DEF LookInv

\* What may be made of a directory is the directory or nothing.
LEMMA ParsedIs ==
    ASSUME NEW at, NEW n, NEW ifd \in Parsed(at, n)
    PROVE  ifd = NONE \/ (at \in DOMAIN file.ifds /\ ifd = file.ifds[at])
  BY DEF Parsed

\* What the renderer takes for the span of strips.
LEMMA StripIs ==
    ASSUME IsBlock(file), NEW o \in DOMAIN file.ifds, NEW p, p = StripSpan(file.ifds[o]), p # NONE
    PROVE  p \in Spans /\ (p \in NamedByTiff(file, 0) \/ InArrays(file.ifds[o]))
<1> DEFINE ifd == file.ifds[o]
           l == ifd.strips
<1>1. /\ l.off.n \in Nat /\ l.off.v \in Nat /\ l.n.n \in Nat /\ l.n.v \in Nat
    BY DEF IsBlock, Directories, Layouts, Fields
<1>2. p = [off |-> l.off.v, n |-> l.n.v] /\ l.off.n > 0 /\ l.n.n > 0
    BY <1>1 DEF StripSpan, Jpeg
<1>3. p \in Spans
    BY <1>1, <1>2 DEF Spans
<1>4. ASSUME ~InArrays(ifd) PROVE p \in NamedBy(file, ifd)
  <2>1. l.off.n = 1 /\ l.n.n = 1
      BY <1>1, <1>2, <1>4 DEF InArrays
  <2>2. p = [off |-> ValueOf(file, l.off), n |-> ValueOf(file, l.n)]
      BY <1>2, <2>1 DEF ValueOf
  <2> QED BY <1>2, <2>2 DEF NamedBy
<1> QED BY <1>3, <1>4, DirectoryNames

LEMMA RawFindsLook ==
    ASSUME LookInv, RawSubIfds \/ RawParse
    PROVE  LookInv'
<1> USE LookFacts
<1>1. /\ step \in {"rawheader", "rawtable"} /\ step' = "rawsubs" /\ pc' = "idle"
      /\ UNCHANGED <<kind, tries, file, len, known>>
    BY DEF RawSubIfds, RawParse, vars, source, data, call, Idle
<1>2. kind = "raw" /\ file \in Files[kind] /\ IsBlock(file)
  <2>1. kind = "raw" /\ file \in Files[kind]
      BY <1>1 DEF FileKept, RawBegins, RawFinds
  <2> QED BY <2>1, FileShapes
<1>3. /\ IsLook(look')
      /\ look'.read \subseteq DOMAIN file.ifds
      /\ IsLongest(look'.span, ByStrips')
  <2>1. CASE RawSubIfds
    <3>1. PICK ifd \in Parsed(file.first, cursor - file.first) :
              look' = [NoLook EXCEPT !.pending =
                          IF ~file.classic \/ ifd = NONE THEN <<>>
                          ELSE Kept(tiff_u32_values(file, ifd.subs, 0, cursor, MaxSubs),
                                    Nat \ 0..cursor)]
        BY <2>1 DEF RawSubIfds
    <3> DEFINE q == IF ~file.classic \/ ifd = NONE THEN <<>>
                    ELSE Kept(tiff_u32_values(file, ifd.subs, 0, cursor, MaxSubs), Nat \ 0..cursor)
    <3> HIDE DEF q
    <3>3. look' = [span |-> NONE, pending |-> q, read |-> {}]
        BY <3>1 DEF q, NoLook
    <3>4. look'.span = NONE /\ look'.read = {}
        BY <3>3
    <3> QED BY <3>3, <3>4 DEF IsLook, IsLongest, ByStrips, Told
  <2>2. CASE RawParse
    <3>0. PICK at : at = Head(look.pending)
        OBVIOUS
    <3>1. look.read \subseteq DOMAIN file.ifds /\ IsLongest(look.span, ByStrips)
        BY <2>2 DEF RawParse, RawRendererFinds, RawFinds
    <3>11. PICK ifd \in Parsed(at, cursor - at) : \E p :
              /\ p = IF ifd = NONE THEN NONE ELSE StripSpan(ifd)
              /\ look' = [span |-> IF (p # NONE /\ p.n <= MaxPreview) /\ Better(p, look.span)
                                   THEN p ELSE look.span,
                          pending |-> Tail(look.pending),
                          read |-> IF p # NONE /\ p.n <= MaxPreview THEN look.read \cup {at}
                                   ELSE look.read]
      <4>1. \E ifd \in Parsed(Head(look.pending), cursor - Head(look.pending)) : \E p :
              /\ p = IF ifd = NONE THEN NONE ELSE StripSpan(ifd)
              /\ look' = [span |-> IF (p # NONE /\ p.n <= MaxPreview) /\ Better(p, look.span)
                                   THEN p ELSE look.span,
                          pending |-> Tail(look.pending),
                          read |-> IF p # NONE /\ p.n <= MaxPreview
                                   THEN look.read \cup {Head(look.pending)} ELSE look.read]
          BY <2>2, Zenon DEF RawParse
      <4> QED BY <3>0, <4>1
    <3>2. PICK p :
              /\ p = IF ifd = NONE THEN NONE ELSE StripSpan(ifd)
              /\ look' = [span |-> IF (p # NONE /\ p.n <= MaxPreview) /\ Better(p, look.span)
                                   THEN p ELSE look.span,
                          pending |-> Tail(look.pending),
                          read |-> IF p # NONE /\ p.n <= MaxPreview THEN look.read \cup {at}
                                   ELSE look.read]
        BY <3>11, Zenon
    <3> DEFINE fits == p # NONE /\ p.n <= MaxPreview
               span == IF fits /\ Better(p, look.span) THEN p ELSE look.span
               read == IF fits THEN look.read \cup {at} ELSE look.read
               rest == Tail(look.pending)
    <3>3. look' = [span |-> span, pending |-> rest, read |-> read]
        BY <3>2, Zenon
    <3>5. fits => at \in DOMAIN file.ifds /\ p = StripSpan(file.ifds[at]) /\ p \in Spans /\ p # NONE
        BY <1>2, <3>2, <3>11, ParsedIs, StripIs
    <3>6. ByStrips \subseteq Spans
        BY <1>2, <3>1, StripIs DEF ByStrips, Told
    <3>7. read \subseteq DOMAIN file.ifds
        BY <3>1, <3>5
    <3>8. IsLongest(span, Told({StripSpan(file.ifds[o]) : o \in read}))
      <4>1. CASE ~fits
        <5>1. span = look.span /\ read = look.read
            BY <4>1
        <5> QED BY <3>1, <5>1 DEF ByStrips
      <4>2. CASE fits
        <5>1. read = look.read \cup {at} /\ span = IF Better(p, look.span) THEN p ELSE look.span
            BY <4>2
        <5>2. Told({StripSpan(file.ifds[o]) : o \in read}) = ByStrips \cup {p}
            BY <3>5, <4>2, <5>1 DEF ByStrips, Told
        <5>3. p \in Spans /\ p # NONE
            BY <3>5, <4>2
        <5>4. IsLongest(IF Better(p, look.span) THEN p ELSE look.span, ByStrips \cup {p})
            BY <3>1, <3>6, <5>3, LongestGrows
        <5> HIDE DEF span, read
        <5> QED BY <5>1, <5>2, <5>4
      <4> QED BY <4>1, <4>2
    <3> HIDE DEF span, read, rest
    <3>9. look'.span = span /\ look'.pending = rest /\ look'.read = read
        BY <3>3
    <3>10. IsLook(look')
        BY <3>3, <3>9 DEF IsLook
    <3>12. ByStrips' = Told({StripSpan(file.ifds[o]) : o \in read})
        BY <1>1, <3>9 DEF ByStrips
    <3> QED BY <3>7, <3>8, <3>9, <3>10, <3>12
  <2> QED BY <2>1, <2>2
<1>4. FileKept'
  <2>1. Asks'
      BY <1>1 DEF Asks
  <2> QED BY <1>1, <1>3, <2>1, FileStays DEF Fetching, LookSteps, LooksInto, RawBegins, RawFinds
<1>5. RawRendererFinds'
    BY <1>1, <1>3 DEF RawRendererFinds
<1> QED BY <1>1, <1>4, <1>5 DEF LookInv, WindowFixed, NothingFoundYet, SubIfdsFind, SpanIsRight,
           RawBegins, RawFinds

LEMMA RawLooks ==
    ASSUME LookInv, RawStep \/ RawOver
    PROVE  LookInv'
<1> USE LookFacts
<1>1. ASSUME NEW o, NEW s, RawSeek(o, s) PROVE /\ step' = s /\ pc' = "idle"
                                              /\ UNCHANGED <<kind, tries, file, look, len, known>>
    BY <1>1 DEF RawSeek, Seek, To, source, data, Idle
<1>2. ASSUME NEW n, NEW s, RawRead(n, s) PROVE /\ step' = s /\ saved' = NONE
                                              /\ UNCHANGED <<kind, tries, file, look, len, known>>
    BY <1>2 DEF RawRead, Read, To, source, data
<1>3. CASE RawSubIfds \/ RawParse
    BY <1>3, RawFindsLook
<1>4. CASE step = "raw" /\ RawSeek(0, "rawstart")
  <2>1. Asks'
      BY <1>1, <1>4 DEF Asks
  <2> QED BY <1>1, <1>4, <2>1, RawSeeksLook
<1>5. CASE step = "rawstart" /\ RawRead(RawHeader, "rawheader")
  <2>1. Asks'
      BY <1>2, <1>5 DEF Asks, Asking
  <2> QED BY <1>2, <1>5, <2>1, RawSeeksLook
<1>6. CASE step = "rawsubs" /\ look.pending # <<>> /\ RawSeek(Head(look.pending), "rawsub")
  <2>1. Asks'
      BY <1>1, <1>6 DEF Asks
  <2> QED BY <1>1, <1>6, <2>1, RawSeeksLook DEF RawFinds
<1>7. CASE step = "rawsub" /\ RawRead(IfdFetch, "rawtable")
  <2>1. Asks'
      BY <1>2, <1>7 DEF Asks, Asking
  <2> QED BY <1>2, <1>7, <2>1, RawSeeksLook DEF RawFinds
<1>8. CASE step = "rawsubs" /\ RawSeek(look.span.off, "rawjpeg")
  <2>1. Asks'
      BY <1>1, <1>8 DEF Asks
  <2> QED BY <1>1, <1>8, <2>1, RawSeeksLook DEF RawFinds
<1>9. CASE step = "rawjpeg" /\ RawRead(SpanEnd - cursor, "rawjpeg")
  <2>1. Asks'
      BY <1>2, <1>9 DEF Asks, Asking
  <2> QED BY <1>2, <1>9, <2>1, RawSeeksLook DEF RawFinds
<1>10. CASE RawOver
  <2>1. /\ step \in RawFinds /\ step' \in {"nopreview", "previewed"} /\ pc' = "idle"
        /\ UNCHANGED <<kind, tries, len, known>> /\ look' = NoLook
      BY <1>10 DEF RawOver, RawFinds, vars, source, data, call, Idle
  <2>2. tries = <<>> /\ Asks' /\ IsLook(look')
      BY <2>1 DEF FileKept, Asks, IsLook, NoLook
  <2>3. FileKept'
      BY <2>1, <2>2 DEF FileKept, Fetching, LookSteps, LooksInto, RawBegins, RawFinds
  <2> QED BY <2>1, <2>3, NotLooking
<1> QED BY <1>3, <1>4, <1>5, <1>6, <1>7, <1>8, <1>9, <1>10, Zenon DEF RawStep

\* A call that goes on or that fails.
LEMMA AnsweredLooks ==
    ASSUME LookInv, Answered
    PROVE  LookInv'
<1> USE LookFacts
<1>1. UNCHANGED <<kind, tries, file, look, len>> /\ (known' = known \/ (known = NONE /\ known' = len))
  <2>1. ASSUME NEW n, ForwardChunk(n) \/ StreamChunk(n)
        PROVE  len' = len /\ known' = known
      BY <2>1 DEF ForwardChunk, StreamChunk, source
  <2>2. ASSUME NEW n, NEW a, TailAnswer(a, n) \/ RangeDone(a, n)
        PROVE  len' = len /\ known' = known
      BY <2>2 DEF TailAnswer, RangeDone, source
  <2>3. CASE CopyPage \/ StreamingPage \/ StreamingChunk \/ PastEnd
      BY <2>3, AnsweredSteps DEF CopyPage, StreamingPage, StreamingChunk, PastEnd, Return, source, data
  <2>4. CASE StartTail \/ StartForward \/ StartStreamingTail \/ StartStream
      BY <2>4, AnsweredSteps DEF StartTail, StartForward, StartStreamingTail, StartStream, Goto,
         source, data
  <2>5. CASE ForwardEnd
      BY <2>5, AnsweredSteps DEF ForwardEnd, StreamEnd, source
  <2> QED BY <2>1, <2>2, <2>3, <2>4, <2>5, AnsweredSteps
<1>2. /\ \/ step' = step
         \/ step = "sniff" /\ step' = "shortcut"
         \/ step = "rawjpeg" /\ step' = "rawdecode"
      /\ pc' # "idle" => step' = step
    BY Zenon DEF Answered
<1>3. /\ pc \in Running \cup {"range"}
      /\ pc' # "idle" => saved' = saved \/ saved' = NONE
    BY AnsweredIsCallStep DEF CallStep, Deliver
<1>4. Asks' /\ step \in Asking
    BY <1>2, <1>3 DEF FileKept, Asks, Running
<1>5. FileKept'
    BY <1>1, <1>2, <1>4, FileStays DEF FileKept, Fetching, LookSteps, LooksInto, RawBegins, RawFinds
<1>6. CASE step = "sniff" /\ step' = "shortcut"
  <2>1. look' = NoLook
      BY <1>1, <1>6 DEF NothingFoundYet
  <2> QED BY <1>5, <1>6, <2>1, NothingYet
<1>7. CASE step = "rawjpeg" /\ step' = "rawdecode"
  <2>1. RawRendererFinds'
      BY <1>1, <1>7, SaidStays DEF RawRendererFinds, RawFinds
  <2> QED BY <1>5, <1>7, <2>1 DEF LookInv, WindowFixed, NothingFoundYet, SubIfdsFind, SpanIsRight,
             RawBegins, RawFinds
<1>8. CASE step' = step
  <2>1. NothingFoundYet' /\ RawRendererFinds'
      BY <1>1, <1>8, SaidStays DEF NothingFoundYet, RawRendererFinds
  <2>2. step # "cover"
      BY <1>3 DEF WindowFixed, Running
  <2>3. WindowFixed'
    <3>1. known # NONE => known' = known
        BY <1>1
    <3>2. step \in {"entry", "extract"} => kind = "zip"
        BY KindIs DEF FileKept, LookSteps, LooksInto
    <3>3. step \in {"entry", "extract"} => known # NONE /\ Directory # NONE
        BY <3>2, BufferAssumption DEF WindowFixed
    <3>4. (step \in {"header", "directory", "entry", "extract"} /\ kind \in {"webp", "zip"}) => known' = len'
        BY <1>1, <3>1 DEF WindowFixed
    <3>5. step \in {"entry", "extract"} => Directory' # NONE
        BY <1>1, <3>1, <3>3, SaidStays
    <3> QED BY <1>1, <1>8, <2>2, <3>4, <3>5 DEF WindowFixed
  <2>4. SubIfdsFind'
    <3>1. step \in {"subifds", "subifd", "ifd1"} => kind = "raw"
        BY KindIs DEF FileKept, LookSteps, LooksInto
    <3>2. kind = "raw" => HeaderSpan' = HeaderSpan /\ Ifd0' = Ifd0 /\ BySubIfds' = BySubIfds
        BY <1>1, SaidStays
    <3> QED BY <1>1, <1>8, <3>1, <3>2 DEF SubIfdsFind
  <2>5. SpanIsRight'
    <3>1. (step \in {"preview", "decode"} /\ look.span # NONE) => Named' = Named
      <4>1. kind \in DOMAIN Tries
          BY KindIs DEF Tries
      <4> QED BY <1>1, <1>8, <4>1, SaidStays DEF SpanIsRight
    <3>2. (step \in {"preview", "decode"} /\ kind \in {"tiff", "raw"}) => Candidates' = Candidates
        BY <1>1, <1>8, CandidatesStay
    <3> QED BY <1>1, <1>8, <2>2, <3>1, <3>2 DEF SpanIsRight
  <2> QED BY <1>5, <2>1, <2>3, <2>4, <2>5 DEF LookInv
<1> QED BY <1>2, <1>6, <1>7, <1>8

LEMMA FailuresLook ==
    ASSUME LookInv, ReadFailed
    PROVE  LookInv'
<1> USE LookFacts
<1>1. /\ pc' = "idle" /\ pc # "idle" /\ pc # "closed"
      /\ UNCHANGED <<kind, tries, file, len, known>>
  <2>1. Fail /\ pc # "idle" /\ pc # "closed" /\ UNCHANGED <<kind, tries, file>>
      BY DEF ReadFailed, NetworkError, SeekBehindStream, Looking
  <2> QED BY <2>1 DEF Fail, source, data
<1>2. Asks' /\ step \in Asking
    BY <1>1 DEF Asks, FileKept
<1>3. \/ step' \in {"failed", "none"} /\ look' = look
      \/ step' = step /\ step \in {"entry", "rawheader", "rawtable", "hinted"} /\ look' = look
      \/ step = "rawjpeg" /\ step' = "rawdecode" /\ look' = look
      \/ step = "subifd" /\ step' = "subifds" /\ look' = [look EXCEPT !.pending = Tail(@)]
    BY DEF ReadFailed, AfterFailure
<1>4. step' = "none" => step \in Fetching \cup {"progressive", "clear"}
    BY <1>2 DEF ReadFailed, AfterFailure, Asking
<1>5. CASE step' \in {"failed", "none"} /\ look' = look
  <2>1. FileKept'
      BY <1>1, <1>2, <1>4, <1>5, FileStays DEF Fetching, LookSteps, LooksInto, RawBegins, RawFinds
  <2> QED BY <1>5, <2>1, NotLooking
<1>6. CASE look' = look /\ \/ step' = step /\ step \in {"entry", "rawheader", "rawtable", "hinted"}
                           \/ step = "rawjpeg" /\ step' = "rawdecode"
  <2>1. FileKept'
      BY <1>1, <1>2, <1>6, FileStays DEF FileKept, Fetching, LookSteps, LooksInto, RawBegins, RawFinds
  <2>2. WindowFixed'
      BY <1>1, <1>6, SaidStays DEF WindowFixed
  <2>3. NothingFoundYet' /\ RawRendererFinds'
      BY <1>1, <1>6, SaidStays DEF NothingFoundYet, RawRendererFinds, RawBegins, RawFinds
  <2> QED BY <1>6, <2>1, <2>2, <2>3 DEF LookInv, SubIfdsFind, SpanIsRight
<1>7. CASE step = "subifd" /\ step' = "subifds" /\ look' = [look EXCEPT !.pending = Tail(@)]
  <2>1. look' = [span |-> look.span, pending |-> Tail(look.pending), read |-> look.read]
      BY <1>7
  <2>2. Untried /\ kind = "raw"
    <3>1. Untried /\ step \in LooksInto[kind]
        BY <1>7 DEF FileKept, LookSteps, LooksInto
    <3> QED BY <1>7, <3>1, KindIs DEF LooksInto
  <2>3. FileKept'
    <3>1. step' \in LooksInto[kind] /\ IsLook(look')
        BY <1>7, <2>1, <2>2 DEF LooksInto, IsLook
    <3> QED BY <1>1, <1>2, <1>7, <2>2, <3>1, FileStays DEF Fetching, RawBegins, RawFinds
  <2>4. HeaderSpan' = HeaderSpan /\ BySubIfds' = BySubIfds
      BY <1>1, <2>1, <2>2, SaidStays
  <2>5. look.pending \in Seq(Nat) /\ look.pending # <<>>
      BY <1>7 DEF SubIfdsFind
  <2>6. Tail(look.pending) \in Seq(Nat)
      BY <2>5
  <2>7. SubIfdsFind'
      BY <1>1, <1>7, <2>1, <2>4, <2>6 DEF SubIfdsFind
  <2> QED BY <1>7, <2>3, <2>7 DEF LookInv, WindowFixed, NothingFoundYet, RawRendererFinds,
             SpanIsRight, RawBegins, RawFinds
<1> QED BY <1>3, <1>5, <1>6, <1>7

LEMMA LookBegins ==
    ASSUME CookInit
    PROVE  LookInv
<1>1. /\ kind \in Kinds /\ tries = Tries[kind] /\ file \in Files[kind] /\ step = "sniff"
      /\ look = [span |-> NONE, pending |-> <<>>, read |-> {}]
      /\ len \in Nat /\ known \in {len, NONE}
    BY BufferAssumption DEF CookInit, Init, NoLook
<1>2. Untried /\ tries # <<>> /\ IsLook(look) /\ look = NoLook
    BY <1>1, FirstTried DEF Untried, IsLook, NoLook
<1>3. FileKept
    BY <1>1, <1>2 DEF FileKept, Asks, Asking, Fetching, LookSteps, LooksInto, RawBegins, RawFinds
<1> QED BY <1>1, <1>2, <1>3 DEF LookInv, WindowFixed, NothingFoundYet, SubIfdsFind,
           RawRendererFinds, SpanIsRight, RawFinds

LEMMA LookStutters ==
    ASSUME LookInv, UNCHANGED allvars
    PROVE  LookInv'
<1> USE LookFacts
<1>1. UNCHANGED <<kind, tries, step, file, look, len, known, pc, saved>>
    BY DEF allvars, vars, cookvars, source, data, call
<1>2. FileKept' /\ NothingFoundYet' /\ RawRendererFinds'
    BY <1>1, SaidStays DEF FileKept, Untried, Asks, NothingFoundYet, RawRendererFinds
<1>3. WindowFixed'
    BY <1>1, SaidStays DEF WindowFixed
<1>4. SubIfdsFind'
  <2>1. step \in {"subifds", "subifd", "ifd1"} => kind = "raw"
      BY KindIs DEF FileKept, LookSteps, LooksInto
  <2> QED BY <1>1, <2>1, SaidStays DEF SubIfdsFind
<1>5. SpanIsRight'
  <2>1. step \in {"preview", "decode"} /\ kind \in {"tiff", "raw"} => Candidates' = Candidates
      BY <1>1, CandidatesStay
  <2> QED BY <1>1, <2>1, SaidStays DEF SpanIsRight
<1> QED BY <1>2, <1>3, <1>4, <1>5 DEF LookInv

LEMMA LookGoesOn ==
    ASSUME LookInv, [CookNext]_allvars
    PROVE  LookInv'
<1>1. CASE TryWhole \/ TryHeader \/ TryWebp \/ TryZip \/ TryAudio \/ TrySize
    BY <1>1, TriesLook
<1>2. CASE ReadPreview \/ ReadSubPreview \/ ReadIfd1Preview
    BY <1>2, PreviewLooks
<1>3. CASE SubIfds \/ ReadSubIfd \/ ParseSubIfd \/ ReadIfd1
    BY <1>3, SubIfdsLook
<1>4. CASE \/ DimsKnown
           \/ \E r \in DimsReads : ReadDims(r[1], r[2])
           \/ \E r \in DimsReads : ReadNoDims(r[1], r[2])
    BY <1>4, DimsLook
<1>5. CASE ReadMeta \/ NoMeta \/ ZipInline \/ ReadEntry \/ Extract
    BY <1>5, ArchiveLooks
<1>6. CASE Cover \/ DecodeCover
    BY <1>6, CoverLooks
<1>7. CASE TryProgressive \/ ReadProgressive \/ ProgressiveOver \/ ClearEof \/ Decoded
    BY <1>7, ProgressiveLooks
<1>8. CASE GiveUp
    BY <1>8, GiveUpLooks
<1>9. CASE \/ RotationHint \/ RenderSeek \/ RenderMeasure \/ RenderBack \/ Render
           \/ RenderOver \/ RenderOverStreaming
    BY <1>9, RenderLooks
<1>10. CASE RawStep \/ RawOver
    BY <1>10, RawLooks
<1>11. CASE Answered
    BY <1>11, AnsweredLooks
<1>12. CASE ReadFailed
    BY <1>12, FailuresLook
<1>13. CASE UNCHANGED allvars
    BY <1>13, LookStutters
<1> QED
  BY <1>1, <1>2, <1>3, <1>4, <1>5, <1>6, <1>7, <1>8, <1>9, <1>10, <1>11, <1>12, <1>13, Zenon
     DEF CookNext

(* The inductive invariant of what the shortcuts find holds, whatever the  *)
(* files contain, links that go round and fields that point anywhere       *)
(* included, whatever Range requests answer and whichever reads fail.      *)
THEOREM LooksInvariant == ThumbSpec => []LookInv
<1>1. ThumbInit => LookInv
    BY LookBegins DEF ThumbInit
<1>2. LookInv /\ [ThumbNext]_thumbvars => LookInv'
  <2> SUFFICES ASSUME LookInv, [ThumbNext]_thumbvars PROVE LookInv'
      OBVIOUS
  <2>1. [CookNext]_allvars
      BY DEF ThumbNext, thumbvars, DeliverShortcut, DeliverRendered
  <2> QED BY <2>1, LookGoesOn
<1> QED BY <1>1, <1>2, PTL DEF ThumbSpec

(* A TIFF or raw file is served with the longest preview the scanned       *)
(* header tells of, its links followed as far as directories and fields    *)
(* lie inside it and MaxSubs allows; without one, with the longest the     *)
(* directories read by themselves tell of; and the renderer with the       *)
(* longest it has read.                                                    *)
THEOREM ServesLongest == ThumbSpec => []PreviewIsLongest
<1>1. LookInv => PreviewIsLongest
  <2> SUFFICES ASSUME LookInv, kind \in {"tiff", "raw"}, look.span # NONE,
                      step \in {"preview", "decode", "rawdecode"}
               PROVE  IsLongest(look.span, Candidates)
      BY DEF PreviewIsLongest
  <2>1. CASE step = "rawdecode"
      BY <2>1, LookFacts DEF RawRendererFinds, RawFinds, Candidates
  <2>2. CASE step \in {"preview", "decode"}
      BY <2>2, LookFacts DEF SpanIsRight
  <2> QED BY <2>1, <2>2
<1> QED BY <1>1, LooksInvariant, PTL

(* What is decoded as the thumbnail of a container are bytes that the file *)
(* names as one: a preview of its directories, the thumbnail in Exif data  *)
(* before the image, the picture of a tag, the thumbnail of an archive.    *)
(* Only a directory of a raw file that was read by itself and has its      *)
(* strips or tiles in arrays may be taken for another one.                 *)
THEOREM DecodesNamed == ThumbSpec => []DecodesNamedBytes
<1>1. LookInv => DecodesNamedBytes
  <2> SUFFICES ASSUME LookInv, step \in {"decode", "cover", "rawdecode"}, look.span # NONE
               PROVE  look.span \in Named
      BY DEF DecodesNamedBytes
  <2>1. CASE step \in {"decode", "cover"}
      BY <2>1, LookFacts DEF SpanIsRight
  <2>2. CASE step = "rawdecode"
    <3>1. kind = "raw" /\ file \in Files[kind]
        BY <2>2, LookFacts DEF FileKept, RawFinds
    <3>2. IsBlock(file) /\ look.read \subseteq DOMAIN file.ifds /\ look.span \in ByStrips
        BY <2>2, <3>1, LookFacts, FileShapes DEF RawRendererFinds, RawFinds, IsLongest
    <3>3. PICK o \in look.read : look.span = StripSpan(file.ifds[o])
        BY <3>2 DEF ByStrips, Told
    <3>4. look.span \in NamedByTiff(file, 0) \/ InArrays(file.ifds[o])
        BY <3>2, <3>3, StripIs
    <3>5. InArrays(file.ifds[o]) => look.span \in Displaced
        BY <2>2, <3>2, <3>3 DEF Displaced
    <3> QED BY <3>1, <3>4, <3>5 DEF Named
  <2> QED BY <2>1, <2>2
<1> QED BY <1>1, LooksInvariant, PTL

-----------------------------------------------------------------------------
(* What deliver makes of an image it is given.                             *)
LEMMA PlacesOne ==
    ASSUME Canonical, NEW transparent \in BOOLEAN, NEW pixel_art \in BOOLEAN,
           NEW d \in Sizes, NEW g \in Sizes, TrueTo(g, d), NEW lost \in {0, 1},
           NEW f \in fit_to_target(g, transparent, pixel_art),
           NEW scaled, scaled = IF f.plan.clamped THEN f.plan.crop ELSE f.plan.resize
    PROVE  /\ f.content.w \in MinW..TargetW /\ f.content.h \in MinH..TargetH
           /\ f.window.x + f.window.w <= g.w /\ f.window.y + f.window.h <= g.h
           /\ (g.w + lost >= 250 /\ g.h >= 200) =>
                 f.window.w + lost >= scaled.w /\ f.window.h + lost >= scaled.h
           /\ ~f.plan.clamped =>
                 2 * Distance(f.plan.resize.w * d.h, f.plan.resize.h * d.w) <= 5 * Most(d.w, d.h)
<1>1. /\ f.content.w \in 1..TargetW /\ f.content.h \in 1..TargetH
      /\ f.window.x + f.window.w <= g.w /\ f.window.y + f.window.h <= g.h
    BY FitsCanvas
<1>2. f.content.w >= MinW /\ f.content.h >= MinH
    BY MinimalPart
<1>3. f.content.w \in MinW..TargetW /\ f.content.h \in MinH..TargetH
    BY <1>1, <1>2, Canvas
<1>4. (g.w + lost >= 250 /\ g.h >= 200) =>
          f.window.w + lost >= scaled.w /\ f.window.h + lost >= scaled.h
    BY NotScaledUp
<1>5. ~f.plan.clamped =>
          2 * Distance(f.plan.resize.w * d.h, f.plan.resize.h * d.w) <= 5 * Most(d.w, d.h)
  <2>1. PICK p \in Plans(g, transparent) : \E v \in Windows(g, p) :
            f = [plan |-> p, window |-> v, content |-> IF Skipped(g, p, pixel_art) THEN g ELSE p.crop]
      BY DEF fit_to_target
  <2>2. f.plan = p
      BY <2>1
  <2>3. (p \in Wide(g) \/ p \in Tall(g)) => p.clamped
      BY DEF Wide, Tall
  <2>4. ~p.clamped => Skew(p.resize, d, 5)
      BY <2>3, PlanIs, KeepsProportion
  <2> QED BY <2>2, <2>4 DEF Skew
<1> QED BY <1>1, <1>3, <1>4, <1>5

Ends == {"served", "rendered", "previewed"}

LEMMA DeliverIs ==
    ASSUME NEW decoded, NEW given, NEW turned, deliver(decoded, given, turned)
    PROVE  /\ image'.decoded = decoded /\ image'.given = given /\ image'.turned = turned
           /\ \E transparent, pixel_art \in BOOLEAN :
                 image'.fit \in fit_to_target(given, transparent, pixel_art)
<1>1. IsPixelArt(given) \in BOOLEAN
    BY DEF IsPixelArt
<1>2. PICK transparent \in BOOLEAN : \E fit \in fit_to_target(given, transparent, IsPixelArt(given)) :
          image' = [decoded |-> decoded, given |-> given, turned |-> turned, fit |-> fit]
    BY Zenon DEF deliver
<1>3. PICK fit \in fit_to_target(given, transparent, IsPixelArt(given)) :
          image' = [decoded |-> decoded, given |-> given, turned |-> turned, fit |-> fit]
    BY <1>2
<1>4. /\ image'.decoded = decoded /\ image'.given = given /\ image'.turned = turned
      /\ image'.fit \in fit_to_target(given, transparent, IsPixelArt(given))
    BY <1>3
<1> QED BY <1>1, <1>4

LEMMA SizeIs ==
    ASSUME kind \in Kinds, NEW d \in Decodes[kind]
    PROVE  Size(d[1], d[2]) \in Sizes /\ Size(d[2], d[1]) \in Sizes
<1>1. d \in (Nat \ {0}) \X (Nat \ {0})
    BY ThumbnailAssumption
<1> QED BY <1>1 DEF Size, Sizes

\* A delivery leaves the cook where it is.
LEMMA DeliveryPlaces ==
    ASSUME Canonical, NEW decoded \in Sizes, NEW given \in Sizes, NEW turned \in BOOLEAN,
           TrueTo(given, decoded), UNCHANGED <<step, kind>>, step \in Ends,
           NEW lost \in {0, 1}, lost = IF TierTwo THEN 1 ELSE 0,
           (decoded.w >= 250 /\ decoded.h >= 200 /\ ~turned) =>
               given.w + lost >= 250 /\ given.h >= 200,
           deliver(decoded, given, turned)
    PROVE  DeliveredLast'
<1>1. PICK transparent, pixel_art \in BOOLEAN :
          image'.fit \in fit_to_target(given, transparent, pixel_art)
    BY DeliverIs
<1>2. image'.decoded = decoded /\ image'.given = given /\ image'.turned = turned
    BY DeliverIs
<1>3. lost = IF TierTwo' THEN 1 ELSE 0
    BY DEF TierTwo
<1> DEFINE f == image'.fit
           scaled == IF f.plan.clamped THEN f.plan.crop ELSE f.plan.resize
<1>4. /\ f.content.w \in MinW..TargetW /\ f.content.h \in MinH..TargetH
      /\ f.window.x + f.window.w <= given.w /\ f.window.y + f.window.h <= given.h
      /\ (given.w + lost >= 250 /\ given.h >= 200) =>
            f.window.w + lost >= scaled.w /\ f.window.h + lost >= scaled.h
      /\ ~f.plan.clamped =>
            2 * Distance(f.plan.resize.w * decoded.h, f.plan.resize.h * decoded.w)
                <= 5 * Most(decoded.w, decoded.h)
  <2> HIDE DEF f
  <2>1. f \in fit_to_target(given, transparent, pixel_art)
      BY <1>1 DEF f
  <2> QED BY <2>1, PlacesOne
<1> HIDE DEF scaled
<1>5. OnCanvas(image.fit)'
    BY <1>2, <1>4 DEF OnCanvas
<1>6. LosesNoDetail(image.fit)'
    BY <1>2, <1>3, <1>4 DEF LosesNoDetail, Canonical, scaled
<1> QED BY <1>5, <1>6 DEF DeliveredLast, ThumbnailPlaced, Ends

LEMMA DeliveriesPlace ==
    ASSUME Canonical, kind \in Kinds, DeliverShortcut \/ DeliverRendered
    PROVE  DeliveredLast'
<1>1. step \in Ends /\ UNCHANGED <<step, kind>>
    BY DEF DeliverShortcut, DeliverRendered, allvars, cookvars, Ends
<1>2. CASE DeliverShortcut
  <2>1. PICK d \in Decodes[kind] : \E s \in pre_scale_to_target(Size(d[1], d[2])) :
            deliver(Size(d[1], d[2]), s, FALSE)
      BY <1>2, Zenon DEF DeliverShortcut
  <2> DEFINE e == Size(d[1], d[2])
  <2>2. PICK s \in pre_scale_to_target(e) : deliver(e, s, FALSE)
      BY <2>1
  <2>3. e \in Sizes
      BY SizeIs
  <2>4. ~TierTwo
      BY <1>2 DEF DeliverShortcut, TierTwo
  <2> HIDE DEF e
  <2>5. s \in Sizes /\ TrueTo(s, e)
      BY <2>3, KeptByShortcut
  <2>6. (e.w >= 250 /\ e.h >= 200) => s.w + 0 >= 250 /\ s.h >= 200
      BY <2>3, <2>5, PreScaleCovers DEF Canonical, Sizes
  <2> QED BY <1>1, <2>2, <2>3, <2>4, <2>5, <2>6, DeliveryPlaces
<1>3. CASE DeliverRendered
  <2>1. PICK d \in Decodes[kind] :
          LET s == Size(d[1], d[2]) IN
          \/ kind = "pdf" /\ deliver(s, s, FALSE)
          \/ TierTwo /\ ~Libav /\ \E given \in pre_scale(s) : deliver(s, given, FALSE)
          \/ Libav /\ \E given \in decode_with_libav(s, FALSE) : deliver(s, given, FALSE)
          \/ Libav /\ \E given \in decode_with_libav(s, TRUE) :
                         deliver(Size(s.h, s.w), given, TRUE)
      BY <1>3, Zenon DEF DeliverRendered
  <2> DEFINE s == Size(d[1], d[2])
  <2>2. s \in Sizes /\ Size(s.h, s.w) \in Sizes
      BY SizeIs DEF Size
  <2>3. \/ kind = "pdf" /\ deliver(s, s, FALSE)
        \/ TierTwo /\ ~Libav /\ \E given \in pre_scale(s) : deliver(s, given, FALSE)
        \/ Libav /\ \E given \in decode_with_libav(s, FALSE) : deliver(s, given, FALSE)
        \/ Libav /\ \E given \in decode_with_libav(s, TRUE) : deliver(Size(s.h, s.w), given, TRUE)
      BY <2>1
  <2> HIDE DEF s
  <2>4. CASE kind = "pdf" /\ deliver(s, s, FALSE)
    <3>1. ~TierTwo
        BY <2>4 DEF TierTwo
    <3>2. (s.w >= 250 /\ s.h >= 200) => s.w + 0 >= 250 /\ s.h >= 200
        BY <2>2 DEF Sizes
    <3> QED BY <1>1, <2>2, <2>4, <3>1, <3>2, DeliveryPlaces DEF TrueTo
  <2>5. CASE TierTwo /\ \E given \in pre_scale(s) : deliver(s, given, FALSE)
    <3>1. PICK given \in pre_scale(s) : deliver(s, given, FALSE)
        BY <2>5
    <3>2. given \in Sizes /\ TrueTo(given, s) /\ given.w >= 249 /\ given.h >= 200
        BY <2>2, KeptByTierTwo
    <3>3. given.w + 1 >= 250
        BY <3>2 DEF Sizes
    <3> QED BY <1>1, <2>2, <2>5, <3>1, <3>2, <3>3, DeliveryPlaces
  <2>6. CASE Libav /\ \E given \in decode_with_libav(s, FALSE) : deliver(s, given, FALSE)
    <3>1. PICK given \in decode_with_libav(s, FALSE) : deliver(s, given, FALSE)
        BY <2>6
    <3>2. given \in Sizes /\ TrueTo(given, s) /\ given.w >= 250 /\ given.h >= 200
        BY <2>2, KeptByLibav
    <3>3. given.w + 1 >= 250 /\ TierTwo
        BY <2>6, <3>2 DEF Sizes, Libav, TierTwo
    <3> QED BY <1>1, <2>2, <3>1, <3>2, <3>3, DeliveryPlaces
  <2>7. CASE Libav /\ \E given \in decode_with_libav(s, TRUE) : deliver(Size(s.h, s.w), given, TRUE)
    <3>1. PICK given \in decode_with_libav(s, TRUE) : deliver(Size(s.h, s.w), given, TRUE)
        BY <2>7
    <3>2. given \in Sizes /\ TrueTo(given, Size(s.h, s.w))
        BY <2>2, KeptWhenTurned
    <3>3. TierTwo
        BY <2>7 DEF Libav, TierTwo
    <3> QED BY <1>1, <2>2, <3>1, <3>2, <3>3, DeliveryPlaces
  <2> QED BY <2>3, <2>4, <2>5, <2>6, <2>7
<1> QED BY <1>2, <1>3

\* After the last step of a cook there is no other.
LEMMA NothingFollows ==
    ASSUME Asks, step \in Ends, [CookNext]_allvars
    PROVE  UNCHANGED <<step, kind>>
<1>1. pc \in {"idle", "closed"}
    BY DEF Asks, Asking, Fetching, Ends
<1>2. ~Answered
  <2>1. Answered => CallStep
      BY AnsweredIsCallStep
  <2> QED BY <1>1, <2>1 DEF CallStep, Running
<1>3. ~(ReadFailed)
    BY <1>1 DEF ReadFailed, NetworkError, SeekBehindStream, Looking
<1>4. /\ ~(TryWhole \/ TryHeader \/ TryWebp \/ TryZip \/ TryAudio \/ TrySize \/ TryProgressive)
      /\ ~(ReadPreview \/ ReadSubPreview \/ ReadIfd1Preview)
      /\ ~(SubIfds \/ ReadSubIfd \/ ParseSubIfd \/ ReadIfd1)
    BY DEF TryWhole, TryHeader, TryWebp, TryZip, TryAudio, TrySize, TryProgressive, Try, ReadPreview,
       ReadSubPreview, ReadIfd1Preview, SubIfds, ReadSubIfd, ParseSubIfd, ReadIfd1, Ends
<1>5. /\ ~(\/ DimsKnown
           \/ \E r \in DimsReads : ReadDims(r[1], r[2])
           \/ \E r \in DimsReads : ReadNoDims(r[1], r[2]))
      /\ ~(ReadMeta \/ NoMeta \/ ZipInline \/ ReadEntry \/ Extract)
      /\ ~(Cover \/ DecodeCover)
    BY DEF DimsKnown, ReadDims, ReadNoDims, ReadMeta, NoMeta, ZipInline, ReadEntry, Extract,
       Cover, DecodeCover, Ends
<1>6. /\ ~(ReadProgressive \/ ProgressiveOver \/ ClearEof \/ Decoded)
      /\ ~(GiveUp \/ RotationHint \/ RawStep \/ RawOver)
      /\ ~(RenderSeek \/ RenderMeasure \/ RenderBack \/ Render \/ RenderOver \/ RenderOverStreaming)
    BY DEF ReadProgressive, ProgressiveOver, ClearEof, Decoded, GiveUp, NothingFound, RotationHint,
       RawStep, RawSubIfds, RawParse, RawOver, RenderSeek, RenderMeasure, RenderBack, Render,
       RenderOver, RenderOverStreaming, Ends
<1>7. UNCHANGED allvars
    BY <1>2, <1>3, <1>4, <1>5, <1>6, Zenon DEF CookNext
<1> QED BY <1>7 DEF allvars, cookvars

(* Whatever size is decoded, and with every error of the f32 arithmetic:   *)
(* the thumbnail lies on the canvas, covers the minimal part of it, loses  *)
(* no detail the image had and keeps its proportions.                      *)
THEOREM PlacesThumbnail ==
    ASSUME Canonical
    PROVE  ThumbSpec => []ThumbnailPlaced
<1>1. ThumbInit => DeliveredLast
    BY DEF ThumbInit, DeliveredLast
<1>2. LookInv /\ DeliveredLast /\ [ThumbNext]_thumbvars => DeliveredLast'
  <2> SUFFICES ASSUME LookInv, DeliveredLast, [ThumbNext]_thumbvars PROVE DeliveredLast'
      OBVIOUS
  <2>1. Asks /\ kind \in Kinds
      BY DEF LookInv, FileKept
  <2>2. CASE image' = image /\ [CookNext]_allvars
    <3>1. CASE image = NONE
        BY <2>2, <3>1 DEF DeliveredLast
    <3>2. CASE image # NONE
      <4>1. step \in Ends /\ ThumbnailPlaced
          BY <3>2 DEF DeliveredLast, Ends
      <4>2. UNCHANGED <<step, kind, image>>
          BY <2>1, <2>2, <4>1, NothingFollows
      <4>3. ThumbnailPlaced'
          BY <4>1, <4>2 DEF ThumbnailPlaced, OnCanvas, LosesNoDetail, TierTwo
      <4> QED BY <4>1, <4>2, <4>3 DEF DeliveredLast, Ends
    <3> QED BY <3>1, <3>2
  <2>3. CASE DeliverShortcut \/ DeliverRendered
      BY <2>1, <2>3, DeliveriesPlace
  <2> QED BY <2>2, <2>3 DEF ThumbNext, thumbvars
<1>3. DeliveredLast => ThumbnailPlaced
    BY DEF DeliveredLast, ThumbnailPlaced
<1>4. ThumbSpec => []LookInv
    BY LooksInvariant
<1> QED BY <1>1, <1>2, <1>3, <1>4, PTL DEF ThumbSpec
==============================================================================
