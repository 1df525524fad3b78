------------------------------ MODULE Thumbnail ------------------------------
(***************************************************************************)
(* A cook that reads its source (ShortcutRead) together with what deliver  *)
(* makes of the decoded image: a shortcut shrinks it first, a renderer     *)
(* hands it over as it is or scaled, and all are fitted on the canvas      *)
(* (Fit).                                                                  *)
(***************************************************************************)
EXTENDS ShortcutRead, Fit

CONSTANTS
    PixelArt,                \* pixel_art_max_px
    Decodes                  \* the sizes <<width, height>> a kind may decode to

ASSUME ThumbnailAssumption ==
    \A k \in Kinds : Decodes[k] \subseteq (Nat \ {0}) \X (Nat \ {0})

VARIABLE image \* what deliver made: the decoded size, the one it was given, the fit

thumbvars == <<allvars, image>>

ThumbInit == CookInit /\ image = NONE

\* A progressive prefix decodes to a small image of a large source.
IsPixelArt(s) ==
    /\ ~(tries # <<>> /\ Head(tries) = "progressive")
    /\ s.w <= PixelArt /\ s.h <= PixelArt

deliver(decoded, given, turned) ==
    \E transparent \in BOOLEAN :
        \E fit \in fit_to_target(given, transparent, IsPixelArt(given)) :
            image' = [decoded |-> decoded, given |-> given, turned |-> turned, fit |-> fit]

DeliverShortcut ==
    /\ step = "served" /\ image = NONE
    /\ \E d \in Decodes[kind] : \E s \in pre_scale_to_target(Size(d[1], d[2])) :
          deliver(Size(d[1], d[2]), s, FALSE)
    /\ UNCHANGED allvars

\* The renderers of tier 2 scale what they decode, a document is drawn to size.
TierTwo == kind # "pdf" /\ step \in {"rendered", "previewed"}

Libav == kind \notin {"pdf", "png"} /\ step = "rendered"

DeliverRendered ==
    /\ step \in {"rendered", "previewed"} /\ image = NONE
    /\ \E d \in Decodes[kind] :
          LET s == Size(d[1], d[2]) IN
          \/ kind = "pdf" /\ deliver(s, s, FALSE)
          \/ TierTwo /\ ~Libav /\ \E given \in pre_scale(s) : deliver(s, given, FALSE)
          \/ Libav /\ \E given \in decode_with_libav(s, FALSE) : deliver(s, given, FALSE)
          \/ Libav /\ \E given \in decode_with_libav(s, TRUE) :
                         deliver(Size(s.h, s.w), given, TRUE)
    /\ UNCHANGED allvars

ThumbNext ==
    \/ CookNext /\ UNCHANGED image
    \/ DeliverShortcut
    \/ DeliverRendered

ThumbSpec == ThumbInit /\ [][ThumbNext]_thumbvars

-----------------------------------------------------------------------------
(* The content of a thumbnail lies on the canvas, which blit_rgb_onto      *)
(* relies on row by row, and covers the minimal part of it; the window it  *)
(* is scaled from lies in the image it is cut from.                        *)
OnCanvas(f) ==
    /\ f.content.w \in MinW..TargetW /\ f.content.h \in MinH..TargetH
    /\ f.window.x + f.window.w <= image.given.w
    /\ f.window.y + f.window.h <= image.given.h

(* Nothing is scaled up that was large enough when it was decoded, but for *)
(* a turned frame and the pixel tier 2 may lose (see TierTwoCovers), and   *)
(* what is not cropped by the minimal size keeps its proportions: half a   *)
(* pixel goes with the halvings, one with the first scale and one with the *)
(* second.                                                                 *)
LosesNoDetail(f) ==
    LET d == image.decoded
        scaled == IF f.plan.clamped THEN f.plan.crop ELSE f.plan.resize
        lost == IF TierTwo THEN 1 ELSE 0
    IN  /\ (d.w >= TargetW /\ d.h >= TargetH /\ ~image.turned) =>
              f.window.w + lost >= scaled.w /\ f.window.h + lost >= scaled.h
        /\ ~f.plan.clamped =>
              2 * Distance(f.plan.resize.w * d.h, f.plan.resize.h * d.w) <= 5 * Most(d.w, d.h)

(* Whatever the size that was decoded, and with every error f32 can make:  *)
(* the thumbnail fits the canvas, fills it and keeps the image.            *)
ThumbnailPlaced == image # NONE => OnCanvas(image.fit) /\ LosesNoDetail(image.fit)

\* The inductive invariant (see ThumbnailProofs): nothing follows a delivery.
DeliveredLast ==
    image # NONE =>
        /\ step \in {"served", "rendered", "previewed"}
        /\ ThumbnailPlaced

(* A statement that does not hold of the code: "we must never hand it an   *)
(* image smaller than the target in either dimension" and "Scale so that   *)
(* both dimensions are >= the canonical target".                           *)
TierTwoCovers ==
    (image # NONE /\ TierTwo) => image.given.w >= TargetW /\ image.given.h >= TargetH
=============================================================================
