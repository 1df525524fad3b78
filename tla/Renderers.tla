------------------------------ MODULE Renderers ------------------------------
(***************************************************************************)
(* What the in-process renderers of tier 2 and tier 3 may do with a cook   *)
(* (tier2/renderer.rs, tier3/renderer.rs), as the set of outcomes of one   *)
(* call of InProcessRenderer::render.  Pixels are left out.                *)
(*                                                                         *)
(* A JPEG is told apart by its coding: "huffman", "arith" when the marker  *)
(* of arithmetic coding shows in the first 512 bytes, which is what the    *)
(* renderers peek at, and "late" when it comes after them.                 *)
(***************************************************************************)
EXTENDS Formats

Codings == {"huffman", "arith", "late"}

(* claim: render returned true; taken: the cook's reader was taken; image: *)
(* set_render_image; failed: fail_cook was called at some point; message:  *)
(* a failure's message is left; note: why the renderer could not run.      *)
Outcome == [claim : BOOLEAN, taken : BOOLEAN, image : BOOLEAN, failed : BOOLEAN,
            message : BOOLEAN, note : BOOLEAN]

Declined == [claim |-> FALSE, taken |-> FALSE, image |-> FALSE, failed |-> FALSE,
             message |-> FALSE, note |-> FALSE]
Rendered == [Declined EXCEPT !.claim = TRUE, !.taken = TRUE, !.image = TRUE]
Undecodable ==
    [Declined EXCEPT !.claim = TRUE, !.taken = TRUE, !.failed = TRUE, !.message = TRUE]

Decoded == {Rendered, Undecodable}

\* A backend the environment probe did not find.
Missing == [Declined EXCEPT !.note = TRUE]

Tool(name, tools) == IF name \in tools THEN Decoded ELSE {Missing}

-----------------------------------------------------------------------------
\* Each takes the reader and ends in apply_result, which claims the format
\* whatever came of the decoding.  A JPEG is looked at once more, when it is too
\* late to decline it.
render_image(f, coding) ==
    IF f.ext = "jpeg" /\ coding = "late" THEN {Undecodable} ELSE Decoded

render_video(f) == Decoded

render_vector(f) == IF f.ext = "svg" THEN Decoded ELSE {Undecodable}

Tier2(f, coding) ==
    CASE f.kind = "Image" ->
           IF ~tier2_handles_image(f.ext) \/ (f.ext = "jpeg" /\ coding = "arith")
           THEN {Declined}
           ELSE render_image(f, coding)
      [] f.kind = "Video" -> render_video(f)
      [] f.kind = "Vector" -> render_vector(f)
      [] OTHER -> {Declined}

-----------------------------------------------------------------------------
\* render_document_tier3: only PDF.
render_document_tier3(f, tools) ==
    IF f.ext = "pdf" THEN Tool("pdftoppm", tools) ELSE {Declined}

\* render_geometry_tier3: USD by way of python3, without a probe; the rest by f3d.
render_geometry_tier3(f, tools) ==
    IF f.ext \in {"usdz", "usdc", "usda"} THEN Decoded
    ELSE IF f.ext \in f3d_extensions THEN Tool("f3d", tools)
    ELSE {Declined}

\* Seeded fault: the failure's message outlives the rescue.
render_image_ffmpeg_fallback_keeps(f, tools, o) ==
    IF (IF is_oiio_format(f.ext) THEN "oiiotool" ELSE "ffmpeg_cli") \notin tools
    THEN {[o EXCEPT !.claim = FALSE, !.note = TRUE]}
    ELSE {[o EXCEPT !.claim = TRUE, !.taken = TRUE, !.image = TRUE],
          [o EXCEPT !.claim = TRUE, !.taken = TRUE, !.failed = TRUE, !.message = TRUE]}

(* The external tool after tier 2 declined or failed (o); a reader that is *)
(* gone is replaced by a second fetch of the source, which may fail too.   *)
render_image_ffmpeg_fallback(f, tools, o) ==
    IF (IF is_oiio_format(f.ext) THEN "oiiotool" ELSE "ffmpeg_cli") \notin tools
    THEN {[o EXCEPT !.claim = FALSE, !.note = TRUE]}
    ELSE {[o EXCEPT !.claim = TRUE, !.taken = TRUE, !.image = TRUE, !.message = FALSE],
          [o EXCEPT !.claim = TRUE, !.taken = TRUE, !.failed = TRUE, !.message = TRUE]}

\* An arithmetic JPEG goes to GraphicsMagick, any other to libav.
render_jpeg(f, coding, tools) ==
    IF coding = "arith" THEN Tool("magick", tools)
    ELSE UNION {IF o.claim THEN {o} ELSE render_image_ffmpeg_fallback(f, tools, o) :
                o \in Tier2(f, coding)}

\* Any other image: libav, and the external tool when no image came of it.
render_other_image(f, coding, tools) ==
    UNION {IF o.claim /\ o.image THEN {o} ELSE render_image_ffmpeg_fallback(f, tools, o) :
           o \in Tier2(f, coding)}

\* Videos are always claimed by tier 2, so the ffmpeg fallback is not reached.
Tier3(f, coding, remote, tools) ==
    CASE f.kind = "Document" -> render_document_tier3(f, tools)
      [] f.kind = "Geometry" -> render_geometry_tier3(f, tools)
      [] f.kind = "Image" /\ f.ext = "jpeg" -> render_jpeg(f, coding, tools)
      [] f.kind = "Image" /\ f.ext # "jpeg" -> render_other_image(f, coding, tools)
      [] f.kind = "Video" -> Tier2(f, coding)
      [] OTHER -> IF remote THEN {Declined} ELSE Tier2(f, coding)
=============================================================================
