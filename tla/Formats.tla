------------------------------- MODULE Formats -------------------------------
(***************************************************************************)
(* What kind of file a source is and which tier takes it: the sniffing of  *)
(* inspect.rs, the manifest and the routing of dispatch.rs, and the lists  *)
(* by which the shortcuts and the renderers of tier 2 and tier 3 choose.   *)
(*                                                                         *)
(* An extension is a string.  The MIME type is left out: what the `infer`  *)
(* crate and the Content-Type header say of a file is a kind and an        *)
(* extension.                                                              *)
(***************************************************************************)
EXTENDS Naturals, FiniteSetsExt

CONSTANT NONE \* Rust's None

Kinds == {"Image", "Video", "Audio", "Vector", "Document", "Geometry",
          "Archive", "Text", "Binary", "Unknown"}

-----------------------------------------------------------------------------
\* TIFF-container camera-raw extensions.
is_raw_tiff_extension(e) ==
    e \in {"dng", "cr2", "nef", "arw", "orf", "rw2", "pef", "srw", "raf", "3fr",
           "fff", "iiq", "mef", "rwl", "raw"}

\* The extensions canonical_extension replaces, by what it replaces them with.
AliasesOf ==
    [jpeg |-> {"jpg", "jpe"}, tiff |-> {"tif"}, jp2 |-> {"j2k"},
     exr |-> {"sxr", "mxr"}, hdr |-> {"rgbe"}, sgi |-> {"rgb", "rgba", "int", "inta"},
     pbm |-> {"pgm", "ppm", "pfm"}, heic |-> {"heics", "heif"},
     mpeg |-> {"mpg", "mpe"}, mp4 |-> {"m4v"}, m4a |-> {"m4b"}, midi |-> {"mid"},
     aiff |-> {"aifc"}, docx |-> {"doc"}, xlsx |-> {"xls", "xlsm"}, pptx |-> {"ppt"},
     svg |-> {"svgz"}, vrml |-> {"wrl"}, step |-> {"stp", "stpnc", "p21", "210"},
     iges |-> {"igs"}, exo |-> {"ex2", "e"}, usd |-> {"usda", "usdc"},
     cr2 |-> {"crw"}, html |-> {"htm"}]

canonical_extension(raw) ==
    LET c == {k \in DOMAIN AliasesOf : raw \in AliasesOf[k]}
    IN IF c = {} THEN raw ELSE CHOOSE k \in c : TRUE

\* The extensions ext_to_kind knows, by kind.
ExtensionsOf ==
    [Image |-> {"jpeg", "png", "gif", "webp", "bmp", "tiff", "avif", "heic", "exr",
                "hdr", "apng", "ico", "xcf", "jxl", "psd", "pbm", "tga", "jp2", "sgi",
                "dpx", "cin", "dds", "fits", "iff", "pic", "rla", "zfile", "dng", "cr2",
                "nef", "arw", "orf", "rw2", "pef", "srw", "3fr", "mef", "rwl", "raf",
                "fff", "iiq", "raw"},
     Vector |-> {"svg", "emf", "wmf"},
     Video |-> {"mp4", "mov", "mkv", "avi", "webm", "mpeg", "ogv", "flv", "ts", "3gp",
                "wmv", "m2ts", "mxf", "av1"},
     Audio |-> {"mp3", "ogg", "flac", "wav", "m4a", "aac", "midi", "opus", "oga", "weba",
                "wma", "aiff"},
     Document |-> {"pdf", "docx", "xlsx", "pptx", "odt", "doc", "xls", "ppt", "odp",
                   "ods", "epub", "rtf", "html", "xhtml"},
     Geometry |-> {"usdz", "usd", "glb", "gltf", "obj", "stl", "fbx", "dae", "dxf", "off",
                   "3ds", "gml", "ply", "pts", "vrml", "vtk", "vtu", "vtp", "vti", "vtr",
                   "vts", "vtm", "step", "iges", "brep", "exo"},
     Archive |-> {"zip", "tar", "gz", "bz2", "xz", "rar", "7z"},
     Text |-> {"xml", "json", "txt", "csv", "md"}]

ext_to_kind(e) ==
    LET c == {k \in DOMAIN ExtensionsOf : e \in ExtensionsOf[k]}
    IN IF c = {} THEN "Unknown" ELSE CHOOSE k \in c : TRUE

-----------------------------------------------------------------------------
(* A source: what `infer` says of its first bytes (a kind and a canonical  *)
(* extension, or NONE), whether they hold an <svg tag, the extension of    *)
(* its URL, and what its Content-Type says ("bin" for a type that names no *)
(* extension, whose kind is then the one of the extension, see below).     *)
File(kind, ext) == [kind |-> kind, ext |-> ext]

\* Containers that say little of what is in them.
Generic(kind) == kind \in {"Archive", "Binary", "Unknown"}

sniff_magic(magic, svg, url) ==
    IF magic.kind = "Text" /\ (svg \/ url = "svg") THEN File("Vector", "svg")
    ELSE IF Generic(magic.kind) /\ url # NONE /\ ~Generic(ext_to_kind(url))
    THEN File(ext_to_kind(url), url)
    ELSE IF magic.ext = "tiff" /\ url # NONE /\ is_raw_tiff_extension(url)
    THEN File("Image", url)
    ELSE magic

\* Content-Type: a type without an extension takes the URL's.
FromHeader(ctype, url) ==
    IF ctype.ext # "bin" THEN ctype
    ELSE LET e == IF url = NONE THEN "bin" ELSE url
         IN File(IF ctype.kind = "Unknown" THEN ext_to_kind(e) ELSE ctype.kind, e)

sniff(magic, svg, raw, ctype) ==
    LET url == IF raw = NONE THEN NONE ELSE canonical_extension(raw)
    IN IF magic # NONE THEN sniff_magic(magic, svg, url)
       ELSE IF url # NONE /\ ext_to_kind(url) # "Unknown" THEN File(ext_to_kind(url), url)
       ELSE IF ctype # NONE /\ FromHeader(ctype, url).kind # "Unknown"
       THEN FromHeader(ctype, url)
       ELSE File("Unknown", IF url = NONE THEN "bin" ELSE url)

-----------------------------------------------------------------------------
Listed(kind, tier, exts) == [kind |-> kind, tier |-> tier, exts |-> exts]

\* format_manifest(), the entries of tier 1 and of tier 2.
LowerManifest ==
    {Listed("Image", 1, {"png", "gif", "webp", "bmp", "tiff", "ico"}),
     Listed("Image", 2, {"jpeg", "hdr", "heic", "psd", "pbm", "tga", "jxl", "dng", "cr2",
                         "nef", "arw", "orf", "rw2", "pef", "srw", "raf", "3fr", "fff",
                         "iiq", "mef", "rwl", "raw"}),
     Listed("Vector", 2, {"svg"}),
     Listed("Video", 2, {"mp4", "mov", "avi", "webm", "mkv", "flv", "ts", "3gp", "ogv",
                         "wmv", "mpeg", "m2ts", "mxf", "av1"}),
     Listed("Audio", 2, {"mp3", "wav", "flac", "ogg", "m4a", "aac", "wma", "aiff", "opus"}),
     Listed("Document", 2, {"odt", "ods", "odp", "docx", "xlsx", "pptx"})}

\* The entries of tier 3.
UpperManifest ==
    {Listed("Document", 3, {"pdf"}),
     Listed("Image", 3, {"jpeg", "png", "webp", "bmp", "tiff", "psd", "gif", "jp2", "pcx",
                         "qoi", "xbm", "xpm", "xwd", "pam", "avif", "heic", "exr", "hdr",
                         "dpx", "cin", "dds", "dcm", "fits", "iff", "pic", "rla", "sgi",
                         "zfile"}),
     Listed("Vector", 3, {"svg"}),
     Listed("Geometry", 3, {"glb", "gltf", "fbx", "dae", "dxf", "off", "exo", "3ds", "gml",
                            "ply", "pts", "stl", "obj", "vrml", "vtk", "vtu", "vtp", "vti",
                            "vtr", "vts", "vtm", "step", "iges", "brep", "usdz", "usd"})}

format_manifest == LowerManifest \cup UpperManifest

TiersOf(f) == {e.tier : e \in {m \in format_manifest : m.kind = f.kind /\ f.ext \in m.exts}}

\* The lowest tier the manifest lists, else a default of the kind.
route(f) ==
    IF TiersOf(f) # {} THEN Min(TiersOf(f))
    ELSE IF f.kind \in {"Vector", "Video", "Audio", "Document"} THEN 2
    ELSE IF f.kind = "Geometry" THEN 3
    ELSE 1

-----------------------------------------------------------------------------
\* The formats shortcut_inner has a reader for.
Shortcuts(f) ==
    \/ f.ext \in {"jpeg", "tiff", "png", "webp"}
    \/ f.kind = "Image" /\ f.ext \in {"gif", "bmp", "ico"}
    \/ f.kind = "Image" /\ f.ext \in {"dng", "cr2", "nef", "arw", "orf", "rw2", "pef",
                                      "srw", "3fr", "mef", "rwl"}
    \/ f.kind = "Document" /\ f.ext \in {"docx", "xlsx", "pptx", "odt", "ods", "odp", "pdf"}
    \/ f.kind = "Audio" /\ f.ext = "mp3"

\* Image formats tier 2 claims.
tier2_handles_image(e) ==
    e \in {"jpeg", "jpg", "png", "webp", "bmp", "tiff", "tif", "gif", "ico", "psd",
           "avif", "heic", "heif", "dng", "cr2", "nef", "arw", "orf", "rw2", "pef", "srw",
           "raf", "3fr", "fff", "iiq", "raw"}

\* Image formats tier 3 gives to oiiotool and not to ffmpeg.
is_oiio_format(e) ==
    e \in {"exr", "sxr", "mxr", "hdr", "rgbe", "dpx", "cin", "dds", "fits", "iff", "pic",
           "rla", "zfile", "sgi", "rgb", "rgba", "bw", "int", "inta"}

\* The extensions of the f3d handler that tier3.rs registers.
f3d_extensions ==
    {"3ds", "brep", "dae", "dxf", "e", "exo", "ex2", "fbx", "glb", "gltf", "gml", "iges",
     "igs", "obj", "off", "p21", "ply", "pts", "step", "stl", "stp", "stpnc", "vtk", "vtm",
     "vti", "vtp", "vtr", "vts", "vtu", "vrml", "wrl", "210"}
=============================================================================
