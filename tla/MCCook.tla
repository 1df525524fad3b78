------------------------------- MODULE MCCook -------------------------------
(***************************************************************************)
(* Sources of every group the routing tells apart, and an environment with *)
(* all the tools or with none.                                             *)
(***************************************************************************)
EXTENDS Cook

Source(magic, url, ctype, coding) ==
    [magic |-> magic, svg |-> FALSE, url |-> url, ctype |-> ctype, coding |-> coding]

Plain(kind, ext) == Source(File(kind, ext), ext, NONE, "huffman")

MCSources ==
    {Source(File("Image", "jpeg"), "jpg", NONE, c) : c \in Codings}
      \cup {Plain("Image", e) : e \in {"png", "exr", "heic"}}
      \cup {Plain("Video", "mp4"), Plain("Audio", "mp3"), Plain("Document", "pdf"),
            Source(File("Archive", "zip"), "docx", NONE, "huffman"),
            Source(File("Archive", "zip"), NONE, File("Archive", "zip"), "huffman"),
            Source(NONE, "stl", NONE, "huffman"),
            Source(NONE, "usda", NONE, "huffman"),
            Source(NONE, "nonsense", NONE, "huffman"),
            [Source(File("Text", "xml"), NONE, NONE, "huffman") EXCEPT !.svg = TRUE]}

MCToolSets == {{}, {"magick", "ffmpeg_cli", "oiiotool", "pdftoppm", "f3d"}}
=============================================================================
