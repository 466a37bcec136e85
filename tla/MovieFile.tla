------------------------------- MODULE MovieFile -------------------------------
(***************************************************************************)
(* Opening a movie file: what OmvVideoInfo::from_path reads of the header  *)
(* and what OmvPlayerInner::open asks of ffmpeg, in the order in which     *)
(* they give up.                                                           *)
(*                                                                         *)
(* A file is a record: exists, whole (it has a whole header), width and    *)
(* height (as in the header), counts (its table sizes are not negative),   *)
(* type, input, stream and decodable (what ffmpeg finds in the payload),   *)
(* decodedWidth, decoded and subsampled (the frames of the decoder).  The  *)
(* payload offset, with its overflow, is left out.                         *)
(***************************************************************************)
EXTENDS FrameConvert

\* MUTANT forgets that the alpha is below the picture.
ExpectedRowsNoAlpha(f) == f.height
\* validate_decoder_size
ExpectedRows(f) ==
    IF f.type = "Rgba" THEN f.height + DivCeil(f.height, 3) ELSE f.height

Unless(passes, error) == IF passes THEN "none" ELSE error

\* What each step has to say, in their order: nothing when it passes.
HeaderErrors(f) ==
    << Unless(f.exists, "noFile"),
       Unless(f.whole, "noHeader"),
       Unless(f.width > 0 /\ f.height > 0, "dimensions"),
       Unless(f.counts, "counts") >>

DecoderErrors(f) ==
    << Unless(f.input, "noInput"),
       Unless(f.stream, "noStream"),
       Unless(f.decodable, "noDecoder") >>

SizeErrors(f) ==
    << Unless(f.decodedWidth = f.width, "decodedWidth"),
       Unless(f.decoded >= ExpectedRows(f), "decodedHeight") >>

OpenErrors(f) == HeaderErrors(f) \o DecoderErrors(f) \o SizeErrors(f)

\* OmvPlayerInner::open succeeds, or gives the first error.
Opens(f) == \A i \in DOMAIN OpenErrors(f) : OpenErrors(f)[i] = "none"
OpenError(f) ==
    LET errors == OpenErrors(f)
    IN  errors[CHOOSE i \in DOMAIN errors :
                   errors[i] # "none" /\ \A j \in 1..(i - 1) : errors[j] = "none"]

==============================================================================
