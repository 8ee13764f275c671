------------------------------ MODULE Metadata ------------------------------
(***************************************************************************)
(* What the metadata stage makes of a file: extraction                     *)
(* (metadata/extractor.py), consistency findings (metadata/analyzer.py)    *)
(* and the persisted payload (metadata/result.py).                         *)
(*                                                                         *)
(* A tag of the file is the set of its values, empty when it is absent.    *)
(* Dates are numbers.  Software names are told apart only by whether an    *)
(* editor's marker occurs in them.  The remaining tags and the coordinates *)
(* are copied through and left out.  A tag is here what Exif.get of Pillow *)
(* answers: it looks in the main directory only, so that a tag which a     *)
(* camera wrote to the Exif sub-directory is an absent one.                *)
(***************************************************************************)
EXTENDS Integers

Software == {"editor", "other"}

\* A file as Pillow gives it: whether the sections can be parsed, the tags read
\* from EXIF, whether there is a GPS directory, the three places that name
\* software, whether there is another tag, an XMP packet, an ICC profile, and
\* whether the format is one whose MIME type is not the recorded one.
MetadataType ==
  [exifReadable: BOOLEAN, xmpReadable: BOOLEAN,
   orientation: SUBSET Int, captured: SUBSET Int, modified: SUBSET Int,
   iso: SUBSET Int, exposure: SUBSET Int, gps: BOOLEAN, otherTags: BOOLEAN,
   exifSoftware: SUBSET Software, xmp: BOOLEAN, creatorTool: SUBSET Software,
   xmpSoftware: SUBSET Software, icc: BOOLEAN, otherFormat: BOOLEAN]

NothingRead ==
  [present |-> FALSE, orientation |-> {}, captured |-> {}, modified |-> {},
   iso |-> {}, exposure |-> {}, software |-> {}, gps |-> FALSE]

\* _rational: a number that is not positive is no value.
Rational(tag) == {v \in tag : v > 0}

\* _extract_exif: an EXIF block that raises is an absent one.
ExtractExif(f) ==
  IF ~f.exifReadable THEN NothingRead ELSE
  [present |-> \/ \E tag \in {"orientation", "captured", "modified", "iso",
                              "exposure", "exifSoftware"} : f[tag] # {}
               \/ f.gps \/ f.otherTags,
   orientation |-> f.orientation, captured |-> f.captured,
   modified |-> f.modified, iso |-> f.iso, exposure |-> Rational(f.exposure),
   software |-> f.exifSoftware, gps |-> f.gps]

\* _extract_xmp: likewise.
ExtractXmp(f) ==
  IF f.xmp /\ f.xmpReadable
  THEN [present |-> TRUE, creatorTool |-> f.creatorTool, software |-> f.xmpSoftware]
  ELSE [present |-> FALSE, creatorTool |-> {}, software |-> {}]

-----------------------------------------------------------------------------
\* analyze_metadata.

VerifiedFindings(exif, xmp, otherFormat) ==
  {code \in {"exif_orientation_out_of_range", "implausible_iso",
             "implausible_exposure_time", "gps_present",
             "editing_software_metadata", "format_mime_mismatch"} :
    \/ code = "exif_orientation_out_of_range" /\ exif.orientation \ (1 .. 8) # {}
    \/ code = "implausible_iso" /\ \E v \in exif.iso : v <= 0
    \/ code = "implausible_exposure_time" /\ \E v \in exif.exposure : v <= 0
    \/ code = "gps_present" /\ exif.gps
    \/ /\ code = "editing_software_metadata"
       /\ "editor" \in exif.software \cup xmp.creatorTool \cup xmp.software
    \/ code = "format_mime_mismatch" /\ otherFormat}

HeuristicFindings(exif) ==
  IF \E c \in exif.captured, m \in exif.modified : c > m
  THEN {"capture_later_than_modification"} ELSE {}

\* Mutant of AnalyzeMetadata: the creator tool of XMP is not looked at.
AnalyzeMetadataOfExif(exif, xmp, otherFormat) ==
  [verified |-> VerifiedFindings(exif, [xmp EXCEPT !.creatorTool = {}], otherFormat),
   heuristic |-> HeuristicFindings(exif)]

AnalyzeMetadata(exif, xmp, otherFormat) ==
  [verified |-> VerifiedFindings(exif, xmp, otherFormat),
   heuristic |-> HeuristicFindings(exif)]

\* build_metadata_payload.
MetadataPayload(f) ==
  LET exif == ExtractExif(f)
      xmp == ExtractXmp(f)
  IN [presence |-> [exif |-> exif.present, xmp |-> xmp.present, icc |-> f.icc,
                    gps |-> exif.gps],
      software |-> exif.software \cup xmp.software,
      findings |-> AnalyzeMetadata(exif, xmp, f.otherFormat)]
=============================================================================
