--------------------------- MODULE MCMediaUpload ----------------------------
(***************************************************************************)
(* Small instances of MediaUpload: two requests, a limit of three bytes    *)
(* and chunks of two, so that files below, at and above the limit end in   *)
(* the middle and at the end of a chunk.                                   *)
(***************************************************************************)
EXTENDS MediaUpload

CONSTANTS u1, u2

MCChunkSize == 2
MCLimit == 3

\* An image of the given length, and one of each thing that can be wrong.
Image(n) == [safeName |-> TRUE, length |-> n, content |-> "image", extension |-> TRUE]

MCInputs ==
  {Image(n) : n \in 0 .. 5}
    \cup {[Image(2) EXCEPT !.content = c] : c \in Contents}
    \cup {[Image(2) EXCEPT !.extension = FALSE], [Image(5) EXCEPT !.safeName = FALSE]}

\* Uploads in which something can go wrong late.
MCImages == {Image(3)}

\* A good image beside two that are corrupt in different ways.
MCParsed == {[Image(2) EXCEPT !.content = c] : c \in {"image", "unparsable", "unlisted"}}

=============================================================================
