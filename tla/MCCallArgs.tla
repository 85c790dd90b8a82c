----------------------------- MODULE MCCallArgs -----------------------------
(* Instances of CallArgs for TLC. *)
EXTENDS CallArgs

CONSTANTS b1, b2, c1, c2

\* one length that is a multiple of the word and one that is not
TwoLengths == (b1 :> 3) @@ (b2 :> 2)
\* the frame of c1 crosses a page when the image is large
TwoStacks == (c1 :> 44) @@ (c2 :> 28)
ThreeUses == {<<b1, "IN">>, <<b1, "OUT">>, <<b2, "INOUT">>}
=============================================================================
