--------------------------- MODULE MCTransformPipe ---------------------------
(* The instance of TransformPipe that TLC checks. *)
EXTENDS TransformPipe

Stream == 0..MaxBytes
DynBuffers == {<<"shifting", "container">>, <<"shifting", "fixed">>}
=============================================================================
