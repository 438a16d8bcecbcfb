--------------------------- MODULE MCDynamicBuffer ---------------------------
(* The instance of DynamicBuffer that TLC checks. *)
EXTENDS DynamicBuffer

\* A bare container, a bare fixed buffer, and shifting buffers over each
AllKinds == {"bare", "shifting"} \X {"container", "fixed"}
OverContainer == {<<"shifting", "container">>}
=============================================================================
