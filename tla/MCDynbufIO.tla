----------------------------- MODULE MCDynbufIO -----------------------------
(* The instance of DynbufIO that TLC checks. *)
EXTENDS DynbufIO

Stream == 0..MaxBytes

\* Containers with a quantum of headroom, and buffers that reach max_size()
Growable == {<<"bare", "container", 6>>, <<"shifting", "container", 6>>}
Bounded == {<<"bare", "container", 4>>, <<"shifting", "fixed", 4>>}
DynBuffers == Growable \cup Bounded
=============================================================================
