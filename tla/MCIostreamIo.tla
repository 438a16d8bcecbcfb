---------------------------- MODULE MCIostreamIo ----------------------------
(* The instance of IostreamIo that TLC checks. *)
EXTENDS IostreamIo

Stream == 0..StreamLen
Growable == {<<"bare", "container">>, <<"shifting", "container">>}
=============================================================================
