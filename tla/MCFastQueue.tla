---------------------------- MODULE MCFastQueue ----------------------------
(***************************************************************************)
(* One payload of each length a header of two binary digits can hold.      *)
(***************************************************************************)
EXTENDS FastQueueRefinement

MCMessages == {<<>>, <<1>>, <<0, 1>>, <<1, 0, 0>>}
=============================================================================
