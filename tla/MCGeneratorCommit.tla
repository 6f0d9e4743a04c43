------------------------- MODULE MCGeneratorCommit -------------------------
(***************************************************************************)
(* Three files, every request: each may be created, updated, left          *)
(* unchanged or preserved.                                                 *)
(***************************************************************************)
EXTENDS GeneratorCommit

MCRequests == [Paths -> Actions]
=============================================================================
