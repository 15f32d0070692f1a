----------------------------- MODULE MCCliLine -----------------------------
(***************************************************************************)
(* TLC instances of CliLine.                                               *)
(***************************************************************************)
EXTENDS CliLine

McNames == {<<"a", "a">>, <<"a">>}
=============================================================================
