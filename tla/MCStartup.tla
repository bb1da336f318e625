----------------------------- MODULE MCStartup ------------------------------
(***************************************************************************)
(* A gateway of the release with three migrations, with one of the release *)
(* before it and a seed command or with two seed commands.  The database   *)
(* is empty, holds the schema of an unrecorded release with or without the *)
(* last migration, one that is not supported, or the history of an edited  *)
(* migration.                                                              *)
(***************************************************************************)
EXTENDS Startup, TLC

CONSTANTS g1, g2, s1, s2

MCProcesses == {g1, g2, s1, s2}
MCGateways == {g1, g2}
MCDeployments == {{g1, g2, s1}, {g1, s1, s2}}
MCVersions == 1..3
MCBinary == (g1 :> <<"a", "b", "c">>) @@ (g2 :> <<"a", "b">>)
              @@ (s1 :> <<"a", "b", "c">>) @@ (s2 :> <<"a", "b", "c">>)
MCExisting == {{}, {1}, {1, 2}, {1, 2, 3}}
MCForeign == {<<"a", "x">>}
=============================================================================
