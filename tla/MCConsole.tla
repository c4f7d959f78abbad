----------------------------- MODULE MCConsole -----------------------------
(***************************************************************************)
(* The console with two scripts, one of which runs the other, and with any *)
(* sequence of commands at the terminal.                                   *)
(***************************************************************************)
EXTENDS Console

MCScripts == [boot |-> <<"pdp8", "demo", "run">>, demo |-> <<"step", "run", "exit", "linc">>]
MCStartup == {"boot", "demo"}
MCPoints == {<<0, 0>>}
MCFlags == {"RUN", "8MODE", "FLO"}
=============================================================================
