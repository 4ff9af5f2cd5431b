---------------------------- MODULE MCCommandLine ----------------------------
(***************************************************************************)
(* CommandLine for TLC, whose bounds are given in the configurations.      *)
(***************************************************************************)
EXTENDS CommandLineProperties
=============================================================================
