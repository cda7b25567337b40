------------------------------- MODULE MCCrew --------------------------------
(***************************************************************************)
(* Small instances of Crew for TLC.                                        *)
(***************************************************************************)
EXTENDS Crew, TLC
===============================================================================
