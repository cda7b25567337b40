------------------------------ MODULE MCTcpGate -------------------------------
(***************************************************************************)
(* Small instances of TcpGate for TLC.                                     *)
(***************************************************************************)
EXTENDS TcpGate, TLC

===============================================================================
