----------------------------- MODULE MCMbimCommand -----------------------------
(* Instances of MbimCommand for TLC.                                         *)
EXTENDS MbimCommand
===============================================================================
