------------------------------ MODULE MCMbimMain ------------------------------
(* Instances of MbimMain for TLC.                                            *)
EXTENDS MbimMain
===============================================================================
