------------------------------ MODULE MCRtspRelay ------------------------------
(* Instances of RtspRelay for TLC.                                           *)
EXTENDS RtspRelay
===============================================================================
