--------------------------- MODULE MCQmiTransaction ---------------------------
(* Instances of QmiTransaction for TLC: the services, as model values.       *)
EXTENDS QmiTransaction

CONSTANTS ctl, wds, nas
===============================================================================
