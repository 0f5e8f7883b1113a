------------------------------ MODULE MCQmiProxy ------------------------------
(* An instance of QmiProxy for TLC: one service, as a model value.           *)
EXTENDS QmiProxy

CONSTANT wds
===============================================================================
