------------------------------- MODULE MCQmiMain -------------------------------
(* Model checking of QmiMain: the families dialled in the runs.              *)
EXTENDS QmiMain
v4v6 == {"v4", "v6"}
v4only == {"v4"}
================================================================================
