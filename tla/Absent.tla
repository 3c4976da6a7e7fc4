------------------------------ MODULE Absent ------------------------------
(* The null value that the modules share: no actor, no request, no model.  *)
CONSTANT None
=============================================================================
