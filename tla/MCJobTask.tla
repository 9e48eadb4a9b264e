----------------------------- MODULE MCJobTask -----------------------------
(* Model-checking instances of JobTask; the bounds are in the .cfg files.   *)
(* No symmetry: liveness is checked in the same run.                        *)
EXTENDS JobTask
=============================================================================
