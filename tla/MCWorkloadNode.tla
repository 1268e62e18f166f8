--------------------------- MODULE MCWorkloadNode ---------------------------
(* Small instances of WorkloadNode for TLC.                                 *)
EXTENDS WorkloadNode

\* One taint that comes and goes by itself, one that a user sets (kubectl cordon).
TwoTaints == {"unreachable", "unschedulable"}
OneTaint  == {"unreachable"}
=============================================================================
