---------------------------- MODULE MCApiVersions ----------------------------
(* Small instances of ApiVersions for TLC.                                  *)
EXTENDS ApiVersions, TLC

ObjectSymmetry == Permutations(Objects)
=============================================================================
