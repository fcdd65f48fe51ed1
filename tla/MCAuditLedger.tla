---------------------------- MODULE MCAuditLedger ----------------------------
(* Model checking of AuditLedger: two nexus processes and a file that is     *)
(* rotated at two entries.                                                   *)
EXTENDS AuditLedger, TLC

CONSTANTS p1, p2
ProcSymmetry == Permutations({p1, p2})
=============================================================================
