----------------------------- MODULE MCProDrive -----------------------------
(* Symmetry for the safety runs of ProDrive: processes and passwords are   *)
(* interchangeable model values.                                           *)
EXTENDS ProDriveLifecycle

Symmetry == Permutations(Procs) \union Permutations(Passwords)

=============================================================================
