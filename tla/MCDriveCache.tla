---------------------------- MODULE MCDriveCache ----------------------------
(* Symmetry for the run of DriveCache: processes and passwords are         *)
(* interchangeable model values.                                           *)
EXTENDS DriveCache

Symmetry == Permutations(Procs) \union Permutations(Passwords)

=============================================================================
