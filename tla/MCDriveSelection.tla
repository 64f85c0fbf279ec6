-------------------------- MODULE MCDriveSelection --------------------------
(* The drives of the run of DriveSelection: a stick with one volume behind *)
(* an empty container, one without partitions, and a fixed disk with none. *)
EXTENDS DriveSelection, TLC

CONSTANTS disk4, disk5, stick, whole, fixed, photos, backup

OneVolumeEach == (stick :> <<<<>>, <<photos>>>>) @@ (whole :> <<<<backup>>>>) @@ (fixed :> <<>>)

Symmetry == Permutations(Procs) \union Permutations(Passwords) \union Permutations(Nodes)

=============================================================================
