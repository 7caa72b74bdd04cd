------------------------ MODULE MCProfileController ------------------------
(* Small instances of the profile controller for TLC.                       *)
EXTENDS ProfileController, TLC

(* Nothing tells two profiles, two users or two processes apart.            *)
Symmetry == Permutations(Profiles) \cup Permutations(Owners)
              \cup Permutations(Controllers)
=============================================================================
