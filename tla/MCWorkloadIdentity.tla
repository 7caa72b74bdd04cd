------------------------- MODULE MCWorkloadIdentity -------------------------
(* Small instances of the GCP plugin for TLC.                               *)
EXTENDS WorkloadIdentity, TLC

(* Nothing tells two workers, two profiles or two identities apart.         *)
Symmetry == Permutations(Workers) \cup Permutations(Namespaces)
              \cup Permutations(Identities)
=============================================================================
