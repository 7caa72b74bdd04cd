------------------------------ MODULE MCAwsIam ------------------------------
(* Small instances of the AWS plugin for TLC.                               *)
EXTENDS AwsIam, TLC

(* Nothing tells two workers, two profiles or two roles apart.              *)
Symmetry == Permutations(Workers) \cup Permutations(Namespaces)
              \cup Permutations(Identities)
=============================================================================
