-------------------------- MODULE NamespaceLabels --------------------------
(***************************************************************************)
(* The default labels of the kubeflow Config and the function that applies *)
(* them to a namespace (setNamespaceLabels).  A label map gives every key  *)
(* a value, the empty string or Unset, which stands for an absent key.     *)
(***************************************************************************)
CONSTANTS
  LabelKeys,    \* the label keys anybody uses
  LabelValues,  \* the label values other than the empty string
  Empty,        \* the empty string
  Unset         \* what a map without the key has there

ASSUME LabelAssumption ==
  /\ Empty \notin LabelValues
  /\ Unset \notin LabelValues
  /\ Empty # Unset

LabelMap == [LabelKeys -> LabelValues \cup {Empty, Unset}]

Unlabelled == [k \in LabelKeys |-> Unset]

\* Mutant: a default replaces the value that is present.
SetEveryLabel(labels, defaults) ==
  [k \in LabelKeys |->
     CASE defaults[k] = Empty -> Unset
       [] defaults[k] \in LabelValues -> defaults[k]
       [] OTHER -> labels[k]]

(***************************************************************************)
(* An empty default removes the key, another default is added where the    *)
(* key is absent; a key that is present, or has no default, is left alone. *)
(***************************************************************************)
SetNamespaceLabels(labels, defaults) ==
  [k \in LabelKeys |->
     CASE defaults[k] = Empty -> Unset
       [] defaults[k] \in LabelValues /\ labels[k] = Unset -> defaults[k]
       [] OTHER -> labels[k]]

(* What the defaults ask of a namespace: removed keys are absent and every  *)
(* other default key is present, with whatever value.                       *)
Conforms(labels, defaults) ==
  \A k \in LabelKeys :
    /\ defaults[k] = Empty => labels[k] = Unset
    /\ defaults[k] \in LabelValues => labels[k] # Unset
=============================================================================
