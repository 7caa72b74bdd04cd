SPECIFICATION Spec
CONSTANTS
  Profiles = {p1}
  Owners = {alice, bob}
  Controllers = {c1}
  LabelKeys = {injection}
  LabelValues = {enabled}
  InjectionLabel = injection
  Enabled = enabled
  Empty = Empty
  Unset = Unset
  Nil = Nil
  MaxEdits = 3
  MaxLag = 2
  AdminNamespaces = TRUE
  MaxFaults = 1
  MaxRestarts = 1
SYMMETRY Symmetry
INVARIANTS TypeOK CopiesAreCurrent
PROPERTIES NoTakeover LabelsAsConfigured OwnFinalizerOnly
