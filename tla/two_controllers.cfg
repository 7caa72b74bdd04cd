SPECIFICATION Spec
CONSTANTS
  Profiles = {p1}
  Owners = {alice}
  Controllers = {c1, c2}
  LabelKeys = {injection}
  LabelValues = {enabled}
  InjectionLabel = injection
  Enabled = enabled
  Empty = Empty
  Unset = Unset
  Nil = Nil
  MaxEdits = 2
  MaxLag = 1
  AdminNamespaces = FALSE
  MaxFaults = 0
  MaxRestarts = 0
SYMMETRY Symmetry
INVARIANT QuietIsSettled
PROPERTY OwnFinalizerOnly
