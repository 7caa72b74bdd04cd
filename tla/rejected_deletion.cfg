SPECIFICATION FairSpec
CONSTANTS
  Profiles = {p1}
  Owners = {alice, bob}
  Controllers = {c1}
  LabelKeys = {injection}
  LabelValues = {enabled}
  InjectionLabel = injection
  Enabled = enabled
  Empty = Empty
  Unset = Unset
  Nil = Nil
  MaxEdits = 3
  MaxLag = 2
  AdminNamespaces = FALSE
  MaxFaults = 0
  MaxRestarts = 0
PROPERTY DeletionCompletes
