SPECIFICATION ResyncSpec
CONSTANTS
  Profiles = {p1}
  Owners = {alice}
  Controllers = {c1}
  LabelKeys = {injection}
  LabelValues = {enabled}
  InjectionLabel = injection
  Enabled = enabled
  Empty = Empty
  Unset = Unset
  Nil = Nil
  MaxEdits = 3
  MaxLag = 1
  AdminNamespaces = TRUE
  MaxFaults = 1
  MaxRestarts = 1
PROPERTY EventuallySettled
