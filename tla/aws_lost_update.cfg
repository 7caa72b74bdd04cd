SPECIFICATION Spec
CONSTANTS
  Workers = {w1, w2}
  Namespaces = {ns1, ns2}
  Identities = {id1}
  Nil = Nil
  Unannotated = Unannotated
  Unreadable = Unreadable
  MaxStatements = 1
  PluginEdits = FALSE
  MaxEdits = 1
  MaxFaults = 0
SYMMETRY Symmetry
CHECK_DEADLOCK FALSE
PROPERTY OnlyRevokeRemoves
