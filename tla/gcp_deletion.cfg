SPECIFICATION FairSpec
CONSTANTS
  Workers = {w1}
  Namespaces = {ns1, ns2}
  Identities = {id1, id2}
  Nil = Nil
  Unannotated = Unannotated
  AdministeredRoles = {"roles/other"}
  Invalid = {id2}
  PluginEdits = FALSE
  MaxEdits = 4
  MaxFaults = 1
CHECK_DEADLOCK FALSE
INVARIANT NothingLeft
PROPERTY DeletionFinishes
