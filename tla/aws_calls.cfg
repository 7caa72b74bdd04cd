SPECIFICATION FairSpec
CONSTANTS
  Workers = {w1}
  Namespaces = {ns1, ns2}
  Identities = {id1, id2}
  Nil = Nil
  Unannotated = Unannotated
  Unreadable = Unreadable
  MaxStatements = 1
  PluginEdits = FALSE
  MaxEdits = 4
  MaxFaults = 2
CHECK_DEADLOCK FALSE
INVARIANTS TypeOK NothingLeft
PROPERTIES KeepsPromise DeletionFinishes
