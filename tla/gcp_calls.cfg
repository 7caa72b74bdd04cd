SPECIFICATION Spec
CONSTANTS
  Workers = {w1, w2}
  Namespaces = {ns1, ns2}
  Identities = {id1, id2}
  Nil = Nil
  Unannotated = Unannotated
  AdministeredRoles = {"roles/iam.workloadIdentityUser", "roles/other"}
  Invalid = {}
  PluginEdits = TRUE
  MaxEdits = 2
  MaxFaults = 1
SYMMETRY Symmetry
CHECK_DEADLOCK FALSE
INVARIANT TypeOK
PROPERTIES KeepsPromise OtherRolesKept
