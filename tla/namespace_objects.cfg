SPECIFICATION Spec
CONSTANTS
  None = None
  Nil = Nil
  Profiles = {a, b}
  Users = {alice, bob}
  Workers = {w1}
  Configs <- MCConfigs
  DeletedKinds = {"AuthorizationPolicy", "Policy"}
  MaxEvents = 2
INVARIANTS TypeOK Isolation AccessAsIntended FolderIsolation ReferencesResolve
PROPERTY EventuallyUsable
