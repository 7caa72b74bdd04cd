SPECIFICATION FairSpec
CONSTANTS
  Workers = {w1, w2}
  AccountWorkers = {w1}
  Kinds = {"default-editor", "editorBinding", "AuthorizationPolicy"}
  Values = {v1, v2}
  Nil = Nil
  RoleEdits = FALSE
  MaxEdits = 1
  MaxFaults = 1
INVARIANT TypeOK
PROPERTIES OnlyMainChanges MainFollows
