SPECIFICATION Spec
CONSTANTS
  None = None
  Unreadable = Unreadable
  id1 = id1
  id2 = id2
  Templates <- MCTemplates
  Namespace = "alice"
  Plugins <- MCPlugins
  ExtraLists <- MCExtraLists
  Defaults = {None, id1, id2}
  MaxEdits = 2
  MaxFaults = 2
CHECK_DEADLOCK FALSE
INVARIANTS TypeOK PassIsCurrent
PROPERTIES UserPluginsKept ReleaseRevokes ExtrasAtHome ExtrasFollow Released
