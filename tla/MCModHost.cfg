SPECIFICATION LiveSpec
CONSTANTS
  None = None
  MaxId = 2
  MaxMods = 4
  Disks <- SomeDisks
  Drafts <- SomeDrafts
  Edited <- SomeEdited
  Platforms = {"desktop", "web"}
  Seeds = {7}
  MaxEdits = 2
CHECK_DEADLOCK FALSE
INVARIANTS  DependenciesFirst PackagesInstall
PROPERTIES EditsArrive
