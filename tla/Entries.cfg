SPECIFICATION Spec
CONSTANTS
  Bindings = {"universal", "cpython", "classic"}
  Calls = {"dumps", "dump", "loads", "load"}
  Options = {{}, {"sort"}, {"default"}, {"badKey"}, {"badKey", "default"}}
  MaxMembers = 2
INVARIANTS
  NothingHeld
  MemoryHeld
  EveryMemberWritten
PROPERTIES
  KeepsContract
