SPECIFICATION Spec
CONSTANTS
  Bindings = {"classic"}
  Calls = {"dumps"}
  Options = {{"sort", "default"}}
  MaxMembers = 2
INVARIANTS
  EveryMemberWritten
