CONSTANTS
  Terminals = {"t1"}
  Others = {"packet"}
  MaxEdits = 1
  MaxInterrupts = 2
SPECIFICATION Spec
INVARIANTS TypeOK EditsKept OwnKept ConfigInUse 
