CONSTANTS
  BLOCK_SIZE = 4
  Files = {"near", "far"}
  Length <- Lengths
  Blocks <- Layout
  num_dir_entries = 2
  Procs = {"p1", "p2"}
  Sizes <- Crossing
  SwitchPoints <- AtUser
SPECIFICATION Spec
INVARIANT ReadFillsContents
