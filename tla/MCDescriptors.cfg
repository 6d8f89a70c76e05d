CONSTANTS
  Procs = {p1, p2}
  FD_MIN_IDX = 2
  FD_MAX_IDX = 4
  CtrlCPoints <- LeakFree
  SwitchPoints <- AtUser
SPECIFICATION Spec
INVARIANTS DescriptorsAgree NullNeverCalled NoLeak
SYMMETRY Symmetry
