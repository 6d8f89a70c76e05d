SPECIFICATION FairSpec
CONSTANTS
  Keys = {"lshift", "ctrl", "alt", "c", "f1", "f2"}
  Repeats = {"ctrl"}
  QUEUE_MAX = 1
  DEPTH_MAX = 2
  TimerStages = {"pit", "unmask_keys", "keyboard_init", "terminal_open", "sti", "up"}
  KeyStages = {"up"}
INVARIANTS FlagsFollowKeys SwitchesAsAsked  NothingStuck
PROPERTIES OneByOne KeysRead
