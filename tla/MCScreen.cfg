CONSTANTS
  WIDTH = 2
  HEIGHT = 2
  PAGE = 5
  BUFF_LEN = 3
  Terminals = {0, 1}
  TORN_MAX = 1
  EVENTS_MAX = 5
  Typed <- MCTyped
  Texts <- MCTexts
SPECIFICATION Spec
INVARIANTS EchoShown  
CHECK_DEADLOCK FALSE
