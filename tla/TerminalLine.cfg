CONSTANTS
  UINT16_MAX = 4
  BUFF_LEN = 2
  Terminals = {1, 2}
  Letters = {3}
  Counts = {1, 2}
SPECIFICATION FairSpec
INVARIANTS TypeOK LineFaithful
PROPERTY EnterAnswered
