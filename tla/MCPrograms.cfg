CONSTANTS
  BUFSIZE = 3
  NAME_LENGTH = 3
  CMD_LENGTH = 4
  WORD = 2
  LENGTH_MAX = 5
  Directory <- MCDirectory
  Executable <- MCExecutable
  Text <- MCText
  Chars <- MCChars
  Lines <- MCLines
  Stale <- MCStale
SPECIFICATION Spec
INVARIANTS ArgsDelivered OutputExact
