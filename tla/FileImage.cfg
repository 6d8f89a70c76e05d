CONSTANTS
  BLOCK_SIZE = 4
  MAX_FNAME_LENGTH = 2
  ELF_HEADER_SIZE = 3
  Chars = {1, 2}
  Lengths = {3, 6, 7, 10}
  BlockNumbers = {3, 4, 7}
  Entries = {0, 1, 2}
  PAGE_VIRT_ADDR = 1
  PAGE_END = 3
SPECIFICATION Spec
INVARIANTS LookupExact ImageLoaded
