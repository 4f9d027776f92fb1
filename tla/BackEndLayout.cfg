SPECIFICATION Spec
CONSTANTS
  ImmBits = 6
  WordBits = 9
  MAX_REGISTERS = 5
  FREE_REG_START = 5
  FREE_REG_END = 7
  Names <- MCNames
  Imms = {1, 100}
  Operands = {0, 5, 6, 10}
  DirectImms <- MCDirectImms
  MaxNodes = 3
  MaxUnits = 2
  ELF_TEXT_OFF = 8
  ELF_SH_OFF = 140
  ELF_SH_SIZE = 3
  ELF_INIT_SIZE = 256
  ELF_PHDR_OFF = 4
  ELF_PHDR_SIZE = 3
  ELF_SYMTAB_ENTSIZE = 2
  SHSTRTAB_SIZE = 14
  NameLen <- MCNameLen
INVARIANTS CallsLand SymbolsPoint NativeComputes LentInTurn ImageReadable
CHECK_DEADLOCK FALSE
