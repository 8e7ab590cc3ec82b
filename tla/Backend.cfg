SPECIFICATION BackendSpec
CONSTANTS
  AddrType = {"ADDR_SYMBOL_NAME", "ADDR_IMM_INT"}
  Name = {"a"}
  Magnitude = {1}
  MaxItems = 2
  Register = {3, 5, 8, 15, 17, 24}
  Opcode = {"MIPS_add", "MIPS_li", "MIPS_mult", "MIPS_sw", "MIPS_jr", "MIPS_mfhi", "MIPS_jal"}
  MaxInstr = 2
INVARIANTS
  FreesOnce
  OnlyTextsLeak
  LinesTellItems
  LinesFollowInstructions
  NamesReturned
  LinesTellInstructions
  EnterSavesFrame
