SPECIFICATION Spec
CONSTANTS
  CPU = {1, 2}
  Fanout = 2
  Tables <- MCTables
  Pages = 4
  MemType <- MCMemType
  Hooks <- MCHooks
  Instr <- MCInstr
INVARIANTS TypeOK GuestView HookLocal TablesBalanced
PROPERTIES InstructionsRetire
