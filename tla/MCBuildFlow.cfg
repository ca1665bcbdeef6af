CONSTANTS
  Descriptions <- MCDescriptions
  Keywords <- MCKeywords
  BadInt = BadInt
  MaxEntries = 2
  Sources = {"regs", "project", "prog"}
  MaxEdits = 2
  TooLarge = {1}
SPECIFICATION BuildFlowSpec
INVARIANTS MapDisjoint FieldsFit MultiregComplete HeaderMatchesRtl NamesUnique PageShowsFields
INVARIANTS RoutesKept PortsWired FifosAsAsked AddressesSteered MemoryHoldsProgram SameRegisters
