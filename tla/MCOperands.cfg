SPECIFICATION Spec
CONSTANTS
  NRegisters = 4
  NBanks = 2
  Lanes = 2
  MaxBundles = 5
  Code <- MCCode
  Liberties = {}
INVARIANTS
  OperandsAreMeant
  CopiesAreMeant
  WritesLand
