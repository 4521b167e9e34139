CONSTANTS
  MaxComps = 2
  MaxOuter = 2
  CentralBlocks <- MCCentralBlocks
  WeightValues <- MCWeightValues
SPECIFICATION Spec
INVARIANTS
  TypeOK
  MultiplyIsHybridSum
  RandomizeIsSquareRoot
PROPERTY
  ImplementsContract
