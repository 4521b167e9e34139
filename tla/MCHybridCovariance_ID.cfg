CONSTANTS
  MaxComps = 2
  MaxOuter = 1
  CentralBlocks <- MCCentralBlocksWithID
  WeightValues <- MCWeightValues
SPECIFICATION Spec
INVARIANTS
  RandomizeIsSquareRoot
