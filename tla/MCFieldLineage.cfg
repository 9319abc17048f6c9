SPECIFICATION FieldSpec
CONSTANTS
  Columns <- MCColumns
  Sources <- MCSources
  Tagged <- MCTagged
  MAX_DEPTH = 2
  Null = Null
INVARIANTS
  DerivationsAreReal
  ExposureIsTheColumnReach
