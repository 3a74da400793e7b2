SPECIFICATION Spec
CONSTANTS
    Bytes <- MCBytes
    MaxBytes = 3
    ZeroWords <- MCZeroWords
    MaxUnits = 2
    MaxZeros = 1
INVARIANTS
    TypeOK
    UnitsRecovered
PROPERTIES EveryUnitParsed EveryStepConsumes
CHECK_DEADLOCK FALSE
