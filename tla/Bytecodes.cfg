CONSTANTS
  LocalNames <- MCLocalNames
  Units <- MCUnits
  MaxCalls = 2
  MaxSlot = 16
  WordBits = 6
  CountBits = 3
  ImmBits = 3
  MaxOperand = 40
  MaxCount = 12
SPECIFICATION Spec
INVARIANTS
  TypeOK
  AgreesWithRuby
  InFrame
  DecodersAgree
  EmitsClosedCode
  StaysInCode
  RejectsOnlyJumps
  ArithmeticExact
  LoopsAreNested
  UnneededAreDead
  JitCompiles
PROPERTIES
  Halts
  StaysInFrame
CHECK_DEADLOCK FALSE
