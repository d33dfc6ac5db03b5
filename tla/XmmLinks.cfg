SPECIFICATION Spec
CONSTANTS
  one = one
  two = two
  minus_zero = minus_zero
  i = i
  nil = nil
  N = 2
  LocalNum = 1
  Regs <- MCRegs
  Nums <- MCNums
  Floats <- MCFloats
  Ints <- MCInts
  Others <- MCOthers
  Nil = nil
  BoxOf <- MCBoxOf
  ToF <- MCToF
INVARIANTS
  TypeOK
  LinksMutual
  Faithful
  ReadsAgree

