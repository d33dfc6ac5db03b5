SPECIFICATION MergeSpec
CONSTANTS
  one = one
  two = two
  minus_zero = minus_zero
  i = i
  nil = nil
  N = 3
  LocalNum = 2
  Regs <- MCRegs
  Nums <- MCNums
  Floats <- MCFloats
  Ints <- MCInts
  Others <- MCOthers
  Nil = nil
  BoxOf <- MCBoxOf
  ToF <- MCToF
INVARIANTS
  Faithful
  UnaliasedMergesArrive

