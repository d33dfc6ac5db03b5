CONSTANTS
  Functions <- MCFunctions
  Deep <- MCDeep
  Objects <- MCObjects
  ArgLists <- MCArgLists
  MaxDepth = 5
  MaxSlot = 12
SPECIFICATION Spec
INVARIANTS
  TypeOK
  BindsLikeRuby
  CfpIsTheRunningFrame
  BlocksRunWhereWritten
  WalksEndAtFrames
PROPERTY ErrorsReachTheEntry
CHECK_DEADLOCK FALSE
