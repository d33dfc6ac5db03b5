-------------------------------- MODULE Words --------------------------------
(***************************************************************************)
(* The bytecode of a function, as a sequence of words: what the bytecode   *)
(* generator encodes, and the interpreter and the JIT compiler decode.     *)
(***************************************************************************)
EXTENDS Encoding

VARIABLES
  unit,       \* the function, its instructions and its words
  pc          \* the word that is executed next

code == unit.code

\* The words that hold the cache of a call are never decoded.
IsCache(j) == \E d \in {1, 2} : j > d /\ code[j - d].code \in {1, 19}
InstructionStart(j) == j \in DOMAIN code /\ ~IsCache(j)
=============================================================================
