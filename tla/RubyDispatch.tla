---------------------------- MODULE RubyDispatch ----------------------------
(***************************************************************************)
(* What a method call promises: it invokes the method that resolution      *)
(* finds for the receiver's class at the moment of the call, whatever was  *)
(* cached or compiled before.                                              *)
(***************************************************************************)
EXTENDS MethodLookup
CONSTANTS InitMethods, InitClass, NoCall
VARIABLES methods,  \* the method tables
          classOf,  \* class of every receiver
          invoked   \* the call the last step made: its site, receiver, and callee
                    \* or NoFunc; NoCall if it made none
vars == <<methods, classOf, invoked>>

Init == /\ methods = InitMethods
        /\ classOf = InitClass
        /\ invoked = NoCall

Define == /\ \E c \in Classes, n \in Names, f \in Funcs :
                methods' = AddMethod(methods, c, n, f)
          /\ invoked' = NoCall /\ UNCHANGED classOf

ChangeClass == /\ classOf' \in [Objs -> Classes]
               /\ invoked' = NoCall /\ UNCHANGED methods

\* Anything else a program does.
Other == invoked' = NoCall /\ UNCHANGED <<methods, classOf>>

Call(s, r) == /\ invoked' = [site |-> s, recv |-> r,
                             func |-> Resolve(methods, classOf[r], s)]
              /\ UNCHANGED <<methods, classOf>>

Next == \/ Define
        \/ ChangeClass
        \/ Other
        \/ \E s \in Sites, r \in Objs : Call(s, r)

Spec == Init /\ [][Next]_vars
=============================================================================
