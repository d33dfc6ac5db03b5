-------------------------- MODULE MCMethodDispatch --------------------------
(***************************************************************************)
(* An instance of MethodDispatch with the classes Integer and Float, whose *)
(* superclass is Object, and the singleton class Meta that a class object  *)
(* gets when it is opened.  Integer has an inlinable to_f; the other       *)
(* classes have nothing until a definition adds it.                        *)
(***************************************************************************)
EXTENDS MethodDispatch
CONSTANTS Object, Integer, Float, Meta,
          int, flt, klass, to_f, int_to_f, attr, ruby_f, by_self, by_recv

MCSuper     == [c \in Classes |-> IF c = Object THEN NoClass ELSE Object]
MCInitClass == [o \in Objs |-> CASE o = int -> Integer
                                 [] o = flt -> Float
                                 [] OTHER   -> Object]
InlineInit  == [c \in Classes |-> [n \in Names |->
                  IF c = Integer THEN int_to_f ELSE NoFunc]]
ISeqInit    == [c \in Classes |-> [n \in Names |-> IF c = Object THEN ruby_f ELSE NoFunc]]
MCSiteName  == [s \in Sites |-> to_f]
\* One of the sites passes an argument, which an attr_reader and to_f refuse.
ArgToRecv   == [s \in Sites |-> IF s = by_recv THEN ISeqs ELSE Funcs]
ArgToSelf   == [s \in Sites |-> IF s = by_self THEN ISeqs ELSE Funcs]
MCMetaChain == [o \in Openable |-> {o}]
MCSingleton == [o \in Openable |-> Meta]
=============================================================================
