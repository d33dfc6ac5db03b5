---------------------------- MODULE MCConstCache ----------------------------
(***************************************************************************)
(* An instance of ConstCache: Object, and up to two classes the program    *)
(* defines; the names Foo and Pi; the expressions Pi, Foo::Pi and ::Foo::Pi. *)
(***************************************************************************)
EXTENDS ConstCache
CONSTANTS Foo, Pi, plain, scoped, qualified

MCPath == [s \in Sites |->
    [toplevel |-> s = qualified,
     prefix   |-> IF s = plain THEN NoPrefix ELSE Foo,
     name     |-> Pi]]
MCInitConsts == [c \in Classes |-> [n \in Names |-> Absent]]
=============================================================================
