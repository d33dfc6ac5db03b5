----------------------------- MODULE IvarStore -----------------------------
(***************************************************************************)
(* What instance variables promise a Ruby program: every object maps each  *)
(* name to the value last set, reading a name never set gives nil, and an  *)
(* immediate has none and refuses to be given one.                         *)
(***************************************************************************)
CONSTANTS Objs,     \* objects that can have instance variables
          Packed,   \* immediates
          Names, Vals, Nil, Raised, Unset, NoReply
VARIABLES store, reply   \* reply: what the last operation answered
vars == <<store, reply>>

Answer(op, o, n, v) == reply' = [op |-> op, recv |-> o, name |-> n, value |-> v]
IsSet(o, n) == o \in Objs /\ store[o][n] # Unset
SetNames(o) == {n \in Names : IsSet(o, n)}

Init == store = [o \in Objs |-> [n \in Names |-> Unset]] /\ reply = NoReply

Get(o, n) == /\ Answer("get", o, n, IF IsSet(o, n) THEN store[o][n] ELSE Nil)
             /\ UNCHANGED store

Inspect(o) == /\ reply' = [op |-> "inspect", recv |-> o,
                           value |-> [n \in SetNames(o) |-> store[o][n]]]
              /\ UNCHANGED store

Set(o, n, v) == /\ Answer("set", o, n, v)
                /\ store' = [store EXCEPT ![o][n] = v]

Refuse(o, n) == Answer("set", o, n, Raised) /\ UNCHANGED store

\* Anything else a program does.
Other == reply' = NoReply /\ UNCHANGED store

Next == \/ Other
        \/ \E o \in Objs \cup Packed : Inspect(o)
        \/ \E o \in Objs \cup Packed, n \in Names : Get(o, n)
        \/ \E o \in Objs, n \in Names, v \in Vals : Set(o, n, v)
        \/ \E o \in Packed, n \in Names : Refuse(o, n)

Spec == Init /\ [][Next]_vars
=============================================================================
