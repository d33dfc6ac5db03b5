---------------------------- MODULE MethodLookup ----------------------------
(***************************************************************************)
(* Method resolution of monoruby: class objects, superclass links, method  *)
(* tables, call sites, and Globals::find_method / check_arg.               *)
(* A class id is a member of Classes; NoClass is `None` as a superclass    *)
(* and ClassId(0) in an inline cache, which no value has.                  *)
(***************************************************************************)
CONSTANTS
    Classes, NoClass,
    Super,          \* [Classes -> Classes \cup {NoClass}]: super_class_id
    Names,          \* method names (IdentId)
    Objs,           \* receivers the call sites may see
    ISeqs,          \* FuncKind::ISeq: methods written in Ruby
    Attrs,          \* FuncKind::AttrReader / AttrWriter
    Builtins,       \* FuncKind::Builtin
    NoFunc,         \* `None` as FuncId, and an absent callee_codeptr
    Sites,          \* MethodCall instructions of the modelled method body
    SiteName,       \* [Sites -> Names]
    Accepts         \* [Sites -> SUBSET Funcs]: the site's argument count is accepted

Funcs == ISeqs \cup Attrs \cup Builtins

ASSUME LookupAssumption ==
    /\ NoClass \notin Classes
    /\ Super \in [Classes -> Classes \cup {NoClass}]
    /\ NoFunc \notin Funcs
    /\ SiteName \in [Sites -> Names]
    /\ Accepts \in [Sites -> SUBSET Funcs]

MethodTables == [Classes -> [Names -> Funcs \cup {NoFunc}]]

(* The walk of find_method: the table of the class, then of each superclass. *)
FindMethod(tables, class, name) ==
    LET find[c \in Classes] ==
            IF tables[c][name] # NoFunc \/ Super[c] = NoClass
            THEN tables[c][name]
            ELSE find[Super[c]]
    IN  find[class]

(* find_method_checked: None when no method is found or check_arg refuses   *)
(* the number of arguments the site passes.                                 *)
Resolve(tables, class, s) ==
    LET f == FindMethod(tables, class, SiteName[s])
    IN  IF f \in Accepts[s] THEN f ELSE NoFunc

(* add_method: the table entry is overwritten. *)
AddMethod(tables, class, name, f) == [tables EXCEPT ![class][name] = f]
=============================================================================
