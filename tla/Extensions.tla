----------------------------- MODULE Extensions -----------------------------
(***************************************************************************)
(* The static extension registry of crates/rdbms_extension and the scalar  *)
(* functions of the built-in extension "stdlib".                           *)
(*                                                                         *)
(* A value has a type and a number: its value if it is a number, its       *)
(* length if it is a text.  The spelling of a text is left out, and with   *)
(* it what lower and upper change.                                         *)
(***************************************************************************)
EXTENDS Integers, SequencesExt

CONSTANT MinInt  \* i64::MIN

ASSUME MinIntAssumption == MinInt \in Int

\* RDBMS_EXT_ABI_VERSION.
AbiVersion == 1

\* STDLIB_FUNCTIONS: arity and declared return type.
StdlibFunctions ==
    [length |-> [arity |-> 1, returns |-> "INT"],
     lower |-> [arity |-> 1, returns |-> "TEXT"],
     upper |-> [arity |-> 1, returns |-> "TEXT"],
     abs |-> [arity |-> 1, returns |-> "DYNAMIC"],
     typeof |-> [arity |-> 1, returns |-> "TEXT"],
     rdbms_version |-> [arity |-> 0, returns |-> "TEXT"]]

\* builtin_extension_descriptor: the descriptors of this build, by name.
Builtin == [stdlib |-> [abi |-> AbiVersion, kind |-> "static",
                        functions |-> DOMAIN StdlibFunctions]]

\* A registry under construction; "ok" is whether no step has failed.
NewRegistry == [ok |-> TRUE, extensions |-> {}, functions |-> {}]

\* ExtensionRegistry::load: an unknown ABI or a function that is there already is an
\* error, an extension that is there already is not.
Load(registry, name) ==
    LET d == Builtin[name]
    IN  IF d.abi # AbiVersion THEN [registry EXCEPT !.ok = FALSE]
        ELSE IF name \in registry.extensions THEN registry
        ELSE IF registry.functions \cap d.functions # {} THEN [registry EXCEPT !.ok = FALSE]
        ELSE [registry EXCEPT !.functions = @ \cup d.functions,
                              !.extensions = @ \cup {name}]

\* registry_from_installed_extensions: one turn, and all of it.
LoadInstalled(registry, installed) ==
    IF ~registry.ok \/ installed.kind # "static" \/ installed.name \notin DOMAIN Builtin
    THEN [registry EXCEPT !.ok = FALSE]
    ELSE IF installed.abi # Builtin[installed.name].abi THEN [registry EXCEPT !.ok = FALSE]
    ELSE Load(registry, installed.name)

RegistryFrom(extensions) == FoldLeft(LoadInstalled, NewRegistry, extensions)

-----------------------------------------------------------------------------
Ok(type, n) == [ok |-> TRUE, value |-> [type |-> type, n |-> n]]
Error == [ok |-> FALSE]

\* Mutant: abs of i64::MIN wraps around.
AbsWrapping(v) == Ok(v.type, IF v.n < 0 /\ v.n # MinInt THEN -v.n ELSE v.n)

\* abs_value of a number: checked_abs of an integer.
AbsValue(v) ==
    IF v.type = "int" /\ v.n = MinInt THEN Error
    ELSE Ok(v.type, IF v.n < 0 THEN -v.n ELSE v.n)

\* The functions, on arguments of the right number.  NULL gives NULL.
Eval(name, args) ==
    LET v == args[1]
    IN  CASE name = "rdbms_version" -> Ok("text", 25)
          [] name = "typeof" -> Ok("text", [null |-> 4, int |-> 3, text |-> 4, double |-> 6][v.type])
          [] name # "rdbms_version" /\ name # "typeof" /\ v.type = "null" -> Ok("null", 0)
          [] name = "length" /\ v.type = "text" -> Ok("int", v.n)
          [] name \in {"lower", "upper"} /\ v.type = "text" -> Ok("text", v.n)
          [] name = "abs" /\ v.type \in {"int", "double"} -> AbsValue(v)
          [] OTHER -> Error

\* call_scalar: an unknown function or another number of arguments is an error.
CallScalar(registry, name, args) ==
    IF name \notin registry.functions \/ Len(args) # StdlibFunctions[name].arity THEN Error
    ELSE Eval(name, args)

\* The type that execute_select_function reports for a value (scalar_result_type).
ResultType(name, value) ==
    IF StdlibFunctions[name].returns # "DYNAMIC" THEN StdlibFunctions[name].returns
    ELSE [null |-> "NULL", int |-> "INT", text |-> "TEXT", double |-> "DOUBLE"][value.type]
=============================================================================
