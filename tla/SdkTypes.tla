------------------------------ MODULE SdkTypes ------------------------------
(***************************************************************************)
(* The generated SDK as the loader sees it once it is type-checked: named  *)
(* types with their method sets, and the functions packages declare.       *)
(* Loaded once a run and never changed (internal/sdkbind/loader.go).       *)
(*                                                                         *)
(* A type is a stack of wrappers over a name: w holds "ptr", "slice",      *)
(* "map" (string keyed) and "intmap" from the outside in, p is the import  *)
(* path ("" for Go's own types) and n the name.  A type expression, the    *)
(* text the bindings record, is the same record with the package's name in *)
(* place of its path: two packages of one name are told apart by a type    *)
(* and not by an expression.  Named types over a slice or a map are left   *)
(* out.  A method is named by a record, because the pruner takes names     *)
(* apart: GetTypeEscaped is [verb "Get", stem "Type", esc TRUE].           *)
(***************************************************************************)
EXTENDS Integers, Sequences, SequencesExt, FiniteSets

VARIABLE sdk    \* the loaded SDK and the packages its bindings name

(***************************************************************************)
(* Types, method names, functions.                                         *)
(***************************************************************************)
Named(path, name) == [w |-> <<>>, p |-> path, n |-> name]
Basic(name)       == Named("", name)
NoType            == Basic("")
Wrapped(shape, t) == [t EXCEPT !.w = <<shape>> \o @]
Elem(t)           == [t EXCEPT !.w = Tail(@)]
IsShape(t, shape) == t.w # <<>> /\ Head(t.w) = shape
IsGoMap(t)        == IsShape(t, "map") \/ IsShape(t, "intmap")
Bare(t)           == t.w = <<>>
ErrorType         == Basic("error")
IsNamed(t)        == Bare(t) /\ (t.p # "" \/ t = ErrorType)

NoMethod            == [verb |-> "", stem |-> "", esc |-> FALSE]
Method(verb, stem)  == [verb |-> verb, stem |-> stem, esc |-> FALSE]
Getter(stem)        == Method("Get", stem)
NoFunc              == [q |-> "", prefix |-> "", name |-> "", suffix |-> ""]

StdTime     == Named("time", "Time")
UUID        == Named("uuid", "UUID")
DateOnly    == Named("serialization", "DateOnly")
UntypedNode == Named("serialization", "UntypedNodeable")

\* How Go's own types carry the four scalar kinds an attribute has.
KindOf(name) ==
  CASE name = "string"                                  -> "string"
    [] name = "bool"                                    -> "bool"
    [] name \in {"int32", "int64", "int", "uint8"}      -> "int64"
    [] name \in {"float32", "float64"}                  -> "float64"
    [] OTHER                                            -> ""

(***************************************************************************)
(* Declarations.                                                           *)
(***************************************************************************)
Declared(path, name)       == <<path, name>> \in DOMAIN sdk.decl
Decl(t)                    == sdk.decl[<<t.p, t.n>>]
HasDecl(t)                 == Bare(t) /\ Declared(t.p, t.n)
UnderOf(t)                 == IF HasDecl(t) THEN Decl(t).under
                              ELSE IF t = ErrorType THEN "interface"
                              ELSE IF Bare(t) /\ t.p = "" THEN t.n ELSE ""
functionExists(path, prefix, name, suffix) == <<path, prefix, name, suffix>> \in sdk.funcs

\* The methods a value of t is called with: an interface's own, a named
\* type's and a single pointer's to one.
Receiver(t) == IF IsShape(t, "ptr") /\ UnderOf(Elem(t)) # "interface" THEN Elem(t) ELSE t
Methods(receiver) == IF HasDecl(receiver) THEN Decl(receiver).methods ELSE <<>>
MethodsOf(t) == Methods(Receiver(t))
HasMethod(t, m) == m \in DOMAIN MethodsOf(t)
methodOn(t, m)  == MethodsOf(t)[m]
Accessors(t)    == {m \in DOMAIN MethodsOf(t) :
                      Len(methodOn(t, m).params) = 0 /\ Len(methodOn(t, m).results) = 1}

RECURSIVE structUnder(_)
structUnder(t) == IF IsShape(t, "ptr") THEN structUnder(Elem(t))
                  ELSE IF UnderOf(t) = "struct" THEN t ELSE NoType
Fields(t) == IF t = NoType THEN <<>> ELSE Decl(t).fields
FieldsOf(t) == Fields(structUnder(t))

(***************************************************************************)
(* Expressions and back.                                                   *)
(***************************************************************************)
Short(t) == [w |-> t.w, q |-> IF t.p = "" THEN "" ELSE sdk.name[t.p], n |-> t.n]
NoExpr   == [w |-> <<>>, q |-> "", n |-> ""]

packageDeclaring(q, name) ==
  {path \in DOMAIN sdk.name : sdk.name[path] = q /\ Declared(path, name)}

\* An expression loses one slice and one pointer and is looked up: "models"
\* is known, another qualifier is the one loaded package of that name which
\* declares the type, and what is left is looked up in the SDK's root.
Cut(e, shape)          == IF IsShape(e, shape) THEN Elem(e) ELSE e
TheOnePath(paths)      == IF Cardinality(paths) = 1 THEN CHOOSE path \in paths : TRUE ELSE sdk.root
lookupType(path, name) == IF Declared(path, name) THEN Named(path, name) ELSE NoType
lookupExpr(e) ==
  lookupType(IF ~Bare(e) \/ e.q = "" THEN sdk.root
             ELSE IF e.q = "models" THEN sdk.models
             ELSE TheOnePath(packageDeclaring(e.q, e.n)), e.n)
typeFromExpr(e) == lookupExpr(Cut(Cut(e, "slice"), "ptr"))

(***************************************************************************)
(* What a named type is to the bindings.                                   *)
(***************************************************************************)
\* The companion that parses a generated enumeration, or none.
Companion(t, prefix, suffix) ==
  IF ~functionExists(t.p, prefix, t.n, suffix) THEN NoFunc
  ELSE [q |-> Short(t).q, prefix |-> prefix, name |-> t.n, suffix |-> suffix]
ParseOf(t, kind) == CASE kind = "int64"  -> Companion(t, "Parse", "")
                      [] kind = "string" -> Companion(t, "New", "FromValue")
                      [] OTHER           -> NoFunc
enumParse(t) == IF HasDecl(t) /\ t.p # "" THEN ParseOf(t, KindOf(Decl(t).under)) ELSE NoFunc

carriesAdditionalData(t) == IsNamed(t) /\ HasMethod(t, Getter("AdditionalData"))

nilableType(t) == t.w # <<>> \/ UnderOf(t) = "interface"

\* The model under a nested accessor: every list and map level comes off,
\* then one pointer, and a struct or an interface of the SDK has to be left.
RECURSIVE nestedModelOf(_)
nestedModelOf(t) ==
  IF IsShape(t, "slice") \/ IsGoMap(t) THEN nestedModelOf(Elem(t))
  ELSE LET named == IF IsShape(t, "ptr") THEN Elem(t) ELSE t
       IN IF IsNamed(named) /\ named.p # "" /\ UnderOf(named) \in {"interface", "struct"}
          THEN named ELSE NoType

(***************************************************************************)
(* The model a request body, or an object inside one, is built as: the     *)
(* struct behind an "...able" interface, or the struct itself.             *)
(* expr is NoExpr where nothing can be built, and why says what stops it.  *)
(***************************************************************************)
Refusal(why) == [expr |-> NoExpr, why |-> why]
Builds(t)    == [expr |-> Short(t), why |-> ""]

writeModelFromNamed(t) ==
  IF UnderOf(t) # "interface" THEN Builds(t)
  ELSE LET base == Decl(t).able
       IN IF base = "" \/ ~Declared(t.p, base) \/ ~functionExists(t.p, "New", base, "")
          THEN Refusal("no constructor") ELSE Builds(Named(t.p, base))

\* A request's own type may also be a runtime interface that constructs
\* under its own name, and must be a struct where it is not an interface.
BodyModel(t) ==
  IF t = NoType THEN Refusal("no request body type")
  ELSE IF UnderOf(t) = "interface" /\ Decl(t).able = "" /\ functionExists(t.p, "New", t.n, "")
    THEN Builds(t)
  ELSE IF UnderOf(t) # "interface" /\ structUnder(t) = NoType THEN Refusal("no request body type")
  ELSE writeModelFromNamed(t)
writeModelFor(requestType) == BodyModel(typeFromExpr(requestType))
=============================================================================
