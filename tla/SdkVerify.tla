----------------------------- MODULE SdkVerify ------------------------------
(***************************************************************************)
(* Verify: the settled bindings held to the SDK once more, by walks of     *)
(* their own, before anything is rendered against them                     *)
(* (internal/sdkbind/verify.go).  A problem is [at, sort]; its kind and    *)
(* key are the entity's.                                                   *)
(***************************************************************************)
EXTENDS SdkEntities

problem(at, sort) == {[at |-> at, sort |-> sort]}

\* The signature a chain of hops ends on, or why it does not resolve.
NoSignature == [params |-> <<>>, results |-> <<>>, ok |-> FALSE]
RECURSIVE resolveChain(_, _)
resolveChain(t, segments) ==
  LET seg == Head(segments)
      sig == methodOn(t, seg.name)
  IN IF segments = <<>> THEN NoSignature
     ELSE IF ~seg.call THEN
       IF seg.name.stem \in DOMAIN FieldsOf(t)
       THEN resolveChain(FieldsOf(t)[seg.name.stem], Tail(segments)) ELSE NoSignature
     ELSE IF ~HasMethod(t, seg.name) \/ Len(seg.args) # Len(sig.params) THEN NoSignature
     ELSE IF Len(segments) = 1 THEN [params |-> sig.params, results |-> sig.results, ok |-> TRUE]
     ELSE IF Len(sig.results) = 1 THEN resolveChain(sig.results[1], Tail(segments))
     ELSE NoSignature

callProblems(eb, op) ==
  LET c   == eb.calls[op]
      sig == resolveChain(ClientType, c.segments)
  IN IF ~Has(eb, op) THEN {}
     ELSE IF ~sig.ok THEN problem(<<op>>, "call")
     ELSE IF c.results > 0 /\ c.results # Len(sig.results) THEN problem(<<op>>, "results")
     ELSE IF c.response # NoExpr /\ sig.results # <<>> /\ c.response # Short(sig.results[1])
       THEN problem(<<op>>, "response type")
     ELSE {}

\* The slice the generated code ranges over, reached as recorded.
elementOf(t, way) ==
  LET reached == IF way = NoMethod THEN t
                 ELSE IF HasMethod(t, way) /\ Len(methodOn(t, way).results) = 1
                   THEN methodOn(t, way).results[1]
                 ELSE IF way = Method("", way.stem) /\ way.stem \in DOMAIN FieldsOf(t) THEN FieldsOf(t)[way.stem] ELSE NoType
  IN IF IsShape(reached, "slice") THEN Elem(reached) ELSE NoType

collection(eb) ==
  LET sig     == resolveChain(ClientType, eb.calls["list"].segments)
      element == elementOf(sig.results[1], eb.access)
  IN IF ~Has(eb, "list") THEN {}
     ELSE IF eb.element = NoExpr THEN problem(<<"list">>, "element type")
     ELSE IF ~sig.ok \/ sig.results = <<>> THEN {}
     ELSE IF element = NoType THEN problem(<<"list">>, "collection access")
     ELSE IF Short(element) # eb.element THEN problem(<<"list">>, "element type")
     ELSE {}

(***************************************************************************)
(* Fields, at every depth.                                                 *)
(***************************************************************************)
\* A scalar's recorded type is the getter's own.
checkFieldType(fb, result, at) ==
  IF fb.nested # <<>> \/ fb.carried \in {NoExpr, Short(result)} THEN {} ELSE problem(at, "type")

\* A field's own accessors on the models it reads and writes.
accessor(fb, read, write, at) ==
  LET reads  == fb.get # NoMethod /\ read # NoType
      writes == fb.set # NoMethod /\ write # NoType
  IN (IF ~reads THEN {}
      ELSE IF fb.get \notin Accessors(read) THEN problem(at, "getter")
      ELSE checkFieldType(fb, methodOn(read, fb.get).results[1], at))
     \cup (IF writes /\ ~(HasMethod(write, fb.set) /\ Len(methodOn(write, fb.set).params) = 1)
           THEN problem(at, "setter") ELSE {})

\* A parse companion is looked for in the models package where it is
\* qualified with "models", and in the SDK's root otherwise.
checkParseFunc(fb, at) ==
  LET path == IF fb.parse.q = "models" THEN sdk.models ELSE sdk.root
  IN IF fb.parse = NoFunc \/ functionExists(path, fb.parse.prefix, fb.parse.name, fb.parse.suffix)
     THEN {} ELSE problem(at, "parse function")

RECURSIVE fieldProblems(_, _, _, _)
fieldProblems(fbs, read, write, prefix) ==
  LET below(fb, at) ==
        IF fb.nested = <<>> THEN {}
        ELSE IF fb.nmodel = NoExpr THEN problem(at, "nested model")
        ELSE LET reads  == typeFromExpr(fb.nmodel)
                 writes == IF fb.nwrite = NoExpr THEN NoType ELSE typeFromExpr(fb.nwrite)
             IN (IF reads = NoType THEN problem(at, "nested model") ELSE {})
                \cup (IF fb.nwrite # NoExpr /\ writes = NoType
                      THEN problem(at, "nested write model") ELSE {})
                \cup fieldProblems(fb.nested, reads, writes, at)
      of(fb, at) == accessor(fb, read, write, at) \cup checkParseFunc(fb, at) \cup below(fb, at)
  IN UNION {of(fbs[i], Append(prefix, fbs[i].attr)) : i \in DOMAIN fbs}

\* The models the entity declares, each miss reported once.
fieldModel(e) == IF e = NoExpr THEN NoType ELSE typeFromExpr(e)
modelProblem(e, sort) == IF e # NoExpr /\ fieldModel(e) = NoType THEN problem(<<>>, sort) ELSE {}

VerifyEntity(kind, eb) ==
  LET read  == IF kind \in {"list", "datasource"} /\ eb.element # NoExpr THEN eb.element ELSE eb.read
      write == eb.write
  IN UNION {callProblems(eb, op) : op \in DOMAIN eb.calls}
     \cup collection(eb)
     \cup modelProblem(read, "read model") \cup modelProblem(write, "write model")
     \cup fieldProblems(eb.fields, fieldModel(read), fieldModel(write), <<>>)
=============================================================================
