------------------------------ MODULE SdkBind -------------------------------
(***************************************************************************)
(* Bind: the draft that says how each entity of the intermediate           *)
(* representation is expected to be reached through the generated SDK,     *)
(* spelled the way one of the two generators spells it                     *)
(* (internal/sdkbind/binder*.go).  Nothing here looks at the SDK: a draft  *)
(* is a guess SdkPrune settles.                                            *)
(*                                                                         *)
(* An attribute of the representation is                                   *)
(*   [name, wire, stem, reserved, type, elem, levels, cor, writeOnly,      *)
(*    unsupported, filter, nested]                                         *)
(* with stem the exported form of its wire name, cor one of "required",    *)
(* "optional", "computed" and "computed_optional", and levels the element  *)
(* types below the outer collection.  An operation is                      *)
(*   [path, verb, id, query], path a sequence of [text, parameter, tf]     *)
(* with tf a parameter's Terraform spelling.                               *)
(***************************************************************************)
EXTENDS SdkTypes

Dialects == {"kiota", "openapi-generator"}
Kinds == {"resource", "datasource", "list", "action"}

NoOperation == [path |-> <<>>, verb |-> "", id |-> "", query |-> <<>>]
NoCall == [segments |-> <<>>, params |-> <<>>, query |-> <<>>,
           response |-> NoExpr, request |-> NoExpr, results |-> 0]

(***************************************************************************)
(* Calls.                                                                  *)
(***************************************************************************)
Hop(name, args) == [name |-> name, call |-> TRUE, args |-> args]
Service(stem)   == [name |-> Method("", stem), call |-> FALSE, args |-> <<>>]

\* Path parameters as call locals, in path order.
callParameters(op) ==
  LET named == SelectSeq(op.path, LAMBDA s : s.parameter)
  IN [i \in DOMAIN named |-> [local |-> named[i].text, tf |-> named[i].tf, type |-> Short(Basic("string"))]]
Locals(op) == [i \in DOMAIN callParameters(op) |-> callParameters(op)[i].local]

\* client.Tags().ByTagId(tagId).Patch(ctx, body, nil)
kiotaCall(op, hasBody) ==
  [NoCall EXCEPT
     !.segments = [i \in DOMAIN op.path |->
                     IF op.path[i].parameter THEN Hop(Method("By", op.path[i].text), <<op.path[i].text>>)
                     ELSE Hop(Method("", op.path[i].text), <<>>)]
                  \o << Hop(Method(op.verb, ""),
                            <<"ctx">> \o (IF hasBody THEN <<"body">> ELSE <<>>) \o <<"nil">>) >>,
     !.params = callParameters(op),
     !.query  = op.query]

\* client.TagsAPI.CreateTag(ctx, tagId).Tag(*body).Execute()
generatorCall(op, names, hasBody) ==
  [NoCall EXCEPT
     !.segments = << Service(names.service), Hop(Method("", op.id), <<"ctx">> \o Locals(op)) >>
                  \o (IF hasBody THEN << Hop(Method("", names.model), <<"*body">>) >> ELSE <<>>)
                  \o << Hop(Method("Execute", ""), <<>>) >>,
     !.params = callParameters(op)]

call(op, names, hasBody) ==
  IF op = NoOperation THEN NoCall
  ELSE IF sdk.backend = "kiota" THEN kiotaCall(op, hasBody)
  ELSE generatorCall(op, names, hasBody)

(***************************************************************************)
(* Fields.                                                                 *)
(***************************************************************************)
writable(a, mode) == mode # "read" /\ a.cor # "computed"
readable(mode)    == mode # "write"

\* kiota escapes a name Go reserves; openapi-generator does not.
access(a, mode) ==
  LET spelt(verb) == [verb |-> verb, stem |-> a.stem,
                      esc |-> sdk.backend = "kiota" /\ a.reserved]
  IN [attr |-> a.name, type |-> a.type, elem |-> a.elem, levels |-> a.levels,
      get |-> IF readable(mode) THEN spelt("Get") ELSE NoMethod,
      set |-> IF writable(a, mode) THEN spelt("Set") ELSE NoMethod,
      carried |-> NoExpr, sent |-> NoExpr, parse |-> NoFunc, nmodel |-> NoExpr, nwrite |-> NoExpr,
      kept |-> FALSE, nested |-> <<>>]

\* Attributes nothing models take no binding, and neither does a member the
\* server alone fills under a property that is never read back.
RECURSIVE boundFields(_, _, _)
boundFields(tree, mode, underWriteOnly) ==
  LET bound == SelectSeq(tree, LAMBDA a : ~a.unsupported /\ ~(underWriteOnly /\ a.cor = "computed"))
      field(a) ==
        LET fb == access(a, mode)
            sentOnly == a.writeOnly /\ fb.set # NoMethod
            below    == underWriteOnly \/ sentOnly
        IN [fb EXCEPT !.get    = IF sentOnly THEN NoMethod ELSE @,
                      !.kept   = sentOnly,
                      !.nested = boundFields(a.nested, IF below THEN "write" ELSE mode, below)]
  IN [i \in DOMAIN bound |-> field(bound[i])]

\* A companion data source binds its items' element; a lookup its whole tree.
datasourceElementTree(ds) ==
  IF ds.lookup \/ ~\E i \in DOMAIN ds.attributes : ds.attributes[i].name = "items"
  THEN ds.attributes
  ELSE (CHOOSE a \in Range(ds.attributes) : a.name = "items").nested

(***************************************************************************)
(* Entities.  One record serves the four kinds: an operation an entity     *)
(* does not have is NoCall, a model it does not have NoExpr.               *)
(***************************************************************************)
Unbound == [calls |-> [op \in {"create", "read", "update", "delete", "list", "invoke"} |-> NoCall],
            read |-> NoExpr, write |-> NoExpr, element |-> NoExpr, access |-> NoMethod,
            envelope |-> "", fields |-> <<>>, updateWrite |-> NoExpr, updateFields |-> <<>>,
            createID |-> NoMethod]

Has(eb, op) == eb.calls[op] # NoCall

TreeOf(kind, e) == IF kind = "datasource" THEN datasourceElementTree(e) ELSE e.attributes
ModeOf(kind) == CASE kind = "resource" -> "both" [] kind = "action" -> "write" [] OTHER -> "read"

bindEntity(kind, e) ==
  LET hasBody(op) == op \in {"create", "update"} \/ (op = "invoke" /\ e.attributes # <<>>)
  IN [Unbound EXCEPT
        !.calls    = [op \in DOMAIN @ |-> call(e.ops[op], e.names, hasBody(op))],
        !.envelope = e.envelope,
        !.fields   = boundFields(TreeOf(kind, e), ModeOf(kind), FALSE)]
=============================================================================
