---------------------------- MODULE SdkEntities -----------------------------
(***************************************************************************)
(* Prune, one level up: the calls an entity makes and the models it reads  *)
(* and writes, and what takes the whole entity out (prune_calls.go,        *)
(* prune_list.go, prune.go).  A resolver answers the settled call or       *)
(* binding with why, "" where it stands, and the log.                      *)
(***************************************************************************)
EXTENDS SdkPrune

(***************************************************************************)
(* Hops of a call.  A repair is the method the SDK really has there, and   *)
(* there is one only where there is exactly one candidate.                 *)
(***************************************************************************)
TheOnly(S) == IF Cardinality(S) = 1 THEN CHOOSE x \in S : TRUE ELSE NoMethod

OneIn_OneOut(t, m) == Len(methodOn(t, m).params) = 1 /\ Len(methodOn(t, m).results) = 1
BodyArgs == {"body", "*body"}

\* What an indexer and a body setter are repaired with.
repairIndexer(t, seg) ==
  IF seg.name.verb # "By" \/ Len(seg.args) # 1 THEN NoMethod
  ELSE TheOnly({m \in DOMAIN MethodsOf(t) : m.verb = "By" /\ OneIn_OneOut(t, m)})

repairBodySetter(t, seg) ==
  IF Len(seg.args) # 1 \/ Range(seg.args) \cap BodyArgs = {} THEN NoMethod
  ELSE TheOnly({m \in DOMAIN MethodsOf(t) :
                  /\ m # Method("Execute", "") /\ OneIn_OneOut(t, m)
                  /\ structUnder(methodOn(t, m).params[1]) # NoType})

OrElse(name, other) == IF name # NoMethod THEN name ELSE other
MethodHop(t, seg) == IF HasMethod(t, seg.name) THEN seg.name
                     ELSE OrElse(repairIndexer(t, seg), repairBodySetter(t, seg))

\* A service field is the one drafted, or the only one of the struct whose
\* type has the method called next; renaming it is not recorded.
TheOnlyField(names) == IF Cardinality(names) = 1 THEN CHOOSE f \in names : TRUE ELSE ""
FieldAmong(fields, seg, next) ==
  IF seg.name.stem \in DOMAIN fields THEN seg.name.stem
  ELSE TheOnlyField({f \in DOMAIN fields : next.call /\ HasMethod(fields[f], next.name)})
FieldHop(t, seg, next) == FieldAmong(FieldsOf(t), seg, next)

\* The locals this hop passes take the type the method really declares.
settleParameterTypes(params, seg, sig) ==
  [i \in DOMAIN params |->
     LET at == {a \in DOMAIN seg.args : seg.args[a] = params[i].local}
     IN IF at = {} THEN params[i]
        ELSE [params[i] EXCEPT !.type = Short(sig.params[CHOOSE a \in at : TRUE])]]

\* The walk from hop i on, standing on type t with call c settled so far.
Stopped(c) == [call |-> c, sig |-> <<>>, why |-> "unresolvable call", log |-> {}]
AtLastHop(c, i) == i = Len(c.segments)

RECURSIVE Walk(_, _, _)
OverField(c, i, t, field) ==
  IF field = "" \/ AtLastHop(c, i) THEN Stopped(c)
  ELSE Walk([c EXCEPT !.segments[i].name = Method("", field)], i + 1, FieldsOf(t)[field])
Onward(hop, i, sig) ==
  IF AtLastHop(hop, i) THEN [call |-> hop, sig |-> sig, why |-> "", log |-> {}]
  ELSE IF Len(sig.results) # 1 THEN Stopped(hop)
  ELSE Walk(hop, i + 1, sig.results[1])
OverMethod(c, i, sig) ==
  IF Len(c.segments[i].args) # Len(sig.params) THEN Stopped(c)
  ELSE Onward([c EXCEPT !.params = settleParameterTypes(@, c.segments[i], sig)], i, sig)
ByMethod(c, i, t, name) ==
  IF name = NoMethod THEN Stopped(c)
  ELSE Noting(OverMethod([c EXCEPT !.segments[i].name = name], i, methodOn(t, name)),
              Settled(<<>>, c.segments[i].name, name))
Walk(c, i, t) ==
  IF c.segments[i].call THEN ByMethod(c, i, t, MethodHop(t, c.segments[i]))
  ELSE OverField(c, i, t, FieldHop(t, c.segments[i], c.segments[IF AtLastHop(c, i) THEN i ELSE i + 1]))

ClientType == Named(sdk.root, sdk.client)

\* The type a body hop's parameter has, following the settled segments.
RECURSIVE BodyType(_, _)
BodyFrom(segments, sig, at) ==
  IF at # {} THEN Short(sig.params[CHOOSE a \in at : TRUE])
  ELSE IF Len(sig.results) # 1 THEN NoExpr
  ELSE BodyType(Tail(segments), sig.results[1])
BodyType(segments, t) ==
  IF segments = <<>> THEN NoExpr
  ELSE IF ~Head(segments).call THEN BodyType(Tail(segments), FieldsOf(t)[Head(segments).name.stem])
  ELSE BodyFrom(segments, methodOn(t, Head(segments).name),
                {a \in DOMAIN Head(segments).args : Head(segments).args[a] \in BodyArgs})

HttpResponse == [w |-> <<"ptr">>, q |-> "http", n |-> "Response"]

settleCall(c, sig) ==
  LET first == IF sig.results = <<>> THEN NoExpr ELSE Short(sig.results[1])
  IN [c EXCEPT !.results  = Len(sig.results),
               !.response = IF first \in {Short(ErrorType), HttpResponse} THEN NoExpr ELSE first,
               !.request  = BodyType(c.segments, ClientType)]

\* The trailing nil gives way to the query parameters the operation requires
\* where the method's last parameter carries every one of them; otherwise
\* the call is made without.
settleQueryParameters(c, sig) ==
  LET args  == c.segments[Len(c.segments)].args
      last  == sig.params[Len(sig.params)]
      takes == Decl(Elem(last)).query
      fits(q) == /\ q.name \in DOMAIN takes /\ IsShape(takes[q.name], "ptr")
                 /\ kindCompatible(q.kind, UnderOf(Elem(takes[q.name])))
  IN IF /\ c.query # <<>> /\ sig.params # <<>> /\ args # <<>> /\ args[Len(args)] = "nil"
        /\ IsShape(last, "ptr") /\ HasDecl(Elem(last)) /\ takes # <<>>
        /\ \A i \in DOMAIN c.query : fits(c.query[i])
     THEN [c EXCEPT !.segments[Len(c.segments)].args[Len(args)] = "query"]
     ELSE c

\* Keeps the hops as they were drafted.
Typed(walked) ==
  IF walked.why # "" THEN walked
  ELSE [walked EXCEPT !.call = settleQueryParameters(settleCall(@, walked.sig), walked.sig)]
resolveCallDrafted(c) == [Typed(Walk(c, 1, ClientType)) EXCEPT !.call.segments = c.segments]
resolveCall(c) == Typed(Walk(c, 1, ClientType))

(***************************************************************************)
(* A list's elements: the answer itself, what the observed envelope key    *)
(* names, or the only slice the answer carries.                            *)
(***************************************************************************)
sliceGetters(t) == {m \in Accessors(t) : IsShape(methodOn(t, m).results[1], "slice")}
sliceFields(t)  == {f \in DOMAIN FieldsOf(t) : IsShape(FieldsOf(t)[f], "slice")}

\* How the slice is reached from an answer of type t; no way is "".
ByWay(way, sequence) == [access |-> way, element |-> Elem(sequence)]
NoWay == [access |-> NoMethod, element |-> NoType]
Among(t, envelope, getters, fields) ==
  LET getter == IF envelope # "" /\ Getter(envelope) \in getters THEN Getter(envelope)
                ELSE IF envelope \in fields THEN NoMethod ELSE TheOnly(getters)
      field  == IF envelope \in fields THEN envelope ELSE TheOnlyField(fields)
  IN IF IsShape(t, "slice") THEN ByWay(NoMethod, t)
     ELSE IF getter # NoMethod THEN ByWay(getter, methodOn(t, getter).results[1])
     ELSE IF field # "" THEN ByWay(Method("", field), FieldsOf(t)[field])
     ELSE NoWay
ListAccess(t, envelope) == Among(t, envelope, sliceGetters(t), sliceFields(t))

Reached(r, found) ==
  [call |-> r.call, log |-> r.log, access |-> found.access, element |-> found.element,
   why |-> IF found.element = NoType THEN "unbuildable" ELSE ""]
ElementOfAnswer(r, envelope) ==
  Reached(r, IF r.why = "" /\ r.call.response # NoExpr
             THEN ListAccess(r.sig.results[1], envelope) ELSE NoWay)
resolveListElement(c, envelope) == ElementOfAnswer(resolveCall(c), envelope)

(***************************************************************************)
(* Entities.                                                               *)
(***************************************************************************)
Stands(eb, log)     == [eb |-> eb, why |-> "", log |-> log]
Falls(eb, why, log) == [eb |-> eb, why |-> why, log |-> log \cup {Removed(<<>>, why)}]

\* Every call in the order it is drafted, up to the first the SDK lacks.
WithCall(r, op, next) ==
  IF next.why # "" THEN next
  ELSE IF r.why # "" THEN Falls(next.eb, r.why, next.log \cup r.log)
  ELSE Stands([next.eb EXCEPT !.calls[op] = r.call], next.log \cup r.log)
ResolveCalls(eb, ops) ==
  FoldLeft(LAMBDA done, op : IF Has(eb, op) THEN WithCall(resolveCall(eb.calls[op]), op, done) ELSE done,
           Stands(eb, {}), ops)

Readable(fbs) == \E i \in DOMAIN fbs : fbs[i].get # NoMethod
Settable(fbs) == \E i \in DOMAIN fbs : fbs[i].set # NoMethod

\* The model a request is built as, and the type its setters live on.
BodyOf(built, type) ==
  [expr |-> built.expr, type |-> type,
   why  |-> IF built.expr # NoExpr /\ type = NoType THEN "no nested model" ELSE built.why]
BodyAs(built) == BodyOf(built, WriteType(built))
Body(request) == BodyAs(IF request = NoExpr THEN Refusal("") ELSE writeModelFor(request))

\* The create answers the id through the read's own accessor, where its
\* answer is another type.
SameAnswer(created, read, m) ==
  HasMethod(created, m) /\ HasMethod(read, m) /\ methodOn(created, m).results = methodOn(read, m).results
settleCreateID(eb, read) ==
  LET ids == SelectSeq(eb.fields, LAMBDA fb : fb.attr = "id" /\ fb.get # NoMethod)
  IN IF /\ Has(eb, "create") /\ eb.calls["create"].response \notin {NoExpr, eb.read}
        /\ ids # <<>>
        /\ SameAnswer(typeFromExpr(eb.calls["create"].response), read, ids[1].get)
     THEN [eb EXCEPT !.createID = ids[1].get] ELSE eb

\* The update's own body.  One that cannot be constructed is recorded
\* against the resource, and the resource stands with the create's.
UpdateWith(eb, built, fields) ==
  Stands(IF fields.fields = <<>> THEN eb
         ELSE [eb EXCEPT !.updateWrite = built.expr, !.updateFields = fields.fields],
         fields.log)
OwnUpdate(eb, read, built) ==
  IF built.why # "" THEN Stands(eb, {Removed(<<>>, built.why)})
  ELSE UpdateWith(eb, built, ResolveFields(eb.fields, read, built.type, <<"update">>))
settleUpdateBody(eb, read) ==
  LET request == eb.calls["update"].request
  IN IF ~Has(eb, "update") \/ request = NoExpr \/ ~Has(eb, "create")
        \/ request = eb.calls["create"].request THEN Stands(eb, {})
     ELSE OwnUpdate(eb, read, Body(request))

\* Whether the attributes left can be read, and sent where something is.
Mapped(eb, below, sends, log) ==
  LET left == [eb EXCEPT !.fields = below.fields]
  IN IF ~Readable(below.fields) \/ (sends /\ ~Settable(below.fields))
     THEN Falls(left, "unbuildable", log \cup below.log)
     ELSE Stands(left, log \cup below.log)
MappedFrom(eb, model, log) ==
  IF model = NoType THEN Falls(eb, "no nested model", log)
  ELSE Mapped(eb, ResolveFields(eb.fields, model, NoType, <<>>), FALSE, log)

Lifted(below) == [below EXCEPT !.fields = liftKeptFromPlan(@)]
Updated(r, read) ==
  IF IsRefused(r) THEN r ELSE Noting(settleUpdateBody(settleCreateID(r.eb, read), read), r.log)
ReadAndWritten(eb, answer, read, built, log) ==
  LET sends == Has(eb, "create") \/ Has(eb, "update")
  IN IF answer = NoExpr THEN Falls(eb, "no response payload", log)
     ELSE IF built.why # "" THEN Falls(eb, built.why, log)
     ELSE IF read = NoType THEN Falls(eb, "no nested model", log)
     ELSE Updated(Mapped([eb EXCEPT !.read = answer, !.write = built.expr],
                         Lifted(ResolveFields(eb.fields, read, built.type, <<>>)), sends, log), read)
Against(eb, answer, from, log) == ReadAndWritten(eb, answer, typeFromExpr(answer), Body(from), log)
WithModels(called) ==
  LET calls == called.eb.calls
  IN IF called.why # "" THEN called
     ELSE Against(called.eb,
                  IF calls["read"].response # NoExpr THEN calls["read"].response ELSE calls["create"].response,
                  IF Has(called.eb, "create") THEN calls["create"].request ELSE calls["update"].request,
                  called.log)
resource(drafted) == WithModels(ResolveCalls(drafted, <<"create", "read", "update", "delete">>))

\* The list call's element, for a list and for a companion data source.
Elements(eb, r, log) ==
  LET next == [eb EXCEPT !.calls["list"] = r.call, !.element = Short(r.element), !.access = r.access]
  IN IF r.why # "" THEN Falls(next, r.why, log \cup r.log)
     ELSE MappedFrom(next, r.element, log \cup r.log)
Listed(eb, log) == Elements(eb, resolveListElement(eb.calls["list"], eb.envelope), log)

listResource(drafted) == Listed(drafted, {})

\* A lookup maps its read's answer, a companion its list's element; a
\* companion's own read, which reaches one object by id, has to resolve too.
Answering(called) ==
  LET eb == [called.eb EXCEPT !.read = called.eb.calls["read"].response]
  IN IF called.why # "" THEN called
     ELSE IF Has(eb, "list") THEN Listed(eb, called.log)
     ELSE MappedFrom(eb, typeFromExpr(eb.read), called.log)
datasource(drafted) == Answering(ResolveCalls(drafted, <<"read">>))

Sent(eb, below, log) ==
  LET left == [eb EXCEPT !.fields = below.fields]
  IN IF Settable(below.fields) THEN Stands(left, log \cup below.log)
     ELSE Falls(left, "unbuildable", log \cup below.log)
Sending(eb, built, log) ==
  IF built.why # "" THEN Falls(eb, built.why, log)
  ELSE Sent([eb EXCEPT !.write = built.expr], ResolveFields(eb.fields, NoType, built.type, <<>>), log)
Invoking(called) ==
  LET request == called.eb.calls["invoke"].request
  IN IF called.why # "" \/ request = NoExpr THEN called ELSE Sending(called.eb, Body(request), called.log)
action(drafted) == IF ~Has(drafted, "invoke") THEN Falls(drafted, "no invoke call", {})
                   ELSE Invoking(ResolveCalls(drafted, <<"invoke">>))

PruneEntity(kind, drafted) ==
  CASE kind = "resource"   -> resource(drafted)
    [] kind = "datasource" -> datasource(drafted)
    [] kind = "list"       -> listResource(drafted)
    [] kind = "action"     -> action(drafted)
=============================================================================
