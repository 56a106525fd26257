--------------------------- MODULE EntityEmission ---------------------------
(***************************************************************************)
(* Emission of one Terraform block from an entity of the representation    *)
(* and the binding that survived verification (internal/emit/render_*.go,  *)
(* services.go).  The files' text is left out; what is kept is every       *)
(* decision that settles whether the block is written, refused for a       *)
(* reason, or takes the whole run down.                                    *)
(*                                                                         *)
(* A check answers Ok, Abort for an error that is not an exclusion, or the *)
(* reason the block is refused for.                                        *)
(***************************************************************************)
EXTENDS SdkVerify

Ok    == "ok"
Abort == "abort"

\* What a row of checks made in order comes to.
InOrder(checks) ==
  LET faults == SelectSeq(checks, LAMBDA c : c # Ok)
  IN IF faults = <<>> THEN Ok ELSE faults[1]
Unless(holds, reason) == IF holds THEN Ok ELSE reason

IsScalar(a) == a.nested = <<>>

(***************************************************************************)
(* Nodes: the attributes that reach the schema, each with its binding.     *)
(* bound is FALSE for the ones kept without one, the id and what fills a   *)
(* path parameter, which are kept at the root alone.                       *)
(***************************************************************************)
RECURSIVE joinAttributes(_, _, _, _, _)
joinAttributes(tree, fbs, addressing, root, held) ==
  LET bindingOf(a) == SelectSeq(fbs, LAMBDA fb : fb.attr = a.name)
      kept(a) == \/ bindingOf(a) # <<>>
                 \/ root /\ a.name \in addressing /\ IsScalar(a)
      left == SelectSeq(tree, kept)
      join(a) ==
        IF bindingOf(a) = <<>>
        THEN [a |-> a, bound |-> FALSE, fb |-> <<>>, held |-> FALSE, children |-> <<>>]
        ELSE LET fb == bindingOf(a)[1]
             IN [a |-> a, bound |-> TRUE, fb |-> fb, held |-> held \/ fb.kept,
                 children |-> joinAttributes(a.nested, fb.nested, addressing, FALSE, held \/ fb.kept)]
  IN [i \in DOMAIN left |-> join(left[i])]

joinTree(tree, fbs, addressing) == joinAttributes(tree, fbs, addressing \cup {"id"}, TRUE, FALSE)
Unbacked(nodes) == {nodes[i].a.name : i \in {j \in DOMAIN nodes : ~nodes[j].bound}}
Names(nodes)    == {nodes[i].a.name : i \in DOMAIN nodes}

Parameters(op) == SelectSeq(op.path, LAMBDA s : s.parameter)

\* The root attributes that fill a path parameter: by its own spelling, or
\* by carrying it as a wire name.
addressingNames(tree, ops) ==
  LET params == UNION {Range(Parameters(op)) : op \in ops}
  IN {p.tf : p \in params}
     \cup {a.name : a \in {b \in Range(tree) : IsScalar(b) /\ \E p \in params : b.wire = p.text}}

(***************************************************************************)
(* Calls: the attribute each path parameter is read from, and whether its  *)
(* kind converts to what the SDK's method takes.                           *)
(***************************************************************************)
Matching(nodes, Fits(_)) == SelectSeq(nodes, LAMBDA n : IsScalar(n.a) /\ Fits(n.a))

\* The wire name, then the Terraform spelling, then the id for the last
\* parameter of a path.
parameterNode(p, nodes, last) ==
  Matching(nodes, LAMBDA a : a.wire = p.local)
  \o Matching(nodes, LAMBDA a : a.name = p.tf)
  \o (IF last THEN Matching(nodes, LAMBDA a : a.name = "id") ELSE <<>>)

namesAnAttribute(p, nodes) == parameterNode(p, nodes, FALSE) # <<>>

IntegerTypes == {"int", "int8", "int16", "int32", "int64", "uint", "uint8", "uint16", "uint32", "uint64"}

Go(name) == Short(Basic(name))
Integers_ == {Go(name) : name \in IntegerTypes}
Floats_   == {Go("float32"), Go("float64")}

\* A guarded parse of a string first, then what cannot fail.
converts(kind, type) ==
  type \in CASE kind = "int64"   -> Integers_ \cup {Go("string")}
             [] kind = "float64" -> Floats_ \cup {Go("string")}
             [] kind = "bool"    -> {Go("bool"), Go("string")}
             [] OTHER            -> {Go("string")}
                                    \cup (IF kind = "string" THEN Integers_ \cup {Short(UUID)} ELSE {})

buildCallPlan(c, nodes) ==
  LET from(i) == parameterNode(c.params[i], nodes, i = Len(c.params))
  IN InOrder([i \in DOMAIN c.params |->
       IF from(i) = <<>> THEN "unmatchedPathArgument"
       ELSE Unless(converts(from(i)[1].a.type, c.params[i].type), "unconvertiblePathType")])

Yields(c) == c.response # NoExpr

(***************************************************************************)
(* Conversions: the catalog's bridges.  One it lacks is an error of the    *)
(* run.                                                                    *)
(***************************************************************************)
Shape(e) == IF e.w = <<>> THEN "value" ELSE Head(e.w)

\* What is bridged in either direction, enumerations apart.
Bridged(e) ==
  LET leaf == [e EXCEPT !.w = <<>>]
      among(basics, named) == leaf \in {Go(b) : b \in basics} \cup {Short(t) : t \in named}
  IN \/ e = Short(Wrapped("slice", Basic("uint8")))
     \/ CASE Shape(e) = "ptr"   -> among({"string", "bool", "int64", "int32", "float64", "float32"},
                                        {StdTime, DateOnly, UUID})
          [] Shape(e) = "value" -> among({"string", "bool", "int64", "int32", "float64", "float32"},
                                        {StdTime})
          [] Shape(e) = "slice" -> among({"string", "bool", "int64", "int32", "float64"}, {StdTime, UUID})
          [] OTHER              -> among({"string", "bool", "int64", "float64"}, {})

\* A collection of collections and an additionalData bag go through bridges
\* that take them whole.
Whole(fb, bag) == Len(fb.levels) > 1 \/ bag # NoExpr

readConvert(fb)  == fb.parse # NoFunc \/ Whole(fb, fb.nmodel) \/ Bridged(fb.carried)
writeConvert(fb) == \/ Whole(fb, fb.nwrite)
                    \/ fb.parse # NoFunc /\ ~(fb.parse.prefix = "Parse" /\ Shape(fb.sent) = "value")
                    \/ fb.parse = NoFunc /\ Bridged(fb.sent)

RECURSIVE constructLines(_), stateLines(_)
constructLines(nodes) ==
  LET written == SelectSeq(nodes, LAMBDA n : n.bound /\ n.fb.set # NoMethod)
  IN InOrder([i \in DOMAIN written |->
       IF IsScalar(written[i].a) THEN Unless(writeConvert(written[i].fb), Abort)
       ELSE constructLines(written[i].children)])
stateLines(nodes) ==
  LET readBack == SelectSeq(nodes, LAMBDA n : n.bound /\ n.fb.get # NoMethod)
  IN InOrder([i \in DOMAIN readBack |->
       IF IsScalar(readBack[i].a) THEN Unless(readConvert(readBack[i].fb), Abort)
       ELSE stateLines(readBack[i].children)])

(***************************************************************************)
(* Validators between attributes.  An edge is [kind, gate, names]: a       *)
(* dependency and a group have no gate, a value rule has one.              *)
(***************************************************************************)
ValueRules == {"required_when", "valid_when", "valid_configuration"}

dependencyMap(edges, nodes) ==
  Unless(\A i \in DOMAIN edges : edges[i].kind = "dependency" => edges[i].names \subseteq Names(nodes), Abort)

stringGate(edge, nodes) ==
  Unless(Matching(nodes, LAMBDA a : a.name = edge.gate /\ a.type = "string") # <<>>,
         "unvalidatableAttribute")

\* A group's missing members are left out of it.
configValidators(edges, nodes) ==
  LET rules == SelectSeq(edges, LAMBDA r : r.kind \in ValueRules)
  IN InOrder([i \in DOMAIN rules |->
       InOrder(<<stringGate(rules[i], nodes), Unless(rules[i].names \subseteq Names(nodes), Abort)>>)])

(***************************************************************************)
(* Identity: what a listed resource's results are.                         *)
(***************************************************************************)
EndsInParameter(op) == op.path # <<>> /\ op.path[Len(op.path)].parameter

identityAddressing(ops) ==
  UNION {LET params == Parameters(op)
             above  == IF EndsInParameter(op) THEN SubSeq(params, 1, Len(params) - 1) ELSE params
         IN {above[i].tf : i \in DOMAIN above} : op \in ops}

\* The scalars that name one object, or none where the id is not among them.
ScalarKinds == {"string", "int64", "float64", "bool"}
resourceIdentity(r) ==
  LET addressing == identityAddressing({r.ops["read"], r.ops["create"], r.ops["delete"]})
      names == {a.name : a \in {b \in Range(r.attributes) :
                  /\ IsScalar(b) /\ ~b.unsupported /\ b.type \in ScalarKinds
                  /\ b.name = "id" \/ b.name \in addressing}}
  IN IF "id" \in names THEN names ELSE {}

(***************************************************************************)
(* Resources.  A singleton is written through its update and forgotten on  *)
(* destroy; the stateful mock of any other keys on its read path.          *)
(***************************************************************************)
Lifecycle(r) == {r.ops["read"], r.ops["create"], r.ops["update"], r.ops["delete"]}
Operates(r, rb, op) == r.ops[op] # NoOperation /\ Has(rb, op)

resourceNodes(r, fbs) == joinTree(r.attributes, fbs, addressingNames(r.attributes, Lifecycle(r)))

resourceCode(r, rb, nodes) ==
  InOrder(<<dependencyMap(r.edges, nodes),
            constructLines(nodes),
            IF rb.updateWrite = NoExpr THEN Ok ELSE constructLines(resourceNodes(r, rb.updateFields)),
            stateLines(nodes),
            configValidators(r.edges, nodes)>>)

resourceCRUD(r, rb, nodes) ==
  InOrder(<<buildCallPlan(IF r.singleton THEN rb.calls["update"] ELSE rb.calls["create"], nodes),
            buildCallPlan(rb.calls["read"], nodes),
            Unless(Yields(rb.calls["read"]), "resourceReadYieldsNoPayload"),
            IF r.singleton THEN Ok ELSE buildCallPlan(rb.calls["delete"], nodes),
            IF Operates(r, rb, "update") THEN buildCallPlan(rb.calls["update"], nodes) ELSE Ok>>)

resourceMocks(r) == Unless(r.singleton \/ Parameters(r.ops["read"]) # <<>>, "resourceNoKeyedReadPath")

renderResource(r, rb) ==
  LET needs == IF r.singleton THEN {"read", "update"} ELSE {"create", "read", "delete"}
      nodes == resourceNodes(r, rb.fields)
  IN IF \E op \in needs : ~Operates(r, rb, op) THEN "resourceNoLifecycleCall"
     ELSE InOrder(<<resourceCode(r, rb, nodes), resourceCRUD(r, rb, nodes), resourceMocks(r)>>)

(***************************************************************************)
(* Data sources.  A lookup plans its read from configuration alone; a      *)
(* companion lists, filters, and reads one object by id where it can.      *)
(***************************************************************************)
KeyNode(ds) == [a |-> ds.key, bound |-> FALSE, fb |-> <<>>, held |-> FALSE, children |-> <<>>]
lookupNodes(ds, db) ==
  LET nodes == joinTree(ds.attributes, db.fields,
                        addressingNames(ds.attributes, {ds.ops["read"], ds.ops["list"]}))
  IN (IF ds.key.name \in Names(nodes) THEN <<>> ELSE <<KeyNode(ds)>>) \o nodes

lookupDatasource(ds, db) ==
  LET nodes == lookupNodes(ds, db)
      read  == db.calls["read"]
  IN InOrder(<<Unless(Operates(ds, db, "read"), "datasourceNoReadCall"),
               Unless(\A i \in DOMAIN read.params : namesAnAttribute(read.params[i], nodes),
                      "unmatchedPathArgument"),
               buildCallPlan(read, nodes),
               Unless(Yields(read), "datasourceReadYieldsNoPayload"),
               Unless(Shape(db.read) # "slice", "datasourceReadAnswersCollection"),
               stateLines(nodes)>>)

Plain(attributes) == [i \in DOMAIN attributes |->
  [a |-> attributes[i], bound |-> FALSE, fb |-> <<>>, held |-> FALSE, children |-> <<>>]]
companionItems(ds, db) == joinTree(datasourceElementTree(ds), db.fields, {})
companionFilters(ds)    == SelectSeq(ds.attributes, LAMBDA a : a.filter)
companionAddressing(ds) == SelectSeq(ds.attributes, LAMBDA a : a.name # "items" /\ ~a.filter /\ IsScalar(a))

itemPayload(db) == db.element # NoExpr
  /\ db.calls["read"].response \in {db.element, [db.element EXCEPT !.w = <<"ptr">> \o @]}
HasIDFilter(ds, db) ==
  /\ "id" \in Names(Plain(companionFilters(ds))) \cap Names(companionItems(ds, db))
  /\ Operates(ds, db, "read")
  /\ Len(db.calls["read"].params) = 1 /\ db.calls["read"].params[1].type = Go("string")
  /\ itemPayload(db)

companionDatasource(ds, db) ==
  LET items == companionItems(ds, db)
      held  == SelectSeq(ds.attributes, LAMBDA a : a.name = "items")
      byId  == Plain(SelectSeq(companionFilters(ds), LAMBDA a : a.name = "id"))
  IN InOrder(<<Unless(Operates(ds, db, "list"), "datasourceNoListCall"),
               Unless(held # <<>> /\ ~IsScalar(Head(held)), "datasourceNoItemsAttribute"),
               buildCallPlan(db.calls["list"], Plain(companionAddressing(ds))),
               Unless(Yields(db.calls["list"]), "datasourceListYieldsNoPayload"),
               Unless(db.element # NoExpr, "datasourceNoElementType"),
               IF HasIDFilter(ds, db) THEN buildCallPlan(db.calls["read"], byId) ELSE Ok,
               stateLines(items)>>)

renderDatasource(ds, db) == IF ds.lookup THEN lookupDatasource(ds, db) ELSE companionDatasource(ds, db)

(***************************************************************************)
(* Lists: each result is the identity of the resource the list belongs to. *)
(***************************************************************************)
findIdentityNode(nodes) ==
  Matching(nodes, LAMBDA a : a.name = "id" /\ a.type \in ScalarKinds)

listResultLines(nodes, identity, config) ==
  LET ids == findIdentityNode(nodes)
  IN InOrder(<<Unless(ids # <<>> /\ ids[1].bound /\ ids[1].fb.get # NoMethod, "listResourceElementHasNoIdentity"),
               Unless(identity \ {"id"} \subseteq Names(config), "listResourceIdentityNotConfigurable")>>)

renderList(lr, lb, identity) ==
  LET nodes  == joinTree(lr.attributes, lb.fields, addressingNames(lr.attributes, {lr.ops["list"]}))
      config == joinTree(lr.config, <<>>, addressingNames(lr.config, {lr.ops["list"]}))
  IN InOrder(<<Unless(Has(lb, "list"), "listResourceNoListCall"),
               buildCallPlan(lb.calls["list"], config),
               Unless(Yields(lb.calls["list"]), "listResourceListYieldsNoPayload"),
               Unless(identity # {}, "listResourceListedResourceHasNoIdentity"),
               listResultLines(nodes, identity, config)>>)

(***************************************************************************)
(* Actions: path parameters, then the body's attributes a practitioner can *)
(* send.                                                                   *)
(***************************************************************************)
bodyNodes(a, ab) == joinTree(a.attributes, ab.fields, {})
RECURSIVE invocable(_)
invocable(nodes) ==
  LET sendable == SelectSeq(nodes, LAMBDA n : n.a.cor # "computed")
  IN [i \in DOMAIN sendable |-> [sendable[i] EXCEPT !.children = invocable(@)]]
actionNodes(a, ab) == Plain(a.config) \o invocable(bodyNodes(a, ab))

renderAction(a, ab) ==
  InOrder(<<Unless(Has(ab, "invoke"), "actionNoInvokeCall"),
            IF a.attributes # <<>> /\ ab.write # NoExpr THEN constructLines(bodyNodes(a, ab)) ELSE Ok,
            buildCallPlan(ab.calls["invoke"], actionNodes(a, ab))>>)
=============================================================================
