--------------------------- MODULE SpecDocument ----------------------------
(***************************************************************************)
(* An OpenAPI document as the revision stage sees it: a tree of YAML nodes *)
(* that corrections edit by JSON pointer and compilation reads by schema.  *)
(*                                                                         *)
(* A document is a function from pointers to nodes; a pointer is the       *)
(* sequence of its unescaped tokens.  A mapping's entries are the pointers *)
(* one token longer; a sequence keeps its scalars in `items`, and one of   *)
(* schemas (allOf) has its branches under the tokens "0", "1", ...  The    *)
(* order of a mapping's keys is abstracted: no operation reads it.         *)
(* A value, such as an operation carries, is a small document of its own.  *)
(***************************************************************************)
EXTENDS Naturals, Sequences, FiniteSets, SequencesExt

CONSTANTS
    Alphabet,   \* the names in use, in the order strings compare
    RefHops     \* how long a chain of $refs is followed

Map        == [kind |-> "map"]
Scalar(v)  == <<>> :> [kind |-> "scalar", value |-> v]
List(s)    == <<>> :> [kind |-> "seq", items |-> s]
IndexNames == <<"0", "1", "2", "3", "4">>

Position(name)   == CHOOSE i \in 1..Len(Alphabet) : Alphabet[i] = name
Sorted(names)    == SetToSortSeq(names, LAMBDA a, b : Position(a) < Position(b))

-----------------------------------------------------------------------------
(* The tree. *)

Below(d, p)     == {q \in DOMAIN d : IsPrefix(p, q)}
Rest(p, q)      == SubSeq(q, Len(p) + 1, Len(q))
Subtree(d, p)   == [r \in {Rest(p, q) : q \in Below(d, p)} |-> d[p \o r]]
Without(d, p)   == [q \in DOMAIN d \ Below(d, p) |-> d[q]]
Graft(d, p, v)  == [q \in {p \o r : r \in DOMAIN v} |-> v[Rest(p, q)]]
                     @@ Without(d, p)

\* A mapping value from its entries, each a value.
Mapping(entries) ==
    (<<>> :> Map) @@
    [p \in UNION {{<<k>> \o r : r \in DOMAIN entries[k]} : k \in DOMAIN entries}
        |-> entries[p[1]][Tail(p)]]

\* nodeAt: the node a pointer names, and mapValue: an entry of a mapping.
Has(d, p)          == p \in DOMAIN d
HasEntry(d, p, k)  == Has(d, p) /\ d[p].kind = "map" /\ Has(d, Append(p, k))
Keys(d, p)         == {q[Len(q)] : q \in {r \in Below(d, p) : Len(r) = Len(p) + 1}}
Reads(d, p, v)     == Has(d, p) /\ d[p].kind = "scalar" /\ d[p].value = v

-----------------------------------------------------------------------------
(* One operation of a correction against the document.                     *)

IndexIn(items, token) ==
    {i \in 1..Len(items) : IndexNames[i] = token}

Failed        == [ok |-> FALSE, doc |-> <<>>]
Now(d)        == [ok |-> TRUE, doc |-> d]

\* nodeEqual compares the decoded values.
ApplyToMapping(d, parent, key, op) ==
    LET at == Append(parent, key)
        same == Has(d, at) /\ Subtree(d, at) = op.value
    IN  CASE op.op = "add"     -> IF same THEN Failed       \* stale
                                  ELSE Now(Graft(d, at, op.value))
          [] op.op = "replace" -> IF Has(d, at) THEN Now(Graft(d, at, op.value))
                                  ELSE Failed
          [] op.op = "remove"  -> IF Has(d, at) THEN Now(Without(d, at)) ELSE Failed
          [] op.op = "test"    -> IF same THEN Now(d) ELSE Failed

\* Sequences hold scalars; an add inside one shifts what follows.
ApplyToSequence(d, parent, token, op) ==
    LET items  == d[parent].items
        put(s) == Now([d EXCEPT ![parent].items = s])
    IN  IF token = "-"
        THEN IF op.op # "add" \/ Contains(items, op.value[<<>>].value)
             THEN Failed                                     \* stale
             ELSE put(Append(items, op.value[<<>>].value))
        ELSE IF IndexIn(items, token) = {} THEN Failed
        ELSE LET i == CHOOSE n \in IndexIn(items, token) : TRUE IN
             CASE op.op = "add"     -> put(InsertAt(items, i, op.value[<<>>].value))
               [] op.op = "replace" -> put(ReplaceAt(items, i, op.value[<<>>].value))
               [] op.op = "remove"  -> put(RemoveAt(items, i))
               [] op.op = "test"    -> IF items[i] = op.value[<<>>].value
                                       THEN Now(d) ELSE Failed

\* apply: what does not resolve, or addresses a child of a scalar, fails.
ApplyOperation(d, op) ==
    LET parent == Front(op.path)
    IN  IF op.path = <<>> \/ ~Has(d, parent) THEN Failed
        ELSE CASE d[parent].kind = "map" -> ApplyToMapping(d, parent, Last(op.path), op)
               [] d[parent].kind = "seq" -> ApplyToSequence(d, parent, Last(op.path), op)
               [] OTHER                  -> Failed

-----------------------------------------------------------------------------
(* The order operations run in: an add that creates a container before     *)
(* what addresses its inside, file order otherwise.                        *)

Creates(f, g)   == f.op = "add" /\ IsStrictPrefix(f.path, g.path)

DependencyOrder(flat) ==
    LET n == Len(flat)
        order[k \in 0..n] ==      \* the first k positions to run
          IF k = 0 THEN <<>>
          ELSE LET done  == Range(order[k - 1])
                   ready == {i \in 1..n \ done :
                               \A j \in 1..n \ done : ~Creates(flat[j], flat[i])}
               IN  Append(order[k - 1], CHOOSE i \in ready : \A j \in ready : i <= j)
    IN  [k \in 1..n |-> flat[order[n][k]]]

\* Every operation, with the file it came from.
Flattened(corrections) ==
    FlattenSeq([i \in DOMAIN corrections |->
                   [j \in DOMAIN corrections[i].ops |->
                       corrections[i].ops[j] @@ [file |-> corrections[i].file]]])

\* Apply: all corrections' operations; the first failure ends it and is named
\* by its file, `at`.
Apply(d, corrections) ==
    FoldLeft(LAMBDA s, op : IF s.ok THEN ApplyOperation(s.doc, op) @@ [at |-> op.file] ELSE s,
             Now(d) @@ [at |-> "none"],
             DependencyOrder(Flattened(corrections)))

-----------------------------------------------------------------------------
(* Finding things: operations, schemas, properties.  `NoPlace` is the      *)
(* absent pointer.                                                         *)

NoPlace == <<"nowhere">>

\* Where a reference in one section of the components leads from p; a
\* reference that leaves the section resolves to nothing.
Referred(d, p, section) ==
    IF HasEntry(d, p, "$ref")
    THEN LET to == <<"components", section, d[Append(p, "$ref")].value>>
         IN  IF Has(d, to) THEN to ELSE NoPlace
    ELSE p

\* followSchemaRefs
FollowRefs(d, p) ==
    LET hop[n \in 0..RefHops] ==
          IF n = 0 THEN p
          ELSE IF hop[n - 1] = NoPlace THEN NoPlace
          ELSE Referred(d, hop[n - 1], "schemas")
        landed(q) == IF HasEntry(d, q, "$ref") THEN NoPlace ELSE q
    IN  landed(hop[RefHops])

\* The first of some places that is one.
FirstPlace(places) ==
    LET there == SelectSeq(places, LAMBDA p : p # NoPlace)
    IN  IF there = <<>> THEN NoPlace ELSE there[1]

\* contentSchema: JSON before the rest, alphabetically first of each.
JSONMedia == {"application/json"}
JSONFirst(media) == Sorted(media \cap JSONMedia) \o Sorted(media \ JSONMedia)
Typed(d, content) == {m \in Keys(d, content) : Has(d, content \o <<m, "schema">>)}
SchemaAmong(d, content, media) ==
    IF media = <<>> THEN NoPlace ELSE FollowRefs(d, content \o <<media[1], "schema">>)
ContentSchema(d, p) ==
    SchemaAmong(d, Append(p, "content"), JSONFirst(Typed(d, Append(p, "content"))))

RequestSchema(d, operation) ==
    LET body == Append(operation, "requestBody")
    IN  IF ~Has(d, body) THEN NoPlace
        ELSE ContentSchema(d, Referred(d, body, "requestBodies"))

\* responseSchema: the first 2xx with a schema, else the default's.
Success == {"200", "201"}
ResponseSchema(d, operation) ==
    LET responses == Append(operation, "responses")
        statuses  == Append(Sorted(Keys(d, responses) \cap Success), "default")
    IN  FirstPlace([i \in DOMAIN statuses |->
            ContentSchema(d, Referred(d, Append(responses, statuses[i]), "responses"))])

\* The allOf branches of a schema, in order.
Branches(d, p) ==
    LET all == Append(p, "allOf")
    IN  IF HasEntry(d, p, "allOf")
        THEN SelectSeq([i \in DOMAIN IndexNames |-> Append(all, IndexNames[i])],
                       LAMBDA b : Has(d, b))
        ELSE <<>>

\* walkSchema: a schema as written, what it refers to, its branches; the
\* schemas entered before keep a circular one from being entered twice.
Referent(p, there) == IF there \in {p, NoPlace} THEN <<>> ELSE <<there>>
Entered(d)   == (DOMAIN d) \X SUBSET (DOMAIN d)  \* a schema, and those entered before
Walk(d, p) ==
    LET walk[e \in Entered(d)] ==
          LET into(q) == IF Has(d, q) THEN walk[<<q, e[2] \cup {e[1]}>>] ELSE <<>>
              next    == Referent(e[1], FollowRefs(d, e[1])) \o Branches(d, e[1])
          IN  IF e[1] \in e[2] THEN <<>>
              ELSE <<e[1]>> \o FlattenSeq([i \in DOMAIN next |-> into(next[i])])
    IN  IF Has(d, p) THEN walk[<<p, {}>>] ELSE <<>>

\* The schemas of a walk that carry a key.
Carrying(d, p, key) ==
    SelectSeq(Walk(d, p), LAMBDA q : HasEntry(d, q, key))
FirstEntry(schemas, key) == IF schemas = <<>> THEN NoPlace ELSE Append(schemas[1], key)
Extension(d, p, key) == FirstEntry(Carrying(d, p, key), key)  \* extensionNode, enumSite, scalarSite
Declared(d, p, key) ==        \* flagDeclared
    \E q \in Range(Carrying(d, p, key)) : Reads(d, Append(q, key), "true")
RequiredHas(d, p, name) ==
    \E q \in Range(Carrying(d, p, "required")) : Contains(d[Append(q, "required")].items, name)

\* findProperty: own properties first, then the branches in order.
FindProperty(d, p, name) ==
    LET find[e \in Entered(d)] ==
          LET below(q) == IF Has(d, FollowRefs(d, q))
                          THEN find[<<FollowRefs(d, q), e[2] \cup {e[1]}>>] ELSE NoPlace
              own      == e[1] \o <<"properties", name>>
          IN  IF e[1] \in e[2] THEN NoPlace
              ELSE IF Has(d, own) THEN own
              ELSE FirstPlace([i \in DOMAIN Branches(d, e[1]) |-> below(Branches(d, e[1])[i])])
        at == FollowRefs(d, p)
    IN  IF Has(d, at) THEN find[<<at, {}>>] ELSE NoPlace

\* findPath: down a dotted name, through the items of an array of objects.
Inside(d, inner) ==
    IF HasEntry(d, inner, "items") THEN Append(inner, "items") ELSE inner
FindPath(d, p, path) ==
    FoldLeft(LAMBDA at, name : FindProperty(d, Inside(d, FollowRefs(d, at)), name),
             FindProperty(d, p, path[1]), Tail(path))

\* The schema declaring a property, from where the property is.
Declaring(site) == SubSeq(site, 1, Len(site) - 2)
=============================================================================
