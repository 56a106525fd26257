-------------------------- MODULE EntityDerivation ---------------------------
(***************************************************************************)
(* The intermediate representation derived from a document                 *)
(* (internal/intermediate_representation/derive.go, Derive): group the     *)
(* operations, decide each entity and claim its key, note which entities   *)
(* share an API surface, and build every kind of every kept entity.        *)
(*                                                                         *)
(* A name or a key is the sequence of its words.  Trees are built a level  *)
(* a step, so that one over a schema that contains itself can be asked     *)
(* about; the code goes depth first.                                       *)
(***************************************************************************)
EXTENDS AttributeTrees, SpecLoading

CONSTANTS
  Documents,     \* the written documents a run starts from
  Versions,      \* the segments that spell an API version
  Numerals       \* bound: the ordinals from 2 on, spelled, a key may be numbered with

ASSUME NumeralsAssumption == Numerals \in Seq(STRING)

\* Strings have one order, and an operation one of the methods.
ASSUME DocumentsAssumption ==
  /\ Order \in Seq(Range(Order)) /\ \A i, j \in DOMAIN Order : Order[i] = Order[j] => i = j
  /\ \A w \in Documents :
       /\ DOMAIN w.paths \subseteq Range(Order)
       /\ \A path \in DOMAIN w.paths : DOMAIN w.paths[path].operations \subseteq Range(methods)

VARIABLES
  phase,         \* "gather", "name", "begin", "grow" or "done"
  paths,         \* the document's paths not yet gathered
  operations,    \* what is left of the operations of the path that is
  found,         \* collection -> the entity gathered there
  undecided,     \* the collections not yet decided
  claimed,       \* key -> the collection that claimed it
  kept,          \* the entities kept, in order
  refused,       \* the entities left out, [collection, cause]
  parentKey,     \* collection -> its kept entity's key
  notes,         \* key -> the keys of the entities that share its surface
  blocks,        \* what is still to be built, <<index in kept, kind>>
  work,          \* the objects of the current block still to be opened
  tree,          \* the attributes of the current block
  model          \* <<kind, key>> -> what was derived

gathering == <<paths, operations, found>>
naming    == <<undecided, claimed, kept, refused, parentKey>>
building  == <<blocks, work, tree, model>>
vars == <<document, phase, gathering, naming, notes, building>>

(***************************************************************************)
(* Names.                                                                  *)
(***************************************************************************)
Versioned(path) == Literals(path) # <<>> /\ Head(Literals(path)) \in Versions
Unversioned(path, key) ==
  IF Versioned(path) /\ Len(key) > 1 /\ Head(key) = Head(Literals(path)) THEN Tail(key) ELSE key
deriveKey(path) == Unversioned(path, keyForPath(path))
Areas(path)     == IF Versioned(path) THEN Tail(Literals(path)) ELSE Literals(path)
Service(path)   == IF Areas(path) = <<>> THEN deriveKey(path) ELSE WordsOf[Head(Areas(path))]

\* What tells the later path from the claiming one, behind the key; then an
\* ordinal until the key is free.
Telling(s)    == IF s \in Parameters THEN <<"by">> \o WordsOf[s] ELSE WordsOf[s]
Apart(later, claiming) == SelectSeq(later, LAMBDA s : s \notin Range(claiming))
Candidate(key, apart)  == key \o FlattenSeq([i \in DOMAIN apart |-> Telling(apart[i])])
Contended(key, path)   == Candidate(key, Apart(path, claimed[key]))
Numbered(key, n)  == Append(key, Numerals[n])
Free(key)         == {n \in DOMAIN Numerals : Numbered(key, n) \notin DOMAIN claimed}
Ordinal(key)      == CHOOSE n \in Free(key) : \A m \in Free(key) : n <= m
Freed(key, candidate) == IF candidate # key /\ candidate \notin DOMAIN claimed THEN candidate
                         ELSE Numbered(candidate, Ordinal(candidate))
\* Takes what tells the paths apart without looking whether it is free.
disambiguateUnchecked(key, path) == IF key \notin DOMAIN claimed THEN key ELSE Contended(key, path)
disambiguateKey(key, path) == IF key \notin DOMAIN claimed THEN key ELSE Freed(key, Contended(key, path))
\* Bound: the code counts on until an ordinal is free, and one of Numerals is.
Countable(key, path) == key \in DOMAIN claimed => Free(Contended(key, path)) # {}

(***************************************************************************)
(* Gathering and deciding.                                                 *)
(***************************************************************************)
\* A document that does not load is derived from by nobody.
Loadable == {Load(w) : w \in {d \in Documents : Loads(d)}}
Init ==
  /\ document \in Loadable
  /\ phase = "gather" /\ paths = document.paths /\ operations = <<>> /\ found = <<>>
  /\ undecided = {} /\ claimed = <<>> /\ kept = <<>> /\ refused = {} /\ parentKey = <<>>
  /\ notes = <<>> /\ blocks = <<>> /\ work = {} /\ tree = {} /\ model = <<>>

Gather ==
  /\ phase = "gather" /\ operations = <<>> /\ paths # <<>>
  /\ found' = Opening(found, Head(paths).path)
  /\ operations' = Head(paths).operations /\ paths' = Tail(paths)
  /\ UNCHANGED <<document, phase, naming, notes, building>>
Assign ==
  /\ phase = "gather" /\ operations # <<>>
  /\ found' = [found EXCEPT ![Collection(Head(operations).path)] = assign(@, Head(operations))]
  /\ operations' = Tail(operations)
  /\ UNCHANGED <<document, phase, paths, naming, notes, building>>
Sort ==
  /\ phase = "gather" /\ operations = <<>> /\ paths = <<>>
  /\ undecided' = DOMAIN found
  /\ phase' = "name"
  /\ UNCHANGED <<document, gathering, claimed, kept, refused, parentKey, notes, building>>

\* The collections are decided in the order of their paths.
Turn(c) == phase = "name" /\ c \in undecided /\ \A d \in undecided \ {c} : Earlier(c, d, Order)
Refuse(c) ==
  /\ Turn(c) /\ Kinds(found[c]) = {}
  /\ refused' = refused \cup {[collection |-> c, cause |-> exclusionReason(found[c])]}
  /\ undecided' = undecided \ {c}
  /\ UNCHANGED <<document, phase, gathering, claimed, kept, parentKey, notes, building>>

\* A map with one more entry, or another value for the one there was.
Entered(map, key, value) == [k \in DOMAIN map \cup {key} |-> IF k = key THEN value ELSE map[k]]

KeptAs(path, key) == [collection |-> path, key |-> key, original |-> deriveKey(path), class |-> decide(found[path])]
\* The key is claimed before services.exclude is asked about it.
Claim(path, key) ==
  /\ claimed' = Entered(claimed, key, path)
  /\ IF {Service(path), key} \cap document.exclude # {}
     THEN /\ refused' = refused \cup {[collection |-> path, cause |-> "excludedByConfiguration"]}
          /\ UNCHANGED <<kept, parentKey>>
     ELSE /\ kept' = Append(kept, KeptAs(path, key))
          /\ parentKey' = Entered(parentKey, path, key)
          /\ UNCHANGED refused
Name(c) ==
  /\ Turn(c) /\ Kinds(found[c]) # {}
  /\ Countable(deriveKey(c), c)
  /\ Claim(c, disambiguateKey(deriveKey(c), c))
  /\ undecided' = undecided \ {c}
  /\ UNCHANGED <<document, phase, gathering, notes, building>>

\* Every kept entity whose path derives one key with another's is told so.
Family(i) == {j \in DOMAIN kept : kept[j].original = kept[i].original}
KeysOf(members) == {kept[j].key : j \in members}
Noted(i) == KeysOf(Family(i) \ {i})
KindsOf(i) == SelectSeq(kindOrder, LAMBDA k : k \in kept[i].class.kinds)
Note ==
  /\ phase = "name" /\ undecided = {}
  /\ notes' = [k \in KeysOf(DOMAIN kept) |-> UNION {Noted(i) : i \in {j \in DOMAIN kept : kept[j].key = k}}]
  /\ blocks' = FlattenSeq([i \in DOMAIN kept |-> [n \in DOMAIN KindsOf(i) |-> <<i, KindsOf(i)[n]>>]])
  /\ phase' = "begin"
  /\ UNCHANGED <<document, gathering, naming, work, tree, model>>

(***************************************************************************)
(* The schemas of a block.                                                 *)
(***************************************************************************)
Entity == kept[Head(blocks)[1]]
Kind   == Head(blocks)[2]
At(c, role) == c.class.at[role]

Arrays(id) == SelectSeq(PropertiesOf(id), LAMBDA p : TypeOf(p.to) = "array")
FirstName(ps) == IF ps = <<>> THEN "" ELSE Head(ps).name
listWrapperKey(op) ==
  IF op.wrapper # "none" THEN op.wrapper
  ELSE IF TypeOf(op.answer) = "array" THEN "" ELSE FirstName(Arrays(op.answer))
Or(id, other) == IF id = "" THEN other ELSE id
Unwrapped(op, key) == IF key = "" THEN op.answer ELSE Or(ItemsOf(findProperty(op.answer, key)), op.answer)
listElementSchema(op) ==
  IF TypeOf(op.answer) = "array" THEN ItemsOf(op.answer) ELSE Unwrapped(op, listWrapperKey(op))

\* What a singleton may be set to is what its update takes.
CreateBody(c) == IF c.class.singleton THEN At(c, "update").body ELSE At(c, "create").body
SchemasOf(c, kind) ==
  CASE kind = "resource"   -> Sides(CreateBody(c), At(c, "read").answer, At(c, "update").body)
    [] kind = "datasource" -> Answered(Or(At(c, "read").answer, listElementSchema(At(c, "list"))))
    [] kind = "list"       -> Answered(listElementSchema(At(c, "list")))
    [] kind = "action"     -> Requested(At(c, "create").body)

(***************************************************************************)
(* The attributes that address an object (attribute_addressing.go).        *)
(***************************************************************************)
IdName       == <<"id">>
Root(t)      == {a \in t : a.under = <<>>}
NamesIn(t)   == {a.name : a \in Root(t)}
Changed(t, name, Change(_)) == {IF a \in Root(t) /\ a.name = name THEN Change(a) ELSE a : a \in t}
reservedRootNames == {<<"connection">>, <<"count">>, <<"depends", "on">>, <<"for", "each">>,
                      <<"lifecycle">>, <<"provider">>, <<"provisioner">>}

\* A path's parameters with the scalar types the document declares, string
\* where it does not say.
scalarType(id)  == IF TypeOf(id) \in Scalars THEN TypeNames[TypeOf(id)] ELSE ""
TypesOf(op, in, name) ==
  {scalarType(d.schema) : d \in {x \in op.parameters : x.in = in /\ x.name = name}} \ {""}
ParameterType(op, in, name) ==
  IF TypesOf(op, in, name) = {} THEN "string" ELSE CHOOSE t \in TypesOf(op, in, name) : TRUE
ParametersOf(path) == SelectSeq(path, LAMBDA s : s \in Parameters)
pathParameters(op) == [i \in DOMAIN ParametersOf(op.path) |->
   [name |-> ParametersOf(op.path)[i], type |-> ParameterType(op, "path", ParametersOf(op.path)[i])]]
parentParameters(ps) == IF ps = <<>> THEN <<>> ELSE Front(ps)
LastOf(s) == IF s = <<>> THEN "" ELSE Last(s)
itemKeyParameter(c) == LastOf(ParametersOf(c.class.item))
ItemKeyType(c)      == ParameterType(At(c, "read"), "path", itemKeyParameter(c))

\* The query parameters an operation is refused without, where the document
\* states what to send.
States(d) == d.example # "" \/ (d.schema # "" /\ Own(Resolved(d.schema)).flags \cap {"example", "default"} # {})
requiredQueryParameters(op) ==
  {[name |-> d.name, type |-> Or(scalarType(d.schema), "string")] :
     d \in {x \in op.parameters : x.in = "query" /\ x.required /\ States(x)}}

Addressing(wire, name, presence, type) ==
  [Attribute(<<>>, wire, presence) EXCEPT !.name = name, !.type = type, !.levels = <<type>>]
ensureID(t, key, type) ==
  IF IdName \in NamesIn(t)
  THEN Changed(t, IdName, LAMBDA a : [a EXCEPT !.presence = "computed", !.replace = FALSE])
  ELSE t \cup {Addressing(Or(key, "id"), IdName, "computed", type)}
requireKey(t, key, type) ==
  IF WordsOf[key] \in NamesIn(t) THEN Changed(t, WordsOf[key], LAMBDA a : [a EXCEPT !.presence = "required"])
  ELSE t \cup {Addressing(key, WordsOf[key], "required", type)}
excludeReservedRootNames(t) ==
  {IF a \in Root(t) /\ a.name \in reservedRootNames THEN [a EXCEPT !.type = "", !.cause = "reservedRootName"]
   ELSE a : a \in t}

\* A parameter spelled id is named after the parent it addresses.
ParentName(p, parent) == IF WordsOf[p.name] = IdName /\ parent # <<>> THEN parent \o IdName ELSE WordsOf[p.name]
ParentAttribute(p, name) == [Addressing(p.name, name, "required", p.type) EXCEPT !.replace = TRUE]
ParentNames(ps, parent)  == {ParentName(p, parent) : p \in Range(ps)}
FirstSo(ps, parent, name) == ps[CHOOSE i \in DOMAIN ps : /\ ParentName(ps[i], parent) = name
                                                        /\ \A j \in 1..(i - 1) : ParentName(ps[j], parent) # name]
\* Adds a parent whatever the tree already declares.
ensureEveryParent(t, ps, parent) == t \cup {ParentAttribute(p, ParentName(p, parent)) : p \in Range(ps)}
ensureParentParameters(t, ps, parent) ==
  t \cup {ParentAttribute(FirstSo(ps, parent, n), n) : n \in ParentNames(ps, parent) \ NamesIn(t)}
addressingAttributes(ps) ==
  excludeReservedRootNames({[a EXCEPT !.replace = FALSE] : a \in ensureParentParameters({}, ps, <<>>)})

ensureFilterAttributes(t, items) ==
  t \cup {[a EXCEPT !.presence = "optional", !.filter = TRUE] :
            a \in {b \in Root(items) : b.type \in Range(TypeNames) /\ b.name \notin NamesIn(t)}}

\* The kept entity whose collection is the longest proper prefix.
Enclosing(path, lengths) ==
  IF lengths = {} THEN <<>> ELSE parentKey[SubSeq(path, 1, CHOOSE n \in lengths : \A m \in lengths : m <= n)]
enclosingEntity(path) == Enclosing(path, {n \in 1..(Len(path) - 1) : SubSeq(path, 1, n) \in DOMAIN parentKey})

(***************************************************************************)
(* A finished block.                                                       *)
(***************************************************************************)
ResourceKey(c) == IF At(c, "read").identifier # "" THEN At(c, "read").identifier
                  ELSE IF c.class.singleton THEN "" ELSE itemKeyParameter(c)
ResourceKeyType(c) == IF c.class.singleton THEN "string" ELSE ItemKeyType(c)
Above(c) == IF c.class.singleton THEN pathParameters(At(c, "read")) ELSE parentParameters(pathParameters(At(c, "read")))
resource(c, t) ==
  ensureParentParameters(excludeReservedRootNames(ensureID(t, ResourceKey(c), ResourceKeyType(c))),
                         Above(c), enclosingEntity(c.collection))

WithID(c, t) == ensureID(t, itemKeyParameter(c), ItemKeyType(c))
lookup(c, t) ==
  ensureParentParameters(excludeReservedRootNames(requireKey(WithID(c, t), itemKeyParameter(c), ItemKeyType(c))),
                         parentParameters(pathParameters(At(c, "read"))), <<>>)
ItemsAttribute(items) ==
  {[Attribute(<<>>, "items", "computed") EXCEPT !.type = "list", !.levels = <<"object">>]}
  \cup {[a EXCEPT !.under = <<"items">> \o @] : a \in items}
Arguments(c, items) ==
  ensureFilterAttributes(ensureParentParameters({}, pathParameters(At(c, "list")), <<>>), items)
companion(c, items) == excludeReservedRootNames(Arguments(c, items) \cup ItemsAttribute(items))
datasource(c, t) == IF c.class.lookupByKey THEN lookup(c, t) ELSE companion(c, WithID(c, t))

Dressed(c, kind, t) ==
  CASE kind = "resource"   -> resource(c, t)
    [] kind = "datasource" -> datasource(c, t)
    [] kind = "list"       -> WithID(c, t)
    [] OTHER               -> excludeReservedRootNames(t)    \* an action
Derived(c, kind, t) ==
  [tree |-> Dressed(c, kind, t), parent |-> IF kind \in {"resource", "action"} THEN enclosingEntity(c.collection) ELSE <<>>,
   addressing |-> IF kind = "list" THEN addressingAttributes(pathParameters(At(c, "list"))) ELSE {},
   queries |-> [r \in Roles |-> requiredQueryParameters(At(c, r))],
   note |-> notes[c.key]]

(***************************************************************************)
(* Building.                                                               *)
(***************************************************************************)
Begin ==
  /\ phase = "begin" /\ blocks # <<>>
  /\ work' = {Open(<<>>, SchemasOf(Entity, Kind), Kind = "resource" /\ Entity.class.missingUpdate, FALSE)}
  /\ tree' = {} /\ phase' = "grow"
  /\ UNCHANGED <<document, gathering, naming, notes, blocks, model>>

Opened(made) == /\ tree' = tree \cup UNION {m.attributes : m \in made}
                /\ work' = UNION {m.below : m \in made}
Grow ==
  /\ phase = "grow" /\ work # {}
  /\ Opened(UNION {buildAttributeTree(o) : o \in work})
  /\ UNCHANGED <<document, phase, gathering, naming, notes, blocks, model>>

Finish ==
  /\ phase = "grow" /\ work = {}
  /\ model' = Entered(model, <<Kind, Entity.key>>, Derived(Entity, Kind, tree))
  /\ blocks' = Tail(blocks) /\ phase' = "begin"
  /\ UNCHANGED <<document, gathering, naming, notes, work, tree>>

Done ==
  /\ phase = "begin" /\ blocks = <<>>
  /\ phase' = "done"
  /\ UNCHANGED <<document, gathering, naming, notes, building>>
Finished == phase = "done" /\ UNCHANGED vars

Next == \/ Gather \/ Assign \/ Sort \/ Note \/ Begin \/ Grow \/ Finish \/ Done \/ Finished
        \/ \E c \in undecided : Refuse(c) \/ Name(c)
Spec == Init /\ [][Next]_vars

(***************************************************************************)
(* Properties.                                                             *)
(***************************************************************************)
Named  == phase \in {"begin", "grow", "done"}
Held(c) == {At(c, r) : r \in Roles} \ {NoOp}
OperationsAt(collection) ==
  UNION {Range(p.operations) : p \in {q \in Range(document.paths) : Collection(q.path) = collection}}
\* The one operation the grouping loses: a singleton's write of an item.
LostBySingleton(c, op) == c.class.singleton /\ IsItem(op.path) /\ op.method \in {"PUT", "PATCH"}

\* Every operation of a kept entity's paths is in one role or among the
\* extra ones, whatever else claims the role: nothing the document declares
\* of an entity goes missing between the paths and the audit's plan, an
\* item write beside a singleton excepted (Classify, assign and decide).
EveryOperationCarried ==
  Named => \A i \in DOMAIN kept :
    LET c == kept[i]
        extra == Range(c.class.extra)
    IN /\ \A op \in OperationsAt(c.collection) : op \in Held(c) \cup extra \/ LostBySingleton(c, op)
       /\ Held(c) \cap extra = {}
       /\ \A r, q \in Roles : r # q /\ At(c, r) = At(c, q) => At(c, r) = NoOp

\* No two entities answer to one key, the ones excluded by configuration
\* included, and each of those that derive one key from their paths names
\* exactly the others in its note (Derive's claims, disambiguateKey and the
\* co-management notes).
FamiliesApart ==
  Named => \A i, j \in DOMAIN kept :
    /\ claimed[kept[i].key] = kept[i].collection
    /\ i # j => /\ kept[i].key # kept[j].key
                /\ kept[j].key \in notes[kept[i].key]
                   <=> deriveKey(kept[i].collection) = deriveKey(kept[j].collection)

\* Whether the update's request can carry what lies at a path: a body, or an
\* object in it, that declares no properties is silent and refuses nothing.
Bottom[id \in Ids] ==
  IF TypeOf(id) = "array" THEN Bottom[ItemsOf(id)]
  ELSE IF NamesOf(id) = {} /\ ValuesOf(id) # "" THEN Bottom[ValuesOf(id)] ELSE id
Takes(id, path) ==
  LET taken[n \in 0..Len(path)] ==      \* whether the first n names are
        IF n = 0 THEN [yes |-> TRUE, at |-> Bottom[id]]
        ELSE IF NamesOf(taken[n - 1].at) = {} THEN taken[n - 1]
        ELSE LET next == findProperty(taken[n - 1].at, path[n])
             IN [yes |-> next # "", at |-> Bottom[next]]
  IN taken[Len(path)].yes
PathOf(a)    == Append(a.under, a.wire)
AtOrAbove(t, a) == {b \in t : IsPrefix(PathOf(b), PathOf(a))}
DeclaredAt(id, path) ==
  LET at[n \in 0..Len(path)] == IF n = 0 THEN id ELSE findProperty(Bottom[at[n - 1]], path[n])
  IN at[Len(path)]
ImmutableAt(c, path) == Extended(DeclaredAt(CreateBody(c), path), DeclaredAt(At(c, "read").answer, path), "immutable")
Updatable(c, a) == /\ ~c.class.missingUpdate /\ Takes(At(c, "update").body, PathOf(a))
                   /\ \A n \in 1..Len(PathOf(a)) : ~ImmutableAt(c, SubSeq(PathOf(a), 1, n))
Settable(c, t)  == {a \in t : a.presence # "computed" /\ a.cause = ""
                              /\ ~(a.under = <<>> /\ a.wire \in {p.name : p \in Range(Above(c))})}

\* What a practitioner may set and no update can carry plans a replacement,
\* at the attribute or above it, and what the update takes plans none, at
\* any depth and through collections (buildAttributeTree's difference of the
\* two request bodies).
ReplacedIfNotUpdatable ==
  \A i \in DOMAIN kept :
    LET c == kept[i]
        t == IF <<"resource", c.key>> \in DOMAIN model THEN model[<<"resource", c.key>>].tree ELSE {}
    IN \A a \in Settable(c, t) : (\E b \in AtOrAbove(t, a) : b.replace) <=> ~Updatable(c, a)

\* Beneath an attribute the server may fill nothing is required or only
\* optional, and beneath a computed one everything is computed: terraform
\* would otherwise clear on every plan what the server filled
\* (serverFilledMembersComputed, buildAttribute).
FilledStaysFilled ==
  \A b \in DOMAIN model : \A a, x \in model[b].tree :
    IsStrictPrefix(PathOf(x), PathOf(a)) =>
      /\ x.presence = "computed" => a.presence = "computed"
      /\ x.presence = "computed_optional" => a.presence \in {"computed", "computed_optional"}

\* No level of a schema declares one name twice, the addressing attributes,
\* the filters and the items of a companion among them: a document that
\* spells no two properties of an object alike yields schemas that load
\* (ensureID, ensureParentParameters, ensureFilterAttributes, requireKey).
OneNameEach ==
  \A b \in DOMAIN model : \A s \in {model[b].tree, model[b].addressing} :
    \A a, x \in s : a.under = x.under /\ a.name = x.name => a = x

\* A document holds finitely many schemas, so none of its trees nests deeper
\* than it has schemas: a schema that contains itself is bounded, as the
\* audit bounds it (buildAttributeTree).
TreesAreFinite == \A o \in work : Len(o.under) <= Cardinality(DOMAIN document.schemas)
=============================================================================
