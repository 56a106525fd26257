--------------------------- MODULE OperationRoles ----------------------------
(***************************************************************************)
(* The grouping of a document's operations into entities, and what each    *)
(* entity can become (internal/specmodel/classify.go).                     *)
(*                                                                         *)
(* A path is a sequence of segments, those in Parameters being {braced}.   *)
(* An operation is [method, path, body, answer, ...], body its request's   *)
(* schema and answer its success response's; parameters are those that the *)
(* document declares for it.                                               *)
(***************************************************************************)
EXTENDS SchemaFold

CONSTANTS
  Parameters,    \* the segments that are path parameters
  WordsOf,       \* a segment or a wire name -> the words of its snake_case form
  SingularOf     \* a literal segment -> its words, the last one singularised

NoOp == [method |-> "", path |-> <<>>, body |-> "", answer |-> "", parameters |-> {}, identifier |-> "", wrapper |-> "none"]
Roles == {"create", "read", "update", "delete", "list", "collectionWrite"}
kindOrder == <<"resource", "datasource", "list", "action">>

(***************************************************************************)
(* Paths.                                                                  *)
(***************************************************************************)
IsItem(path)     == Len(path) > 1 /\ Last(path) \in Parameters
Collection(path) == IF IsItem(path) THEN Front(path) ELSE path
Literals(path)   == SelectSeq(path, LAMBDA s : s \notin Parameters)
Spelled(parts)   == FlattenSeq([i \in DOMAIN parts |->
                      IF i = Len(parts) THEN SingularOf[parts[i]] ELSE WordsOf[parts[i]]])
keyForPath(path) == IF Literals(path) = <<>> THEN <<"root">> ELSE Spelled(Literals(path))

(***************************************************************************)
(* Gathering.                                                              *)
(***************************************************************************)
NoEntity == [item |-> <<>>, at |-> [r \in Roles |-> NoOp], extra |-> <<>>]
Position(method, item) ==
  CASE method = "POST" /\ ~item              -> "create"
    [] method = "GET" /\ ~item               -> "list"
    [] method = "GET" /\ item                -> "read"
    [] method \in {"PUT", "PATCH"} /\ item   -> "update"
    [] method \in {"PUT", "PATCH"} /\ ~item  -> "collectionWrite"
    [] method = "DELETE" /\ item             -> "delete"
    [] OTHER                                 -> "extra"
Filed(e, op, role) == IF role # "extra" /\ e.at[role] = NoOp
                      THEN [e EXCEPT !.at[role] = op] ELSE [e EXCEPT !.extra = Append(@, op)]
\* Files a second claimant over the first.
assignLast(e, op) == LET role == Position(op.method, IsItem(op.path))
                     IN IF role = "extra" THEN [e EXCEPT !.extra = Append(@, op)]
                        ELSE [e EXCEPT !.at[role] = op]
assign(e, op) == Filed(e, op, Position(op.method, IsItem(op.path)))

Known(found, collection) == IF collection \in DOMAIN found THEN found[collection] ELSE NoEntity
Itemed(e, path) == IF IsItem(path) /\ e.item = <<>> THEN [e EXCEPT !.item = path] ELSE e
\* One path of the document opens its entity; the operations follow it in.
Opening(found, path) ==
  [c \in DOMAIN found \cup {Collection(path)} |->
     IF c = Collection(path) THEN Itemed(Known(found, c), path) ELSE found[c]]

(***************************************************************************)
(* What an entity can become.                                              *)
(***************************************************************************)
Has(e, role)     == e.at[role] # NoOp
Answers(e, role) == e.at[role].answer # ""
carriesCollection(id) ==
  \E s \in Range(View(id)) :
     Own(s).type = "array" \/ \E p \in Range(Own(s).properties) : Own(Resolved(p.to)).type = "array"

hasResourceOperations(e)  == Has(e, "create") /\ Has(e, "read") /\ Has(e, "delete")
resourceOK(e)             == hasResourceOperations(e) /\ e.at["create"].body # "" /\ Answers(e, "read")
hasLookupOperations(e)    == Has(e, "read") /\ ~Has(e, "list")
lookupOK(e)               == hasLookupOperations(e) /\ Answers(e, "read")
dsOK(e)                   == Answers(e, "list") /\ Answers(e, "read")
hasListOnlyOperations(e)  == Has(e, "list") /\ ~Has(e, "read")
hasSingletonOperations(e) == hasListOnlyOperations(e) /\ Answers(e, "list")
                             /\ ~carriesCollection(e.at["list"].answer)
collectionOK(e)           == hasListOnlyOperations(e) /\ Answers(e, "list") /\ ~hasSingletonOperations(e)
singletonOK(e)            == hasSingletonOperations(e) /\ Has(e, "collectionWrite")
Idle(e, roles)            == \A r \in roles : ~Has(e, r)
loneWrite(e)              == Idle(e, {"create", "read", "list", "delete"})
                             /\ Has(e, "update") # Has(e, "collectionWrite")
hasActionOperations(e)    == loneWrite(e) \/ (Has(e, "create") /\ Idle(e, {"read", "list", "update", "delete"}))

Kinds(e) ==
  {k \in Range(kindOrder) :
     \/ k = "resource"   /\ (resourceOK(e) \/ singletonOK(e))
     \/ k = "datasource" /\ (resourceOK(e) \/ dsOK(e) \/ lookupOK(e) \/ collectionOK(e))
     \/ k = "list"       /\ resourceOK(e) /\ Answers(e, "list")
     \/ k = "action"     /\ hasActionOperations(e)}

exclusionReason(e) ==
  CASE hasResourceOperations(e)             -> "schemalessLifecycle"
    [] Has(e, "list") /\ Has(e, "read")     -> "schemalessDatasource"
    [] hasSingletonOperations(e)            -> "unwritableFixedPath"
    [] hasListOnlyOperations(e)             -> "schemalessList"
    [] hasLookupOperations(e)               -> "schemalessRead"
    [] Idle(e, Roles \ {"collectionWrite"}) -> "noClassifiableOperation"
    [] OTHER                                -> "partialLifecycle"

\* A singleton is read and written where a collection is listed; a lone
\* write is a create; else a write of the collection path is surplus.
firstOf(a, b) == IF a # NoOp THEN a ELSE b
Arranged(e) ==
  IF singletonOK(e)
  THEN [e EXCEPT !.at["read"] = e.at["list"], !.at["update"] = e.at["collectionWrite"],
                 !.at["list"] = NoOp, !.at["collectionWrite"] = NoOp]
  ELSE IF loneWrite(e)
  THEN [e EXCEPT !.at["create"] = firstOf(e.at["update"], e.at["collectionWrite"]),
                 !.at["update"] = NoOp, !.at["collectionWrite"] = NoOp]
  ELSE [e EXCEPT !.at["collectionWrite"] = NoOp,
                 !.extra = IF Has(e, "collectionWrite") THEN Append(@, e.at["collectionWrite"]) ELSE @]
\* A classification: the roles, and what the entity's operations make of it.
decide(e) ==
  [item |-> e.item, at |-> Arranged(e).at, extra |-> Arranged(e).extra,
   kinds |-> Kinds(e), singleton |-> singletonOK(e),
   missingUpdate |-> resourceOK(e) /\ ~Has(e, "update"),
   lookupByKey |-> lookupOK(e) /\ ~resourceOK(e)]
=============================================================================
