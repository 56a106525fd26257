---------------------------- MODULE SpecLoading -----------------------------
(***************************************************************************)
(* The reading of a written OpenAPI document (internal/specmodel: load.go, *)
(* refs.go and extensions.go), by whatever classifies or derives from it.  *)
(*                                                                         *)
(* A written document is [version, info, extensions, named, schemas,       *)
(* parameters, requestBodies, responses, paths, exclude], services.exclude *)
(* beside it.  Every schema node has an id in schemas, inline ones too,    *)
(* and named are those under components.schemas; the other components, the *)
(* paths and a path's operations are by name.  A mapping has a key once.   *)
(* A YAML value is [kind, value], [kind, entries] or [kind, items].        *)
(***************************************************************************)
EXTENDS OperationRoles

CONSTANTS
  Order,         \* the paths and the collections of items, sorted as strings
  MediaTypes     \* the media types, sorted as strings

Earlier(x, y, order) == \E i, j \in DOMAIN order : i < j /\ order[i] = x /\ order[j] = y
\* The members of a set in a given order: what sorting them leaves.
Places(S, order) == {n \in DOMAIN order : order[n] \in S}
Nth(places, i)   == CHOOSE n \in places : Cardinality({m \in places : m <= n}) = i
InOrder(S, order) == [i \in 1..Cardinality(Places(S, order)) |-> order[Nth(Places(S, order), i)]]

methods   == <<"GET", "PUT", "POST", "DELETE", "PATCH", "HEAD", "OPTIONS", "TRACE">>
Successes == <<"200", "201", "202", "204">>
isJSON(m) == m \in {"application/json", "application/hal+json"}
Entry(map, key) == IF key \in DOMAIN map THEN map[key] ELSE ""
When(faulty, cause) == IF faulty THEN {cause} ELSE {}

(***************************************************************************)
(* References: into a section of the components, to one of its names.      *)
(***************************************************************************)
Inline == [to |-> "", name |-> ""]
ByReference(node) == node.reference # Inline
componentName(reference, section, declared) ==     \* what is wrong with one
  IF reference.to # section THEN {"unsupportedReference"}
  ELSE When(reference.name \notin declared, "undeclaredReference")

(***************************************************************************)
(* Extensions: each known key has values of one shape.                     *)
(***************************************************************************)
Spells(v, values) == v.kind = "scalar" /\ v.value \in values
Text(v)           == v.kind = "scalar" /\ v.value # ""
TextsAt(v, keys)  == v.kind = "mapping" /\ DOMAIN v.entries = keys /\ \A k \in keys : Text(v.entries[k])
NameList(v)       == v.kind = "sequence" /\ "" \notin Range(v.items)
Booleans     == {"immutable", "deleteNotFoundOK", "values", "volatile", "serverForced", "ignoredOnUpdate"}
Durations    == {"0s", "30s"}
Wraps(v)     == "wrapped" \in DOMAIN v.entries /\ v.entries["wrapped"].value = "true"
extListWrapper(v) ==
  /\ v.kind = "mapping" /\ DOMAIN v.entries \subseteq {"wrapped", "key"} /\ TextsAt(v, DOMAIN v.entries)
  /\ "wrapped" \in DOMAIN v.entries => Spells(v.entries["wrapped"], {"true", "false"})
  /\ "key" \in DOMAIN v.entries <=> Wraps(v)
extMutuallyExclusive(v) == NameList(v) /\ Len(v.items) > 1 /\ Cardinality(Range(v.items)) = Len(v.items)
extValidConfiguration(v) ==
  /\ v.kind = "mapping" /\ DOMAIN v.entries = {"discriminator", "variants"}
  /\ Text(v.entries["discriminator"]) /\ v.entries["variants"].kind = "mapping"
  /\ DOMAIN v.entries["variants"].entries # {} /\ \A x \in Range(v.entries["variants"].entries) : NameList(x)
extensionParsers(key, v) ==
  CASE key \in Booleans                     -> Spells(v, {"true", "false"})
    [] key \in {"requiredWhen", "validWhen"} -> TextsAt(v, {"property", "equals"})
    [] key = "dependsOn"                    -> TextsAt(v, {"requires"})
    [] key = "mutuallyExclusive"            -> extMutuallyExclusive(v)
    [] key = "validConfiguration"           -> extValidConfiguration(v)
    [] key = "listWrapper"                  -> extListWrapper(v)
    [] key = "listPagination"               -> Spells(v, {"cursor", "offset", "page", "none"})
    [] key = "updateStyle"                  -> Spells(v, {"patch-merge", "put-full", "replace-only"})
    [] key = "normalisation" -> Spells(v, {"case-folded", "trimmed", "extended", "same-instant", "reordered"})
    [] key = "readAfterWrite"               -> Spells(v, Durations)
    [] key = "serverDefault"                -> v.kind = "scalar"
    [] key = "identifierProperty"           -> Text(v)
    [] OTHER                                -> FALSE     \* an unknown key
parseExtensions(found) == When(\E k \in DOMAIN found : ~extensionParsers(k, found[k]), "extension")

\* What the derivation asks of them: a reading of the server's default is there
\* or not, a flag says yes or no.
Flagging(found) == [k \in DOMAIN found \cap (Booleans \cup {"serverDefault"}) |->
                      k = "serverDefault" \/ found[k].value = "true"]
IdentifierProperty(found) == IF "identifierProperty" \in DOMAIN found THEN found["identifierProperty"].value ELSE ""
WrapperKey(v)      == IF Wraps(v) THEN v.entries["key"].value ELSE ""
ListWrapper(found) == IF "listWrapper" \in DOMAIN found THEN WrapperKey(found["listWrapper"]) ELSE "none"

(***************************************************************************)
(* Schemas.  additional is "bare" where it is spelled as a boolean, and    *)
(* undecodable the keys whose values are not of their key's type.          *)
(***************************************************************************)
Blank == [type |-> "", ref |-> "", allOf |-> <<>>, items |-> "", values |-> "", union |-> <<>>,
          properties |-> <<>>, required |-> {}, flags |-> {}, extensions |-> <<>>]
NonNull(types)    == SelectSeq(types, LAMBDA t : t # "null")
schemaType(types) == IF types # <<>> /\ NonNull(types) = <<>> THEN "null" ELSE FirstOf(NonNull(types))
Inlined(n) ==
  [type |-> schemaType(n.types), ref |-> "", allOf |-> n.allOf, items |-> n.items,
   values |-> IF n.additional = "bare" THEN "" ELSE n.additional, union |-> n.oneOf \o n.anyOf,
   properties |-> n.properties, required |-> n.required,
   flags |-> n.flags \cup When(n.additional = "bare", "bareValues"), extensions |-> Flagging(n.extensions)]
\* A boolean schema says nothing; of a reference only the extensions beside it
\* are read.
schema(n) ==
  IF n.kind = "scalar" THEN Blank
  ELSE IF ByReference(n) THEN [Blank EXCEPT !.ref = n.reference.name, !.extensions = Flagging(n.extensions)]
  ELSE Inlined(n)
Beneath(n) ==
  IF n.kind # "mapping" \/ ByReference(n) THEN {}
  ELSE ({p.to : p \in Range(n.properties)} \cup Range(n.allOf \o n.oneOf \o n.anyOf) \cup n.dependent
        \cup {n.items, n.additional}) \ {"", "bare"}
SchemaFaults(w, n) ==
  IF n.kind # "mapping" THEN When(n.kind # "scalar", "notASchema")
  ELSE parseExtensions(n.extensions)
       \cup (IF ByReference(n) THEN componentName(n.reference, "schemas", w.named)
             ELSE When(n.undecodable # {}, "undecodable") \cup When(n.discriminator = "", "discriminator"))

(***************************************************************************)
(* Bodies: JSON before the other media types, the first that has a schema. *)
(* A component body that is itself a reference has no media.               *)
(***************************************************************************)
JSONFirst == SelectSeq(MediaTypes, isJSON) \o SelectSeq(MediaTypes, LAMBDA m : ~isJSON(m))
contentSchema(b) == Stated([i \in DOMAIN JSONFirst |-> Entry(b.media, JSONFirst[i])])
bodySchema(b, components) == contentSchema(IF ByReference(b) THEN components[b.reference.name] ELSE b)
BodyFaults(b, section, components) ==
  IF ByReference(b) THEN componentName(b.reference, section, DOMAIN components) ELSE {}

\* The first 2xx answer with a schema, else the default one's.
Answering == Successes \o <<"default">>
responseSchema(w, op, status) ==
  IF status \in DOMAIN op.responses THEN bodySchema(op.responses[status], w.responses) ELSE ""
SuccessSchema(w, op) == Stated([i \in DOMAIN Answering |-> responseSchema(w, op, Answering[i])])

(***************************************************************************)
(* Parameters.                                                             *)
(***************************************************************************)
ReadParameter(p) ==
  [name |-> p.name, in |-> p.in, required |-> IF p.required = "" THEN p.in = "path" ELSE p.required = "true",
   schema |-> p.schema, example |-> p.example]
parameter(w, p)       == ReadParameter(IF ByReference(p) THEN w.parameters[p.reference.name] ELSE p)
parameterList(w, ps)  == {parameter(w, p) : p \in ps}
\* An operation's own parameter wins over one its path shares.
combineParameters(shared, own) ==
  own \cup {p \in shared : \A q \in own : <<q.name, q.in>> # <<p.name, p.in>>}
InlineFaults(p) == parseExtensions(p.extensions) \cup When("" \in {p.name, p.in}, "namelessParameter")
                   \cup When(p.required \notin {"", "true", "false"}, "undecodable")
ParameterFaults(w, p) ==
  IF ByReference(p) THEN componentName(p.reference, "parameters", DOMAIN w.parameters) ELSE InlineFaults(p)

(***************************************************************************)
(* The document.                                                           *)
(***************************************************************************)
operation(w, path, method, op, shared) ==
  [method |-> method, path |-> path, body |-> bodySchema(op.body, w.requestBodies), answer |-> SuccessSchema(w, op),
   parameters |-> combineParameters(parameterList(w, shared), parameterList(w, op.parameters)),
   identifier |-> IdentifierProperty(op.extensions), wrapper |-> ListWrapper(op.extensions)]
OperationsOf(w, path) ==
  LET item == w.paths[path]
      ms   == InOrder(DOMAIN item.operations, methods)
  IN [i \in DOMAIN ms |-> operation(w, path, ms[i], item.operations[ms[i]], item.parameters)]
LoadedPaths(w) ==
  LET ps == InOrder(DOMAIN w.paths, Order)
  IN [i \in DOMAIN ps |-> [path |-> ps[i], operations |-> OperationsOf(w, ps[i])]]

\* What is read: every component, and of the paths the chosen media and the
\* parameters, with all that lies beneath them.
PathItems(w)  == Range(w.paths)
WrittenOps(w) == UNION {Range(item.operations) : item \in PathItems(w)}
ListedParameters(w) == UNION {x.parameters : x \in PathItems(w) \cup WrittenOps(w)}
Contents(w)   == {op.body : op \in WrittenOps(w)} \cup UNION {Range(op.responses) : op \in WrittenOps(w)}
                 \cup Range(w.requestBodies) \cup Range(w.responses)
Roots(w)      == (w.named \cup {p.schema : p \in ListedParameters(w) \cup Range(w.parameters)}
                          \cup {contentSchema(b) : b \in Contents(w)}) \ {""}
BeneathAll(w, ids) == UNION {Beneath(w.schemas[id]) : id \in ids}
Further(w, ids)    == ids \cup BeneathAll(w, ids)
Parsed(w) ==
  LET reached[n \in 0..Cardinality(DOMAIN w.schemas)] ==
        IF n = 0 THEN Roots(w) ELSE Further(w, reached[n - 1])
  IN Roots(w) \cup BeneathAll(w, reached[Cardinality(DOMAIN w.schemas)])

\* Whatever is wrong anywhere refuses the document; the code reports what it
\* meets first.
HeadingFaults(w) == When(w.version # "3", "unsupportedVersion") \cup When(~w.info, "noInfoVersion")
                    \cup parseExtensions(w.extensions)
PathFaults(w) ==
  UNION {IF ByReference(p) THEN {"componentByReference"} ELSE InlineFaults(p) : p \in Range(w.parameters)}
  \cup UNION {parseExtensions(x.extensions) : x \in PathItems(w) \cup WrittenOps(w)}
  \cup UNION {ParameterFaults(w, p) : p \in ListedParameters(w)}
  \cup UNION {BodyFaults(op.body, "requestBodies", w.requestBodies) : op \in WrittenOps(w)}
  \cup UNION {BodyFaults(b, "responses", w.responses) : b \in UNION {Range(op.responses) : op \in WrittenOps(w)}}
NodeFaults(w) == UNION {SchemaFaults(w, w.schemas[id]) : id \in Parsed(w)}
Faults(w) == HeadingFaults(w) \cup PathFaults(w) \cup NodeFaults(w)
Loads(w) == Faults(w) = {}
Load(w)  == [paths |-> LoadedPaths(w), exclude |-> w.exclude, schemas |-> [id \in Parsed(w) |-> schema(w.schemas[id])]]
=============================================================================
