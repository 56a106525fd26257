--------------------------- MODULE AttributeTrees ----------------------------
(***************************************************************************)
(* The attributes of an object, from its create request, its read response *)
(* and its update request (internal/intermediate_representation,           *)
(* attributes.go and attribute_types.go).                                  *)
(*                                                                         *)
(* A tree is the set of its attributes, each with the wire names of the    *)
(* objects above it in under.  An object still to be opened is             *)
(* [under, create, read, update, all, beneath]: its three schemas, whether *)
(* every writable attribute forces replacement, and whether it lies        *)
(* beneath an attribute the server may fill.  Constraints, prose and the   *)
(* conditions between attributes are left out.                             *)
(***************************************************************************)
EXTENDS OperationRoles

\* The properties of an object, from all sides and below one of them.
Sides(create, read, update) == [create |-> create, read |-> read, update |-> update]
Seen(o, name)  == Sides(findProperty(o.create, name), findProperty(o.read, name), findProperty(o.update, name))
EachItem(s)    == Sides(ItemsOf(s.create), ItemsOf(s.read), ItemsOf(s.update))
EachValue(s)   == Sides(ValuesOf(s.create), ValuesOf(s.read), ValuesOf(s.update))
Governing(s)   == IF s.create # "" THEN s.create ELSE s.read
NoSides        == Sides("", "", "")
Requested(id)  == Sides(id, "", "")      \* what only a request describes
Answered(id)   == Sides("", id, "")      \* what only an answer does

(***************************************************************************)
(* Who sets a value.                                                       *)
(***************************************************************************)
Unsettable(s) == \/ s.create = "" \/ Some(s.create, "readOnly")
                 \/ Extended(s.create, s.read, "serverForced") \/ Extended(s.create, s.read, "volatile")
Presence(o, name, s) ==
  IF Unsettable(s) THEN "computed"
  ELSE IF name \in RequiredOf(o.create) THEN "required"
  ELSE IF s.read # "" \/ name \in RequiredOf(o.read) \/ Some(s.create, "default")
          \/ Extended(s.create, s.read, "serverDefault") THEN "computed_optional"
  ELSE "optional"

\* Takes an update that declares no properties for one that refuses all.
excludedBySilence(o, s) == o.update # "" /\ s.update = ""
\* An update that declares properties and not this one refuses to take it.
excludedByUpdate(o, s) == NamesOf(o.update) # {} /\ s.update = ""
RequiresReplace(o, s, presence) ==
  presence # "computed" /\ (o.all \/ excludedByUpdate(o, s) \/ Extended(s.create, s.read, "immutable"))

\* Gives up only what is required beneath what the server may fill.
serverFilledRequired(o, presence) == IF o.beneath /\ presence = "required" THEN "computed_optional" ELSE presence
\* Beneath what the server may fill nothing is required or only optional.
serverFilled(o, presence) == IF o.beneath /\ presence # "computed" THEN "computed_optional" ELSE presence

(***************************************************************************)
(* What a declared type becomes: a shape is a type with the levels below   *)
(* it, the object at the bottom, if any, and why there is no attribute.    *)
(***************************************************************************)
TypeNames == [string |-> "string", boolean |-> "bool", integer |-> "int64", number |-> "float64"]
Refused(cause)   == [type |-> "", levels |-> <<>>, nests |-> FALSE, below |-> NoSides, variants |-> <<>>, cause |-> cause]
Plain(t)         == [Refused("") EXCEPT !.type = TypeNames[t], !.levels = << TypeNames[t] >>]
Object(s)        == [Refused("") EXCEPT !.type = "object", !.levels = <<"object">>, !.nests = TRUE, !.below = s]
Within(level, e) == IF e.cause # "" THEN e ELSE [e EXCEPT !.levels = <<level>> \o @]
IsObject(id)     == TypeOf(id) = "object" \/ (Unstated(TypeOf(id)) /\ NamesOf(id) # {})
For(container, ofMap, ofList) == Refused(IF container = "map" THEN ofMap ELSE ofList)

OfType(container, s, id, type, element) ==
  CASE Unstated(id) -> For(container, "untypedAdditionalProperties", "itemlessArray")
    [] type \in Scalars -> Plain(type)
    [] type = "array"   -> Within("list", element[<<"list", EachItem(s)>>])
    [] ~Unstated(id) /\ IsObject(id) ->
         IF NamesOf(id) # {} THEN Object(s)
         ELSE IF ~Unstated(ValuesOf(id)) THEN Within("map", element[<<"map", EachValue(s)>>])
         ELSE IF Some(id, "bareValues") THEN Refused("untypedAdditionalProperties")
         ELSE For(container, "mapOfObjects", "freeFormArrayElement")
    [] OTHER -> For(container, "unsupportedMapValue", "unsupportedArrayElement")
SidesOf == [create : Ids, read : Ids, update : Ids]
deriveElement[container \in {"map", "list"}, s \in SidesOf] ==
  OfType(container, s, Governing(s), TypeOf(Governing(s)), deriveElement)

\* A collection of collections holds no objects: none is composed so deep.
AsCollection(container, e) ==
  IF e.cause # "" THEN Refused(e.cause)
  ELSE IF Len(e.levels) > 1 /\ e.nests THEN Refused("nestedCollectionElement")
  ELSE [Refused("") EXCEPT !.type = container, !.levels = e.levels, !.nests = e.nests, !.below = e.below]

deriveUnionType(branches, s) ==
  IF s.create # "" THEN Refused("writableUnion")
  ELSE IF \E b \in Range(branches) : Own(b).ref = "" THEN Refused("unnamedUnionBranch")
  ELSE [Refused("") EXCEPT !.type = "object", !.levels = <<"object">>, !.variants = branches]

deriveMapType(id, s) ==
  IF ValuesOf(id) # "" THEN AsCollection("map", deriveElement[<<"map", EachValue(s)>>])
  ELSE Refused(IF Some(id, "bareValues") THEN "untypedAdditionalProperties"
               ELSE "objectWithoutPropertiesOrAdditionalProperties")

TypedAs(id, type, s) ==
  CASE type \in Scalars -> Plain(type)
    [] type = "array"   -> AsCollection("list", deriveElement[<<"list", EachItem(s)>>])
    [] IsObject(id)     -> IF NamesOf(id) # {} THEN Object(s) ELSE deriveMapType(id, s)
    [] Unstated(type) /\ ~IsObject(id) ->
         IF Branches(View(id)) # <<>> THEN deriveUnionType(Branches(View(id)), s) ELSE Refused("undeclaredType")
    [] OTHER            -> Refused("unsupportedType")
deriveType(id, s) == TypedAs(id, TypeOf(id), s)

(***************************************************************************)
(* One object opened: its attributes, and the objects beneath them.  The   *)
(* children of a computed attribute have no request to be set by.          *)
(***************************************************************************)
Attribute(under, wire, presence) ==
  [under |-> under, wire |-> wire, name |-> WordsOf[wire], presence |-> presence, replace |-> FALSE,
   type |-> "string", levels |-> <<"string">>, cause |-> "", filter |-> FALSE]
Open(under, s, all, beneath) ==
  [under |-> under, create |-> s.create, read |-> s.read, update |-> s.update, all |-> all, beneath |-> beneath]
BelowOf(s, presence) == IF presence = "computed" THEN [s EXCEPT !.create = ""] ELSE s

Variant(under, b) == [Attribute(under, Own(b).ref, "computed") EXCEPT !.type = "object", !.levels = <<"object">>]
Made(a, shape, beneath) ==
  LET path == Append(a.under, a.wire)
  IN [attributes |-> {[a EXCEPT !.type = shape.type, !.cause = shape.cause, !.levels = shape.levels]}
                     \cup {Variant(path, b) : b \in Range(shape.variants)},
      below |-> (IF shape.nests THEN {Open(path, shape.below, FALSE, beneath)} ELSE {})
                \cup {Open(Append(path, Own(b).ref), Answered(b), FALSE, beneath) : b \in Range(shape.variants)}]
Filled(o, a, shape) == Made(a, shape, o.beneath \/ a.presence = "computed_optional")
Decided(o, name, s, presence) ==
  Filled(o, [Attribute(o.under, name, serverFilled(o, presence)) EXCEPT !.replace = RequiresReplace(o, s, presence)],
         deriveType(Governing(s), BelowOf(s, presence)))
Chosen(o, name, s)     == Decided(o, name, s, Presence(o, name, s))
buildAttribute(o, name) == Chosen(o, name, Seen(o, name))
buildAttributeTree(o)  == {buildAttribute(o, name) : name \in NamesOf(o.create) \cup NamesOf(o.read)}
=============================================================================
