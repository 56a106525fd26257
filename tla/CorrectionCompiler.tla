------------------------- MODULE CorrectionCompiler ------------------------
(***************************************************************************)
(* How one confirmed observation of the live API becomes the operations of *)
(* a correction, or why it becomes none.  One rule for each kind of        *)
(* observation, read against the document as the corrections compiled so   *)
(* far leave it.                                                           *)
(***************************************************************************)
EXTENDS SpecDocument

CONSTANTS
    Roles,      \* entity -> role -> the operation's pointer, or NoPlace
    Mechanics   \* names of properties that describe the API and not the entity

\* An observation: `attr` is the dotted name as a sequence, empty for an
\* entity-level kind; `cond` the sibling and the value a conditional kind is
\* about; `value` the finding as a value of the document; `taken`, `refused`
\* and `open` the record of a values observation, `taken` also what the
\* bodies of a writable one carried; `sent` the relation normalisation reads
\* out of the excerpts.
Identity(o) == <<o.entity, o.attr, o.kind, o.cond>>

\* The name in the spelling an observation has it; where a rule writes a
\* name into the document, this is what it writes, nested or not.
Dotted(attr) == FoldLeft(LAMBDA name, next : name \o "." \o next, attr[1], Tail(attr))

\* observe.Sort: entity, attribute, what declares before what annotates, kind.
Placement(kind) == IF kind = "undocumentedFieldInSpec" THEN 0 ELSE 1
Rank(o) == <<Position(o.entity), IF o.attr = <<>> THEN 0 ELSE Position(o.attr[1]),
             Len(o.attr), Placement(o.kind), Position(o.kind),
             IF o.cond.field = "" THEN 0 ELSE Position(o.cond.field),
             IF o.cond.field = "" THEN 0 ELSE Position(o.cond.equals)>>
Precedes(r, s) == \E i \in 1..Len(r) : r[i] < s[i] /\ \A j \in 1..i - 1 : r[j] = s[j]
SortObservations(obs) == SetToSortSeq(obs, LAMBDA a, b : Precedes(Rank(a), Rank(b)))

Compiled(ops)     == [category |-> "compiled", ops |-> ops]
Stated            == [category |-> "alreadyStated", ops |-> <<>>]
NoForm            == [category |-> "noForm", ops |-> <<>>]
Unplaceable       == [category |-> "unplaceable", ops |-> <<>>]
Vetoed            == [category |-> "vetoed", ops |-> <<>>]
AddOp(path, value) == [op |-> "add", path |-> path, value |-> value]
IsTrue(o)         == o.value = Scalar("true")

\* Where an observation's attribute is declared: in what a create sends,
\* else in what a read answers.
PropertySite(d, o) ==
    IF o.attr = <<>> THEN NoPlace
    ELSE FirstPlace(<<FindPath(d, RequestSchema(d, Roles[o.entity].create), o.attr),
                      FindPath(d, ResponseSchema(d, Roles[o.entity].read), o.attr)>>)

-----------------------------------------------------------------------------
(* Kinds about one attribute; `site` is where it is declared. *)

\* A value the API takes and never returns.
MarkWriteOnly(d, target) ==
    IF target = NoPlace THEN Unplaceable
    ELSE IF Declared(d, target, "readOnly") \/ Declared(d, target, "writeOnly") THEN Stated
    ELSE Compiled(<<AddOp(Append(target, "writeOnly"), Scalar("true"))>>)
Writable(d, o, site) ==
    IF IsTrue(o) THEN Stated ELSE MarkWriteOnly(d, FollowRefs(d, site))

\* The kinds whose whole correction is one extension set on the property.
FlagKeys == [immutable       |-> "x-immutable",
             volatile        |-> "x-volatile",
             serverForced    |-> "x-server-forced",
             ignoredOnUpdate |-> "x-ignored-on-update"]

PropertyFlag(d, o, site) ==
    LET key == FlagKeys[o.kind]
    IN  IF ~IsTrue(o) THEN Stated
        ELSE IF site = NoPlace THEN Unplaceable
        ELSE IF Reads(d, Extension(d, site, key), "true") THEN Stated
        ELSE Compiled(<<AddOp(Append(site, key), Scalar("true"))>>)

RequiredByAPI(d, o, site) ==
    LET schema  == Declaring(site)
        request == RequestSchema(d, Roles[o.entity].create)
        name    == Dotted(o.attr)
        list    == Append(schema, "required")
    IN  IF ~IsTrue(o) THEN Stated
        ELSE IF site = NoPlace THEN Unplaceable
        ELSE IF RequiredHas(d, request, name) \/ RequiredHas(d, schema, name) THEN Stated
        ELSE IF HasEntry(d, schema, "required")
             THEN Compiled(<<AddOp(Append(list, "-"), Scalar(name))>>)
        ELSE Compiled(<<AddOp(list, List(<<name>>))>>)

\* requiredWhen and validWhen: one extension on the property, holding one
\* condition, compared and written whole.
ConditionKeys == [requiredWhen |-> "x-required-when", validWhen |-> "x-valid-when"]

StatesCondition(d, said, cond) ==
    Reads(d, Append(said, "property"), cond.field) /\ Reads(d, Append(said, "equals"), cond.equals)
Conditional(d, o, site) ==
    LET key == ConditionKeys[o.kind]
    IN  IF ~IsTrue(o) THEN Stated
        ELSE IF site = NoPlace THEN Unplaceable
        ELSE IF StatesCondition(d, Extension(d, site, key), o.cond) THEN Stated
        ELSE Compiled(<<AddOp(Append(site, key),
                              Mapping([property |-> Scalar(o.cond.field),
                                       equals   |-> Scalar(o.cond.equals)]))>>)

\* A default lands on the property, whoever's evidence is already there.
ServerDefaultUnclaimed(d, o, site, c) ==
    IF <<o.entity, o.attr>> \in c.vetoes THEN Vetoed
    ELSE IF site = NoPlace THEN Unplaceable
    ELSE IF Subtree(d, Extension(d, site, "x-server-default")) = o.value THEN Stated
    ELSE Compiled(<<AddOp(Append(site, "x-server-default"), o.value)>>)

\* A default lands on the property, once: what another entity's evidence put
\* on a shared site, accepted or earlier in this run, is left alone.
ServerDefault(d, o, site, c) ==
    LET path == Append(site, "x-server-default")
    IN  IF <<o.entity, o.attr>> \in c.vetoes THEN Vetoed
        ELSE IF site = NoPlace THEN Unplaceable
        ELSE IF path \in DOMAIN c.restated /\ c.restated[path] # Identity(o) THEN Stated
        ELSE IF path \in DOMAIN c.defaulted /\ c.defaulted[path] # o.value THEN Stated
        ELSE IF Subtree(d, Extension(d, site, "x-server-default")) = o.value THEN Stated
        ELSE Compiled(<<AddOp(path, o.value)>>)

\* Where an entity's schema lists its properties: what a read answers first.
PropertiesSite(d, o) ==
    FirstPlace(<<Extension(d, ResponseSchema(d, Roles[o.entity].read), "properties"),
                 Extension(d, RequestSchema(d, Roles[o.entity].create), "properties")>>)

Declaration(type) ==
    Mapping(IF type = "array" THEN [type |-> Scalar(type), items |-> (<<>> :> Map)]
            ELSE [type |-> Scalar(type)])
DeclareIn(properties, o) ==
    IF properties = NoPlace THEN Unplaceable
    ELSE Compiled(<<AddOp(Append(properties, Dotted(o.attr)), Declaration(o.value[<<>>].value))>>)
UndocumentedField(d, o, site) ==
    IF o.attr = <<>> THEN Unplaceable
    ELSE IF Dotted(o.attr) \in Mechanics \/ site # NoPlace THEN Stated
    ELSE DeclareIn(PropertiesSite(d, o), o)

\* What the edits come to: none where the document says it all already.
Edits(ops) == IF ops = <<>> THEN Stated ELSE Compiled(ops)
TakesOut(path, v) == <<[op |-> "test", path |-> path, value |-> Scalar(v)],
                       [op |-> "remove", path |-> path, value |-> <<>>]>>

\* How a stored value is respelled; a spelling that is no timestamp also
\* withdraws the date-time format.
Unformatted(d, o, format) ==
    IF Reads(d, format, "date-time") /\ o.value \notin {Scalar(""), Scalar("timestamp")}
    THEN TakesOut(format, "date-time") ELSE <<>>
Normalisation(d, o, site) ==
    LET note == IF Reads(d, Extension(d, site, "x-normalisation"), o.sent) THEN <<>>
                ELSE <<AddOp(Append(site, "x-normalisation"), Scalar(o.sent))>>
    IN  IF site = NoPlace \/ o.sent = "" THEN Unplaceable
        ELSE Edits(note \o Unformatted(d, o, Extension(d, site, "format")))

-----------------------------------------------------------------------------
(* A value set against the enum, which several entities may share.         *)

\* Each index computed in the list as the document has it.
EnumEditsUnshifted(list, items, refused, taken) ==
    LET drop(ops, v) ==
          LET i  == CHOOSE n \in 1..Len(items) : items[n] = v
          IN  IF ~Contains(items, v) THEN ops
              ELSE ops \o TakesOut(Append(list, IndexNames[i]), v)
        join(ops, v) == IF Contains(items, v) THEN ops
                        ELSE Append(ops, AddOp(Append(list, "-"), Scalar(v)))
    IN  FoldLeft(join, FoldLeft(drop, <<>>, refused), taken)

\* The removals and additions, each index computed after the edits before it.
EnumEdits(list, items, refused, taken) ==
    LET drop(s, v) ==
          LET i  == CHOOSE n \in 1..Len(s.items) : s.items[n] = v
          IN  IF ~Contains(s.items, v) THEN s
              ELSE [items |-> RemoveAt(s.items, i),
                    ops   |-> s.ops \o TakesOut(Append(list, IndexNames[i]), v)]
        join(s, v) ==
          IF Contains(s.items, v) THEN s
          ELSE [items |-> Append(s.items, v),
                ops |-> Append(s.ops, AddOp(Append(list, "-"), Scalar(v)))]
        start == [items |-> items, ops |-> <<>>]
    IN  FoldLeft(join, FoldLeft(drop, start, refused), taken).ops

\* One entity's refusal decides for all.
KnownTakenByNone(c, list) == {}

\* What some entity is known to send successfully stays declared.
KnownTaken(c, list) ==
    IF list \in DOMAIN c.enumAccepted THEN c.enumAccepted[list] ELSE {}

Opened(d, o, site) ==
    IF ~o.open \/ Reads(d, Extension(d, site, "x-values"), "true") THEN <<>>
    ELSE <<AddOp(Append(site, "x-values"), Scalar("true"))>>
ValuesIn(d, o, site, list, c) ==
    IF list = NoPlace THEN Stated
    ELSE Edits(EnumEdits(list, d[list].items, Sorted(o.refused \ KnownTaken(c, list)),
                         Sorted(o.taken))
               \o Opened(d, o, site))
Values(d, o, site, c) ==
    IF site = NoPlace THEN Unplaceable
    ELSE ValuesIn(d, o, site, Extension(d, site, "enum"), c)

-----------------------------------------------------------------------------
(* The edges inference asserts. *)

\* 3.1 has a keyword for a co-requirement; 3.0 takes the extension.
DependentRequired(d, name, requires, standard) ==
    LET entry == Append(standard, name)
    IN  IF ~Has(d, standard)
        THEN Compiled(<<AddOp(standard, (<<>> :> Map) @@ (<<name>> :> List(<<requires>>)[<<>>]))>>)
        ELSE IF ~Has(d, entry) THEN Compiled(<<AddOp(entry, List(<<requires>>))>>)
        ELSE IF Contains(d[entry].items, requires) THEN Stated
        ELSE Compiled(<<AddOp(Append(entry, "-"), Scalar(requires))>>)
DependsOn(d, o, site) ==
    LET requires == o.value[<<>>].value
    IN  IF site = NoPlace THEN Unplaceable
        ELSE IF Reads(d, <<"openapi">>, "3.1.0")
        THEN DependentRequired(d, Dotted(o.attr), requires, Append(Declaring(site), "dependentRequired"))
        ELSE IF Reads(d, Append(Extension(d, site, "x-depends-on"), "requires"), requires) THEN Stated
        ELSE Compiled(<<AddOp(Append(site, "x-depends-on"),
                              Mapping([requires |-> Scalar(requires)]))>>)

\* At the level of the entity's schema: what a create sends first.
SchemaSite(d, o) ==
    FirstPlace(<<RequestSchema(d, Roles[o.entity].create), ResponseSchema(d, Roles[o.entity].read)>>)

ExclusiveAt(d, o, schema) ==
    LET at  == Append(schema, "x-mutually-exclusive")
        set == List(Sorted(ToSet(o.value[<<>>].items)))
    IN  IF Len(o.value[<<>>].items) < 2 \/ schema = NoPlace THEN Unplaceable
        ELSE IF Has(d, at) /\ d[at] = set[<<>>] THEN Stated
        ELSE Compiled(<<AddOp(at, set)>>)
MutuallyExclusive(d, o) == ExclusiveAt(d, o, SchemaSite(d, o))

\* The gate's values are the observation's; which fields each admits comes
\* from the validWhen edges of the same set of observations.
ValidConfiguration(d, o, site, c) ==
    LET type     == Extension(d, site, "type")
        gate     == Dotted(o.attr)
        under(v) == Sorted({f \in DOMAIN c.valid : <<o.entity, gate, v>> \in c.valid[f]})
        at       == Append(Declaring(site), "x-valid-configuration")
        made     == Mapping([discriminator |-> Scalar(gate),
                             variants |-> Mapping([v \in ToSet(o.value[<<>>].items) |->
                                                      List(under(v))])])
    IN  IF o.value[<<>>].items = <<>> \/ site = NoPlace THEN Unplaceable
        ELSE IF Has(d, type) /\ ~Reads(d, type, "string") THEN Unplaceable
        ELSE IF Has(d, at) /\ Subtree(d, at) = made THEN Stated
        ELSE Compiled(<<AddOp(at, made)>>)

-----------------------------------------------------------------------------
(* Kinds about one operation of the entity. *)

\* An annotation on an operation, unless it is there or has no operation.
Annotate(d, operation, key, value) ==
    LET at == Append(operation, key)
    IN  IF operation = NoPlace THEN Unplaceable
        ELSE IF Has(d, at) /\ Subtree(d, at) = value THEN Stated
        ELSE Compiled(<<AddOp(at, value)>>)

UpdateStyle(d, o)  == Annotate(d, Roles[o.entity].update, "x-update-style", o.value)
DeleteNotFoundOK(d, o) ==
    IF ~IsTrue(o) THEN Stated
    ELSE Annotate(d, Roles[o.entity].delete, "x-delete-not-found-ok", o.value)

\* Lags are ordered as the names are; "0s" is no lag.
ReadAfterWrite(d, o) ==
    LET lag  == o.value[<<>>].value
        said == {Append(op, "x-read-after-write") :
                    op \in {Roles[o.entity][r] : r \in {"create", "read", "update", "delete"}}}
    IN  IF Roles[o.entity].read = NoPlace THEN Unplaceable
        ELSE IF lag = "0s" THEN Stated
        ELSE IF \E p \in said : Has(d, p) /\ Position(d[p].value) >= Position(lag)
             THEN Stated
        ELSE Compiled(<<AddOp(Append(Roles[o.entity].read, "x-read-after-write"), o.value)>>)

ListWrapper(d, o)    == Annotate(d, Roles[o.entity].list, "x-list-wrapper", o.value)
ListPagination(d, o) == Annotate(d, Roles[o.entity].list, "x-list-pagination", o.value)

\* Named only if the read answers it.
IdentifierIn(d, o, response) ==
    IF response = NoPlace \/ FindProperty(d, response, o.value[<<>>].value) = NoPlace
    THEN Unplaceable
    ELSE Annotate(d, Roles[o.entity].read, "x-identifier-property", o.value)
IdentifierProperty(d, o) == IdentifierIn(d, o, ResponseSchema(d, Roles[o.entity].read))

-----------------------------------------------------------------------------
(* compileRules: the rule of each kind.  `c` is what one run gathers: the  *)
(* vetoes, the validWhen edges, what accepted corrections wrote and by     *)
(* which evidence, the defaults compiled so far, the values taken.         *)

CompileAt(d, o, site, c) ==
    CASE o.kind = "writable"                     -> Writable(d, o, site)
      [] o.kind \in DOMAIN FlagKeys              -> PropertyFlag(d, o, site)
      [] o.kind = "requiredByAPI"                -> RequiredByAPI(d, o, site)
      [] o.kind \in DOMAIN ConditionKeys         -> Conditional(d, o, site)
      [] o.kind = "serverDefault"                -> ServerDefault(d, o, site, c)
      [] o.kind = "derivedDefault"               -> NoForm
      [] o.kind = "undocumentedFieldInSpec"      -> UndocumentedField(d, o, site)
      [] o.kind = "normalisation"                -> Normalisation(d, o, site)
      [] o.kind = "values"                       -> Values(d, o, site, c)
      [] o.kind = "dependsOn"                    -> DependsOn(d, o, site)
      [] o.kind = "mutuallyExclusive"            -> MutuallyExclusive(d, o)
      [] o.kind = "validConfiguration"           -> ValidConfiguration(d, o, site, c)
      [] o.kind = "updateStyle"                  -> UpdateStyle(d, o)
      [] o.kind = "deleteNotFoundOK"             -> DeleteNotFoundOK(d, o)
      [] o.kind = "readAfterWrite"               -> ReadAfterWrite(d, o)
      [] o.kind = "listWrapper"                  -> ListWrapper(d, o)
      [] o.kind = "listPagination"               -> ListPagination(d, o)
      [] o.kind = "identifierProperty"           -> IdentifierProperty(d, o)
Compile(d, o, c) == CompileAt(d, o, PropertySite(d, o), c)

=============================================================================
