--------------------------- MODULE MCSpecRevision ---------------------------
(* A vendor's document of two entities, "app" and "key", which share the     *)
(* schema of one enum; its successor; and what audits may find of them.      *)
EXTENDS SpecRevision

Names == <<"app", "key", "id", "due", "mode", "note", "port", "secret", "type", "at", "zone",
           "_links", "application/json", "200", "201", "default",
           "a", "b", "c", "d", "0s", "2s", "5s",
           "deleteNotFoundOK", "dependsOn", "derivedDefault", "identifierProperty",
           "ignoredOnUpdate", "immutable", "listPagination", "listWrapper",
           "mutuallyExclusive", "normalisation", "readAfterWrite", "requiredByAPI",
           "requiredWhen", "serverDefault", "serverForced", "undocumentedFieldInSpec",
           "updateStyle", "validConfiguration", "validWhen", "values", "volatile",
           "writable">>

SchemaAt(name) == <<"components", "schemas", name>>
Str            == Mapping([type |-> Scalar("string")])
RefTo(name)    == Mapping("$ref" :> Scalar(name))
Body(name)     == Mapping([content |->
                     Mapping("application/json" :> Mapping([schema |-> RefTo(name)]))])
Operation(body, status, answer) ==
    Mapping([responses |-> Mapping(status :> Body(answer))] @@
            (IF body = "" THEN <<>> ELSE [requestBody |-> Body(body)]))

Paths ==
    Mapping(("/apps"    :> Mapping([post |-> Operation("App", "201", "App"),
                                    get  |-> Operation("", "200", "App")])) @@
            ("/apps/id" :> Mapping([get    |-> Operation("", "200", "App"),
                                    patch  |-> Operation("App", "200", "App"),
                                    delete |-> Operation("", "200", "App")])) @@
            ("/keys"    :> Mapping([post |-> Operation("Key", "201", "Key")])) @@
            ("/keys/id" :> Mapping([get  |-> Operation("", "200", "Key")])))

App(noted) ==
    Mapping([required   |-> List(<<"_links">>),
             properties |-> Mapping(("_links" :> Str) @@
                [id |-> Str, type |-> Str, mode |-> RefTo("Mode"), at |-> RefTo("Place"),
                 port |-> Str, secret |-> Str,
                 due |-> Mapping([type |-> Scalar("string"), format |-> Scalar("date-time")])]
                @@ (IF noted THEN [note |-> Str] ELSE <<>>))])

Document(version, noted, modes) ==
    Mapping([openapi    |-> Scalar(version),
             paths      |-> Paths,
             components |-> Mapping([schemas |-> Mapping(
                 [App  |-> App(noted),
                  Key  |-> Mapping([allOf |-> Mapping(
                              ("0" :> RefTo("Base")) @@
                              ("1" :> Mapping([properties |-> Mapping([port |-> Str])])))]),
                  Base |-> Mapping([properties |-> Mapping([id |-> Str, mode |-> RefTo("Mode"),
                                                           at |-> RefTo("Place")])]),
                  Place |-> Mapping([properties |-> Mapping([zone |-> Str])]),
                  Mode |-> Mapping([type |-> Scalar("string"), enum |-> List(modes)])])])])

MCDocuments == [v1 |-> Document("3.0.0", FALSE, <<"a", "b", "c">>),
                v2 |-> Document("3.1.0", TRUE, <<"b", "a">>)]
MCPublished == (NoFile :> {"v1"}) @@ [v1 |-> {"v1", "v2"}, v2 |-> {"v2"}]
MCRoles ==
    [app |-> [create |-> <<"paths", "/apps", "post">>, read |-> <<"paths", "/apps/id", "get">>,
              update |-> <<"paths", "/apps/id", "patch">>,
              delete |-> <<"paths", "/apps/id", "delete">>, list |-> <<"paths", "/apps", "get">>],
     key |-> [create |-> <<"paths", "/keys", "post">>, read |-> <<"paths", "/keys/id", "get">>,
              update |-> NoPlace, delete |-> NoPlace, list |-> NoPlace]]
MCMechanics == {"_links"}

-----------------------------------------------------------------------------
(* Observations. *)

Obs(entity, attr, kind, value) ==
    [entity |-> entity, attr |-> attr, kind |-> kind, value |-> value,
     cond |-> [field |-> "", equals |-> ""], outcome |-> "confirmed",
     taken |-> {}, refused |-> {}, open |-> FALSE, sent |-> ""]
Fact(entity, attr, kind) == Obs(entity, <<attr>>, kind, Scalar("true"))
When(kind, attr, value)  ==
    [Fact("app", attr, kind) EXCEPT !.cond = [field |-> "type", equals |-> value]]
Set(entity, taken, refused) ==
    [Obs(entity, <<"mode">>, "values", Scalar("set"))
        EXCEPT !.taken = taken, !.refused = refused, !.open = (entity = "app")]
Sent(entity, value)  == [Fact(entity, "mode", "writable") EXCEPT !.taken = {value}]
Default(entity, attr, v) == Obs(entity, <<attr>>, "serverDefault", Scalar(v))
Zone(entity, v)      == Obs(entity, <<"at", "zone">>, "serverDefault", Scalar(v))
NotTaken(o)          == [o EXCEPT !.outcome = "inconclusive"]

Fixed == {
    \* a field nobody documented, what is then known of it, and in v2 it is
    <<{Obs("app", <<"note">>, "undocumentedFieldInSpec", Scalar("string")),
       Fact("app", "note", "requiredByAPI"), Fact("app", "id", "requiredByAPI")}>>,
    <<{Obs("app", <<"note">>, "undocumentedFieldInSpec", Scalar("string")),
       Default("app", "note", "a")},
      {Obs("app", <<"note">>, "undocumentedFieldInSpec", Scalar("string")),
       Default("app", "note", "b")}>>,
    \* an enum two entities share
    <<{Set("app", {"d"}, {"a", "c"}), Set("key", {"a"}, {"b"})}>>,
    <<{Set("app", {}, {"a", "b", "c"}), Sent("key", "b")}>>,
    \* defaults on a schema two entities share, and one a sibling vetoes
    <<{Zone("app", "a"), Zone("key", "b"), Fact("app", "mode", "volatile")}>>,
    <<{Default("app", "port", "a"), Fact("app", "port", "derivedDefault"),
       Default("key", "port", "a")}, {Default("app", "port", "b")}>>,
    \* conditions
    <<{When("validWhen", "port", "a"), When("validWhen", "secret", "b"),
       Obs("app", <<"type">>, "validConfiguration", List(<<"a", "b">>))}>>,
    <<{When("requiredWhen", "port", "a"), When("requiredWhen", "secret", "a"),
       NotTaken(When("requiredWhen", "due", "a"))}>>,
    <<{Obs("app", <<"port">>, "dependsOn", Scalar("secret")),
       Obs("app", <<>>, "mutuallyExclusive", List(<<"secret", "due">>))},
      {Obs("app", <<"port">>, "dependsOn", Scalar("due"))}>>,
    \* flags, spellings, operations
    <<{Fact("app", "secret", "immutable"), Obs("app", <<"secret">>, "writable", Scalar("false"))},
      {Fact("app", "secret", "ignoredOnUpdate")}>>,
    <<{[Obs("app", <<"due">>, "normalisation", Scalar("date")) EXCEPT !.sent = "truncated"]}>>,
    <<{Obs("app", <<>>, "deleteNotFoundOK", Scalar("true")),
       Obs("app", <<>>, "readAfterWrite", Scalar("2s"))},
      {Obs("app", <<>>, "readAfterWrite", Scalar("5s"))}>>,
    <<{Obs("app", <<>>, "identifierProperty", Scalar("id")),
       Obs("app", <<>>, "updateStyle", Scalar("merge"))}>>,
    <<{Obs("app", <<>>, "listWrapper", Scalar("items")),
       Obs("key", <<>>, "listPagination", Scalar("cursor"))}>> }
NoHand == <<>>
ByHand == HandName :> [evidence |-> NoEvidence,
                       ops |-> <<AddOp(SchemaAt("Key") \o <<"description">>, Scalar("a key"))>>]
MCScenarios ==
    [finds : Fixed, hand : {NoHand}]
    \cup {[finds |-> <<{Fact("app", "port", "immutable"), Fact("key", "port", "volatile")}>>,
           hand |-> ByHand]}

=============================================================================
