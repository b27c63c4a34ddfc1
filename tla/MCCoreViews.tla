----------------------------- MODULE MCCoreViews -----------------------------
(* Small plans, operations and schemas for the runs.                          *)
EXTENDS CoreViews

AsNamed(name, inner) == Selected(name, name, inner)
LeafOf(name) == AsNamed(name, <<>>)
Aliased(key, name) == Selected(key, name, <<>>)

\* Two fetches of operations of their own and two that resolve entities, one of
\* them for two types.  The feed's place and the reviews' stars are two levels
\* down.
users == Fetch("users", <<AsNamed("me", <<LeafOf("id"), LeafOf("name")>>)>>)
feed == Fetch("posts",
              <<AsNamed("feed", <<On("Post", <<LeafOf("id"), On(NoType, <<LeafOf("by")>>)>>),
                                  AsNamed("at", <<LeafOf("place")>>)>>),
                On("Query", <<AsNamed("me", <<LeafOf("title")>>)>>)>>)
posts == Fetch("posts",
               <<AsNamed("_entities", <<On("User", <<LeafOf("id"), LeafOf("posts")>>)>>)>>)
reviews == Fetch("reviews",
                 <<AsNamed("_entities",
                           <<On("User", <<LeafOf("name"), On("Admin", <<LeafOf("id")>>)>>),
                             On("Post", <<LeafOf("title"),
                                          AsNamed("review", <<LeafOf("stars")>>)>>)>>)>>)

MCPlans == {users, posts, reviews, Of("Parallel", <<feed, reviews>>),
            Of("Sequence", <<users, Flatten(posts)>>)}

MCColouredQuery ==
  <<AsNamed("me", <<LeafOf("id"), Aliased("name", "nick"), Aliased("nick", "name"),
                    On("User", <<LeafOf("id"), LeafOf("name"),
                                 On("Admin", <<LeafOf("id"), LeafOf("name")>>),
                                 On("Author", <<LeafOf("name")>>),
                                 On(NoType, <<LeafOf("posts"), Aliased("posts", "liked")>>),
                                 Spread(9, <<LeafOf("posts"), LeafOf("at")>>)>>)>>),
    AsNamed("feed", <<On("Post", <<LeafOf("id"), LeafOf("title"), LeafOf("by"),
                                   AsNamed("review", <<LeafOf("stars")>>)>>),
                      AsNamed("at", <<LeafOf("place")>>),
                      Spread(9, <<LeafOf("posts"), LeafOf("at")>>)>>)>>

-----------------------------------------------------------------------------
Named(type) == Type(0, type, FALSE)

MCTypes ==
  [Query |-> [kind |-> "object",
              fields |-> [me |-> Named("User"), all |-> Type(1, "User", TRUE),
                          node |-> Named("Node"), found |-> Type(1, "Found", FALSE),
                          matrix |-> Type(2, "Int", FALSE)]],
   User |-> [kind |-> "object",
             fields |-> [id |-> Type(0, "ID", TRUE), friend |-> Named("User"),
                         best |-> Named("Found"), born |-> Named("Date")]],
   Post |-> [kind |-> "object",
             fields |-> [id |-> Type(0, "ID", TRUE), author |-> Named("User")]],
   Node |-> [kind |-> "interface", members |-> <<"Post", "User">>],
   Found |-> [kind |-> "union", members |-> <<"User", "Post">>],
   Date |-> [kind |-> "scalar"]]

MCHash(seed, path) ==
  seed + Len(path) + (IF path # <<>> /\ path[Len(path)] = "1" THEN 1 ELSE 0)

leafId == Field("id", "id", <<>>)
nodeFields == <<leafId, Field("type", "__typename", <<>>),
                Fragment("Post", <<Field("by", "author", <<leafId>>)>>),
                Fragment("Node", <<Field("key", "id", <<>>)>>)>>
userFields == <<Field("friend", "friend", <<leafId, [leafId EXCEPT !.key = "no", !.skip = "true"]>>),
                Field("best", "best", <<Fragment("User", <<leafId>>), Fragment("Found", <<Field("kind", "__typename", <<>>)>>)>>),
                Field("born", "born", <<>>)>>

MCSelections ==
  {Field("me", "me", <<leafId>>), Field("me", "me", userFields),
   Field("other", "me", <<[Fragment("User", userFields) EXCEPT !.include = "true"]>>),
   Field("all", "all", <<Fragment("", <<leafId>>)>>),
   Field("node", "node", nodeFields),
   Field("found", "found", <<Fragment("Node", nodeFields)>>),
   [Field("found", "found", <<Fragment("User", userFields)>>) EXCEPT !.skip = "variable"],
   [Field("node", "node", <<leafId>>) EXCEPT !.include = "variable"],
   Field("type", "__typename", <<>>),
   Field("matrix", "matrix", <<>>),
   Fragment("Query", <<Field("me", "me", <<leafId>>), Field("last", "node", nodeFields)>>),
   [Fragment("", <<Field("me", "me", <<leafId>>)>>) EXCEPT !.skip = "true"]}

Override(kind, types) == [kind |-> kind, types |-> types]

MCConfigs ==
  {<<>>,
   <<"Query", "me">> :> Override("null", <<>>),
   <<"Query", "all">> :> Override("null", <<>>),
   <<"Query", "node">> :> Override("unionType", <<"Post">>),
   <<"Query", "found">> :> Override("oneOf", <<"Post", "User">>),
   (<<"User", "best">> :> Override("oneOf", <<"Date", "Post">>))
     @@ (<<"User", "id">> :> Override("value", <<>>)),
   (<<"User", "best">> :> Override("unionType", <<"Date">>))
     @@ (<<"User", "friend">> :> Override("null", <<>>))}

-----------------------------------------------------------------------------
MCTypeNames == <<"A", "B", "C", "Date", "Mutation", "Query">>
MCSubgraphs == <<"one", "two">>
MCRoots == <<"Query", "Mutation", "Subscription">>

Def(kind, keys) == [kind |-> kind, fields |-> <<>>, keys |-> keys]

MCSchemas ==
  {[A |-> Def("object", a), B |-> Def("object", b), C |-> Def(kind, <<>>),
    Date |-> Def("scalar", <<>>), I |-> [Def("input", <<>>) EXCEPT !.fields = <<"Date">>],
    Mutation |-> Def("object", <<>>),
    Query |-> [Def("object", <<>>) EXCEPT !.fields = <<"A">>]] :
      a \in {<<>>, [one |-> <<"id">>], [one |-> <<"id", "k">>, two |-> <<"k">>]},
      b \in {[one |-> <<"id">>, two |-> <<"id">>]},
      kind \in {"interface", "union"}}

MCFieldTargets ==
  [kind \in Kinds |->
     CASE kind \in {"object", "interface"} -> {"A", "B", "C", "Date", "Query"}
       [] kind = "union" -> {"A", "B"}
       [] kind = "input" -> {"I"}
       [] OTHER -> {}]
=============================================================================
