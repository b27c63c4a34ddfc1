---------------------------- MODULE MockExecution ----------------------------
(* The mocked answer to a query, crates/gql-core/src/mock.rs: the walk over   *)
(* the selections with the overrides of the mock config.  A value is          *)
(* [leaf], [list, items] or [object, type, fields]; what a leaf holds is left *)
(* out, and the hash of seed and path is any function of them.                *)
EXTENDS Integers, SequencesExt

CONSTANTS
  Types,    \* name -> [kind, fields: name -> type, members: sequence of names]
  Hash(_, _)

\* A type reference: the wrappers from the outside in, then the name.
Type(lists, base, nonNull) == [lists |-> lists, base |-> base, nonNull |-> nonNull]

Leaf == [kind |-> "leaf"]
Null == [kind |-> "null"]
Array(items) == [kind |-> "list", items |-> items]
Object(type, fields) == [kind |-> "object", type |-> type, fields |-> fields]

\* A selection: a field under its response key, or a fragment, spread or inline,
\* with the type it is on ("" for none).  `include` and `skip` are the arguments
\* of these directives: "none", "true", "false" or "variable".
Field(key, name, inner) ==
  [kind |-> "field", key |-> key, name |-> name, inner |-> inner,
   include |-> "none", skip |-> "none"]
Fragment(type, inner) ==
  [kind |-> "fragment", type |-> type, inner |-> inner,
   include |-> "none", skip |-> "none"]

\* generate_variables makes every Boolean variable false.
resolve_value_to_bool(value) == value = "true"

should_skip_field(s) ==
  \/ s.include # "none" /\ ~resolve_value_to_bool(s.include)
  \/ s.skip # "none" /\ resolve_value_to_bool(s.skip)

\* Names that are no type of the schema's are the built-in scalars.
kindOf(type) == IF type \in DOMAIN Types THEN Types[type].kind ELSE "builtin"

\* The members of a union, the implementers of an interface.
concreteTypes(type) == IF kindOf(type) \in {"union", "interface"}
                       THEN Types[type].members ELSE <<>>

pick(list, seed, path) == list[(Hash(seed, path) % Len(list)) + 1]

\* Mutant of type_condition_applies: an abstract type never applies.
SameTypeOnly(condition, type) == condition = type

type_condition_applies(condition, type) ==
  condition = type \/ Contains(concreteTypes(condition), type)

\* Every list wrapper goes at once: a list of lists is walked as one list.
unwrap_type(type) == [base |-> type.base, isList |-> type.lists > 0,
                      inner |-> Type(0, type.base, FALSE)]

\* Later entries replace earlier ones, whole.
Insert(result, more) == more @@ result

-----------------------------------------------------------------------------
NoOverride == [kind |-> "none"]

\* The parts of an override are tried in this order: null, value, enum,
\* unionType, oneOf.  An override here has one part; `types` are its type names.
\* Gives the concrete type that is forced, if any.
forcedType(ovr, base, seed, path) ==
  LET valid == IF ovr.kind \in {"unionType", "oneOf"}
               THEN SelectSeq(ovr.types, LAMBDA t : Contains(concreteTypes(base), t))
               ELSE <<>>
  IN IF valid = <<>> THEN "" ELSE pick(valid, seed, path)

RECURSIVE walk_fields(_, _, _, _, _), resolve_field(_, _, _, _, _)

walk_fields(selections, type, seed, path, config) ==
  LET field(s) ==
        LET at == Append(path, s.key)
            typed == IF kindOf(type) = "object" THEN Types[type].fields ELSE <<>>
            key == <<type, s.name>>
            ovr == IF key \in DOMAIN config THEN config[key] ELSE NoOverride
        IN IF s.name = "__typename" THEN Leaf
           ELSE IF s.name \notin DOMAIN typed THEN Null
           ELSE LET base == unwrap_type(typed[s.name]).base
                    forced == forcedType(ovr, base, seed, at)
                IN CASE ovr.kind = "null" /\ ~typed[s.name].nonNull -> Null
                     [] ovr.kind \in {"value", "enum"} -> Leaf
                     [] forced # "" -> walk_fields(s.inner, forced, seed, at, config)
                     [] OTHER -> resolve_field(s.inner, typed[s.name], seed, at, config)
      entries(s) ==
        IF should_skip_field(s) THEN <<>>
        ELSE IF s.kind = "field" THEN s.key :> field(s)
        ELSE IF s.type = "" \/ type_condition_applies(s.type, type)
        THEN walk_fields(s.inner, type, seed, path, config).fields
        ELSE <<>>
  IN Object(type, FoldLeft(LAMBDA r, s : Insert(r, entries(s)), <<>>, selections))

resolve_field(inner, type, seed, path, config) ==
  LET t == unwrap_type(type)
  IN IF t.isList
     THEN Array([k \in 1 .. 3 |->
                   resolve_field(inner, t.inner, seed, Append(path, ToString(k - 1)), config)])
     ELSE IF concreteTypes(t.base) # <<>>
     THEN walk_fields(inner, pick(concreteTypes(t.base), seed, path), seed, path, config)
     ELSE IF kindOf(t.base) \in {"builtin", "enum"} THEN Leaf
     ELSE walk_fields(inner, t.base, seed, path, config)

execute_mock(operation, root, seed, config) ==
  walk_fields(operation, root, seed, <<>>, config)
=============================================================================
