----------------------------- MODULE ToolSchema -----------------------------
(* The JSON schemas of the tools a model may call and the reading of its arguments
   (src/internal/command/set.go, reflect.go). A command's fields become the runtime
   schema; the provider is given a weaker translation of it; a call must satisfy
   both and is then read into the fields.

   A schema is the record of the keywords that matter: an empty set of types, an
   empty sequence and None stand for a keyword that is absent. *)
EXTENDS Naturals, Sequences, FiniteSets, SequencesExt, TLC

CONSTANT None

Names == {"x", "y"}

VARIABLE s  \* [x, y, call]: the two fields of a command, and what the model sent

Anything == [type |-> {}, props |-> <<>>, required |-> {}, closed |-> FALSE, anyOf |-> <<>>,
        oneOf |-> <<>>, const |-> None, limit |-> FALSE]
NullSchema == [Anything EXCEPT !.type = {"null"}]
Text == [Anything EXCEPT !.type = {"string"}]
Object(props, required) ==
  [Anything EXCEPT !.type = {"object"}, !.props = props, !.required = required]

Null == [kind |-> "null"]
Str(v) == [kind |-> "string", is |-> v]
Obj(f) == [kind |-> "object", is |-> f]

(* What a schema admits: the validator the runtime and the provider's share. limit
   stands for the keywords of isUnsupportedStrictSchemaKeyword, "long" for what
   breaks them. *)
RECURSIVE Admits(_, _)
Admits(schema, v) ==
  /\ schema.type = {} \/ v.kind \in schema.type
  /\ schema.const # None => v.kind = "string" /\ v.is = schema.const
  /\ schema.limit /\ v.kind = "string" => v.is # "long"
  /\ v.kind = "object" =>
       /\ schema.required \subseteq DOMAIN v.is
       /\ \A n \in DOMAIN v.is :
            IF n \in DOMAIN schema.props THEN Admits(schema.props[n], v.is[n]) ELSE ~schema.closed
  /\ schema.anyOf # <<>> => \E i \in DOMAIN schema.anyOf : Admits(schema.anyOf[i], v)
  /\ schema.oneOf # <<>> =>
       Cardinality({i \in DOMAIN schema.oneOf : Admits(schema.oneOf[i], v)}) = 1
---------------------------------------------------------------------------
(* The schemas. *)

HasNull(alternatives) == \E i \in DOMAIN alternatives : "null" \in alternatives[i].type

\* makeNullable
OrNull(alternatives) ==
  IF HasNull(alternatives) THEN alternatives ELSE Append(alternatives, NullSchema)
NullableByType(schema) == [schema EXCEPT !.type = @ \cup {"null"}]
Nullable(schema) ==
  CASE schema.anyOf # <<>> -> [schema EXCEPT !.anyOf = OrNull(@)]
    [] schema.oneOf # <<>> -> [schema EXCEPT !.oneOf = OrNull(@)]
    [] schema = Anything -> schema
    [] schema.type = {} \/ schema.const # None -> [Anything EXCEPT !.anyOf = <<schema, NullSchema>>]
    [] OTHER -> [schema EXCEPT !.type = @ \cup {"null"}]

\* makeStrictObjectSchema: enforceStrictObject, then the children
RECURSIVE Strict(_)
Strict(schema) ==
  LET isObject == "object" \in schema.type
      names == DOMAIN schema.props
      child(n) == IF isObject /\ n \notin schema.required THEN Nullable(schema.props[n])
                  ELSE schema.props[n] IN
  [schema EXCEPT !.props = [n \in names |-> Strict(child(n))],
                 !.required = IF isObject THEN @ \cup names ELSE @,
                 !.closed = @ \/ isObject,
                 !.anyOf = [i \in DOMAIN @ |-> Strict(@[i])],
                 !.oneOf = [i \in DOMAIN @ |-> Strict(@[i])]]

\* providerToolSchema: translateProviderSchema, then removeUnsupportedStrictKeywords
RECURSIVE FirstChoice(_), Translated(_), Stripped(_)
FirstChoice(schema) ==
  [schema EXCEPT !.props = [n \in DOMAIN @ |-> FirstChoice(@[n])],
                 !.anyOf = IF schema.oneOf = <<>> THEN @ ELSE <<Head(schema.oneOf)>>, !.oneOf = <<>>]
Translated(schema) ==
  LET choices == schema.anyOf \o schema.oneOf IN
  [schema EXCEPT !.props = [n \in DOMAIN @ |-> Translated(@[n])],
                 !.anyOf = [i \in DOMAIN choices |-> Translated(choices[i])], !.oneOf = <<>>]
Stripped(schema) ==
  [schema EXCEPT !.limit = FALSE, !.props = [n \in DOMAIN @ |-> Stripped(@[n])],
                 !.anyOf = [i \in DOMAIN @ |-> Stripped(@[i])],
                 !.oneOf = [i \in DOMAIN @ |-> Stripped(@[i])]]
Provider(schema) == Stripped(Translated(schema))

\* toolSchemaForField of a field: [schema, optional, group]
FieldSchemaAsIs(f) == f.schema
FieldSchema(f) == IF f.optional THEN Nullable(f.schema) ELSE f.schema

\* buildToolParameters: a property for each field, and one for an xor group
One(n, schema) == [Object(n :> schema, {n}) EXCEPT !.closed = TRUE]
Grouped(fields) == {n \in DOMAIN fields : fields[n].grouped}
BranchesOrNone(fields) ==
  LET members == SetToSeq(Grouped(fields)) IN
  Append([i \in DOMAIN members |-> One(members[i], fields[members[i]].schema)], NullSchema)
Branches(fields) ==
  LET members == SetToSeq(Grouped(fields))
      branches == [i \in DOMAIN members |-> One(members[i], fields[members[i]].schema)] IN
  IF \E n \in Grouped(fields) : ~fields[n].optional THEN branches ELSE Append(branches, NullSchema)
Parameters(fields) ==
  LET plain == DOMAIN fields \ Grouped(fields)
      names == IF Grouped(fields) = {} THEN plain ELSE plain \cup {"group"} IN
  [Object([n \in names |-> IF n = "group" THEN [Anything EXCEPT !.anyOf = Branches(fields)]
                           ELSE FieldSchema(fields[n])], names) EXCEPT !.closed = TRUE]
---------------------------------------------------------------------------
(* The reading of a call. *)

Fields == [n \in Names |-> s[n]]
Valid(call) == Admits(Provider(Parameters(Fields)), call) /\ Admits(Parameters(Fields), call)

\* ToolValue: the group's property is taken apart, and null is an absent field
Unwrapped(args) ==
  IF "group" \in DOMAIN args /\ args["group"].kind = "object"
  THEN [n \in (DOMAIN args \cup DOMAIN args["group"].is) \ {"group"} |->
          IF n \in DOMAIN args["group"].is THEN args["group"].is[n] ELSE args[n]]
  ELSE [n \in DOMAIN args \ {"group"} |-> args[n]]
Present(args) == {n \in DOMAIN Unwrapped(args) : Unwrapped(args)[n] # Null}

\* ToolValue's own check and validateFields
Complete(present) ==
  /\ \A n \in Names : ~Fields[n].optional /\ ~Fields[n].grouped => n \in present
  /\ Cardinality(present \cap Grouped(Fields)) <= 1
  /\ (\E n \in Grouped(Fields) : ~Fields[n].optional) => present \cap Grouped(Fields) # {}
---------------------------------------------------------------------------
(* The types of the fields: a text, one with a limit, a constant, a choice, and a
   structure with a required and an optional member, made strict. *)
Limited == [Text EXCEPT !.limit = TRUE]
Constant == [Text EXCEPT !.const = "short"]
Choice == [Anything EXCEPT !.oneOf = <<Constant, [Limited EXCEPT !.const = "mid"]>>]
Inner == Object("a" :> Text @@ "b" :> Limited, {"a"})
Outer == Object("a" :> Inner @@ "b" :> Choice, {})
Types == {Text, Limited, Constant, Choice}

Texts == {Str("short"), Str("mid"), Str("long")}
Leaves == Texts \cup {Null}
Partial(names, values) == UNION {[d -> values] : d \in SUBSET names}
Structures == {Obj(f) : f \in Partial({"a", "b"}, Leaves)}
Groups == {Obj(f) : f \in Partial(Names, Leaves)} \cup {Null}
Calls == {Obj(f @@ g) : f \in Partial(Names, Leaves), g \in Partial({"group"}, Groups)}

FieldsOf(types) == [schema : types, optional : BOOLEAN, grouped : BOOLEAN]
Init == s \in [x : FieldsOf(Types), y : FieldsOf({Text, Choice}), call : {Null}]
Next == s.call = Null /\ \E c \in Calls : Valid(c) /\ s' = [s EXCEPT !.call = c]
---------------------------------------------------------------------------
(* Properties *)

(* The provider is never told to refuse what the runtime accepts. *)
ProviderAdmitsAll ==
  s.call = Null => \A c \in Calls : Admits(Parameters(Fields), c) => Admits(Provider(Parameters(Fields)), c)

(* A call both schemas admit is complete: every required field is there, and of a
   group at most one, or exactly one. *)
ValidIsComplete == s.call # Null => Complete(Present(s.call.is))

(* Whatever a typed command could supply, a call can: each choice of fields that is
   complete is the reading of an admitted call. *)
EveryChoice ==
  s.call = Null => \A d \in SUBSET Names : Complete(d) => \E c \in Calls : Valid(c) /\ Present(c.is) = d

(* Strictness changes what is written, not what is said: a structure is admitted by
   its own schema exactly when, with null for each member that is missing, it is
   admitted by the strict one. *)
Filled(v, names) == Obj([n \in names |-> IF n \in DOMAIN v.is THEN v.is[n] ELSE Null])
Said(v) == Obj([n \in {m \in DOMAIN v.is : v.is[m] # Null} |-> v.is[n]])
StrictSaysTheSame ==
  s.call = Null =>
    /\ \A v \in Structures : Admits(Strict(Inner), v) = (DOMAIN v.is = {"a", "b"} /\ Admits(Inner, Said(v)))
    /\ \A v \in Structures : \A w \in Leaves :
         LET inner == Filled(Said(v), {"a", "b"}) IN
         Admits(Strict(Outer), Obj("a" :> inner @@ "b" :> w)) =
           Admits(Outer, Said(Obj("a" :> Said(v) @@ "b" :> w)))
=============================================================================
