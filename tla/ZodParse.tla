------------------------------ MODULE ZodParse ------------------------------
(***************************************************************************)
(* What a schema says of a value: the parse methods of the library.        *)
(*                                                                         *)
(* A parse answers a status, a value and issues.  "valid" has no issue,    *)
(* "dirty" broke a check but the value has the right shape, "aborted" has  *)
(* no usable value.  Refinements run on valid and dirty values only.  The  *)
(* library keeps issues in a list; a set is enough, nothing here depends   *)
(* on their order.  Every parse is synchronous: the entry script calls     *)
(* safeParse, so the asynchronous twins of the methods never run.          *)
(***************************************************************************)
EXTENDS ZodSchemas, SequencesExt

CONSTANTS Getter(_),         \* the schema a lazy schema names
          Refinement(_, _),  \* the issues a named refinement adds for a value
          Language           \* for each regular expression, the texts it matches

INVALID(issues) == [status |-> "aborted", value |-> Undefined, issues |-> issues]
Checked(v, issues) ==
  [status |-> IF issues = {} THEN "valid" ELSE "dirty", value |-> v, issues |-> issues]

\* A part that aborted spoils the whole; a dirty part makes it dirty.
MergedStatus(own, parts) ==
  CASE "aborted" \in parts -> "aborted"
    [] "aborted" \notin parts /\ (own # {} \/ "dirty" \in parts) -> "dirty"
    [] OTHER -> "valid"

Merged(own, results, value) ==
  LET status == MergedStatus(own, {results[k].status : k \in DOMAIN results})
  IN [status |-> status,
      value  |-> IF status = "aborted" THEN Undefined ELSE value,
      issues |-> own \cup UNION {results[k].issues : k \in DOMAIN results}]

(***************************************************************************)
(* Schemas without parts                                                   *)
(***************************************************************************)
\* The texts are checked as JavaScript does it: a code starts and ends with
\* something else than a space, the other expressions are given.
Matches(source, s) ==
  IF source = "trimmed"
  THEN Len(s) > 0 /\ SubSeq(s, 1, 1) # " " /\ SubSeq(s, Len(s), Len(s)) # " "
  ELSE s \in Language[source]

FailsRegex(check, s) == check.check \in {"regex", "datetime"} /\ ~Matches(check.limit, s)

ParseString(schema, v) ==
  IF getParsedType(v) # "string" THEN INVALID({Issue("invalid_type")})
  ELSE LET checks == schema.checks
           short == \E c \in DOMAIN checks : checks[c].check = "min" /\ Len(Content(v)) < checks[c].limit
           other == \E c \in DOMAIN checks : FailsRegex(checks[c], Content(v))
       IN Checked(v, (IF short THEN {Issue("too_small")} ELSE {})
                     \cup (IF other THEN {Issue("invalid_string")} ELSE {}))

FailsNumberCheck(check, halves) ==
  CASE check = "int"    -> halves % 2 # 0
    [] check = "min"    -> halves < 0
    [] check = "finite" -> halves >= Infinite

NumberIssue(check) ==
  CASE check = "int"    -> Issue("invalid_type")
    [] check = "min"    -> Issue("too_small")
    [] check = "finite" -> Issue("not_finite")

ParseNumber(schema, v) ==
  IF getParsedType(v) # "number" THEN INVALID({Issue("invalid_type")})
  ELSE Checked(v, {NumberIssue(schema.checks[c].check) :
                     c \in {i \in DOMAIN schema.checks :
                              FailsNumberCheck(schema.checks[i].check, Content(v))}})

ParseBoolean(v) ==
  IF getParsedType(v) = "boolean" THEN Checked(v, {}) ELSE INVALID({Issue("invalid_type")})

ParseNull(v) ==
  IF getParsedType(v) = "null" THEN Checked(v, {}) ELSE INVALID({Issue("invalid_type")})

ParseLiteral(schema, v) ==
  IF v = schema.value THEN Checked(v, {}) ELSE INVALID({Issue("invalid_literal")})

ParseEnum(schema, v) ==
  CASE getParsedType(v) # "string" -> INVALID({Issue("invalid_type")})
    [] getParsedType(v) = "string" /\ v \notin schema.values -> INVALID({Issue("invalid_enum_value")})
    [] OTHER -> Checked(v, {})

(***************************************************************************)
(* Schemas with parts                                                      *)
(***************************************************************************)
RECURSIVE Parse(_, _)

\* The issues of a part are reported under its key.
ParsePart(key, schema, v) == LET result == Parse(schema, v) IN [result EXCEPT !.issues = At(key, @)]

ParseArray(schema, v) ==
  IF getParsedType(v) # "array" THEN INVALID({Issue("invalid_type")})
  ELSE LET items == Content(v)
           few == \/ Len(items) < schema.minLength
                  \/ schema.exactLength # -1 /\ Len(items) < schema.exactLength
           many == schema.exactLength # -1 /\ Len(items) > schema.exactLength
           results == [i \in DOMAIN items |-> ParsePart(Index(i), schema.type, items[i])]
       IN Merged((IF few THEN {Issue("too_small")} ELSE {})
                 \cup (IF many THEN {Issue("too_big")} ELSE {}),
                 results, Arr([i \in DOMAIN items |-> results[i].value]))

\* The value keeps the known keys only; a strict object reports the others.
ParseObject(schema, v) ==
  IF getParsedType(v) # "object" THEN INVALID({Issue("invalid_type")})
  ELSE LET known == DOMAIN schema.shape
           results == [k \in known |-> ParsePart(k, schema.shape[k], Get(v, k))]
           extra == Keys(v) \ known
           kept == {k \in known : k \in Keys(v) \/ results[k].value # Undefined}
       IN Merged(IF schema.unknownKeys = "strict" /\ extra # {}
                 THEN {Issue("unrecognized_keys")} ELSE {},
                 results, Obj([k \in kept |-> results[k].value]))

ParseRecord(schema, v) ==
  IF getParsedType(v) # "object" THEN INVALID({Issue("invalid_type")})
  ELSE LET results == [k \in Keys(v) |-> ParsePart(k, schema.type, Content(v)[k])]
       IN Merged({}, results, Obj([k \in Keys(v) |-> results[k].value]))

\* The first option that accepts the value; without one, the first that finds
\* it merely dirty; without that, an issue that holds what each option said.
ChosenOption(results) ==
  LET First(status) == SelectInSeq(results, LAMBDA r : r.status = status)
  IN CASE First("valid") # 0 -> results[First("valid")]
       [] First("valid") = 0 /\ First("dirty") # 0 -> results[First("dirty")]
       [] OTHER -> INVALID({UnionIssue([o \in DOMAIN results |-> results[o].issues])})

ParseUnion(schema, v) ==
  ChosenOption([o \in DOMAIN schema.options |-> Parse(schema.options[o], v)])

\* The value of the discriminator selects the only option that is tried.
ParseDiscriminatedUnion(schema, v) ==
  IF getParsedType(v) # "object" THEN INVALID({Issue("invalid_type")})
  ELSE LET selected == {o \in DOMAIN schema.options :
                          Get(v, schema.discriminator) \in schema.optionsMap[o]}
       IN IF selected = {}
          THEN INVALID(At(schema.discriminator, {Issue("invalid_union_discriminator")}))
          ELSE Parse(schema.options[CHOOSE o \in selected : TRUE], v)

\* A refinement sees what the schema made of the value, unless it aborted.
ParseEffects(schema, v) ==
  LET inner == Parse(schema.schema, v)
      added == Refinement(schema.refinement, inner.value)
  IN IF inner.status = "aborted" THEN inner
     ELSE [inner EXCEPT !.status = MergedStatus(added, {@}), !.issues = @ \cup added]

ParseOptional(schema, v) ==
  IF getParsedType(v) = "undefined" THEN Checked(v, {}) ELSE Parse(schema.type, v)

ParseNullable(schema, v) ==
  IF getParsedType(v) = "null" THEN Checked(v, {}) ELSE Parse(schema.type, v)

Parse(schema, v) ==
  CASE schema.kind = "string"   -> ParseString(schema, v)
    [] schema.kind = "number"   -> ParseNumber(schema, v)
    [] schema.kind = "boolean"  -> ParseBoolean(v)
    [] schema.kind = "null"     -> ParseNull(v)
    [] schema.kind = "literal"  -> ParseLiteral(schema, v)
    [] schema.kind = "enum"     -> ParseEnum(schema, v)
    [] schema.kind = "array"    -> ParseArray(schema, v)
    [] schema.kind = "object"   -> ParseObject(schema, v)
    [] schema.kind = "record"   -> ParseRecord(schema, v)
    [] schema.kind = "union"    -> ParseUnion(schema, v)
    [] schema.kind = "discriminatedUnion" -> ParseDiscriminatedUnion(schema, v)
    [] schema.kind = "lazy"     -> Parse(Getter(schema.getter), v)
    [] schema.kind = "effects"  -> ParseEffects(schema, v)
    [] schema.kind = "optional" -> ParseOptional(schema, v)
    [] schema.kind = "nullable" -> ParseNullable(schema, v)

\* The data is what the schema made of the value, which need not be the value.
safeParse(schema, v) ==
  LET result == Parse(schema, v)
  IN [success |-> result.status = "valid", data |-> result.value, issues |-> result.issues]
=============================================================================
