----------------------------- MODULE ZodSchemas -----------------------------
(***************************************************************************)
(* JSON values, and the schemas the contract is written in.                *)
(*                                                                         *)
(* src/schemas/validate-survey.cjs carries the zod library and the schemas *)
(* of the survey contract in one file.  A schema is a value built by the   *)
(* constructors of the library: here a record with a kind.  What a schema  *)
(* accepts is in ZodParse, the schemas of the contract are in FieldSchemas *)
(* and SurveySchemas.                                                      *)
(*                                                                         *)
(* A JSON value is a tuple that starts with its type, so that values of    *)
(* different types are different and can be compared.  Numbers are counted *)
(* in halves, which is enough to have integers and fractions.              *)
(***************************************************************************)
EXTENDS Integers, Sequences, FiniteSets, TLC

Str(s) == <<"string", s>>
Num(n) == <<"number", 2 * n>>
Halves(n) == <<"number", n>>
Bool(b) == <<"boolean", b>>
Null == <<"null">>
Undefined == <<"undefined">>
Arr(items) == <<"array", items>>
Obj(members) == <<"object", members>>
EmptyObj == Obj([k \in {} |-> Null])

\* Larger than any number of a document: JSON text has no infinite number.
Infinite == 1000000
\* Nor has it anything that is not a number; Python has both.
NaN == Infinite + 1

\* The type of a value, as typeof and Array.isArray tell it for JSON.
getParsedType(v) == v[1]

\* What a value holds: text, halves, a truth value, items or members.
Content(v) == v[2]

Keys(v) == IF getParsedType(v) = "object" THEN DOMAIN Content(v) ELSE {}
Items(v) == IF getParsedType(v) = "array" THEN Content(v) ELSE << >>

\* v.key, and v?.key when v is absent.
Get(v, key) == IF key \in Keys(v) THEN Content(v)[key] ELSE Undefined
Has(v, key) == Get(v, key) # Undefined
TextOf(v, key) == Content(Get(v, key))

\* The members of both; where they differ, those of the first.
first ++ second ==
  [k \in DOMAIN first \cup DOMAIN second |-> IF k \in DOMAIN first THEN first[k] ELSE second[k]]

\* An object with one member more, changed or fewer.
With(v, key, x) == Obj([k \in {key} |-> x] ++ Content(v))
Without(v, key) == Obj([k \in Keys(v) \ {key} |-> Get(v, k)])

(***************************************************************************)
(* Constructors.  They change nothing they are given: each one answers a   *)
(* new schema, as the library's methods do.                                *)
(***************************************************************************)
ZodString == [kind |-> "string", checks |-> << >>]
ZodNumber == [kind |-> "number", checks |-> << >>]
ZodBoolean == [kind |-> "boolean"]
ZodNull == [kind |-> "null"]
ZodLiteral(value) == [kind |-> "literal", value |-> value]
ZodEnum(texts) == [kind |-> "enum", values |-> {Str(t) : t \in texts}]
ZodArray(type) == [kind |-> "array", type |-> type, minLength |-> 0, exactLength |-> -1]
ZodRecord(type) == [kind |-> "record", type |-> type]
ZodUnion(options) == [kind |-> "union", options |-> options]
ZodOptional(type) == [kind |-> "optional", type |-> type]
ZodNullable(type) == [kind |-> "nullable", type |-> type]

\* A getter is a name that the instance of ZodParse resolves.
ZodLazy(getter) == [kind |-> "lazy", getter |-> getter]

\* An object drops the keys it does not know until it is made strict.
ZodObject(shape) == [kind |-> "object", shape |-> shape, unknownKeys |-> "strip"]
strict(object) == [object EXCEPT !.unknownKeys = "strict"]

\* The new members win over the old ones; unknown keys are treated as before.
extend(object, augmentation) == [object EXCEPT !.shape = augmentation @@ @]

\* The values of the discriminator that select a schema.
getDiscriminator(type) ==
  CASE type.kind = "literal" -> {type.value}
    [] type.kind = "enum" -> type.values

ZodDiscriminatedUnion(discriminator, options) ==
  [kind |-> "discriminatedUnion", discriminator |-> discriminator, options |-> options,
   optionsMap |-> [o \in DOMAIN options |-> getDiscriminator(options[o].shape[discriminator])]]

\* Both refine and superRefine wrap the schema with a named refinement.
superRefine(schema, refinement) ==
  [kind |-> "effects", schema |-> schema, refinement |-> refinement]

addCheck(schema, check, limit) ==
  [schema EXCEPT !.checks = Append(@, [check |-> check, limit |-> limit])]

minChars(schema, n) == addCheck(schema, "min", n)
regex(schema, source) == addCheck(schema, "regex", source)
datetime(schema) == addCheck(schema, "datetime", "datetime")
int(schema) == addCheck(schema, "int", 0)
nonnegative(schema) == addCheck(schema, "min", 0)
finite(schema) == addCheck(schema, "finite", 0)

minItems(array, n) == [array EXCEPT !.minLength = n]
length(array, n) == [array EXCEPT !.exactLength = n]

(***************************************************************************)
(* Issues                                                                  *)
(***************************************************************************)
\* An issue at the value itself; those of a part get the part's key in front.
Issue(code) == [path |-> << >>, code |-> code, rule |-> "", unionErrors |-> << >>]
UnionIssue(branches) == [Issue("invalid_union") EXCEPT !.unionErrors = branches]
CustomIssue(path, rule) == [Issue("custom") EXCEPT !.path = path, !.rule = rule]

At(key, issues) == {[issue EXCEPT !.path = <<key>> \o @] : issue \in issues}

\* Paths count items from zero.
Index(i) == ToString(i - 1)
=============================================================================
