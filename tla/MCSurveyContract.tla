-------------------------- MODULE MCSurveyContract --------------------------
(***************************************************************************)
(* Surveys to check: pairs of fields whose codes can run into each other,  *)
(* with a condition on the first, and rich surveys of which one part is    *)
(* replaced, removed or joined by an unknown member.                       *)
(***************************************************************************)
EXTENDS SurveyContract

MCLanguage ==
  [kebab |-> {"limesurvey"}, datetime |-> {"2024-01-01T00:00:00Z"}, languageTag |-> {"es", "es-MX"}]
  @@ ("[0-9]+" :> {}) @@ ("^[0-9]+$" :> {"12"})

Day(y, m, d) == [form |-> "date", year |-> y, month |-> m, day |-> d]
Moment(h, offset) ==
  [Day(2024, 2, 29) EXCEPT !.form = "date-time"] @@ [hour |-> h, minute |-> 59, second |-> 59, offset |-> offset]
MCDateParts ==
  ("2024-02-29" :> Day(2024, 2, 29)) @@ ("2023-02-29" :> Day(2023, 2, 29))
  @@ ("2024-02-29T23:59:59Z" :> Moment(23, <<0, 0>>)) @@ ("2024-02-29T24:59:59+24:00" :> Moment(24, <<24, 0>>))

(***************************************************************************)
(* Fields                                                                  *)
(***************************************************************************)
item(code) == Obj([code |-> Str(code), label |-> Str(code)])
list(texts) == Arr([i \in DOMAIN texts |-> item(texts[i])])
base(type, code) ==
  [id |-> Str("id " \o code), code |-> Str(code), type |-> Str(type), label |-> Str("Question")]
field(type, code, members) == Obj(base(type, code) @@ members)

text(code) == field("short-text", code, << >>)
choice(type, code, texts) == field(type, code, [options |-> list(texts)])
other(code, key) == [other |-> Obj([code |-> Str(code), label |-> Str("Other"), textResponseKey |-> Str(key)])]
inputs(code, texts) == field("multiple-input", code, [subquestions |-> list(texts)])
matrix(mode, code, rowCodes, columnCodes) ==
  field("matrix", code, [matrix |-> Obj([mode |-> Str(mode), rows |-> list(rowCodes),
                                         columns |-> list(columnCodes)])])
custom(code, children) == field("custom", code, [childrenFields |-> Arr(children)])
scale(code, texts) == With(item(code), "options", list(texts))
dual(code, rowCodes) ==
  field("matrix", code, [matrix |-> Obj([mode |-> Str("dual-single"), rows |-> list(rowCodes),
                                         columns |-> Arr(<<scale("0", <<"A">>), scale("1", <<"A", "B">>)>>)])])

\* Fields named Q whose answers are saved under keys such as Q_A and Q_A_B.
Firsts ==
  {text("Q"), field("number", "Q", << >>), field("boolean", "Q", << >>), field("display", "Q", << >>),
   field("date", "Q", [dateValueType |-> Str("date")]),
   choice("single-choice", "Q", <<"A", "A_B">>), choice("list-with-comment", "Q", <<"A", "comment">>),
   choice("multiple-choice", "Q", <<"A", "A_B">>), choice("multiple-choice", "Q", <<"A", "A">>),
   choice("multiple-choice-with-comments", "Q", <<"A", "A_comment">>),
   choice("multiple-choice-with-comments", "Q", <<"A", "B">>),
   field("multiple-choice", "Q", [options |-> list(<<"A">>)] @@ other("B", "Q_A")),
   field("multiple-choice", "Q", [options |-> list(<<"A">>)] @@ other("A_B", "Q_A_B")),
   choice("ranking", "Q", <<"A", "B">>), inputs("Q", <<"A", "A_B">>),
   matrix("single", "Q", <<"A", "A_B">>, <<"A">>), matrix("multiple", "Q", <<"A", "A_B">>, <<"B", "B_B">>),
   matrix("number", "Q", <<"A">>, <<"B", "B_B">>), matrix("text", "Q", <<"A">>, <<"B">>),
   dual("Q", <<"A", "A_0">>),
   custom("Q", <<text("A"), text("A_B")>>), custom("Q", <<custom("A", <<text("B")>>), text("A_B")>>),
   custom("P", <<choice("ranking", "Q", <<"A">>), text("A")>>)}

Reference(itemCode) ==
  Obj([fieldCode |-> Str("Q")] @@ IF itemCode = "" THEN << >> ELSE [responseItemCode |-> Str(itemCode)])
comparison(itemCode, operator, value) ==
  Obj([type |-> Str("comparison"), responseReference |-> Reference(itemCode),
       operator |-> Str(operator), value |-> value])
count(type, itemCode) == With(Without(comparison(itemCode, "equals", Num(1)), "type"), "type", Str(type))

Conditions ==
  {comparison(i, "equals", Null) : i \in {"", "A", "A_B", "A_B_B", "1", "A_0"}}
  \cup {comparison("A_B", "greater-than", Num(1)), comparison("", "less-than", Str("A")),
        comparison("A_0", "equals", Str("A"))}
  \cup {Obj([type |-> Str("any"), conditions |-> Arr(<<count("selection-count", ""), comparison("A", "equals", Str("A"))>>)]),
        Obj([type |-> Str("not"), condition |-> count("answered-count", "")])}

Survey(members) == Obj([contractVersion |-> Str("2.0.0"), id |-> Str("7")] @@ members)
Pairs ==
  {Survey([fields |-> Arr(<<f, With(text(c), "visibility", Obj([condition |-> condition]))>>)]) :
     f \in Firsts, c \in {"R", "Q_A_B"}, condition \in Conditions}
  \cup {Survey([fields |-> Arr(<<f, text("Q_A")>>)]) : f \in Firsts}

\* One field each, with members that do not fit its type.
Misfits ==
  {Survey([fields |-> Arr(<<f>>)]) : f \in
    {With(text("Q"), "rendering", Obj([widget |-> Str("slider")])), With(text("Q"), "parentId", Str("0")),
     field("short-text", "Q", [validation |-> Obj([min |-> Num(1)])]),
     field("number", "Q", [validation |-> Obj([minLength |-> Num(1)])]),
     field("single-choice", "Q", [options |-> list(<<"A">>), validation |-> Obj([minSelections |-> Num(1)])]),
     field("ranking", "Q", [options |-> list(<<"A">>)] @@ other("B", "Q_B")),
     field("single-choice", "Q", [options |-> list(<<"A">>), other |-> Obj([code |-> Str("B"), label |-> Str("Other"),
       textResponseKey |-> Str("K"), commentResponseKey |-> Str("L")])]),
     With(inputs("Q", <<"A">>), "subquestions", Arr(<<With(item("A"), "id", Str("1")), With(item("B"), "id", Str("1"))>>))}
    \cup {field(type, "Q", [responseEncoding |-> Obj([selectedValue |-> selected, unselectedValue |-> Str("N")] @@ label)]) :
            type \in {"boolean", "number"}, selected \in {Str("N"), Num(1), Str("Y")},
            label \in {<< >>, [selectedLabel |-> Str("Yes")]}}
    \cup {field("ranking", "Q", [options |-> list(<<"A">>), source |-> Obj([platform |-> Str("limesurvey"),
            responseAliases |-> Arr(<<Obj([responseItemCode |-> Str(code), aliases |-> Arr(<<Str("Q1")>>)])>>)])]) :
            code \in {"1", "A"}}}

(***************************************************************************)
(* Rich surveys, and every single change of one of their parts             *)
(***************************************************************************)
extension(type) == Arr(<<Obj([type |-> Str(type), version |-> Str("1.0.0")])>>)
source(type) == Obj([platform |-> Str("limesurvey"), extensions |-> extension(type)])
rules(members) == [validation |-> Obj(members)]

Group == Obj([id |-> Str("1"), order |-> Num(0), source |-> source("limesurvey-group"),
              visibility |-> Obj([condition |-> comparison("", "equals", Str("12"))])])
Rich ==
  {Survey([groups |-> Arr(<<Group>>), language |-> Str("es"), source |-> source("limesurvey-survey"),
           settings |-> Obj([layout |-> Str("all"), navigationDelay |-> Halves(1)]),
           fields |-> Arr(<<field("short-text", "Q",
                              rules([maxLength |-> Num(2), pattern |-> Str("[0-9]+")])
                              @@ [defaultValue |-> Str("12"), groupId |-> Str("1"),
                                  source |-> source("limesurvey-question"),
                                  rendering |-> Obj([widget |-> Str("text-input")])])>>)]),
   Survey([fields |-> Arr(<<
             field("multiple-choice", "M",
                   [options |-> list(<<"A", "B">>), defaultValue |-> Arr(<<Str("A")>>),
                    responseEncoding |-> Obj([selectedValue |-> Str("Y"), unselectedValue |-> Str("N")])]
                   @@ other("-oth-", "M_OTHER") @@ rules([minSelections |-> Num(1), maxSelections |-> Num(1)])),
             field("ranking", "R", [options |-> list(<<"A", "B">>), defaultValue |-> Arr(<<Str("B"), Str("A")>>)]),
             custom("C", <<With(text("D"), "parentId", Str("id C"))>>)>>)]),
   Survey([fields |-> Arr(<<
             With(matrix("number", "N", <<"A">>, <<"B">>), "defaultValue", Obj([A |-> Obj([B |-> Num(1)])])),
             With(dual("S", <<"A">>), "defaultValue", Obj([A |-> Obj("1" :> Str("B"))])),
             field("number", "I", rules([integer |-> Bool(TRUE)]) @@ [defaultValue |-> Num(3)]),
             With(inputs("Q", <<"A">>), "defaultValue", Obj([A |-> Bool(TRUE)])),
             field("date", "T", [dateValueType |-> Str("date-time"), defaultValue |-> Str("2024-02-29T23:59:59Z")])>>)])}

Loads ==
  {Obj([survey |-> Survey([fields |-> Arr(<<text("Q")>>)]),
        issues |-> Arr(<<Obj([level |-> Str("warning"), code |-> Str("UNSUPPORTED_TYPE"),
                              message |-> Str("skipped"), details |-> Obj([sourceType |-> Str("*")])]),
                         Obj([level |-> Str("error"), code |-> Str("MISSING_PARENT"), message |-> Str("lost")])>>),
        responseState |-> Obj([active |-> Bool(TRUE), canSaveResponses |-> Bool(FALSE),
                               submitMode |-> Str("submit"), warningCodes |-> Arr(<<Str("W")>>),
                               didNotSaveCode |-> Null])])}

\* v with another part at a path.
RECURSIVE changedAt(_, _, _)
changedAt(v, path, part) ==
  LET at == CHOOSE n \in DOMAIN Items(v) : Index(n) = Head(path)
  IN CASE path = << >> -> part
       [] path # << >> /\ getParsedType(v) = "object" ->
            With(v, Head(path), changedAt(Get(v, Head(path)), Tail(path), part))
       [] OTHER -> Arr([Items(v) EXCEPT ![at] = changedAt(@, Tail(path), part)])

\* What may stand in the place of a part.
changes(v) ==
  {Null} \cup CASE getParsedType(v) = "object" -> {With(v, "extra", Bool(TRUE))} \cup {Without(v, k) : k \in Keys(v)}
                [] getParsedType(v) = "array"  -> {Arr(<< >>), Arr(Items(v) \o Items(v))}
                [] getParsedType(v) = "string" -> {Str("A"), Str(" A")}
                [] getParsedType(v) = "number" -> {Num(-1), Halves(5), Halves(Infinite)}
                [] OTHER -> {}

Changed(v) == UNION {{changedAt(v, p.path, new) : new \in changes(p.value)} : p \in parts(v)} \cup {v}

MCRequests ==
  [contract : {"SurveyStructure"}, value : Pairs \cup Misfits \cup UNION {Changed(v) : v \in Rich}]
  \cup [contract : {"SurveyLoadResult"}, value : UNION {Changed(v) : v \in Loads}]
=============================================================================
