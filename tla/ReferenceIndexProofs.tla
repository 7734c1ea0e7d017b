------------------------ MODULE ReferenceIndexProofs ------------------------
(***************************************************************************)
(* Names are resolved without guessing, for surveys of any size.           *)
(*                                                                         *)
(* The index is built by loops over names, subquestions and rows, so the   *)
(* proofs need recursion and induction: those of Recursion.                *)
(***************************************************************************)
EXTENDS ReferenceIndex, FiniteSetTheorems, SequenceTheorems, TLAPS

\* The loops over names and over rows, as steps of a recursion.
addNext(context, after, n) ==
  IF n = 0 THEN context[1] ELSE add(after[n - 1], context[2][n][1], context[2][n][2])

Adding == INSTANCE Recursion WITH Body <- addNext

addNextChild(context, after, n) ==
  CASE n = 0 -> context[1]
    [] n # 0 /\ isChildOf(context[3][n], context[2].qid) ->
         addChild(after[n - 1], context[2], context[3][n], context[4])
    [] OTHER -> after[n - 1]

AddingChildren == INSTANCE Recursion WITH Body <- addNextChild

----------------------------------------------------------------------------
(***************************************************************************)
(* One name                                                                *)
(***************************************************************************)
\* An index keeps of a set of meanings the names with one answer, and
\* remembers the names with more.
Represents(i, meanings) ==
  /\ i.ambiguous \cup DOMAIN i.targets \subseteq namesIn(meanings)
  /\ \A alias \in namesIn(meanings) :
       \/ /\ alias \in i.ambiguous /\ alias \notin DOMAIN i.targets
          /\ \E s, t \in answersFor(alias, meanings) : s # t
       \/ /\ alias \notin i.ambiguous /\ alias \in DOMAIN i.targets
          /\ answersFor(alias, meanings) = {i.targets[alias]}

IsIndex(i) == i = [targets |-> i.targets, ambiguous |-> i.ambiguous, questions |-> i.questions]

plus(meanings, alias, target) == meanings \cup {<<alias, target>>}

\* What one more meaning adds to the names and to the answers for a name.
LEMMA OneMoreMeaning ==
  ASSUME NEW meanings, NEW alias, NEW target, NEW more, more = plus(meanings, alias, target)
  PROVE  /\ namesIn(more) = namesIn(meanings) \cup {alias}
         /\ \A name : /\ name = alias => answersFor(name, more) = answersFor(name, meanings) \cup {target}
                      /\ name # alias => answersFor(name, more) = answersFor(name, meanings)
                      /\ name \in namesIn(meanings) <=> answersFor(name, meanings) # {}
<1>1. \A x : x \in namesIn(more) <=> x \in namesIn(meanings) \cup {alias}
  <2>1. \A x : x \in namesIn(more) <=> \E m \in more : x = m[1]
    BY DEF namesIn
  <2>2. \A x : x \in namesIn(meanings) <=> \E m \in meanings : x = m[1]
    BY DEF namesIn
  <2>3. <<alias, target>>[1] = alias
    OBVIOUS
  <2> QED BY <2>1, <2>2, <2>3 DEF plus
<1>2. \A name : \A x : x \in answersFor(name, more)
                       <=> \/ x \in answersFor(name, meanings)
                           \/ name = alias /\ x = target
  <2>1. \A name, x : x \in answersFor(name, more) <=> \E m \in more : m[1] = name /\ x = m[2]
    BY DEF answersFor
  <2>2. \A name, x : x \in answersFor(name, meanings) <=> \E m \in meanings : m[1] = name /\ x = m[2]
    BY DEF answersFor
  <2> SUFFICES ASSUME NEW name, NEW x
               PROVE  (\E m \in more : m[1] = name /\ x = m[2])
                        <=> \/ \E m \in meanings : m[1] = name /\ x = m[2]
                            \/ name = alias /\ x = target
    BY <2>1, <2>2
  <2>3. <<alias, target>>[1] = alias /\ <<alias, target>>[2] = target /\ <<alias, target>> \in more
    BY DEF plus
  <2>4. \A m : m \in more <=> m \in meanings \/ m = <<alias, target>>
    BY DEF plus
  <2> QED BY <2>3, <2>4
<1>3. \A name : name \in namesIn(meanings) <=> answersFor(name, meanings) # {}
  BY DEF namesIn, answersFor
<1>4. namesIn(more) = namesIn(meanings) \cup {alias}
  BY <1>1
<1>5. ASSUME NEW name
      PROVE  /\ name = alias => answersFor(name, more) = answersFor(name, meanings) \cup {target}
             /\ name # alias => answersFor(name, more) = answersFor(name, meanings)
  BY <1>2
<1> QED BY <1>3, <1>4, <1>5

\* add puts one more meaning into the index.
LEMMA AddRepresents ==
  ASSUME NEW i, NEW meanings, NEW alias, NEW target, NEW more,
         IsIndex(i), Represents(i, meanings), more = plus(meanings, alias, target)
  PROVE  /\ IsIndex(add(i, alias, target))
         /\ Represents(add(i, alias, target), more)
<1> DEFINE after == add(i, alias, target)
<1> SUFFICES IsIndex(after) /\ Represents(after, more)
  OBVIOUS
<1>1. namesIn(more) = namesIn(meanings) \cup {alias}
  BY OneMoreMeaning
<1>2. \A name : /\ name = alias => answersFor(name, more) = answersFor(name, meanings) \cup {target}
                /\ name # alias => answersFor(name, more) = answersFor(name, meanings)
  BY OneMoreMeaning
<1>3. \A name : name \in namesIn(meanings) <=> answersFor(name, meanings) # {}
  BY OneMoreMeaning
<1>4. CASE alias \in i.ambiguous
  <2>1. after = i
    BY <1>4 DEF add
  <2> QED BY <1>1, <1>2, <1>4, <2>1 DEF Represents
<1>5. CASE alias \notin i.ambiguous /\ alias \in DOMAIN i.targets /\ i.targets[alias] # target
  <2>1. after = [i EXCEPT !.targets = [a \in DOMAIN i.targets \ {alias} |-> i.targets[a]],
                          !.ambiguous = i.ambiguous \cup {alias}]
    BY <1>5 DEF add
  <2>2. /\ after.ambiguous = i.ambiguous \cup {alias}
        /\ after.targets = [a \in DOMAIN i.targets \ {alias} |-> i.targets[a]]
        /\ IsIndex(after)
    BY <2>1 DEF IsIndex
  <2>3. \E s, t \in answersFor(alias, more) : s # t
    <3>1. alias \in namesIn(meanings) /\ answersFor(alias, meanings) = {i.targets[alias]}
      BY <1>5 DEF Represents
    <3> QED BY <1>2, <1>5, <3>1
  <2> HIDE DEF after
  <2> QED BY <1>1, <1>2, <1>5, <2>2, <2>3 DEF Represents
<1>6. CASE alias \notin i.ambiguous /\ ~(alias \in DOMAIN i.targets /\ i.targets[alias] # target)
  <2>1. after = [i EXCEPT !.targets = put(i.targets, alias, target)]
    BY <1>6 DEF add
  <2>2. /\ after.ambiguous = i.ambiguous
        /\ after.targets = put(i.targets, alias, target)
        /\ IsIndex(after)
    BY <2>1 DEF IsIndex
  <2>3. /\ DOMAIN after.targets = DOMAIN i.targets \cup {alias}
        /\ after.targets[alias] = target
        /\ \A a \in DOMAIN i.targets : a # alias => after.targets[a] = i.targets[a]
    BY <2>2 DEF put
  <2>4. answersFor(alias, more) = {target}
    <3>1. CASE alias \in DOMAIN i.targets
      BY <1>2, <1>6, <3>1 DEF Represents
    <3>2. CASE alias \notin DOMAIN i.targets
      <4>1. alias \notin namesIn(meanings)
        BY <1>6, <3>2 DEF Represents
      <4> QED BY <1>2, <1>3, <4>1
    <3> QED BY <3>1, <3>2
  <2> HIDE DEF after
  <2> QED BY <1>1, <1>2, <1>6, <2>2, <2>3, <2>4 DEF Represents
<1> QED BY <1>4, <1>5, <1>6

----------------------------------------------------------------------------
(***************************************************************************)
(* Loops over names                                                        *)
(***************************************************************************)
IsPair(p) == p = <<p[1], p[2]>>
plusFirst(meanings, names, count) == meanings \cup {names[k] : k \in 1..count}

\* The loop of addAll runs through all names.
LEMMA AddAllLoop ==
  ASSUME NEW i, NEW names, Len(names) \in Nat
  PROVE  \E after : /\ after[0] = i
                    /\ \A n \in 1..Len(names) : after[n] = add(after[n - 1], names[n][1], names[n][2])
                    /\ addAll(i, names) = after[Len(names)]
<1> DEFINE context == <<i, names>>
           rank == [n \in 0..Len(names) |-> n]
           after == CHOOSE f : f = [n \in 0..Len(names) |->
                                      IF n = 0 THEN i ELSE add(f[n - 1], names[n][1], names[n][2])]
<1>1. rank \in [0..Len(names) -> Nat] /\ \A n \in 0..Len(names) : rank[n] = n
  OBVIOUS
<1>2. Adding!Descends(0..Len(names), context, rank)
  <2> SUFFICES ASSUME NEW n \in 0..Len(names), NEW f, NEW g,
                      \A k \in 0..Len(names) : rank[k] < rank[n] => f[k] = g[k]
               PROVE  addNext(context, f, n) = addNext(context, g, n)
    BY DEF Adding!Descends
  <2>1. n # 0 => f[n - 1] = g[n - 1]
    <3> HIDE DEF rank
    <3> QED BY <1>1
  <2> QED BY <2>1 DEF addNext
<1>3. \E f : Adding!Solves(f, 0..Len(names), context)
  <2> HIDE DEF rank, context
  <2> QED BY <1>1, <1>2, Adding!SolutionExists
<1>4. \E f : f = [n \in 0..Len(names) |-> IF n = 0 THEN i ELSE add(f[n - 1], names[n][1], names[n][2])]
  BY <1>3 DEF Adding!Solves, addNext
<1>5. after = [n \in 0..Len(names) |-> IF n = 0 THEN i ELSE add(after[n - 1], names[n][1], names[n][2])]
  BY <1>4
<1>6. addAll(i, names) = after[Len(names)]
  BY DEF addAll
<1> HIDE DEF after
<1>7. after[0] = i
  BY <1>5
<1>8. ASSUME NEW n \in 1..Len(names)
      PROVE  after[n] = add(after[n - 1], names[n][1], names[n][2])
  <2>1. n \in 0..Len(names) /\ n # 0
    OBVIOUS
  <2> QED BY <1>5, <2>1
<1> QED BY <1>6, <1>7, <1>8

\* It puts the meanings that the names state into the index.
LEMMA AddAllRepresents ==
  ASSUME NEW i, NEW meanings, NEW names, Len(names) \in Nat,
         \A n \in 1..Len(names) : IsPair(names[n]),
         IsIndex(i), Represents(i, meanings)
  PROVE  /\ IsIndex(addAll(i, names))
         /\ Represents(addAll(i, names), plusFirst(meanings, names, Len(names)))
<1>1. PICK after : /\ after[0] = i
                   /\ \A n \in 1..Len(names) : after[n] = add(after[n - 1], names[n][1], names[n][2])
                   /\ addAll(i, names) = after[Len(names)]
  BY AddAllLoop
<1> DEFINE Holds(n) == IsIndex(after[n]) /\ Represents(after[n], plusFirst(meanings, names, n))
           P == {n \in Nat : n <= Len(names) => Holds(n)}
<1>2. 0 \in P
  <2>1. plusFirst(meanings, names, 0) = meanings
    BY DEF plusFirst
  <2> QED BY <1>1, <2>1
<1>3. ASSUME NEW n \in Nat, n \in P
      PROVE  n + 1 \in P
  <2> SUFFICES ASSUME n + 1 <= Len(names)
               PROVE  Holds(n + 1)
    OBVIOUS
  <2>1. Holds(n)
    BY <1>3
  <2>2. after[n + 1] = add(after[n], names[n + 1][1], names[n + 1][2])
    <3>1. n + 1 \in 1..Len(names) /\ (n + 1) - 1 = n
      OBVIOUS
    <3> QED BY <1>1, <3>1
  <2>3. plusFirst(meanings, names, n + 1)
          = plus(plusFirst(meanings, names, n), names[n + 1][1], names[n + 1][2])
    <3>1. names[n + 1] = <<names[n + 1][1], names[n + 1][2]>>
      BY DEF IsPair
    <3>2. 1..(n + 1) = (1..n) \cup {n + 1}
      OBVIOUS
    <3>3. {names[k] : k \in 1..(n + 1)} = {names[k] : k \in 1..n} \cup {names[n + 1]}
      BY <3>2
    <3> QED BY <3>1, <3>3 DEF plus, plusFirst
  <2>4. Represents(add(after[n], names[n + 1][1], names[n + 1][2]), plusFirst(meanings, names, n + 1))
    BY <2>1, <2>3, AddRepresents
  <2>5. IsIndex(add(after[n], names[n + 1][1], names[n + 1][2]))
    BY <2>1, <2>3, AddRepresents
  <2> QED BY <2>2, <2>4, <2>5
<1>4. Holds(Len(names))
  <2> HIDE DEF P, Holds
  <2>1. Nat \subseteq P
    BY <1>2, <1>3, Adding!Induction
  <2> QED BY <2>1 DEF P
<1> QED BY <1>1, <1>4

----------------------------------------------------------------------------
(***************************************************************************)
(* Questions and their subquestions                                        *)
(***************************************************************************)
\* A visit of a set is a sequence of its elements.
LEMMA Visits ==
  ASSUME NEW S, IsFiniteSet(S), NEW order \in visits(S)
  PROVE  /\ Len(order) \in Nat /\ DOMAIN order = 1..Len(order)
         /\ {order[k] : k \in 1..Len(order)} = S
<1>1. Cardinality(S) \in Nat
  BY FS_CardinalityType
<1>2. order \in [1..Cardinality(S) -> S]
  BY DEF visits
<1>3. Len(order) = Cardinality(S)
  BY <1>1, <1>2
<1>4. \A s \in S : \E k \in 1..Cardinality(S) : order[k] = s
  BY <1>2 DEF visits
<1> QED BY <1>1, <1>2, <1>3, <1>4

\* A question has finitely many tokens.
LEMMA TokensFinite ==
  ASSUME NEW row
  PROVE  IsFiniteSet(tokens(row))
<1>1. \A x : IsFiniteSet({x})
  BY FS_Singleton
<1>2. \A x, y : IsFiniteSet({x, y})
  <2> SUFFICES ASSUME NEW x, NEW y
               PROVE  IsFiniteSet({x, y})
    OBVIOUS
  <2>1. {x, y} = {x} \cup {y}
    OBVIOUS
  <2>2. IsFiniteSet({x} \cup {y})
    BY <1>1, FS_Union
  <2> QED BY <2>1, <2>2, Zenon
<1>3. IsFiniteSet({})
  BY FS_EmptySet
<1> DEFINE ids == IF row.qid = "" THEN {} ELSE {row.qid, "Q" \o row.qid}
           sgqa == IF row.qid = "" \/ row.gid = "" THEN {} ELSE {SurveyId \o "X" \o row.gid \o "X" \o row.qid}
<1>4. IsFiniteSet(ids) /\ IsFiniteSet(sgqa)
  BY <1>1, <1>2, <1>3
<1>5. IsFiniteSet({row.title} \cup ids \cup sgqa)
  <2> HIDE DEF ids, sgqa
  <2> QED BY <1>1, <1>4, FS_Union
<1> QED BY <1>5 DEF tokens

\* The names of a question are its tokens.
LEMMA QuestionNames ==
  ASSUME NEW row, NEW order, Len(order) \in Nat, DOMAIN order = 1..Len(order)
  PROVE  /\ Len(questionNames(row, order)) = Len(order)
         /\ \A k \in 1..Len(order) : questionNames(row, order)[k] = <<order[k], <<row.title, "">>>>
<1> DEFINE names == [k \in 1..Len(order) |-> <<order[k], <<row.title, "">>>>]
           S == {names[k] : k \in 1..Len(order)}
<1>1. questionNames(row, order) = names
  BY DEF questionNames
<1>2. names \in [1..Len(order) -> S]
  OBVIOUS
<1>3. \A k \in 1..Len(order) : names[k] = <<order[k], <<row.title, "">>>>
  OBVIOUS
<1> HIDE DEF names, S
<1>4. Len(names) = Len(order)
  BY <1>2
<1> QED BY <1>1, <1>3, <1>4

\* The names of a subquestion made of tokens: each token once with an
\* underscore and once without.
LEMMA ChildNames ==
  ASSUME NEW row, NEW child, NEW order, Len(order) \in Nat
  PROVE  LET names == childNames(row, child, order)
             target == <<row.title, child.title>>
         IN /\ Len(names) = 2 * Len(order)
            /\ \A k \in 1..Len(names) : IsPair(names[k])
            /\ \A k \in 1..Len(order) : /\ names[2 * k - 1] = <<order[k] \o "_" \o child.title, target>>
                                         /\ names[2 * k] = <<order[k] \o child.title, target>>
<1> DEFINE joined(k) == LET token == order[(k + 1) \div 2]
                        IN IF k % 2 = 1 THEN token \o "_" \o child.title ELSE token \o child.title
           N == 2 * Len(order)
           target == <<row.title, child.title>>
           names == [k \in 1..N |-> <<joined(k), target>>]
           S == {names[k] : k \in 1..N}
<1>1. childNames(row, child, order) = names
  BY DEF childNames
<1>2. names \in [1..N -> S] /\ N \in Nat
  <2>1. N \in Nat
    OBVIOUS
  <2>2. names \in [1..N -> S]
    <3> HIDE DEF joined, target, N
    <3> QED OBVIOUS
  <2> QED BY <2>1, <2>2
<1>3. \A k \in 1..N : names[k] = <<joined(k), target>>
  OBVIOUS
<1>4. Len(names) = N
  <2> HIDE DEF names, S, N
  <2> QED BY <1>2
<1>5. \A k \in 1..N : IsPair(names[k])
  <2> HIDE DEF names, joined, target, N
  <2> QED BY <1>3 DEF IsPair
<1>6. ASSUME NEW k \in 1..Len(order)
      PROVE  /\ names[2 * k - 1] = <<order[k] \o "_" \o child.title, target>>
             /\ names[2 * k] = <<order[k] \o child.title, target>>
  <2>1. 2 * k - 1 \in 1..N /\ 2 * k \in 1..N
    OBVIOUS
  <2>2. ((2 * k - 1) + 1) \div 2 = k /\ (2 * k - 1) % 2 = 1
    OBVIOUS
  <2>3. (2 * k + 1) \div 2 = k /\ (2 * k) % 2 = 0
    OBVIOUS
  <2>4. joined(2 * k - 1) = order[k] \o "_" \o child.title
    BY <2>2, Zenon
  <2>5. joined(2 * k) = order[k] \o child.title
    <3>1. (2 * k) % 2 # 1
      BY <2>3
    <3> QED BY <2>3, <3>1, Zenon
  <2> HIDE DEF names, joined, target, N
  <2> QED BY <1>3, <2>1, <2>4, <2>5
<1> HIDE DEF names
<1> QED BY <1>1, <1>4, <1>5, <1>6

\* Together they are the meanings of the subquestion that its id does not name.
tokenMeanings(row, child) ==
  {<<token \o "_" \o child.title, <<row.title, child.title>>>> : token \in tokens(row)}
  \cup {<<token \o child.title, <<row.title, child.title>>>> : token \in tokens(row)}

LEMMA ChildTokens ==
  ASSUME NEW row, NEW child, NEW order, Len(order) \in Nat,
         {order[k] : k \in 1..Len(order)} = tokens(row)
  PROVE  {childNames(row, child, order)[k] : k \in 1..Len(childNames(row, child, order))}
           = tokenMeanings(row, child)
<1> DEFINE names == childNames(row, child, order)
           target == <<row.title, child.title>>
           S == {names[k] : k \in 1..(2 * Len(order))}
<1>1. /\ Len(names) = 2 * Len(order)
      /\ \A k \in 1..Len(order) : /\ names[2 * k - 1] = <<order[k] \o "_" \o child.title, target>>
                                   /\ names[2 * k] = <<order[k] \o child.title, target>>
  <2> HIDE DEF names, target, S
  <2>1. LET n == childNames(row, child, order)
            t == <<row.title, child.title>>
         IN /\ Len(n) = 2 * Len(order)
            /\ \A k \in 1..Len(n) : IsPair(n[k])
            /\ \A k \in 1..Len(order) : /\ n[2 * k - 1] = <<order[k] \o "_" \o child.title, t>>
                                         /\ n[2 * k] = <<order[k] \o child.title, t>>
    BY ChildNames, Zenon
  <2> QED BY <2>1, Zenon DEF names, target
<1> HIDE DEF names
<1>2. \A t : t \in tokens(row) <=> \E j \in 1..Len(order) : t = order[j]
  OBVIOUS
<1>3. ASSUME NEW x \in S
      PROVE  x \in tokenMeanings(row, child)
  <2>1. PICK k \in 1..(2 * Len(order)) : x = names[k]
    OBVIOUS
  <2>2. PICK j \in 1..Len(order) : k = 2 * j - 1 \/ k = 2 * j
    <3>1. (k + 1) \div 2 \in 1..Len(order) /\ (k = 2 * ((k + 1) \div 2) - 1 \/ k = 2 * ((k + 1) \div 2))
      OBVIOUS
    <3> QED BY <3>1
  <2>3. order[j] \in tokens(row)
    BY <1>2
  <2>4. \/ x = <<order[j] \o "_" \o child.title, target>>
        \/ x = <<order[j] \o child.title, target>>
    BY <1>1, <2>1, <2>2
  <2> QED BY <2>3, <2>4 DEF tokenMeanings
<1>4. ASSUME NEW x \in tokenMeanings(row, child)
      PROVE  x \in S
  <2>1. PICK t \in tokens(row) : \/ x = <<t \o "_" \o child.title, target>>
                                \/ x = <<t \o child.title, target>>
    BY DEF tokenMeanings
  <2>2. PICK j \in 1..Len(order) : t = order[j]
    BY <1>2
  <2>3. 2 * j - 1 \in 1..(2 * Len(order)) /\ 2 * j \in 1..(2 * Len(order))
    OBVIOUS
  <2>4. x = names[2 * j - 1] \/ x = names[2 * j]
    BY <1>1, <2>1, <2>2
  <2> QED BY <2>3, <2>4
<1>5. S = tokenMeanings(row, child)
  <2> HIDE DEF S
  <2> QED BY <1>3, <1>4
<1> QED BY <1>1, <1>5 DEF names

\* addChild puts the meanings of one subquestion into the index.
LEMMA AddChildRepresents ==
  ASSUME NEW row, NEW child, NEW order, Len(order) \in Nat,
         {order[k] : k \in 1..Len(order)} = tokens(row),
         NEW i, NEW meanings, IsIndex(i), Represents(i, meanings)
  PROVE  /\ IsIndex(addChild(i, row, child, order))
         /\ Represents(addChild(i, row, child, order), meanings \cup childMeanings(row, child))
<1> DEFINE names == childNames(row, child, order)
           named == addAll(i, names)
           id == "Q" \o row.qid \o "_S" \o child.qid
           target == <<row.title, child.title>>
           before == meanings \cup tokenMeanings(row, child)
           after == meanings \cup childMeanings(row, child)
<1>1. IsIndex(named) /\ Represents(named, before)
  <2>1. Len(names) \in Nat /\ \A k \in 1..Len(names) : IsPair(names[k])
    <3>1. Len(names) = 2 * Len(order) /\ \A k \in 1..Len(names) : IsPair(names[k])
      BY ChildNames
    <3> HIDE DEF names
    <3> QED BY <3>1
  <2>2. plusFirst(meanings, names, Len(names)) = before
    BY ChildTokens DEF plusFirst
  <2>3. IsIndex(named) /\ Represents(named, plusFirst(meanings, names, Len(names)))
    <3> HIDE DEF names
    <3> QED BY <2>1, AddAllRepresents
  <2> HIDE DEF names, named, before
  <2> QED BY <2>2, <2>3
<1>2. CASE child.title = ""
  <2>1. addChild(i, row, child, order) = i
    BY <1>2 DEF addChild
  <2>2. after = meanings
    BY <1>2 DEF childMeanings
  <2> HIDE DEF after
  <2>3. Represents(i, after)
    BY <2>2
  <2> QED BY <2>1, <2>3 DEF after
<1>3. CASE child.title # "" /\ child.qid = ""
  <2>1. addChild(i, row, child, order) = named
    BY <1>3 DEF addChild
  <2>2. after = before
    BY <1>3 DEF childMeanings, tokenMeanings
  <2> HIDE DEF after, before, named
  <2>3. Represents(named, after)
    BY <1>1, <2>2
  <2> QED BY <1>1, <2>1, <2>3 DEF after
<1>4. CASE child.title # "" /\ child.qid # ""
  <2>1. addChild(i, row, child, order) = add(named, id, target)
    BY <1>4 DEF addChild
  <2>2. after = plus(before, id, target)
    BY <1>4 DEF childMeanings, tokenMeanings, plus
  <2> HIDE DEF after, before, named, id, target
  <2>3. IsIndex(add(named, id, target)) /\ Represents(add(named, id, target), after)
    BY <1>1, <2>2, AddRepresents
  <2> QED BY <2>1, <2>3 DEF after
<1> QED BY <1>2, <1>3, <1>4

----------------------------------------------------------------------------
(***************************************************************************)
(* Loops over rows                                                         *)
(***************************************************************************)
plusChildren(meanings, row, rows, count) ==
  meanings \cup UNION {childMeanings(row, rows[k]) : k \in {m \in 1..count : isChildOf(rows[m], row.qid)}}

\* The loop of addChildren runs through all rows.
LEMMA AddChildrenLoop ==
  ASSUME NEW i, NEW row, NEW rows, NEW order, Len(rows) \in Nat
  PROVE  \E after : /\ after[0] = i
                    /\ \A n \in 1..Len(rows) :
                         after[n] = IF isChildOf(rows[n], row.qid) THEN addChild(after[n - 1], row, rows[n], order)
                                    ELSE after[n - 1]
                    /\ addChildren(i, row, rows, order) = after[Len(rows)]
<1> DEFINE context == <<i, row, rows, order>>
           rank == [n \in 0..Len(rows) |-> n]
           Step(n, index_) == CASE n = 0 -> i
                                [] n # 0 /\ isChildOf(rows[n], row.qid) -> addChild(index_, row, rows[n], order)
                                [] OTHER -> index_
           Loop(f) == f = [n \in 0..Len(rows) |-> Step(n, f[n - 1])]
           after == CHOOSE f : Loop(f)
<1>1. rank \in [0..Len(rows) -> Nat] /\ \A n \in 0..Len(rows) : rank[n] = n
  OBVIOUS
<1>2. \A f, n : addNextChild(context, f, n) = Step(n, f[n - 1])
  BY DEF addNextChild
<1>3. AddingChildren!Descends(0..Len(rows), context, rank)
  <2> SUFFICES ASSUME NEW n \in 0..Len(rows), NEW f, NEW g,
                      \A k \in 0..Len(rows) : rank[k] < rank[n] => f[k] = g[k]
               PROVE  addNextChild(context, f, n) = addNextChild(context, g, n)
    BY DEF AddingChildren!Descends
  <2>1. n # 0 => f[n - 1] = g[n - 1]
    <3> HIDE DEF rank
    <3> QED BY <1>1
  <2> HIDE DEF context
  <2> QED BY <1>2, <2>1
<1>4. \E f : AddingChildren!Solves(f, 0..Len(rows), context)
  <2> HIDE DEF rank, context
  <2> QED BY <1>1, <1>3, AddingChildren!SolutionExists
<1>5. \E f : Loop(f)
  <2> HIDE DEF Step, context
  <2> QED BY <1>2, <1>4 DEF AddingChildren!Solves
<1>6. Loop(after)
  <2> HIDE DEF Loop
  <2> QED BY <1>5
<1>7. addChildren(i, row, rows, order) = after[Len(rows)]
  BY DEF addChildren
<1> HIDE DEF after
<1>8. after[0] = i
  BY <1>6
<1>9. \A n \in 1..Len(rows) : after[n] = Step(n, after[n - 1])
  <2> HIDE DEF Step
  <2> QED BY <1>6
<1>10. \A n \in 1..Len(rows) :
         after[n] = IF isChildOf(rows[n], row.qid) THEN addChild(after[n - 1], row, rows[n], order)
                    ELSE after[n - 1]
  BY <1>9
<1> QED BY <1>7, <1>8, <1>10

\* It puts the meanings of all subquestions of the row into the index.
LEMMA AddChildrenRepresents ==
  ASSUME NEW row, NEW rows, Len(rows) \in Nat, NEW order, Len(order) \in Nat,
         {order[k] : k \in 1..Len(order)} = tokens(row),
         NEW i, NEW meanings, IsIndex(i), Represents(i, meanings)
  PROVE  /\ IsIndex(addChildren(i, row, rows, order))
         /\ Represents(addChildren(i, row, rows, order), plusChildren(meanings, row, rows, Len(rows)))
<1>1. PICK after : /\ after[0] = i
                   /\ \A n \in 1..Len(rows) :
                        after[n] = IF isChildOf(rows[n], row.qid) THEN addChild(after[n - 1], row, rows[n], order)
                                   ELSE after[n - 1]
                   /\ addChildren(i, row, rows, order) = after[Len(rows)]
  BY AddChildrenLoop
<1> DEFINE Holds(n) == IsIndex(after[n]) /\ Represents(after[n], plusChildren(meanings, row, rows, n))
           P == {n \in Nat : n <= Len(rows) => Holds(n)}
<1>2. 0 \in P
  <2>1. plusChildren(meanings, row, rows, 0) = meanings
    BY DEF plusChildren
  <2> QED BY <1>1, <2>1
<1>3. ASSUME NEW n \in Nat, n \in P
      PROVE  n + 1 \in P
  <2> SUFFICES ASSUME n + 1 <= Len(rows)
               PROVE  Holds(n + 1)
    OBVIOUS
  <2>1. Holds(n)
    BY <1>3
  <2> DEFINE before == plusChildren(meanings, row, rows, n)
             more == plusChildren(meanings, row, rows, n + 1)
  <2>2. after[n + 1] = IF isChildOf(rows[n + 1], row.qid) THEN addChild(after[n], row, rows[n + 1], order)
                       ELSE after[n]
    <3>1. n + 1 \in 1..Len(rows) /\ (n + 1) - 1 = n
      OBVIOUS
    <3> QED BY <1>1, <3>1
  <2>3. 1..(n + 1) = (1..n) \cup {n + 1}
    OBVIOUS
  <2>4. CASE isChildOf(rows[n + 1], row.qid)
    <3>1. more = before \cup childMeanings(row, rows[n + 1])
      BY <2>3, <2>4 DEF plusChildren
    <3> HIDE DEF before, more
    <3>2. /\ IsIndex(addChild(after[n], row, rows[n + 1], order))
          /\ Represents(addChild(after[n], row, rows[n + 1], order), before \cup childMeanings(row, rows[n + 1]))
      BY <2>1, AddChildRepresents DEF before
    <3>3. Represents(addChild(after[n], row, rows[n + 1], order), more)
      BY <3>1, <3>2
    <3> QED BY <2>2, <2>4, <3>2, <3>3 DEF more
  <2>5. CASE ~isChildOf(rows[n + 1], row.qid)
    <3>1. more = before
      BY <2>3, <2>5 DEF plusChildren
    <3> HIDE DEF before, more
    <3>2. Represents(after[n], more)
      BY <2>1, <3>1 DEF before
    <3> QED BY <2>1, <2>2, <2>5, <3>2 DEF more
  <2> QED BY <2>4, <2>5
<1>4. Holds(Len(rows))
  <2> HIDE DEF P, Holds
  <2>1. Nat \subseteq P
    BY <1>2, <1>3, Adding!Induction
  <2> QED BY <2>1 DEF P
<1> QED BY <1>1, <1>4

\* A question puts its meanings into the index, in whatever order its tokens
\* are visited.
LEMMA IndexQuestionRepresents ==
  ASSUME NEW row, isTopLevel(row), NEW rows, Len(rows) \in Nat, DOMAIN rows = 1..Len(rows),
         NEW order \in visits(tokens(row)),
         NEW i, NEW meanings, IsIndex(i), Represents(i, meanings)
  PROVE  /\ IsIndex(indexQuestion(i, row, rows, order))
         /\ Represents(indexQuestion(i, row, rows, order), meanings \cup rowMeanings(row, rows))
<1> DEFINE target == <<row.title, "">>
           noted == [i EXCEPT !.questions = put(i.questions, row.title, row)]
           names == questionNames(row, order)
           titled == addAll(noted, names)
           after == meanings \cup rowMeanings(row, rows)
           own == plusFirst(meanings, names, Len(names))
<1>1. /\ Len(order) \in Nat /\ DOMAIN order = 1..Len(order)
      /\ {order[k] : k \in 1..Len(order)} = tokens(row)
  BY TokensFinite, Visits
<1>2. CASE row.title = ""
  <2>1. indexQuestion(i, row, rows, order) = i
    BY <1>2 DEF indexQuestion
  <2>2. after = meanings
    BY <1>2 DEF rowMeanings
  <2> HIDE DEF after
  <2>3. Represents(i, after)
    BY <2>2
  <2> QED BY <2>1, <2>3 DEF after
<1>3. CASE row.title # ""
  <2>1. indexQuestion(i, row, rows, order) = addChildren(titled, row, rows, order)
    BY <1>3 DEF indexQuestion
  <2>2. IsIndex(noted) /\ Represents(noted, meanings)
    <3>1. IsIndex(noted) /\ noted.targets = i.targets /\ noted.ambiguous = i.ambiguous
      BY DEF IsIndex
    <3> HIDE DEF noted
    <3> QED BY <3>1 DEF Represents
  <2>3. Len(names) \in Nat /\ \A k \in 1..Len(names) : IsPair(names[k])
    <3>1. Len(names) = Len(order) /\ \A k \in 1..Len(order) : names[k] = <<order[k], target>>
      BY <1>1, QuestionNames
    <3> HIDE DEF names, target
    <3>2. ASSUME NEW k \in 1..Len(order)
          PROVE  IsPair(names[k])
      BY <3>1 DEF IsPair
    <3> QED BY <1>1, <3>1, <3>2
  <2>4. IsIndex(titled) /\ Represents(titled, own)
    <3> HIDE DEF names, noted
    <3> QED BY <2>2, <2>3, AddAllRepresents
  <2>5. /\ IsIndex(addChildren(titled, row, rows, order))
        /\ Represents(addChildren(titled, row, rows, order), plusChildren(own, row, rows, Len(rows)))
    <3> HIDE DEF titled, own
    <3> QED BY <1>1, <2>4, AddChildrenRepresents
  <2>6. {names[k] : k \in 1..Len(names)} = {<<token, target>> : token \in tokens(row)}
    <3>1. Len(names) = Len(order) /\ \A k \in 1..Len(order) : names[k] = <<order[k], target>>
      BY <1>1, QuestionNames
    <3> HIDE DEF names, target
    <3>2. {names[k] : k \in 1..Len(order)} = {<<token, target>> : token \in tokens(row)}
      <4>1. \A t : t \in tokens(row) <=> \E k \in 1..Len(order) : t = order[k]
        BY <1>1
      <4>2. ASSUME NEW k \in 1..Len(order)
            PROVE  \E t \in tokens(row) : names[k] = <<t, target>>
        <5>1. order[k] \in tokens(row) /\ names[k] = <<order[k], target>>
          BY <3>1, <4>1
        <5> QED BY <5>1
      <4>3. ASSUME NEW t \in tokens(row)
            PROVE  \E k \in 1..Len(order) : <<t, target>> = names[k]
        <5>1. PICK k \in 1..Len(order) : t = order[k]
          BY <4>1
        <5> QED BY <3>1, <5>1
      <4> QED BY <4>2, <4>3
    <3> QED BY <3>1, <3>2
  <2>7. plusChildren(own, row, rows, Len(rows)) = after
    BY <1>3, <2>6 DEF plusChildren, plusFirst, rowMeanings
  <2> HIDE DEF titled, own, after
  <2>8. Represents(addChildren(titled, row, rows, order), after)
    BY <2>5, <2>7
  <2> QED BY <2>1, <2>5, <2>8 DEF after
<1> QED BY <1>2, <1>3

----------------------------------------------------------------------------
(***************************************************************************)
(* The specification                                                       *)
(***************************************************************************)
\* The index represents the meanings of the rows that have been visited.
IndexInv ==
  /\ payload \in Payloads
  /\ reached \in 0..Len(payload.questions)
  /\ IsIndex(index)
  /\ Represents(index, meaningsUpTo(reached, payload.questions))

\* The rows of a payload are a sequence.
LEMMA Rows ==
  ASSUME NEW loaded \in Payloads
  PROVE  Len(loaded.questions) \in Nat /\ DOMAIN loaded.questions = 1..Len(loaded.questions)
BY PayloadsAssumption, LenProperties

\* Whatever rows are loaded and however Python's sets are visited, the index
\* represents the rows visited so far (build_condition_references).
THEOREM IndexInvariance == IndexSpec => []IndexInv
<1>1. IndexInit => IndexInv
  <2> SUFFICES ASSUME IndexInit
               PROVE  IndexInv
    OBVIOUS
  <2>1. payload \in Payloads /\ reached = 0 /\ reached \in 0..Len(payload.questions)
    BY Rows DEF IndexInit
  <2>2. IsIndex(index)
    BY DEF IndexInit, EmptyIndex, IsIndex
  <2>3. meaningsUpTo(0, payload.questions) = {}
    BY DEF meaningsUpTo
  <2>4. Represents(index, {})
    BY DEF IndexInit, EmptyIndex, Represents, namesIn
  <2> QED BY <2>1, <2>2, <2>3, <2>4 DEF IndexInv
<1>2. IndexInv /\ [IndexQuestion]_indexVars => IndexInv'
  <2> SUFFICES ASSUME IndexInv, [IndexQuestion]_indexVars
               PROVE  IndexInv'
    OBVIOUS
  <2>1. CASE IndexQuestion
    <3> DEFINE rows == payload.questions
               row == rows[reached + 1]
               before == meaningsUpTo(reached, rows)
               after == meaningsUpTo(reached + 1, rows)
    <3>1. payload' = payload /\ reached' = reached + 1 /\ payload \in Payloads /\ reached \in Nat
      BY <2>1 DEF IndexInv, IndexQuestion
    <3>2. Len(rows) \in Nat /\ DOMAIN rows = 1..Len(rows)
      BY <3>1, Rows
    <3>3. reached' \in 0..Len(payload'.questions)
      BY <2>1, <3>1, <3>2 DEF IndexQuestion
    <3>4. after = before \cup rowMeanings(row, rows)
      <4>1. 1..(reached + 1) = (1..reached) \cup {reached + 1}
        BY <3>1
      <4> QED BY <4>1 DEF meaningsUpTo
    <3>5. IsIndex(index) /\ Represents(index, before)
      BY DEF IndexInv
    <3> HIDE DEF rows, row, before, after
    <3>6. CASE ~isTopLevel(row) /\ index' = index
      <4>1. after = before
        BY <3>4, <3>6 DEF rowMeanings
      <4>2. IsIndex(index') /\ Represents(index', after)
        BY <3>5, <3>6, <4>1
      <4> QED BY <3>1, <3>3, <4>2 DEF IndexInv, after, rows
    <3>7. ASSUME isTopLevel(row), NEW order \in visits(tokens(row)), index' = indexQuestion(index, row, rows, order)
          PROVE  IndexInv'
      <4>1. IsIndex(index') /\ Represents(index', before \cup rowMeanings(row, rows))
        BY <3>2, <3>5, <3>7, IndexQuestionRepresents
      <4>2. Represents(index', after)
        BY <3>4, <4>1
      <4> QED BY <3>1, <3>3, <4>1, <4>2 DEF IndexInv, after, rows
    <3> QED BY <2>1, <3>6, <3>7 DEF IndexQuestion, row, rows
  <2>2. CASE UNCHANGED indexVars
    BY <2>2 DEF IndexInv, indexVars
  <2> QED BY <2>1, <2>2
<1> QED BY <1>1, <1>2, PTL DEF IndexSpec

\* A name is usable exactly when it stands for one answer, for surveys of any
\* size and whatever their questions are called (ConditionReferenceIndex.add,
\* build_condition_references, resolve_reference).
THEOREM NoGuessSafety == IndexSpec => []NamesDoNotGuess
<1>1. IndexInv => NamesDoNotGuess
  <2> SUFFICES ASSUME IndexInv
               PROVE  NamesDoNotGuess
    OBVIOUS
  <2> DEFINE meanings == meaningsUpTo(reached, payload.questions)
  <2>1. Represents(index, meanings)
    BY DEF IndexInv
  <2> HIDE DEF meanings
  <2>2. namesIn(meanings) \cup DOMAIN index.targets \cup index.ambiguous = namesIn(meanings)
    BY <2>1 DEF Represents
  <2>3. ASSUME NEW alias \in namesIn(meanings)
        PROVE  \/ answersFor(alias, meanings) = {resolve_reference(index, alias)}
               \/ /\ resolve_reference(index, alias) = << >>
                  /\ \A answer \in answersFor(alias, meanings) : answersFor(alias, meanings) # {answer}
    BY <2>1 DEF Represents, resolve_reference
  <2> QED BY <2>2, <2>3 DEF NamesDoNotGuess, meanings
<1> QED BY <1>1, IndexInvariance, PTL
=============================================================================
