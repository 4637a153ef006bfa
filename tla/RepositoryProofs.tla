-------------------------- MODULE RepositoryProofs --------------------------
(* Proofs about Repository for any struct, tables, calls and clients: what *)
(* the statements that it builds mean, and what their retries do.          *)
EXTENDS Repository, FiniteSetTheorems, SequenceTheorems, TLAPS

-----------------------------------------------------------------------------
(* Placeholders and arguments.                                             *)

LEMMA FieldMapType ==
  ASSUME NEW c \in Columns
  PROVE  FieldMap[c] \in 1 .. Len(Fields) /\ Fields[FieldMap[c]] = c
<1>1. \E i \in DOMAIN Fields : Fields[i] = c BY DEF Columns
<1>2. DOMAIN Fields = 1 .. Len(Fields) BY FieldsAssumption
<1> QED BY <1>1, <1>2 DEF FieldMap

(* entityValues and fieldMapOf agree.                                      *)
LEMMA EntityValuesAt ==
  ASSUME NEW e \in Row, NEW c \in Columns
  PROVE  EntityValues(e)[FieldMap[c]] = e[c]
BY FieldMapType, FieldsAssumption DEF EntityValues

LEMMA EntityValuesType ==
  ASSUME NEW e \in Row
  PROVE  EntityValues(e) \in Seq(Values) /\ Len(EntityValues(e)) = Len(Fields)
<1>1. DOMAIN Fields = 1 .. Len(Fields) /\ Len(Fields) \in Nat BY FieldsAssumption
<1>2. \A i \in 1 .. Len(Fields) : e[Fields[i]] \in Values BY <1>1 DEF Row, Columns
<1>3. EntityValues(e) = [i \in 1 .. Len(Fields) |-> e[Fields[i]]] BY <1>1 DEF EntityValues
<1> QED BY <1>1, <1>2, <1>3

(* SET col = $n gets the value of the entity's column.                     *)
LEMMA Aligned ==
  ASSUME NEW e \in Row, NEW cols \in Seq(STRING), Resolves(cols),
         NEW args \in Seq(Values), NEW i \in DOMAIN cols
  PROVE  /\ Assignments(cols, Len(args))[i].col = cols[i]
         /\ WithAssigned(args, EntityValues(e), cols)[Assignments(cols, Len(args))[i].arg]
              = e[cols[i]]
<1>1. i \in 1 .. Len(cols) /\ cols[i] \in Columns /\ Len(args) \in Nat /\ Len(cols) \in Nat
  BY DEF Resolves
<1>2. Assignments(cols, Len(args))[i] = [col |-> cols[i], arg |-> Len(args) + i]
  BY DEF Assignments
<1>3. Len(args) + i \in 1 .. Len(args) + Len(cols) /\ ~(Len(args) + i <= Len(args))
      /\ Len(args) + i - Len(args) = i
  BY <1>1
<1>4. WithAssigned(args, EntityValues(e), cols)[Len(args) + i]
        = EntityValues(e)[FieldMap[cols[i]]]
  BY <1>3 DEF WithAssigned
<1> QED BY <1>1, <1>2, <1>4, EntityValuesAt

(* A row to which such a statement is applied is overwritten in exactly    *)
(* the columns listed.                                                     *)
LEMMA AssignMeans ==
  ASSUME NEW e \in Row, NEW cols \in Seq(STRING), Resolves(cols), NEW args \in Seq(Values),
         NEW r \in Row, NEW st,
         st.sets = Assignments(cols, Len(args)),
         st.args = WithAssigned(args, EntityValues(e), cols)
  PROVE  Assign(r, st) = Overwritten(r, e, cols)
<1> SUFFICES ASSUME NEW c \in Columns PROVE Assign(r, st)[c] = Overwritten(r, e, cols)[c]
  BY DEF Assign, Overwritten
<1>1. DOMAIN st.sets = DOMAIN cols BY DEF Assignments
<1>2. \A i \in DOMAIN cols : st.sets[i].col = cols[i] /\ st.args[st.sets[i].arg] = e[cols[i]]
  BY Aligned
<1>3. CASE \E i \in DOMAIN cols : cols[i] = c
  <2> DEFINE j == CHOOSE i \in DOMAIN st.sets : st.sets[i].col = c
  <2>1. j \in DOMAIN cols /\ st.sets[j].col = c BY <1>1, <1>2, <1>3
  <2>2. st.args[st.sets[j].arg] = e[c] BY <1>2, <2>1
  <2>3. Assign(r, st)[c] = st.args[st.sets[j].arg] BY <1>1, <1>2, <1>3 DEF Assign
  <2>4. c \in Listed(cols) BY <1>3 DEF Listed
  <2> QED BY <2>2, <2>3, <2>4 DEF Overwritten
<1>4. CASE ~\E i \in DOMAIN cols : cols[i] = c
  <2>1. Assign(r, st)[c] = r[c] BY <1>1, <1>2, <1>4 DEF Assign
  <2>2. c \notin Listed(cols) BY <1>4 DEF Listed
  <2> QED BY <2>1, <2>2 DEF Overwritten
<1> QED BY <1>3, <1>4

(* VALUES ($1 .. $n) are the entity.                                       *)
LEMMA InsertMeans ==
  ASSUME NEW e \in Row, NEW args,
         \A i \in 1 .. Len(Fields) : args[i] = EntityValues(e)[i]
  PROVE  Inserted(args) = e
BY FieldMapType, EntityValuesAt DEF Inserted, Row

-----------------------------------------------------------------------------
(* What the statements mean.                                               *)

LEMMA OverwrittenType ==
  ASSUME NEW r \in Row, NEW e \in Row, NEW cols PROVE Overwritten(r, e, cols) \in Row
BY DEF Overwritten, Row

LEMMA OverwrittenTwice ==
  ASSUME NEW r \in Row, NEW e \in Row, NEW cols
  PROVE  Overwritten(Overwritten(r, e, cols), e, cols) = Overwritten(r, e, cols)
BY DEF Overwritten

LEMMA OverwrittenSelf ==
  ASSUME NEW e \in Row, NEW cols PROVE Overwritten(e, e, cols) = e
BY DEF Overwritten, Row

LEMMA OverwrittenKey ==
  ASSUME NEW r \in Row, NEW e \in Row, NEW cols, r[Key] = e[Key]
  PROVE  Overwritten(r, e, cols)[Key] = e[Key]
BY FieldsAssumption DEF Overwritten

LEMMA UpsertMeans ==
  ASSUME NEW k \in Menu, k.op = "upsert", NEW t \in SUBSET Row, Statement(k) # Invalid
  PROVE  RunUpsert(t, Statement(k)) = Meaning(t, k)
<1> DEFINE st == Statement(k)
           e == k.entity
           vals == EntityValues(e)
<1>1. e \in Row /\ k.conflict \in Seq(STRING) /\ k.update \in Seq(STRING)
  BY CallsAssumption DEF Writes
<1>2. /\ Resolves(k.update) /\ st.nothing = FALSE
      /\ st.sets = Assignments(k.update, Len(vals)) /\ st.args = WithAssigned(vals, vals, k.update)
  BY DEF Statement, UpsertStatement
<1>3. vals \in Seq(Values) /\ Len(vals) = Len(Fields) /\ Len(Fields) \in Nat
  BY <1>1, EntityValuesType, FieldsAssumption
<1>4. \A r \in Row : Assign(r, st) = Overwritten(r, e, k.update)
  BY <1>1, <1>2, <1>3, AssignMeans
<1>5. \A i \in 1 .. Len(Fields) : st.args[i] = vals[i] BY <1>1, <1>2, <1>3 DEF WithAssigned
<1>6. Inserted(st.args) = e BY <1>1, <1>5, InsertMeans
<1> HIDE DEF st, vals
<1> DEFINE old == {r \in t : r[Key] = e[Key]}
<1>7. CASE old = {}
  <2>1. RunUpsert(t, st) = t \cup {e} BY <1>6, <1>7 DEF RunUpsert
  <2>2. Meaning(t, k) = t \cup {e} BY <1>7 DEF Meaning
  <2> QED BY <2>1, <2>2 DEF st
<1>8. CASE old # {}
  <2>1. RunUpsert(t, st) = (t \ old) \cup {Assign(r, st) : r \in old}
    BY <1>2, <1>6, <1>8 DEF RunUpsert
  <2>2. Meaning(t, k) = {IF r[Key] = e[Key] THEN Overwritten(r, e, k.update) ELSE r : r \in t}
    BY <1>8 DEF Meaning
  <2>3. {Assign(r, st) : r \in old} = {Overwritten(r, e, k.update) : r \in old} BY <1>4
  <2>4. (t \ old) \cup {Overwritten(r, e, k.update) : r \in old}
          = {IF r[Key] = e[Key] THEN Overwritten(r, e, k.update) ELSE r : r \in t}
    OBVIOUS
  <2> QED BY <2>1, <2>2, <2>3, <2>4 DEF st
<1> QED BY <1>7, <1>8

LEMMA IgnoreMeans ==
  ASSUME NEW k \in Menu, k.op = "ignore", NEW t \in SUBSET Row, Statement(k) # Invalid
  PROVE  RunUpsert(t, Statement(k)) = Meaning(t, k)
<1> DEFINE st == Statement(k)
           e == k.entity
<1>1. e \in Row BY CallsAssumption DEF Writes
<1>2. st.nothing = TRUE /\ st.args = EntityValues(e) BY DEF Statement, UpsertStatement
<1>3. Inserted(st.args) = e BY <1>1, <1>2, InsertMeans
<1> HIDE DEF st
<1>4. RunUpsert(t, st) = IF {r \in t : r[Key] = e[Key]} = {} THEN t \cup {e} ELSE t
  BY <1>2, <1>3 DEF RunUpsert
<1>5. Meaning(t, k) = IF \E r \in t : r[Key] = e[Key] THEN t ELSE t \cup {e} BY DEF Meaning
<1> QED BY <1>4, <1>5 DEF st

LEMMA UpdateMeans ==
  ASSUME NEW k \in Menu, k.op = "update", NEW t \in SUBSET Row, Statement(k) # Invalid
  PROVE  RunUpdate(t, Statement(k)) = Meaning(t, k)
<1> DEFINE st == Statement(k)
           e == k.entity
           args == k.where.args
<1>1. e \in Row /\ k.update \in Seq(STRING) /\ args \in Seq(Values) /\ args # << >>
  BY CallsAssumption DEF Writes
<1>2. /\ Resolves(k.update) /\ st.sets = Assignments(k.update, Len(args))
      /\ st.args = WithAssigned(args, EntityValues(e), k.update)
  BY DEF Statement, UpdateStatement
<1>3. \A r \in Row : Assign(r, st) = Overwritten(r, e, k.update)
  BY <1>1, <1>2, AssignMeans
<1>4. Len(args) \in Nat /\ Len(args) >= 1 /\ Len(k.update) \in Nat BY <1>1
<1>5. st.args[1] = args[1]
  <2> HIDE DEF st, args, e
  <2>1. 1 \in 1 .. Len(args) + Len(k.update) /\ 1 <= Len(args) BY <1>4
  <2>2. WithAssigned(args, EntityValues(e), k.update)[1] = args[1] BY <2>1 DEF WithAssigned
  <2> QED BY <1>2, <2>2
<1>6. Meaning(t, k) = {IF r[Key] = args[1] THEN Overwritten(r, e, k.update) ELSE r : r \in t}
  BY DEF Meaning
<1> HIDE DEF st, args
<1> QED BY <1>3, <1>5, <1>6 DEF RunUpdate, st

(* Executed twice in a row, a write does what it does once.                *)
LEMMA MeaningType ==
  ASSUME NEW k \in Menu, k.op \in Writes, NEW t \in SUBSET Row PROVE Meaning(t, k) \in SUBSET Row
<1>1. k.entity \in Row BY CallsAssumption
<1> QED BY <1>1, OverwrittenType DEF Meaning

LEMMA MeaningTwice ==
  ASSUME NEW k \in Menu, k.op \in Writes, NEW t \in SUBSET Row
  PROVE  Meaning(Meaning(t, k), k) = Meaning(t, k)
<1> DEFINE e == k.entity
           u == Meaning(t, k)
           O(r) == Overwritten(r, e, k.update)
<1>1. e \in Row BY CallsAssumption
<1>2. \A r \in Row : O(r) \in Row /\ O(O(r)) = O(r)
  BY <1>1, OverwrittenType, OverwrittenTwice
<1>3. \A r \in Row : r[Key] = e[Key] => O(r)[Key] = e[Key] BY <1>1, OverwrittenKey
<1>4. O(e) = e BY <1>1, OverwrittenSelf
<1>5. CASE k.op = "update"
  <2> DEFINE w == k.where.args[1]
  <2>1. \A x : Meaning(x, k) = {IF r[Key] = w THEN O(r) ELSE r : r \in x} BY <1>5 DEF Meaning
  <2> HIDE DEF O, w, u
  <2>2. u = {IF r[Key] = w THEN O(r) ELSE r : r \in t} BY <2>1 DEF u
  <2>3. Meaning(u, k) = {IF r[Key] = w THEN O(r) ELSE r : r \in u} BY <2>1
  <2>4. \A x \in u : x[Key] = w => O(x) = x BY <1>2, <2>2
  <2>5. Meaning(u, k) = u BY <2>3, <2>4
  <2> QED BY <2>5 DEF u
<1>6. CASE k.op # "update" /\ \E r \in t : r[Key] = e[Key]
  <2>1. CASE k.op = "ignore" BY <1>6, <2>1 DEF Meaning
  <2>2. CASE k.op = "upsert"
    <3>1. \A x : (\E r \in x : r[Key] = e[Key]) =>
            Meaning(x, k) = {IF r[Key] = e[Key] THEN O(r) ELSE r : r \in x}
      BY <2>2 DEF Meaning
    <3> HIDE DEF O, u
    <3>2. u = {IF r[Key] = e[Key] THEN O(r) ELSE r : r \in t} BY <1>6, <3>1 DEF u
    <3>3. \E r \in u : r[Key] = e[Key] BY <1>3, <1>6, <3>2
    <3>4. Meaning(u, k) = {IF r[Key] = e[Key] THEN O(r) ELSE r : r \in u} BY <3>1, <3>3
    <3>5. Meaning(u, k) = u BY <1>2, <3>2, <3>4
    <3> QED BY <3>5 DEF u
  <2> QED BY <1>6, <2>1, <2>2 DEF Writes
<1>7. CASE k.op # "update" /\ ~\E r \in t : r[Key] = e[Key]
  <2>1. u = t \cup {e} BY <1>7 DEF Meaning
  <2>2. \E r \in u : r[Key] = e[Key] BY <2>1
  <2>3. CASE k.op = "ignore" BY <2>2, <2>3 DEF Meaning
  <2>4. CASE k.op = "upsert"
    <3> HIDE DEF u
    <3>1. Meaning(u, k) = {IF r[Key] = e[Key] THEN O(r) ELSE r : r \in u}
      BY <2>2, <2>4 DEF Meaning
    <3> HIDE DEF O
    <3>2. \A r \in u : r[Key] = e[Key] => r = e BY <1>7, <2>1
    <3>3. Meaning(u, k) = u BY <1>4, <3>1, <3>2
    <3> QED BY <3>3 DEF u
  <2> QED BY <1>7, <2>3, <2>4 DEF Writes
<1> QED BY <1>5, <1>6, <1>7

LEMMA MeaningFinite ==
  ASSUME NEW k \in Menu, k.op \in Writes, NEW t \in SUBSET Row, IsFiniteSet(t)
  PROVE  IsFiniteSet(Meaning(t, k))
<1>1. IsFiniteSet(t \cup {k.entity}) BY FS_AddElement
<1>2. ASSUME NEW w PROVE
        IsFiniteSet({IF r[Key] = w THEN Overwritten(r, k.entity, k.update) ELSE r : r \in t})
  <2> DEFINE f == [r \in t |-> IF r[Key] = w THEN Overwritten(r, k.entity, k.update) ELSE r]
             im == {IF r[Key] = w THEN Overwritten(r, k.entity, k.update) ELSE r : r \in t}
  <2>1. f \in Surjection(t, im) BY DEF Surjection
  <2> QED BY <2>1, FS_Surjection
<1> QED BY <1>1, <1>2 DEF Meaning

-----------------------------------------------------------------------------
(* The rank of a row in a finite table counts its place.                   *)

LEMMA RankType ==
  ASSUME NEW t \in SUBSET Row, IsFiniteSet(t), NEW r \in t
  PROVE  Rank(t, r) \in 1 .. Cardinality(t)
<1> DEFINE below == {q \in t : q[Key] <= r[Key]}
<1>1. r[Key] \in Int BY FieldsAssumption, NumbersAssumption DEF Row
<1>2. r \in below BY <1>1
<1>3. below \in SUBSET t OBVIOUS
<1>4. IsFiniteSet(below) /\ Cardinality(below) <= Cardinality(t) BY <1>3, FS_Subset
<1>5. Cardinality(below) \in Nat /\ Cardinality(t) \in Nat BY <1>4, FS_CardinalityType
<1>6. Cardinality(below) # 0 BY <1>2, <1>4, FS_EmptySet
<1> QED BY <1>4, <1>5, <1>6 DEF Rank

LEMMA RankMonotone ==
  ASSUME NEW t \in SUBSET Row, IsFiniteSet(t), NEW r \in t, NEW q \in t, r[Key] < q[Key]
  PROVE  Rank(t, r) < Rank(t, q)
<1> DEFINE R == {x \in t : x[Key] <= r[Key]}
           Q == {x \in t : x[Key] <= q[Key]}
<1>1. \A x \in t : x[Key] \in Int BY FieldsAssumption, NumbersAssumption DEF Row
<1>2. R \in SUBSET Q BY <1>1
<1>3. q \in Q /\ q \notin R BY <1>1
<1>4. Q \in SUBSET t OBVIOUS
<1>5. IsFiniteSet(Q) BY <1>4, FS_Subset
<1>6. IsFiniteSet(R) /\ Cardinality(R) <= Cardinality(Q) /\ (Cardinality(Q) = Cardinality(R) => Q = R)
  BY <1>2, <1>5, FS_Subset
<1>7. Cardinality(R) \in Nat /\ Cardinality(Q) \in Nat BY <1>5, <1>6, FS_CardinalityType
<1>8. Rank(t, r) = Cardinality(R) /\ Rank(t, q) = Cardinality(Q) BY DEF Rank
<1> HIDE DEF R, Q
<1>9. Cardinality(R) # Cardinality(Q) BY <1>3, <1>6
<1> QED BY <1>6, <1>7, <1>8, <1>9

LEMMA RankOnto ==
  ASSUME NEW t \in SUBSET Row, IsFiniteSet(t), UniqueKey(t), NEW i \in 1 .. Cardinality(t)
  PROVE  \E r \in t : Rank(t, r) = i
<1> DEFINE n == Cardinality(t)
           f == [r \in t |-> Rank(t, r)]
<1>1. n \in Nat BY FS_CardinalityType
<1>2. IsFiniteSet(1 .. n) /\ Cardinality(1 .. n) = n BY <1>1, FS_Interval
<1>3. f \in [t -> 1 .. n] BY RankType
<1>4. ASSUME NEW r \in t, NEW q \in t, f[r] = f[q] PROVE r = q
  <2>1. r[Key] \in Int /\ q[Key] \in Int BY FieldsAssumption, NumbersAssumption DEF Row
  <2>2. Rank(t, r) = Rank(t, q) /\ Rank(t, r) \in Int BY <1>4, RankType
  <2>3. ~(r[Key] < q[Key]) BY <2>2, RankMonotone
  <2>4. ~(q[Key] < r[Key]) BY <2>2, RankMonotone
  <2>5. r[Key] = q[Key] BY <2>1, <2>3, <2>4
  <2> QED BY <2>5 DEF UniqueKey
<1>5. f \in Injection(t, 1 .. n) BY <1>3, <1>4 DEF Injection, IsInjective
<1>6. f \in Surjection(t, 1 .. n) BY <1>2, <1>5, FS_Injection
<1> QED BY <1>6 DEF Surjection

LEMMA SortedAt ==
  ASSUME NEW t \in SUBSET Row, IsFiniteSet(t), UniqueKey(t), NEW i \in 1 .. Cardinality(t)
  PROVE  Sorted(t)[i] \in t /\ Rank(t, Sorted(t)[i]) = i
BY RankOnto DEF Sorted

LEMMA SortedRank ==
  ASSUME NEW t \in SUBSET Row, IsFiniteSet(t), UniqueKey(t), NEW r \in t
  PROVE  Sorted(t)[Rank(t, r)] = r
<1> DEFINE i == Rank(t, r)
           q == Sorted(t)[i]
<1>1. i \in 1 .. Cardinality(t) BY RankType
<1>2. q \in t /\ Rank(t, q) = i BY <1>1, SortedAt
<1>3. r[Key] \in Int /\ q[Key] \in Int BY <1>2, FieldsAssumption, NumbersAssumption DEF Row
<1>4. i \in Int BY <1>1
<1> HIDE DEF q
<1>5. ~(r[Key] < q[Key]) BY <1>2, <1>4, RankMonotone
<1>6. ~(q[Key] < r[Key]) BY <1>2, <1>4, RankMonotone
<1>7. r = q BY <1>2, <1>3, <1>5, <1>6 DEF UniqueKey
<1> QED BY <1>7 DEF q

LEMMA OffsetType ==
  ASSUME NEW p \in Int, NEW n \in Int PROVE Offset(p, n) \in Nat
<1> DEFINE x == (p - 1) * n
<1>1. x \in Int OBVIOUS
<1>2. AsInt(x) \in Int
  <2> HIDE DEF x
  <2> QED BY <1>1, NumbersAssumption DEF AsInt
<1> HIDE DEF x
<1> QED BY <1>2 DEF Offset, x

LEMMA SortedType ==
  ASSUME NEW t \in SUBSET Row, IsFiniteSet(t), UniqueKey(t)
  PROVE  Sorted(t) \in Seq(t) /\ Len(Sorted(t)) = Cardinality(t)
<1> DEFINE C == Cardinality(t)
<1>1. C \in Nat BY FS_CardinalityType
<1>2. \A i \in 1 .. C : Sorted(t)[i] \in t BY SortedAt
<1>3. Sorted(t) = [i \in 1 .. C |-> Sorted(t)[i]] BY DEF Sorted
<1> HIDE DEF C
<1>4. Sorted(t) \in Seq(t) /\ Len(Sorted(t)) = C BY <1>1, <1>2, <1>3
<1> QED BY <1>4 DEF C

(* Whatever order the server chooses, it returns each row once.            *)
LEMMA OrdersType ==
  ASSUME NEW t \in SUBSET Row, IsFiniteSet(t), UniqueKey(t), NEW spec, NEW s \in Orders(t, spec)
  PROVE  /\ s \in Seq(t) /\ Len(s) = Cardinality(t)
         /\ \A i, j \in 1 .. Len(s) : s[i] = s[j] => i = j
         /\ ByKey(spec) => s = Sorted(t)
<1>1. Cardinality(t) \in Nat BY FS_CardinalityType
<1>2. CASE ByKey(spec)
  <2>1. s = Sorted(t) BY <1>2 DEF Orders
  <2>2. \A i, j \in 1 .. Cardinality(t) : Sorted(t)[i] = Sorted(t)[j] => i = j BY SortedAt
  <2> QED BY <2>1, <2>2, SortedType
<1>3. CASE ~ByKey(spec)
  <2>1. /\ s \in [1 .. Cardinality(t) -> t]
        /\ \A i, j \in 1 .. Cardinality(t) : s[i] = s[j] => i = j
    BY <1>3 DEF Orders
  <2>2. s \in Seq(t) /\ Len(s) = Cardinality(t) BY <1>1, <2>1
  <2> QED BY <1>3, <2>1, <2>2
<1> QED BY <1>2, <1>3

LEMMA PageOfType ==
  ASSUME NEW t \in SUBSET Row, NEW s \in Seq(t), NEW p \in Int, NEW n \in Int
  PROVE  PageOf(s, p, n) \in Seq(Row)
<1> DEFINE C == Len(s)
           from == Offset(p, n)
           left == C - from
           m == IF left < 0 THEN 0 ELSE IF left < n THEN left ELSE n
<1>1. C \in Nat /\ from \in Nat
  <2>1. C \in Nat OBVIOUS
  <2>2. from \in Nat BY OffsetType
  <2> QED BY <2>1, <2>2
<1>2. \A i \in 1 .. C : s[i] \in Row OBVIOUS
<1>3. CASE n <= 0
  <2>1. PageOf(s, p, n) = s BY <1>3 DEF PageOf
  <2>2. s = [i \in 1 .. C |-> s[i]] OBVIOUS
  <2> HIDE DEF C
  <2> QED BY <1>1, <1>2, <2>1, <2>2
<1>4. CASE n > 0
  <2>1. PageOf(s, p, n) = [i \in 1 .. m |-> s[from + i]] BY <1>4 DEF PageOf
  <2> HIDE DEF C, from
  <2>2. m \in Nat /\ \A i \in 1 .. m : from + i \in 1 .. C BY <1>1, <1>4
  <2> HIDE DEF m
  <2>3. \A i \in 1 .. m : s[from + i] \in Row BY <1>2, <2>2
  <2> QED BY <2>1, <2>2, <2>3
<1> QED BY <1>3, <1>4

-----------------------------------------------------------------------------
(* A page in range holds the rows whose ranks fall in it.                  *)

LEMMA AsIntSmall ==
  ASSUME NEW x \in 0 .. IntMax PROVE AsInt(x) = x
<1> DEFINE m == IntMax + 1
           y == x + IntMax + 1
<1>1. m \in Nat \ {0} /\ y \in Nat /\ y < 2 * m BY NumbersAssumption
<1>2. y % (2 * m) = y BY <1>1
<1> QED BY <1>2, NumbersAssumption DEF AsInt

LEMMA OffsetSmall ==
  ASSUME NEW p \in Nat \ {0}, NEW n \in Nat \ {0}, p * n <= IntMax
  PROVE  Offset(p, n) = (p - 1) * n /\ (p - 1) * n \in Nat /\ p * n = (p - 1) * n + n
<1> DEFINE x == (p - 1) * n
<1>1. x \in Nat /\ p * n = x + n OBVIOUS
<1>2. x \in 0 .. IntMax BY <1>1, NumbersAssumption
<1> HIDE DEF x
<1>3. AsInt(x) = x BY <1>2, AsIntSmall
<1>4. Offset(p, n) = x BY <1>2, <1>3 DEF Offset, x
<1> QED BY <1>1, <1>4 DEF x

LEMMA PageMeans ==
  ASSUME NEW t \in SUBSET Row, IsFiniteSet(t), UniqueKey(t),
         NEW p \in Nat \ {0}, NEW n \in Nat \ {0}, p * n <= IntMax,
         NEW its, its = PageOf(Sorted(t), p, n)
  PROVE  /\ Listed(its) = {r \in t : (p - 1) * n < Rank(t, r) /\ Rank(t, r) <= p * n}
         /\ \A i, j \in DOMAIN its : i < j => its[i][Key] < its[j][Key]
         /\ HasNextPage(p, n, Cardinality(t)) <=> \E r \in t : Rank(t, r) > p * n
<1> DEFINE C == Cardinality(t)
           from == Offset(p, n)
           to == p * n
           left == C - from
           m == IF left < 0 THEN 0 ELSE IF left < n THEN left ELSE n
<1>1. C \in Nat BY FS_CardinalityType
<1>2. from = (p - 1) * n /\ from \in Nat /\ to = from + n BY OffsetSmall
<1>3. its = [i \in 1 .. m |-> Sorted(t)[from + i]]
  <2>1. Len(Sorted(t)) = C BY SortedType
  <2> QED BY <2>1 DEF PageOf
<1>4. \A i \in 1 .. C : Sorted(t)[i] \in t /\ Rank(t, Sorted(t)[i]) = i BY SortedAt
<1>5. \A r \in t : Rank(t, r) \in 1 .. C /\ Sorted(t)[Rank(t, r)] = r BY RankType, SortedRank
<1>6. to \in 0 .. IntMax BY <1>2, NumbersAssumption
<1>7. AsInt(to) = to BY <1>6, AsIntSmall
<1>8. HasNextPage(p, n, C) <=> to < C BY <1>7 DEF HasNextPage
<1> HIDE DEF C, from, to
<1>9. m \in Nat /\ (\A i \in 1 .. m : from + i \in 1 .. C /\ from < from + i /\ from + i <= to)
      /\ \A i \in 1 .. C : from < i /\ i <= to => i - from \in 1 .. m /\ from + (i - from) = i
  BY <1>1, <1>2
<1> HIDE DEF m
<1>10. DOMAIN its = 1 .. m /\ \A i \in 1 .. m : its[i] = Sorted(t)[from + i] BY <1>3
<1>11. \A i \in 1 .. m : its[i] \in t /\ Rank(t, its[i]) = from + i BY <1>4, <1>9, <1>10
<1>12. Listed(its) = {r \in t : from < Rank(t, r) /\ Rank(t, r) <= to}
  <2>1. ASSUME NEW r \in Listed(its) PROVE r \in t /\ from < Rank(t, r) /\ Rank(t, r) <= to
    <3>1. PICK i \in 1 .. m : r = its[i] BY <1>10, <2>1 DEF Listed
    <3> QED BY <1>9, <1>11, <3>1
  <2>2. ASSUME NEW r \in t, from < Rank(t, r), Rank(t, r) <= to PROVE r \in Listed(its)
    <3> DEFINE i == Rank(t, r)
    <3>1. i \in 1 .. C /\ Sorted(t)[i] = r BY <1>5
    <3>2. i - from \in 1 .. m /\ from + (i - from) = i BY <1>9, <2>2, <3>1
    <3>3. its[i - from] = r BY <1>10, <3>1, <3>2
    <3> QED BY <1>10, <3>2, <3>3 DEF Listed
  <2> QED BY <2>1, <2>2
<1>13. ASSUME NEW i \in DOMAIN its, NEW j \in DOMAIN its, i < j PROVE its[i][Key] < its[j][Key]
  <2>1. its[i] \in t /\ its[j] \in t /\ Rank(t, its[i]) < Rank(t, its[j])
    BY <1>2, <1>9, <1>10, <1>11, <1>13
  <2>2. its[i][Key] \in Int /\ its[j][Key] \in Int
    BY <2>1, FieldsAssumption, NumbersAssumption DEF Row
  <2>3. Rank(t, its[i]) \in Int /\ Rank(t, its[j]) \in Int BY <1>5, <2>1
  <2>4. ~(its[j][Key] < its[i][Key]) BY <2>1, <2>3, RankMonotone
  <2>5. its[i][Key] # its[j][Key] BY <2>1, <2>3 DEF UniqueKey
  <2> QED BY <2>2, <2>4, <2>5
<1>14. to < C <=> \E r \in t : Rank(t, r) > to
  <2>1. ASSUME to < C PROVE \E r \in t : Rank(t, r) > to
    <3>1. C \in 1 .. C BY <1>1, <1>2, <2>1
    <3>2. Sorted(t)[C] \in t /\ Rank(t, Sorted(t)[C]) = C BY <1>4, <3>1
    <3> QED BY <1>1, <1>2, <2>1, <3>2
  <2>2. ASSUME NEW r \in t, Rank(t, r) > to PROVE to < C
    <3>1. Rank(t, r) \in 1 .. C BY <1>5
    <3> QED BY <1>1, <1>2, <2>2, <3>1
  <2> QED BY <2>1, <2>2
<1> QED BY <1>2, <1>8, <1>12, <1>13, <1>14 DEF C, to

(* How many rows of C a page holds.                                        *)
Held(C, p, n) ==
  LET left == C - (p - 1) * n IN IF left < 0 THEN 0 ELSE IF left < n THEN left ELSE n

(* Whatever the order, that many different ones.                           *)
LEMMA PageSize ==
  ASSUME NEW t, NEW s \in Seq(t), \A i, j \in 1 .. Len(s) : s[i] = s[j] => i = j,
         NEW p \in Nat \ {0}, NEW n \in Nat \ {0}, p * n <= IntMax
  PROVE  /\ Listed(PageOf(s, p, n)) \subseteq t
         /\ Cardinality(Listed(PageOf(s, p, n))) = Held(Len(s), p, n)
<1> DEFINE C == Len(s)
           from == Offset(p, n)
           left == C - from
           m == IF left < 0 THEN 0 ELSE IF left < n THEN left ELSE n
           its == PageOf(s, p, n)
<1>1. C \in Nat /\ from = (p - 1) * n /\ from \in Nat BY OffsetSmall
<1>2. its = [i \in 1 .. m |-> s[from + i]] BY DEF PageOf
<1>3. \A i \in 1 .. C : s[i] \in t OBVIOUS
<1>4. \A i, j \in 1 .. C : s[i] = s[j] => i = j OBVIOUS
<1> HIDE DEF C, from, its
<1>5. m \in Nat /\ \A i \in 1 .. m : from + i \in 1 .. C BY <1>1
<1> HIDE DEF m
<1>6. DOMAIN its = 1 .. m /\ \A i \in 1 .. m : its[i] = s[from + i] BY <1>2
<1>7. Listed(its) \subseteq t BY <1>3, <1>5, <1>6 DEF Listed
<1>8. \A i, j \in 1 .. m : its[i] = its[j] => i = j
  <2> SUFFICES ASSUME NEW i \in 1 .. m, NEW j \in 1 .. m, its[i] = its[j] PROVE i = j
    OBVIOUS
  <2>1. s[from + i] = s[from + j] BY <1>6
  <2>2. from + i = from + j BY <1>4, <1>5, <2>1
  <2> QED BY <1>1, <2>2
<1>9. its \in Bijection(1 .. m, Listed(its))
  <2>1. its \in [1 .. m -> Listed(its)] BY <1>2, <1>6 DEF Listed
  <2>2. \A r \in Listed(its) : \E i \in 1 .. m : its[i] = r BY <1>6 DEF Listed
  <2> QED BY <1>8, <2>1, <2>2 DEF Bijection, Injection, Surjection, IsInjective
<1>10. Cardinality(Listed(its)) = m
  BY <1>5, <1>9, FS_CountingElements DEF ExistsBijection
<1>11. Held(C, p, n) = m BY <1>1 DEF Held, m
<1> QED BY <1>7, <1>10, <1>11 DEF C, its

-----------------------------------------------------------------------------
(* The pages of a walk follow each other.                                  *)

(* The first m rows.                                                       *)
First(t, m) == [i \in 1 .. m |-> Sorted(t)[i]]

LEMMA Multiples ==
  ASSUME NEW a \in Nat, NEW b \in Nat, NEW n \in Nat, a <= b PROVE a * n <= b * n
<1>1. PICK d \in Nat : b = a + d
  <2>1. b - a \in Nat /\ b = a + (b - a) OBVIOUS
  <2> QED BY <2>1
<1>2. b * n = a * n + d * n /\ a * n \in Nat /\ d * n \in Nat BY <1>1
<1> QED BY <1>2

(* A page that begins before the last row ends at an int.                  *)
LEMMA WalkInRange ==
  ASSUME NEW t, Cardinality(t) \in Nat, NEW p \in Nat \ {0}, NEW n \in Nat \ {0},
         LastPageFits(t, n), p = 1 \/ (p - 1) * n < Cardinality(t)
  PROVE  p * n <= IntMax
<1>1. PICK l \in 1 .. IntMax : Cardinality(t) <= l * n /\ l * n <= IntMax BY DEF LastPageFits
<1>2. l \in Nat /\ l >= 1 /\ l * n \in Nat /\ IntMax \in Nat BY <1>1, NumbersAssumption
<1>3. p <= l
  <2>1. SUFFICES ASSUME l <= p - 1 PROVE FALSE BY <1>2
  <2>2. p - 1 \in Nat /\ p # 1 BY <1>2, <2>1
  <2>3. l * n <= (p - 1) * n BY <1>2, <2>1, <2>2, Multiples
  <2>4. (p - 1) * n \in Nat BY <2>2
  <2> QED BY <1>1, <1>2, <2>2, <2>3, <2>4
<1>4. p * n <= l * n /\ p * n \in Nat BY <1>2, <1>3, Multiples
<1> QED BY <1>1, <1>2, <1>4

(* The rows before a page, and then the page.                              *)
LEMMA PageExtends ==
  ASSUME NEW t \in SUBSET Row, IsFiniteSet(t), UniqueKey(t),
         NEW p \in Nat \ {0}, NEW n \in Nat \ {0}, p * n <= IntMax,
         p = 1 \/ (p - 1) * n < Cardinality(t)
  PROVE  First(t, (p - 1) * n) \o PageOf(Sorted(t), p, n)
           = First(t, IF p * n < Cardinality(t) THEN p * n ELSE Cardinality(t))
<1> DEFINE C == Cardinality(t)
           from == Offset(p, n)
           to == p * n
           left == C - from
           m == IF left < 0 THEN 0 ELSE IF left < n THEN left ELSE n
           all == IF to < C THEN to ELSE C
           S == Sorted(t)
<1>1. C \in Nat BY FS_CardinalityType
<1>2. from = (p - 1) * n /\ from \in Nat /\ to = from + n BY OffsetSmall
<1>3. PageOf(Sorted(t), p, n) = [i \in 1 .. m |-> S[from + i]]
  <2>1. Len(Sorted(t)) = C BY SortedType
  <2> QED BY <2>1 DEF PageOf
<1>4. from <= C
  <2>1. CASE p = 1 BY <1>1, <1>2, <2>1
  <2>2. CASE (p - 1) * n < C BY <1>1, <1>2, <2>2
  <2> QED BY <2>1, <2>2
<1>5. First(t, (p - 1) * n) = [i \in 1 .. from |-> S[i]] BY <1>2 DEF First
<1>6. First(t, all) = [i \in 1 .. all |-> S[i]] BY DEF First
<1>7. \A i \in 1 .. C : S[i] \in Row BY SortedAt
<1> HIDE DEF C, from, to, S
<1>8. m \in Nat /\ all = from + m /\ from + m <= C BY <1>1, <1>2, <1>4
<1> HIDE DEF m, all
<1> DEFINE a == [i \in 1 .. from |-> S[i]]
           b == [i \in 1 .. m |-> S[from + i]]
<1>9. a \in Seq(Row) /\ Len(a) = from BY <1>1, <1>2, <1>7, <1>8
<1>10. b \in Seq(Row) /\ Len(b) = m BY <1>1, <1>2, <1>7, <1>8
<1>11. a \o b = [i \in 1 .. from + m |-> S[i]]
  <2>1. \A i \in 1 .. from : a[i] = S[i] OBVIOUS
  <2>2. \A i \in 1 .. m : b[i] = S[from + i] OBVIOUS
  <2> HIDE DEF a, b
  <2>3. /\ a \o b \in Seq(Row) /\ Len(a \o b) = from + m
        /\ \A i \in 1 .. from + m : (a \o b)[i] = IF i <= from THEN a[i] ELSE b[i - from]
    BY <1>9, <1>10, ConcatProperties
  <2> DEFINE w == a \o b
  <2> HIDE DEF w
  <2>4. ASSUME NEW i \in 1 .. from + m PROVE w[i] = S[i]
    <3>1. CASE i <= from
      <4>1. i \in 1 .. from BY <1>2, <3>1
      <4> QED BY <2>1, <2>3, <3>1, <4>1 DEF w
    <3>2. CASE ~(i <= from)
      <4>1. i - from \in 1 .. m /\ from + (i - from) = i BY <1>2, <1>8, <3>2
      <4>2. b[i - from] = S[i] BY <2>2, <4>1
      <4> QED BY <2>3, <3>2, <4>2 DEF w
    <3> QED BY <3>1, <3>2
  <2>5. w = [i \in 1 .. from + m |-> w[i]]
    <3>1. w \in Seq(Row) /\ Len(w) = from + m BY <2>3 DEF w
    <3>2. w = [i \in 1 .. Len(w) |-> w[i]] BY <3>1
    <3> QED BY <3>1, <3>2
  <2>6. [i \in 1 .. from + m |-> w[i]] = [i \in 1 .. from + m |-> S[i]] BY <2>4
  <2> QED BY <2>5, <2>6 DEF w
<1> HIDE DEF a, b
<1>12. First(t, (p - 1) * n) \o PageOf(Sorted(t), p, n) = First(t, all)
  BY <1>3, <1>5, <1>6, <1>8, <1>11 DEF a, b
<1> QED BY <1>12 DEF all, to, C

LEMMA FirstAll == ASSUME NEW t PROVE First(t, Cardinality(t)) = Sorted(t)
BY DEF First, Sorted

-----------------------------------------------------------------------------
(* The inductive invariant.                                                *)

CallInv(c) ==
  /\ pc[c] # "idle" => call[c] \in Menu /\ stmt[c] = Statement(call[c])
  /\ pc[c] = "run" => stmt[c] # Invalid /\ call[c].op # "paginate"
  /\ pc[c] \in {"count", "page", "next"} => call[c].op = "paginate"
  /\ pc[c] # "done" => answer[c] = "none"

PageInv(c) ==
  /\ calm[c] /\ pc[c] \in {"page", "next"} => total[c] = Cardinality(table)
  /\ calm[c] /\ pc[c] = "next" =>
       \E s \in Orders(table, call[c].where) : items[c] = PageOf(s, page[c], call[c].size)

RetryInv(c) ==
  calm[c] /\ pc[c] # "idle" /\ call[c].op \in Writes =>
    \/ table = Meaning(origin[c], call[c])
    \/ table = origin[c] /\ answer[c] # "ok"

(* An ordered walk from the first page on that nobody disturbs and that    *)
(* fits.                                                                   *)
Walking(c) ==
  /\ calm[c] /\ pc[c] # "idle" /\ call[c].op = "paginate" /\ call[c].walk /\ call[c].page = 1
  /\ ByKey(call[c].where) /\ call[c].size > 0 /\ LastPageFits(table, call[c].size)

(* It has seen the rows before the page that it is at.                     *)
WalkInv(c) ==
  LET p == page[c]  n == call[c].size  rows == Cardinality(table)
  IN  /\ pc[c] = "idle" => seen[c] = << >>
      /\ Walking(c) /\ pc[c] \in {"count", "page"} =>
           /\ p > 0 /\ (p = 1 \/ (p - 1) * n < rows)
           /\ seen[c] = First(table, (p - 1) * n)
      /\ Walking(c) /\ pc[c] = "next" =>
           /\ p > 0 /\ p * n <= IntMax
           /\ seen[c] = First(table, IF p * n < rows THEN p * n ELSE rows)
      /\ Walking(c) /\ answer[c] = "ok" => seen[c] = Sorted(table)

Shape ==
  /\ IsFiniteSet(table)
  /\ DOMAIN stmt = Clients /\ DOMAIN items = Clients /\ DOMAIN seen = Clients

IndInv ==
  /\ TypeOK /\ Shape
  /\ \A c \in Clients : CallInv(c) /\ PageInv(c) /\ RetryInv(c) /\ WalkInv(c)

LEMMA InitInv == Init => IndInv
<1> SUFFICES ASSUME Init PROVE IndInv OBVIOUS
<1>1. table \subseteq Row /\ UniqueKey(table) /\ IsFiniteSet(table)
  BY TablesAssumption DEF Init
<1>2. TypeOK BY <1>1, NumbersAssumption DEF Init, TypeOK
<1>3. Shape BY <1>1 DEF Init, Shape
<1>4. \A c \in Clients : CallInv(c) /\ PageInv(c) /\ RetryInv(c) /\ WalkInv(c)
  BY DEF Init, CallInv, PageInv, RetryInv, Walking, WalkInv
<1> QED BY <1>2, <1>3, <1>4 DEF IndInv

(* What the server makes of the statement of a write in progress.          *)
LEMMA EffectMeans ==
  ASSUME IndInv, NEW c \in Clients, pc[c] = "run"
  PROVE  /\ call[c].op \in Writes => Effect(c) = Meaning(table, call[c])
         /\ call[c].op \notin Writes => Effect(c) = table
         /\ Effect(c) \in SUBSET Row /\ IsFiniteSet(Effect(c))
<1>1. /\ call[c] \in Menu /\ stmt[c] = Statement(call[c]) /\ stmt[c] # Invalid
      /\ table \in SUBSET Row /\ IsFiniteSet(table)
  BY DEF IndInv, CallInv, TypeOK, Shape
<1>2. CASE call[c].op = "upsert"
  <2>1. Effect(c) = RunUpsert(table, stmt[c]) BY <1>2 DEF Effect
  <2>2. Effect(c) = Meaning(table, call[c]) BY <1>1, <1>2, <2>1, UpsertMeans
  <2> QED BY <1>1, <1>2, <2>2, MeaningType, MeaningFinite DEF Writes
<1>3. CASE call[c].op = "ignore"
  <2>1. Effect(c) = RunUpsert(table, stmt[c]) BY <1>3 DEF Effect
  <2>2. Effect(c) = Meaning(table, call[c]) BY <1>1, <1>3, <2>1, IgnoreMeans
  <2> QED BY <1>1, <1>3, <2>2, MeaningType, MeaningFinite DEF Writes
<1>4. CASE call[c].op = "update"
  <2>1. Effect(c) = RunUpdate(table, stmt[c]) BY <1>4 DEF Effect
  <2>2. Effect(c) = Meaning(table, call[c]) BY <1>1, <1>4, <2>1, UpdateMeans
  <2> QED BY <1>1, <1>4, <2>2, MeaningType, MeaningFinite DEF Writes
<1>5. CASE call[c].op \notin Writes
  <2>1. Effect(c) = table BY <1>5 DEF Effect, Writes
  <2> QED BY <1>1, <1>5, <2>1
<1> QED BY <1>2, <1>3, <1>4, <1>5 DEF Writes

-----------------------------------------------------------------------------
(* Every step keeps it.                                                    *)

(* A client whose own state stays as it is, on a table that does.          *)
LEMMA WalkFrame ==
  ASSUME NEW c \in Clients, WalkInv(c),
         calm[c]' => calm[c] /\ table' = table,
         pc[c]' = pc[c], call[c]' = call[c], answer[c]' = answer[c],
         page[c]' = page[c], seen[c]' = seen[c]
  PROVE  WalkInv(c)'
<1>1. CASE calm[c]' BY <1>1 DEF WalkInv, Walking, LastPageFits, First, Sorted, Rank
<1>2. CASE ~calm[c]' BY <1>2 DEF WalkInv, Walking
<1> QED BY <1>1, <1>2

(* A call that ends without having answered its last page.                 *)
LEMMA WalkStops ==
  ASSUME NEW c \in Clients, pc[c]' = "done", answer[c]' # "ok" PROVE WalkInv(c)'
BY DEF WalkInv

LEMMA StartInv ==
  ASSUME IndInv, NEW c \in Clients, NEW k \in Menu, Start(c, k) PROVE IndInv'
<1> USE DEF IndInv
<1>1. TypeOK'
  <2>1. k.op = "paginate" => k.page \in Int BY PagesAssumption
  <2>2. table' \subseteq Row /\ UniqueKey(table)' BY DEF Start, TypeOK, UniqueKey
  <2>3. call' \in [Clients -> Menu \cup {NoCall}] /\ attempts' \in [Clients -> 0 .. MaxCount]
        /\ pc' \in [Clients -> {"idle", "run", "count", "page", "next", "done"}]
    BY DEF Start, TypeOK, Goto, Answer
  <2>4. answer' \in [Clients -> {"none", "ok", "error", "invalid"}]
        /\ page' \in [Clients -> Int] /\ total' \in [Clients -> Nat]
    BY <2>1 DEF Start, TypeOK, Goto, Answer
  <2>5. \A d \in Clients : items'[d] \in Seq(Row) /\ seen'[d] \in Seq(Row) BY DEF Start, TypeOK
  <2>6. origin' \in [Clients -> SUBSET Row] BY DEF Start, TypeOK
  <2>7. calm' \in [Clients -> BOOLEAN] BY DEF Start, TypeOK
  <2> QED BY <2>2, <2>3, <2>4, <2>5, <2>6, <2>7 DEF TypeOK
<1>2. Shape' BY DEF Start, Shape
<1>3. ASSUME NEW d \in Clients PROVE CallInv(d)' BY DEF Start, CallInv, Goto, Answer, TypeOK, Shape
<1>4. ASSUME NEW d \in Clients PROVE PageInv(d)'
  <2>1. CASE d = c BY <2>1 DEF Start, PageInv, Goto, Answer, TypeOK
  <2>2. CASE d # c BY <2>2 DEF Start, PageInv, Goto, Answer, TypeOK
  <2> QED BY <2>1, <2>2
<1>5. ASSUME NEW d \in Clients PROVE RetryInv(d)'
  <2>1. CASE d = c
    <3>1. answer[c] = "none" BY DEF Start, CallInv
    <3>2. answer'[c] # "ok" BY <3>1 DEF Start, Goto, Answer, TypeOK
    <3>3. call'[c] = k /\ table' = table BY DEF Start, TypeOK
    <3>4. k.op \in Writes => origin'[c] = table BY DEF Start, TypeOK
    <3> QED BY <2>1, <3>2, <3>3, <3>4 DEF RetryInv
  <2>2. CASE d # c BY <2>2 DEF Start, RetryInv, Goto, Answer, TypeOK
  <2> QED BY <2>1, <2>2
<1>6. ASSUME NEW d \in Clients PROVE WalkInv(d)'
  <2>1. CASE d = c
    <3>1. seen[c]' = << >> BY DEF Start, WalkInv
    <3>2. answer[c]' # "ok" BY DEF Start, CallInv, Goto, Answer, TypeOK
    <3>3. pc[c]' \in {"run", "done"} \/ (pc[c]' = "count" /\ k.op = "paginate" /\ page[c]' = k.page /\ call[c]' = k)
      BY DEF Start, Goto, Answer, TypeOK
    <3>4. CASE pc[c]' \in {"run", "done"} BY <2>1, <3>2, <3>4 DEF WalkInv
    <3>5. CASE pc[c]' = "count" /\ k.op = "paginate" /\ page[c]' = k.page /\ call[c]' = k
      <4>1. k.size \in Int BY <3>5, PagesAssumption
      <4>2. (1 - 1) * k.size = 0 BY <4>1
      <4>3. First(table', 0) = << >> BY DEF First
      <4> QED BY <2>1, <3>1, <3>2, <3>5, <4>2, <4>3 DEF WalkInv, Walking
    <3> QED BY <3>3, <3>4, <3>5
  <2>2. CASE d # c BY <2>2, WalkFrame DEF Start, Goto, Answer, TypeOK, Shape
  <2> QED BY <2>1, <2>2
<1> QED BY <1>1, <1>2, <1>3, <1>4, <1>5, <1>6

LEMMA RetriesBounded ==
  ASSUME attempts \in [Clients -> 0 .. MaxCount], NEW c \in Clients, RetryOrGiveUp(c)
  PROVE  attempts' \in [Clients -> 0 .. MaxCount]
<1>1. attempts[c] \in 0 .. MaxCount /\ MaxCount \in Nat BY NumbersAssumption
<1>2. CASE attempts[c] < MaxCount /\ attempts' = [attempts EXCEPT ![c] = attempts[c] + 1]
  <2>1. attempts[c] + 1 \in 0 .. MaxCount BY <1>1, <1>2
  <2> QED BY <1>2, <2>1
<1>3. CASE attempts' = attempts BY <1>3
<1> QED BY <1>2, <1>3 DEF RetryOrGiveUp

(* An attempt that leaves the table alone.                                 *)
LEMMA FailedInv ==
  ASSUME IndInv, NEW c \in Clients, Failed(c) PROVE IndInv'
<1> USE DEF IndInv
<1>1. TypeOK'
  <2>1. RetryOrGiveUp(c) BY DEF Failed
  <2>2. attempts' \in [Clients -> 0 .. MaxCount]
    BY <2>1, RetriesBounded DEF TypeOK
  <2> QED BY <2>2 DEF Failed, reading, RetryOrGiveUp, Answer, Goto, TypeOK, UniqueKey
<1>2. Shape' BY DEF Failed, reading, Shape
<1>3. ASSUME NEW d \in Clients PROVE CallInv(d)'
  BY DEF Failed, reading, RetryOrGiveUp, Answer, Goto, CallInv, TypeOK
<1>4. ASSUME NEW d \in Clients PROVE PageInv(d)'
  BY DEF Failed, reading, RetryOrGiveUp, Answer, Goto, PageInv, TypeOK
<1>5. ASSUME NEW d \in Clients PROVE RetryInv(d)'
  BY DEF Failed, reading, RetryOrGiveUp, Answer, Goto, RetryInv, TypeOK
<1>6. ASSUME NEW d \in Clients PROVE WalkInv(d)'
  <2>1. \/ pc[d]' = pc[d] /\ answer[d]' = answer[d]
        \/ pc[d]' = "done" /\ answer[d]' = "error"
    BY DEF Failed, RetryOrGiveUp, Answer, Goto, TypeOK
  <2>2. CASE pc[d]' = pc[d] /\ answer[d]' = answer[d] BY <2>2, WalkFrame DEF Failed, reading
  <2>3. CASE pc[d]' = "done" /\ answer[d]' = "error" BY <2>3, WalkStops
  <2> QED BY <2>1, <2>2, <2>3
<1> QED BY <1>1, <1>2, <1>3, <1>4, <1>5, <1>6

LEMMA RejectedInv ==
  ASSUME IndInv, NEW c \in Clients, Rejected(c) PROVE IndInv'
<1> USE DEF IndInv
<1>1. TypeOK' BY DEF Rejected, reading, Answer, Goto, TypeOK, UniqueKey
<1>2. Shape' BY DEF Rejected, reading, Shape
<1>3. ASSUME NEW d \in Clients PROVE CallInv(d)'
  BY DEF Rejected, reading, Answer, Goto, CallInv, TypeOK
<1>4. ASSUME NEW d \in Clients PROVE PageInv(d)'
  BY DEF Rejected, reading, Answer, Goto, PageInv, TypeOK
<1>5. ASSUME NEW d \in Clients PROVE RetryInv(d)'
  BY DEF Rejected, reading, Answer, Goto, RetryInv, TypeOK
<1>6. ASSUME NEW d \in Clients PROVE WalkInv(d)'
  <2>1. CASE d = c BY <2>1, WalkStops DEF Rejected, Answer, Goto, TypeOK
  <2>2. CASE d # c BY <2>2, WalkFrame DEF Rejected, reading, Answer, Goto, TypeOK
  <2> QED BY <2>1, <2>2
<1> QED BY <1>1, <1>2, <1>3, <1>4, <1>5, <1>6

(* A statement that the server executes.                                   *)
LEMMA ExecuteInv ==
  ASSUME IndInv, NEW c \in Clients, Execute(c),
         \/ Answer(c, "ok") /\ UNCHANGED attempts
         \/ RetryOrGiveUp(c),
         UNCHANGED <<call, stmt, reading>>
  PROVE  IndInv'
<1> USE DEF IndInv
<1>1. pc[c] = "run" /\ table' = Effect(c) /\ UniqueKey(table') BY DEF Execute, Executable
<1>2. /\ call[c].op \in Writes => table' = Meaning(table, call[c])
      /\ call[c].op \notin Writes => table' = table
      /\ table' \in SUBSET Row /\ IsFiniteSet(table')
  BY <1>1, EffectMeans
<1>3. \/ pc' = pc /\ answer' = answer
      \/ /\ pc' = [pc EXCEPT ![c] = "done"]
         /\ \E a \in {"ok", "error"} : answer' = [answer EXCEPT ![c] = a]
  BY DEF RetryOrGiveUp, Answer, Goto
<1>4. call' = call /\ stmt' = stmt /\ page' = page /\ total' = total /\ items' = items
      /\ seen' = seen /\ origin' = origin
  BY DEF reading, Execute
<1>5. calm' \in [Clients -> BOOLEAN] /\ (\A d \in Clients : calm'[d] => calm[d])
      /\ \A d \in Clients : d # c /\ calm'[d] => table' = table
  <2>1. calm' = [d \in Clients |-> calm[d] /\ (d = c \/ Effect(c) = table)] BY DEF Execute
  <2>2. ASSUME NEW d \in Clients PROVE calm'[d] = (calm[d] /\ (d = c \/ Effect(c) = table)) BY <2>1
  <2> HIDE DEF IndInv
  <2> QED BY <1>1, <2>1, <2>2, Zenon
<1>6. TypeOK'
  <2>1. attempts' \in [Clients -> 0 .. MaxCount]
    BY RetriesBounded DEF TypeOK
  <2> QED BY <1>1, <1>2, <1>3, <1>4, <1>5, <2>1 DEF TypeOK
<1>7. Shape' BY <1>2, <1>4 DEF Shape
<1>8. ASSUME NEW d \in Clients PROVE CallInv(d)' BY <1>1, <1>3, <1>4 DEF CallInv, TypeOK
<1>9. ASSUME NEW d \in Clients PROVE PageInv(d)'
  <2>1. CASE d = c BY <1>1, <1>3, <2>1 DEF PageInv, TypeOK
  <2>2. CASE d # c BY <1>3, <1>4, <1>5, <2>2 DEF PageInv, TypeOK
  <2> QED BY <2>1, <2>2
<1>10. ASSUME NEW d \in Clients PROVE RetryInv(d)'
  <2>1. CASE d = c
    <3>1. SUFFICES ASSUME calm'[c], call[c].op \in Writes PROVE table' = Meaning(origin[c], call[c])
      BY <1>4, <2>1 DEF RetryInv
    <3>2. table = Meaning(origin[c], call[c]) \/ table = origin[c]
      BY <1>1, <1>5, <3>1 DEF RetryInv
    <3>3. call[c] \in Menu /\ origin[c] \in SUBSET Row BY <1>1 DEF CallInv, TypeOK
    <3> QED BY <1>2, <3>1, <3>2, <3>3, MeaningTwice
  <2>2. CASE d # c BY <1>3, <1>4, <1>5, <2>2 DEF RetryInv, TypeOK
  <2> QED BY <2>1, <2>2
<1>11. ASSUME NEW d \in Clients PROVE WalkInv(d)'
  <2>1. CASE d = c
    <3>1. call[c]' = call[c] /\ call[c].op # "paginate" /\ pc[c]' # "idle"
      BY <1>1, <1>3, <1>4 DEF CallInv, TypeOK
    <3> QED BY <2>1, <3>1 DEF WalkInv, Walking
  <2>2. CASE d # c BY <1>3, <1>4, <1>5, <2>2, WalkFrame DEF TypeOK
  <2> QED BY <2>1, <2>2
<1> QED BY <1>6, <1>7, <1>8, <1>9, <1>10, <1>11

LEMMA CountInv ==
  ASSUME IndInv, NEW c \in Clients, Count(c) PROVE IndInv'
<1> USE DEF IndInv
<1>1. Cardinality(table) \in Nat BY FS_CardinalityType DEF Shape
<1>2. \/ pc' = [pc EXCEPT ![c] = "page"] /\ answer' = answer
      \/ pc' = [pc EXCEPT ![c] = "done"] /\ answer' = [answer EXCEPT ![c] = "invalid"]
  BY DEF Count, Answer, Goto
<1>3. TypeOK'
  <2>1. attempts' \in [Clients -> 0 .. MaxCount] /\ total' \in [Clients -> Nat]
    BY <1>1, NumbersAssumption DEF Count, TypeOK
  <2> QED BY <1>2, <2>1 DEF Count, TypeOK, UniqueKey
<1>4. Shape' BY DEF Count, Shape
<1>5. ASSUME NEW d \in Clients PROVE CallInv(d)' BY <1>2 DEF Count, CallInv, TypeOK
<1>6. ASSUME NEW d \in Clients PROVE PageInv(d)'
  <2>1. CASE d = c BY <1>2, <2>1 DEF Count, PageInv, TypeOK
  <2>2. CASE d # c BY <1>2, <2>2 DEF Count, PageInv, TypeOK
  <2> QED BY <2>1, <2>2
<1>7. ASSUME NEW d \in Clients PROVE RetryInv(d)' BY <1>2 DEF Count, RetryInv, TypeOK
<1>8. ASSUME NEW d \in Clients PROVE WalkInv(d)'
  <2>1. CASE d = c /\ pc[c]' = "page"
    <3>1. UNCHANGED <<table, call, page, seen, calm>> /\ answer[c]' # "ok"
      BY <1>2, <2>1 DEF Count, CallInv, TypeOK
    <3>2. Walking(c)' => Walking(c) BY <3>1 DEF Walking, Count, LastPageFits
    <3>3. First(table, (page[c] - 1) * call[c].size)' = First(table, (page[c] - 1) * call[c].size)
      BY <3>1 DEF First, Sorted, Rank
    <3> QED BY <2>1, <3>1, <3>2, <3>3 DEF WalkInv, Count
  <2>2. CASE d = c /\ pc[c]' = "done" BY <1>2, <2>2, WalkStops DEF TypeOK
  <2>3. CASE d # c BY <1>2, <2>3, WalkFrame DEF Count, TypeOK
  <2> QED BY <1>2, <2>1, <2>2, <2>3 DEF TypeOK
<1> QED BY <1>3, <1>4, <1>5, <1>6, <1>7, <1>8

LEMMA ReadPageInv ==
  ASSUME IndInv, NEW c \in Clients, ReadPage(c) PROVE IndInv'
<1> USE DEF IndInv
<1>0. PICK s \in Orders(table, call[c].where) :
        /\ items' = [items EXCEPT ![c] = PageOf(s, page[c], call[c].size)]
        /\ seen' = [seen EXCEPT ![c] = @ \o PageOf(s, page[c], call[c].size)]
  BY DEF ReadPage
<1>a. s \in Seq(table) /\ (ByKey(call[c].where) => s = Sorted(table))
  <2>1. table \in SUBSET Row /\ IsFiniteSet(table) /\ UniqueKey(table) BY DEF TypeOK, Shape
  <2> QED BY <2>1, OrdersType
<1> DEFINE its == PageOf(s, page[c], call[c].size)
<1>1. /\ pc' = [pc EXCEPT ![c] = "next"] /\ items' = [items EXCEPT ![c] = its]
      /\ seen' = [seen EXCEPT ![c] = seen[c] \o its]
  BY <1>0 DEF ReadPage, Goto
<1>2. its \in Seq(Row)
  <2>1. call[c] \in Menu /\ call[c].op = "paginate" /\ page[c] \in Int
    BY DEF ReadPage, CallInv, TypeOK
  <2>2. call[c].size \in Int BY <2>1, PagesAssumption
  <2> QED BY <1>a, <2>1, <2>2, PageOfType DEF TypeOK
<1> HIDE DEF its
<1>3. TypeOK'
  <2>1. attempts' \in [Clients -> 0 .. MaxCount] BY NumbersAssumption DEF ReadPage, TypeOK
  <2>2. \A d \in Clients : items'[d] \in Seq(Row) /\ seen'[d] \in Seq(Row)
    BY <1>1, <1>2 DEF TypeOK, Shape
  <2> QED BY <1>1, <2>1, <2>2 DEF ReadPage, TypeOK, UniqueKey
<1>4. Shape' BY <1>1 DEF ReadPage, Shape
<1>5. ASSUME NEW d \in Clients PROVE CallInv(d)' BY <1>1 DEF ReadPage, CallInv, TypeOK
<1>6. ASSUME NEW d \in Clients PROVE PageInv(d)'
  <2>1. CASE d = c
    <3>1. items'[c] = its /\ UNCHANGED <<table, call, page, total, calm>> /\ pc[c] = "page"
      BY <1>1 DEF ReadPage, Shape
    <3>2. \E o \in Orders(table, call[c].where) : items'[c] = PageOf(o, page[c], call[c].size)
      BY <1>0, <3>1 DEF its
    <3>3. Orders(table, call[c].where)' = Orders(table, call[c].where)
      BY <3>1 DEF Orders, ByKey, Sorted, Rank
    <3> QED BY <2>1, <3>1, <3>2, <3>3 DEF PageInv
  <2>2. CASE d # c BY <1>1, <2>2 DEF ReadPage, PageInv, TypeOK, Shape
  <2> QED BY <2>1, <2>2
<1>7. ASSUME NEW d \in Clients PROVE RetryInv(d)' BY <1>1 DEF ReadPage, RetryInv, TypeOK
<1>8. ASSUME NEW d \in Clients PROVE WalkInv(d)'
  <2>1. CASE d = c
    <3> DEFINE p == page[c]
               n == call[c].size
               m == IF p * n < Cardinality(table) THEN p * n ELSE Cardinality(table)
    <3>1. UNCHANGED <<table, call, page, calm>> /\ pc[c]' = "next" /\ answer[c]' # "ok"
          /\ seen[c]' = seen[c] \o its
      BY <1>1 DEF ReadPage, CallInv, TypeOK, Shape
    <3>2. SUFFICES ASSUME Walking(c)' PROVE p > 0 /\ p * n <= IntMax /\ seen[c]' = First(table, m)'
      BY <2>1, <3>1 DEF WalkInv
    <3>3. Walking(c) BY <3>1, <3>2 DEF Walking, ReadPage, LastPageFits
    <3>4. p > 0 /\ (p = 1 \/ (p - 1) * n < Cardinality(table)) /\ seen[c] = First(table, (p - 1) * n)
      BY <3>3 DEF WalkInv, ReadPage
    <3>5. p \in Nat \ {0} /\ n \in Nat \ {0}
      <4>1. call[c] \in Menu /\ call[c].op = "paginate" /\ p \in Int /\ n > 0
        BY <3>3 DEF CallInv, TypeOK, Walking
      <4>2. n \in Int BY <4>1, PagesAssumption
      <4> QED BY <3>4, <4>1, <4>2
    <3>6. Cardinality(table) \in Nat /\ table \in SUBSET Row /\ IsFiniteSet(table) /\ UniqueKey(table)
      BY FS_CardinalityType DEF TypeOK, Shape
    <3>7. LastPageFits(table, n) BY <3>3 DEF Walking
    <3> HIDE DEF p, n
    <3>8. p * n <= IntMax BY <3>4, <3>5, <3>6, <3>7, WalkInRange
    <3>9. First(table, (p - 1) * n) \o PageOf(Sorted(table), p, n) = First(table, m)
      BY <3>4, <3>5, <3>6, <3>8, PageExtends
    <3>a. s = Sorted(table) BY <1>a, <3>3 DEF Walking
    <3>10. seen[c]' = First(table, m) BY <3>1, <3>4, <3>9, <3>a DEF its, p, n
    <3>11. First(table, m)' = First(table, m) BY <3>1 DEF First, Sorted, Rank, p, n
    <3> QED BY <3>4, <3>8, <3>10, <3>11
  <2>2. CASE d # c BY <1>1, <2>2, WalkFrame DEF ReadPage, TypeOK, Shape
  <2> QED BY <2>1, <2>2
<1> QED BY <1>3, <1>4, <1>5, <1>6, <1>7, <1>8

LEMMA NextPageInv ==
  ASSUME IndInv, NEW c \in Clients, NextPage(c) PROVE IndInv'
<1> USE DEF IndInv
<1>1. \/ /\ pc' = [pc EXCEPT ![c] = "count"] /\ answer' = answer
         /\ page' = [page EXCEPT ![c] = page[c] + 1]
      \/ /\ pc' = [pc EXCEPT ![c] = "done"] /\ answer' = [answer EXCEPT ![c] = "ok"]
         /\ page' = page
  BY DEF NextPage, Answer, Goto
<1>2. TypeOK'
  <2>1. page' \in [Clients -> Int]
    <3>1. page \in [Clients -> Int] /\ page[c] + 1 \in Int BY DEF TypeOK
    <3> QED BY <1>1, <3>1
  <2> QED BY <1>1, <2>1 DEF NextPage, TypeOK, UniqueKey
<1>3. Shape' BY DEF NextPage, Shape
<1>4. ASSUME NEW d \in Clients PROVE CallInv(d)' BY <1>1 DEF NextPage, CallInv, TypeOK
<1>5. ASSUME NEW d \in Clients PROVE PageInv(d)'
  <2>1. CASE d = c BY <1>1, <2>1 DEF NextPage, PageInv, TypeOK
  <2>2. CASE d # c BY <1>1, <2>2 DEF NextPage, PageInv, TypeOK
  <2> QED BY <2>1, <2>2
<1>6. ASSUME NEW d \in Clients PROVE RetryInv(d)'
  <2>1. CASE d = c
    <3>1. call[c].op = "paginate" /\ call' = call BY DEF NextPage, CallInv
    <3> QED BY <2>1, <3>1 DEF RetryInv, Writes
  <2>2. CASE d # c BY <1>1, <2>2 DEF NextPage, RetryInv, TypeOK
  <2> QED BY <2>1, <2>2
<1>7. ASSUME NEW d \in Clients PROVE WalkInv(d)'
  <2>1. CASE d = c
    <3> DEFINE p == page[c]
               n == call[c].size
               rows == Cardinality(table)
    <3>1. UNCHANGED <<table, call, seen, calm>> /\ pc[c] = "next" /\ pc[c]' \in {"count", "done"}
      BY <1>1 DEF NextPage, TypeOK
    <3>2. SUFFICES ASSUME Walking(c)' PROVE WalkInv(c)' BY <2>1, <3>1 DEF WalkInv
    <3>3. Walking(c) BY <3>1, <3>2 DEF Walking, LastPageFits
    <3>4. p > 0 /\ p * n <= IntMax /\ seen[c] = First(table, IF p * n < rows THEN p * n ELSE rows)
      BY <3>1, <3>3 DEF WalkInv
    <3>5. p \in Nat \ {0} /\ n \in Nat \ {0}
      <4>1. call[c] \in Menu /\ call[c].op = "paginate" /\ p \in Int /\ n > 0
        BY <3>3 DEF CallInv, TypeOK, Walking
      <4>2. n \in Int BY <4>1, PagesAssumption
      <4> QED BY <3>4, <4>1, <4>2
    <3>6. total[c] = rows /\ rows \in Nat
      BY <3>1, <3>3, FS_CardinalityType DEF Walking, PageInv, Shape
    <3>7. call[c].walk BY <3>3 DEF Walking
    <3> HIDE DEF p, n, rows
    <3>8. HasNextPage(p, n, rows) <=> p * n < rows
      <4>1. p * n \in 0 .. IntMax BY <3>4, <3>5, NumbersAssumption
      <4>2. AsInt(p * n) = p * n BY <4>1, AsIntSmall
      <4> QED BY <4>2 DEF HasNextPage
    <3>9. CASE p * n < rows
      <4>1. pc[c]' = "count" /\ page[c]' = p + 1 /\ answer[c]' # "ok"
        BY <3>1, <3>6, <3>7, <3>8, <3>9 DEF NextPage, Goto, CallInv, TypeOK, p, n
      <4>2. p + 1 > 0 /\ (p + 1) - 1 = p BY <3>5
      <4>3. seen[c] = First(table, p * n) BY <3>4, <3>9
      <4>4. seen[c]' = First(table', ((p + 1) - 1) * n) BY <3>1, <4>2, <4>3
      <4>5. ((p + 1) - 1) * n < rows BY <3>9, <4>2
      <4>6. rows' = rows /\ n' = n BY <3>1 DEF rows, n
      <4> QED BY <4>1, <4>2, <4>4, <4>5, <4>6 DEF WalkInv, rows, n
    <3>10. CASE ~(p * n < rows)
      <4>1. pc[c]' = "done" BY <3>1, <3>6, <3>7, <3>8, <3>10 DEF NextPage, Answer, Goto, TypeOK, p, n
      <4>2. seen[c] = First(table, rows) BY <3>4, <3>10
      <4>3. seen[c] = Sorted(table) BY <4>2, FirstAll DEF rows
      <4>4. Sorted(table)' = Sorted(table) BY <3>1 DEF Sorted, Rank
      <4>5. seen[c]' = Sorted(table)' BY <3>1, <4>3, <4>4
      <4> QED BY <4>1, <4>5 DEF WalkInv
    <3> QED BY <3>9, <3>10
  <2>2. CASE d # c BY <1>1, <2>2, WalkFrame DEF NextPage, TypeOK
  <2> QED BY <2>1, <2>2
<1> QED BY <1>2, <1>3, <1>4, <1>5, <1>6, <1>7

LEMMA StutterInv == ASSUME IndInv, UNCHANGED vars PROVE IndInv'
<1>1. TypeOK' /\ Shape' BY DEF IndInv, TypeOK, UniqueKey, Shape, vars, reading
<1>2. ASSUME NEW c \in Clients PROVE CallInv(c)' /\ PageInv(c)' /\ RetryInv(c)'
  BY DEF IndInv, CallInv, PageInv, RetryInv, vars, reading
<1>3. ASSUME NEW c \in Clients PROVE WalkInv(c)' BY WalkFrame DEF IndInv, vars, reading
<1> QED BY <1>1, <1>2, <1>3 DEF IndInv

LEMMA NextInv == IndInv /\ [Next]_vars => IndInv'
<1> SUFFICES ASSUME IndInv, [Next]_vars PROVE IndInv' OBVIOUS
<1>1. ASSUME NEW c \in Clients, Step(c) PROVE IndInv'
  <2>1. CASE Executed(c) BY <2>1, ExecuteInv DEF Executed
  <2>2. CASE ExecutedLost(c) BY <2>2, ExecuteInv DEF ExecutedLost
  <2>3. CASE Failed(c) BY <2>3, FailedInv
  <2>4. CASE Rejected(c) BY <2>4, RejectedInv
  <2>5. CASE Count(c) BY <2>5, CountInv
  <2>6. CASE ReadPage(c) BY <2>6, ReadPageInv
  <2>7. CASE NextPage(c) BY <2>7, NextPageInv
  <2> QED BY <1>1, <2>1, <2>2, <2>3, <2>4, <2>5, <2>6, <2>7 DEF Step
<1>2. ASSUME NEW c \in Clients, NEW k \in Menu, Start(c, k) PROVE IndInv' BY <1>2, StartInv
<1>3. CASE UNCHANGED vars BY <1>3, StutterInv
<1> QED BY <1>1, <1>2, <1>3 DEF Next, Finished

LEMMA Invariance == Spec => []IndInv
<1>1. IndInv /\ [Next]_vars => IndInv' BY NextInv
<1> QED BY <1>1, InitInv, PTL DEF Spec

-----------------------------------------------------------------------------
(* Theorems.                                                               *)

(* The table holds rows with a unique key, no statement is retried more    *)
(* than RetryMaxCount times and pages are sequences of rows, whatever the  *)
(* clients call.                                                           *)
THEOREM TypeCorrect == Spec => []TypeOK
<1>1. IndInv => TypeOK BY DEF IndInv
<1> QED BY <1>1, Invariance, PTL

(* Upsert, UpsertDoNothing and Update, for every struct and every list of  *)
(* columns: whenever the server executes one, its placeholders have the    *)
(* right arguments.                                                        *)
THEOREM AlwaysMean == Spec => StatementsMean
<1>1. ASSUME IndInv, NEW c \in Clients, Execute(c), call[c].op \in Writes
      PROVE  table' = Meaning(table, call[c])
  BY <1>1, EffectMeans DEF Execute
<1>2. IndInv /\ [Next]_vars =>
        [\A c \in Clients : Execute(c) /\ call[c].op \in Writes => table' = Meaning(table, call[c])]_vars
  BY <1>1
<1> QED BY <1>2, Invariance, PTL DEF Spec, StatementsMean

(* execWithRetry under Upsert, UpsertDoNothing and Update: any number of   *)
(* executions whose answers are lost has the effect of one.                *)
THEOREM AlwaysHarmless == Spec => []RetriesHarmless
<1>1. IndInv => RetriesHarmless BY DEF IndInv, RetryInv, RetriesHarmless
<1> QED BY <1>1, Invariance, PTL

(* Paginate and HasNextPage, for every page and size whose product is an   *)
(* int and every table that stays as it is meanwhile: the right number of  *)
(* rows in any order, and the right rows when OrderBy fixes it.            *)
THEOREM PagesAlwaysExact == Spec => []PageExact
<1>1. ASSUME IndInv, NEW c \in Clients, pc[c] = "next", calm[c], page[c] > 0, call[c].size > 0,
             page[c] * call[c].size <= IntMax
      PROVE  LET p == page[c]  n == call[c].size
                 within == {r \in table : (p - 1) * n < Rank(table, r) /\ Rank(table, r) <= p * n}
             IN  /\ Listed(items[c]) \subseteq table
                 /\ Cardinality(Listed(items[c])) = Cardinality(within)
                 /\ HasNextPage(p, n, total[c]) <=> \E r \in table : Rank(table, r) > p * n
                 /\ ByKey(call[c].where) =>
                      /\ Listed(items[c]) = within
                      /\ \A i, j \in DOMAIN items[c] : i < j => items[c][i][Key] < items[c][j][Key]
  <2>1. call[c] \in Menu /\ call[c].op = "paginate" /\ page[c] \in Int BY <1>1 DEF IndInv, CallInv, TypeOK
  <2>2. call[c].size \in Int BY <2>1, PagesAssumption
  <2>3. page[c] \in Nat \ {0} /\ call[c].size \in Nat \ {0} BY <1>1, <2>1, <2>2
  <2>4. table \in SUBSET Row /\ IsFiniteSet(table) /\ UniqueKey(table) BY <1>1 DEF IndInv, TypeOK, Shape
  <2>5. total[c] = Cardinality(table) BY <1>1 DEF IndInv, PageInv
  <2>6. PICK s \in Orders(table, call[c].where) : items[c] = PageOf(s, page[c], call[c].size)
    BY <1>1 DEF IndInv, PageInv
  <2>7. /\ s \in Seq(table) /\ Len(s) = Cardinality(table)
        /\ \A i, j \in 1 .. Len(s) : s[i] = s[j] => i = j
        /\ ByKey(call[c].where) => s = Sorted(table)
    BY <2>4, <2>6, OrdersType
  <2> DEFINE p == page[c]
             n == call[c].size
             o == Sorted(table)
             within == {r \in table : (p - 1) * n < Rank(table, r) /\ Rank(table, r) <= p * n}
  <2>8. /\ Listed(PageOf(o, p, n)) = within
        /\ \A i, j \in DOMAIN PageOf(o, p, n) : i < j => PageOf(o, p, n)[i][Key] < PageOf(o, p, n)[j][Key]
        /\ HasNextPage(p, n, Cardinality(table)) <=> \E r \in table : Rank(table, r) > p * n
    BY <1>1, <2>3, <2>4, PageMeans
  <2>9. o \in Seq(table) /\ Len(o) = Cardinality(table) /\ \A i, j \in 1 .. Len(o) : o[i] = o[j] => i = j
    BY <2>4, SortedType, SortedAt
  <2>10. p * n <= IntMax BY <1>1
  <2> HIDE DEF p, n, o
  <2>11. p \in Nat \ {0} /\ n \in Nat \ {0} BY <2>3 DEF p, n
  <2>12. /\ Listed(PageOf(s, p, n)) \subseteq table
         /\ Cardinality(Listed(PageOf(s, p, n))) = Cardinality(Listed(PageOf(o, p, n)))
    <3>1. /\ Listed(PageOf(s, p, n)) \subseteq table
          /\ Cardinality(Listed(PageOf(s, p, n))) = Held(Len(s), p, n)
      BY <2>7, <2>10, <2>11, PageSize
    <3>2. Cardinality(Listed(PageOf(o, p, n))) = Held(Len(o), p, n)
      BY <2>9, <2>10, <2>11, PageSize
    <3>3. Len(s) = Len(o) BY <2>7, <2>9
    <3> QED BY <3>1, <3>2, <3>3
  <2> QED BY <2>5, <2>6, <2>7, <2>8, <2>12 DEF p, n, o
<1>2. IndInv => PageExact BY <1>1 DEF PageExact
<1> QED BY <1>2, Invariance, PTL

(* A caller that follows HasNextPage with a specification ordered by the   *)
(* unique column, for every page size and every table whose last page ends *)
(* at an int: retried or not, it sees each row of an undisturbed table     *)
(* once, in order.                                                         *)
THEOREM WalksAlwaysComplete == Spec => []WalkComplete
<1>1. ASSUME IndInv, NEW c \in Clients, pc[c] = "done", Walking(c), answer[c] = "ok"
      PROVE  seen[c] = Sorted(table)
  BY <1>1 DEF IndInv, WalkInv
<1>2. IndInv => WalkComplete BY <1>1 DEF WalkComplete, Walking
<1> QED BY <1>2, Invariance, PTL

(* pageSQL, findOneSQL and existsSQL, for every Specification: what their  *)
(* guards let through has one clause of each kind, but for the two kinds   *)
(* of OrderBy that bring a clause of their own.                            *)
THEOREM NeverDoubled == Spec => []NoDoubleClause
<1>1. ASSUME NEW k, Statement(k) # Invalid, k.op \in {"find", "paginate"}
      PROVE  /\ Statement(k).order <= 1 \/ k.where.orderBy = "order"
             /\ Statement(k).paging <= 1 \/ (k.where.orderBy = "paging" /\ ~(k.op = "paginate" /\ k.size > 0))
  <2>1. CASE k.op = "find" BY <1>1, <2>1 DEF Statement, PageSQL, OrderCollides, Clauses
  <2>2. CASE k.op = "paginate" BY <1>1, <2>2 DEF Statement, PageSQL, OrderCollides, Clauses
  <2> QED BY <1>1, <2>1, <2>2
<1>2. ASSUME NEW k, Statement(k) # Invalid, k.op \in {"findone", "exists"}
      PROVE  /\ Statement(k).order <= 1 \/ k.where.orderBy = "order"
             /\ Statement(k).paging <= 1 \/ k.where.orderBy = "paging"
  <2>1. CASE k.op = "findone" BY <1>2, <2>1 DEF Statement, FindOneSQL, OrderCollides, Clauses
  <2>2. CASE k.op = "exists" BY <1>2, <2>2 DEF Statement, ExistsSQL, Clauses
  <2> QED BY <1>2, <2>1, <2>2
<1>3. IndInv => NoDoubleClause BY <1>1, <1>2 DEF IndInv, CallInv, NoDoubleClause
<1> QED BY <1>3, Invariance, PTL

-----------------------------------------------------------------------------
(* The measure behind EveryCallReturns: steps up to the end of a page.     *)

StepsLeft(c) ==
  CASE pc[c] = "idle" -> 2 * MaxCount + 4
    [] pc[c] = "count" -> (MaxCount - attempts[c]) + MaxCount + 3
    [] pc[c] = "page" -> (MaxCount - attempts[c]) + 2
    [] pc[c] = "run" -> (MaxCount - attempts[c]) + 1
    [] pc[c] = "next" -> 1
    [] OTHER -> 0

(* A call has at most its own start, the attempts of two statements and    *)
(* the look at HasNextPage before it.                                      *)
StepsBounded == \A c \in Clients : StepsLeft(c) \in 0 .. 2 * MaxCount + 4

Turns(c) == pc[c] = "next" /\ call[c].walk /\ page'[c] = page[c] + 1

UsesUp ==
  \E c \in Clients : /\ StepsLeft(c)' < StepsLeft(c) \/ Turns(c)
                     /\ \A d \in Clients \ {c} : StepsLeft(d)' = StepsLeft(d)

(* Every step is one client's, who has fewer steps left then, unless it    *)
(* turns a page of a walk; retries and what others write never make it     *)
(* repeat a statement beyond MaxCount or read a page twice.                *)
StepsUsedUp == [][UsesUp]_vars

LEMMA StepsInBounds == IndInv => StepsBounded
<1> SUFFICES ASSUME IndInv, NEW c \in Clients PROVE StepsLeft(c) \in 0 .. 2 * MaxCount + 4
  BY DEF StepsBounded
<1>1. MaxCount \in Nat /\ attempts[c] \in 0 .. MaxCount
  BY NumbersAssumption DEF IndInv, TypeOK
<1> QED BY <1>1 DEF StepsLeft

(* A step moves the program counter and the retries of its own client.     *)
Own(c) == \A d \in Clients \ {c} : pc'[d] = pc[d] /\ attempts'[d] = attempts[d]

LEMMA RetryLowers ==
  ASSUME IndInv, NEW c \in Clients, pc[c] \in {"run", "count", "page"}, RetryOrGiveUp(c)
  PROVE  Own(c) /\ StepsLeft(c)' < StepsLeft(c)
<1>0. /\ MaxCount \in Nat /\ attempts[c] \in 0 .. MaxCount
      /\ attempts \in [Clients -> 0 .. MaxCount] /\ DOMAIN pc = Clients
  BY NumbersAssumption DEF IndInv, TypeOK
<1>1. CASE /\ attempts[c] < MaxCount /\ attempts' = [attempts EXCEPT ![c] = @ + 1]
           /\ pc' = pc
  BY <1>0, <1>1 DEF Own, StepsLeft
<1>2. CASE pc' = [pc EXCEPT ![c] = "done"] /\ attempts' = attempts
  BY <1>0, <1>2 DEF Own, StepsLeft
<1> QED BY <1>1, <1>2 DEF RetryOrGiveUp, Answer, Goto

LEMMA OwnStepLowers ==
  ASSUME IndInv, NEW c \in Clients, Step(c) \/ \E k \in Menu : Start(c, k)
  PROVE  Own(c) /\ (StepsLeft(c)' < StepsLeft(c) \/ Turns(c))
<1>0. /\ MaxCount \in Nat /\ attempts[c] \in 0 .. MaxCount
      /\ attempts \in [Clients -> 0 .. MaxCount] /\ DOMAIN pc = Clients
      /\ page \in [Clients -> Int]
  BY NumbersAssumption DEF IndInv, TypeOK
<1>1. CASE ExecutedLost(c) \/ Failed(c)
  BY <1>1, RetryLowers DEF ExecutedLost, Execute, Failed
<1>2. CASE Executed(c) \/ Rejected(c)
  <2>1. pc[c] \in {"run", "count", "page"} /\ pc' = [pc EXCEPT ![c] = "done"] /\ attempts' = attempts
    BY <1>2 DEF Executed, Execute, Rejected, Answer, Goto
  <2> QED BY <1>0, <2>1 DEF Own, StepsLeft
<1>3. CASE Count(c)
  <2>1. /\ pc[c] = "count" /\ attempts' = [attempts EXCEPT ![c] = 0]
        /\ pc' = [pc EXCEPT ![c] = "done"] \/ pc' = [pc EXCEPT ![c] = "page"]
    BY <1>3 DEF Count, Answer, Goto
  <2> QED BY <1>0, <2>1 DEF Own, StepsLeft
<1>4. CASE ReadPage(c)
  <2>1. /\ pc[c] = "page" /\ attempts' = [attempts EXCEPT ![c] = 0]
        /\ pc' = [pc EXCEPT ![c] = "next"]
    BY <1>4 DEF ReadPage, Goto
  <2> QED BY <1>0, <2>1 DEF Own, StepsLeft
<1>5. CASE NextPage(c)
  <2>1. /\ pc[c] = "next" /\ attempts' = attempts
        /\ \/ pc' = [pc EXCEPT ![c] = "done"]
           \/ /\ pc' = [pc EXCEPT ![c] = "count"] /\ call[c].walk
              /\ page' = [page EXCEPT ![c] = @ + 1]
    BY <1>5 DEF NextPage, Answer, Goto
  <2> QED BY <1>0, <2>1 DEF Own, StepsLeft, Turns
<1>6. ASSUME NEW k \in Menu, Start(c, k) PROVE Own(c) /\ StepsLeft(c)' < StepsLeft(c)
  <2>1. /\ pc[c] = "idle" /\ attempts' = attempts
        /\ \E p \in {"count", "run", "done"} : pc' = [pc EXCEPT ![c] = p]
    BY <1>6 DEF Start, Answer, Goto
  <2> QED BY <1>0, <2>1 DEF Own, StepsLeft
<1> QED BY <1>1, <1>2, <1>3, <1>4, <1>5, <1>6 DEF Step

(* Up to the end of a page a call takes at most 2 * MaxCount + 4 steps,    *)
(* and a walk is the only loop: the safety half of EveryCallReturns.       *)
THEOREM CallsRunOut == Spec => []StepsBounded /\ StepsUsedUp
<1>1. IndInv => StepsBounded BY StepsInBounds
<1>2. IndInv /\ [Next]_vars => [UsesUp]_vars
  <2> SUFFICES ASSUME IndInv, Next, ~UNCHANGED vars PROVE UsesUp OBVIOUS
  <2>1. PICK c \in Clients : Step(c) \/ \E k \in Menu : Start(c, k) BY DEF Next, Finished
  <2>2. Own(c) /\ (StepsLeft(c)' < StepsLeft(c) \/ Turns(c)) BY <2>1, OwnStepLowers
  <2>3. \A d \in Clients \ {c} : StepsLeft(d)' = StepsLeft(d) BY <2>2 DEF Own, StepsLeft
  <2> QED BY <2>2, <2>3 DEF UsesUp
<1> QED BY <1>1, <1>2, Invariance, PTL DEF Spec, StepsUsedUp
=============================================================================
