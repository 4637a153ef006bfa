----------------------------- MODULE Repository -----------------------------
(* The repository (database/repository.go, results.go) over one table: the *)
(* statements it builds, with placeholders and arguments, and calls that   *)
(* run them concurrently, each statement under the retry policy of its DB. *)
(* SQL text is abstracted to what the builders look at; the server is      *)
(* modelled by what the statements mean to it.  One column has a unique    *)
(* index; rows come in its order when a statement asks for that, and in    *)
(* any order otherwise.                                                    *)
EXTENDS Integers, Sequences, FiniteSets

CONSTANTS
  Fields,    \* mapped columns of T in declaration order (fieldsOf)
  Key,       \* the column with the unique index
  Values,    \* values of a column
  Clients,   \* goroutines, one call each
  Menu,      \* the calls they may make
  Tables,    \* the tables to begin with
  MaxCount,  \* RetryMaxCount
  IntMax,    \* the largest int
  Invalid    \* the builder's error

Columns == {Fields[i] : i \in DOMAIN Fields}
Width == Len(Fields)
Row == [Columns -> Values]

Writes == {"upsert", "ignore", "update"}

UniqueKey(t) == \A r, q \in t : r[Key] = q[Key] => r = q

(* Two fields never have the same column name.                             *)
ASSUME FieldsAssumption ==
  /\ Fields \in Seq(STRING) /\ Key \in Columns
  /\ \A i, j \in DOMAIN Fields : Fields[i] = Fields[j] => i = j

(* Columns are asked for by any name; an Update selects by the key.        *)
ASSUME CallsAssumption ==
  \A k \in Menu : k.op \in Writes =>
    /\ k.entity \in Row /\ k.conflict \in Seq(STRING) /\ k.update \in Seq(STRING)
    /\ k.op = "update" => k.where.args \in Seq(Values) /\ k.where.args # << >>

ASSUME PagesAssumption ==
  \A k \in Menu : k.op = "paginate" => k.page \in Int /\ k.size \in Int

ASSUME TablesAssumption ==
  \A t \in Tables : t \subseteq Row /\ UniqueKey(t) /\ IsFiniteSet(t)

ASSUME NumbersAssumption == Values \subseteq Int /\ MaxCount \in Nat /\ IntMax \in Nat

-----------------------------------------------------------------------------
(* The builders of Upsert, UpsertDoNothing and Update.                     *)

(* fieldMapOf: the position of a column in the value vector.               *)
FieldMap == [c \in Columns |-> CHOOSE i \in DOMAIN Fields : Fields[i] = c]

(* entityValues: the values of an entity in declaration order.             *)
EntityValues(entity) == [i \in DOMAIN Fields |-> entity[Fields[i]]]

(* resolveColumns: a non-empty list of distinct, mapped columns.           *)
Resolves(cols) ==
  /\ cols # << >>
  /\ \A i, j \in DOMAIN cols : cols[i] = cols[j] => i = j
  /\ \A i \in DOMAIN cols : cols[i] \in Columns

AssignmentsOffByOne(cols, n) == [i \in DOMAIN cols |-> [col |-> cols[i], arg |-> n + i - 1]]

(* SET col = $arg, for consecutive placeholders after the first n.         *)
Assignments(cols, n) == [i \in DOMAIN cols |-> [col |-> cols[i], arg |-> n + i]]

WithAssignedInOrder(args, vals, cols) ==
  [k \in 1 .. Len(args) + Len(cols) |-> IF k <= Len(args) THEN args[k] ELSE vals[k - Len(args)]]

(* The arguments of those placeholders, after the ones given.              *)
WithAssigned(args, vals, cols) ==
  [k \in 1 .. Len(args) + Len(cols) |->
     IF k <= Len(args) THEN args[k] ELSE vals[FieldMap[cols[k - Len(args)]]]]

(* INSERT of every mapped column as $1 .. $n, ON CONFLICT (conflict), DO   *)
(* NOTHING or DO UPDATE SET update.                                        *)
UpsertStatement(entity, conflict, update, doNothing) ==
  LET vals == EntityValues(entity)
  IN  IF ~Resolves(conflict) \/ (~doNothing /\ ~Resolves(update)) THEN Invalid
      ELSE [target |-> conflict, nothing |-> doNothing,
            sets |-> IF doNothing THEN << >> ELSE Assignments(update, Len(vals)),
            args |-> IF doNothing THEN vals ELSE WithAssigned(vals, vals, update)]

(* UPDATE SET set WHERE (key = $1): the condition's arguments come first.  *)
UpdateStatement(entity, set, where) ==
  IF where.orderBy # "none" \/ where.paging \/ ~Resolves(set) THEN Invalid
  ELSE [target |-> << >>, nothing |-> FALSE,
        sets |-> Assignments(set, Len(where.args)),
        args |-> WithAssigned(where.args, EntityValues(entity), set)]

-----------------------------------------------------------------------------
(* What the server makes of a statement.                                   *)

Inserted(args) == [c \in Columns |-> args[FieldMap[c]]]

Assign(row, st) ==
  [c \in Columns |->
     IF \E i \in DOMAIN st.sets : st.sets[i].col = c
     THEN st.args[st.sets[CHOOSE i \in DOMAIN st.sets : st.sets[i].col = c].arg]
     ELSE row[c]]

RunUpsert(t, st) ==
  LET new == Inserted(st.args)
      old == {r \in t : r[Key] = new[Key]}
  IN  IF old = {} THEN t \cup {new}
      ELSE IF st.nothing THEN t
      ELSE (t \ old) \cup {Assign(r, st) : r \in old}

RunUpdate(t, st) ==
  {IF r[Key] = st.args[1] THEN Assign(r, st) ELSE r : r \in t}

-----------------------------------------------------------------------------
(* The builders of reads.  A Specification is abstracted to the clauses    *)
(* that its SQL text holds and to its OrderBy: "none", "key" if it orders  *)
(* by the unique column, "loose" if by others, one that holds ORDER BY or  *)
(* a paging word itself, and one that validateOrderBy refuses.             *)

(* The numbers of ORDER BY and of paging clauses that spec makes up to.    *)
Clauses(spec, limit) ==
  [order |-> (IF spec.order THEN 1 ELSE 0) + (IF spec.orderBy # "none" THEN 1 ELSE 0)
             + (IF spec.orderBy = "order" THEN 1 ELSE 0),
   paging |-> (IF spec.paging THEN 1 ELSE 0)
              + (IF spec.orderBy = "paging" THEN 1 ELSE 0) + (IF limit THEN 1 ELSE 0)]

(* clauseCollision of OrderBy, and validateOrderBy.                        *)
OrderCollides(spec) == spec.orderBy # "none" /\ spec.order
OrderByRefused(spec) == spec.orderBy = "refused"

(* pageSQL: the guard against paging clauses comes after OrderBy was       *)
(* appended.                                                               *)
PageSQL(spec, size) ==
  IF \/ OrderByRefused(spec) \/ OrderCollides(spec)
     \/ size > 0 /\ (spec.paging \/ spec.orderBy = "paging")
  THEN Invalid ELSE Clauses(spec, size > 0)

(* findOneSQL: it comes before.                                            *)
FindOneSQL(spec) ==
  IF OrderByRefused(spec) \/ spec.paging \/ OrderCollides(spec)
  THEN Invalid ELSE Clauses(spec, TRUE)

(* existsSQL.                                                              *)
ExistsSQL(spec) ==
  IF spec.orderBy # "none" \/ spec.paging THEN Invalid ELSE Clauses(spec, FALSE)

(* The server parses it.                                                   *)
WellFormed(clauses) == clauses.order <= 1 /\ clauses.paging <= 1

(* EnsureTable: the DDL begins with CREATE TABLE and has IF NOT EXISTS, so *)
(* that it changes nothing here.                                           *)
EnsureTable(ddl) == IF ddl = "idempotent" THEN [ddl |-> ddl] ELSE Invalid

-----------------------------------------------------------------------------
(* Pages.                                                                  *)

(* Arithmetic of int.                                                      *)
AsInt(x) == ((x + IntMax + 1) % (2 * (IntMax + 1))) - (IntMax + 1)

Rank(t, r) == Cardinality({q \in t : q[Key] <= r[Key]})
Sorted(t) == [i \in 1 .. Cardinality(t) |-> CHOOSE r \in t : Rank(t, r) = i]

OffsetFromZero(page, size) == LET offset == AsInt(page * size) IN IF offset < 0 THEN 0 ELSE offset

(* The OFFSET of a page.                                                   *)
Offset(page, size) == LET offset == AsInt((page - 1) * size) IN IF offset < 0 THEN 0 ELSE offset

(* The orders in which the server may return the rows.  Only an OrderBy by *)
(* the unique column fixes one; two executions need not agree otherwise.   *)
ByKey(spec) == spec.orderBy = "key"
Orders(t, spec) ==
  IF ByKey(spec) THEN {Sorted(t)}
  ELSE {s \in [1 .. Cardinality(t) -> t] : \A i, j \in DOMAIN s : s[i] = s[j] => i = j}

(* LIMIT and OFFSET on the rows in order s; no limit if size <= 0.         *)
PageOf(s, page, size) ==
  IF size <= 0 THEN s
  ELSE LET from == Offset(page, size)
           left == Len(s) - from
           n == IF left < 0 THEN 0 ELSE IF left < size THEN left ELSE size
       IN  [i \in 1 .. n |-> s[from + i]]

HasNextPageEarly(page, size, total) == AsInt((page + 1) * size) < total

(* PageResult.HasNextPage.                                                 *)
HasNextPage(page, size, total) == AsInt(page * size) < total

-----------------------------------------------------------------------------
VARIABLES
  table,     \* the rows on the server
  call,      \* what each client calls
  pc,        \* where it is
  stmt,      \* the statement built
  attempts,  \* retries of the statement that is running
  answer,    \* what the call answered
  page,      \* the page asked for
  total,     \* TotalCount
  items,     \* Items
  seen,      \* the items of all pages of a walk
  origin,    \* the table when the client called a write
  calm       \* no other client has changed the table since the call began

reading == <<page, total, items, seen>>
vars == <<table, call, pc, stmt, attempts, answer, reading, origin, calm>>

NoCall == [op |-> "none"]

TypeOK ==
  /\ table \subseteq Row /\ UniqueKey(table)
  /\ call \in [Clients -> Menu \cup {NoCall}]
  /\ pc \in [Clients -> {"idle", "run", "count", "page", "next", "done"}]
  /\ attempts \in [Clients -> 0 .. MaxCount]
  /\ answer \in [Clients -> {"none", "ok", "error", "invalid"}]
  /\ page \in [Clients -> Int] /\ total \in [Clients -> Nat]
  /\ \A c \in Clients : items[c] \in Seq(Row) /\ seen[c] \in Seq(Row)
  /\ origin \in [Clients -> SUBSET Row]
  /\ calm \in [Clients -> BOOLEAN]

Init ==
  /\ table \in Tables
  /\ call = [c \in Clients |-> NoCall]
  /\ pc = [c \in Clients |-> "idle"]
  /\ stmt = [c \in Clients |-> Invalid]
  /\ attempts = [c \in Clients |-> 0]
  /\ answer = [c \in Clients |-> "none"]
  /\ page = [c \in Clients |-> 1] /\ total = [c \in Clients |-> 0]
  /\ items = [c \in Clients |-> << >>] /\ seen = [c \in Clients |-> << >>]
  /\ origin = [c \in Clients |-> {}]
  /\ calm = [c \in Clients |-> TRUE]

(* The statement of a call, or the builder's error.  GetByID, GetAll and   *)
(* Count ("read") have nothing to refuse.                                  *)
Statement(k) ==
  CASE k.op = "upsert" -> UpsertStatement(k.entity, k.conflict, k.update, FALSE)
    [] k.op = "ignore" -> UpsertStatement(k.entity, k.conflict, << >>, TRUE)
    [] k.op = "update" -> UpdateStatement(k.entity, k.update, k.where)
    [] k.op = "find" -> PageSQL(k.where, 0)
    [] k.op = "findone" -> FindOneSQL(k.where)
    [] k.op = "exists" -> ExistsSQL(k.where)
    [] k.op = "read" -> Clauses(k.where, FALSE)
    [] k.op = "paginate" -> PageSQL(k.where, k.size)
    [] k.op = "ensure" -> EnsureTable(k.ddl)

Goto(c, p) == pc' = [pc EXCEPT ![c] = p]
Answer(c, a) == Goto(c, "done") /\ answer' = [answer EXCEPT ![c] = a]

(* A call builds its statement; Paginate counts before it looks at what it *)
(* has built.                                                              *)
Start(c, k) ==
  /\ pc[c] = "idle"
  /\ call' = [call EXCEPT ![c] = k]
  /\ stmt' = [stmt EXCEPT ![c] = Statement(k)]
  /\ \/ k.op = "paginate" /\ Goto(c, "count") /\ page' = [page EXCEPT ![c] = k.page]
        /\ UNCHANGED answer
     \/ k.op # "paginate" /\ Statement(k) # Invalid /\ Goto(c, "run") /\ UNCHANGED <<page, answer>>
     \/ k.op # "paginate" /\ Statement(k) = Invalid /\ Answer(c, "invalid") /\ UNCHANGED page
  /\ calm' = [calm EXCEPT ![c] = TRUE]
  /\ origin' = [origin EXCEPT ![c] = IF k.op \in Writes THEN table ELSE @]
  /\ UNCHANGED <<table, attempts, total, items, seen>>

-----------------------------------------------------------------------------
(* Attempts.                                                               *)

(* What the server's table is after the statement of c.                    *)
Effect(c) ==
  CASE call[c].op \in {"upsert", "ignore"} -> RunUpsert(table, stmt[c])
    [] call[c].op = "update" -> RunUpdate(table, stmt[c])
    [] OTHER -> table

(* The server can execute it: it parses, ON CONFLICT names the unique      *)
(* index, and the index stays unique.                                      *)
Executable(c) ==
  /\ call[c].op \in {"find", "findone", "exists"} => WellFormed(stmt[c])
  /\ call[c].op \in {"upsert", "ignore"} => stmt[c].target = <<Key>>
  /\ UniqueKey(Effect(c))

Execute(c) ==
  /\ pc[c] = "run" /\ Executable(c)
  /\ table' = Effect(c)
  /\ calm' = [d \in Clients |-> calm[d] /\ (d = c \/ Effect(c) = table)]
  /\ UNCHANGED origin

RetryOneMore(c) ==
  \/ /\ attempts[c] <= MaxCount
     /\ attempts' = [attempts EXCEPT ![c] = @ + 1]
     /\ UNCHANGED <<pc, answer>>
  \/ /\ attempts[c] > MaxCount
     /\ Answer(c, "error")
     /\ UNCHANGED attempts
RetryRestarts(c) ==
  /\ attempts' = [attempts EXCEPT ![c] = (@ + 1) % (MaxCount + 1)]
  /\ UNCHANGED <<pc, answer>>

(* A transient error is retried after a pause, up to MaxCount times.       *)
RetryOrGiveUp(c) ==
  \/ /\ attempts[c] < MaxCount
     /\ attempts' = [attempts EXCEPT ![c] = @ + 1]
     /\ UNCHANGED <<pc, answer>>
  \/ /\ attempts[c] = MaxCount
     /\ Answer(c, "error")
     /\ UNCHANGED attempts

(* The statement is executed and its answer arrives, ...                   *)
Executed(c) ==
  /\ Execute(c)
  /\ Answer(c, "ok")
  /\ UNCHANGED <<call, stmt, attempts, reading>>

(* ... or is lost, ...                                                     *)
ExecutedLost(c) ==
  /\ Execute(c)
  /\ RetryOrGiveUp(c)
  /\ UNCHANGED <<call, stmt, reading>>

(* ... or a statement fails with an error that is transient, ...           *)
Failed(c) ==
  /\ pc[c] \in {"run", "count", "page"}
  /\ RetryOrGiveUp(c)
  /\ UNCHANGED <<table, call, stmt, reading, origin, calm>>

(* ... or with one that is not: the policy answers it at once.  It is all  *)
(* that a statement which is not executable ends in.                       *)
Rejected(c) ==
  /\ pc[c] \in {"run", "count", "page"}
  /\ Answer(c, "error")
  /\ UNCHANGED <<table, call, stmt, attempts, reading, origin, calm>>

-----------------------------------------------------------------------------
(* Paginate: one statement counts, another one reads the page.             *)

Count(c) ==
  /\ pc[c] = "count"
  /\ total' = [total EXCEPT ![c] = Cardinality(table)]
  /\ attempts' = [attempts EXCEPT ![c] = 0]
  /\ IF stmt[c] = Invalid THEN Answer(c, "invalid") ELSE Goto(c, "page") /\ UNCHANGED answer
  /\ UNCHANGED <<table, call, stmt, page, items, seen, origin, calm>>

ReadPage(c) ==
  /\ pc[c] = "page" /\ WellFormed(stmt[c])
  /\ \E s \in Orders(table, call[c].where) :
       /\ items' = [items EXCEPT ![c] = PageOf(s, page[c], call[c].size)]
       /\ seen' = [seen EXCEPT ![c] = @ \o PageOf(s, page[c], call[c].size)]
  /\ attempts' = [attempts EXCEPT ![c] = 0]
  /\ Goto(c, "next")
  /\ UNCHANGED <<table, call, stmt, answer, page, total, origin, calm>>

(* A caller that walks through the table asks for pages while HasNextPage. *)
NextPage(c) ==
  /\ pc[c] = "next"
  /\ IF call[c].walk /\ HasNextPage(page[c], call[c].size, total[c])
     THEN Goto(c, "count") /\ page' = [page EXCEPT ![c] = @ + 1] /\ UNCHANGED answer
     ELSE Answer(c, "ok") /\ UNCHANGED page
  /\ UNCHANGED <<table, call, stmt, attempts, total, items, seen, origin, calm>>

Step(c) ==
  \/ Executed(c) \/ ExecutedLost(c) \/ Failed(c) \/ Rejected(c)
  \/ Count(c) \/ ReadPage(c) \/ NextPage(c)

Finished == (\A c \in Clients : pc[c] = "done") /\ UNCHANGED vars

Next == \/ \E c \in Clients : Step(c) \/ \E k \in Menu : Start(c, k)
        \/ Finished

(* A statement is bounded by CommandTimeout and retried a bounded number   *)
(* of times.                                                               *)
Spec == Init /\ [][Next]_vars /\ \A c \in Clients : WF_vars(Step(c))

-----------------------------------------------------------------------------
(* Properties.                                                             *)

Listed(cols) == {cols[i] : i \in DOMAIN cols}

(* A row whose listed columns are those of entity.                         *)
Overwritten(r, entity, cols) ==
  [c \in Columns |-> IF c \in Listed(cols) THEN entity[c] ELSE r[c]]

(* What Upsert, UpsertDoNothing and Update promise, without placeholders.  *)
Meaning(t, k) ==
  CASE k.op = "update" ->
         {IF r[Key] = k.where.args[1] THEN Overwritten(r, k.entity, k.update) ELSE r : r \in t}
    [] k.op = "upsert" /\ (\E r \in t : r[Key] = k.entity[Key]) ->
         {IF r[Key] = k.entity[Key] THEN Overwritten(r, k.entity, k.update) ELSE r : r \in t}
    [] k.op = "ignore" /\ (\E r \in t : r[Key] = k.entity[Key]) -> t
    [] OTHER -> t \cup {k.entity}

(* Whenever the server executes a write, retried or not and whatever       *)
(* others have written meanwhile, exactly the listed columns of the right  *)
(* row get the values of the entity, or the entity is inserted: the        *)
(* placeholders of SET, WHERE and VALUES are aligned with the arguments.   *)
StatementsMean ==
  [][\A c \in Clients :
       Execute(c) /\ call[c].op \in Writes => table' = Meaning(table, call[c])]_vars

(* A write that is retried because its answer was lost has the effect of   *)
(* one write, if nobody else wrote since it was called; one that answers   *)
(* an error after its last retry has that effect or none.                  *)
RetriesHarmless ==
  \A c \in Clients : calm[c] /\ pc[c] # "idle" /\ call[c].op \in Writes =>
    \/ table = Meaning(origin[c], call[c])
    \/ table = origin[c] /\ answer[c] # "ok"

(* While nobody writes, a page holds as many different rows as have their  *)
(* rank in it, and HasNextPage tells whether there are more, as long as    *)
(* page and size are positive and their product is an int (Paginate counts *)
(* and reads in two statements).  If the specification orders by the       *)
(* unique column, the page holds exactly those rows, in order.             *)
PageExact ==
  \A c \in Clients : pc[c] = "next" /\ calm[c] =>
    LET p == page[c]  n == call[c].size
        within == {r \in table : (p - 1) * n < Rank(table, r) /\ Rank(table, r) <= p * n}
    IN  p > 0 /\ n > 0 /\ p * n <= IntMax =>
          /\ Listed(items[c]) \subseteq table
          /\ Cardinality(Listed(items[c])) = Cardinality(within)
          /\ HasNextPage(p, n, total[c]) <=> \E r \in table : Rank(table, r) > p * n
          /\ ByKey(call[c].where) =>
               /\ Listed(items[c]) = within
               /\ \A i, j \in DOMAIN items[c] : i < j => items[c][i][Key] < items[c][j][Key]

(* Some page ends at or after the last row, at a product that is an int.   *)
LastPageFits(t, size) ==
  \E p \in 1 .. IntMax : Cardinality(t) <= p * size /\ p * size <= IntMax

(* A caller that asks for pages from the first one on while HasNextPage    *)
(* has seen every row once, in order, if nobody wrote meanwhile: the       *)
(* specification orders by the unique column, the page size is positive    *)
(* and the last page does not end beyond the largest int.                  *)
WalkComplete ==
  \A c \in Clients :
    (/\ pc[c] = "done" /\ calm[c] /\ call[c].op = "paginate" /\ answer[c] = "ok" /\ call[c].walk
     /\ ByKey(call[c].where) /\ call[c].page = 1 /\ call[c].size > 0 /\ LastPageFits(table, call[c].size))
    => seen[c] = Sorted(table)

(* No statement is sent with two ORDER BY or two paging clauses; pageSQL,  *)
(* findOneSQL and existsSQL refuse what would need them.  The exceptions   *)
(* come from OrderBy itself, which is appended after the guard has looked  *)
(* at the SQL: one that holds ORDER BY is never found out, and one that    *)
(* holds a paging word only by pageSQL, and only if there is a page size.  *)
NoDoubleClause ==
  \A c \in Clients :
    pc[c] # "idle" /\ stmt[c] # Invalid /\ call[c].op \in {"find", "findone", "exists", "paginate"} =>
      /\ stmt[c].order <= 1 \/ call[c].where.orderBy = "order"
      /\ \/ stmt[c].paging <= 1
         \/ call[c].where.orderBy = "paging" /\ ~(call[c].op = "paginate" /\ call[c].size > 0)

(* Every call returns, walks over a table that others write to included.   *)
(* A walk with page size 0, or one whose product wraps before the last     *)
(* page, need not end; there is none among the calls of a model.           *)
EveryCallReturns == \A c \in Clients : pc[c] # "idle" ~> pc[c] = "done"
=============================================================================
