---------------------------- MODULE MCRepository ----------------------------
(* Instance of Repository for TLC: a struct with three mapped columns, and *)
(* ints of four bits, so that the largest page size and an overflowing     *)
(* product are at hand.                                                    *)
EXTENDS Repository

MCFields == <<"a", "id", "b">>

R(id, a, b) == [c \in Columns |-> CASE c = "id" -> id [] c = "a" -> a [] c = "b" -> b]

MCTables == {{}, {R(2, 0, 0)}, {R(2, 0, 0), R(3, 0, 0), R(4, 0, 0)}}

(* A Specification that selects by id, with the clauses given.             *)
Where(orderBy, order, paging) ==
  [args |-> <<2>>, orderBy |-> orderBy, order |-> order, paging |-> paging]
Plain == Where("none", FALSE, FALSE)
Specs ==
  {Where("none", b, p) : b \in BOOLEAN, p \in BOOLEAN}
  \cup {Where("key", TRUE, FALSE), Where("key", FALSE, TRUE)}
  \cup {Where(o, FALSE, FALSE) : o \in {"key", "loose", "order", "paging", "refused"}}
ByKeySpec == Where("key", FALSE, FALSE)

Write(op, id, conflict, update, where) ==
  [op |-> op, entity |-> R(id, 3, 4), conflict |-> conflict, update |-> update, where |-> where]

WriteCalls ==
  {Write("upsert", 2, <<"id">>, u, Plain) : u \in {<<"b">>, <<"b", "a">>, << >>, <<"a", "a">>, <<"x">>}}
  \cup {Write("upsert", 1, <<"id">>, <<"a">>, Plain), Write("upsert", 2, <<"a">>, <<"b">>, Plain),
        Write("ignore", 1, <<"id">>, << >>, Plain), Write("ignore", 2, <<"id">>, << >>, Plain),
        Write("ignore", 2, <<"x">>, << >>, Plain)}
  \cup {Write("update", 3, << >>, u, w) : u \in {<<"b", "a">>, <<"a", "id">>, <<"x">>},
                                          w \in {Plain, ByKeySpec, Where("none", FALSE, TRUE)}}

ReadCalls ==
  {[op |-> op, where |-> w] : op \in {"find", "findone", "exists"}, w \in Specs}
  \cup {[op |-> "read", where |-> Plain]}
  \cup {[op |-> "ensure", ddl |-> d] : d \in {"idempotent", "other"}}

Paginate(where, walk, first, size) ==
  [op |-> "paginate", where |-> where, walk |-> walk, page |-> first, size |-> size]

PageCalls ==
  {Paginate(ByKeySpec, TRUE, 1, n) : n \in {1, 2, 7}} \cup {Paginate(Plain, TRUE, 1, 2)}
  \cup {Paginate(Plain, FALSE, 0, 0)}
  \cup {Paginate(ByKeySpec, FALSE, p, 3) : p \in {0, 1, 2, 4}}
  \cup {Paginate(w, FALSE, 1, 1) : w \in Specs}

MCMenu == WriteCalls \cup ReadCalls \cup PageCalls
=============================================================================
