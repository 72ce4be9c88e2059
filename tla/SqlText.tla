------------------------------ MODULE SqlText -------------------------------
(***************************************************************************)
(* The text of statements, the values bound to them, and the way between   *)
(* an entity and its row.                                                  *)
(***************************************************************************)
EXTENDS Integers, Sequences, FiniteSets, SequencesExt, FiniteSetsExt, Lists

(***************************************************************************)
(* sc::orm::QueryWrapper (query_wrapper.cpp, sql_dialect.cpp): conditions  *)
(* chained and nested by a caller, and the statement built from them.      *)
(*                                                                         *)
(* A statement is the sequence of its tokens that matter here: the filter  *)
(* for rows not deleted, AND, OR, parentheses, and placeholders, which     *)
(* PostgreSQL numbers.  Columns and operators are left out.                *)
(***************************************************************************)
CONSTANTS
    MaxConditions,   \* bound on the conditions of a query
    MaxNesting,      \* bound on and_() and or_() within each other
    MaxIn,           \* bound on the values of in()
    MaxRows          \* rows of the table a page is taken of, bound on limit and offset

ASSUME QueryAssumption == {MaxConditions, MaxNesting, MaxIn, MaxRows} \subseteq Nat

VARIABLES
    wrappers,  \* m_conditions of the query and of the ones func(sub) is filling
    page       \* m_limit, m_offset, and whether m_groupBy and m_orderBy are set

(* A comparison, IS NULL, or IN of n values *)
Condition(op, n) == [op |-> op, inValues |-> n, logic |-> "AND", open |-> 0, close |-> 0]

WrapperInit ==
    /\ wrappers = << <<>> >>
    /\ page = [limit |-> 0, offset |-> 0, grouped |-> FALSE, ordered |-> FALSE]

Count == FoldSeq(LAMBDA w, n : n + Len(w), 0, wrappers)

-----------------------------------------------------------------------------
(* eq(), like(), in(), isNull(), ...: one more condition *)
AddCondition(op, n) ==
    /\ Count < MaxConditions
    /\ wrappers' = [wrappers EXCEPT ![Len(wrappers)] = Append(@, Condition(op, n))]

(* and_() and or_() begin: func gets a query of its own *)
BeginNested == Len(wrappers) <= MaxNesting /\ wrappers' = Append(wrappers, <<>>)

(* Both put parentheses around more than one condition *)
Bracketed(sub) ==
    IF Len(sub) < 2 THEN sub
    ELSE [sub EXCEPT ![1].open = @ + 1, ![Len(sub)].close = @ + 1]

Inner == Bracketed(wrappers[Len(wrappers)])

EndNested(sub) ==
    LET n == Len(wrappers)
    IN  /\ n > 1
        /\ wrappers' = SubSeq(wrappers, 1, n - 2) \o << wrappers[n - 1] \o sub >>

(* and_() makes every inner condition an AND, inner OR included *)
And == EndNested([i \in DOMAIN Inner |-> [Inner[i] EXCEPT !.logic = "AND"]])

Or == EndNested(IF Inner = <<>> THEN <<>> ELSE [Inner EXCEPT ![1].logic = "OR"])

WrapperNext ==
    /\ \/ AddCondition("compare", 0) \/ AddCondition("null", 0)
       \/ \E n \in 0..MaxIn : AddCondition("in", n)
       \/ BeginNested \/ And \/ Or
    /\ UNCHANGED page

(* limit(), offset(), groupBy() and orderBy(): members of their own, which *)
(* no condition depends on                                                 *)
PageNext ==
    /\ \/ \E n \in 0..MaxRows : page' = [page EXCEPT !.limit = n]
       \/ \E n \in 0..MaxRows : page' = [page EXCEPT !.offset = n]
       \/ page' = [page EXCEPT !.grouped = TRUE]
       \/ page' = [page EXCEPT !.ordered = TRUE]
    /\ UNCHANGED wrappers

-----------------------------------------------------------------------------
(* buildValueClause(): IN of no value still gets a placeholder *)
Placeholders(c) ==
    CASE c.op = "null" -> 0
      [] c.op = "in" -> IF c.inValues = 0 THEN 1 ELSE c.inValues
      [] OTHER -> 1

(* getBindValues(): the values of IN, or `value`, which is none for an     *)
(* empty IN; none for IS NULL                                              *)
ValuesBound(c) ==
    IF c.op = "null" THEN <<>>
    ELSE IF c.op = "in" /\ c.inValues > 0 THEN [k \in 1..c.inValues |-> "in"]
    ELSE <<"value">>
BindValues(conds) == FlattenSeq([i \in DOMAIN conds |-> ValuesBound(conds[i])])

Word(w) == << <<w, 0>> >>
Numbered(first, n) == [k \in 1..n |-> <<"?", first + k - 1>>]   \* convertPlaceholder()
Repeated(w, n) == [i \in 1..n |-> <<w, 0>>]
HasOr(conds) == \E i \in DOMAIN conds : conds[i].logic = "OR"

(* The i-th condition: `first` and the placeholders before it number its own *)
Before(conds, i) == SumOver([j \in DOMAIN conds |-> Placeholders(conds[j])], 1..(i - 1))
ConditionText(conds, first, i) ==
    (IF i = 1 THEN <<>> ELSE Word(conds[i].logic)) \o Repeated("(", conds[i].open)
      \o Numbered(first + Before(conds, i), Placeholders(conds[i])) \o Repeated(")", conds[i].close)
Chain(conds, first) == FlattenSeq([i \in DOMAIN conds |-> ConditionText(conds, first, i)])

(* A mistaken AppendConditions: no parentheses around a chain with OR *)
AppendBare(conds, first, hasWhere) ==
    IF conds = <<>> THEN <<>>
    ELSE Word(IF hasWhere THEN "AND" ELSE "WHERE") \o Chain(conds, first)

(* appendConditions() from placeholder number `first` on *)
AppendConditions(conds, first, hasWhere) ==
    LET around == IF HasOr(conds) THEN 1 ELSE 0
    IN  IF conds = <<>> THEN <<>>
        ELSE Word(IF hasWhere THEN "AND" ELSE "WHERE")
               \o Repeated("(", around) \o Chain(conds, first) \o Repeated(")", around)

(* buildSelectSql(), buildCountSql() and buildDeleteSql() with soft        *)
(* deletion; buildUpdateSql() of u columns and update_time                 *)
SelectSql(conds) == Word("live") \o AppendConditions(conds, 1, TRUE)
UpdateSql(conds, u) ==
    Numbered(1, u + 1) \o Word("live") \o AppendConditions(conds, u + 2, TRUE)

(* A statement without soft deletion or condition is refused unless        *)
(* allowFullTableOperation() was called.                                   *)
DeleteRefused(conds, allowed) == AppendConditions(conds, 1, FALSE) = <<>> /\ ~allowed

(* getUpdateBindValues() *)
UpdateBindValues(conds, u) == [k \in 1..(u + 1) |-> "set"] \o BindValues(conds)

-----------------------------------------------------------------------------
(* buildLimitOffset() of the three dialects: the clause and its numbers,   *)
(* LIMIT a OFFSET b, LIMIT a, b (the offset first), LIMIT a, OFFSET a      *)
Clause(form, a, b) == [form |-> form, a |-> a, b |-> b]
NoClause == Clause("", 0, 0)

SqliteLimitOffset(limit, offset) ==
    CASE limit > 0 /\ offset > 0 -> Clause("LimitOffset", limit, offset)
      [] limit > 0 /\ offset = 0 -> Clause("Limit", limit, 0)
      [] limit = 0 /\ offset > 0 -> Clause("Offset", offset, 0)
      [] OTHER -> NoClause

(* A mistaken MySqlLimitOffset: the numbers in the order of the others *)
MySqlLimitFirst(limit, offset) ==
    CASE limit > 0 /\ offset > 0 -> Clause("OffsetLimit", limit, offset)
      [] limit > 0 /\ offset = 0 -> Clause("Limit", limit, 0)
      [] OTHER -> NoClause

MySqlLimitOffset(limit, offset) ==
    CASE limit > 0 /\ offset > 0 -> Clause("OffsetLimit", offset, limit)
      [] limit > 0 /\ offset = 0 -> Clause("Limit", limit, 0)
      [] OTHER -> NoClause

PostgreSqlLimitOffset(limit, offset) ==
    CASE limit > 0 /\ offset > 0 -> Clause("LimitOffset", limit, offset)
      [] limit > 0 /\ offset = 0 -> Clause("Limit", limit, 0)
      [] limit = 0 /\ offset > 0 -> Clause("Offset", offset, 0)
      [] OTHER -> NoClause

(* The rest of buildSelectSql(); buildCountSql() has none of it *)
SelectTail(clause) ==
    (IF page.grouped THEN <<"GROUP_BY">> ELSE <<>>)
      \o (IF page.ordered THEN <<"ORDER_BY">> ELSE <<>>)
      \o (IF clause = NoClause THEN <<>> ELSE <<"LIMIT">>)

(* The rows a database shows of 1..MaxRows; SQLite has no OFFSET without   *)
(* LIMIT.                                                                  *)
Shown(dialect, c) ==
    LET Window(limit, offset) == {r \in 1..MaxRows : offset < r /\ r <= offset + limit}
    IN  CASE c.form = "LimitOffset" -> Window(c.a, c.b)
          [] c.form = "OffsetLimit" -> Window(c.b, c.a)
          [] c.form = "Limit" -> Window(c.a, 0)
          [] c.form = "Offset" -> IF dialect = "SQLite" THEN {0} ELSE Window(MaxRows, c.a)
          [] OTHER -> 1..MaxRows

-----------------------------------------------------------------------------
CountAt(sql, w, i) == Cardinality({j \in 1..i : sql[j][1] = w})
DepthAt(sql, i) == CountAt(sql, "(", i) - CountAt(sql, ")", i)

Sound(sql, values) ==
    /\ \A i \in DOMAIN sql :
         /\ DepthAt(sql, i) >= 0
         /\ sql[i][1] = "OR" => DepthAt(sql, i) > 0
         /\ sql[i][1] = "?" => sql[i][2] = CountAt(sql, "?", i)
    /\ DepthAt(sql, Len(sql)) = 0
    /\ CountAt(sql, "?", Len(sql)) = Len(values)

(* However conditions are chained and nested: parentheses match, no OR     *)
(* stands beside the filter for deleted rows, so no query sees one, and    *)
(* the placeholders are numbered 1, 2, ... with one bound value each; only *)
(* a DELETE that would have no condition is refused                        *)
(* (query_wrapper.cpp:98-128, 217-240, 269-362).                           *)
StatementIsSound ==
    Len(wrappers) = 1 =>
      /\ Sound(SelectSql(wrappers[1]), BindValues(wrappers[1]))
      /\ \A u \in 1..2 :
           Sound(UpdateSql(wrappers[1], u), UpdateBindValues(wrappers[1], u))
      /\ DeleteRefused(wrappers[1], FALSE) <=> wrappers[1] = <<>>

Place == [w \in {"GROUP_BY", "ORDER_BY", "LIMIT"} |->
            CASE w = "GROUP_BY" -> 1 [] w = "ORDER_BY" -> 2 [] OTHER -> 3]

(* A page with a limit is the same rows in every dialect: those after the  *)
(* first `offset`, `limit` at most.  Without a limit PostgreSQL alone      *)
(* skips rows: MySQL shows them all and SQLite refuses the statement       *)
(* (sql_dialect.cpp:16-27, 75-83).  Clauses come in the order SQL wants.   *)
PageIsWindow ==
    LET sqlite == SqliteLimitOffset(page.limit, page.offset)
        mysql == MySqlLimitOffset(page.limit, page.offset)
        postgres == PostgreSqlLimitOffset(page.limit, page.offset)
        wanted == {r \in 1..MaxRows : page.offset < r /\ r <= page.offset + page.limit}
    IN  /\ page.limit > 0 => /\ Shown("SQLite", sqlite) = wanted
                             /\ Shown("MySQL", mysql) = wanted
                             /\ Shown("PostgreSQL", postgres) = wanted
        /\ page.limit = 0 /\ page.offset > 0 => /\ Shown("SQLite", sqlite) = {0}
                                                /\ Shown("MySQL", mysql) = 1..MaxRows
        /\ \A c \in {sqlite, mysql, postgres} : \A j, k \in DOMAIN SelectTail(c) :
               j < k => Place[SelectTail(c)[j]] < Place[SelectTail(c)[k]]

-----------------------------------------------------------------------------
(***************************************************************************)
(* How entities become rows and rows entities.  SqlRepository and          *)
(* ReadWriteRepository ("mapped") build their statements from a TableMeta, *)
(* AutoRepository ("reflected") from a ReflectionTable; the list of        *)
(* columns, the list of placeholders and the list of parameters are built  *)
(* by different functions that have to agree on fields and order.          *)
(*                                                                         *)
(* A statement is its columns and, position by position, its terms: a      *)
(* placeholder ("?" or the n of "$n") or the literal of the soft-delete    *)
(* column.  The driver that binds parameters is external.                  *)
(***************************************************************************)
CONSTANTS
    EntityIds,      \* generated ids, numbers
    PlainFields,    \* the fields of the entity's own
    FieldLists,     \* the orders and selections a table's meta may have
    ColumnOf,       \* field -> column name
    FieldValues,
    MaxStamp        \* bound on the clock

VARIABLES
    manner,     \* "mapped" or "reflected"
    dialect,
    fields,     \* meta.fields in map order, fieldNames() in order of field()
    rows,       \* id -> row: column -> value; absent ids are not in the domain
    kept,       \* history: the entity the last saves amount to
    stamp       \* QDateTime::currentDateTime()

entityVars == <<manner, dialect, fields, rows, kept, stamp>>

BaseFields == {"createTime", "updateTime", "deleted"}
Anonymous == <<"?">>
Literal == <<"not_deleted">>
AllFields == PlainFields \union BaseFields \union {"id"}

(* A table has no two columns of one name, the base ones are named by      *)
(* BaseEntity, and a meta or a reflection has a field once.                *)
ASSUME EntityAssumption ==
    /\ PlainFields \intersect (BaseFields \union {"id"}) = {}
    /\ \A s \in FieldLists : s \in Seq(AllFields) /\ IsInjective(s)
    /\ DOMAIN ColumnOf = AllFields /\ IsInjective(ColumnOf)
    /\ ColumnOf["id"] = "id" /\ ColumnOf["deleted"] = "deleted"
    /\ ColumnOf["createTime"] = "create_time" /\ ColumnOf["updateTime"] = "update_time"

EntityInit ==
    /\ manner \in {"mapped", "reflected"} /\ dialect \in {"sqlite", "mysql", "postgresql"}
    /\ fields \in FieldLists
    /\ rows = << >> /\ kept = << >> /\ stamp = 1

(* The fields the generators keep: neither the primary key nor a base one *)
Written == Only(fields, AllFields \ (BaseFields \union {"id"}))

ConvertPlaceholder(n) == IF dialect = "postgresql" THEN <<"$", n>> ELSE Anonymous

ColumnsOf(s) == [k \in DOMAIN s |-> ColumnOf[s[k]]]
ValuesOf(e, s) == [k \in DOMAIN s |-> e[s[k]]]
PlaceholderRow(n) == [k \in 1..n |-> ConvertPlaceholder(k)]

(* generateInsertSql() *)
InsertColumns == <<"id">> \o ColumnsOf(Written) \o <<"create_time", "update_time", "deleted">>
InsertTerms == PlaceholderRow(Len(Written) + 3) \o <<Literal>>

(* collectInsertParams() *)
InsertParams(e) == <<e.id>> \o ValuesOf(e, Written) \o <<e.createTime, e.updateTime>>

(* generateUpdateSql(): the last term is the one of WHERE id = *)
UpdateColumns == ColumnsOf(Written) \o <<"update_time">>
UpdateTerms == PlaceholderRow(Len(Written) + 2)

(* A mistaken UpdateParams: the id goes first, as it does in an INSERT *)
UpdateParamsIdFirst(e) == <<e.id>> \o ValuesOf(e, Written) \o <<e.updateTime>>

(* collectUpdateParams() *)
UpdateParams(e) == ValuesOf(e, Written) \o <<e.updateTime, e.id>>

(* The driver: "?" takes the parameters in turn, "$n" the n-th one *)
Bound(terms, params) ==
    [k \in DOMAIN terms |->
       IF terms[k] = Literal THEN 0
       ELSE IF terms[k] = Anonymous
            THEN params[Cardinality({j \in 1..k : terms[j] = Anonymous})]
            ELSE params[terms[k][2]]]

(* columns[k] := values[k] for every column of the statement *)
Assigned(row, columns, values) ==
    [c \in DOMAIN row |->
       IF \E k \in DOMAIN columns : columns[k] = c
       THEN values[CHOOSE k \in DOMAIN columns : columns[k] = c] ELSE row[c]]

EmptyRow == [c \in {ColumnOf[f] : f \in AllFields} |-> 0]

With(r, i, x) == [j \in DOMAIN r \union {i} |-> IF j = i THEN x ELSE r[j]]

-----------------------------------------------------------------------------
(* fromQueryResult(): the base columns by name, the fields of the meta by  *)
(* their column                                                            *)
FromQueryResult(row) ==
    [f \in AllFields |->
       IF f \in BaseFields \union {"id"} \union ToSet(fields) THEN row[ColumnOf[f]] ELSE 0]

(* mapRow(): every column of the record whose name is a reflected field *)
MapRow(row) == [f \in AllFields |-> IF f \in ToSet(fields) THEN row[ColumnOf[f]] ELSE 0]

Entity(row) == IF manner = "mapped" THEN FromQueryResult(row) ELSE MapRow(row)

(* save() of an entity without id: a fresh one, beforeInsert() and INSERT *)
InsertEntity(i, own) ==
    LET e == [f \in AllFields |->
                IF f = "id" THEN i ELSE IF f \in {"createTime", "updateTime"} THEN stamp + 1
                ELSE IF f \in PlainFields THEN own[f] ELSE 0]
    IN  /\ manner = "mapped" /\ i \notin DOMAIN rows /\ stamp < MaxStamp
        /\ rows' = With(rows, i, Assigned(EmptyRow, InsertColumns, Bound(InsertTerms, InsertParams(e))))
        /\ kept' = With(kept, i, e)
        /\ stamp' = stamp + 1 /\ UNCHANGED <<manner, dialect, fields>>

(* save() of an entity with an id: beforeUpdate() and UPDATE, which leaves *)
(* create_time and the soft-delete column alone                            *)
UpdateEntity(i, own, created) ==
    LET e == [f \in AllFields |->
                IF f = "id" THEN i ELSE IF f = "createTime" THEN created
                ELSE IF f = "updateTime" THEN stamp + 1
                ELSE IF f \in PlainFields THEN own[f] ELSE 0]
        values == Bound(UpdateTerms, UpdateParams(e))
        hit == {j \in DOMAIN rows : rows[j]["id"] = Last(values)}
    IN  /\ manner = "mapped" /\ i \in DOMAIN rows /\ stamp < MaxStamp
        /\ rows' = [j \in DOMAIN rows |->
             IF j \in hit THEN Assigned(rows[j], UpdateColumns, Front(values)) ELSE rows[j]]
        /\ kept' = [kept EXCEPT ![i] =
             [f \in AllFields |-> IF f \in PlainFields \union {"updateTime"} THEN e[f] ELSE @[f]]]
        /\ stamp' = stamp + 1 /\ UNCHANGED <<manner, dialect, fields>>

(* remove() marks the row *)
MarkEntity(i) ==
    /\ manner = "mapped" /\ i \in DOMAIN rows
    /\ rows' = [rows EXCEPT ![i]["deleted"] = 1]
    /\ kept' = [kept EXCEPT ![i]["deleted"] = 1]
    /\ UNCHANGED <<manner, dialect, fields, stamp>>

(* AutoRepository::save(): INSERT OR REPLACE of the reflected fields, in   *)
(* every dialect.  SQLite alone has the statement; elsewhere the server    *)
(* refuses it and nothing changes, which is no step here.  Without an id   *)
(* among the fields the database makes one; not modelled.                  *)
ReplaceEntity(i, own) ==
    LET e == [f \in AllFields |-> IF f = "id" THEN i ELSE IF f \in PlainFields THEN own[f] ELSE 0]
        terms == [k \in DOMAIN fields |-> Anonymous]
    IN  /\ manner = "reflected" /\ dialect = "sqlite" /\ "id" \in ToSet(fields)
        /\ rows' = With(rows, i, Assigned(EmptyRow, ColumnsOf(fields), Bound(terms, ValuesOf(e, fields))))
        /\ kept' = With(kept, i, e)
        /\ UNCHANGED <<manner, dialect, fields, stamp>>

(* AutoRepository::update(): refused without an id or another field *)
SetFields == Only(fields, AllFields \ {"id"})

UpdateReflected(i, own) ==
    LET e == [f \in AllFields |-> IF f = "id" THEN i ELSE IF f \in PlainFields THEN own[f] ELSE 0]
        values == Bound([k \in 1..(Len(SetFields) + 1) |-> Anonymous], ValuesOf(e, SetFields) \o <<e.id>>)
        hit == {j \in DOMAIN rows : rows[j]["id"] = Last(values)}
    IN  /\ manner = "reflected" /\ "id" \in ToSet(fields) /\ SetFields # <<>>
        /\ rows' = [j \in DOMAIN rows |->
             IF j \in hit THEN Assigned(rows[j], ColumnsOf(SetFields), Front(values)) ELSE rows[j]]
        /\ kept' = IF i \in DOMAIN kept THEN [kept EXCEPT ![i] = e] ELSE kept
        /\ UNCHANGED <<manner, dialect, fields, stamp>>

(* removeById() *)
DeleteEntity(i) ==
    /\ manner = "reflected" /\ i \in DOMAIN rows
    /\ rows' = [j \in DOMAIN rows \ {i} |-> rows[j]]
    /\ kept' = [j \in DOMAIN rows \ {i} |-> kept[j]]
    /\ UNCHANGED <<manner, dialect, fields, stamp>>

(* buildLimitOffset() of a page and pageQuery(): MySQL names the offset    *)
(* first                                                                   *)
LimitClause(limit, offset) ==
    IF limit > 0 /\ offset > 0
    THEN IF dialect = "mysql" THEN <<"LIMIT", offset, "COMMA", limit>>
         ELSE <<"LIMIT", limit, "OFFSET", offset>>
    ELSE IF limit > 0 THEN <<"LIMIT", limit>> ELSE <<>>

(* The database: what the clause selects of a sequence of rows *)
Selected(s, clause) ==
    LET limit == IF Len(clause) = 0 THEN Len(s)
                 ELSE IF Len(clause) = 4 /\ clause[3] = "COMMA" THEN clause[4] ELSE clause[2]
        offset == IF Len(clause) < 4 THEN 0 ELSE IF clause[3] = "COMMA" THEN clause[2] ELSE clause[4]
    IN  SubSeq(s, offset + 1, Min({offset + limit, Len(s)}))

PageQuery(s, number, size) == Selected(s, LimitClause(size, (number - 1) * size))

EntityNext ==
    \E i \in EntityIds :
        \/ MarkEntity(i) \/ DeleteEntity(i)
        \/ \E own \in [PlainFields -> FieldValues] :
             \/ InsertEntity(i, own) \/ ReplaceEntity(i, own) \/ UpdateReflected(i, own)
             \/ \E created \in {0, stamp} : UpdateEntity(i, own, created)

-----------------------------------------------------------------------------
(* What is read back of a saved entity is what was saved last, in every    *)
(* field the table's meta or the reflection has, whatever the order of the *)
(* fields and the style of the placeholders: the lists of columns,         *)
(* placeholders and parameters agree (sqlite_repository.h:274-395,         *)
(* read_write_repository.h:223-306, repository_factory.h:121-279); and the *)
(* pages of a table are its rows, each once (repository_factory.h:286).    *)
EntitiesReadBack ==
    /\ DOMAIN rows = DOMAIN kept
    /\ \A i \in DOMAIN rows : \A f \in ToSet(fields) \union (IF manner = "mapped" THEN BaseFields ELSE {}) :
         Entity(rows[i])[f] = kept[i][f]
    /\ LET all == SetToSeq(DOMAIN rows)
           FoundAt(r, size) == {at \in (1..Len(all)) \X (1..size) :
                /\ at[2] \in DOMAIN PageQuery(all, at[1], size)
                /\ PageQuery(all, at[1], size)[at[2]] = all[r]}
       IN  \A size \in 1..(Len(all) + 1) :
             /\ \A r \in 1..Len(all) : Cardinality(FoundAt(r, size)) = 1
             /\ \A p \in 1..Len(all) :
                  /\ Len(PageQuery(all, p, size)) <= size
                  /\ ToSet(PageQuery(all, p, size)) \subseteq DOMAIN rows
=============================================================================
