-------------------------------- MODULE Search --------------------------------
(***************************************************************************)
(* How GET /nodes turns its parameters into a page: HttpSearchParser       *)
(* (search_http.go) reads them into a SearchForm, SearchPGSQL              *)
(* (search_driver_pgsql.go) makes a query of it, and Api.Find (api.go)     *)
(* runs that for one page and says which page follows.                     *)
(*                                                                         *)
(* A table is the sequence of its rows by updated_at, the column of the    *)
(* default order; two rows never have the same.  The columns that are      *)
(* filtered alike are members of Columns; Fields are the dotted names      *)
(* below data and meta.                                                    *)
(***************************************************************************)
EXTENDS Integers, Sequences

CONSTANTS
    MaxResult,       \* the largest page (search.max_result, 128)
    DefaultPerPage,  \* the page of a request that names none (32)
    Wrap,            \* 2^64
    Columns, Fields, Values,
    Weight           \* the column whose list is bound to one placeholder

ASSUME SearchAssumption ==
    /\ MaxResult \in Nat
    /\ DefaultPerPage \in Nat \ {0}
    /\ Wrap \in Nat /\ Wrap > MaxResult
    /\ Weight \in Columns

\* The rows of a table that are in kept, in their order.
Picked(table, kept) ==
    LET upto[k \in 0..Len(table)] ==
            IF k = 0 THEN <<>>
            ELSE IF table[k] \in kept THEN Append(upto[k - 1], table[k]) ELSE upto[k - 1]
    IN  upto[Len(table)]

\* What a request says, "" or {} where it says nothing.  An order is on
\* updated_at, on a field without a name, or not of the form <field>,<direction>.
Flags == {"", "true", "false", "other"}
Orders == {"asc", "desc", "unnamed", "malformed"}

Asks(page, perPage, orderBy, where, json, deleted, enabled) ==
    [page |-> page, perPage |-> perPage, orderBy |-> orderBy, where |-> where,
     json |-> json, deleted |-> deleted, enabled |-> enabled]

\* Every request that could be made.
AllForms ==
    [page : Int, perPage : Int, orderBy : Seq(Orders), where : [Columns -> SUBSET Values],
     json : [Fields -> SUBSET Values], deleted : Flags, enabled : Flags]

GetHttpSearchForm ==
    Asks(0, 0, <<"asc">>, [c \in Columns |-> {}], [f \in Fields |-> {}], "", "")

-----------------------------------------------------------------------------
(* The form.                                                               *)

NoForm == [page |-> 0]

\* Every way to be answered 412 before a query is made.
Refusable(http) ==
    \/ http.page < 0
    \/ http.perPage < 0 \/ http.perPage > MaxResult
    \/ \E i \in 1..Len(http.orderBy) : http.orderBy[i] = "malformed"
    \/ http.deleted = "other" \/ http.enabled = "other"

\* A flag of the form: the values it lets through, all of them when it is nil.
Flag(text, default) ==
    CASE text = "true" -> {TRUE} [] text = "false" -> {FALSE} [] OTHER -> default

\* Mutation: the page is not replaced by its default.
HandleSearchAsIs(http) ==
    IF Refusable(http) THEN NoForm
    ELSE [page |-> http.page, perPage |-> http.perPage, orderBy |-> http.orderBy,
          where |-> http.where, json |-> http.json,
          deleted |-> Flag(http.deleted, {FALSE}),
          enabled |-> Flag(http.enabled, BOOLEAN)]

HandleSearch(http) ==
    IF Refusable(http) THEN NoForm
    ELSE [page |-> IF http.page = 0 THEN 1 ELSE http.page,
          perPage |-> IF http.perPage = 0 THEN DefaultPerPage ELSE http.perPage,
          orderBy |-> http.orderBy, where |-> http.where, json |-> http.json,
          deleted |-> Flag(http.deleted, {FALSE}),
          enabled |-> Flag(http.enabled, BOOLEAN)]

-----------------------------------------------------------------------------
(* The query.                                                              *)

\* BuildQuery panics on a field without a name, the database on a list.
Runs(form) ==
    /\ \A i \in 1..Len(form.orderBy) : form.orderBy[i] # "unnamed"
    /\ form.where[Weight] = {}

\* One value is compared with the text of the field, several are looked up in
\* its elements: a text is its own element, an array is not the text of one.
JsonMatches(values, field) ==
    \/ values = {}
    \/ /\ \E v \in values : values = {v}
       /\ ~field.array /\ field.elements = values
    \/ /\ \A v \in values : values # {v}
       /\ field.elements \cap values # {}

BuildQuery(form, row) ==
    /\ \A c \in Columns : form.where[c] = {} \/ row.column[c] \in form.where[c]
    /\ \A f \in Fields : JsonMatches(form.json[f], row.field[f])
    /\ row.deleted \in form.deleted
    /\ row.enabled \in form.enabled

\* The first order decides: no two rows have the same updated_at.
Sorted(form, rows) ==
    IF form.orderBy[1] = "asc" THEN rows
    ELSE [i \in 1..Len(rows) |-> rows[Len(rows) + 1 - i]]

-----------------------------------------------------------------------------
(* The page.                                                               *)

\* Mutation: the page is not counted from one.
OffsetFromZero(page, perPage) == (page * perPage) % Wrap

Offset(page, perPage) == ((page - 1) * perPage) % Wrap

\* OFFSET is a signed 64-bit number for the database.
Overflows(page, perPage) == Offset(page, perPage) >= Wrap \div 2

\* Mutation: the offset is lost.
FindByFromStart(rows, offset, limit) ==
    SubSeq(rows, 1, IF limit < Len(rows) THEN limit ELSE Len(rows))

\* The rows after the offset, at most limit of them.
FindBy(rows, offset, limit) ==
    SubSeq(rows, offset + 1,
           IF offset + limit < Len(rows) THEN offset + limit ELSE Len(rows))

Elements(rows, page, perPage) ==
    LET list == FindBy(rows, Offset(page, perPage), perPage + 1)
    IN SubSeq(list, 1, IF Len(list) > perPage THEN perPage ELSE Len(list))

\* One row more than the page holds is asked for, to see whether there is one.
NextPage(rows, page, perPage) ==
    LET list == FindBy(rows, Offset(page, perPage), perPage + 1)
    IN IF Len(list) > perPage THEN page + 1 ELSE 0

Find(rows, page, perPage) ==
    [elements |-> Elements(rows, page, perPage), page |-> page, perPage |-> perPage,
     next |-> NextPage(rows, page, perPage),
     previous |-> IF page > 1 THEN page - 1 ELSE 0]

=============================================================================
