------------------------------ MODULE MCGateway ------------------------------
(***************************************************************************)
(* Gateway for TLC: pages of one or two rows, two writes while it runs.    *)
(* Integers wrap at 16, so that pages up to 7 reach the offsets that wrap  *)
(* and those the database refuses.                                         *)
(***************************************************************************)
EXTENDS Gateway

\* The first node has a list of tags, the others one tag.
ContentValue ==
    [i \in Ids |->
        [enabled |-> i # 2, column |-> [type |-> "a", weight |-> "a"],
         field |-> [tags |-> IF i = 1 THEN [array |-> TRUE, elements |-> {"a", "b"}]
                             ELSE [array |-> FALSE, elements |-> {"a"}]]]]

FirstAccountsValue == [a \in Accounts |-> [name |-> "ann", password |-> "x"]]

FirstNodesValue == <<1, 3>>

Short == [GetHttpSearchForm EXCEPT !.perPage = 1]

\* What a client walks: pages of one and of two, newest or oldest first, filtered,
\* also by what is deleted.
Walked ==
    {[Short EXCEPT !.orderBy = <<"desc">>],
     [GetHttpSearchForm EXCEPT !.json.tags = {"a"}, !.deleted = "true", !.page = 1],
     [Short EXCEPT !.json.tags = {"a", "b"}, !.enabled = "true", !.where.type = {"a"}]}

\* What is refused, what panics, and pages far out.
Odd ==
    {[Short EXCEPT !.page = -1], [Short EXCEPT !.perPage = MaxResult + 1],
     [Short EXCEPT !.orderBy = <<"malformed">>],
     [Short EXCEPT !.orderBy = <<"unnamed">>, !.page = 2],
     [Short EXCEPT !.where.weight = {"a"}, !.page = 2],
     [Short EXCEPT !.enabled = "other", !.page = 2],
     [Short EXCEPT !.perPage = 3, !.page = 5], [Short EXCEPT !.perPage = 3, !.page = 7]}

HttpFormValues == Walked \cup Odd

=============================================================================
