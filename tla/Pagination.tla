------------------------------ MODULE Pagination ------------------------------
(***************************************************************************)
(* A client walks over a table page by page, by cursor or by page number,  *)
(* while rows come and go between two requests.                            *)
(*                                                                         *)
(* A token is the cursor column's value of a row.  The column never        *)
(* changes, and several rows may have one value; the database orders such  *)
(* rows as it likes.  A walk goes in one direction; it ends on the page    *)
(* that has no token, or no has_next, for that direction.                  *)
(***************************************************************************)
EXTENDS Integers, Sequences, FiniteSets, SequencesExt, FiniteSetsExt

CONSTANTS
    Row,            \* ids, numbers
    Column,         \* Column[r]: the value of the cursor column in row r
    Limit,          \* values of limit and per_page in a query string
    default_per_page,
    max_per_page,
    NoToken

ASSUME PaginationAssumption ==
    /\ IsFiniteSet(Row) /\ Row \subseteq Int
    /\ Column \in [Row -> Int]
    /\ \A r \in Row : Column[r] # NoToken
    /\ Limit \subseteq Nat
    /\ default_per_page \in Nat
    /\ max_per_page \in Nat

VARIABLES
    table,      \* the rows of the table
    page,       \* the last page the client got: [data, next, prev]
    walk,       \* "none", "forward", "backward" or "offset"
    offset,     \* the walk by number: [page, per_page, got, items, total], got what has been read
    ended,      \* the walk has reached its end
    owed,       \* history: rows in the way of the walk since its start, not delivered yet
    seen,       \* history: rows of the walk's pages
    repeated,   \* history: a page brought a row of an earlier page of the walk
    changed     \* history: a row came or went during the walk

pageVars == <<table, page, walk, offset, ended, owed, seen, repeated, changed>>

NoPage == [data |-> <<>>, next |-> NoToken, prev |-> NoToken]
NoOffset == [page |-> 0, per_page |-> 0, got |-> {}, items |-> {}, total |-> 0]

-----------------------------------------------------------------------------
(* The queries *)

\* The limit of a request that is not answered with 422; the default counts
\* for a request without limit.
AcceptedLimit == {l \in Limit \cup {default_per_page} : 1 <= l /\ l <= max_per_page}

\* What a query may return: orders of the rows by the column.
Orders(rows) ==
    {s \in SetToSeqs(rows) : \A i, j \in DOMAIN s : i < j => Column[s[i]] <= Column[s[j]]}

AtMost(n, s) == SubSeq(s, 1, IF n < Len(s) THEN n ELSE Len(s))
LastOf(n, s) == SubSeq(s, IF n < Len(s) THEN Len(s) - n + 1 ELSE 1, Len(s))

\* cursor.after(v), or no bound, then first(n).
First(after, n) ==
    {AtMost(n, s) : s \in Orders({r \in table : after = NoToken \/ Column[r] > after})}

\* cursor.before(v), then last(n), which turns the order around twice.
LastRows(before, n) == {LastOf(n, s) : s \in Orders({r \in table : Column[r] < before})}

\* encode_cursor of extract(row), where there is a row.
Token(s, i) == IF s = <<>> THEN NoToken ELSE Column[s[i]]

\* Mutant: the row beyond the page makes the next token.
NextOfForwardBeyond(rows, limit) ==
    IF Len(rows) > limit THEN Token(rows, limit + 1) ELSE NoToken

\* Only the query's limit + 1 rows tell whether there are more.
NextOfForward(rows, limit) == IF Len(rows) > limit THEN Token(rows, limit) ELSE NoToken

\* exec_by, forward: the overflow row is cut at the end.
ForwardPage(rows, limit, after) ==
    LET data == AtMost(limit, rows)
    IN  [data |-> data,
         next |-> NextOfForward(rows, limit),
         prev |-> IF after # NoToken THEN Token(data, 1) ELSE NoToken]

\* drain: the overflow row is the first.
BackwardData(rows, limit) == LastOf(limit, rows)

\* exec_by, backward.
BackwardPage(rows, limit) ==
    LET data == BackwardData(rows, limit)
    IN  [data |-> data,
         next |-> Token(data, Len(data)),
         prev |-> IF Len(rows) > limit THEN Token(data, 1) ELSE NoToken]

-----------------------------------------------------------------------------
(* The client *)

\* A page arrives in a walk: history, and whether the walk goes on.
Deliver(rows, already, due, last) ==
    /\ repeated' = (repeated \/ rows \cap already # {})
    /\ seen' = already \cup rows
    /\ owed' = due \ rows
    /\ ended' = last

\* ?limit=
FirstPage ==
    \E limit \in AcceptedLimit : \E rows \in First(NoToken, limit + 1) :
        LET new == ForwardPage(rows, limit, NoToken) IN
        /\ walk = "none"
        /\ walk' = "forward"
        /\ page' = new
        /\ Deliver(ToSet(new.data), {}, table, new.next = NoToken)
        /\ UNCHANGED <<table, offset, changed>>

\* ?after=: goes on forward, or turns around.
After ==
    /\ page.next # NoToken
    /\ \E limit \in AcceptedLimit : \E rows \in First(page.next, limit + 1) :
        LET new == ForwardPage(rows, limit, page.next)
            turns == walk = "backward"
            ahead == {r \in table \ ToSet(page.data) : Column[r] >= page.next}
        IN  /\ walk' = "forward"
            /\ page' = new
            /\ Deliver(ToSet(new.data), IF turns THEN ToSet(page.data) ELSE seen,
                       IF turns THEN ahead ELSE owed, new.next = NoToken)
            /\ UNCHANGED <<table, offset, changed>>

\* ?before=
Before ==
    /\ page.prev # NoToken
    /\ \E limit \in AcceptedLimit : \E rows \in LastRows(page.prev, limit + 1) :
        LET new == BackwardPage(rows, limit)
            turns == walk = "forward"
            behind == {r \in table \ ToSet(page.data) : Column[r] <= page.prev}
        IN  /\ walk' = "backward"
            /\ page' = new
            /\ Deliver(ToSet(new.data), IF turns THEN ToSet(page.data) ELSE seen,
                       IF turns THEN behind ELSE owed, new.prev = NoToken)
            /\ UNCHANGED <<table, offset, changed>>

\* ?page=1&per_page=
StartOffset ==
    /\ walk = "none"
    /\ walk' = "offset"
    /\ \E n \in AcceptedLimit :
           offset' = [NoOffset EXCEPT !.page = 1, !.per_page = n]
    /\ owed' = table
    /\ UNCHANGED <<table, page, ended, seen, repeated, changed>>

\* The place of a row in the order that the handler's select asks for: of ids.
Place(r) == Cardinality({x \in table : x <= r})

\* The two queries of tokio::join! run in any order.
FetchPage ==
    LET start == (offset.page - 1) * offset.per_page
    IN  /\ walk = "offset" /\ ~ended /\ "items" \notin offset.got
        /\ offset' = [offset EXCEPT !.got = @ \cup {"items"},
                                    !.items = {r \in table : start < Place(r) /\ Place(r) <= start + offset.per_page}]
        /\ UNCHANGED <<table, page, walk, ended, owed, seen, repeated, changed>>

NumItems ==
    /\ walk = "offset" /\ ~ended /\ "total" \notin offset.got
    /\ offset' = [offset EXCEPT !.got = @ \cup {"total"}, !.total = Cardinality(table)]
    /\ UNCHANGED <<table, page, walk, ended, owed, seen, repeated, changed>>

\* total.div_ceil(per_page)
TotalPages == (offset.total + offset.per_page - 1) \div offset.per_page

\* Both answers are there; the client asks for the next page if has_next says so.
Paginated ==
    LET has_next == offset.page < TotalPages IN
    /\ walk = "offset" /\ ~ended
    /\ offset.got = {"items", "total"}
    /\ Deliver(offset.items, seen, owed, ~has_next)
    /\ offset' = [offset EXCEPT !.page = @ + 1, !.got = {}]
    /\ UNCHANGED <<table, page, walk, changed>>

\* Other requests insert and delete rows.
InsertRow ==
    /\ \E r \in Row \ table : table' = table \cup {r}
    /\ changed' = (changed \/ walk # "none")
    /\ UNCHANGED <<page, walk, offset, ended, owed, seen, repeated>>

DeleteRow ==
    /\ \E r \in table : /\ table' = table \ {r}
                        /\ owed' = owed \ {r}
    /\ changed' = (changed \/ walk # "none")
    /\ UNCHANGED <<page, walk, offset, ended, seen, repeated>>

PageInit ==
    /\ table \in SUBSET Row
    /\ page = NoPage
    /\ walk = "none"
    /\ offset = NoOffset
    /\ ended = FALSE
    /\ owed = {}
    /\ seen = {}
    /\ repeated = FALSE
    /\ changed = FALSE

PageNext ==
    \/ FirstPage \/ After \/ Before
    \/ StartOffset \/ FetchPage \/ NumItems \/ Paginated
    \/ InsertRow \/ DeleteRow

PageSpec == PageInit /\ [][PageNext]_pageVars

-----------------------------------------------------------------------------
\* A walk by cursor, forward or backward, brings no row twice, and at its end
\* it has brought every row that was there all the time, whatever rows came
\* and went between the pages, unless the row has the same value as a row
\* that was brought: the tokens need a column without duplicates.
CursorWalkCovers ==
    walk \in {"forward", "backward"} =>
        /\ ~repeated
        /\ ended => \A r \in owed : \E s \in seen : Column[s] = Column[r]

\* A walk by page number keeps this only while the table stays as it is.
OffsetWalkCovers ==
    walk = "offset" /\ ~changed => ~repeated /\ (ended => owed = {})

\* Both ways of walking over a table bring each row once, with what each needs.
WalksCover == CursorWalkCovers /\ OffsetWalkCovers

=============================================================================
