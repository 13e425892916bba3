------------------------------- MODULE Listing -------------------------------
(***************************************************************************)
(* GET /submissions: a client follows next_before from page to page while  *)
(* submissions are inserted and change their status.                       *)
(*                                                                         *)
(* A row may come with any created_at: Create reads the clock long before  *)
(* it inserts.  The language filter is left out, because a row keeps its   *)
(* language: with it, Tokens are the submissions in that language.         *)
(***************************************************************************)
EXTENDS Integers, Sequences, FiniteSets, Functions

CONSTANTS
    Tokens,        \* tokens, numbered in the order of the database
    NoToken,       \* no "before"
    MaxTime,       \* bound on created_at
    Asked,         \* limits a client may ask for, 0 for none
    DefaultLimit,  \* defaultListLimit
    MaxLimit       \* maxListLimit

ASSUME ListingAssumption ==
    /\ Tokens \subseteq Nat /\ IsFiniteSet(Tokens) /\ NoToken \notin Tokens
    /\ MaxTime \in Nat /\ Asked \subseteq Int
    /\ MaxLimit \in Nat /\ DefaultLimit \in 1..MaxLimit

VARIABLES
    row,      \* status_code, "none" when there is no row
    created,  \* created_at
    query,    \* what the client asks for on every page
    before,   \* the cursor of the next page
    pages,    \* what the client was given
    end,      \* "no" while the client goes on, or why it ended
    due       \* history: matched when the first page was read, and ever since

vars == <<row, created, query, before, pages, end, due>>

Statuses == {"queued", "processing", "finished"}

Init ==
    /\ row = [t \in Tokens |-> "none"]
    /\ created = [t \in Tokens |-> 0]
    /\ query \in [limit : Asked, status : Statuses \cup {"any"}]
    /\ before \in Tokens \cup {NoToken}
    /\ pages = <<>>
    /\ end = "no"
    /\ due = {}

-----------------------------------------------------------------------------
(* The rows *)

Filter(status) == query.status \in {"any", status}

\* The rows get these statuses; a row that leaves the filter is due no longer.
Become(status) ==
    /\ row' = status
    /\ due' = {t \in due : Filter(status[t])}
    /\ UNCHANGED <<query, before, pages, end>>

Insert(t) ==
    /\ row[t] = "none"
    /\ \E at \in 1..MaxTime : created' = [created EXCEPT ![t] = at]
    /\ Become([row EXCEPT ![t] = "queued"])

MarkProcessing(t) ==
    /\ row[t] = "queued"
    /\ Become([row EXCEPT ![t] = "processing"])
    /\ UNCHANGED created

StoreResult(t) ==
    /\ row[t] = "processing"
    /\ Become([row EXCEPT ![t] = "finished"])
    /\ UNCHANGED created

RecoverUnfinished ==
    /\ Become([t \in Tokens |-> IF row[t] = "processing" THEN "queued" ELSE row[t]])
    /\ UNCHANGED created

-----------------------------------------------------------------------------
(* The client *)

\* Service.List's limit.
Limit == IF query.limit = 0 THEN DefaultLimit
         ELSE IF query.limit > MaxLimit THEN MaxLimit ELSE query.limit

\* The limit is negative.
Invalid ==
    /\ end = "no"
    /\ Limit < 1
    /\ end' = "invalid"
    /\ UNCHANGED <<row, created, query, before, pages, due>>

\* Service.List looks the cursor up before it lists.
NotFound ==
    /\ end = "no"
    /\ Limit >= 1
    /\ before # NoToken /\ row[before] = "none"
    /\ end' = "not_found"
    /\ UNCHANGED <<row, created, query, before, pages, due>>

\* (created_at, token) orders the rows.
Newer(t, u) == created[t] > created[u] \/ (created[t] = created[u] /\ t > u)

\* The cursor is a row of its own: it need not match the filter (any longer).
\* OfTheFilter would look for it among the rows that match.
OfTheFilter ==
    {t \in Tokens : /\ row[t] # "none" /\ Filter(row[t])
                    /\ before # NoToken => Filter(row[before]) /\ Newer(before, t)}
Matching ==
    {t \in Tokens : /\ row[t] # "none" /\ Filter(row[t])
                    /\ before # NoToken => Newer(before, t)}

Newest(S, n) == {t \in S : Cardinality({u \in S : Newer(u, t)}) < n}

\* One row more than the page shows whether there is another page; guessing it
\* from a full page is WhenFull.
WhenFull == Cardinality(Newest(Matching, Limit)) = Limit
More     == Cardinality(Newest(Matching, Limit + 1)) > Limit

List ==
    LET page == Newest(Matching, Limit) IN
    /\ end = "no"
    /\ Limit >= 1
    /\ before # NoToken => row[before] # "none"
    /\ pages' = Append(pages, page)
    /\ \/ /\ More
          /\ before' \in page /\ \A t \in page : ~Newer(before', t)
          /\ UNCHANGED end
       \/ /\ ~More
          /\ end' = "complete"
          /\ UNCHANGED before
    /\ due' = IF pages = <<>> THEN Matching ELSE due
    /\ UNCHANGED <<row, created, query>>

Next ==
    \/ \E t \in Tokens : Insert(t) \/ MarkProcessing(t) \/ StoreResult(t)
    \/ RecoverUnfinished
    \/ Invalid \/ NotFound \/ List

Spec == Init /\ [][Next]_vars

-----------------------------------------------------------------------------

\* "List returns a newest-first page": every page continues the one before, so
\* that no submission is listed twice whatever was inserted or changed in
\* between; no page is longer than the limit, only the
\* last is shorter, and without a status filter next_before
\* is given only when something follows.
WellPaged ==
    /\ \A i, j \in DOMAIN pages :
          i < j => \A t \in pages[i], u \in pages[j] : Newer(t, u)
    /\ \A i \in DOMAIN pages :
          /\ Cardinality(pages[i]) <= Limit
          /\ i < Len(pages) => Cardinality(pages[i]) = Limit
    /\ query.status = "any" => \A i \in DOMAIN pages : i > 1 => pages[i] # {}

\* A client that has followed next_before to its end was given every submission
\* that was there at its first page and kept matching its filter, and the status
\* of the row that serves as the cursor has no part in it.
NoneMissed == end = "complete" => due \subseteq UNION Range(pages)

=============================================================================
