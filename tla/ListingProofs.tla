---------------------------- MODULE ListingProofs ----------------------------
(* Proofs about Listing, for every finite set of tokens and every limit.     *)
EXTENDS Listing, DataLemmas, SequenceTheorems

\* The types of the variables.
ListTypes ==
    /\ row \in [Tokens -> Statuses \cup {"none"}]
    /\ created \in [Tokens -> Nat]
    /\ query \in [limit : Asked, status : Statuses \cup {"any"}]
    /\ before \in Tokens \cup {NoToken}
    /\ pages \in Seq(SUBSET Tokens)
    /\ due \in SUBSET Tokens

\* What was listed is there, and while the client goes on the cursor is the
\* oldest of it, every page is full and something follows the last one.
Following ==
    /\ \A i \in DOMAIN pages : \A t \in pages[i] : row[t] # "none"
    /\ pages # <<>> /\ end = "no" =>
          /\ before \in Tokens /\ row[before] # "none"
          /\ \A i \in DOMAIN pages : \A t \in pages[i] : t = before \/ Newer(t, before)
          /\ \A i \in DOMAIN pages : Cardinality(pages[i]) = Limit
          /\ query.status = "any" =>
                \E t \in Tokens : row[t] # "none" /\ Newer(before, t)

\* What is due was listed or follows the cursor.
DueAhead ==
    /\ \A t \in due : row[t] # "none" /\ Filter(row[t])
    /\ pages = <<>> => due = {}
    /\ pages # <<>> /\ end = "no" =>
          \A t \in due : t \in UNION Range(pages) \/ Newer(before, t)
    /\ pages = <<>> => end # "complete"

\* That no page repeats or skips a row needs the place of the cursor among the
\* rows, and that none is missed needs what is due to be ahead of it.
ListInv == ListTypes /\ Following /\ WellPaged /\ DueAhead /\ NoneMissed

-----------------------------------------------------------------------------

\* (created_at, token) is a strict total order.
LEMMA NewerOrders ==
    ASSUME ListTypes, NEW t \in Tokens, NEW u \in Tokens
    PROVE  /\ ~Newer(t, t)
           /\ Newer(t, u) => ~Newer(u, t)
           /\ t = u \/ Newer(t, u) \/ Newer(u, t)
           /\ \A v \in Tokens : Newer(t, u) /\ Newer(u, v) => Newer(t, v)
<1>1. /\ t \in Nat /\ u \in Nat /\ created[t] \in Nat /\ created[u] \in Nat
      /\ \A v \in Tokens : v \in Nat /\ created[v] \in Nat
  BY ListingAssumption DEF ListTypes
<1>. QED
  BY <1>1 DEF Newer

\* The rows before t, and their number.
Preceding(S, t) == {u \in S : Newer(u, t)}

\* They are finitely many.
LEMMA PrecedingFinite ==
    ASSUME NEW S \in SUBSET Tokens, NEW t
    PROVE  /\ IsFiniteSet(S) /\ Cardinality(S) \in Nat
           /\ IsFiniteSet(Preceding(S, t)) /\ Cardinality(Preceding(S, t)) \in Nat
  BY ListingAssumption, FS_Subset, FS_CardinalityType DEF Preceding

\* What is newer has fewer before it.
LEMMA NewerPrecedes ==
    ASSUME ListTypes, NEW S \in SUBSET Tokens, NEW t \in S, NEW u \in S, Newer(t, u)
    PROVE  Cardinality(Preceding(S, t)) < Cardinality(Preceding(S, u))
<1> DEFINE T == Preceding(S, t)
           U == Preceding(S, u)
<1>1. T \in SUBSET U /\ t \in U /\ t \notin T
  BY NewerOrders DEF Preceding
<1>2. IsFiniteSet(U) /\ Cardinality(U) \in Nat /\ Cardinality(T) \in Nat
  BY PrecedingFinite
<1> HIDE DEF T, U
<1>3. Cardinality(T) <= Cardinality(U) /\ Cardinality(T) # Cardinality(U)
  BY <1>1, <1>2, FS_Subset
<1>. QED
  BY <1>2, <1>3 DEF T, U

\* A page is a part of the rows, and all of it is newer than the rest.
LEMMA NewestFirst ==
    ASSUME ListTypes, NEW S \in SUBSET Tokens, NEW n \in Nat
    PROVE  /\ Newest(S, n) \in SUBSET S
           /\ \A t \in Newest(S, n), u \in S \ Newest(S, n) : Newer(t, u)
<1>1. Newest(S, n) = {t \in S : Cardinality(Preceding(S, t)) < n}
  BY DEF Newest, Preceding
<1>2. ASSUME NEW t \in Newest(S, n), NEW u \in S \ Newest(S, n)
      PROVE  Newer(t, u)
  <2>1. t \in S /\ u \in S /\ t # u /\ ~(Cardinality(Preceding(S, u)) < n)
        /\ Cardinality(Preceding(S, t)) < n
    BY <1>1
  <2>2. Cardinality(Preceding(S, t)) \in Nat /\ Cardinality(Preceding(S, u)) \in Nat
    BY PrecedingFinite
  <2>3. ~Newer(u, t)
    BY <2>1, <2>2, NewerPrecedes
  <2>. QED
    BY <2>1, <2>3, NewerOrders
<1>. QED
  BY <1>1, <1>2

\* No page is longer than its limit.
LEMMA NewestBounded ==
    ASSUME ListTypes, NEW S \in SUBSET Tokens, NEW n \in Nat
    PROVE  Cardinality(Newest(S, n)) <= n
<1> DEFINE P == Newest(S, n)
           R == 0..(n - 1)
           f == [t \in P |-> Cardinality(Preceding(S, t))]
<1>1. P = {t \in S : Cardinality(Preceding(S, t)) < n}
  BY DEF Newest, Preceding
<1>2. IsFiniteSet(R) /\ Cardinality(R) = n
  <2>1. IsFiniteSet(R) /\ Cardinality(R) = IF 0 > n - 1 THEN 0 ELSE (n - 1) - 0 + 1
    BY FS_Interval
  <2>. QED
    BY <2>1
<1>3. f \in [P -> R]
  <2>1. \A t \in P : Cardinality(Preceding(S, t)) \in R
    BY <1>1, PrecedingFinite
  <2>. HIDE DEF P, R
  <2>. QED
    BY <2>1
<1>4. \A t, u \in P : f[t] = f[u] => t = u
  <2>. SUFFICES ASSUME NEW t \in P, NEW u \in P, t # u PROVE f[t] # f[u]
    OBVIOUS
  <2>1. t \in S /\ u \in S /\ (Newer(t, u) \/ Newer(u, t))
    BY <1>1, NewerOrders
  <2>2. Cardinality(Preceding(S, t)) \in Nat /\ Cardinality(Preceding(S, u)) \in Nat
    BY PrecedingFinite
  <2>. QED
    BY <2>1, <2>2, NewerPrecedes
<1> HIDE DEF P, R, f
<1>5. f \in Injection(P, R)
  BY <1>3, <1>4 DEF Injection, IsInjective
<1>. QED
  BY <1>2, <1>5, FS_Injection DEF P

\* A page that leaves something out is full, and shows that there is more.
LEMMA NewestFull ==
    ASSUME ListTypes, NEW S \in SUBSET Tokens, NEW n \in Nat, Newest(S, n) # S
    PROVE  Cardinality(Newest(S, n)) = n /\ Cardinality(Newest(S, n + 1)) > n
<1> DEFINE P == Newest(S, n)
           Q == Newest(S, n + 1)
           B == {Preceding(S, t) : t \in S \ P}
<1>1. /\ P = {t \in S : Cardinality(Preceding(S, t)) < n}
      /\ Q = {t \in S : Cardinality(Preceding(S, t)) < n + 1}
  BY DEF Newest, Preceding
<1>2. IsFiniteSet(S) /\ IsFiniteSet(P) /\ IsFiniteSet(Q)
      /\ Cardinality(P) \in Nat /\ Cardinality(Q) \in Nat
  BY <1>1, PrecedingFinite, FS_Subset, FS_CardinalityType
<1>3. PICK t \in S \ P : \A u \in S \ P : ~Newer(u, t)
  <2>1. B \subseteq SUBSET S /\ B # {}
    <3>1. \E t \in S : t \notin P
      BY <1>1
    <3>. QED
      BY <3>1 DEF Preceding
  <2>2. PICK s \in B : \A r \in B : r \subseteq s => r = s
    <3>. HIDE DEF B
    <3>. QED
      BY <1>2, <2>1, MinimalSet
  <2>3. PICK t \in S \ P : s = Preceding(S, t)
    OBVIOUS
  <2>4. ASSUME NEW u \in S \ P, Newer(u, t) PROVE FALSE
    <3>1. Preceding(S, u) \in B
      OBVIOUS
    <3>2. Preceding(S, u) \subseteq s
      BY <2>3, <2>4, NewerOrders DEF Preceding
    <3>3. Preceding(S, u) = Preceding(S, t)
      BY <2>2, <2>3, <3>1, <3>2
    <3>4. u \in Preceding(S, t) /\ u \notin Preceding(S, u)
      BY <2>4, NewerOrders DEF Preceding
    <3>. QED
      BY <3>3, <3>4
  <2>. QED
    BY <2>4
<1> DEFINE T == Preceding(S, t)
<1>4. T \in SUBSET P
  BY <1>3 DEF Preceding
<1>5. Cardinality(T) \in Nat /\ Cardinality(T) >= n
  <2>1. t \in S /\ ~(Cardinality(T) < n)
    BY <1>1, <1>3
  <2>2. Cardinality(T) \in Nat
    BY PrecedingFinite
  <2>. QED
    BY <2>1, <2>2
<1>6. Cardinality(P) <= n
  BY NewestBounded
<1>7. P \in SUBSET Q
  <2>1. \A u \in S : Cardinality(Preceding(S, u)) \in Nat
    BY PrecedingFinite
  <2>. QED
    BY <1>1, <2>1
<1>8. t \in S /\ t \notin P
  BY <1>3
<1> HIDE DEF P, Q, T
<1>9. Cardinality(T) <= Cardinality(P)
  BY <1>2, <1>4, FS_Subset
<1>10. Cardinality(P) = n /\ Cardinality(T) = n
  BY <1>2, <1>5, <1>6, <1>9
<1>11. P \cup {t} \in SUBSET Q
  <2>1. Cardinality(T) < n + 1
    BY <1>10
  <2>. QED
    BY <1>1, <1>7, <1>8, <2>1 DEF T
<1>12. Cardinality(P \cup {t}) = n + 1
  BY <1>2, <1>8, <1>10, FS_AddElement
<1>13. Cardinality(P \cup {t}) <= Cardinality(Q)
  BY <1>2, <1>11, FS_Subset
<1>. QED
  BY <1>2, <1>10, <1>12, <1>13 DEF P, Q

-----------------------------------------------------------------------------

\* Before the first page nothing is listed and nothing is due.
LEMMA ListInit == Init => ListInv
<1>. SUFFICES ASSUME Init PROVE ListInv
  OBVIOUS
<1>1. /\ pages = <<>> /\ due = {} /\ end = "no" /\ DOMAIN pages = {} /\ Len(pages) = 0
  BY DEF Init
<1>2. ListTypes
  <2>1. <<>> \in Seq(SUBSET Tokens)
    BY EmptySeq
  <2>. QED
    BY <2>1 DEF Init, ListTypes
<1>3. Following /\ DueAhead
  BY <1>1 DEF Following, DueAhead
<1>4. WellPaged /\ NoneMissed
  BY <1>1 DEF WellPaged, NoneMissed
<1>. QED
  BY <1>2, <1>3, <1>4 DEF ListInv

\* The pages are made of tokens.
LEMMA PagesAre ==
    ASSUME ListTypes
    PROVE  /\ Len(pages) \in Nat /\ DOMAIN pages = 1..Len(pages)
           /\ \A i \in DOMAIN pages : pages[i] \in SUBSET Tokens
           /\ pages = <<>> <=> Len(pages) = 0
  BY DEF ListTypes

\* Rows are inserted and change their status; those that are there keep their place.
LEMMA RowsMove ==
    ASSUME ListInv, UNCHANGED <<query, before, pages, end>>,
           row' \in [Tokens -> Statuses \cup {"none"}], created' \in [Tokens -> Nat],
           \A t \in Tokens : row[t] # "none" => row'[t] # "none" /\ created'[t] = created[t],
           due' = {t \in due : Filter(row'[t])}
    PROVE  ListInv'
<1>1. /\ ListTypes /\ Following /\ WellPaged /\ DueAhead /\ NoneMissed
      /\ \A i \in DOMAIN pages : pages[i] \in SUBSET Tokens
      /\ due \in SUBSET Tokens
  BY PagesAre DEF ListInv, ListTypes
<1>2. Limit' = Limit /\ \A status : Filter(status)' <=> Filter(status)
  BY DEF Limit, Filter
<1>3. \A t, u \in Tokens : row[t] # "none" /\ row[u] # "none" => (Newer(t, u)' <=> Newer(t, u))
  BY DEF Newer
<1>4. ListTypes'
  BY <1>1 DEF ListTypes
<1>5. Following'
  BY <1>1, <1>2, <1>3 DEF Following
<1>6. WellPaged'
  <2>1. \A i \in DOMAIN pages : \A t \in pages[i] : t \in Tokens /\ row[t] # "none"
    BY <1>1 DEF Following
  <2>. QED
    BY <1>1, <1>2, <1>3, <2>1 DEF WellPaged
<1>7. DueAhead'
  <2>1. ASSUME NEW t \in due'
        PROVE  /\ t \in due /\ t \in Tokens /\ row[t] # "none" /\ row'[t] # "none"
               /\ Filter(row[t])'
    <3>1. t \in due /\ Filter(row'[t])
      OBVIOUS
    <3>2. t \in Tokens /\ row[t] # "none"
      BY <1>1, <3>1 DEF DueAhead
    <3>3. Filter(row[t])'
      BY <3>1 DEF Filter
    <3>. QED
      BY <3>1, <3>2, <3>3
  <2>2. pages # <<>> /\ end = "no" => before \in Tokens /\ row[before] # "none"
    BY <1>1 DEF Following
  <2>. QED
    BY <1>1, <1>3, <2>1, <2>2 DEF DueAhead
<1>8. NoneMissed'
  BY <1>1 DEF NoneMissed
<1>. QED
  BY <1>4, <1>5, <1>6, <1>7, <1>8 DEF ListInv

\* The steps of the server.
LEMMA RowsNext ==
    ASSUME ListInv,
           RecoverUnfinished \/ \E t \in Tokens : Insert(t) \/ MarkProcessing(t) \/ StoreResult(t)
    PROVE  ListInv'
<1>1. ListTypes /\ MaxTime \in Nat
  BY ListingAssumption DEF ListInv
<1>2. CASE RecoverUnfinished
  <2>1. /\ row' = [t \in Tokens |-> IF row[t] = "processing" THEN "queued" ELSE row[t]]
        /\ UNCHANGED <<query, before, pages, end, created>> /\ due' = {t \in due : Filter(row'[t])}
    BY <1>2 DEF RecoverUnfinished, Become
  <2>2. row' \in [Tokens -> Statuses \cup {"none"}] /\ created' \in [Tokens -> Nat]
    BY <1>1, <2>1 DEF ListTypes, Statuses
  <2>. QED
    BY <2>1, <2>2, RowsMove
<1>3. ASSUME NEW t \in Tokens, Insert(t) PROVE ListInv'
  <2>1. PICK at \in 1..MaxTime : created' = [created EXCEPT ![t] = at]
    BY <1>3 DEF Insert
  <2>2. /\ row' = [row EXCEPT ![t] = "queued"] /\ row[t] = "none"
        /\ UNCHANGED <<query, before, pages, end>> /\ due' = {u \in due : Filter(row'[u])}
    BY <1>3 DEF Insert, Become
  <2>3. row' \in [Tokens -> Statuses \cup {"none"}] /\ created' \in [Tokens -> Nat]
    BY <1>1, <2>1, <2>2 DEF ListTypes, Statuses
  <2>4. \A u \in Tokens : row[u] # "none" => row'[u] # "none" /\ created'[u] = created[u]
    BY <1>1, <2>1, <2>2 DEF ListTypes
  <2>. QED
    BY <2>2, <2>3, <2>4, RowsMove
<1>4. ASSUME NEW t \in Tokens, MarkProcessing(t) \/ StoreResult(t) PROVE ListInv'
  <2>1. PICK status \in {"processing", "finished"} :
            /\ row' = [row EXCEPT ![t] = status] /\ UNCHANGED <<query, before, pages, end, created>>
            /\ due' = {u \in due : Filter(row'[u])}
    BY <1>4 DEF MarkProcessing, StoreResult, Become
  <2>2. row' \in [Tokens -> Statuses \cup {"none"}] /\ created' \in [Tokens -> Nat]
    BY <1>1, <2>1 DEF ListTypes, Statuses
  <2>3. \A u \in Tokens : row[u] # "none" => row'[u] # "none" /\ created'[u] = created[u]
    BY <1>1, <2>1 DEF ListTypes
  <2>. QED
    BY <2>1, <2>2, <2>3, RowsMove
<1>. QED
  BY <1>2, <1>3, <1>4

\* The client gives up.
LEMMA ClientEnds == ASSUME ListInv, Invalid \/ NotFound \/ UNCHANGED vars PROVE ListInv'
<1>1. /\ UNCHANGED <<row, created, query, before, pages, due>>
      /\ end' = end \/ end' \in {"invalid", "not_found"}
  BY DEF Invalid, NotFound, vars
<1>2. Limit' = Limit /\ (\A status : Filter(status)' <=> Filter(status))
      /\ \A t, u : Newer(t, u)' <=> Newer(t, u)
  BY <1>1 DEF Limit, Filter, Newer
<1>3. ListTypes' /\ Following' /\ DueAhead'
  BY <1>1, <1>2 DEF ListInv, ListTypes, Following, DueAhead
<1>4. WellPaged' /\ NoneMissed'
  BY <1>1, <1>2 DEF ListInv, WellPaged, NoneMissed
<1>. QED
  BY <1>3, <1>4 DEF ListInv

\* A limit that was not refused is a positive number.
LEMMA LimitType ==
    ASSUME ListTypes, Limit >= 1
    PROVE  Limit \in Nat \ {0} /\ Limit + 1 \in Nat
<1>1. query.limit \in Int /\ DefaultLimit \in Int /\ MaxLimit \in Int
  <2>1. query.limit \in Asked
    BY DEF ListTypes
  <2>2. \A a \in Asked : a \in Int
    BY ListingAssumption
  <2>3. MaxLimit \in Int /\ DefaultLimit \in Int
    BY ListingAssumption
  <2>. QED
    BY <2>1, <2>2, <2>3
<1>2. Limit \in Int
  BY <1>1 DEF Limit
<1>. QED
  BY <1>2

\* What the next page is: the newest of the rows that match.
LEMMA PageIs ==
    ASSUME ListTypes, Limit >= 1, NEW page, page = Newest(Matching, Limit)
    PROVE  /\ page \in SUBSET Matching /\ Matching \in SUBSET Tokens
           /\ \A t \in page, u \in Matching \ page : Newer(t, u)
           /\ Cardinality(page) <= Limit
           /\ More <=> page # Matching
           /\ More => Cardinality(page) = Limit
           /\ page = {} => Matching = {}
<1> DEFINE L == Limit
           M == Matching
<1>1. L \in Nat \ {0} /\ L + 1 \in Nat /\ M \in SUBSET Tokens
  BY LimitType DEF Matching
<1>2. More <=> Cardinality(Newest(M, L + 1)) > L
  BY DEF More
<1>3. page = Newest(M, L)
  OBVIOUS
<1> HIDE DEF L, M
<1>4. /\ page \in SUBSET M /\ \A t \in page, u \in M \ page : Newer(t, u)
      /\ Cardinality(page) <= L
  BY <1>1, <1>3, NewestFirst, NewestBounded
<1>5. page # M => More /\ Cardinality(page) = L
  BY <1>1, <1>2, <1>3, NewestFull
<1>6. More => page # M
  <2>. SUFFICES ASSUME page = M PROVE ~More
    OBVIOUS
  <2>1. IsFiniteSet(M) /\ Cardinality(M) \in Nat
    BY <1>1, PrecedingFinite
  <2>2. Newest(M, L + 1) \in SUBSET M
    BY <1>1, NewestFirst
  <2>3. Cardinality(Newest(M, L + 1)) <= Cardinality(M) /\ Cardinality(Newest(M, L + 1)) \in Nat
    BY <2>1, <2>2, FS_Subset, FS_CardinalityType
  <2>. QED
    BY <1>1, <1>2, <1>4, <2>1, <2>3
<1>7. page = {} => M = {}
  <2>1. Cardinality({}) = 0
    BY FS_EmptySet
  <2>. QED
    BY <1>1, <1>5, <2>1
<1>. QED
  BY <1>1, <1>4, <1>5, <1>6, <1>7 DEF L, M

\* A page more.
LEMMA PageAdded ==
    ASSUME ListTypes, NEW page \in SUBSET Tokens, pages' = Append(pages, page), NEW m, m = Len(pages)
    PROVE  /\ m \in Nat /\ DOMAIN pages = 1..m /\ DOMAIN pages' = 1..(m + 1)
           /\ Len(pages') = m + 1 /\ pages' \in Seq(SUBSET Tokens) /\ pages' # <<>>
           /\ pages'[m + 1] = page /\ \A i \in 1..m : pages'[i] = pages[i]
           /\ UNION Range(pages') = (UNION Range(pages)) \cup page
<1>1. /\ pages \in Seq(SUBSET Tokens) /\ m \in Nat
      /\ pages' \in Seq(SUBSET Tokens) /\ Len(pages') = m + 1
      /\ pages'[m + 1] = page /\ \A i \in 1..m : pages'[i] = pages[i]
  BY AppendProperties DEF ListTypes
<1>2. DOMAIN pages = 1..m /\ DOMAIN pages' = 1..(m + 1)
  BY <1>1, LenProperties
<1>3. \A i \in 1..(m + 1) : i \in 1..m \/ i = m + 1
  BY <1>1
<1>4. \A i \in 1..m : i \in 1..(m + 1)
  BY <1>1
<1>5. m + 1 \in 1..(m + 1)
  BY <1>1
<1>6. ASSUME NEW t PROVE t \in UNION Range(pages') <=> t \in (UNION Range(pages)) \cup page
  <2>1. t \in UNION Range(pages') <=> \E i \in 1..(m + 1) : t \in pages'[i]
    BY <1>2 DEF Range
  <2>2. t \in UNION Range(pages) <=> \E i \in 1..m : t \in pages[i]
    BY <1>2 DEF Range
  <2>3. ASSUME t \in UNION Range(pages') PROVE t \in (UNION Range(pages)) \cup page
    <3>1. PICK i \in 1..(m + 1) : t \in pages'[i]
      BY <2>1, <2>3
    <3>2. CASE i = m + 1
      BY <1>1, <3>1, <3>2
    <3>3. CASE i \in 1..m
      BY <1>1, <2>2, <3>1, <3>3
    <3>. QED
      BY <1>3, <3>2, <3>3
  <2>4. ASSUME t \in (UNION Range(pages)) \cup page PROVE t \in UNION Range(pages')
    <3>1. CASE t \in page
      BY <1>1, <1>5, <2>1, <3>1
    <3>2. CASE t \in UNION Range(pages)
      BY <1>1, <1>4, <2>1, <2>2, <3>2
    <3>. QED
      BY <2>4, <3>1, <3>2
  <2>. QED
    BY <2>3, <2>4
<1>7. pages' # <<>>
  BY <1>1
<1>. QED
  BY <1>1, <1>2, <1>6, <1>7

\* A page is read.
LEMMA PageListed == ASSUME ListInv, List PROVE ListInv'
<1> DEFINE page == Newest(Matching, Limit)
<1>1. /\ ListTypes /\ Following /\ WellPaged /\ DueAhead /\ end = "no" /\ Limit >= 1
      /\ before # NoToken => row[before] # "none"
      /\ pages' = Append(pages, page) /\ UNCHANGED <<row, created, query>>
      /\ due' = IF pages = <<>> THEN Matching ELSE due
      /\ \/ More /\ before' \in page /\ (\A t \in page : ~Newer(before', t)) /\ end' = end
         \/ ~More /\ end' = "complete" /\ before' = before
  BY DEF ListInv, List
<1>2. /\ page \in SUBSET Matching /\ Matching \in SUBSET Tokens
      /\ \A t \in page, u \in Matching \ page : Newer(t, u)
      /\ Cardinality(page) <= Limit
      /\ More <=> page # Matching
      /\ More => Cardinality(page) = Limit
      /\ page = {} => Matching = {}
  BY <1>1, PageIs
<1> HIDE DEF page
<1>3. PICK m : m = Len(pages)
  OBVIOUS
<1>4. /\ m \in Nat /\ DOMAIN pages = 1..m /\ DOMAIN pages' = 1..(m + 1)
      /\ Len(pages') = m + 1 /\ pages' \in Seq(SUBSET Tokens) /\ pages' # <<>>
      /\ pages'[m + 1] = page /\ \A i \in 1..m : pages'[i] = pages[i]
      /\ UNION Range(pages') = (UNION Range(pages)) \cup page
  BY <1>1, <1>2, <1>3, PageAdded
<1>5. /\ Limit' = Limit /\ (\A status : Filter(status)' <=> Filter(status))
      /\ \A t, u \in Tokens : Newer(t, u)' <=> Newer(t, u)
  BY <1>1 DEF Limit, Filter, Newer
<1>6. \A t \in Matching : /\ t \in Tokens /\ row[t] # "none" /\ Filter(row[t])
                          /\ before # NoToken => Newer(before, t)
  BY DEF Matching
<1>7. \A i \in 1..m : pages[i] \in SUBSET Tokens
  BY <1>1, <1>4, PagesAre
<1>8. ASSUME m # 0
      PROVE  /\ pages # <<>> /\ before \in Tokens /\ before # NoToken
             /\ \A i \in 1..m : \A t \in pages[i] : t = before \/ Newer(t, before)
             /\ \A i \in 1..m : Cardinality(pages[i]) = Limit
             /\ query.status = "any" => \E t \in Tokens : row[t] # "none" /\ Newer(before, t)
             /\ \A t \in due : t \in UNION Range(pages) \/ Newer(before, t)
  <2>1. pages # <<>>
    BY <1>1, <1>3, <1>8, PagesAre
  <2>. QED
    BY <1>1, <1>4, <2>1, ListingAssumption DEF Following, DueAhead
<1>9. \A i \in 1..m : \A t \in pages[i], u \in page : Newer(t, u)
  <2>. SUFFICES ASSUME NEW i \in 1..m, NEW t \in pages[i], NEW u \in page PROVE Newer(t, u)
    OBVIOUS
  <2>1. /\ t \in Tokens /\ u \in Tokens /\ before \in Tokens /\ Newer(before, u)
        /\ t = before \/ Newer(t, before)
    BY <1>2, <1>4, <1>6, <1>7, <1>8
  <2>. QED
    BY <1>1, <2>1, NewerOrders
<1>10. ListTypes'
  <2>1. due' \in SUBSET Tokens /\ before' \in Tokens \cup {NoToken}
    BY <1>1, <1>2 DEF ListTypes
  <2>. QED
    BY <1>1, <1>4, <2>1 DEF ListTypes
<1>11. ASSUME More
       PROVE  /\ before' \in Tokens /\ row'[before'] # "none"
              /\ \A t \in page : t = before' \/ Newer(t, before')
              /\ \A u \in Matching \ page : Newer(before', u)
              /\ \A i \in 1..m : \A t \in pages[i] : Newer(t, before')
  BY <1>1, <1>2, <1>6, <1>9, <1>11, NewerOrders
<1>12. Following'
  <2>1. \A i \in 1..(m + 1) : i \in 1..m \/ i = m + 1
    BY <1>4
  <2>2. ASSUME NEW i \in 1..(m + 1), NEW t \in pages'[i] PROVE row'[t] # "none"
    <3>1. CASE i \in 1..m
      BY <1>1, <1>4, <2>2, <3>1 DEF Following
    <3>2. CASE i = m + 1
      BY <1>1, <1>2, <1>4, <1>6, <2>2, <3>2
    <3>. QED
      BY <2>1, <3>1, <3>2
  <2>3. CASE ~More
    BY <1>1, <1>4, <2>2, <2>3 DEF Following
  <2>4. CASE More
    <3>1. ASSUME NEW i \in 1..(m + 1), NEW t \in pages'[i]
          PROVE  t = before' \/ Newer(t, before')
      BY <1>4, <1>11, <2>1, <2>4, <3>1
    <3>2. ASSUME NEW i \in 1..(m + 1) PROVE Cardinality(pages'[i]) = Limit
      BY <1>2, <1>4, <1>8, <2>1, <2>4
    <3>3. \E t \in Tokens : row[t] # "none" /\ Newer(before', t)
      <4>1. PICK t \in Matching : t \notin page
        BY <1>2, <2>4
      <4>. QED
        BY <1>2, <1>6, <1>11, <2>4, <4>1
    <3>4. \A i \in 1..(m + 1) : \A t \in pages'[i] : t \in Tokens
      BY <1>2, <1>4, <1>7, <2>1
    <3>. QED
      BY <1>1, <1>4, <1>5, <1>11, <2>2, <2>4, <3>1, <3>2, <3>3, <3>4 DEF Following, Newer
  <2>. QED
    BY <2>3, <2>4
<1>13. WellPaged'
  <2>1. \A i \in 1..(m + 1) : i \in 1..m \/ i = m + 1
    BY <1>4
  <2>2. ASSUME NEW i \in 1..(m + 1), NEW j \in 1..(m + 1), i < j,
               NEW t \in pages'[i], NEW u \in pages'[j]
        PROVE  Newer(t, u)
    <3>1. i \in 1..m
      BY <1>4, <2>2
    <3>2. CASE j \in 1..m
      BY <1>1, <1>4, <2>2, <3>1, <3>2 DEF WellPaged
    <3>3. CASE j = m + 1
      BY <1>4, <1>9, <2>2, <3>1, <3>3
    <3>. QED
      BY <2>1, <3>2, <3>3
  <2>3. ASSUME NEW i \in 1..(m + 1)
        PROVE  /\ Cardinality(pages'[i]) <= Limit
               /\ i < m + 1 => Cardinality(pages'[i]) = Limit
    <3>1. CASE i \in 1..m
      <4>1. Cardinality(pages'[i]) = Limit
        BY <1>4, <1>8, <3>1
      <4>. QED
        BY <1>1, <4>1, LimitType
    <3>2. CASE i = m + 1
      BY <1>2, <1>4, <3>2
    <3>. QED
      BY <2>1, <3>1, <3>2
  <2>4. ASSUME query.status = "any", NEW i \in 1..(m + 1), i > 1 PROVE pages'[i] # {}
    <3>1. CASE i \in 1..m
      BY <1>1, <1>4, <2>4, <3>1 DEF WellPaged
    <3>2. CASE i = m + 1
      <4>1. m # 0
        BY <1>4, <2>4, <3>2
      <4>2. PICK t \in Tokens : row[t] # "none" /\ Newer(before, t)
        BY <1>8, <2>4, <4>1
      <4>3. t \in Matching
        BY <2>4, <4>2 DEF Matching, Filter
      <4>. QED
        BY <1>2, <1>4, <3>2, <4>3
    <3>. QED
      BY <2>1, <3>1, <3>2
  <2>5. \A i \in 1..(m + 1) : \A t \in pages'[i] : t \in Tokens
    BY <1>2, <1>4, <1>7, <2>1
  <2>. QED
    BY <1>1, <1>4, <1>5, <2>2, <2>3, <2>4, <2>5 DEF WellPaged
<1>14. /\ \A t \in due' : t \in UNION Range(pages') \/ (t \in Matching /\ t \notin page)
       /\ \A t \in due' : t \in Tokens /\ row[t] # "none" /\ Filter(row[t])
  <2>1. CASE pages = <<>>
    <3>1. due' = Matching
      BY <1>1, <2>1
    <3>2. \A t \in page : t \in UNION Range(pages')
      BY <1>4
    <3>. QED
      BY <1>6, <3>1, <3>2
  <2>2. CASE pages # <<>>
    <3>1. m # 0
      BY <1>1, <1>3, <2>2, PagesAre
    <3>2. \A t \in due : t \in Tokens /\ row[t] # "none" /\ Filter(row[t])
      BY <1>1 DEF DueAhead, ListTypes
    <3>3. \A t \in due : t \in UNION Range(pages) \/ t \in Matching
      BY <1>8, <3>1, <3>2 DEF Matching
    <3>4. due' = due
      BY <1>1, <2>2
    <3>5. \A t : t \in UNION Range(pages) \/ t \in page => t \in UNION Range(pages')
      BY <1>4
    <3>. QED
      BY <3>2, <3>3, <3>4, <3>5
  <2>. QED
    BY <2>1, <2>2
<1>15. DueAhead' /\ NoneMissed'
  <2>1. CASE More
    <3>1. \A t \in due' : t \in UNION Range(pages') \/ Newer(before', t)
      BY <1>11, <1>14, <2>1
    <3>. QED
      BY <1>1, <1>4, <1>5, <1>11, <1>14, <2>1, <3>1 DEF DueAhead, NoneMissed, Newer
  <2>2. CASE ~More
    <3>1. due' \subseteq UNION Range(pages')
      BY <1>2, <1>14, <2>2
    <3>. QED
      BY <1>1, <1>4, <1>5, <1>14, <2>2, <3>1 DEF DueAhead, NoneMissed
  <2>. QED
    BY <2>1, <2>2
<1>. QED
  BY <1>10, <1>12, <1>13, <1>15 DEF ListInv

\* ListInv holds in every reachable state.
THEOREM ListingInvariance == Spec => []ListInv
<1>1. ListInv /\ [Next]_vars => ListInv'
  BY RowsNext, ClientEnds, PageListed DEF Next
<1>. QED
  BY ListInit, <1>1, PTL DEF Spec

\* A page continues where the one before it ended: all its rows are older, and
\* only the last page is shorter than the limit (List).
THEOREM PagesContinue == Spec => []WellPaged
<1>1. ListInv => WellPaged
  BY DEF ListInv
<1>. QED
  BY ListingInvariance, <1>1, PTL

\* A client that follows next_before to the end has been given every row that
\* matched all the while (List, ListQuery.Before).
THEOREM NoneIsMissed == Spec => []NoneMissed
<1>1. ListInv => NoneMissed
  BY DEF ListInv
<1>. QED
  BY ListingInvariance, <1>1, PTL

=============================================================================
