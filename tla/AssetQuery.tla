----------------------------- MODULE AssetQuery ------------------------------
(***************************************************************************)
(* internal/api/query.go and handlers.go: the list of assets the API       *)
(* serves.  db maps an asset to its row, or to NoRow; the columns the      *)
(* filters and orders do not tell apart are left out, and with them the    *)
(* queries that fill the addresses and host names of each item.  SQLite    *)
(* leaves the order of equal times open, so a request has several answers. *)
(***************************************************************************)
EXTENDS TextTime, SequencesExt

CONSTANTS
    Assets,     \* ids of assets
    Statuses,
    NoRow,      \* an asset the database does not have
    NoTime,     \* the zero time of a filter
    AnyStatus,  \* a status filter that is not given
    DefaultLimit, MaxLimit  \* 100 and 1000

ASSUME QueryAssumption ==
    /\ DefaultLimit \in Nat \ {0}
    /\ MaxLimit \in Nat /\ MaxLimit >= DefaultLimit
    /\ AnyStatus \notin Statuses

Row == [status: Statuses, first: Time, last: Time]

Sorts == {"first_seen_asc", "first_seen_desc", "last_seen_asc", "last_seen_desc", "other"}

Filter == [status: Statuses \cup {AnyStatus}, seenAfter: Time \cup {NoTime},
           seenBefore: Time \cup {NoTime}, sort: Sorts, limit: Int]

\* limit, unless it is out of bounds.
EffectiveLimit(limit) ==
    IF limit <= 0 \/ limit > MaxLimit THEN DefaultLimit ELSE limit

\* The conditions of WHERE. Times are compared as text.
Matches(row, f) ==
    /\ row # NoRow
    /\ f.status # AnyStatus => row.status = f.status
    /\ f.seenAfter # NoTime => ~TextBefore(row.last, f.seenAfter)
    /\ f.seenBefore # NoTime => ~TextBefore(f.seenBefore, row.last)

Matching(db, f) == {a \in Assets : Matches(db[a], f)}

\* ORDER BY: the default and everything unknown is last seen, latest first.
Sorted(t, u, sort) ==
    CASE sort = "first_seen_asc"  -> ~TextBefore(u.first, t.first)
      [] sort = "first_seen_desc" -> ~TextBefore(t.first, u.first)
      [] sort = "last_seen_asc"   -> ~TextBefore(u.last, t.last)
      [] OTHER                    -> ~TextBefore(t.last, u.last)

Ordered(db, sort, s) == \A i, j \in DOMAIN s : i < j => Sorted(db[s[i]], db[s[j]], sort)

\* LIMIT limit + 1: one row more than the page shows.
Fetched(s, limit) == SubSeq(s, 1, Min({limit + 1, Len(s)}))

\* Mutant of NextCursor: compared with the limit the wrong way.
NextCursorBeyond(db, rows, items, limit) ==
    IF Len(items) > limit THEN db[Last(rows)].last ELSE NoTime

\* The last row that was fetched gives the cursor, if the page is full.
NextCursor(db, rows, items, limit) ==
    IF Len(items) = limit THEN db[Last(rows)].last ELSE NoTime

\* Mutant of ListAssets: LIMIT before ORDER BY.
ListAssetsUnsorted(db, f) ==
    LET limit == EffectiveLimit(f.limit)
        found == {Fetched(s, limit) : s \in SetToSeqs(Matching(db, f))} IN
    {[items |-> SubSeq(rows, 1, Min({limit, Len(rows)})),
      next  |-> NextCursor(db, rows, SubSeq(rows, 1, Min({limit, Len(rows)})), limit)]
        : rows \in found}

\* The answers a request may get from db: at most limit items, and the next cursor.
ListAssets(db, f) ==
    LET limit == EffectiveLimit(f.limit)
        found == {Fetched(s, limit) :
                    s \in {s \in SetToSeqs(Matching(db, f)) : Ordered(db, f.sort, s)}} IN
    {[items |-> SubSeq(rows, 1, Min({limit, Len(rows)})),
      next  |-> NextCursor(db, rows, SubSeq(rows, 1, Min({limit, Len(rows)})), limit)]
        : rows \in found}
=============================================================================
