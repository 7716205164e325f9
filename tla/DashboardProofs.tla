-------------------------- MODULE DashboardProofs ---------------------------
(***************************************************************************)
(* Dashboard for any rows, page limit, number of requests and bounds: the  *)
(* types, that a page without a next cursor is complete, that it shows the *)
(* latest, and that polling goes on.                                       *)
(***************************************************************************)
EXTENDS Dashboard, Induction

-----------------------------------------------------------------------------
(* Numbers and lists *)

\* The first n elements of a list of length k.
LEMMA FirstOf ==
    ASSUME NEW S, NEW k \in Nat, NEW s, \A i \in 1..k : s[i] \in S, NEW n \in 0..k
    PROVE  /\ SubSeq(s, 1, n) \in Seq(S) /\ Len(SubSeq(s, 1, n)) = n
           /\ DOMAIN SubSeq(s, 1, n) = 1..n
           /\ \A i \in 1..n : SubSeq(s, 1, n)[i] = s[i]
<1>1. /\ SubSeq(s, 1, n) \in Seq(S)
      /\ Len(SubSeq(s, 1, n)) = IF 1 <= n THEN n - 1 + 1 ELSE 0
      /\ \A i \in 1..(n - 1 + 1) : SubSeq(s, 1, n)[i] = s[1 + i - 1]
  <2>1. \A i \in 1..n : s[i] \in S
    OBVIOUS
  <2> QED BY <2>1, SubSeqProperties
<1> DEFINE u == SubSeq(s, 1, n)
<1>2. DOMAIN u = 1..Len(u)
  BY <1>1, LenProperties
<1>3. Len(u) = n /\ \A i \in 1..n : u[i] = s[i]
  BY <1>1
<1> QED BY <1>1, <1>2, <1>3

\* A list that names every element once, as SetToSeqs makes it.
Lists(s, S, c) ==
    /\ c = Cardinality(S) /\ c \in Nat
    /\ s \in [1..c -> S]
    /\ \A i, j \in 1..c : i # j => s[i] # s[j]
    /\ \A x \in S : \E i \in 1..c : s[i] = x

\* What SetToSeq and SetToSeqs make of a finite set lists it.
LEMMA Listed ==
    ASSUME NEW S, IsFiniteSet(S), NEW s \in [1..Cardinality(S) -> S],
           \A i, j \in 1..Cardinality(S) : i # j => s[i] # s[j]
    PROVE  Lists(s, S, Cardinality(S))
<1>1. Cardinality(S) \in Nat
  BY FS_CardinalityType
<1>2. Range(s) = S
  BY ListingIsOnto
<1> QED BY <1>1, <1>2 DEF Range, Lists

-----------------------------------------------------------------------------
(* The pages of the API *)

\* items are the first n that s lists, and without a next cursor they are all.
PageOf(p, S, s, c, n) ==
    /\ Lists(s, S, c)
    /\ n \in 0..c
    /\ p.items \in Seq(S) /\ Len(p.items) = n /\ DOMAIN p.items = 1..n
    /\ \A i \in 1..n : p.items[i] = s[i]
    /\ p.next \in Time \cup {NoTime}
    /\ p.next = NoTime => n = c

Database == [Assets -> Row \cup {NoRow}]

\* Whatever limit a request asks for, that of its page is positive.
LEMMA LimitIsPositive == \A limit \in Int : EffectiveLimit(limit) \in Nat \ {0}
BY QueryAssumption DEF EffectiveLimit

\* A page of the API is the beginning of an ordered list of what matches, and only a full one has
\* a cursor.
LEMMA PageShape ==
    ASSUME NEW db \in Database, NEW f, f.limit \in Int, NEW p \in ListAssets(db, f)
    PROVE  /\ p = [items |-> p.items, next |-> p.next]
           /\ \E s, c, n : PageOf(p, Matching(db, f), s, c, n) /\ Ordered(db, f.sort, s)
<1> DEFINE M == Matching(db, f)
<1>1. M \subseteq Assets /\ \A a \in M : db[a] \in Row
  BY DEF Matching, Matches, Database
<1>2. IsFiniteSet(M)
  BY <1>1, DashboardAssumption, FS_Subset
<1>3. PICK limit \in Nat \ {0} : limit = EffectiveLimit(f.limit)
  BY LimitIsPositive
<1>4. PICK s \in SetToSeqs(M) : Ordered(db, f.sort, s) /\
        \E rows1 :
          /\ rows1 = Fetched(s, limit)
          /\ p = [items |-> SubSeq(rows1, 1, Min({limit, Len(rows1)})),
                  next  |-> NextCursor(db, rows1, SubSeq(rows1, 1, Min({limit, Len(rows1)})), limit)]
  BY <1>3 DEF ListAssets
<1>4a. PICK rows1 :
        /\ rows1 = Fetched(s, limit)
        /\ p = [items |-> SubSeq(rows1, 1, Min({limit, Len(rows1)})),
                next  |-> NextCursor(db, rows1, SubSeq(rows1, 1, Min({limit, Len(rows1)})), limit)]
  BY <1>4
<1>5. Lists(s, M, Cardinality(M))
  BY <1>2, <1>4, Listed DEF SetToSeqs
<1>6. PICK c \in Nat : c = Cardinality(M) /\ Lists(s, M, c)
  BY <1>5 DEF Lists
<1>7. \A i \in 1..c : s[i] \in M
  BY <1>6 DEF Lists
<1>8. Len(s) = c
  <2>1. s \in [1..c -> M]
    BY <1>6 DEF Lists
  <2>2. s \in Seq(M)
    BY <2>1, SeqDef
  <2> QED BY <2>1, <2>2, LenProperties
<1>9. PICK r \in 0..c : r = Min({limit + 1, Len(s)}) /\ (r < c => r = limit + 1) /\ r <= limit + 1
  BY <1>3, <1>8, MinOfTwo
<1>10. /\ rows1 = SubSeq(s, 1, r) /\ Len(rows1) = r
       /\ \A i \in 1..r : rows1[i] = s[i]
  <2>1. rows1 = SubSeq(s, 1, r)
    BY <1>4a, <1>9 DEF Fetched
  <2>2. Len(SubSeq(s, 1, r)) = r /\ \A i \in 1..r : SubSeq(s, 1, r)[i] = s[i]
    BY <1>7, FirstOf
  <2> QED BY <2>1, <2>2
<1>11. PICK n \in 0..r : n = Min({limit, Len(rows1)}) /\ (n < r => n = limit)
  BY <1>3, <1>10, MinOfTwo
<1>12. \A i \in 1..r : rows1[i] \in M
  BY <1>7, <1>9, <1>10
<1> DEFINE items1 == SubSeq(rows1, 1, n)
<1>13. /\ items1 \in Seq(M) /\ Len(items1) = n /\ DOMAIN items1 = 1..n
       /\ \A i \in 1..n : items1[i] = rows1[i]
  <2>1. r \in Nat
    OBVIOUS
  <2> QED BY <1>12, <2>1, FirstOf
<1> HIDE DEF items1
<1>14. p = [items |-> items1, next |-> NextCursor(db, rows1, items1, limit)]
  BY <1>4a, <1>11 DEF items1
<1>15. \A i \in 1..n : items1[i] = s[i]
  <2>1. \A i \in 1..n : i \in 1..r
    OBVIOUS
  <2> QED BY <1>10, <1>13, <2>1
<1>16. n \in 0..c
  BY <1>9, <1>11
<1> HIDE DEF M
<1>16a. p.next \in Time \cup {NoTime} /\ (p.next = NoTime => n = c) => PageOf(p, M, s, c, n)
  <2>1. p.items = items1
    BY <1>14
  <2> QED BY <1>6, <1>13, <1>15, <1>16, <2>1 DEF PageOf
<1>17. CASE n = limit
  <2>1. r \in 1..r
    BY <1>3, <1>9, <1>11, <1>17
  <2>2. p.next = db[rows1[r]].last
    BY <1>10, <1>13, <1>14, <1>17 DEF NextCursor, Last
  <2>3. db[rows1[r]] \in Row
    BY <1>1, <1>12, <2>1
  <2>4. p.next \in Time
    BY <2>2, <2>3 DEF Row
  <2>5. p.next # NoTime
    BY <2>4, DashboardAssumption
  <2> QED BY <1>4, <1>14, <1>16a, <2>4, <2>5 DEF M
<1>18. CASE n # limit
  <2>1. p.next = NoTime
    BY <1>13, <1>14, <1>18 DEF NextCursor
  <2>2. n = c
    <3>1. limit \in Nat /\ n \in Nat /\ r \in Nat /\ n <= r /\ r <= c
      OBVIOUS
    <3>2. n = r
      BY <1>11, <1>18, <3>1
    <3>3. n = Min({limit, r}) /\ Min({limit, r}) = (IF limit <= r THEN limit ELSE r)
      BY <1>10, <1>11, <3>1, MinOfTwo
    <3>4. r < limit + 1
      BY <1>18, <3>1, <3>2, <3>3
    <3> QED BY <1>9, <3>1, <3>2, <3>4
  <2> QED BY <1>4, <1>14, <1>16a, <2>1, <2>2 DEF M
<1> QED BY <1>17, <1>18

\* A page of the API has the type of a page, names an asset at most once, and all that match if
\* there is no next one.
LEMMA PageFacts ==
    ASSUME NEW db \in Database, NEW f, f.limit \in Int, NEW p \in ListAssets(db, f)
    PROVE  /\ p \in Page
           /\ Len(p.items) = Cardinality(ToSet(p.items))
           /\ p.next = NoTime => ToSet(p.items) = Matching(db, f)
<1> DEFINE M == Matching(db, f)
<1>1. M \subseteq Ids
  BY DEF Matching, Ids
<1>2. PICK s, c, n : PageOf(p, M, s, c, n)
  BY PageShape
<1>3. p = [items |-> p.items, next |-> p.next]
  BY PageShape
<1>4. p \in Page
  <2>1. p.items \in Seq(Ids)
    BY <1>1, <1>2, SeqMonotonic DEF PageOf
  <2> QED BY <1>2, <1>3, <2>1 DEF PageOf, Page
<1> HIDE DEF M
<1>5. /\ c \in Nat /\ n \in Nat /\ n <= c /\ Len(p.items) = n /\ DOMAIN p.items = 1..n
      /\ \A i \in 1..n : p.items[i] = s[i]
      /\ \A i, j \in 1..c : i # j => s[i] # s[j]
  BY <1>2 DEF PageOf, Lists
<1>6. Cardinality(ToSet(p.items)) = n
  <2> DEFINE T == ToSet(p.items)
  <2>1. p.items \in Bijection(1..n, T)
    <3>1. p.items \in [1..n -> T]
      <4>1. p.items = [i \in 1..n |-> p.items[i]]
        BY <1>2, <1>5 DEF PageOf
      <4> QED BY <1>5, <4>1 DEF ToSet
    <3>2. \A i, j \in 1..n : p.items[i] = p.items[j] => i = j
      BY <1>5
    <3>3. \A x \in T : \E i \in 1..n : p.items[i] = x
      BY <1>5 DEF ToSet
    <3> QED BY <1>5, <3>1, <3>2, <3>3 DEF Bijection, Injection, Surjection, IsInjective
  <2>2. IsFiniteSet(1..n) /\ Cardinality(1..n) = n
    <3>1. Cardinality(1..n) = (IF 1 > n THEN 0 ELSE n - 1 + 1) /\ IsFiniteSet(1..n)
      BY <1>5, FS_Interval
    <3> QED BY <1>5, <3>1
  <2> QED BY <2>1, <2>2, FS_Bijection DEF ExistsBijection
<1>7. ASSUME p.next = NoTime PROVE ToSet(p.items) = M
  <2>1. n = c
    BY <1>2, <1>7 DEF PageOf
  <2>2. \A x \in M : \E i \in 1..c : s[i] = x
    BY <1>2 DEF PageOf, Lists
  <2>3. \A i \in 1..c : s[i] \in M
    BY <1>2 DEF PageOf, Lists
  <2> QED BY <1>5, <2>1, <2>2, <2>3 DEF ToSet
<1> QED BY <1>4, <1>5, <1>6, <1>7 DEF M

\* In the default order, what comes first was not last seen a second before what follows.
LEMMA DefaultOrder ==
    ASSUME NEW t \in Row, NEW u \in Row, Sorted(t, u, "other")
    PROVE  t.last.sec \in Nat /\ u.last.sec \in Nat /\ t.last.sec >= u.last.sec
<1>1. ~TextBefore(t.last, u.last)
  BY DEF Sorted
<1>2. ~(t.last.sec < u.last.sec)
  BY <1>1, Zenon DEF TextBefore
<1>3. t.last.sec \in Nat /\ u.last.sec \in Nat
  BY DEF Row, Time
<1> QED BY <1>2, <1>3

\* A page in the default order shows the latest, latest first.
LEMMA PageOrder ==
    ASSUME NEW db \in Database, NEW f, f.limit \in Int, f.sort = "other", NEW p \in ListAssets(db, f)
    PROVE  /\ \A i, j \in DOMAIN p.items :
                 i < j => db[p.items[i]].last.sec >= db[p.items[j]].last.sec
           /\ \A a \in Matching(db, f) \ ToSet(p.items), b \in ToSet(p.items) :
                 db[b].last.sec >= db[a].last.sec
<1> DEFINE M == Matching(db, f)
<1>1. PICK s, c, n : PageOf(p, M, s, c, n) /\ Ordered(db, f.sort, s)
  BY PageShape
<1>2. \A a \in M : db[a] \in Row
  BY DEF Matching, Matches, Database
<1> HIDE DEF M
<1>3. /\ c \in Nat /\ n \in Nat /\ n <= c /\ DOMAIN p.items = 1..n /\ DOMAIN s = 1..c
      /\ \A i \in 1..n : p.items[i] = s[i]
      /\ \A i \in 1..c : s[i] \in M
      /\ \A a \in M : \E i \in 1..c : s[i] = a
  BY <1>1 DEF PageOf, Lists
<1>4. ASSUME NEW i \in 1..c, NEW j \in 1..c, i < j
      PROVE  db[s[i]].last.sec >= db[s[j]].last.sec
  <2>1. Sorted(db[s[i]], db[s[j]], "other")
    BY <1>1, <1>3, <1>4 DEF Ordered
  <2> QED BY <1>2, <1>3, <2>1, DefaultOrder
<1>5. ASSUME NEW i \in DOMAIN p.items, NEW j \in DOMAIN p.items, i < j
      PROVE  db[p.items[i]].last.sec >= db[p.items[j]].last.sec
  <2>1. i \in 1..c /\ j \in 1..c /\ p.items[i] = s[i] /\ p.items[j] = s[j]
    BY <1>3
  <2> QED BY <1>4, <1>5, <2>1
<1>6. ASSUME NEW a \in M \ ToSet(p.items), NEW b \in ToSet(p.items)
      PROVE  db[b].last.sec >= db[a].last.sec
  <2>1. PICK i \in 1..n : b = s[i]
    BY <1>3 DEF ToSet
  <2>2. PICK j \in 1..c : a = s[j]
    BY <1>3
  <2>3. j \notin 1..n
    BY <1>3, <2>2 DEF ToSet
  <2>4. i \in 1..c /\ i < j
    BY <1>3, <2>3
  <2> QED BY <1>4, <2>1, <2>2, <2>4
<1> QED BY <1>5, <1>6 DEF M

\* The invented page too has the type of a page.
LEMMA MockPageType == \A status : MockPage(status) \in Page
<1> TAKE status
<1> DEFINE S == {m \in DOMAIN MockRows : status \in {AnyStatus, MockRows[m]}}
<1>1. IsFiniteSet(S)
  BY DashboardAssumption, FS_Subset
<1>2. S \subseteq Ids
  BY DEF Ids
<1>3. MockPage(status) = [items |-> SetToSeq(S), next |-> NoTime]
  BY DEF MockPage
<1> HIDE DEF S
<1>4. SetToSeq(S) \in Seq(Ids)
  BY <1>1, <1>2, SetToSeqLists, SeqMonotonic
<1> QED BY <1>3, <1>4 DEF Page

\* Whatever answers a request is a page.
LEMMA PagesType ==
    ASSUME NEW db \in Database, NEW status, NEW invented, NEW p \in Pages(db, status, invented)
    PROVE  p \in Page
<1>1. FilterFor(status).limit \in Int
  BY DashboardAssumption DEF FilterFor
<1> QED BY <1>1, PageFacts, MockPageType DEF Pages

-----------------------------------------------------------------------------
(* The requests *)

Requests == [Slots -> RequestType \cup {None}]

\* A request for a detail names its asset, and any other is answered by a page.
Fits(r) == IF r.kind = "detail" THEN r.asset # None ELSE r.page \in Page \cup {None}

Named == \A i \in Slots : requests[i] # None => Fits(requests[i])

RequestsOK == requests \in Requests /\ Named

\* Every request the page sends has the type of a request.
LEMMA RequestIsTyped ==
    ASSUME mock \in BOOLEAN, NEW kind \in {"poll", "refresh", "detail"},
           NEW status \in StatusFilters, NEW asset \in Ids \cup {None}, NEW isMock \in BOOLEAN
    PROVE  /\ Request(kind, status, asset) \in RequestType
           /\ Request(kind, status, asset).kind = kind
           /\ (kind = "detail" => asset # None) => Fits(Request(kind, status, asset))
           /\ [Request(kind, status, asset) EXCEPT !.mock = isMock] \in RequestType
           /\ [Request(kind, status, asset) EXCEPT !.mock = isMock].kind = kind
           /\ (kind = "detail" => asset # None)
              => Fits([Request(kind, status, asset) EXCEPT !.mock = isMock])
BY DEF Request, RequestType, Fits

\* A request goes to a free slot: it removes no other, and no poll.
LEMMA SendPuts ==
    ASSUME RequestsOK, FreeSlots # {}, NEW r \in RequestType, Send(r),
           Fits(r)
    PROVE  /\ RequestsOK'
           /\ Polls \subseteq Polls'
           /\ r.kind = "poll" => Polls' # {}
<1>1. r # None
  BY DashboardAssumption
<1>2. PICK m \in Slots : requests[m] = None /\ requests' = [requests EXCEPT ![m] = r]
  <2>1. FreeSlots \subseteq Int /\ 0 \in Int /\ \A i \in FreeSlots : 0 <= i
    BY DEF FreeSlots, Slots
  <2>2. Min(FreeSlots) \in FreeSlots
    BY <2>1, MinIsLeast
  <2> QED BY <2>2 DEF FreeSlots, Send
<1>3. requests' \in Requests /\ requests'[m] = r
      /\ \A i \in Slots \ {m} : requests'[i] = requests[i]
  BY <1>2 DEF RequestsOK, Requests
<1>4. RequestsOK'
  BY <1>3 DEF RequestsOK, Named, Requests
<1>5. Polls \subseteq Polls'
  BY <1>2, <1>3 DEF Polls
<1>6. r.kind = "poll" => m \in Polls'
  BY <1>1, <1>3 DEF Polls
<1> QED BY <1>4, <1>5, <1>6

\* A request that has arrived or failed leaves the others.
LEMMA TakeAway ==
    ASSUME RequestsOK, NEW i \in Slots, requests' = [requests EXCEPT ![i] = None]
    PROVE  /\ RequestsOK'
           /\ (requests[i] # None /\ requests[i].kind # "poll") => Polls' = Polls
<1>1. requests' \in Requests /\ requests'[i] = None
      /\ \A j \in Slots \ {i} : requests'[j] = requests[j]
  BY DEF RequestsOK, Requests
<1>2. RequestsOK'
  BY <1>1 DEF RequestsOK, Named
<1>3. ASSUME requests[i] # None, requests[i].kind # "poll" PROVE Polls' = Polls
  BY <1>1, <1>3 DEF Polls
<1> QED BY <1>2, <1>3

-----------------------------------------------------------------------------
(* The invariant *)

\* What of TypeOK is not about requests, in groups that change together.
FormOK ==
    /\ rows \in Database /\ filter \in StatusFilters /\ cursor \in Time \cup {NoTime, Offset}
    /\ hidden \in BOOLEAN /\ mock \in BOOLEAN /\ booted \in BOOLEAN

TableOK == next \in Time \cup {NoTime} /\ items \in Seq(Ids) /\ prevOn \in BOOLEAN

PanelOK ==
    /\ selected \in Ids \cup {None} /\ detail \in Ids \cup {None, "loading", "failed"}
    /\ (detail = None) <=> (selected = None)

TimersOK == inFlight \in BOOLEAN /\ armed \in BOOLEAN /\ orphans \in Nat /\ errors \in 0..3

Inv == /\ FormOK /\ TableOK /\ PanelOK /\ TimersOK /\ RequestsOK
       /\ PollingGoesOn /\ FlagMeansPoll

\* The invariant includes the types.
LEMMA InvIsTyped == Inv => TypeOK
BY DEF Inv, FormOK, TableOK, PanelOK, TimersOK, RequestsOK, Requests, Database, TypeOK

\* The page starts without requests, timers and selection.
LEMMA InitInv == Init => Inv
<1> SUFFICES ASSUME Init PROVE Inv
  OBVIOUS
<1>1. FormOK
  BY DashboardAssumption DEF Init, FormOK, Database, StatusFilters
<1>2. TableOK /\ PanelOK /\ TimersOK
  <2>1. <<>> \in Seq(Ids)
    BY EmptySeq
  <2>2. TableOK
    BY <2>1 DEF Init, TableOK
  <2>3. PanelOK
    BY DEF Init, PanelOK
  <2>4. TimersOK
    <3>1. inFlight \in BOOLEAN /\ armed \in BOOLEAN
      BY Zenon DEF Init
    <3>2. orphans = 0 /\ errors = 0
      BY DEF Init
    <3>3. orphans \in Nat /\ errors \in 0..3
      BY <3>2
    <3> QED BY <3>1, <3>3 DEF TimersOK
  <2> QED BY <2>2, <2>3, <2>4
<1>3. RequestsOK
  BY DEF Init, RequestsOK, Requests, Named
<1> QED BY <1>1, <1>2, <1>3 DEF Init, Inv, PollingGoesOn, FlagMeansPoll

\* runPoll sets a timer or sends a poll, and sets the flag only with a poll under way.
LEMMA RunPollGoesOn ==
    ASSUME RequestsOK, mock \in BOOLEAN, filter \in StatusFilters,
           NEW busy \in BOOLEAN, busy => Polls # {}, NEW isMock \in BOOLEAN,
           NEW wasArmed \in BOOLEAN, NEW others \in Nat, RunPoll(busy, isMock, wasArmed, others)
    PROVE  /\ RequestsOK'
           /\ inFlight' \in BOOLEAN /\ armed' \in BOOLEAN /\ orphans' \in Nat
           /\ FlagMeansPoll'
           /\ armed' \/ Polls' # {}
<1>1. CASE busy \/ hidden
  <2>1. armed' = TRUE /\ orphans' \in Nat /\ inFlight' = busy /\ requests' = requests
    BY <1>1 DEF RunPoll, ScheduleNext
  <2>2. Polls' = Polls /\ (RequestsOK' <=> RequestsOK)
    BY <2>1 DEF Polls, RequestsOK, Named
  <2> QED BY <2>1, <2>2 DEF FlagMeansPoll
<1>2. CASE ~(busy \/ hidden)
  <2> DEFINE r == [Request("poll", filter, None) EXCEPT !.mock = isMock]
  <2>1. FreeSlots # {} /\ Send(r) /\ inFlight' = TRUE /\ armed' = wasArmed /\ orphans' = others
    BY <1>2 DEF RunPoll
  <2>2. r \in RequestType /\ r.kind = "poll" /\ Fits(r)
    BY RequestIsTyped
  <2> HIDE DEF r
  <2>3. RequestsOK' /\ Polls' # {}
    BY <2>1, <2>2, SendPuts
  <2> QED BY <2>1, <2>3 DEF FlagMeansPoll
<1> QED BY <1>1, <1>2

\* The first poll, after the probe.
LEMMA BootInv == ASSUME Inv, Boot PROVE Inv'
<1>1. PICK b \in BOOLEAN : mock' = b /\ RunPoll(inFlight, b, armed, orphans)
  BY DEF Boot
<1>2. /\ RequestsOK' /\ inFlight' \in BOOLEAN /\ armed' \in BOOLEAN /\ orphans' \in Nat
      /\ FlagMeansPoll' /\ (armed' \/ Polls' # {})
  BY <1>1, RunPollGoesOn DEF Inv, FormOK, TimersOK, FlagMeansPoll
<1>3. FormOK' /\ TimersOK' /\ TableOK' /\ PanelOK'
  BY <1>1, <1>2 DEF Inv, Boot, FormOK, TimersOK, TableOK, PanelOK, table, panel
<1> QED BY <1>2, <1>3 DEF Inv, PollingGoesOn

\* A timer that fires, the one with the handle or an orphan.
LEMMA TimerFiresInv == ASSUME Inv, TimerFires PROVE Inv'
<1>1. PICK wasArmed \in BOOLEAN, others \in Nat : RunPoll(inFlight, mock, wasArmed, others)
  <2>1. armed \in BOOLEAN /\ orphans \in Nat
    BY DEF Inv, TimersOK
  <2>2. CASE RunPoll(inFlight, mock, FALSE, orphans)
    BY <2>1, <2>2
  <2>3. CASE orphans > 0 /\ RunPoll(inFlight, mock, armed, orphans - 1)
    <3>1. orphans - 1 \in Nat
      BY <2>1, <2>3
    <3> QED BY <2>1, <2>3, <3>1
  <2> QED BY <2>2, <2>3 DEF TimerFires
<1>2. /\ RequestsOK' /\ inFlight' \in BOOLEAN /\ armed' \in BOOLEAN /\ orphans' \in Nat
      /\ FlagMeansPoll' /\ (armed' \/ Polls' # {})
  BY <1>1, RunPollGoesOn DEF Inv, FormOK, TimersOK, FlagMeansPoll
<1>3. FormOK' /\ TimersOK' /\ TableOK' /\ PanelOK'
  BY <1>2 DEF Inv, TimerFires, FormOK, TimersOK, TableOK, PanelOK, table, panel
<1> QED BY <1>2, <1>3 DEF Inv, PollingGoesOn

\* The user asks for a poll beside whatever is under way.
LEMMA RefreshNowInv == ASSUME Inv, RefreshNow PROVE Inv'
<1>1. RunPoll(FALSE, mock, FALSE, orphans)
  BY DEF RefreshNow
<1>2. /\ RequestsOK' /\ inFlight' \in BOOLEAN /\ armed' \in BOOLEAN /\ orphans' \in Nat
      /\ FlagMeansPoll' /\ (armed' \/ Polls' # {})
  BY <1>1, RunPollGoesOn DEF Inv, FormOK, TimersOK
<1>3. FormOK' /\ TimersOK' /\ TableOK' /\ PanelOK'
  BY <1>2 DEF Inv, RefreshNow, Click, FormOK, TimersOK, TableOK, PanelOK, table, panel
<1> QED BY <1>2, <1>3 DEF Inv, PollingGoesOn

\* A poll that ends sets the timer and clears the flag.
LEMMA PollEndsWell ==
    ASSUME TimersOK, NEW failed \in BOOLEAN, PollEnds(failed)
    PROVE  TimersOK' /\ armed' = TRUE /\ inFlight' = FALSE
<1>1. PICK e \in 0..3 : e = errors
  BY DEF TimersOK
<1>2. Min({e + 1, 3}) \in 0..3
  BY MinOfTwo
<1>3. errors' \in 0..3
  BY <1>1, <1>2 DEF PollEnds
<1>4. armed' = TRUE /\ inFlight' = FALSE /\ orphans' \in Nat
  BY DEF PollEnds, ScheduleNext, TimersOK
<1> QED BY <1>3, <1>4 DEF TimersOK

\* Requests other than polls may come and go, and the table and the panel with them.
LEMMA OtherStepInv ==
    ASSUME Inv, FormOK', TableOK', PanelOK', RequestsOK', UNCHANGED <<timers, hidden, booted>>,
           Polls \subseteq Polls'
    PROVE  Inv'
BY DEF Inv, TimersOK, timers, PollingGoesOn, FlagMeansPoll

\* The server answers a request, which stays what it is.
LEMMA ServeInv == ASSUME Inv, NEW i \in Slots, Serve(i) PROVE Inv'
<1>1. PICK p : /\ p \in IF requests[i].kind = "detail" THEN {<<>>}
                         ELSE Pages(rows, requests[i].status, requests[i].mock)
               /\ requests' = [requests EXCEPT ![i].page = p]
  BY DEF Serve
<1>2. p \in Page \/ (p = <<>> /\ requests[i].kind = "detail")
  BY <1>1, PagesType DEF Inv, FormOK
<1>3. requests[i] # None /\ requests[i] \in RequestType
  BY DEF Serve, Inv, RequestsOK, Requests
<1> DEFINE r == [requests[i] EXCEPT !.page = p]
<1>4. r \in RequestType /\ r.kind = requests[i].kind /\ r.asset = requests[i].asset /\ r.page = p
  BY <1>2, <1>3 DEF RequestType
<1>5. requests' = [requests EXCEPT ![i] = r]
  BY <1>1
<1> HIDE DEF r
<1>6. requests' \in Requests /\ requests'[i] = r
      /\ \A j \in Slots \ {i} : requests'[j] = requests[j]
  BY <1>4, <1>5 DEF Inv, RequestsOK, Requests
<1>7. r # None
  BY <1>4, DashboardAssumption
<1>8. Polls' = Polls
  BY <1>3, <1>4, <1>6, <1>7 DEF Polls
<1>9. RequestsOK'
  <2>1. Fits(r)
    BY <1>2, <1>3, <1>4 DEF Inv, RequestsOK, Named, Fits
  <2> QED BY <1>3, <1>6, <2>1 DEF Inv, RequestsOK, Named
<1>10. FormOK' /\ TableOK' /\ PanelOK'
  BY DEF Inv, Serve, FormOK, TableOK, PanelOK, table, panel
<1> QED BY <1>8, <1>9, <1>10, OtherStepInv DEF Serve

\* A poll that ends: its slot is free, and the timer set.
LEMMA PollEndedInv ==
    ASSUME Inv, NEW i \in Slots, NEW failed \in BOOLEAN, PollEnds(failed),
           requests' = [requests EXCEPT ![i] = None], FormOK', TableOK', PanelOK'
    PROVE  Inv'
<1>1. RequestsOK'
  BY TakeAway DEF Inv
<1>2. TimersOK' /\ armed' = TRUE /\ inFlight' = FALSE
  BY PollEndsWell DEF Inv
<1> QED BY <1>1, <1>2 DEF Inv, PollingGoesOn, FlagMeansPoll

\* A page that is rendered keeps the table typed.
LEMMA RenderType == ASSUME FormOK, NEW p \in Page, Render(p) PROVE TableOK'
BY DEF FormOK, Page, Render, TableOK

\* An answer arrives, of a poll, a refresh or a detail.
LEMMA ArriveInv == ASSUME Inv, NEW i \in Slots, Arrive(i) PROVE Inv'
<1>1. /\ requests[i] # None /\ requests[i].page # None
      /\ requests' = [requests EXCEPT ![i] = None]
      /\ UNCHANGED <<rows, filter, cursor, hidden, mock, booted>>
  BY DEF Arrive
<1>2. requests[i] \in RequestType /\ Fits(requests[i])
  BY <1>1 DEF Inv, RequestsOK, Requests, Named
<1>3. /\ requests[i].kind \in {"poll", "refresh", "detail"} /\ requests[i].asset \in Ids \cup {None}
      /\ requests[i].kind # "detail" => requests[i].page \in Page
      /\ requests[i].kind = "detail" => requests[i].asset # None
  BY <1>1, <1>2 DEF RequestType, Fits
<1>4. FormOK'
  BY <1>1 DEF Inv, FormOK
<1>5. CASE requests[i].kind = "poll"
  <2>1. PollArrives(i)
    BY <1>5 DEF Arrive
  <2>2. TableOK'
    BY <1>3, <1>5, <2>1, RenderType DEF PollArrives, Inv
  <2>3. PanelOK'
    BY <2>1 DEF PollArrives, panel, Inv, PanelOK
  <2> QED BY <1>1, <1>4, <2>1, <2>2, <2>3, PollEndedInv DEF PollArrives
<1>6. ASSUME requests[i].kind # "poll", TableOK', PanelOK', UNCHANGED timers PROVE Inv'
  <2>1. RequestsOK' /\ Polls' = Polls
    BY <1>1, <1>6, TakeAway DEF Inv
  <2> QED BY <1>1, <1>4, <1>6, <2>1, OtherStepInv
<1>7. CASE requests[i].kind = "refresh"
  <2>1. RefreshArrives(i)
    BY <1>7 DEF Arrive
  <2>2. TableOK'
    BY <1>3, <1>7, <2>1, RenderType DEF RefreshArrives, Inv
  <2>3. PanelOK'
    BY <2>1 DEF RefreshArrives, CloseDetail, panel, Inv, PanelOK
  <2> QED BY <1>6, <1>7, <2>1, <2>2, <2>3 DEF RefreshArrives
<1>8. CASE requests[i].kind = "detail"
  <2>1. DetailArrives(i)
    BY <1>8 DEF Arrive
  <2>2. TableOK'
    BY <2>1 DEF DetailArrives, table, Inv, TableOK
  <2>3. PanelOK'
    BY <1>3, <1>8, <2>1 DEF DetailArrives, Inv, PanelOK
  <2> QED BY <1>6, <1>8, <2>1, <2>2, <2>3 DEF DetailArrives
<1> QED BY <1>3, <1>5, <1>7, <1>8

\* A request fails: a poll sets the next timer all the same.
LEMMA FailInv == ASSUME Inv, NEW i \in Slots, Fail(i) PROVE Inv'
<1>1. /\ requests[i] # None
      /\ requests' = [requests EXCEPT ![i] = None]
      /\ UNCHANGED <<rows, filter, cursor, table, hidden, mock, booted>>
  BY DEF Fail
<1>2. requests[i].kind \in {"poll", "refresh", "detail"}
  BY <1>1 DEF Inv, RequestsOK, Requests, RequestType
<1>3. FormOK' /\ TableOK'
  BY <1>1 DEF Inv, FormOK, TableOK, table
<1>4. CASE requests[i].kind = "poll"
  <2>1. PollEnds(TRUE) /\ UNCHANGED panel
    BY <1>4 DEF Fail
  <2>2. PanelOK'
    BY <2>1 DEF panel, Inv, PanelOK
  <2> QED BY <1>1, <1>3, <2>1, <2>2, PollEndedInv
<1>5. ASSUME requests[i].kind # "poll", PanelOK', UNCHANGED timers PROVE Inv'
  <2>1. RequestsOK' /\ Polls' = Polls
    BY <1>1, <1>5, TakeAway DEF Inv
  <2> QED BY <1>1, <1>3, <1>5, <2>1, OtherStepInv
<1>6. CASE requests[i].kind = "refresh"
  <2>1. UNCHANGED timers /\ UNCHANGED panel
    BY <1>6 DEF Fail
  <2>2. PanelOK'
    BY <2>1 DEF panel, Inv, PanelOK
  <2> QED BY <1>5, <1>6, <2>1, <2>2
<1>7. CASE requests[i].kind = "detail"
  <2>1. detail' = (IF selected = None THEN None ELSE "failed") /\ UNCHANGED <<timers, selected>>
    BY <1>7 DEF Fail
  <2>2. PanelOK'
    BY <2>1, DashboardAssumption DEF Inv, PanelOK
  <2> QED BY <1>5, <1>7, <2>1, <2>2
<1> QED BY <1>2, <1>4, <1>6, <1>7

\* refreshData, from whichever click.
LEMMA RefreshSent ==
    ASSUME Inv, NEW status \in StatusFilters, RefreshData(status)
    PROVE  RequestsOK' /\ Polls \subseteq Polls'
<1> DEFINE r == Request("refresh", status, None)
<1>1. mock \in BOOLEAN /\ RequestsOK
  BY DEF Inv, FormOK
<1>2. r \in RequestType /\ Fits(r)
  BY <1>1, RequestIsTyped
<1>3. FreeSlots # {} /\ Send(r)
  BY DEF RefreshData
<1> HIDE DEF r
<1> QED BY <1>1, <1>2, <1>3, SendPuts

\* Whatever the user clicks.
LEMMA UserInv == ASSUME Inv, User PROVE Inv'
<1>1. UNCHANGED <<rows, mock, booted>>
  BY DEF User, SetFilter, NextPage, PrevPage, RefreshNow, Hide, Show, ToggleDetail, Escape, Click
<1>2. filter \in StatusFilters /\ TableOK /\ PanelOK /\ TimersOK /\ FormOK
  BY DEF Inv, FormOK
<1>3. ASSUME NEW status \in StatusFilters, SetFilter(status) PROVE Inv'
  <2>1. RequestsOK' /\ Polls \subseteq Polls'
    BY <1>3, RefreshSent DEF SetFilter
  <2>2. FormOK' /\ TableOK' /\ PanelOK'
    BY <1>1, <1>2, <1>3 DEF SetFilter, FormOK, TableOK, PanelOK, panel
  <2> QED BY <1>1, <1>3, <2>1, <2>2, OtherStepInv DEF SetFilter
<1>4. CASE NextPage
  <2>1. RequestsOK' /\ Polls \subseteq Polls'
    BY <1>2, <1>4, RefreshSent DEF NextPage
  <2>2. FormOK' /\ TableOK' /\ PanelOK'
    BY <1>1, <1>2, <1>4 DEF NextPage, FormOK, TableOK, PanelOK, table, panel
  <2> QED BY <1>1, <1>4, <2>1, <2>2, OtherStepInv DEF NextPage
<1>5. CASE PrevPage
  <2>1. RequestsOK' /\ Polls \subseteq Polls'
    BY <1>2, <1>5, RefreshSent DEF PrevPage
  <2>2. FormOK' /\ TableOK' /\ PanelOK'
    BY <1>1, <1>2, <1>5 DEF PrevPage, FormOK, TableOK, PanelOK, table, panel
  <2> QED BY <1>1, <1>5, <2>1, <2>2, OtherStepInv DEF PrevPage
<1>6. CASE RefreshNow
  BY <1>6, RefreshNowInv
<1>7. CASE Hide
  <2>1. requests' = requests /\ hidden' = TRUE /\ armed' = FALSE
        /\ UNCHANGED <<filter, cursor, inFlight, errors, orphans, table, panel>>
    BY <1>7 DEF Hide
  <2>2. (RequestsOK' <=> RequestsOK) /\ Polls' = Polls
    BY <2>1 DEF RequestsOK, Named, Polls
  <2>3. FormOK' /\ TableOK' /\ PanelOK' /\ TimersOK'
    BY <1>1, <1>2, <2>1 DEF FormOK, TableOK, PanelOK, TimersOK, table, panel
  <2> QED BY <2>1, <2>2, <2>3 DEF Inv, PollingGoesOn, FlagMeansPoll
<1>8. CASE Show
  <2>1. requests' = requests /\ hidden' = FALSE /\ inFlight' = FALSE /\ ScheduleNext(armed, orphans)
        /\ UNCHANGED <<filter, cursor, errors, table, panel>>
    BY <1>8 DEF Show
  <2>2. armed' = TRUE /\ orphans' \in Nat
    BY <1>2, <2>1 DEF ScheduleNext, TimersOK
  <2>3. RequestsOK' <=> RequestsOK
    BY <2>1 DEF RequestsOK, Named
  <2>4. FormOK' /\ TableOK' /\ PanelOK' /\ TimersOK'
    BY <1>1, <1>2, <2>1, <2>2 DEF FormOK, TableOK, PanelOK, TimersOK, table, panel
  <2> QED BY <2>1, <2>2, <2>3, <2>4 DEF Inv, PollingGoesOn, FlagMeansPoll
<1>9. CASE Escape
  <2>1. requests' = requests /\ CloseDetail /\ UNCHANGED <<filter, cursor, table, timers, hidden>>
    BY <1>9 DEF Escape
  <2>2. (RequestsOK' <=> RequestsOK) /\ Polls' = Polls
    BY <2>1 DEF RequestsOK, Named, Polls
  <2>3. FormOK' /\ TableOK' /\ PanelOK'
    BY <1>1, <1>2, <2>1 DEF FormOK, TableOK, PanelOK, table, CloseDetail
  <2>4. RequestsOK
    BY DEF Inv
  <2> QED BY <1>1, <2>1, <2>2, <2>3, <2>4, OtherStepInv
<1>10. ASSUME NEW a \in Ids, ToggleDetail(a) PROVE Inv'
  <2>1. UNCHANGED <<filter, cursor, table, timers, hidden>>
    BY <1>10 DEF ToggleDetail
  <2>2. FormOK' /\ TableOK'
    BY <1>1, <1>2, <2>1 DEF FormOK, TableOK, table
  <2>3. CASE selected = a
    <3>1. CloseDetail /\ requests' = requests
      BY <1>10, <2>3 DEF ToggleDetail
    <3>2. (RequestsOK' <=> RequestsOK) /\ Polls' = Polls /\ RequestsOK
      BY <3>1 DEF Inv, RequestsOK, Named, Polls
    <3>3. PanelOK'
      BY <3>1 DEF PanelOK, CloseDetail
    <3> QED BY <1>1, <2>1, <2>2, <3>2, <3>3, OtherStepInv
  <2>4. CASE selected # a
    <3> DEFINE r == Request("detail", AnyStatus, a)
    <3>1. selected' = a /\ detail' = "loading" /\ FreeSlots # {} /\ Send(r)
      BY <1>10, <2>4 DEF ToggleDetail
    <3>2. mock \in BOOLEAN /\ RequestsOK /\ AnyStatus \in StatusFilters /\ a # None
      BY DashboardAssumption DEF Inv, FormOK, StatusFilters
    <3>3. r \in RequestType /\ Fits(r)
      BY <3>2, RequestIsTyped
    <3> HIDE DEF r
    <3>4. RequestsOK' /\ Polls \subseteq Polls'
      BY <3>1, <3>2, <3>3, SendPuts
    <3>5. PanelOK'
      BY <3>1, DashboardAssumption DEF PanelOK
    <3> QED BY <1>1, <2>1, <2>2, <3>4, <3>5, OtherStepInv
  <2> QED BY <2>3, <2>4
<1> QED BY <1>3, <1>4, <1>5, <1>6, <1>7, <1>8, <1>9, <1>10 DEF User

\* A commit changes rows, not the page.
LEMMA CommitRowInv == ASSUME Inv, CommitRow PROVE Inv'
<1>1. rows' \in Database
  BY DashboardAssumption DEF CommitRow, Inv, FormOK, Database
<1>2. UNCHANGED <<filter, cursor, timers, table, panel, hidden, mock, booted, requests>>
  BY DEF CommitRow
<1>3. (RequestsOK' <=> RequestsOK) /\ Polls' = Polls /\ RequestsOK
  BY <1>2 DEF Inv, RequestsOK, Named, Polls
<1>4. FormOK' /\ TableOK' /\ PanelOK'
  BY <1>1, <1>2 DEF Inv, FormOK, TableOK, PanelOK, table, panel
<1> QED BY <1>2, <1>3, <1>4, OtherStepInv

\* Every step of page, server and user keeps the invariant.
LEMMA StepInv == Inv /\ [Next]_vars => Inv'
<1> SUFFICES ASSUME Inv, [Next]_vars PROVE Inv'
  OBVIOUS
<1>1. CASE UNCHANGED vars
  <2>1. UNCHANGED <<rows, filter, cursor, timers, table, panel, hidden, mock, booted, requests>>
    BY <1>1 DEF vars
  <2>2. (RequestsOK' <=> RequestsOK) /\ Polls' = Polls /\ RequestsOK
    BY <2>1 DEF Inv, RequestsOK, Named, Polls
  <2>3. FormOK' /\ TableOK' /\ PanelOK'
    BY <2>1 DEF Inv, FormOK, TableOK, PanelOK, table, panel
  <2> QED BY <2>1, <2>2, <2>3, OtherStepInv
<1> QED BY <1>1, BootInv, TimerFiresInv, UserInv, CommitRowInv, ServeInv, ArriveInv, FailInv
        DEF Next

\* Every variable of the page has its type, and the panel is hidden exactly while no asset is
\* selected, in whatever order answers arrive.
THEOREM DashboardTypeCorrect == Spec => []TypeOK
BY InvIsTyped, InitInv, StepInv, PTL DEF Spec

\* A visible page that has booted has a timer set or a poll under way, for any number of
\* requests, clicks and failures.
THEOREM PollingNeverStops == Spec => []PollingGoesOn
<1>1. Inv => PollingGoesOn
  BY DEF Inv
<1> QED BY <1>1, InitInv, StepInv, PTL DEF Spec

\* The flag that makes timers skip their poll is never left set behind.
THEOREM FlagIsNeverLeft == Spec => []FlagMeansPoll
<1>1. Inv => FlagMeansPoll
  BY DEF Inv
<1> QED BY <1>1, InitInv, StepInv, PTL DEF Spec

\* Whatever the database holds and the limit is, a page names no asset twice, and one without a
\* next cursor leaves out none that matches.
THEOREM CursorlessPageIsComplete == Spec => []PageIsComplete
<1>1. Inv => PageIsComplete
  <2>1. \A status : FilterFor(status).limit \in Int
    BY DashboardAssumption DEF FilterFor
  <2> QED BY <2>1, PageFacts DEF Inv, FormOK, PageIsComplete
<1> QED BY <1>1, InitInv, StepInv, PTL DEF Spec

\* Whatever the database holds and the limit is, ORDER BY comes before LIMIT: a page is in order,
\* and nothing that is left out was seen a second after anything on it.
THEOREM PageShowsLatest == Spec => []PageIsLatest
<1>1. Inv => PageIsLatest
  <2> SUFFICES ASSUME Inv, NEW status \in StatusFilters, NEW p \in ListAssets(rows, FilterFor(status))
               PROVE  /\ \A i, j \in DOMAIN p.items :
                            i < j => rows[p.items[i]].last.sec >= rows[p.items[j]].last.sec
                      /\ \A a \in Matching(rows, FilterFor(status)) \ ToSet(p.items) :
                            \A b \in ToSet(p.items) : rows[b].last.sec >= rows[a].last.sec
    BY DEF PageIsLatest
  <2>1. FilterFor(status).limit \in Int /\ FilterFor(status).sort = "other"
    BY DashboardAssumption DEF FilterFor
  <2>2. rows \in Database
    BY DEF Inv, FormOK
  <2> QED BY <2>1, <2>2, PageOrder
<1> QED BY <1>1, InitInv, StepInv, PTL DEF Spec
=============================================================================
