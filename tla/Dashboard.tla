------------------------------ MODULE Dashboard ------------------------------
(***************************************************************************)
(* ui/static/app.js, api.js and state.js: the page that polls the API.     *)
(* JavaScript runs one callback at a time; between callbacks lie the       *)
(* timers, the answers of the server and the user.  A request is sent,     *)
(* served from the rows as they are then, and arrives or fails later, in   *)
(* any order.  Time is left out: a timer that is set may fire at any time, *)
(* and a request that may time out may fail.                               *)
(*                                                                         *)
(* A poll that arrives ends in an exception: runPoll sets the text of      *)
(* dom.refreshInterval, which cacheDOM does not set.  The statements       *)
(* behind it, which refresh or close the detail, are never reached, and    *)
(* every poll is counted as an error.                                      *)
(***************************************************************************)
EXTENDS AssetQuery

CONSTANTS
    MockRows,      \* the invented assets: a function from their ids to their status
    InitialRows, LaterRows,     \* rows before, and rows the persister may commit
    PageLimit,     \* state.page.limit
    MaxRequests,   \* bound: requests at a time
    MaxClicks,     \* bound: what the user does
    MaxFailures,   \* bound: requests that fail
    MaxCommits,    \* bound: rows that change
    None,          \* no request, no asset
    Offset         \* a cursor that is a number

VARIABLES
    rows,       \* the database
    filter,     \* state.filters: the status filter
    cursor,     \* state.page.cursor: NoTime, a time, or Offset
    next,       \* state.page.nextCursor
    prevOn,     \* the button for the previous page, as last rendered
    items,      \* state.assets: the table
    selected,   \* state.selectedAssetId
    detail,     \* what the panel shows: an asset, "loading", "failed", or None (hidden)
    inFlight,   \* state.refreshInFlight
    errors,     \* state.consecutiveErrors, up to the 3 that matter
    armed,      \* the timer of the handle pollTimer is set
    orphans,    \* timers that are set and whose handle was overwritten
    hidden,     \* document.hidden
    mock,       \* state.useMock
    booted,     \* bootPoll has probed the API
    requests,   \* the requests on their way
    clicks, failures, commits   \* what was used of the bounds

timers == <<inFlight, errors, armed, orphans>>
table == <<next, prevOn, items>>
panel == <<selected, detail>>
bounds == <<clicks, failures, commits>>
vars == <<rows, filter, cursor, timers, table, panel, hidden, mock, booted, requests, bounds>>

Slots == 1..MaxRequests
StatusFilters == Statuses \cup {AnyStatus}
Ids == Assets \cup DOMAIN MockRows

Page == [items: Seq(Ids), next: Time \cup {NoTime}]

RequestType ==
    [kind: {"poll", "refresh", "detail"}, mock: BOOLEAN, status: StatusFilters,
     asset: Ids \cup {None}, page: Page \cup {None, <<>>}]

ASSUME DashboardAssumption ==
    /\ IsFiniteSet(Assets) /\ IsFiniteSet(DOMAIN MockRows)
    /\ InitialRows \in [Assets -> Row \cup {NoRow}]
    /\ LaterRows \subseteq Row
    /\ PageLimit \in Int
    /\ MaxRequests \in Nat
    /\ NoTime \notin Time
    /\ None \notin Ids \cup {"loading", "failed"}
    /\ None \notin RequestType

\* The parameters fetchAssets sends; no handler reads the cursor, which is sent too.
FilterFor(status) ==
    [status |-> status, seenAfter |-> NoTime, seenBefore |-> NoTime,
     sort |-> "other", limit |-> PageLimit]

\* What fetchAssets answers in mock mode.
MockPage(status) ==
    [items |-> SetToSeq({m \in DOMAIN MockRows : status \in {AnyStatus, MockRows[m]}}),
     next  |-> NoTime]

\* The pages that answer a request now.
Pages(db, status, invented) ==
    IF invented THEN {MockPage(status)} ELSE ListAssets(db, FilterFor(status))

Request(kind, status, asset) ==
    [kind |-> kind, mock |-> mock, status |-> status, asset |-> asset, page |-> None]

FreeSlots == {i \in Slots : requests[i] = None}

Send(r) == requests' = [requests EXCEPT ![Min(FreeSlots)] = r]

Polls == {i \in Slots : requests[i] # None /\ requests[i].kind = "poll"}

Init ==
    /\ rows = InitialRows
    /\ filter = AnyStatus
    /\ cursor = NoTime
    /\ next = NoTime
    /\ prevOn = FALSE
    /\ items = <<>>
    /\ selected = None
    /\ detail = None
    /\ inFlight = FALSE
    /\ errors = 0
    /\ armed = FALSE
    /\ orphans = 0
    /\ hidden \in BOOLEAN
    /\ mock = TRUE
    /\ booted = FALSE
    /\ requests = [i \in Slots |-> None]
    /\ clicks = 0
    /\ failures = 0
    /\ commits = 0

-----------------------------------------------------------------------------
(* Polling *)

\* setTimeout; pollTimer was, or was not, that of a timer still set, and others are set too.
ScheduleNext(wasArmed, others) ==
    /\ armed' = TRUE
    /\ orphans' = IF wasArmed THEN others + 1 ELSE others

\* runPoll up to its first await; busy is what it finds in refreshInFlight.
RunPoll(busy, isMock, wasArmed, others) ==
    IF busy \/ hidden
    THEN /\ ScheduleNext(wasArmed, others)
         /\ inFlight' = busy
         /\ UNCHANGED requests
    ELSE /\ FreeSlots # {}
         /\ Send([Request("poll", filter, None) EXCEPT !.mock = isMock])
         /\ inFlight' = TRUE
         /\ armed' = wasArmed
         /\ orphans' = others

\* bootPoll: the probe is answered, or not within 1.5 seconds; then the first poll.
Boot ==
    /\ ~booted
    /\ booted' = TRUE
    /\ mock' \in (IF failures < MaxFailures THEN BOOLEAN ELSE {FALSE})
    /\ failures' = IF mock' THEN failures + 1 ELSE failures
    /\ RunPoll(inFlight, mock', armed, orphans)
    /\ UNCHANGED <<rows, filter, cursor, errors, table, panel, hidden, clicks, commits>>

TimerFires ==
    /\ \/ armed /\ RunPoll(inFlight, mock, FALSE, orphans)
       \/ orphans > 0 /\ RunPoll(inFlight, mock, armed, orphans - 1)
    /\ UNCHANGED <<rows, filter, cursor, errors, table, panel, hidden, mock, booted, bounds>>

\* Mutant of PollEnds: finally does not reset the flag.
PollEndsBusy(failed) ==
    /\ errors' = IF failed THEN Min({errors + 1, 3}) ELSE 1
    /\ UNCHANGED inFlight
    /\ ScheduleNext(armed, orphans)

\* Mutant of PollEnds: a poll that failed does not set the timer.
PollEndsOnce(failed) ==
    /\ errors' = IF failed THEN Min({errors + 1, 3}) ELSE 1
    /\ inFlight' = FALSE
    /\ IF failed THEN UNCHANGED <<armed, orphans>> ELSE ScheduleNext(armed, orphans)

\* The end of runPoll: catch, then finally. A poll that arrived has reset the errors before.
PollEnds(failed) ==
    /\ errors' = IF failed THEN Min({errors + 1, 3}) ELSE 1
    /\ inFlight' = FALSE
    /\ ScheduleNext(armed, orphans)

\* state.assets and state.page.nextCursor are replaced, and the table rendered.
Render(page) ==
    /\ items' = page.items
    /\ next' = page.next
    /\ prevOn' = (cursor # NoTime)

PollArrives(i) ==
    /\ Render(requests[i].page)
    /\ PollEnds(FALSE)
    /\ UNCHANGED panel

-----------------------------------------------------------------------------
(* The other requests *)

CloseDetail == selected' = None /\ detail' = None

RefreshArrives(i) ==
    /\ Render(requests[i].page)
    /\ IF selected # None /\ selected \notin ToSet(requests[i].page.items)
       THEN CloseDetail
       ELSE UNCHANGED panel
    /\ UNCHANGED timers

\* Mutant of DetailArrives: an answer opens the panel again.
DetailArrivesAnyway(i) ==
    /\ detail' = requests[i].asset
    /\ UNCHANGED <<table, selected, timers>>

\* The panel shows whatever detail arrives last, also when it is hidden.
DetailArrives(i) ==
    /\ detail' = IF selected = None THEN None ELSE requests[i].asset
    /\ UNCHANGED <<table, selected, timers>>

\* The server takes the answer from the database.
Serve(i) ==
    /\ requests[i] # None
    /\ requests[i].page = None
    /\ \E p \in IF requests[i].kind = "detail" THEN {<<>>}
                ELSE Pages(rows, requests[i].status, requests[i].mock) :
          requests' = [requests EXCEPT ![i].page = p]
    /\ UNCHANGED <<rows, filter, cursor, timers, table, panel, hidden, mock, booted, bounds>>

Arrive(i) ==
    /\ requests[i] # None
    /\ requests[i].page # None
    /\ CASE requests[i].kind = "poll"    -> PollArrives(i)
         [] requests[i].kind = "refresh" -> RefreshArrives(i)
         [] requests[i].kind = "detail"  -> DetailArrives(i)
    /\ requests' = [requests EXCEPT ![i] = None]
    /\ UNCHANGED <<rows, filter, cursor, hidden, mock, booted, bounds>>

\* An error of the server or the network, or the abort of a poll after its interval.
Fail(i) ==
    /\ requests[i] # None
    /\ ~requests[i].mock
    /\ failures < MaxFailures
    /\ failures' = failures + 1
    /\ requests' = [requests EXCEPT ![i] = None]
    /\ CASE requests[i].kind = "poll"    -> PollEnds(TRUE) /\ UNCHANGED panel
         [] requests[i].kind = "refresh" -> UNCHANGED <<timers, panel>>
         [] requests[i].kind = "detail"  ->
               /\ detail' = IF selected = None THEN None ELSE "failed"
               /\ UNCHANGED <<timers, selected>>
    /\ UNCHANGED <<rows, filter, cursor, table, hidden, mock, booted, clicks, commits>>

-----------------------------------------------------------------------------
(* The user *)

Click ==
    /\ clicks < MaxClicks
    /\ clicks' = clicks + 1
    /\ UNCHANGED <<rows, mock, booted, failures, commits>>

\* refreshData up to its await.
RefreshData(status) ==
    /\ FreeSlots # {}
    /\ Send(Request("refresh", status, None))

SetFilter(status) ==
    /\ Click
    /\ filter' = status
    /\ cursor' = NoTime
    /\ next' = NoTime
    /\ RefreshData(status)
    /\ UNCHANGED <<prevOn, items, panel, timers, hidden>>

NextPage ==
    /\ Click
    /\ next # NoTime
    /\ cursor' = next
    /\ RefreshData(filter)
    /\ UNCHANGED <<filter, table, panel, timers, hidden>>

\* parseInt of a time is its year, which less the limit is a number, and some clicks later 0.
PrevPage ==
    /\ Click
    /\ prevOn
    /\ cursor' \in IF cursor = NoTime THEN {NoTime}
                   ELSE IF cursor = Offset THEN {Offset, NoTime} ELSE {Offset}
    /\ RefreshData(filter)
    /\ UNCHANGED <<filter, table, panel, timers, hidden>>

RefreshNow ==
    /\ Click
    /\ ~hidden
    /\ RunPoll(FALSE, mock, FALSE, orphans)
    /\ UNCHANGED <<filter, cursor, errors, table, panel, hidden>>

Hide ==
    /\ Click
    /\ ~hidden
    /\ hidden' = TRUE
    /\ armed' = FALSE
    /\ UNCHANGED <<filter, cursor, inFlight, errors, orphans, table, panel, requests>>

\* Mutant of Show: the flag is left as it is found, and so is the timer.
ShowOnly ==
    /\ Click
    /\ hidden
    /\ hidden' = FALSE
    /\ UNCHANGED <<filter, cursor, timers, table, panel, requests>>

Show ==
    /\ Click
    /\ hidden
    /\ hidden' = FALSE
    /\ inFlight' = FALSE
    /\ ScheduleNext(armed, orphans)
    /\ UNCHANGED <<filter, cursor, errors, table, panel, requests>>

\* A click on a row opens its detail, or closes it if it is open.
ToggleDetail(a) ==
    /\ Click
    /\ a \in ToSet(items)
    /\ IF selected = a
       THEN CloseDetail /\ UNCHANGED requests
       ELSE /\ selected' = a
            /\ detail' = "loading"
            /\ FreeSlots # {}
            /\ Send(Request("detail", AnyStatus, a))
    /\ UNCHANGED <<filter, cursor, table, timers, hidden>>

Escape ==
    /\ Click
    /\ selected # None
    /\ CloseDetail
    /\ UNCHANGED <<filter, cursor, table, timers, hidden, requests>>

User ==
    \/ \E status \in StatusFilters : SetFilter(status)
    \/ NextPage \/ PrevPage \/ RefreshNow \/ Hide \/ Show \/ Escape
    \/ \E a \in Ids : ToggleDetail(a)

\* The persister commits a row.
CommitRow ==
    /\ commits < MaxCommits
    /\ commits' = commits + 1
    /\ \E a \in Assets, row \in LaterRows : rows' = [rows EXCEPT ![a] = row]
    /\ UNCHANGED <<filter, cursor, timers, table, panel, hidden, mock, booted, requests,
                   clicks, failures>>

Next ==
    \/ Boot \/ TimerFires \/ User \/ CommitRow
    \/ \E i \in Slots : Serve(i) \/ Arrive(i) \/ Fail(i)

Spec == Init /\ [][Next]_vars

\* Timers fire, the server serves and the browser delivers; the user does what he likes.
Fairness ==
    /\ WF_vars(Boot)
    /\ WF_vars(TimerFires)
    /\ \A i \in Slots : WF_vars(Serve(i) \/ Arrive(i))

FairSpec == Spec /\ Fairness

-----------------------------------------------------------------------------
(* Properties *)

\* Type of the page's state; a hidden panel belongs to no selection.
TypeOK ==
    /\ rows \in [Assets -> Row \cup {NoRow}]
    /\ filter \in StatusFilters
    /\ cursor \in Time \cup {NoTime, Offset}
    /\ next \in Time \cup {NoTime}
    /\ items \in Seq(Ids)
    /\ selected \in Ids \cup {None}
    /\ detail \in Ids \cup {None, "loading", "failed"}
    /\ (detail = None) <=> (selected = None)
    /\ {prevOn, inFlight, armed, hidden, mock, booted} \subseteq BOOLEAN
    /\ errors \in 0..3
    /\ orphans \in Nat
    /\ requests \in [Slots -> RequestType \cup {None}]

\* Polling does not stop while the page is visible: after the probe a timer is set or a poll is
\* under way, whatever was clicked, hidden or shown meanwhile.
PollingGoesOn == booted /\ ~hidden => armed \/ orphans > 0 \/ Polls # {}

\* refreshInFlight, which makes every timer skip its poll, is set only while a poll is under way.
FlagMeansPoll == inFlight => Polls # {}

\* Once the user rests and the database does too, a visible page comes to show what the API
\* answers for the filter shown, although answers arrive late and in any order, requests fail,
\* and polls overlap.
TableSettles == <>[](hidden \/ \E p \in Pages(rows, filter, mock) : items = p.items)

\* An answer without next cursor lists every asset that matches, once.
PageIsComplete ==
    \A status \in StatusFilters : \A p \in ListAssets(rows, FilterFor(status)) :
        /\ Len(p.items) = Cardinality(ToSet(p.items))
        /\ p.next = NoTime => ToSet(p.items) = Matching(rows, FilterFor(status))

\* The page is in order, and nothing on it is older than what is left out - up to one second,
\* within which times are compared as text.
PageIsLatest ==
    \A status \in StatusFilters : \A p \in ListAssets(rows, FilterFor(status)) :
        LET sec(a) == rows[a].last.sec IN
        /\ \A i, j \in DOMAIN p.items : i < j => sec(p.items[i]) >= sec(p.items[j])
        /\ \A a \in Matching(rows, FilterFor(status)) \ ToSet(p.items) :
              \A b \in ToSet(p.items) : sec(b) >= sec(a)

\* "Polling loop (non-overlapping, with backoff)".
PollsDoNotOverlap == Cardinality(Polls) <= 1
=============================================================================
