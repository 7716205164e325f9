----------------------------- MODULE AssetStore -----------------------------
(***************************************************************************)
(* One asset through many lives: what is learned is merged in memory,      *)
(* drained, upserted into the tables, forgotten by an eviction or the end  *)
(* of the process, and loaded again, table by table, while an earlier      *)
(* snapshot may still be on its way to them.                               *)
(*                                                                         *)
(* AssetManager and AssetRecord follow status, times and addresses; this   *)
(* module follows what they lump together as facts, because it changes its *)
(* form on the way: host names and services are lists in memory and rows   *)
(* in tables, a row of a service has no role, the extras are stored as     *)
(* JSON and by the first insert only, and the operating system may be told *)
(* or guessed.  Scalars like the operating system (vendor, device type,    *)
(* model) go its way; the list of DNS servers stands for the extras.  The  *)
(* observations of the asset are applied by one worker: a second one, that *)
(* looked the asset up before the first made or hydrated its record, then  *)
(* replaces it (manager.go 263-308), which AssetManager shows.             *)
(***************************************************************************)
EXTENDS Integers, SequencesExt

CONSTANTS
    Names,
    TellingNames,   \* host names that give the operating system away
    VendorTells,    \* whether the vendor does
    Ports,
    Servers,        \* the items of the list in the extras
    Inputs,         \* the observations of the asset
    MaxList,        \* bound on that list
    MaxBatches,     \* bound on the snapshots on their way
    NoRecord, NoRow, NoList, NotLoading

Service == [port: Ports, client: BOOLEAN]

OS == {"", "guess", "told"}

\* In memory a list is a []string, or a []any once it was read from JSON.
List == [type: {"strings", "any"}, items: Seq(Servers)]

Record == [names: Seq(Names), services: Seq(Service), os: OS, list: List \cup {NoList}]

\* What the analyzers tell; an empty list is a key that is absent.
Observation == [names: Seq(Names), services: Seq(Service), os: {"", "told"}, list: Seq(Servers)]

Row == [names: SUBSET Names, ports: SUBSET Ports, os: OS, list: Seq(Servers) \cup {NoList}]

Loading == [stage: {"names", "services"}, part: Record, obs: Observation]

ASSUME StoreAssumption ==
    /\ TellingNames \subseteq Names
    /\ VendorTells \in BOOLEAN
    /\ Inputs \subseteq Observation
    /\ IsFiniteSet(Names) /\ IsFiniteSet(Ports)
    /\ NoRow \notin Row
    /\ MaxList \in Nat /\ MaxBatches \in Nat

VARIABLES
    mem,        \* the record in the manager's shard
    dirty,      \* its mark
    batch,      \* snapshots drained and not yet written, oldest first
    row,        \* its rows in the tables
    load,       \* the hydration in progress, under the shard's lock
    lost,       \* history: a snapshot was given up since the record is in memory
    blind       \* history: the record was made without all that was drained of it before

vars == <<mem, dirty, batch, row, load, lost, blind>>

-----------------------------------------------------------------------------
(* Merging *)

\* Mutant of AddOnce: what is incoming is compared to what is there only.
AddOnceEach(seq, incoming) == seq \o SelectSeq(incoming, LAMBDA v : v \notin Range(seq))

\* mergeStrings; mergeServices too, whose key is the port and the role. "added" is what there
\* is after the n-th of the incoming.
AddOnce(seq, incoming) ==
    LET added[n \in 0..Len(incoming)] ==
            IF n = 0 THEN seq
            ELSE IF incoming[n] \in Range(added[n - 1]) THEN added[n - 1]
            ELSE Append(added[n - 1], incoming[n])
    IN added[Len(incoming)]

\* Items of a []string are added once, items of a []any always.
mergeExtras(list, items) ==
    CASE items = <<>> -> list
      [] items # <<>> /\ list = NoList -> [type |-> "strings", items |-> items]
      [] items # <<>> /\ list # NoList ->
            [list EXCEPT !.items = IF list.type = "any" THEN @ \o items ELSE AddOnce(@, items)]

mergeObservation(r, o) ==
    [names    |-> AddOnce(r.names, o.names),
     services |-> AddOnce(r.services, o.services),
     os       |-> IF r.os = "" THEN o.os ELSE r.os,
     list     |-> mergeExtras(r.list, o.list)]

inferFromVendorHostname(names) ==
    IF VendorTells \/ Range(names) \cap TellingNames # {} THEN "guess" ELSE ""

mergeInto(r, o) ==
    LET m == mergeObservation(r, o) IN
    IF m.os = "" THEN [m EXCEPT !.os = inferFromVendorHostname(m.names)] ELSE m

\* Mutant of Changed: the guess is not reported.
ChangedByObservation(r, o) ==
    LET m == mergeObservation(r, o) IN
    m.names # r.names \/ m.services # r.services \/ m.os # r.os \/ m.list # r.list

\* MergeResult.Changed, apart from the seen interval and the status.
Changed(r, o) ==
    LET m == mergeObservation(r, o) IN
    \/ Len(m.names) > Len(r.names)
    \/ Len(m.services) > Len(r.services)
    \/ m.os # r.os
    \/ m.list # r.list
    \/ mergeInto(r, o).os # m.os

Blank == [names |-> <<>>, services |-> <<>>, os |-> "", list |-> NoList]

-----------------------------------------------------------------------------
(* Storage *)

\* The columns keep what a snapshot does not know; extra_json is not updated at all.
Upsert(r) ==
    IF row = NoRow
    THEN [names |-> Range(r.names), ports |-> {s.port : s \in Range(r.services)},
          os |-> r.os, list |-> IF r.list = NoList THEN NoList ELSE r.list.items]
    ELSE [row EXCEPT !.names = @ \cup Range(r.names),
                     !.ports = @ \cup {s.port : s \in Range(r.services)},
                     !.os    = IF r.os = "" THEN @ ELSE r.os]

\* Mutant of StoredList: a NULL is decoded too.
StoredListUnchecked(items) == [type |-> "any", items |-> items]

\* JSON knows no []string.
StoredList(items) == IF items = NoList THEN NoList ELSE [type |-> "any", items |-> items]

\* The row of the asset itself, the first query of a load.
StoredAsset == [Blank EXCEPT !.os = row.os, !.list = StoredList(row.list)]

\* Rows come in an order the program does not choose, and no property tells apart.
StoredNames == SetToSeq(row.names)
StoredServices == SetToSeq({[port |-> p, client |-> FALSE] : p \in row.ports})

-----------------------------------------------------------------------------

Init ==
    /\ mem = NoRecord
    /\ dirty = FALSE
    /\ batch = <<>>
    /\ \/ row = NoRow
       \/ row \in [names: {{}, Names}, ports: {{}}, os: {""}, list: {NoList}]
    /\ load = NotLoading
    /\ lost = FALSE
    /\ blind = FALSE

Fits(r) == r.list # NoList => Len(r.list.items) <= MaxList

\* An observation of an asset in memory. "newer" is what else may mark it: a later time, or a
\* status that changes.
Update(o, newer) ==
    /\ load = NotLoading
    /\ mem # NoRecord
    /\ Fits(mergeInto(mem, o))
    /\ mem' = mergeInto(mem, o)
    /\ dirty' = (dirty \/ newer \/ Changed(mem, o))
    /\ UNCHANGED <<batch, row, load, lost, blind>>

Create(o) ==
    /\ mem' = mergeInto(Blank, o)
    /\ dirty' = TRUE
    /\ lost' = FALSE
    /\ load' = NotLoading
    /\ UNCHANGED <<batch, row>>

\* An observation of an asset not in memory: the first query of LoadAssetByMAC.
Hydrate(o) ==
    /\ load = NotLoading
    /\ mem = NoRecord
    /\ blind' = (batch # <<>>)
    /\ IF row = NoRow
       THEN Create(o)
       ELSE /\ load' = [stage |-> "names", part |-> StoredAsset, obs |-> o]
            /\ UNCHANGED <<mem, dirty, batch, row, lost>>

LoadHostnames ==
    /\ load # NotLoading
    /\ load.stage = "names"
    /\ load' = [load EXCEPT !.stage = "services", !.part.names = StoredNames]
    /\ UNCHANGED <<mem, dirty, batch, row, lost, blind>>

\* The last query, and the rest of Apply.
LoadServices(newer) ==
    /\ load # NotLoading
    /\ load.stage = "services"
    /\ LET r == [load.part EXCEPT !.services = StoredServices] IN
         /\ Fits(mergeInto(r, load.obs))
         /\ mem' = mergeInto(r, load.obs)
         /\ dirty' = (dirty \/ newer \/ Changed(r, load.obs))
    /\ load' = NotLoading
    /\ lost' = FALSE
    /\ UNCHANGED <<batch, row, blind>>

\* Mutant of LoadFails: what was read is used.
LoadFailsPartly ==
    /\ load # NotLoading
    /\ mem' = mergeInto(load.part, load.obs)
    /\ dirty' = TRUE
    /\ load' = NotLoading
    /\ lost' = FALSE
    /\ UNCHANGED <<batch, row, blind>>

\* A query fails; Apply ignores the error and makes a new record.
LoadFails ==
    /\ load # NotLoading
    /\ Create(load.obs)
    /\ blind' = TRUE

\* Drain and Evict need the shard's lock. A mark without a record is cleared and nothing taken.
Drain ==
    /\ load = NotLoading
    /\ dirty
    /\ Len(batch) < MaxBatches
    /\ batch' = IF mem = NoRecord THEN batch ELSE Append(batch, mem)
    /\ dirty' = FALSE
    /\ UNCHANGED <<mem, row, load, lost, blind>>

Save ==
    /\ batch # <<>>
    /\ row' = Upsert(Head(batch))
    /\ batch' = Tail(batch)
    /\ UNCHANGED <<mem, dirty, load, lost, blind>>

GiveUp ==
    /\ batch # <<>>
    /\ batch' = Tail(batch)
    /\ lost' = TRUE
    /\ UNCHANGED <<mem, dirty, row, load, blind>>

\* An asset that was silent for long enough leaves memory; its mark stays.
Evict ==
    /\ load = NotLoading
    /\ mem # NoRecord
    /\ mem' = NoRecord
    /\ UNCHANGED <<dirty, batch, row, load, lost, blind>>

\* The process ends, at any moment, and starts again: the asset is loaded if it is in the load
\* window and the database answers.
Restart ==
    /\ \/ mem' = NoRecord
       \/ /\ row # NoRow
          /\ mem' = [StoredAsset EXCEPT !.names = StoredNames, !.services = StoredServices]
    /\ dirty' = FALSE
    /\ batch' = <<>>
    /\ load' = NotLoading
    /\ lost' = FALSE
    /\ blind' = FALSE
    /\ UNCHANGED row

Next ==
    \/ \E o \in Inputs : Hydrate(o)
    \/ \E newer \in BOOLEAN : LoadServices(newer) \/ \E o \in Inputs : Update(o, newer)
    \/ LoadHostnames \/ LoadFails
    \/ Drain \/ Save \/ GiveUp
    \/ Evict \/ Restart

Spec == Init /\ [][Next]_vars

-----------------------------------------------------------------------------
(* Properties *)

TypeOK ==
    /\ mem \in Record \cup {NoRecord}
    /\ dirty \in BOOLEAN
    /\ batch \in Seq(Record)
    /\ row \in Row \cup {NoRow}
    /\ load \in Loading \cup {NotLoading}
    /\ lost \in BOOLEAN
    /\ blind \in BOOLEAN

PortsOf(r) == {s.port : s \in Range(r.services)}

\* Unless a snapshot was given up, an asset that is not marked and not on its way to the
\* database is in it: its names, its ports and its operating system, learned late or guessed
\* (manager.go:202-227, merge.go:13-43). The operating system may differ if the record was made
\* without all that was drained before: the old snapshot overwrites the column. The list is
\* left out: see SameListChangesNothing.
RowAnswersForMemory ==
    mem # NoRecord /\ ~dirty /\ batch = <<>> /\ ~lost =>
        /\ row # NoRow
        /\ Range(mem.names) \subseteq row.names
        /\ PortsOf(mem) \subseteq row.ports
        /\ mem.os # "" /\ ~blind => row.os = mem.os

\* What the database holds of an asset in memory, the memory holds too, although the tables are
\* read one by one (sqlite.go:196-243); unless the hydration failed, or the asset was evicted
\* and seen again before its last snapshots were written.
MemoryAnswersForRow ==
    mem # NoRecord /\ row # NoRow /\ ~blind =>
        /\ row.names \subseteq Range(mem.names)
        /\ row.ports \subseteq PortsOf(mem)

\* However often an asset is stored and loaded, and although a stored service forgets its role,
\* no host name and no service is listed twice; nor is an item of a list that was never stored,
\* unless an observation has it twice, which is taken as it is (util.go:131-241).
NothingListedTwice ==
    mem # NoRecord =>
        /\ IsInjective(mem.names)
        /\ IsInjective(mem.services)
        /\ mem.list # NoList /\ mem.list.type = "strings"
              /\ (\A o \in Inputs : IsInjective(o.list)) => IsInjective(mem.list.items)

\* A list that brings nothing new changes nothing. It does once the extras were loaded: the
\* items are []any then, and appended by every observation (util.go:143-160).
SameListChangesNothing ==
    [][\A o \in Inputs :
          (mem # NoRecord /\ mem.list # NoList /\ Range(o.list) \subseteq Range(mem.list.items)
            /\ mem' = mergeInto(mem, o))
          => mem'.list = mem.list]_vars
=============================================================================
