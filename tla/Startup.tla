------------------------------- MODULE Startup --------------------------------
(***************************************************************************)
(* cmd/discovery/main.go up to the start of the pipeline, and what a       *)
(* restart takes over from the life before: settings, log, source, vendor  *)
(* table, database, the assets of the load window, the packet counter.     *)
(* run() goes through its stages one by one and returns at the first that  *)
(* fails; the deferred calls close what they were set up for.  Once it is  *)
(* running, packets are counted and flushes store assets and statistics,   *)
(* and the process may stop or crash at any time and be started again.     *)
(***************************************************************************)
EXTENDS Config, OuiTable

CONSTANTS
    Assets,
    Inputs,         \* the settings it may be started with, each with an OUI file and rows
    Clock,          \* the times the clock shows, one after the other
    MaxPackets,     \* bound: packets counted
    MaxFlushes,     \* bound: rows of statistics
    MaxLives,       \* bound: starts
    NoRow, NoConfig, NoLookup, NoInput

Row == [status: {"online", "offline"}, last: Time]
Statistics == [at: Time, packets: Nat]

ASSUME StartupAssumption ==
    /\ IsFiniteSet(Assets)
    /\ \A input \in Inputs :
          /\ \A s \in Settings : input.env[s] \in GivenFor(s) /\ input.flags[s] \in GivenFor(s)
          /\ input.file \in Seq(Line)
          /\ input.rows \in [Assets -> Row \cup {NoRow}]
          /\ [env |-> input.env, flags |-> input.flags] # NoInput
    /\ NoRow \notin Row
    /\ Clock \in Seq(Time) /\ Clock # <<>>
    /\ \A i, j \in DOMAIN Clock : i < j => Before(Clock[i], Clock[j])
    /\ MaxPackets \in Nat /\ MaxFlushes \in Nat /\ MaxLives \in Nat

VARIABLES
    stage,      \* where run() is: what it does next, "running", "failed" or "down"
    given,      \* arguments and environment, until they are parsed
    config,     \* *config.Config
    file,       \* the OUI file
    held,       \* what is open: "log", "source", "repo"
    goroutines, \* what run() has started
    vendors,    \* the manager's vendor resolver
    memory,     \* the manager's assets
    packets,    \* Manager.packetsRecv
    evictAfter,
    rows,       \* the table of assets
    stats,      \* the table of statistics
    now,        \* the clock
    lives,      \* how often it was started
    uncounted,  \* history: a start did not get to read the statistics
    loadedAt    \* history: what the clock showed when assets were loaded

process == <<given, config, held, goroutines, vendors, memory, packets, evictAfter>>
disk == <<file, rows, stats>>
history == <<uncounted, loadedAt>>
vars == <<stage, process, disk, now, lives, history>>

Time0 == Clock[now]

\* How long ago t was, as a duration.
Ago(t) == Instant(Time0) - Instant(t)

Init ==
    /\ stage = "parse"
    /\ \E input \in Inputs : /\ given = [env |-> input.env, flags |-> input.flags]
                             /\ file = input.file
                             /\ rows = input.rows
    /\ config = NoConfig
    /\ held = {}
    /\ goroutines = {}
    /\ vendors = NoLookup
    /\ memory = [a \in Assets |-> NoRow]
    /\ packets = 0
    /\ evictAfter = 0
    /\ stats = <<>>
    /\ now = 1
    /\ lives = 1
    /\ uncounted = FALSE
    /\ loadedAt = 1

-----------------------------------------------------------------------------
(* run(), up to the pipeline *)

World == <<now, lives>>
Settled == <<given, config, evictAfter>>

\* A return before the pipeline: the deferred calls close log and source.
Return(open) ==
    /\ stage' = "failed"
    /\ held' = open \ {"log", "source"}
    /\ UNCHANGED <<goroutines, vendors, memory, packets>>

Opened(resource, next) ==
    /\ stage' = next
    /\ held' = held \cup {resource}
    /\ UNCHANGED <<goroutines, vendors, memory, packets>>

ParseArguments ==
    /\ stage = "parse"
    /\ given' = NoInput
    /\ IF Refused(given.env, given.flags)
       THEN stage' = "failed" /\ UNCHANGED <<config, evictAfter>>
       ELSE /\ stage' = "log"
            /\ config' = ParseConfig(given.env, given.flags)
            /\ evictAfter' = EvictAfter(config')
    /\ UNCHANGED <<held, goroutines, vendors, memory, packets, disk, World, history>>

OpenLog ==
    /\ stage = "log"
    /\ Opened("log", "source") \/ Return(held)
    /\ UNCHANGED <<Settled, disk, World, history>>

OpenSource ==
    /\ stage = "source"
    /\ Opened("source", "manager") \/ Return(held)
    /\ UNCHANGED <<Settled, disk, World, history>>

\* buildManagerOpts: a table that cannot be opened, or has no entries, leaves the manager
\* without vendors; one with errors is used without a word.
BuildManager ==
    /\ stage = "manager"
    /\ stage' = "db"
    /\ vendors' \in IF config["oui"] = "" \/ Parse(file) = <<>> THEN {NoLookup}
                    ELSE {NoLookup, NewLookup(Parse(file))}
    /\ UNCHANGED <<Settled, held, goroutines, memory, packets, disk, World, history>>

OpenDB ==
    /\ stage = "db"
    /\ IF config["db"] = ""
       THEN /\ stage' = "go"
            /\ UNCHANGED <<held, goroutines, vendors, memory, packets>>
       ELSE Opened("repo", "schema") \/ Return(held)
    /\ UNCHANGED <<Settled, disk, World, history>>

\* Mutant of InitSchema: repo.Close, which is deferred much later, is not called.
InitSchemaLeaves ==
    /\ stage = "schema"
    /\ \/ Return(held)
       \/ stage' = "load" /\ UNCHANGED <<held, goroutines, vendors, memory, packets>>
    /\ UNCHANGED <<Settled, disk, World, history>>

InitSchema ==
    /\ stage = "schema"
    /\ \/ Return(held \ {"repo"})
       \/ stage' = "load" /\ UNCHANGED <<held, goroutines, vendors, memory, packets>>
    /\ UNCHANGED <<Settled, disk, World, history>>

\* The rows last seen since a time, compared as text.
Since(t) == {a \in Assets : rows[a] # NoRow /\ ~TextBefore(rows[a].last, t)}

\* Mutant of LoadAssets: LIMIT without ORDER BY.
LoadAssetsUnordered(t, limit) ==
    IF limit = 0 THEN {Since(t)}
    ELSE {S \in SUBSET Since(t) : Cardinality(S) = Min({limit, Cardinality(Since(t))})}

\* The sets of rows LoadAssets may return: ORDER BY last_seen DESC LIMIT limit.
LoadAssets(t, limit) ==
    IF limit = 0 THEN {Since(t)}
    ELSE {S \in SUBSET Since(t) :
            /\ Cardinality(S) = Min({limit, Cardinality(Since(t))})
            /\ \A a \in S, b \in Since(t) \ S : ~TextBefore(rows[a].last, rows[b].last)}

Swept(row) == IF row.status = "online" /\ Ago(row.last) > config["offline-after"]
              THEN [row EXCEPT !.status = "offline"] ELSE row

\* time.Now().Add(-cfg.LoadWindow).
LoadSince == AtInstant(Instant(Time0) - config["load-window"])

\* An error is logged, and the start goes on without the assets.
Load ==
    /\ stage = "load"
    /\ stage' = "baseline"
    /\ \E S \in {{}} \cup LoadAssets(LoadSince, config["load-limit"]) :
          memory' = [a \in Assets |-> IF a \in S THEN Swept(rows[a]) ELSE NoRow]
    /\ loadedAt' = now
    /\ UNCHANGED <<Settled, held, goroutines, vendors, packets, disk, World, uncounted>>

\* The last row of statistics is the one whose time is the greatest text.
LastStatistics == {i \in DOMAIN stats : \A j \in DOMAIN stats : ~TextBefore(stats[i].at, stats[j].at)}

\* Mutant of Baseline: the first row.
BaselineFirst ==
    /\ stage = "baseline"
    /\ stage' = "go"
    /\ IF stats = <<>> THEN UNCHANGED <<packets, uncounted>>
       ELSE packets' = stats[1].packets /\ UNCHANGED uncounted
    /\ UNCHANGED <<Settled, held, goroutines, vendors, memory, disk, World, loadedAt>>

\* An error is not even logged: the counter starts at zero.
Baseline ==
    /\ stage = "baseline"
    /\ stage' = "go"
    /\ \/ /\ \E i \in LastStatistics : packets' = stats[i].packets
          /\ UNCHANGED uncounted
       \/ stats = <<>> /\ UNCHANGED <<packets, uncounted>>
       \/ uncounted' = TRUE /\ UNCHANGED packets
    /\ UNCHANGED <<Settled, held, goroutines, vendors, memory, disk, World, loadedAt>>

Go ==
    /\ stage = "go"
    /\ stage' = "running"
    /\ goroutines' = {"tracker", "rate"}
                     \cup (IF "repo" \in held THEN {"persister"} ELSE {})
                     \cup (IF "repo" \in held /\ config["api-addr"] # "" THEN {"api"} ELSE {})
    /\ UNCHANGED <<Settled, held, vendors, memory, packets, disk, World, history>>

-----------------------------------------------------------------------------
(* Running, stopping, starting again *)

RecordPacket ==
    /\ stage = "running"
    /\ packets < MaxPackets
    /\ packets' = packets + 1
    /\ UNCHANGED <<stage, given, config, held, goroutines, vendors, memory, evictAfter, disk,
                   World, history>>

\* An asset is seen and flushed; the statistics of the flush are inserted, or that fails.
Flush ==
    /\ stage = "running"
    /\ "persister" \in goroutines
    /\ Len(stats) < MaxFlushes
    /\ \E a \in Assets : LET seen == [status |-> "online", last |-> Time0] IN
          /\ memory' = [memory EXCEPT ![a] = seen]
          /\ rows' = [rows EXCEPT ![a] = seen]
    /\ stats' \in {stats, Append(stats, [at |-> Time0, packets |-> packets])}
    /\ UNCHANGED <<stage, file, given, config, held, goroutines, vendors, packets, evictAfter,
                   World, history>>

Tick ==
    /\ now < Len(Clock)
    /\ now' = now + 1
    /\ UNCHANGED <<stage, process, disk, lives, history>>

\* The process ends, or is killed, and takes all it held along.
Down ==
    /\ stage # "down" /\ config # NoConfig
    /\ stage' = "down"
    /\ held' = {}
    /\ goroutines' = {}
    /\ vendors' = NoLookup
    /\ memory' = [a \in Assets |-> NoRow]
    /\ packets' = 0
    /\ UNCHANGED <<Settled, disk, World, history>>

\* It is started again with the same settings, which are parsed to the same configuration.
Restart ==
    /\ stage = "down"
    /\ lives < MaxLives
    /\ lives' = lives + 1
    /\ stage' = "log"
    /\ UNCHANGED <<process, disk, now, history>>

Next ==
    \/ ParseArguments \/ OpenLog \/ OpenSource \/ BuildManager \/ OpenDB \/ InitSchema
    \/ Load \/ Baseline \/ Go
    \/ RecordPacket \/ Flush \/ Tick \/ Down \/ Restart

Spec == Init /\ [][Next]_vars

-----------------------------------------------------------------------------
(* Properties *)

Lookup == [entries: UNION {[D -> Vendors] : D \in SUBSET UNION {[1..n -> HexDigits] : n \in MinPrefix..MacLength}},
           prefixLens: Seq(MinPrefix..MacLength)]

\* Type of the state; the assets and the counter belong to a process that is up.
TypeOK ==
    /\ stage \in {"parse", "log", "source", "manager", "db", "schema", "load", "baseline", "go",
                  "running", "failed", "down"}
    /\ stage = "parse" <=> given # NoInput
    /\ config = NoConfig \/ \A s \in Settings : config[s] \in ValuesOf(s)
    /\ held \subseteq {"log", "source", "repo"}
    /\ goroutines # {} => stage = "running"
    /\ vendors # NoLookup => vendors \in Lookup
    /\ memory \in [Assets -> Row \cup {NoRow}]
    /\ rows \in [Assets -> Row \cup {NoRow}]
    /\ stats \in Seq(Statistics)
    /\ packets \in 0..MaxPackets
    /\ evictAfter \in Durations
    /\ now \in DOMAIN Clock /\ loadedAt \in 1..now

\* What was given for a setting, the flag over the environment over the default.
Given(input, s) ==
    CASE input.flags[s].is = "value" -> input.flags[s].of
      [] input.flags[s].is # "value" /\ input.env[s].is = "value"
         /\ (s \in Texts => input.env[s].of \notin {"", " "}) -> input.env[s].of
      [] OTHER -> Default[s]

\* "Env vars are applied first, flags override": a configuration that is accepted says what was
\* given, but for blanks and the bounds of the refresh interval, and is one the program can run
\* with: one source, positive sizes and intervals, a database for the JSON files, an address for
\* the dashboard, and seven load windows until eviction, if that many can be counted.
ConfigAsGiven ==
    [][stage = "parse" /\ config' # NoConfig =>
         /\ \A s \in Settings :
               \/ config'[s] = Given(given, s)
               \/ s \in Texts /\ config'[s] = "" /\ Given(given, s) = " "
               \/ s = "ui-refresh-every" /\ config'[s] \in {Second, MaxRefresh}
         /\ Cardinality({s \in {"pcap", "interface"} : config'[s] # ""}) = 1
         /\ \A s \in Positive : config'[s] > 0
         /\ config'["keep-json-output"] => config'["db"] \notin {"", " "}
         /\ config'["ui"] => config'["api-addr"] # ""
         /\ config'["evict-after"] = 0 /\ 7 * config'["load-window"] < DurationRange =>
               evictAfter' = 7 * config'["load-window"]]_vars

\* The rows of the file have lengths their registries assign, which "parseRegistryCSVLine
\* enforces" by internal/oui/README.md: 60-64, and nothing does by the code.
RegistriesKept ==
    \A i \in DOMAIN file :
        file[i].is = "row" /\ IsAssignment(file[i].assignment) =>
            prefixMatchesRegistry(file[i].assignment, file[i].registry)

\* The vendor of a MAC is the one in the last row of the file with the longest prefix of it,
\* private rows aside, whatever malformed lines stand between, and whatever follows a line that
\* is too long. Of rows that do not keep to their registries it says nothing.
VendorIsLongestPrefix ==
    vendors # NoLookup /\ RegistriesKept =>
        \A mac \in MAC :
            LET fits == {i \in DOMAIN file :
                           /\ \A j \in 1..i : file[j].is # "too long"
                           /\ file[i].is = "row" /\ file[i].vendor \in Vendors
                           /\ Len(file[i].assignment) >= MinPrefix
                           /\ IsPrefix(file[i].assignment, mac)}
                best == {i \in fits : \A j \in fits :
                           \/ Len(file[j].assignment) < Len(file[i].assignment)
                           \/ Len(file[j].assignment) = Len(file[i].assignment) /\ j <= i}
            IN VendorForMAC(vendors, mac) \in
                   IF fits = {} THEN {NoVendor} ELSE {file[i].vendor : i \in best}

\* What is in memory when the goroutines start: no row that was left out is a second newer than
\* one that was taken, no row older than the window was taken and none well within it was left
\* out - up to one second, within which times are compared as text - unless nothing was loaded
\* or as much as the limit allows, and no asset that was silent for longer than offline-after
\* is online.
MemoryIsRecent ==
    stage \in {"baseline", "go"} =>
        LET in == {a \in Assets : memory[a] # NoRow}
            out == {a \in Assets \ in : rows[a] # NoRow}
            age(a) == Instant(Clock[loadedAt]) - Instant(rows[a].last) IN
        /\ \A a \in in, b \in out : rows[b].last.sec <= rows[a].last.sec
        /\ \A a \in in : age(a) < config["load-window"] + Second
        /\ in # {} /\ (\E b \in out : age(b) <= config["load-window"] - Second)
              => Cardinality(in) = config["load-limit"]
        /\ \A a \in in : memory[a].status = "online" => age(a) <= config["offline-after"]

\* The packet counter goes on where the life before stored it: it is never less than in a row of
\* statistics of an earlier second, nor than in all rows of the last one.
CountSurvivesRestart ==
    stage \in {"go", "running"} /\ "repo" \in held /\ ~uncounted =>
        \A i \in DOMAIN stats :
            packets >= stats[i].packets
            \/ \E j \in DOMAIN stats : stats[j].at.sec = stats[i].at.sec /\ packets >= stats[j].packets

\* A start that fails, at whatever stage, has closed what it opened and started nothing.
FailedStartLeavesNothing == stage = "failed" => held = {} /\ goroutines = {}
=============================================================================
