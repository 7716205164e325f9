------------------------------ MODULE MCStartup -------------------------------
(* Instances of Startup for TLC: settings varied alone or in the pairs that are checked against
   each other; OUI files without a database; and two rows of assets under a load limit. *)
EXTENDS Startup

CONSTANTS a1, a2, v1, v2

At(sec, ns) == [sec |-> sec, ns |-> ns]

MCDefault == [s \in Settings |->
    CASE s \in {"output", "log-level", "log-format", "db"} -> "value"
      [] s \in Texts \ {"output", "log-level", "log-format", "db"} -> ""
      [] s \in Switches -> s = "db-wal"
      [] s = "load-window" -> 150
      [] s = "load-limit" -> 1
      [] s = "evict-after" -> 0
      [] s = "ui-refresh-every" -> 200
      [] OTHER -> 60]

MCClock == <<At(4, 0), At(4, 50), At(5, 10)>>

\* Nothing is given but the name of the PCAP file.
NothingGiven == [s \in Settings |-> Nothing]
OnlyPcap == [NothingGiven EXCEPT !["pcap"] = Value("value")]

Options(s) == IF s \in Texts THEN {Nothing} \cup {Value(v) : v \in TextValues}
              ELSE {Nothing, Unreadable} \cup
                   {Value(v) : v \in IF s \in Switches THEN BOOLEAN ELSE {-1, 0, 50, 200, 650}}

OneRow == [a \in Assets |-> IF a = a1 THEN [status |-> "online", last |-> At(3, 0)] ELSE NoRow]
NoRows == [a \in Assets |-> NoRow]

Pairs == {<<s, s>> : s \in Settings}
         \cup {<<"pcap", "interface">>, <<"db", "keep-json-output">>, <<"ui", "api-addr">>}

\* All that may be given for the two settings of a pair.
Varied(base, p) ==
    {[base EXCEPT ![p[1]] = x, ![p[2]] = y] : x \in Options(p[1]), y \in Options(p[2])}

SettingInputs ==
    UNION {{[env |-> e, flags |-> f, file |-> <<>>, rows |-> OneRow] :
               e \in Varied(OnlyPcap, p), f \in Varied(NothingGiven, p)} : p \in Pairs}

\* OUI files of up to three lines.
Lines == {[is |-> "other"], [is |-> "broken"], [is |-> "too long"]}
         \cup [is: {"row"}, registry: {"MA-L"}, assignment: {<<>>, <<0>>},
                vendor: {v1, v2, "Private"}]
         \cup [is: {"row"}, registry: {"MA-S"}, assignment: {<<0, 1>>},
                vendor: {v1, v2, "Private"}]

WithOui == [OnlyPcap EXCEPT !["oui"] = Value("value")]

FileInputs ==
    {[env |-> WithOui, flags |-> [NothingGiven EXCEPT !["db"] = Value("")], file |-> f,
      rows |-> NoRows] : f \in SeqOf(Lines, 3)}

\* Rows of the same second, of another one, and older than the window.
RowsSeen == {[status |-> "online", last |-> t] :
                t \in {At(3, 0), At(3, 50), At(3, 52), At(4, 0), At(1, 0)}}

RowInputs ==
    {[env |-> OnlyPcap, flags |-> [NothingGiven EXCEPT !["load-limit"] = Value(n)], file |-> <<>>,
      rows |-> r] : n \in {0, 1}, r \in [Assets -> RowsSeen \cup {NoRow}]}

MCInputs == SettingInputs \cup FileInputs \cup RowInputs
=============================================================================
