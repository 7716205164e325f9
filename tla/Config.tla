-------------------------------- MODULE Config --------------------------------
(***************************************************************************)
(* internal/config/config.go: the settings, from defaults, environment and *)
(* flags.  What is given for a setting is nothing, a value, or text that   *)
(* cannot be read as one.  Texts are told apart as empty, blank, a value   *)
(* or one Validate refuses ("bad": a directory where a file is wanted, a   *)
(* level that does not exist).  --bpf and --log-output, which nothing      *)
(* checks, and --help are left out.                                        *)
(***************************************************************************)
EXTENDS TextTime, FiniteSets

CONSTANTS
    Default,        \* the value of each setting in the literal Parse starts with
    MaxRefresh,     \* the longest refresh of the dashboard: 5 minutes; the shortest is a second
    DurationRange   \* durations are from -DurationRange to DurationRange - 1

Texts == {"pcap", "interface", "output", "oui", "log-level", "log-format", "db", "api-addr"}
Switches == {"promisc", "db-wal", "keep-json-output", "ui"}
Positive == {"offline-after", "queue-size", "workers", "flush-every", "batch-size", "load-window"}
NotNegative == {"load-limit", "evict-after", "ui-refresh-every", "api-read-timeout"}
Numbers == Positive \cup NotNegative \cup {"db-busy-timeout"}
Settings == Texts \cup Switches \cup Numbers

TextValues == {"", " ", "value", "bad"}
Durations == (-DurationRange)..(DurationRange - 1)

ValuesOf(s) == IF s \in Texts THEN TextValues ELSE IF s \in Switches THEN BOOLEAN ELSE Durations

ASSUME ConfigAssumption ==
    /\ DurationRange \in Nat \ {0}
    /\ MaxRefresh \in Nat /\ Second <= MaxRefresh /\ MaxRefresh < DurationRange
    /\ DOMAIN Default = Settings
    /\ \A s \in Settings : Default[s] \in ValuesOf(s)

\* What is given for a setting.
Nothing == [is |-> "nothing"]
Unreadable == [is |-> "unreadable"]
Value(v) == [is |-> "value", of |-> v]
GivenFor(s) == {Nothing, Unreadable} \cup [is: {"value"}, of: ValuesOf(s)]

\* Mutant of FromEnv: a blank variable empties the setting.
FromEnvBlank(env) ==
    [s \in Settings |-> IF env[s].is = "value" THEN env[s].of ELSE Default[s]]

\* applyEnvDefaults: a blank text is none, nor is a switch that is neither on nor off.
FromEnv(env) ==
    [s \in Settings |->
        IF env[s].is = "value" /\ (s \in Texts => env[s].of \notin {"", " "})
        THEN env[s].of ELSE Default[s]]

\* It refuses numbers it cannot read, and two that are negative.
EnvRefused(env) ==
    \/ \E s \in Numbers : env[s].is = "unreadable"
    \/ \E s \in {"load-limit", "evict-after"} : env[s].is = "value" /\ env[s].of < 0

FromFlags(config, flags) ==
    [s \in Settings |-> IF flags[s].is = "value" THEN flags[s].of ELSE config[s]]

FlagsRefused(flags) == \E s \in Settings : flags[s].is = "unreadable"

Clamp(refresh) == IF refresh > 0 /\ refresh < Second THEN Second
                  ELSE IF refresh > MaxRefresh THEN MaxRefresh ELSE refresh

\* What Validate changes: blanks around texts, and the refresh interval.
Normal(config) ==
    [s \in Settings |->
        IF s \in Texts \ {"api-addr", "log-format"} /\ config[s] = " " THEN ""
        ELSE IF s = "ui-refresh-every" THEN Clamp(config[s]) ELSE config[s]]

\* What Validate accepts, of a configuration it has normalised.
Valid(config) ==
    /\ (config["pcap"] # "") # (config["interface"] # "")
    /\ config["log-level"] = "value" /\ config["log-format"] = "value"
    /\ config["output"] = "value" /\ config["db"] # "bad" /\ config["oui"] # "bad"
    /\ config["keep-json-output"] => config["db"] # ""
    /\ \A s \in Positive : config[s] > 0
    /\ \A s \in NotNegative : config[s] >= 0
    /\ config["ui"] => config["api-addr"] # ""

Mode(config) == IF config["pcap"] # "" THEN "pcap" ELSE "live"

ParseConfig(env, flags) == Normal(FromFlags(FromEnv(env), flags))

Refused(env, flags) ==
    EnvRefused(env) \/ FlagsRefused(flags) \/ ~Valid(ParseConfig(env, flags))

\* int64 arithmetic on durations.
Wrap(d) == ((d + DurationRange) % (2 * DurationRange)) - DurationRange

\* main's threshold of eviction: seven load windows if none is set.
EvictAfter(config) ==
    IF config["evict-after"] = 0 THEN Wrap(7 * config["load-window"]) ELSE config["evict-after"]
=============================================================================
