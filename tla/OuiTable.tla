------------------------------ MODULE OuiTable -------------------------------
(***************************************************************************)
(* internal/oui: the registry file that names the vendor of a MAC, and the *)
(* lookup by the longest prefix.  A MAC and a prefix are sequences of hex  *)
(* digits, normalised as collectHex leaves them.  A line of the file is    *)
(* told apart by what parseLine makes of it.                               *)
(***************************************************************************)
EXTENDS Integers, SequencesExt

CONSTANTS
    HexDigits,
    Vendors,
    MinPrefix, MacLength,   \* 6 and 12 digits
    NoVendor

ASSUME OuiAssumption ==
    /\ MinPrefix \in Nat /\ MacLength \in Nat /\ 0 < MinPrefix /\ MinPrefix <= MacLength
    /\ NoVendor \notin Vendors /\ Vendors \cap {"Private", ""} = {}

MAC == [1..MacLength -> HexDigits]

\* "other" lines are blank, comments, the header, other registries or too short; "broken" ones
\* are no CSV or have no hexadecimal assignment; one that is "too long" stops the scanner.
Line == [is: {"other", "broken", "too long"}]
        \cup [is: {"row"}, registry: {"MA-L", "MA-M", "MA-S"}, assignment: Seq(HexDigits),
              vendor: Vendors \cup {"Private", ""}]

\* normalizePrefix accepts it.
IsAssignment(digits) == Len(digits) \in MinPrefix..MacLength

\* The lengths of assignments of each registry; nothing calls it.
prefixMatchesRegistry(prefix, registry) ==
    CASE registry = "MA-L" -> Len(prefix) = MinPrefix
      [] registry = "MA-M" -> Len(prefix) \in {MinPrefix, MinPrefix + 2}
      [] registry = "MA-S" -> Len(prefix) \in MinPrefix..MacLength

\* Mutant of Skipped: private assignments are entered.
SkippedBlank(line) ==
    line.is = "other" \/ (line.is = "row" /\ line.vendor = "" /\ IsAssignment(line.assignment))

\* A line that gives neither an entry nor an error: parseLine looks at the assignment first.
Skipped(line) ==
    \/ line.is = "other"
    \/ /\ line.is = "row"
       /\ line.vendor \in {"Private", ""}
       /\ IsAssignment(line.assignment)

Malformed(line) == line.is = "broken" \/ (line.is = "row" /\ ~IsAssignment(line.assignment))

Entered(line) == line.is = "row" /\ ~Skipped(line) /\ ~Malformed(line)

\* The lines the scanner reads.
Scanned(file) == {i \in DOMAIN file : \A j \in 1..i : file[j].is # "too long"}

\* The entries: a later row over an earlier one. Errors cost no more than their own lines.
Parse(file) ==
    LET rows == {i \in Scanned(file) : Entered(file[i])} IN
    [p \in {file[i].assignment : i \in rows} |->
        file[Max({i \in rows : file[i].assignment = p})].vendor]

\* Mutant of PrefixLens: shortest first.
PrefixLensAscending(entries) ==
    CHOOSE s \in SetToSeqs({Len(p) : p \in DOMAIN entries}) :
        \A i, j \in DOMAIN s : i < j => s[i] < s[j]

\* The lengths of the prefixes, longest first.
PrefixLens(entries) ==
    CHOOSE s \in SetToSeqs({Len(p) : p \in DOMAIN entries}) :
        \A i, j \in DOMAIN s : i < j => s[i] > s[j]

NewLookup(entries) == [entries |-> entries, prefixLens |-> PrefixLens(entries)]

VendorForMAC(lookup, mac) ==
    LET cut(n) == SubSeq(mac, 1, n)
        i == SelectInSeq(lookup.prefixLens, LAMBDA n : cut(n) \in DOMAIN lookup.entries)
    IN IF i = 0 THEN NoVendor ELSE lookup.entries[cut(lookup.prefixLens[i])]
=============================================================================
