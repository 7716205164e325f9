---------------------------- MODULE StartupProofs -----------------------------
(***************************************************************************)
(* Proofs about Startup and the two modules it is built from: settings,    *)
(* the table of vendors, and what a restart takes over.                    *)
(***************************************************************************)
EXTENDS Startup, Induction

-----------------------------------------------------------------------------
(* Settings *)

\* A configuration whose settings have values of their kinds.
Typed(c) == \A s \in Settings : c[s] \in ValuesOf(s)

\* What may be given.
GivenOK(g) == \A s \in Settings : g.env[s] \in GivenFor(s) /\ g.flags[s] \in GivenFor(s)

\* What is given is nothing, no value, or a value of its kind.
LEMMA GivenKinds ==
    ASSUME NEW s \in Settings, NEW x \in GivenFor(s)
    PROVE  x.is \in {"nothing", "unreadable", "value"} /\ (x.is = "value" => x.of \in ValuesOf(s))
BY DEF GivenFor, Nothing, Unreadable, Value

\* Settings are texts, switches or numbers.
LEMMA SettingKinds ==
    \A s \in Settings :
        \/ s \in Texts /\ s \notin Switches /\ s \notin Numbers /\ ValuesOf(s) = TextValues
        \/ s \in Switches /\ s \notin Texts /\ s \notin Numbers /\ ValuesOf(s) = BOOLEAN
        \/ s \in Numbers /\ s \notin Texts /\ s \notin Switches /\ ValuesOf(s) = Durations
<1> SUFFICES ASSUME NEW s \in Settings
             PROVE  \/ s \in Texts /\ s \notin Switches /\ s \notin Numbers
                    \/ s \in Switches /\ s \notin Texts /\ s \notin Numbers
                    \/ s \in Numbers /\ s \notin Texts /\ s \notin Switches
  BY Zenon DEF ValuesOf
<1> QED BY DEF Settings, Texts, Switches, Numbers, Positive, NotNegative

\* Flags over environment over defaults.
LEMMA GivenIsTaken ==
    ASSUME NEW g, GivenOK(g), NEW s \in Settings
    PROVE  /\ FromFlags(FromEnv(g.env), g.flags)[s] = Given(g, s)
           /\ Given(g, s) \in ValuesOf(s)
<1> DEFINE fromEnv == g.env[s].is = "value" /\ (s \in Texts => g.env[s].of \notin {"", " "})
<1>1. FromEnv(g.env)[s] = IF fromEnv THEN g.env[s].of ELSE Default[s]
  BY Zenon DEF FromEnv
<1>2. FromFlags(FromEnv(g.env), g.flags)[s] =
          IF g.flags[s].is = "value" THEN g.flags[s].of ELSE FromEnv(g.env)[s]
  BY Zenon DEF FromFlags
<1>3. Given(g, s) = IF g.flags[s].is = "value" THEN g.flags[s].of
                    ELSE IF fromEnv THEN g.env[s].of ELSE Default[s]
  BY DEF Given
<1>4. /\ g.flags[s].is = "value" => g.flags[s].of \in ValuesOf(s)
      /\ g.env[s].is = "value" => g.env[s].of \in ValuesOf(s)
      /\ Default[s] \in ValuesOf(s)
  BY GivenKinds, ConfigAssumption DEF GivenOK
<1> QED BY <1>1, <1>2, <1>3, <1>4, Zenon

\* The interval of refresh stays, or is set to one of its bounds.
LEMMA ClampFacts ==
    ASSUME NEW d \in Durations
    PROVE  /\ Clamp(d) \in Durations
           /\ Clamp(d) = d \/ Clamp(d) \in {Second, MaxRefresh}
           /\ d >= 0 <=> Clamp(d) >= 0
<1>1. /\ DurationRange \in Nat /\ Second \in Nat /\ Second # 0 /\ MaxRefresh \in Nat
      /\ Second <= MaxRefresh /\ MaxRefresh < DurationRange
  BY ConfigAssumption, TimeAssumption
<1> QED BY <1>1 DEF Clamp, Durations

\* What Validate changes.
LEMMA NormalFacts ==
    ASSUME NEW c, NEW s \in Settings, c[s] \in ValuesOf(s)
    PROVE  /\ Normal(c)[s] \in ValuesOf(s)
           /\ \/ Normal(c)[s] = c[s]
              \/ s \in Texts /\ Normal(c)[s] = "" /\ c[s] = " "
              \/ s = "ui-refresh-every" /\ Normal(c)[s] \in {Second, MaxRefresh}
<1>1. Normal(c)[s] =
          IF s \in Texts \ {"api-addr", "log-format"} /\ c[s] = " " THEN ""
          ELSE IF s = "ui-refresh-every" THEN Clamp(c[s]) ELSE c[s]
  BY Zenon DEF Normal
<1>2. CASE s \in Texts \ {"api-addr", "log-format"} /\ c[s] = " "
  <2>1. Normal(c)[s] = ""
    BY <1>1, <1>2, Zenon
  <2>2. "" \in TextValues
    BY Zenon DEF TextValues
  <2> QED BY <1>2, <2>1, <2>2, Zenon DEF ValuesOf
<1>3. CASE ~(s \in Texts \ {"api-addr", "log-format"} /\ c[s] = " ") /\ s = "ui-refresh-every"
  <2>1. Normal(c)[s] = Clamp(c[s])
    BY <1>1, <1>3, Zenon
  <2>2. s \in Numbers
    BY <1>3 DEF Numbers, NotNegative
  <2>3. ValuesOf(s) = Durations
    BY <2>2, SettingKinds, Zenon
  <2>4. /\ Clamp(c[s]) \in Durations
        /\ Clamp(c[s]) = c[s] \/ Clamp(c[s]) \in {Second, MaxRefresh}
    BY <2>3, ClampFacts
  <2> QED BY <1>3, <2>1, <2>3, <2>4, Zenon
<1>4. CASE ~(s \in Texts \ {"api-addr", "log-format"} /\ c[s] = " ") /\ s # "ui-refresh-every"
  BY <1>1, <1>4, Zenon
<1> QED BY <1>2, <1>3, <1>4, Zenon

\* The configuration that is parsed is what was given, but for blanks and the refresh interval.
LEMMA ParsedAsGiven ==
    ASSUME NEW g, GivenOK(g)
    PROVE  /\ Typed(ParseConfig(g.env, g.flags))
           /\ \A s \in Settings :
                 \/ ParseConfig(g.env, g.flags)[s] = Given(g, s)
                 \/ s \in Texts /\ ParseConfig(g.env, g.flags)[s] = "" /\ Given(g, s) = " "
                 \/ s = "ui-refresh-every" /\ ParseConfig(g.env, g.flags)[s] \in {Second, MaxRefresh}
<1> DEFINE c == FromFlags(FromEnv(g.env), g.flags)
<1>1. ParseConfig(g.env, g.flags) = Normal(c)
  BY DEF ParseConfig
<1> SUFFICES ASSUME NEW s \in Settings
             PROVE  /\ Normal(c)[s] \in ValuesOf(s)
                    /\ \/ Normal(c)[s] = Given(g, s)
                       \/ s \in Texts /\ Normal(c)[s] = "" /\ Given(g, s) = " "
                       \/ s = "ui-refresh-every" /\ Normal(c)[s] \in {Second, MaxRefresh}
  BY <1>1, Zenon DEF Typed
<1>2. c[s] = Given(g, s) /\ Given(g, s) \in ValuesOf(s)
  BY GivenIsTaken
<1> HIDE DEF c
<1> QED BY <1>2, NormalFacts, Zenon

\* A text that Validate trims is not blank.
LEMMA NormalNotBlank ==
    ASSUME NEW c
    PROVE  Normal(c)["db"] # " "
<1>1. "db" \in Settings /\ "db" \in Texts \ {"api-addr", "log-format"} /\ "db" # "ui-refresh-every"
  BY DEF Settings, Texts
<1>2. Normal(c)["db"] = IF c["db"] = " " THEN "" ELSE c["db"]
  BY <1>1, Zenon DEF Normal
<1> QED BY <1>2, Zenon

\* A configuration that is accepted can be run with.
LEMMA AcceptedFacts ==
    ASSUME NEW d, NEW c, c = Normal(d), Valid(c)
    PROVE  /\ Cardinality({s \in {"pcap", "interface"} : c[s] # ""}) = 1
           /\ \A s \in Positive : c[s] > 0
           /\ c["keep-json-output"] => c["db"] \notin {"", " "}
           /\ c["ui"] => c["api-addr"] # ""
<1>1. /\ (c["pcap"] # "") # (c["interface"] # "")
      /\ \A s \in Positive : c[s] > 0
      /\ c["keep-json-output"] => c["db"] # ""
      /\ c["ui"] => c["api-addr"] # ""
  BY Zenon DEF Valid
<1>2. c["db"] # " "
  BY NormalNotBlank, Zenon
<1> DEFINE S == {s \in {"pcap", "interface"} : c[s] # ""}
<1>3. \E x : S = {x}
  <2>1. CASE c["pcap"] # "" /\ c["interface"] = ""
    <3>1. S = {"pcap"}
      BY <2>1, Zenon
    <3> QED BY <3>1
  <2>2. CASE c["pcap"] = "" /\ c["interface"] # ""
    <3>1. S = {"interface"}
      BY <2>2, Zenon
    <3> QED BY <3>1
  <2> QED BY <1>1, <2>1, <2>2, Zenon
<1>4. Cardinality(S) = 1
  <2> HIDE DEF S
  <2> QED BY <1>3, FS_Singleton
<1> QED BY <1>1, <1>2, <1>4, Zenon

\* int64 arithmetic gives what fits, and fits.
LEMMA WrapFacts ==
    ASSUME NEW d \in Int
    PROVE  Wrap(d) \in Durations /\ (d \in Durations => Wrap(d) = d)
<1>1. DurationRange \in Nat \ {0}
  BY ConfigAssumption
<1> DEFINE n == 2 * DurationRange
<1>2. n \in Nat \ {0}
  BY <1>1
<1>3. \A x \in Int : x % n \in 0..(n - 1)
  <2> HIDE DEF n
  <2> QED BY <1>2
<1>4. \A x \in 0..(n - 1) : x % n = x
  <2> HIDE DEF n
  <2> QED BY <1>2
<1>5. d + DurationRange \in Int /\ (d \in Durations => d + DurationRange \in 0..(n - 1))
  BY <1>1 DEF Durations
<1>6. Wrap(d) = ((d + DurationRange) % n) - DurationRange
  BY DEF Wrap
<1>7. (d + DurationRange) % n \in 0..(n - 1)
  BY <1>3, <1>5
<1>8. d \in Durations => (d + DurationRange) % n = d + DurationRange
  BY <1>4, <1>5
<1>9. Wrap(d) \in Durations
  BY <1>1, <1>6, <1>7 DEF Durations
<1> QED BY <1>1, <1>6, <1>8, <1>9 DEF Durations

-----------------------------------------------------------------------------
(* Vendors *)

\* The rows that are entered, and the prefixes they name.
RowsOf(f) == {i \in Scanned(f) : Entered(f[i])}
PrefixesOf(f) == {f[i].assignment : i \in RowsOf(f)}

\* A row that is entered has a prefix of a length that is looked up, and a vendor.
LEMMA RowFacts ==
    ASSUME NEW f \in Seq(Line), NEW i \in DOMAIN f
    PROVE  i \in RowsOf(f) <=>
              /\ \A j \in 1..i : f[j].is # "too long"
              /\ f[i].is = "row" /\ f[i].vendor \in Vendors
              /\ f[i].assignment \in Seq(HexDigits)
              /\ Len(f[i].assignment) \in MinPrefix..MacLength
<1>1. f[i] \in Line
  BY ElementOfSeq, LenProperties
<1>2. f[i].is = "row" => /\ f[i].assignment \in Seq(HexDigits)
                         /\ f[i].vendor \in Vendors \cup {"Private", ""}
  BY <1>1 DEF Line
<1>3. f[i].vendor \in Vendors => f[i].vendor \notin {"Private", ""}
  BY OuiAssumption, Zenon
<1>4. Entered(f[i]) <=> /\ f[i].is = "row" /\ f[i].vendor \notin {"Private", ""}
                        /\ Len(f[i].assignment) \in MinPrefix..MacLength
  BY Zenon DEF Entered, Skipped, Malformed, IsAssignment
<1>5. i \in RowsOf(f) <=> (\A j \in 1..i : f[j].is # "too long") /\ Entered(f[i])
  BY Zenon DEF RowsOf, Scanned
<1> QED BY <1>2, <1>3, <1>4, <1>5, Zenon

\* The last of some lines of a file.
LEMMA LastLine ==
    ASSUME NEW f \in Seq(Line), NEW S, S \subseteq DOMAIN f, S # {}
    PROVE  Max(S) \in S /\ \A j \in S : j <= Max(S)
<1>1. Len(f) \in Nat /\ DOMAIN f = 1..Len(f)
  BY LenProperties
<1>2. S \subseteq Int /\ Len(f) \in Int /\ \A j \in S : j <= Len(f)
  BY <1>1
<1>3. Max(S) \in S /\ \A j \in S : Max(S) >= j
  BY <1>2, MaxIsGreatest
<1> QED BY <1>2, <1>3

\* The table has the prefixes of the rows, each with the vendor of its last row.
LEMMA ParseFacts ==
    ASSUME NEW f \in Seq(Line)
    PROVE  /\ DOMAIN Parse(f) = PrefixesOf(f)
           /\ \A p \in PrefixesOf(f) :
                 \E m \in RowsOf(f) :
                    /\ f[m].assignment = p /\ Parse(f)[p] = f[m].vendor
                    /\ \A j \in RowsOf(f) : f[j].assignment = p => j <= m
<1>1. Parse(f) = [p \in PrefixesOf(f) |->
                    f[Max({i \in RowsOf(f) : f[i].assignment = p})].vendor]
  BY DEF Parse, PrefixesOf, RowsOf
<1>2. RowsOf(f) \subseteq DOMAIN f
  BY DEF RowsOf, Scanned
<1>3. ASSUME NEW p \in PrefixesOf(f)
      PROVE  \E m \in RowsOf(f) :
                /\ f[m].assignment = p /\ Parse(f)[p] = f[m].vendor
                /\ \A j \in RowsOf(f) : f[j].assignment = p => j <= m
  <2> DEFINE S == {i \in RowsOf(f) : f[i].assignment = p}
  <2>1. S \subseteq DOMAIN f /\ S # {}
    BY <1>2 DEF PrefixesOf
  <2>2. Max(S) \in S /\ \A j \in S : j <= Max(S)
    <3> HIDE DEF S
    <3> QED BY <2>1, LastLine
  <2>3. Parse(f)[p] = f[Max(S)].vendor
    BY <1>1
  <2> QED BY <2>2, <2>3
<1> QED BY <1>1, <1>3

\* Their lengths can be listed, longest first, and are.
LEMMA PrefixLensFacts ==
    ASSUME NEW f \in Seq(Line)
    PROVE  LET s == PrefixLens(Parse(f)) IN
           /\ s \in Seq(MinPrefix..MacLength)
           /\ \A i, j \in 1..Len(s) : i < j => s[i] > s[j]
           /\ \A p \in PrefixesOf(f) : \E i \in 1..Len(s) : s[i] = Len(p)
<1> DEFINE S == {Len(p) : p \in PrefixesOf(f)}
           Falls(s) == \A i, j \in DOMAIN s : i < j => s[i] > s[j]
           s == PrefixLens(Parse(f))
<1>1. S \subseteq MinPrefix..MacLength
  <2>1. ASSUME NEW p \in PrefixesOf(f) PROVE Len(p) \in MinPrefix..MacLength
    <3>1. PICK i \in RowsOf(f) : p = f[i].assignment
      BY DEF PrefixesOf
    <3>2. i \in DOMAIN f
      BY DEF RowsOf, Scanned
    <3> QED BY <3>1, <3>2, RowFacts
  <2> QED BY <2>1, Zenon
<1>2. MinPrefix \in Nat /\ MacLength \in Nat
  BY OuiAssumption
<1>3. S \in SUBSET (0..MacLength) /\ IsFiniteSet(S) /\ Cardinality(S) \in Nat
  <2> HIDE DEF S
  <2>1. S \in SUBSET (0..MacLength)
    BY <1>1, <1>2
  <2>2. IsFiniteSet(0..MacLength)
    BY <1>2, FS_Interval
  <2>3. IsFiniteSet(S)
    BY <2>1, <2>2, FS_Subset
  <2> QED BY <2>1, <2>3, FS_CardinalityType
<1>4. \E r \in SetToSeqs(S) : Falls(r)
  <2> HIDE DEF S
  <2>1. PICK r \in [1..Cardinality(S) -> S] :
            \A i, j \in 1..Cardinality(S) : i < j => r[i] > r[j]
    BY <1>2, <1>3, DescendingExists
  <2>2. \A i \in 1..Cardinality(S) : r[i] \in Int
    <3>1. \A x \in S : x \in Int
      BY <1>2, <1>3
    <3> QED BY <3>1
  <2>3. \A i, j \in 1..Cardinality(S) : i # j => r[i] # r[j]
    <3> SUFFICES ASSUME NEW i \in 1..Cardinality(S), NEW j \in 1..Cardinality(S), i # j
                 PROVE  r[i] # r[j]
      OBVIOUS
    <3>1. i < j \/ j < i
      BY <1>3
    <3> QED BY <2>1, <2>2, <3>1
  <2>4. r \in SetToSeqs(S)
    BY <2>3 DEF SetToSeqs
  <2>5. DOMAIN r = 1..Cardinality(S)
    OBVIOUS
  <2> QED BY <2>1, <2>4, <2>5
<1>5. s = CHOOSE r \in SetToSeqs(S) : Falls(r)
  BY ParseFacts DEF PrefixLens
<1>6. s \in SetToSeqs(S) /\ Falls(s)
  <2> HIDE DEF s, S, Falls
  <2> QED BY <1>4, <1>5
<1>7. /\ s \in [1..Cardinality(S) -> S]
      /\ \A i, j \in 1..Cardinality(S) : i # j => s[i] # s[j]
  <2> HIDE DEF s, S, Falls
  <2> QED BY <1>6 DEF SetToSeqs
<1>8. s \in Seq(S) /\ Len(s) = Cardinality(S) /\ Range(s) = S
  <2> HIDE DEF s, S, Falls
  <2> QED BY <1>3, <1>7, ListingIsOnto
<1>9. DOMAIN s = 1..Len(s)
  BY <1>8, LenProperties
<1>10. s \in Seq(MinPrefix..MacLength)
  <2> HIDE DEF s, S
  <2> QED BY <1>1, <1>8, SeqMonotonic
<1>11. ASSUME NEW p \in PrefixesOf(f) PROVE \E i \in 1..Len(s) : s[i] = Len(p)
  <2>1. Len(p) \in S
    OBVIOUS
  <2> HIDE DEF s, S
  <2> QED BY <1>8, <1>9, <2>1 DEF Range
<1> QED BY <1>6, <1>9, <1>10, <1>11

\* The beginning of a MAC.
LEMMA CutFacts ==
    ASSUME NEW mac \in MAC, NEW n \in MinPrefix..MacLength
    PROVE  SubSeq(mac, 1, n) \in Seq(HexDigits) /\ Len(SubSeq(mac, 1, n)) = n
<1>1. MinPrefix \in Nat /\ MacLength \in Nat /\ 0 < MinPrefix
  BY OuiAssumption
<1>2. mac \in Seq(HexDigits) /\ Len(mac) = MacLength
  BY <1>1, SeqDef, LenProperties DEF MAC
<1>3. 1 \in 1..(Len(mac) + 1) /\ n \in 0..Len(mac)
  BY <1>1, <1>2
<1> QED BY <1>1, <1>2, <1>3, SubSeqProperties

\* A prefix of a MAC is its beginning of that length.
LEMMA PrefixIsCut ==
    ASSUME NEW mac \in MAC, NEW p \in Seq(HexDigits)
    PROVE  IsPrefix(p, mac) <=> Len(p) <= MacLength /\ p = SubSeq(mac, 1, Len(p))
<1>1. MacLength \in Nat
  BY OuiAssumption
<1>2. Len(mac) = MacLength
  BY <1>1, SeqDef, LenProperties DEF MAC
<1>3. SubSeq(p, 1, Len(p)) = p
  OBVIOUS
<1> QED BY <1>2, <1>3 DEF IsPrefix

\* The lookup finds the longest prefix, and the vendor of its last row.
LEMMA LookupFindsLongest ==
    ASSUME NEW f \in Seq(Line), NEW mac \in MAC
    PROVE  LET fits == {i \in RowsOf(f) : IsPrefix(f[i].assignment, mac)}
               v == VendorForMAC(NewLookup(Parse(f)), mac) IN
           \/ fits = {} /\ v = NoVendor
           \/ \E m \in fits :
                 /\ v = f[m].vendor
                 /\ \A j \in fits : \/ Len(f[j].assignment) < Len(f[m].assignment)
                                    \/ Len(f[j].assignment) = Len(f[m].assignment) /\ j <= m
<1> DEFINE fits == {i \in RowsOf(f) : IsPrefix(f[i].assignment, mac)}
           e == Parse(f)
           lens == PrefixLens(e)
           cut(n) == SubSeq(mac, 1, n)
           I == {i \in 1..Len(lens) : cut(lens[i]) \in DOMAIN e}
           v == VendorForMAC(NewLookup(e), mac)
<1> SUFFICES \/ fits = {} /\ v = NoVendor
             \/ \E m \in fits :
                   /\ v = f[m].vendor
                   /\ \A j \in fits : \/ Len(f[j].assignment) < Len(f[m].assignment)
                                      \/ Len(f[j].assignment) = Len(f[m].assignment) /\ j <= m
  OBVIOUS
<1>1. /\ lens \in Seq(MinPrefix..MacLength) /\ Len(lens) \in Nat
      /\ \A i, j \in 1..Len(lens) : i < j => lens[i] > lens[j]
      /\ \A p \in PrefixesOf(f) : \E i \in 1..Len(lens) : lens[i] = Len(p)
  BY PrefixLensFacts, LenProperties
<1>2. DOMAIN e = PrefixesOf(f)
  BY ParseFacts
<1>3. v = LET i == IF I # {} THEN Min(I) ELSE 0
          IN IF i = 0 THEN NoVendor ELSE e[cut(lens[i])]
  BY DEF VendorForMAC, NewLookup, SelectInSeq
<1>4. \A i \in 1..Len(lens) : lens[i] \in MinPrefix..MacLength /\ Len(cut(lens[i])) = lens[i]
  <2> TAKE i \in 1..Len(lens)
  <2>1. lens[i] \in MinPrefix..MacLength
    BY <1>1, ElementOfSeq
  <2> QED BY <2>1, CutFacts
<1>5. ASSUME NEW j \in fits
      PROVE  /\ f[j].assignment \in PrefixesOf(f)
             /\ f[j].assignment = cut(Len(f[j].assignment))
             /\ \E i \in I : lens[i] = Len(f[j].assignment)
  <2>1. j \in RowsOf(f) /\ j \in DOMAIN f /\ IsPrefix(f[j].assignment, mac)
    BY DEF RowsOf, Scanned
  <2>2. f[j].assignment \in Seq(HexDigits) /\ f[j].assignment \in PrefixesOf(f)
    BY <2>1, RowFacts DEF PrefixesOf
  <2>3. f[j].assignment = cut(Len(f[j].assignment))
    BY <2>1, <2>2, PrefixIsCut
  <2>4. PICK i \in 1..Len(lens) : lens[i] = Len(f[j].assignment)
    BY <1>1, <2>2
  <2>5. cut(lens[i]) = f[j].assignment
    BY <2>3, <2>4
  <2>6. i \in I
    BY <1>2, <2>2, <2>5
  <2> QED BY <2>2, <2>3, <2>4, <2>6
<1>6. CASE I = {}
  <2>1. fits = {}
    BY <1>5, <1>6
  <2>2. v = NoVendor
    BY <1>3, <1>6
  <2> QED BY <2>1, <2>2
<1>7. CASE I # {}
  <2> DEFINE k == Min(I)
  <2>1. k \in I /\ \A i \in I : k <= i
    <3>1. I \subseteq Int /\ 0 \in Int /\ \A i \in I : 0 <= i
      OBVIOUS
    <3> HIDE DEF I
    <3> QED BY <1>7, <3>1, MinIsLeast
  <2>2. k \in 1..Len(lens) /\ k # 0 /\ cut(lens[k]) \in PrefixesOf(f)
    BY <1>2, <2>1
  <2>3. v = e[cut(lens[k])]
    <3> HIDE DEF I, v, e, lens
    <3> QED BY <1>3, <1>7, <2>2
  <2> DEFINE p == cut(lens[k])
  <2>4. PICK m \in RowsOf(f) :
            /\ f[m].assignment = p /\ e[p] = f[m].vendor
            /\ \A j \in RowsOf(f) : f[j].assignment = p => j <= m
    BY <2>2, ParseFacts
  <2>5. m \in DOMAIN f /\ Len(p) = lens[k] /\ lens[k] \in MinPrefix..MacLength
    BY <1>4, <2>2, <2>4 DEF RowsOf, Scanned
  <2>6. m \in fits
    <3>1. p \in Seq(HexDigits)
      BY <2>5, CutFacts
    <3>2. Len(p) <= MacLength
      <4>1. MinPrefix \in Nat /\ MacLength \in Nat
        BY OuiAssumption
      <4> HIDE DEF lens, p
      <4> QED BY <2>5, <4>1
    <3>4. p = cut(Len(p))
      BY <2>5, Zenon
    <3>3. IsPrefix(p, mac)
      BY <3>1, <3>2, <3>4, PrefixIsCut
    <3> QED BY <2>4, <3>3
  <2>7. ASSUME NEW j \in fits
        PROVE  \/ Len(f[j].assignment) < Len(f[m].assignment)
               \/ Len(f[j].assignment) = Len(f[m].assignment) /\ j <= m
    <3>1. PICK i \in I : lens[i] = Len(f[j].assignment)
      BY <1>5
    <3>2. i \in 1..Len(lens) /\ k <= i
      BY <2>1, <3>1
    <3>3. CASE i = k
      <4>1. f[j].assignment = p
        BY <1>5, <3>1, <3>3
      <4> QED BY <2>4, <4>1
    <3>4. CASE i # k
      <4>1. k < i
        BY <1>1, <2>2, <3>2, <3>4
      <4>2. lens[k] > lens[i]
        BY <1>1, <2>2, <3>2, <4>1
      <4>3. MinPrefix \in Nat /\ MacLength \in Nat
        BY OuiAssumption
      <4>4. lens[k] \in MinPrefix..MacLength /\ lens[i] \in MinPrefix..MacLength
        BY <1>4, <2>2, <3>2
      <4>5. lens[k] \in Int /\ lens[i] \in Int
        BY <4>3, <4>4
      <4> QED BY <2>4, <2>5, <3>1, <4>2, <4>5
    <3> QED BY <3>3, <3>4
  <2> HIDE DEF fits, v, e, lens, k, p
  <2>8. v = f[m].vendor
    BY <2>3, <2>4 DEF p
  <2> QED BY <2>6, <2>7, <2>8
<1> HIDE DEF fits, v, e, lens
<1> QED BY <1>6, <1>7

\* The table that is built from a file is a lookup.
LEMMA LookupType ==
    ASSUME NEW f \in Seq(Line)
    PROVE  NewLookup(Parse(f)) \in Lookup
<1> DEFINE P == UNION {[1..n -> HexDigits] : n \in MinPrefix..MacLength}
           e == Parse(f)
<1>1. ASSUME NEW p \in PrefixesOf(f) PROVE p \in P /\ e[p] \in Vendors
  <2>1. PICK m \in RowsOf(f) : f[m].assignment = p /\ e[p] = f[m].vendor
    BY ParseFacts
  <2>2. m \in DOMAIN f
    BY DEF RowsOf, Scanned
  <2>3. f[m].vendor \in Vendors /\ p \in Seq(HexDigits) /\ Len(p) \in MinPrefix..MacLength
    BY <2>1, <2>2, RowFacts
  <2>4. p \in [1..Len(p) -> HexDigits]
    BY <2>3, LenProperties, ElementOfSeq
  <2> QED BY <2>1, <2>3, <2>4
<1>2. e = [p \in PrefixesOf(f) |-> e[p]]
  BY DEF Parse, PrefixesOf, RowsOf
<1>3. e \in [PrefixesOf(f) -> Vendors]
  <2> HIDE DEF e
  <2> QED BY <1>1, <1>2
<1>4. PrefixesOf(f) \in SUBSET P
  <2> HIDE DEF P
  <2> QED BY <1>1
<1>5. e \in UNION {[D -> Vendors] : D \in SUBSET P}
  <2> HIDE DEF e, P
  <2> QED BY <1>3, <1>4
<1>6. PrefixLens(e) \in Seq(MinPrefix..MacLength)
  BY PrefixLensFacts
<1> QED BY <1>5, <1>6 DEF NewLookup, Lookup

-----------------------------------------------------------------------------
(* The stages of a start *)

\* Where the start is says what is given, parsed and open; the persister needs the database.
Shape ==
    /\ TypeOK
    /\ stage = "parse" => config = NoConfig /\ GivenOK(given)
    /\ stage \notin {"parse", "failed"} => Typed(config)
    /\ stage \in {"parse", "log", "failed", "down"} => held = {}
    /\ "repo" \in held => stage \in {"schema", "load", "baseline", "go", "running"}
    /\ "persister" \in goroutines => "repo" \in held
    /\ file \in Seq(Line)
    /\ \A i \in DOMAIN stats : stats[i].packets <= MaxPackets

\* The threshold of eviction is a duration.
LEMMA EvictAfterType ==
    ASSUME NEW c, Typed(c)
    PROVE  /\ EvictAfter(c) \in Durations
           /\ c["evict-after"] = 0 /\ c["load-window"] > 0 /\ 7 * c["load-window"] < DurationRange
              => EvictAfter(c) = 7 * c["load-window"]
<1>1. "evict-after" \in Numbers /\ "load-window" \in Numbers
  BY DEF Numbers, Positive, NotNegative
<1>2. c["evict-after"] \in Durations /\ c["load-window"] \in Durations
  <2>1. Numbers \subseteq Settings
    BY Zenon DEF Settings
  <2> QED BY <1>1, <2>1, SettingKinds, Zenon DEF Typed
<1>3. DurationRange \in Nat \ {0}
  BY ConfigAssumption
<1>4. 7 * c["load-window"] \in Int
  BY <1>2, <1>3 DEF Durations
<1>5. /\ Wrap(7 * c["load-window"]) \in Durations
      /\ 7 * c["load-window"] \in Durations => Wrap(7 * c["load-window"]) = 7 * c["load-window"]
  BY <1>4, WrapFacts
<1>6. c["load-window"] > 0 /\ 7 * c["load-window"] < DurationRange => 7 * c["load-window"] \in Durations
  BY <1>2, <1>3 DEF Durations
<1> QED BY <1>2, <1>5, <1>6 DEF EvictAfter

\* The first states.
LEMMA InitShape == Init => Shape
<1> SUFFICES ASSUME Init PROVE Shape
  OBVIOUS
<1>1. PICK input \in Inputs : /\ given = [env |-> input.env, flags |-> input.flags]
                              /\ file = input.file
                              /\ rows = input.rows
  BY DEF Init
<1>2. /\ \A s \in Settings : input.env[s] \in GivenFor(s) /\ input.flags[s] \in GivenFor(s)
      /\ input.file \in Seq(Line)
      /\ input.rows \in [Assets -> Row \cup {NoRow}]
      /\ [env |-> input.env, flags |-> input.flags] # NoInput
  BY <1>1, StartupAssumption
<1>3. given # NoInput /\ given.env = input.env /\ given.flags = input.flags
  BY <1>1, <1>2
<1>4. GivenOK(given)
  BY <1>2, <1>3 DEF GivenOK
<1>5. /\ stage = "parse" /\ config = NoConfig /\ held = {} /\ goroutines = {} /\ vendors = NoLookup
      /\ memory = [a \in Assets |-> NoRow] /\ packets = 0 /\ evictAfter = 0 /\ stats = <<>>
      /\ now = 1 /\ loadedAt = 1
  BY DEF Init
<1>6. 0 \in 0..MaxPackets /\ 0 \in Durations
  BY ConfigAssumption, StartupAssumption DEF Durations
<1>7. 1 \in DOMAIN Clock
  BY StartupAssumption, EmptySeq, LenProperties
<1>8. stats \in Seq(Statistics) /\ DOMAIN stats = {}
  BY <1>5
<1>9. memory \in [Assets -> Row \cup {NoRow}]
  BY <1>5
<1>10. TypeOK
  BY <1>1, <1>2, <1>3, <1>5, <1>6, <1>7, <1>8, <1>9 DEF TypeOK
<1> QED BY <1>1, <1>2, <1>4, <1>5, <1>8, <1>10 DEF Shape

\* Arguments and environment are parsed.
LEMMA ParseShape ==
    ASSUME Shape, ParseArguments
    PROVE  Shape'
<1>1. /\ stage = "parse" /\ given' = NoInput /\ held = {}
      /\ UNCHANGED <<held, goroutines, vendors, memory, packets, file, rows, stats, now, lives,
                     uncounted, loadedAt>>
  BY DEF ParseArguments, Shape, disk, World, history
<1>2. \/ stage' = "failed" /\ UNCHANGED <<config, evictAfter>>
      \/ stage' = "log" /\ config' = ParseConfig(given.env, given.flags) /\ evictAfter' = EvictAfter(config')
  BY DEF ParseArguments
<1>3. Typed(ParseConfig(given.env, given.flags))
  BY <1>1, ParsedAsGiven DEF Shape
<1>4. CASE stage' = "failed" /\ UNCHANGED <<config, evictAfter>>
  <2>1. TypeOK'
    BY <1>1, <1>4 DEF Shape, TypeOK
  <2> QED BY <1>1, <1>4, <2>1 DEF Shape
<1>5. CASE stage' = "log" /\ config' = ParseConfig(given.env, given.flags) /\ evictAfter' = EvictAfter(config')
  <2>1. Typed(config')
    BY <1>3, <1>5
  <2>2. evictAfter' \in Durations
    BY <1>5, <2>1, EvictAfterType
  <2>3. TypeOK'
    BY <1>1, <1>5, <2>1, <2>2 DEF Shape, TypeOK, Typed
  <2> QED BY <1>1, <1>5, <2>1, <2>3 DEF Shape, Typed
<1> QED BY <1>2, <1>4, <1>5

\* A stage that opens something, or fails.
LEMMA OpenShape ==
    ASSUME Shape, OpenLog \/ OpenSource \/ OpenDB \/ InitSchema
    PROVE  Shape'
<1>1. /\ UNCHANGED <<given, config, evictAfter, file, rows, stats, now, lives, uncounted, loadedAt,
                     goroutines, vendors, memory, packets>>
  BY Zenon DEF OpenLog, OpenSource, OpenDB, InitSchema, Opened, Return, Settled, disk, World, history
<1>2. /\ stage \in {"log", "source", "db", "schema"}
      /\ \/ stage = "log" /\ stage' = "source" /\ held' = held \cup {"log"}
         \/ stage = "source" /\ stage' = "manager" /\ held' = held \cup {"source"}
         \/ stage = "db" /\ stage' = "schema" /\ held' = held \cup {"repo"}
         \/ stage = "db" /\ stage' = "go" /\ held' = held
         \/ stage = "schema" /\ stage' = "load" /\ held' = held
         \/ stage' = "failed" /\ held' = held \ {"log", "source", "repo"}
  <2>1. stage # "schema" => "repo" \notin held \/ stage \notin {"log", "source", "db"}
    BY DEF Shape
  <2>2. stage \in {"log", "source", "db"} => held \ {"log", "source"} = held \ {"log", "source", "repo"}
    BY <2>1
  <2>3. (held \ {"repo"}) \ {"log", "source"} = held \ {"log", "source", "repo"}
    OBVIOUS
  <2> QED BY <2>2, <2>3, Zenon DEF OpenLog, OpenSource, OpenDB, InitSchema, Opened, Return
<1>3. goroutines = {}
  BY <1>2 DEF Shape, TypeOK
<1>4. TypeOK'
  BY <1>1, <1>2, <1>3 DEF Shape, TypeOK
<1>5. Typed(config')
  BY <1>1, <1>2 DEF Shape
<1>6. held \subseteq {"log", "source", "repo"}
  BY DEF Shape, TypeOK
<1> QED BY <1>1, <1>2, <1>3, <1>4, <1>5, <1>6 DEF Shape

\* The manager is built, with vendors or without.
LEMMA BuildShape ==
    ASSUME Shape, BuildManager
    PROVE  Shape'
<1>1. /\ stage = "manager" /\ stage' = "db"
      /\ UNCHANGED <<given, config, evictAfter, file, rows, stats, now, lives, uncounted, loadedAt,
                     held, goroutines, memory, packets>>
  BY Zenon DEF BuildManager, Settled, disk, World, history
<1>2. vendors' \in {NoLookup, NewLookup(Parse(file))}
  BY Zenon DEF BuildManager
<1>3. NewLookup(Parse(file)) \in Lookup
  BY LookupType DEF Shape
<1>4. TypeOK'
  BY <1>1, <1>2, <1>3 DEF Shape, TypeOK
<1> QED BY <1>1, <1>4 DEF Shape

\* What is kept of the rows that are loaded.
LEMMA LoadedFacts ==
    ASSUME Shape, Load
    PROVE  /\ stage = "load" /\ stage' = "baseline" /\ loadedAt' = now
           /\ UNCHANGED <<given, config, evictAfter, file, rows, stats, now, lives, uncounted,
                          held, goroutines, vendors, packets>>
           /\ \E S \in {{}} \cup LoadAssets(LoadSince, config["load-limit"]) :
                 /\ S \subseteq Since(LoadSince)
                 /\ memory' = [a \in Assets |-> IF a \in S THEN Swept(rows[a]) ELSE NoRow]
<1>1. ASSUME NEW u, NEW n, NEW S \in {{}} \cup LoadAssets(u, n) PROVE S \subseteq Since(u)
  BY <1>1 DEF LoadAssets
<1> QED BY <1>1, Zenon DEF Load, Settled, disk, World

\* A row that is swept is a row, at the time it was last seen.
LEMMA SweptFacts ==
    ASSUME NEW r \in Row
    PROVE  /\ Swept(r) \in Row /\ Swept(r).last = r.last
           /\ Swept(r).status = "online" => ~(Ago(r.last) > config["offline-after"])
BY DEF Swept, Row

\* Assets are loaded, or not.
LEMMA LoadShape ==
    ASSUME Shape, Load
    PROVE  Shape'
<1>1. /\ stage = "load" /\ stage' = "baseline" /\ loadedAt' = now
      /\ UNCHANGED <<given, config, evictAfter, file, rows, stats, now, lives, uncounted,
                     held, goroutines, vendors, packets>>
  BY LoadedFacts
<1>2. PICK S : /\ S \subseteq Since(LoadSince)
               /\ memory' = [a \in Assets |-> IF a \in S THEN Swept(rows[a]) ELSE NoRow]
  BY LoadedFacts
<1>3. \A a \in S \cap Assets : Swept(rows[a]) \in Row
  <2> SUFFICES ASSUME NEW a \in S \cap Assets PROVE rows[a] \in Row
    BY SweptFacts
  <2> QED BY <1>2 DEF Since, Shape, TypeOK
<1>4. memory' \in [Assets -> Row \cup {NoRow}]
  BY <1>2, <1>3
<1>5. now \in 1..now
  BY StartupAssumption, LenProperties DEF Shape, TypeOK
<1>6. TypeOK'
  BY <1>1, <1>4, <1>5 DEF Shape, TypeOK
<1> QED BY <1>1, <1>6 DEF Shape

\* The packet counter starts where a row of statistics left it, or at zero.
LEMMA BaselineShape ==
    ASSUME Shape, Baseline
    PROVE  Shape'
<1>1. /\ stage = "baseline" /\ stage' = "go"
      /\ UNCHANGED <<given, config, evictAfter, file, rows, stats, now, lives, loadedAt,
                     held, goroutines, vendors, memory>>
  BY DEF Baseline, Settled, disk, World
<1>2. packets' \in 0..MaxPackets
  <2>1. CASE \E i \in LastStatistics : packets' = stats[i].packets
    <3>1. PICK i \in DOMAIN stats : packets' = stats[i].packets
      BY <2>1 DEF LastStatistics
    <3>2. stats[i] \in Statistics
      BY ElementOfSeq, LenProperties DEF Shape, TypeOK
    <3> QED BY <3>1, <3>2, StartupAssumption DEF Shape, Statistics
  <2>2. CASE UNCHANGED packets
    BY <2>2 DEF Shape, TypeOK
  <2> QED BY <2>1, <2>2 DEF Baseline
<1>3. TypeOK'
  BY <1>1, <1>2 DEF Shape, TypeOK
<1> QED BY <1>1, <1>3 DEF Shape

\* The goroutines start.
LEMMA GoShape ==
    ASSUME Shape, Go
    PROVE  Shape'
<1>1. /\ stage = "go" /\ stage' = "running"
      /\ UNCHANGED <<given, config, evictAfter, file, rows, stats, now, lives, uncounted, loadedAt,
                     held, vendors, memory, packets>>
  BY Zenon DEF Go, Settled, disk, World, history
<1>2. "persister" \in goroutines' => "repo" \in held
  BY Zenon DEF Go
<1>3. TypeOK'
  BY <1>1 DEF Shape, TypeOK
<1> QED BY <1>1, <1>2, <1>3 DEF Shape

\* A packet is counted.
LEMMA RecordShape ==
    ASSUME Shape, RecordPacket
    PROVE  Shape'
<1>1. /\ packets' = packets + 1 /\ packets < MaxPackets
      /\ UNCHANGED <<stage, given, config, evictAfter, file, rows, stats, now, lives, uncounted,
                     loadedAt, held, goroutines, vendors, memory>>
  BY DEF RecordPacket, disk, World, history
<1>2. packets' \in 0..MaxPackets
  BY <1>1, StartupAssumption DEF Shape, TypeOK
<1>3. TypeOK'
  BY <1>1, <1>2 DEF Shape, TypeOK
<1> QED BY <1>1, <1>3 DEF Shape

\* What the clock shows is a time.
LEMMA ClockFacts ==
    ASSUME Shape
    PROVE  /\ now \in 1..Len(Clock) /\ Len(Clock) \in Nat /\ DOMAIN Clock = 1..Len(Clock)
           /\ Time0 \in Time
<1>1. Clock \in Seq(Time)
  BY StartupAssumption
<1>2. Len(Clock) \in Nat /\ DOMAIN Clock = 1..Len(Clock)
  BY <1>1, LenProperties
<1>3. now \in 1..Len(Clock)
  BY <1>2 DEF Shape, TypeOK
<1> QED BY <1>1, <1>2, <1>3, ElementOfSeq DEF Time0

\* A row of statistics that is added to the others.
LEMMA StatsAppended ==
    ASSUME Shape, NEW x \in Statistics, stats' = Append(stats, x)
    PROVE  /\ stats' \in Seq(Statistics) /\ Len(stats) \in Nat
           /\ DOMAIN stats = 1..Len(stats)
           /\ DOMAIN stats' = DOMAIN stats \cup {Len(stats) + 1}
           /\ stats'[Len(stats) + 1] = x /\ \A i \in DOMAIN stats : stats'[i] = stats[i]
<1>1. stats \in Seq(Statistics)
  BY DEF Shape, TypeOK
<1>2. Len(stats) \in Nat /\ DOMAIN stats = 1..Len(stats)
  BY <1>1, LenProperties
<1>3. /\ stats' \in Seq(Statistics) /\ Len(stats') = Len(stats) + 1
      /\ stats'[Len(stats) + 1] = x /\ \A i \in 1..Len(stats) : stats'[i] = stats[i]
  BY <1>1, AppendProperties
<1>4. DOMAIN stats' = 1..(Len(stats) + 1)
  BY <1>3, LenProperties
<1> QED BY <1>2, <1>3, <1>4

\* A flush.
LEMMA FlushShape ==
    ASSUME Shape, Flush
    PROVE  Shape'
<1>1. /\ stage = "running"
      /\ UNCHANGED <<stage, file, given, config, held, goroutines, vendors, packets, evictAfter,
                     now, lives, uncounted, loadedAt>>
  BY DEF Flush, World, history
<1>2. PICK a \in Assets :
          /\ memory' = [memory EXCEPT ![a] = [status |-> "online", last |-> Time0]]
          /\ rows' = [rows EXCEPT ![a] = [status |-> "online", last |-> Time0]]
  BY DEF Flush
<1>3. [status |-> "online", last |-> Time0] \in Row
  BY ClockFacts DEF Row
<1>4. memory' \in [Assets -> Row \cup {NoRow}] /\ rows' \in [Assets -> Row \cup {NoRow}]
  BY <1>2, <1>3 DEF Shape, TypeOK
<1>5. /\ stats' \in Seq(Statistics)
      /\ \A i \in DOMAIN stats' : stats'[i].packets <= MaxPackets
  <2> DEFINE x == [at |-> Time0, packets |-> packets]
  <2>1. CASE stats' = stats
    BY <2>1 DEF Shape, TypeOK
  <2>2. CASE stats' = Append(stats, x)
    <3>1. packets \in 0..MaxPackets
      BY DEF Shape, TypeOK
    <3>2. x \in Statistics /\ x.packets <= MaxPackets
      BY <3>1, ClockFacts, StartupAssumption DEF Statistics
    <3> HIDE DEF x
    <3> QED BY <2>2, <3>2, StatsAppended DEF Shape
  <2> QED BY <2>1, <2>2 DEF Flush
<1>6. TypeOK'
  BY <1>1, <1>4, <1>5 DEF Shape, TypeOK
<1> QED BY <1>1, <1>5, <1>6 DEF Shape

\* Time passes, the process ends, it is started again.
LEMMA WorldShape ==
    ASSUME Shape, Tick \/ Down \/ Restart
    PROVE  Shape'
<1>1. CASE Tick
  <2>1. /\ now' = now + 1 /\ now < Len(Clock)
        /\ UNCHANGED <<stage, given, config, held, goroutines, vendors, memory, packets, evictAfter,
                       file, rows, stats, lives, uncounted, loadedAt>>
    BY <1>1 DEF Tick, process, disk, history
  <2>2. now' \in DOMAIN Clock /\ loadedAt \in 1..now'
    BY <2>1, ClockFacts DEF Shape, TypeOK
  <2>3. TypeOK'
    BY <2>1, <2>2 DEF Shape, TypeOK
  <2> QED BY <2>1, <2>3 DEF Shape
<1>2. CASE Down
  <2>1. /\ stage' = "down" /\ stage # "down" /\ config # NoConfig
        /\ held' = {} /\ goroutines' = {} /\ vendors' = NoLookup
        /\ memory' = [a \in Assets |-> NoRow] /\ packets' = 0
        /\ UNCHANGED <<given, config, evictAfter, file, rows, stats, now, lives, uncounted, loadedAt>>
    BY <1>2 DEF Down, Settled, disk, World, history
  <2>2. memory' \in [Assets -> Row \cup {NoRow}]
    BY <2>1
  <2>3. 0 \in 0..MaxPackets
    BY StartupAssumption
  <2>4. stage # "parse"
    BY <2>1 DEF Shape
  <2>5. TypeOK'
    BY <2>1, <2>2, <2>3, <2>4 DEF Shape, TypeOK
  <2>6. Typed(config')
    BY <2>1 DEF Shape, TypeOK, Typed
  <2> QED BY <2>1, <2>5, <2>6 DEF Shape
<1>3. CASE Restart
  <2>1. /\ stage = "down" /\ stage' = "log"
        /\ UNCHANGED <<given, config, held, goroutines, vendors, memory, packets, evictAfter,
                       file, rows, stats, now, uncounted, loadedAt>>
    BY <1>3 DEF Restart, process, disk, history
  <2>2. TypeOK'
    BY <2>1 DEF Shape, TypeOK
  <2> QED BY <2>1, <2>2 DEF Shape
<1> QED BY <1>1, <1>2, <1>3

\* Every step keeps the shape.
LEMMA StepShape == Shape /\ [Next]_vars => Shape'
<1> SUFFICES ASSUME Shape, [Next]_vars PROVE Shape'
  OBVIOUS
<1>1. CASE UNCHANGED vars
  BY <1>1 DEF vars, process, disk, history, Shape, TypeOK
<1>2. CASE Next
  BY <1>2, ParseShape, OpenShape, BuildShape, LoadShape, BaselineShape, GoShape, RecordShape,
     FlushShape, WorldShape DEF Next
<1> QED BY <1>1, <1>2

-----------------------------------------------------------------------------
(* Vendors through a life *)

\* The manager's table is that of the file.
VendorsInv == vendors # NoLookup => vendors = NewLookup(Parse(file))

\* The file stays, and vendors but for the manager's making and the end of the process.
LEMMA VendorsFrame ==
    ASSUME [Next]_vars
    PROVE  /\ file' = file
           /\ BuildManager \/ Down \/ vendors' = vendors
<1>1. CASE UNCHANGED vars
  BY <1>1 DEF vars, process, disk
<1>2. CASE ParseArguments \/ OpenLog \/ OpenSource \/ OpenDB \/ InitSchema \/ BuildManager
  BY <1>2, Zenon DEF ParseArguments, OpenLog, OpenSource, OpenDB, InitSchema, Opened, Return,
     BuildManager, disk
<1>3. CASE Load \/ Baseline \/ Go
  BY <1>3, Zenon DEF Load, Baseline, Go, disk
<1>4. CASE RecordPacket \/ Flush \/ Tick \/ Down \/ Restart
  BY <1>4, Zenon DEF RecordPacket, Flush, Tick, Down, Restart, process, disk
<1> QED BY <1>1, <1>2, <1>3, <1>4 DEF Next

\* Every step keeps them.
LEMMA StepVendors == VendorsInv /\ [Next]_vars => VendorsInv'
<1> SUFFICES ASSUME VendorsInv, [Next]_vars PROVE VendorsInv'
  OBVIOUS
<1>1. CASE BuildManager
  <2>1. vendors' \in {NoLookup, NewLookup(Parse(file))}
    BY <1>1, Zenon DEF BuildManager
  <2> QED BY <2>1, VendorsFrame, Zenon DEF VendorsInv
<1>2. CASE Down
  BY <1>2, Zenon DEF Down, VendorsInv
<1>3. CASE vendors' = vendors
  BY <1>3, VendorsFrame, Zenon DEF VendorsInv
<1> QED BY <1>1, <1>2, <1>3, VendorsFrame

-----------------------------------------------------------------------------
(* What is loaded *)

\* Seconds, in the unit durations are counted in.
LEMMA SecondsInUnits ==
    ASSUME NEW x \in Int, NEW y \in Int
    PROVE  /\ x * Second \in Int
           /\ x < y => x * Second + Second <= y * Second
           /\ x <= y => x * Second <= y * Second
<1>1. Second \in Nat
  BY TimeAssumption
<1>2. x < y => x * Second + Second <= y * Second
  BY <1>1, SMTT(60)
<1> QED BY <1>1, <1>2

\* A time lies within its second.
LEMMA InstantFacts ==
    ASSUME NEW t \in Time
    PROVE  /\ t.sec \in Nat /\ Instant(t) \in Int
           /\ t.sec * Second <= Instant(t) /\ Instant(t) < t.sec * Second + Second
<1>1. t.sec \in Nat /\ t.ns \in 0..(Second - 1) /\ Second \in Nat
  BY TimeAssumption DEF Time
<1>2. t.sec * Second \in Int
  BY <1>1, SecondsInUnits
<1> QED BY <1>1, <1>2 DEF Instant

\* So does the time a number stands for.
LEMMA AtInstantFacts ==
    ASSUME NEW n \in Int
    PROVE  /\ AtInstant(n).sec \in Int
           /\ AtInstant(n).sec * Second <= n /\ n < AtInstant(n).sec * Second + Second
<1>1. Second \in Nat \ {0}
  BY TimeAssumption
<1>2. n \div Second \in Int /\ (n \div Second) * Second <= n /\ n < (n \div Second) * Second + Second
  BY <1>1, SMTT(60)
<1> QED BY <1>2 DEF AtInstant

\* The order of the text goes by the second first.
LEMMA TextOrder ==
    ASSUME NEW t, NEW u, t.sec \in Int, u.sec \in Int
    PROVE  /\ TextBefore(t, u) => t.sec <= u.sec
           /\ ~TextBefore(t, u) => u.sec <= t.sec
<1>1. TextBefore(t, u) => t.sec < u.sec \/ t.sec = u.sec
  BY Zenon DEF TextBefore
<1>2. t.sec < u.sec => TextBefore(t, u)
  BY Zenon DEF TextBefore
<1> QED BY <1>1, <1>2

\* So does the order of times.
LEMMA TimeOrder ==
    ASSUME NEW t \in Time, NEW u \in Time, Before(t, u)
    PROVE  t.sec <= u.sec
<1>1. Instant(t) < Instant(u)
  BY DEF Before
<1>2. /\ t.sec \in Int /\ t.sec * Second \in Int /\ t.sec * Second <= Instant(t)
      /\ u.sec \in Int /\ u.sec * Second \in Int /\ Instant(u) < u.sec * Second + Second
      /\ Instant(t) \in Int /\ Instant(u) \in Int /\ Second \in Int
  BY InstantFacts, SecondsInUnits, TimeAssumption
<1>3. u.sec < t.sec => u.sec * Second + Second <= t.sec * Second
  BY <1>2, SecondsInUnits
<1> QED BY <1>1, <1>2, <1>3

\* Memory is empty before assets are loaded.
MemoryInv ==
    /\ stage \notin {"baseline", "go", "running"} => \A a \in Assets : memory[a] = NoRow
    /\ MemoryIsRecent

\* The rows since a time are of its second or of later ones.
LEMMA SinceFacts ==
    ASSUME Shape, NEW t, t.sec \in Int, NEW a \in Since(t)
    PROVE  a \in Assets /\ rows[a] \in Row /\ rows[a].last.sec \in Int /\ t.sec <= rows[a].last.sec
<1>1. a \in Assets /\ rows[a] # NoRow /\ ~TextBefore(rows[a].last, t)
  BY DEF Since
<1>2. rows[a] \in Row
  BY <1>1 DEF Shape, TypeOK
<1>3. rows[a].last.sec \in Int
  BY <1>2 DEF Row, Time
<1> QED BY <1>1, <1>2, <1>3, TextOrder

\* What LoadAssets returns of the rows since a time.
LEMMA LoadAssetsFacts ==
    ASSUME Shape, NEW t, t.sec \in Int, NEW n \in Int, NEW S \in LoadAssets(t, n),
           NEW b \in Assets \ S, rows[b] # NoRow
    PROVE  /\ \A a \in S : rows[b].last.sec <= rows[a].last.sec
           /\ rows[b].last.sec > t.sec => Cardinality(S) = n
<1> DEFINE T == Since(t)
<1>1. T \subseteq Assets /\ S \subseteq T
  BY DEF Since, LoadAssets
<1>2. \A a \in T \cup {b} : rows[a] \in Row /\ rows[a].last.sec \in Int
  <2> SUFFICES ASSUME NEW a \in T \cup {b} PROVE rows[a] \in Row /\ rows[a].last.sec \in Int
    OBVIOUS
  <2>1. a \in Assets /\ rows[a] # NoRow
    BY DEF Since
  <2>2. rows[a] \in Row
    BY <2>1 DEF Shape, TypeOK
  <2> QED BY <2>2 DEF Row, Time
<1>3. \A a \in T : t.sec <= rows[a].last.sec
  BY SinceFacts
<1>4. b \notin T => TextBefore(rows[b].last, t)
  BY DEF Since
<1>5. ASSUME NEW a \in S PROVE rows[b].last.sec <= rows[a].last.sec
  <2>1. t.sec <= rows[a].last.sec
    BY <1>1, <1>3
  <2>2. CASE b \notin T
    <3>1. rows[b].last.sec <= t.sec
      BY <1>2, <1>4, <2>2, TextOrder
    <3> QED BY <1>1, <1>2, <2>1, <3>1
  <2>3. CASE b \in T
    <3>1. n # 0
      BY <2>3 DEF LoadAssets
    <3>2. ~TextBefore(rows[a].last, rows[b].last)
      BY <2>3, <3>1 DEF LoadAssets
    <3> QED BY <1>1, <1>2, <3>2, TextOrder
  <2> QED BY <2>2, <2>3
<1>6. ASSUME rows[b].last.sec > t.sec PROVE Cardinality(S) = n
  <2>1. b \in T
    <3>1. CASE b \notin T
      BY <1>2, <1>4, <1>6, <3>1, TextOrder
    <3> QED BY <3>1
  <2>2. n # 0
    BY <2>1 DEF LoadAssets
  <2>3. S \in SUBSET T /\ Cardinality(S) = Min({n, Cardinality(T)})
    BY <2>2 DEF LoadAssets
  <2>4. IsFiniteSet(T)
    BY <1>1, StartupAssumption, FS_Subset
  <2>5. Cardinality(T) \in Nat /\ Cardinality(S) # Cardinality(T)
    BY <2>1, <2>3, <2>4, FS_Subset, FS_CardinalityType
  <2>6. Min({n, Cardinality(T)}) \in {n, Cardinality(T)}
    <3> DEFINE c == Cardinality(T)
    <3>1. c \in Int
      BY <2>5
    <3> HIDE DEF c
    <3>2. n <= c \/ c <= n
      BY <3>1
    <3>3. \E x \in {n, c} : \A y \in {n, c} : x <= y
      BY <3>1, <3>2
    <3>4. Min({n, c}) \in {n, c}
      BY <3>3 DEF Min
    <3> QED BY <3>4 DEF c
  <2> QED BY <2>3, <2>5, <2>6
<1> QED BY <1>5, <1>6

\* What was loaded is recent.
LEMMA LoadIsRecent ==
    ASSUME Shape, Load
    PROVE  MemoryInv'
<1> DEFINE t == LoadSince
           n == config["load-limit"]
           w == config["load-window"]
<1>1. /\ stage = "load" /\ stage' = "baseline" /\ loadedAt' = now
      /\ UNCHANGED <<given, config, evictAfter, file, rows, stats, now, lives, uncounted,
                     held, goroutines, vendors, packets>>
  BY LoadedFacts
<1>2. PICK S \in {{}} \cup LoadAssets(t, n) :
          /\ S \subseteq Since(t)
          /\ memory' = [a \in Assets |-> IF a \in S THEN Swept(rows[a]) ELSE NoRow]
  BY LoadedFacts
<1>3. /\ config["load-window"] \in Durations /\ n \in Durations
      /\ config["offline-after"] \in Durations
  <2>1. {"load-window", "load-limit", "offline-after"} \subseteq Numbers
    BY DEF Numbers, Positive, NotNegative
  <2>2. Numbers \subseteq Settings
    BY Zenon DEF Settings
  <2>3. \A s \in Numbers : config[s] \in Durations
    BY <1>1, <2>2, SettingKinds DEF Shape, Typed
  <2> QED BY <2>1, <2>3
<1>4. /\ Time0 \in Time /\ n \in Int /\ Second \in Int
      /\ Instant(Time0) \in Int /\ w \in Int /\ t = AtInstant(Instant(Time0) - w)
  BY <1>3, ClockFacts, InstantFacts, TimeAssumption DEF Durations, LoadSince
<1>5. /\ t.sec \in Int /\ t.sec * Second \in Int
       /\ t.sec * Second <= Instant(Time0) - w
       /\ Instant(Time0) - w < t.sec * Second + Second
  <2>1. Instant(Time0) - w \in Int
    BY <1>4
  <2> QED BY <1>4, <2>1, AtInstantFacts, SecondsInUnits
<1>6. ASSUME NEW a \in S
      PROVE  /\ a \in Assets /\ rows[a] \in Row /\ memory'[a] = Swept(rows[a])
             /\ memory'[a] \in Row
  <2>1. a \in Assets /\ rows[a] # NoRow
    BY <1>2 DEF Since
  <2>2. rows[a] \in Row
    BY <2>1 DEF Shape, TypeOK
  <2> QED BY <1>2, <2>1, <2>2, SweptFacts
<1>7. {a \in Assets : memory'[a] # NoRow} = S
  <2>1. \A a \in Assets \ S : memory'[a] = NoRow
    BY <1>2
  <2>2. \A a \in S : a \in Assets /\ memory'[a] # NoRow
    BY <1>6, StartupAssumption
  <2> QED BY <2>1, <2>2
<1>8. ASSUME NEW b \in Assets \ S, rows[b] # NoRow, NEW a \in S
      PROVE  /\ rows[b].last.sec <= rows[a].last.sec
             /\ rows[b].last.sec > t.sec => Cardinality(S) = n
  <2>1. S \in LoadAssets(t, n)
    BY <1>2
  <2> HIDE DEF t, n
  <2> QED BY <1>4, <1>5, <1>8, <2>1, LoadAssetsFacts
<1>9. ASSUME NEW a \in S, memory'[a].status = "online"
      PROVE  Instant(Time0) - Instant(rows[a].last) <= config["offline-after"]
  <2>1. ~(Ago(rows[a].last) > config["offline-after"])
    BY <1>6, <1>9, SweptFacts
  <2>2. rows[a].last \in Time
    BY <1>6 DEF Row
  <2>3. Instant(rows[a].last) \in Int /\ config["offline-after"] \in Int
    BY <1>3, <2>2, InstantFacts DEF Durations
  <2> QED BY <1>4, <2>1, <2>3 DEF Ago
<1>10. ASSUME NEW a \in S
      PROVE  Instant(Time0) - Instant(rows[a].last) < w + Second
  <2>1. a \in Since(t)
    BY <1>2
  <2> HIDE DEF t, w
  <2>2. rows[a].last.sec \in Int /\ t.sec <= rows[a].last.sec /\ rows[a].last \in Time
    BY <1>5, <2>1, SinceFacts DEF Row
  <2>3. /\ rows[a].last.sec * Second \in Int /\ t.sec * Second <= rows[a].last.sec * Second
        /\ rows[a].last.sec * Second <= Instant(rows[a].last) /\ Instant(rows[a].last) \in Int
    BY <1>5, <2>2, SecondsInUnits, InstantFacts
  <2> QED BY <1>4, <1>5, <2>3
<1>11. ASSUME NEW b \in Assets \ S, rows[b] # NoRow, NEW a \in S,
              Instant(Time0) - Instant(rows[b].last) <= w - Second
       PROVE  Cardinality(S) = n
  <2>1. rows[b].last \in Time
    BY <1>1, <1>11 DEF Shape, TypeOK, Row
  <2> HIDE DEF t, w, n
  <2>2. /\ rows[b].last.sec \in Int /\ Instant(rows[b].last) \in Int
        /\ rows[b].last.sec * Second \in Int
        /\ Instant(rows[b].last) < rows[b].last.sec * Second + Second
    BY <2>1, InstantFacts, SecondsInUnits
  <2>3. t.sec * Second < rows[b].last.sec * Second
    BY <1>4, <1>5, <1>11, <2>2
  <2>4. rows[b].last.sec <= t.sec => rows[b].last.sec * Second <= t.sec * Second
    BY <1>5, <2>2, SecondsInUnits
  <2>5. rows[b].last.sec > t.sec
    BY <1>5, <2>2, <2>3, <2>4
  <2> QED BY <1>8, <1>11, <2>5
<1>12. Clock[loadedAt'] = Time0 /\ config' = config /\ rows' = rows
  BY <1>1 DEF Time0
<1>13. MemoryIsRecent'
  <2> DEFINE in == {a \in Assets : memory'[a] # NoRow}
             out == {a \in Assets \ in : rows'[a] # NoRow}
             age(a) == Instant(Clock[loadedAt']) - Instant(rows'[a].last)
  <2>1. in = S /\ \A b \in out : b \in Assets \ S /\ rows[b] # NoRow
    BY <1>7, <1>12
  <2>2. \A a : age(a) = Instant(Time0) - Instant(rows[a].last)
    BY <1>12
  <2> HIDE DEF in, t, n, w, age
  <2>3. \A a \in in, b \in out : rows'[b].last.sec <= rows'[a].last.sec
    BY <1>8, <1>12, <2>1
  <2>4. \A a \in in : age(a) < config'["load-window"] + Second
    BY <1>10, <1>12, <2>1, <2>2 DEF w
  <2>5. in # {} /\ (\E b \in out : age(b) <= config'["load-window"] - Second)
           => Cardinality(in) = config'["load-limit"]
    BY <1>11, <1>12, <2>1, <2>2 DEF n, w
  <2>6. \A a \in in : memory'[a].status = "online" => age(a) <= config'["offline-after"]
    BY <1>9, <1>12, <2>1, <2>2
  <2> QED BY <2>3, <2>4, <2>5, <2>6 DEF MemoryIsRecent, in, age
<1> QED BY <1>1, <1>13 DEF MemoryInv

\* Nothing was loaded.
LEMMA EmptyIsRecent ==
    ASSUME \A a \in Assets : memory[a] = NoRow
    PROVE  MemoryIsRecent
<1>1. {a \in Assets : memory[a] # NoRow} = {}
  OBVIOUS
<1> QED BY <1>1 DEF MemoryIsRecent

\* Memory is as it was loaded until the goroutines run.
LEMMA MemoryFrame ==
    ASSUME [Next]_vars, ~Load
    PROVE  \/ stage' \in {"running", "down"}
           \/ /\ UNCHANGED <<memory, rows, loadedAt>>
              /\ \/ stage' = stage /\ config' = config
                 \/ stage = "baseline" /\ stage' = "go" /\ config' = config
                 \/ stage' \notin {"baseline", "go", "running"} /\ stage \notin {"baseline", "go", "running"}
                 \/ stage = "db"
<1>1. CASE UNCHANGED vars
  BY <1>1 DEF vars, process, disk, history
<1>2. CASE ParseArguments \/ OpenLog \/ OpenSource \/ OpenDB \/ InitSchema \/ BuildManager
  <2>1. UNCHANGED <<memory, rows, loadedAt>>
    BY <1>2, Zenon DEF ParseArguments, OpenLog, OpenSource, OpenDB, InitSchema, Opened, Return,
       BuildManager, disk, history
  <2>2. /\ stage \notin {"baseline", "go", "running"}
        /\ stage = "db" \/ stage' \notin {"baseline", "go", "running"}
    BY <1>2, Zenon DEF ParseArguments, OpenLog, OpenSource, OpenDB, InitSchema, Opened, Return,
       BuildManager
  <2> QED BY <2>1, <2>2
<1>3. CASE Baseline
  BY <1>3, Zenon DEF Baseline, disk, Settled
<1>4. CASE Go \/ Down
  BY <1>4, Zenon DEF Go, Down
<1>5. CASE RecordPacket \/ Flush
  BY <1>5, Zenon DEF RecordPacket, Flush
<1>6. CASE Tick
  BY <1>6, Zenon DEF Tick, process, disk, history
<1>7. CASE Restart
  <2>1. stage = "down" /\ stage' = "log" /\ UNCHANGED <<memory, rows, loadedAt>>
    BY <1>7, Zenon DEF Restart, process, disk, history
  <2> QED BY <2>1
<1> QED BY <1>1, <1>2, <1>3, <1>4, <1>5, <1>6, <1>7 DEF Next

\* Every step keeps it recent.
LEMMA StepMemory == Shape /\ MemoryInv /\ [Next]_vars => MemoryInv'
<1> SUFFICES ASSUME Shape, MemoryInv, [Next]_vars PROVE MemoryInv'
  OBVIOUS
<1>1. CASE Load
  BY <1>1, LoadIsRecent
<1>2. CASE stage' = "running"
  BY <1>2 DEF MemoryInv, MemoryIsRecent
<1>3. CASE stage' = "down"
  <2>1. ASSUME NEW a \in Assets PROVE memory'[a] = NoRow
    <3>1. CASE stage = "down"
      <4>1. UNCHANGED memory
        <5>1. CASE UNCHANGED vars
          BY <5>1 DEF vars, process
        <5>2. CASE Tick
          BY <5>2 DEF Tick, process
        <5> QED BY <1>3, <3>1, <5>1, <5>2, Zenon DEF Next, ParseArguments, OpenLog, OpenSource,
              OpenDB, InitSchema, BuildManager, Load, Baseline, Go, RecordPacket, Flush, Down, Restart
      <4> QED BY <3>1, <4>1 DEF MemoryInv
    <3>2. CASE stage # "down"
      <4>1. Down
        <5>1. CASE UNCHANGED vars
          BY <1>3, <3>2, <5>1 DEF vars
        <5>2. CASE Tick
          BY <1>3, <3>2, <5>2 DEF Tick
        <5>3. CASE RecordPacket \/ Flush \/ Restart
          BY <1>3, <3>2, <5>3 DEF RecordPacket, Flush, Restart
        <5> QED BY <1>3, <5>1, <5>2, <5>3, Zenon DEF Next, ParseArguments, OpenLog, OpenSource,
              OpenDB, InitSchema, BuildManager, Load, Baseline, Go, Opened, Return
      <4>2. memory' = [x \in Assets |-> NoRow]
        BY <4>1 DEF Down
      <4> QED BY <4>2
    <3> QED BY <3>1, <3>2
  <2> QED BY <1>3, <2>1 DEF MemoryInv, MemoryIsRecent
<1>4. CASE ~Load /\ stage' \notin {"running", "down"}
  <2>1. /\ UNCHANGED <<memory, rows, loadedAt>>
        /\ \/ stage' = stage /\ config' = config
           \/ stage = "baseline" /\ stage' = "go" /\ config' = config
           \/ stage' \notin {"baseline", "go", "running"} /\ stage \notin {"baseline", "go", "running"}
           \/ stage = "db"
    BY <1>4, MemoryFrame
  <2>2. CASE stage' = stage /\ config' = config
    BY <2>1, <2>2 DEF MemoryInv, MemoryIsRecent
  <2>3. CASE stage = "baseline" /\ stage' = "go" /\ config' = config
    BY <2>1, <2>3 DEF MemoryInv, MemoryIsRecent
  <2>4. CASE stage \notin {"baseline", "go", "running"}
    <3>1. \A a \in Assets : memory'[a] = NoRow
      BY <2>1, <2>4 DEF MemoryInv
    <3>2. {a \in Assets : memory'[a] # NoRow} = {}
      BY <3>1
    <3>3. MemoryIsRecent'
      BY <3>2 DEF MemoryIsRecent
    <3> QED BY <3>1, <3>3 DEF MemoryInv
  <2> QED BY <2>1, <2>2, <2>3, <2>4
<1> QED BY <1>1, <1>2, <1>3, <1>4

-----------------------------------------------------------------------------
(* The counter *)

\* Rows of statistics are of the past; each second but the last left a row that later ones do
\* not fall behind; and neither does the counter, once it was set.
CounterInv ==
    /\ \A i \in DOMAIN stats : stats[i].at.sec <= Time0.sec
    /\ ~uncounted =>
          \A i, k \in DOMAIN stats : stats[i].at.sec < stats[k].at.sec =>
              \E j \in DOMAIN stats : /\ stats[j].at.sec = stats[i].at.sec
                                      /\ stats[j].packets <= stats[k].packets
    /\ CountSurvivesRestart

\* Rows and counter are numbers.
LEMMA CounterTypes ==
    ASSUME Shape
    PROVE  /\ packets \in Nat /\ Time0.sec \in Nat
           /\ \A i \in DOMAIN stats : stats[i].at.sec \in Nat /\ stats[i].packets \in Nat
<1>1. packets \in 0..MaxPackets
  BY DEF Shape, TypeOK
<1>2. packets \in Nat
  BY <1>1, StartupAssumption
<1>3. Time0.sec \in Nat
  BY ClockFacts DEF Time
<1>4. ASSUME NEW i \in DOMAIN stats PROVE stats[i].at.sec \in Nat /\ stats[i].packets \in Nat
  <2>1. stats[i] \in Statistics
    BY ElementOfSeq, LenProperties DEF Shape, TypeOK
  <2> QED BY <2>1 DEF Statistics, Time
<1> QED BY <1>2, <1>3, <1>4

\* The counter is set from the last row.
LEMMA BaselineCounter ==
    ASSUME Shape, CounterInv, Baseline
    PROVE  CounterInv'
<1>1. stage' = "go" /\ UNCHANGED <<stats, now, held>>
  BY DEF Baseline, disk, World
<1>2. Time0' = Time0
  BY <1>1 DEF Time0
<1>3. uncounted' = TRUE \/ uncounted' = uncounted
  BY DEF Baseline
<1>4. ASSUME ~uncounted', NEW i \in DOMAIN stats
      PROVE  packets' >= stats[i].packets
             \/ \E j \in DOMAIN stats : stats[j].at.sec = stats[i].at.sec /\ packets' >= stats[j].packets
  <2>1. stats # <<>>
    BY <1>4
  <2>2. PICK k \in LastStatistics : packets' = stats[k].packets
    BY <1>4, <2>1 DEF Baseline
  <2>3. k \in DOMAIN stats /\ ~TextBefore(stats[k].at, stats[i].at)
    BY <1>4, <2>2 DEF LastStatistics
  <2>4. stats[i].at.sec <= stats[k].at.sec
    BY <1>4, <2>3, CounterTypes, TextOrder
  <2>5. CASE stats[i].at.sec = stats[k].at.sec
    BY <2>2, <2>3, <2>5, CounterTypes
  <2>6. CASE stats[i].at.sec # stats[k].at.sec
    <3>1. stats[i].at.sec < stats[k].at.sec
      BY <1>4, <2>3, <2>4, <2>6, CounterTypes
    <3>2. ~uncounted
      BY <1>3, <1>4
    <3>3. PICK j \in DOMAIN stats : /\ stats[j].at.sec = stats[i].at.sec
                                    /\ stats[j].packets <= stats[k].packets
      BY <1>4, <2>3, <3>1, <3>2 DEF CounterInv
    <3> QED BY <2>2, <2>3, <3>3, CounterTypes
  <2> QED BY <2>5, <2>6
<1>5. CountSurvivesRestart'
  BY <1>1, <1>4 DEF CountSurvivesRestart
<1> QED BY <1>1, <1>2, <1>3, <1>5 DEF CounterInv

\* A flush stores the counter.
LEMMA FlushCounter ==
    ASSUME Shape, CounterInv, Flush
    PROVE  CounterInv'
<1>1. /\ stage = "running" /\ "persister" \in goroutines
      /\ UNCHANGED <<stage, held, packets, now, uncounted>>
  BY DEF Flush, World, history
<1>2. "repo" \in held /\ Time0' = Time0
  BY <1>1 DEF Shape, Time0
<1>3. CASE stats' = stats
  BY <1>1, <1>2, <1>3 DEF CounterInv, CountSurvivesRestart
<1>4. CASE stats' = Append(stats, [at |-> Time0, packets |-> packets])
  <2> DEFINE x == [at |-> Time0, packets |-> packets]
             n == Len(stats) + 1
  <2>1. x \in Statistics /\ x.at = Time0 /\ x.packets = packets
    BY ClockFacts, CounterTypes DEF Statistics
  <2> HIDE DEF x
  <2>2. /\ DOMAIN stats' = DOMAIN stats \cup {n}
        /\ stats'[n] = x /\ \A i \in DOMAIN stats : stats'[i] = stats[i]
    BY <1>4, <2>1, StatsAppended DEF x
  <2> HIDE DEF n
  <2>3. /\ packets \in Nat /\ Time0.sec \in Nat
        /\ \A i \in DOMAIN stats : stats[i].at.sec \in Nat /\ stats[i].packets \in Nat
    BY CounterTypes
  <2>4. \A i \in DOMAIN stats' : stats'[i].at.sec <= Time0'.sec
    BY <1>2, <2>1, <2>2, <2>3 DEF CounterInv
  <2>5. ASSUME ~uncounted, NEW i \in DOMAIN stats
        PROVE  \E j \in DOMAIN stats : stats[j].at.sec = stats[i].at.sec /\ stats[j].packets <= packets
    BY <1>1, <1>2, <2>3, <2>5 DEF CounterInv, CountSurvivesRestart
  <2>6. ASSUME ~uncounted', NEW i \in DOMAIN stats', NEW k \in DOMAIN stats',
               stats'[i].at.sec < stats'[k].at.sec
        PROVE  \E j \in DOMAIN stats' : /\ stats'[j].at.sec = stats'[i].at.sec
                                        /\ stats'[j].packets <= stats'[k].packets
    <3>1. i \in DOMAIN stats
      <4>1. CASE i = n
        BY <1>2, <2>1, <2>2, <2>3, <2>4, <2>6, <4>1
      <4> QED BY <2>2, <4>1
    <3>2. CASE k \in DOMAIN stats
      <4>1. PICK j \in DOMAIN stats : stats[j].at.sec = stats[i].at.sec /\ stats[j].packets <= stats[k].packets
        BY <1>1, <2>2, <2>6, <3>1, <3>2 DEF CounterInv
      <4> QED BY <2>2, <3>1, <3>2, <4>1
    <3>3. CASE k = n
      <4>1. PICK j \in DOMAIN stats : stats[j].at.sec = stats[i].at.sec /\ stats[j].packets <= packets
        BY <1>1, <2>5, <2>6, <3>1
      <4> QED BY <2>1, <2>2, <3>1, <3>3, <4>1
    <3> QED BY <2>2, <3>2, <3>3
  <2>7. ASSUME ~uncounted', NEW i \in DOMAIN stats'
        PROVE  packets' >= stats'[i].packets
               \/ \E j \in DOMAIN stats' : stats'[j].at.sec = stats'[i].at.sec /\ packets' >= stats'[j].packets
    <3>1. CASE i = n
      BY <1>1, <2>1, <2>2, <2>3, <3>1
    <3>2. CASE i \in DOMAIN stats
      <4>1. PICK j \in DOMAIN stats : stats[j].at.sec = stats[i].at.sec /\ stats[j].packets <= packets
        BY <1>1, <2>5, <2>7, <3>2
      <4>2. j \in DOMAIN stats' /\ stats'[j] = stats[j] /\ stats'[i] = stats[i]
        BY <2>2, <3>2, <4>1
      <4> QED BY <1>1, <2>3, <4>1, <4>2
    <3> QED BY <2>2, <3>1, <3>2
  <2>8. CountSurvivesRestart'
    BY <2>7 DEF CountSurvivesRestart
  <2> QED BY <2>4, <2>6, <2>8 DEF CounterInv
<1> QED BY <1>3, <1>4 DEF Flush

\* Every step keeps the counter.
LEMMA StepCounter == Shape /\ CounterInv /\ [Next]_vars => CounterInv'
<1> SUFFICES ASSUME Shape, CounterInv, [Next]_vars PROVE CounterInv'
  OBVIOUS
<1>1. CASE UNCHANGED vars
  BY <1>1 DEF vars, process, disk, history, CounterInv, CountSurvivesRestart, Time0
<1>2. CASE ParseArguments \/ OpenLog \/ OpenSource \/ OpenDB \/ InitSchema \/ BuildManager \/ Load
           \/ Down \/ Restart
  <2>1. /\ UNCHANGED <<stats, now, uncounted>>
        /\ stage' \notin {"go", "running"} \/ "repo" \notin held'
    <3>1. UNCHANGED <<stats, now, uncounted>>
      BY <1>2, Zenon DEF ParseArguments, OpenLog, OpenSource, OpenDB, InitSchema, Opened, Return,
         BuildManager, Load, Down, Restart, disk, World, history
    <3>2. CASE OpenDB
      <4>1. "repo" \notin held
        BY <3>2 DEF OpenDB, Shape
      <4> QED BY <3>1, <3>2, <4>1, Zenon DEF OpenDB, Opened, Return
    <3>3. CASE ~OpenDB
      BY <1>2, <3>1, <3>3, Zenon DEF ParseArguments, OpenLog, OpenSource, InitSchema, Opened, Return,
         BuildManager, Load, Down, Restart
    <3> QED BY <3>2, <3>3
  <2>2. Time0' = Time0
    BY <2>1 DEF Time0
  <2> QED BY <2>1, <2>2 DEF CounterInv, CountSurvivesRestart
<1>3. CASE Baseline
  BY <1>3, BaselineCounter
<1>4. CASE Go
  <2>1. stage = "go" /\ UNCHANGED <<stats, now, uncounted, held, packets>>
    BY <1>4, Zenon DEF Go, disk, World, history
  <2>2. Time0' = Time0
    BY <2>1 DEF Time0
  <2> QED BY <2>1, <2>2 DEF CounterInv, CountSurvivesRestart
<1>5. CASE RecordPacket
  <2>1. stage = "running" /\ packets' = packets + 1 /\ UNCHANGED <<stage, stats, now, uncounted, held>>
    BY <1>5 DEF RecordPacket, disk, World, history
  <2>2. Time0' = Time0
    BY <2>1 DEF Time0
  <2>3. CountSurvivesRestart'
    BY <2>1, CounterTypes DEF CounterInv, CountSurvivesRestart
  <2> QED BY <2>1, <2>2, <2>3 DEF CounterInv
<1>6. CASE Flush
  BY <1>6, FlushCounter
<1>7. CASE Tick
  <2>1. /\ now < Len(Clock) /\ now' = now + 1
        /\ UNCHANGED <<stage, held, packets, stats, uncounted>>
    BY <1>7 DEF Tick, process, disk, history
  <2>2. now \in DOMAIN Clock /\ now + 1 \in DOMAIN Clock /\ now < now + 1
    BY <2>1, ClockFacts
  <2>3. Clock[now] \in Time /\ Clock[now + 1] \in Time
    BY <2>2, ClockFacts, ElementOfSeq, StartupAssumption
  <2>4. Before(Clock[now], Clock[now + 1])
    BY <2>2, StartupAssumption
  <2>5. Time0.sec <= Time0'.sec /\ Time0'.sec \in Nat
    BY <2>1, <2>3, <2>4, TimeOrder DEF Time0, Time
  <2>6. \A i \in DOMAIN stats' : stats'[i].at.sec <= Time0'.sec
    BY <2>1, <2>5, CounterTypes DEF CounterInv
  <2>7. CountSurvivesRestart'
    BY <2>1 DEF CounterInv, CountSurvivesRestart
  <2> QED BY <2>1, <2>6, <2>7 DEF CounterInv
<1> QED BY <1>1, <1>2, <1>3, <1>4, <1>5, <1>6, <1>7 DEF Next

-----------------------------------------------------------------------------
(* Theorems *)

\* The invariant the theorems rest on.
IInv == Shape /\ VendorsInv /\ MemoryInv /\ CounterInv

\* It holds at first: nothing is loaded, and no statistics are read.
LEMMA InitIInv == Init => IInv
<1> SUFFICES ASSUME Init PROVE IInv
  OBVIOUS
<1>1. /\ stage = "parse" /\ vendors = NoLookup /\ memory = [a \in Assets |-> NoRow]
      /\ stats = <<>> /\ uncounted = FALSE
  BY DEF Init
<1>2. \A a \in Assets : memory[a] = NoRow
  BY <1>1
<1>3. DOMAIN stats = {}
  BY <1>1
<1>4. MemoryInv
  BY <1>2, EmptyIsRecent DEF MemoryInv
<1>5. CounterInv
  BY <1>1, <1>3 DEF CounterInv, CountSurvivesRestart
<1> QED BY <1>1, <1>4, <1>5, InitShape DEF IInv, VendorsInv

\* Every step keeps it.
LEMMA Invariant == Spec => []IInv
<1>1. IInv /\ [Next]_vars => IInv'
  BY StepShape, StepVendors, StepMemory, StepCounter DEF IInv
<1> QED BY <1>1, InitIInv, PTL DEF Spec

\* Whatever the settings, the file and the database, the state is what Go's types say.
THEOREM TypesKept == Spec => []TypeOK
<1>1. IInv => TypeOK
  BY DEF IInv, Shape
<1> QED BY <1>1, Invariant, PTL

\* run() closes, at every return before the pipeline, what it opened before it.
THEOREM FailuresLeaveNothing == Spec => []FailedStartLeavesNothing
<1>1. IInv => FailedStartLeavesNothing
  BY DEF IInv, Shape, TypeOK, FailedStartLeavesNothing
<1> QED BY <1>1, Invariant, PTL

\* LoadAssets and the sweep of LoadFromRows leave the newest rows of the load window in memory,
\* whatever fraction of a second window and offline-after are, and none of them online that was
\* silent for longer than offline-after.
THEOREM LoadsAreRecent == Spec => []MemoryIsRecent
<1>1. IInv => MemoryIsRecent
  BY DEF IInv, MemoryInv
<1> QED BY <1>1, Invariant, PTL

\* The baseline that is read from the statistics takes the packet counter across restarts.
THEOREM CounterGoesOn == Spec => []CountSurvivesRestart
<1>1. IInv => CountSurvivesRestart
  BY DEF IInv, CounterInv
<1> QED BY <1>1, Invariant, PTL

\* The rows that fit a MAC, as the property has them, are those the table is made of.
LEMMA FitsAreRows ==
    ASSUME NEW f \in Seq(Line), NEW mac \in MAC
    PROVE  {i \in RowsOf(f) : IsPrefix(f[i].assignment, mac)} =
           {i \in DOMAIN f :
                /\ \A j \in 1..i : f[j].is # "too long"
                /\ f[i].is = "row" /\ f[i].vendor \in Vendors
                /\ Len(f[i].assignment) >= MinPrefix
                /\ IsPrefix(f[i].assignment, mac)}
<1>1. RowsOf(f) \subseteq DOMAIN f
  BY DEF RowsOf, Scanned
<1> SUFFICES ASSUME NEW i \in DOMAIN f, IsPrefix(f[i].assignment, mac)
             PROVE  i \in RowsOf(f) <=>
                       /\ \A j \in 1..i : f[j].is # "too long"
                       /\ f[i].is = "row" /\ f[i].vendor \in Vendors
                       /\ Len(f[i].assignment) >= MinPrefix
  BY <1>1, Zenon
<1>2. MinPrefix \in Nat /\ MacLength \in Nat
  BY OuiAssumption
<1>3. f[i].is = "row" =>
          /\ f[i].assignment \in Seq(HexDigits) /\ Len(f[i].assignment) \in Nat
          /\ Len(f[i].assignment) <= MacLength
  <2>1. f[i] \in Line
    BY ElementOfSeq, LenProperties
  <2>2. f[i].is = "row" => f[i].assignment \in Seq(HexDigits)
    BY <2>1 DEF Line
  <2> QED BY <2>2, PrefixIsCut, LenProperties
<1>4. f[i].is = "row" => (Len(f[i].assignment) \in MinPrefix..MacLength
                          <=> Len(f[i].assignment) >= MinPrefix)
  BY <1>2, <1>3
<1> QED BY <1>3, <1>4, RowFacts, Zenon

\* Parse and VendorForMAC find the vendor of the last row with the longest prefix.
THEOREM VendorsAreLongestPrefix == Spec => []VendorIsLongestPrefix
<1>1. IInv => VendorIsLongestPrefix
  <2> SUFFICES ASSUME IInv, vendors # NoLookup, RegistriesKept, NEW mac \in MAC
               PROVE  LET fits == {i \in DOMAIN file :
                                     /\ \A j \in 1..i : file[j].is # "too long"
                                     /\ file[i].is = "row" /\ file[i].vendor \in Vendors
                                     /\ Len(file[i].assignment) >= MinPrefix
                                     /\ IsPrefix(file[i].assignment, mac)}
                          best == {i \in fits : \A j \in fits :
                                     \/ Len(file[j].assignment) < Len(file[i].assignment)
                                     \/ Len(file[j].assignment) = Len(file[i].assignment) /\ j <= i}
                      IN VendorForMAC(vendors, mac) \in
                             IF fits = {} THEN {NoVendor} ELSE {file[i].vendor : i \in best}
    BY DEF VendorIsLongestPrefix
  <2> DEFINE fits == {i \in DOMAIN file :
                        /\ \A j \in 1..i : file[j].is # "too long"
                        /\ file[i].is = "row" /\ file[i].vendor \in Vendors
                        /\ Len(file[i].assignment) >= MinPrefix
                        /\ IsPrefix(file[i].assignment, mac)}
             best == {i \in fits : \A j \in fits :
                        \/ Len(file[j].assignment) < Len(file[i].assignment)
                        \/ Len(file[j].assignment) = Len(file[i].assignment) /\ j <= i}
             v == VendorForMAC(vendors, mac)
  <2>1. file \in Seq(Line) /\ vendors = NewLookup(Parse(file))
    BY DEF IInv, Shape, VendorsInv
  <2>2. fits = {i \in RowsOf(file) : IsPrefix(file[i].assignment, mac)}
    BY <2>1, FitsAreRows
  <2>3. \/ fits = {} /\ v = NoVendor
        \/ \E m \in fits :
              /\ v = file[m].vendor
              /\ \A j \in fits : \/ Len(file[j].assignment) < Len(file[m].assignment)
                                 \/ Len(file[j].assignment) = Len(file[m].assignment) /\ j <= m
    <3> HIDE DEF fits
    <3> QED BY <2>1, <2>2, LookupFindsLongest
  <2> HIDE DEF fits, v
  <2>4. v \in IF fits = {} THEN {NoVendor} ELSE {file[i].vendor : i \in best}
    BY <2>3
  <2> QED BY <2>4 DEF fits, v
<1> QED BY <1>1, Invariant, PTL

\* Only the parsing of the arguments leaves its stage, but for the end of the process.
LEMMA OnlyParsing ==
    ASSUME [Next]_vars, stage = "parse", config = NoConfig, config' # NoConfig
    PROVE  ParseArguments
<1>1. ~UNCHANGED vars
  BY DEF vars, process
<1>2. ~Tick
  BY DEF Tick, process
<1> QED BY <1>1, <1>2, Zenon DEF Next, OpenLog, OpenSource, OpenDB, InitSchema, BuildManager, Load,
      Baseline, Go, RecordPacket, Flush, Down, Restart

\* Parse, applyEnvDefaults and Validate: what was given becomes the configuration, and what is
\* accepted can be run with.
THEOREM SettingsAsGiven == Spec => ConfigAsGiven
<1> DEFINE A == stage = "parse" /\ config' # NoConfig =>
                  /\ \A s \in Settings :
                        \/ config'[s] = Given(given, s)
                        \/ s \in Texts /\ config'[s] = "" /\ Given(given, s) = " "
                        \/ s = "ui-refresh-every" /\ config'[s] \in {Second, MaxRefresh}
                  /\ Cardinality({s \in {"pcap", "interface"} : config'[s] # ""}) = 1
                  /\ \A s \in Positive : config'[s] > 0
                  /\ config'["keep-json-output"] => config'["db"] \notin {"", " "}
                  /\ config'["ui"] => config'["api-addr"] # ""
                  /\ config'["evict-after"] = 0 /\ 7 * config'["load-window"] < DurationRange =>
                        evictAfter' = 7 * config'["load-window"]
<1>1. IInv /\ [Next]_vars => A
  <2> SUFFICES ASSUME IInv, [Next]_vars, stage = "parse", config' # NoConfig
               PROVE  A
    BY Zenon
  <2>1. config = NoConfig /\ GivenOK(given)
    BY DEF IInv, Shape
  <2>2. ParseArguments
    BY <2>1, OnlyParsing
  <2> DEFINE d == FromFlags(FromEnv(given.env), given.flags)
  <2>3. /\ config' = ParseConfig(given.env, given.flags) /\ evictAfter' = EvictAfter(config')
        /\ ~Refused(given.env, given.flags)
    BY <2>1, <2>2, Zenon DEF ParseArguments
  <2>4. config' = Normal(d) /\ Valid(config')
    BY <2>3, Zenon DEF Refused, ParseConfig
  <2>5. /\ Typed(config')
        /\ \A s \in Settings :
              \/ config'[s] = Given(given, s)
              \/ s \in Texts /\ config'[s] = "" /\ Given(given, s) = " "
              \/ s = "ui-refresh-every" /\ config'[s] \in {Second, MaxRefresh}
    BY <2>1, <2>3, ParsedAsGiven, Zenon
  <2>6. /\ Cardinality({s \in {"pcap", "interface"} : config'[s] # ""}) = 1
        /\ \A s \in Positive : config'[s] > 0
        /\ config'["keep-json-output"] => config'["db"] \notin {"", " "}
        /\ config'["ui"] => config'["api-addr"] # ""
    <3> HIDE DEF d
    <3> QED BY <2>4, AcceptedFacts, Zenon
  <2>7. config'["load-window"] > 0
    <3>1. "load-window" \in Positive
      BY DEF Positive
    <3> QED BY <2>6, <3>1, Zenon
  <2>8. config'["evict-after"] = 0 /\ 7 * config'["load-window"] < DurationRange =>
            evictAfter' = 7 * config'["load-window"]
    BY <2>3, <2>5, <2>7, EvictAfterType, Zenon
  <2> QED BY <2>5, <2>6, <2>8, Zenon
<1> QED BY <1>1, Invariant, PTL DEF Spec, ConfigAsGiven, A
=============================================================================
