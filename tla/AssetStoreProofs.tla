--------------------------- MODULE AssetStoreProofs ---------------------------
(***************************************************************************)
(* Proofs about AssetStore: what one asset is in memory and in the tables, *)
(* through all its lives.                                                  *)
(***************************************************************************)
EXTENDS AssetStore, Induction

-----------------------------------------------------------------------------
(* AddOnce *)

\* What AddOnce does with the next of the incoming.
Added(seq, v) == IF v \in Range(seq) THEN seq ELSE Append(seq, v)

\* AddOnce is a loop over what is incoming.
LEMMA AddOnceLoops ==
    ASSUME NEW T, NEW s \in Seq(T), NEW q \in Seq(T)
    PROVE  \E g \in [0..Len(q) -> Seq(T)] :
              /\ g[0] = s
              /\ \A i \in 1..Len(q) : g[i] = Added(g[i - 1], q[i])
              /\ AddOnce(s, q) = g[Len(q)]
<1> DEFINE n == Len(q)
           h == [i \in 1..n |-> [r \in Seq(T) |-> Added(r, q[i])]]
           IsLoop(f) == f = [i \in 0..n |-> IF i = 0 THEN s
                                            ELSE IF q[i] \in Range(f[i - 1]) THEN f[i - 1]
                                            ELSE Append(f[i - 1], q[i])]
<1>1. n \in Nat /\ \A i \in 1..n : q[i] \in T
  BY ElementOfSeq, LenProperties
<1>2. h \in [1..n -> [Seq(T) -> Seq(T)]]
  <2>1. ASSUME NEW i \in 1..n, NEW r \in Seq(T) PROVE Added(r, q[i]) \in Seq(T)
    <3>1. Append(r, q[i]) \in Seq(T)
      BY <1>1, AppendProperties
    <3> QED BY <3>1 DEF Added
  <2> QED BY <2>1
<1>3. PICK g : IsRun(g, Seq(T), s, n, h)
  <2> HIDE DEF n, h
  <2> QED BY <1>1, <1>2, LoopRuns
<1>4. /\ g \in [0..n -> Seq(T)] /\ g[0] = s
      /\ \A i \in 1..n : g[i] = Added(g[i - 1], q[i])
  <2>1. g \in [0..n -> Seq(T)] /\ g[0] = s
    BY <1>3 DEF IsRun
  <2>2. ASSUME NEW i \in 1..n PROVE g[i] = Added(g[i - 1], q[i])
    <3>1. i - 1 \in 0..n
      BY <1>1
    <3>2. g[i - 1] \in Seq(T)
      BY <2>1, <3>1
    <3>3. g[i] = h[i][g[i - 1]]
      BY <1>3 DEF IsRun
    <3> QED BY <3>2, <3>3
  <2> QED BY <2>1, <2>2
<1>5. IsLoop(g)
  <2>1. \A i \in 0..n : g[i] = IF i = 0 THEN s
                               ELSE IF q[i] \in Range(g[i - 1]) THEN g[i - 1]
                               ELSE Append(g[i - 1], q[i])
    <3> TAKE i \in 0..n
    <3>1. CASE i = 0
      BY <1>4, <3>1
    <3>2. CASE i # 0
      <4>1. i \in 1..n
        BY <1>1, <3>2
      <4> QED BY <1>4, <3>2, <4>1 DEF Added
    <3> QED BY <3>1, <3>2
  <2> QED BY <2>1, <1>4
<1> DEFINE f == CHOOSE f : IsLoop(f)
<1>6. IsLoop(f)
  <2> HIDE DEF IsLoop
  <2> QED BY <1>5
<1>7. AddOnce(s, q) = f[n]
  BY DEF AddOnce
<1>8. f[n] = g[n]
  <2> HIDE DEF f
  <2> DEFINE S == {k \in Nat : k <= n => f[k] = g[k]}
  <2>1. 0 \in S
    BY <1>1, <1>4, <1>6
  <2>2. ASSUME NEW k \in Nat, k \in S PROVE k + 1 \in S
    <3> SUFFICES ASSUME k + 1 <= n PROVE f[k + 1] = g[k + 1]
      OBVIOUS
    <3>1. k + 1 \in 0..n /\ k + 1 # 0 /\ (k + 1) - 1 = k /\ f[k] = g[k]
      BY <1>1, <2>2
    <3> HIDE DEF n
    <3>2. f[k + 1] = IF q[k + 1] \in Range(f[k]) THEN f[k] ELSE Append(f[k], q[k + 1])
      BY <1>6, <3>1
    <3>3. g[k + 1] = IF q[k + 1] \in Range(g[k]) THEN g[k] ELSE Append(g[k], q[k + 1])
      BY <1>5, <3>1
    <3> QED BY <3>1, <3>2, <3>3
  <2>3. n \in S
    <3> HIDE DEF S
    <3> QED BY <1>1, <2>1, <2>2, NaturalInduction
  <2> QED BY <1>1, <2>3
<1> QED BY <1>4, <1>7, <1>8

\* What it is to have added, once each, the first k of q to s.
AddedFrom(r, s, q, k, T) ==
    /\ r \in Seq(T)
    /\ Range(r) = Range(s) \cup {q[i] : i \in 1..k}
    /\ Len(s) <= Len(r) /\ (Len(r) = Len(s) => r = s)
    /\ IsInjective(s) => IsInjective(r)

\* Adding the next of them.
LEMMA AddedNext ==
    ASSUME NEW T, NEW s \in Seq(T), NEW q \in Seq(T), NEW k \in 1..Len(q), NEW r,
           AddedFrom(r, s, q, k - 1, T)
    PROVE  AddedFrom(Added(r, q[k]), s, q, k, T)
<1> DEFINE v == q[k]
<1>1. v \in T /\ r \in Seq(T) /\ Len(r) \in Nat /\ Len(s) \in Nat
  BY ElementOfSeq, LenProperties DEF AddedFrom
<1>2. {q[i] : i \in 1..k} = {q[i] : i \in 1..(k - 1)} \cup {v}
  <2>1. k \in Int /\ 1..k = (1..(k - 1)) \cup {k}
    BY LenProperties
  <2> QED BY <2>1
<1>3. CASE v \in Range(r)
  BY <1>1, <1>2, <1>3 DEF AddedFrom, Added
<1>4. CASE v \notin Range(r)
  <2> DEFINE a == Append(r, v)
  <2>1. a \in Seq(T) /\ Len(a) = Len(r) + 1 /\ a[Len(r) + 1] = v
        /\ \A i \in 1..Len(r) : a[i] = r[i]
    BY <1>1, AppendProperties
  <2>2. DOMAIN a = 1..(Len(r) + 1) /\ DOMAIN r = 1..Len(r)
    BY <1>1, <2>1, LenProperties
  <2> HIDE DEF a, v
  <2>3. Range(a) = Range(r) \cup {v}
    <3>1. DOMAIN a = DOMAIN r \cup {Len(r) + 1}
      BY <1>1, <2>2
    <3>2. \A i \in DOMAIN r : i \in DOMAIN a /\ a[i] = r[i]
      BY <2>1, <2>2, <3>1
    <3>3. Len(r) + 1 \in DOMAIN a
      BY <3>1
    <3>4. \A i \in DOMAIN a : a[i] \in Range(r) \cup {v}
      BY <2>1, <3>1, <3>2 DEF Range
    <3> QED BY <2>1, <3>2, <3>3, <3>4 DEF Range
  <2>4. IsInjective(r) => IsInjective(a)
    <3> SUFFICES ASSUME IsInjective(r), NEW i \in DOMAIN a, NEW j \in DOMAIN a, a[i] = a[j]
                 PROVE  i = j
      BY DEF IsInjective
    <3>1. \A l \in 1..Len(r) : a[l] # v
      BY <1>4, <2>1, <2>2 DEF Range
    <3> QED BY <1>1, <2>1, <2>2, <3>1 DEF IsInjective
  <2>5. Added(r, v) = a
    BY <1>4 DEF Added, a
  <2>6. Len(s) <= Len(r)
    BY DEF AddedFrom
  <2>7. Len(s) <= Len(a) /\ Len(a) # Len(s)
    BY <1>1, <2>1, <2>6
  <2>8. Range(a) = Range(s) \cup {q[i] : i \in 1..k}
    BY <1>2, <2>3 DEF AddedFrom
  <2>9. AddedFrom(a, s, q, k, T)
    BY <2>1, <2>4, <2>7, <2>8 DEF AddedFrom
  <2> QED BY <2>5, <2>9 DEF v
<1> QED BY <1>3, <1>4

\* AddOnce keeps what there is, brings what is incoming, and repeats nothing; only what is new
\* makes it longer.
LEMMA AddOnceFacts ==
    ASSUME NEW T, NEW s \in Seq(T), NEW q \in Seq(T)
    PROVE  /\ AddOnce(s, q) \in Seq(T)
           /\ Range(AddOnce(s, q)) = Range(s) \cup Range(q)
           /\ Len(s) <= Len(AddOnce(s, q))
           /\ Len(AddOnce(s, q)) = Len(s) => AddOnce(s, q) = s
           /\ IsInjective(s) => IsInjective(AddOnce(s, q))
<1>1. PICK g \in [0..Len(q) -> Seq(T)] :
            /\ g[0] = s
            /\ \A i \in 1..Len(q) : g[i] = Added(g[i - 1], q[i])
            /\ AddOnce(s, q) = g[Len(q)]
  BY AddOnceLoops
<1>2. Len(q) \in Nat /\ Len(s) \in Nat
  BY LenProperties
<1> DEFINE S == {k \in Nat : k <= Len(q) => AddedFrom(g[k], s, q, k, T)}
<1>3. 0 \in S
  <2>1. {q[i] : i \in 1..0} = {}
    OBVIOUS
  <2>2. AddedFrom(s, s, q, 0, T)
    BY <1>2, <2>1 DEF AddedFrom
  <2> QED BY <1>1, <2>2
<1>4. ASSUME NEW k \in Nat, k \in S PROVE k + 1 \in S
  <2> SUFFICES ASSUME k + 1 <= Len(q) PROVE AddedFrom(g[k + 1], s, q, k + 1, T)
    OBVIOUS
  <2>1. k + 1 \in 1..Len(q) /\ (k + 1) - 1 = k /\ AddedFrom(g[k], s, q, k, T)
    BY <1>2, <1>4
  <2>2. g[k + 1] = Added(g[k], q[k + 1])
    BY <1>1, <2>1
  <2>3. AddedFrom(g[k], s, q, (k + 1) - 1, T)
    BY <2>1
  <2>4. AddedFrom(Added(g[k], q[k + 1]), s, q, k + 1, T)
    BY <2>1, <2>3, AddedNext
  <2> QED BY <2>2, <2>4
<1>5. Len(q) \in S
  <2> HIDE DEF S
  <2> QED BY <1>2, <1>3, <1>4, NaturalInduction
<1>6. AddedFrom(AddOnce(s, q), s, q, Len(q), T)
  BY <1>1, <1>2, <1>5
<1>7. Range(q) = {q[i] : i \in 1..Len(q)}
  BY RangeEquality
<1> QED BY <1>6, <1>7 DEF AddedFrom

-----------------------------------------------------------------------------
(* Merging, storing and loading *)

\* The operating system of a device nothing is known of.
Unknown == ""

\* An observation adds to the list of the extras; one that was learned in this life stays
\* without repetition.
LEMMA MergeExtrasFacts ==
    ASSUME NEW list \in List \cup {NoList}, NEW items \in Seq(Servers)
    PROVE  /\ mergeExtras(list, items) \in List \cup {NoList}
           /\ IsInjective(items) /\ (list # NoList /\ list.type = "strings" => IsInjective(list.items))
              => (mergeExtras(list, items) # NoList /\ mergeExtras(list, items).type = "strings"
                    => IsInjective(mergeExtras(list, items).items))
<1> DEFINE m == mergeExtras(list, items)
<1>1. CASE items = <<>>
  BY <1>1 DEF mergeExtras
<1>2. CASE items # <<>> /\ list = NoList
  <2>1. m = [type |-> "strings", items |-> items]
    BY <1>2 DEF mergeExtras
  <2>2. m \in List
    BY <2>1 DEF List
  <2> QED BY <2>1, <2>2
<1>3. CASE items # <<>> /\ list # NoList
  <2>1. list \in List /\ list.items \in Seq(Servers) /\ list.type \in {"strings", "any"}
    BY <1>3 DEF List
  <2>2. m = [list EXCEPT !.items = IF list.type = "any" THEN @ \o items ELSE AddOnce(@, items)]
    BY <1>3 DEF mergeExtras
  <2>3. CASE list.type = "any"
    <3>1. m.type = "any" /\ m = [type |-> list.type, items |-> list.items \o items]
      BY <2>1, <2>2, <2>3 DEF List
    <3>2. list.items \o items \in Seq(Servers)
      BY <2>1, ConcatProperties
    <3>3. m \in List
      BY <2>1, <3>1, <3>2 DEF List
    <3> QED BY <3>1, <3>3
  <2>4. CASE list.type = "strings"
    <3>1. m.items = AddOnce(list.items, items)
          /\ m = [type |-> list.type, items |-> AddOnce(list.items, items)]
      BY <2>1, <2>2, <2>4 DEF List
    <3>2. AddOnce(list.items, items) \in Seq(Servers)
          /\ (IsInjective(list.items) => IsInjective(AddOnce(list.items, items)))
      BY <2>1, AddOnceFacts
    <3>3. m \in List
      BY <2>1, <3>1, <3>2 DEF List
    <3> QED BY <1>3, <2>4, <3>1, <3>2, <3>3
  <2> QED BY <2>1, <2>3, <2>4
<1> QED BY <1>1, <1>2, <1>3

\* No list of r repeats itself.
Clean(r) ==
    /\ IsInjective(r.names)
    /\ IsInjective(r.services)
    /\ r.list # NoList /\ r.list.type = "strings"
          /\ (\A o \in Inputs : IsInjective(o.list)) => IsInjective(r.list.items)

\* The ports of services seen one by one.
LEMMA PortsOfUnion ==
    ASSUME NEW r, NEW s, NEW q, Range(r.services) = Range(s.services) \cup Range(q.services)
    PROVE  PortsOf(r) = PortsOf(s) \cup PortsOf(q)
BY DEF PortsOf

\* What is merged into a record stays in it, an operating system stays the same, and a merge
\* that reports no change has changed neither names, services nor operating system.
LEMMA MergeFacts ==
    ASSUME NEW r \in Record, NEW o \in Inputs
    PROVE  /\ mergeInto(r, o) \in Record
           /\ Range(r.names) \subseteq Range(mergeInto(r, o).names)
           /\ PortsOf(r) \subseteq PortsOf(mergeInto(r, o))
           /\ r.os # Unknown => mergeInto(r, o).os = r.os
           /\ Clean(r) => Clean(mergeInto(r, o))
           /\ ~Changed(r, o) => /\ mergeInto(r, o).names = r.names
                                /\ mergeInto(r, o).services = r.services
                                /\ mergeInto(r, o).os = r.os
<1> DEFINE m == mergeObservation(r, o)
           n == mergeInto(r, o)
<1>1. /\ r.names \in Seq(Names) /\ r.services \in Seq(Service) /\ r.os \in OS
      /\ r.list \in List \cup {NoList}
      /\ o.names \in Seq(Names) /\ o.services \in Seq(Service) /\ o.os \in {"", "told"}
      /\ o.list \in Seq(Servers)
  BY StoreAssumption DEF Record, Observation
<1>2. /\ m.names = AddOnce(r.names, o.names) /\ m.services = AddOnce(r.services, o.services)
      /\ m.os = (IF r.os = "" THEN o.os ELSE r.os) /\ m.list = mergeExtras(r.list, o.list)
  BY DEF mergeObservation
<1>3. /\ m.names \in Seq(Names)
      /\ Range(m.names) = Range(r.names) \cup Range(o.names)
      /\ Len(r.names) <= Len(m.names)
      /\ Len(m.names) = Len(r.names) => m.names = r.names
      /\ IsInjective(r.names) => IsInjective(m.names)
  <2> DEFINE a == AddOnce(r.names, o.names)
  <2>1. /\ a \in Seq(Names)
        /\ Range(a) = Range(r.names) \cup Range(o.names)
        /\ Len(r.names) <= Len(a)
        /\ Len(a) = Len(r.names) => a = r.names
        /\ IsInjective(r.names) => IsInjective(a)
    BY <1>1, AddOnceFacts
  <2>2. m.names = a
    BY <1>2
  <2> HIDE DEF a, m
  <2> QED BY <2>1, <2>2
<1>4. /\ m.services \in Seq(Service)
      /\ Range(m.services) = Range(r.services) \cup Range(o.services)
      /\ Len(r.services) <= Len(m.services)
      /\ Len(m.services) = Len(r.services) => m.services = r.services
      /\ IsInjective(r.services) => IsInjective(m.services)
  <2> DEFINE a == AddOnce(r.services, o.services)
  <2>1. /\ a \in Seq(Service)
        /\ Range(a) = Range(r.services) \cup Range(o.services)
        /\ Len(r.services) <= Len(a)
        /\ Len(a) = Len(r.services) => a = r.services
        /\ IsInjective(r.services) => IsInjective(a)
    BY <1>1, AddOnceFacts
  <2>2. m.services = a
    BY <1>2
  <2> HIDE DEF a, m
  <2> QED BY <2>1, <2>2
<1>5. m.list \in List \cup {NoList}
  BY <1>1, <1>2, MergeExtrasFacts
<1>6. m.os \in OS /\ (r.os # "" => m.os = r.os)
  BY <1>1, <1>2 DEF OS
<1>7. m \in Record
  BY <1>1, <1>3, <1>4, <1>5, <1>6 DEF mergeObservation, Record
<1>8. inferFromVendorHostname(m.names) \in OS
  BY DEF inferFromVendorHostname, OS
<1>9. /\ n.names = m.names /\ n.services = m.services /\ n.list = m.list
      /\ (m.os # "" => n.os = m.os)
  <2> HIDE DEF m
  <2>1. n = IF m.os = "" THEN [m EXCEPT !.os = inferFromVendorHostname(m.names)] ELSE m
    BY DEF mergeInto, m
  <2> QED BY <1>7, <2>1 DEF Record
<1>10. n \in Record
  <2> HIDE DEF m
  <2>1. n = IF m.os = "" THEN [m EXCEPT !.os = inferFromVendorHostname(m.names)] ELSE m
    BY DEF mergeInto, m
  <2> QED BY <1>7, <1>8, <2>1 DEF Record
<1>11. PortsOf(r) \subseteq PortsOf(n)
  BY <1>4, <1>9 DEF PortsOf
<1>12. r.os # Unknown => n.os = r.os
  BY <1>6, <1>9 DEF Unknown
<1>13. Clean(r) => Clean(n)
  <2> SUFFICES ASSUME Clean(r) PROVE Clean(n)
    OBVIOUS
  <2>1. IsInjective(n.names) /\ IsInjective(n.services)
    BY <1>3, <1>4, <1>9 DEF Clean
  <2>2. ASSUME n.list # NoList, n.list.type = "strings", \A i \in Inputs : IsInjective(i.list)
        PROVE  IsInjective(n.list.items)
    <3>1. IsInjective(o.list)
      BY <2>2
    <3>2. r.list # NoList /\ r.list.type = "strings" => IsInjective(r.list.items)
      BY <2>2 DEF Clean
    <3> QED BY <1>1, <1>2, <1>9, <2>2, <3>1, <3>2, MergeExtrasFacts
  <2> QED BY <2>1, <2>2 DEF Clean
<1>14. ~Changed(r, o) => n.names = r.names /\ n.services = r.services /\ n.os = r.os
  <2> SUFFICES ASSUME ~Changed(r, o) PROVE n.names = r.names /\ n.services = r.services /\ n.os = r.os
    OBVIOUS
  <2>1. /\ ~(Len(m.names) > Len(r.names)) /\ ~(Len(m.services) > Len(r.services))
        /\ m.os = r.os /\ n.os = m.os
    BY DEF Changed
  <2>2. /\ Len(m.names) \in Nat /\ Len(r.names) \in Nat
        /\ Len(m.services) \in Nat /\ Len(r.services) \in Nat
    BY <1>1, <1>3, <1>4, LenProperties
  <2>3. Len(m.names) = Len(r.names) /\ Len(m.services) = Len(r.services)
    <3> HIDE DEF m
    <3> QED BY <1>3, <1>4, <2>1, <2>2
  <2> QED BY <1>3, <1>4, <1>9, <2>1, <2>3
<1> QED BY <1>3, <1>9, <1>10, <1>11, <1>12, <1>13, <1>14

\* A record made of an observation alone.
LEMMA BlankFacts == Blank \in Record /\ Clean(Blank)
<1>1. <<>> \in Seq(Names) /\ <<>> \in Seq(Service) /\ IsInjective(<<>>)
  BY DEF IsInjective
<1> QED BY <1>1 DEF Blank, Record, OS, Clean

\* The first query of a load gives a record without names and services.
LEMMA StoredAssetFacts ==
    ASSUME row \in Row
    PROVE  /\ StoredAsset \in Record
           /\ StoredAsset.os = row.os
           /\ StoredAsset.list # NoList => StoredAsset.list.type = "any"
<1>1. row.os \in OS /\ row.list \in Seq(Servers) \cup {NoList}
  BY DEF Row
<1>2. StoredList(row.list) \in List \cup {NoList}
      /\ (StoredList(row.list) # NoList => StoredList(row.list).type = "any")
  BY <1>1 DEF StoredList, List
<1>3. StoredAsset = [Blank EXCEPT !.os = row.os, !.list = StoredList(row.list)]
  BY DEF StoredAsset
<1> QED BY <1>1, <1>2, <1>3, BlankFacts DEF Record

\* The other two give the names and the ports of the tables, each once.
LEMMA StoredListsFacts ==
    ASSUME row \in Row
    PROVE  /\ StoredNames \in Seq(Names) /\ IsInjective(StoredNames)
           /\ Range(StoredNames) = row.names
           /\ StoredServices \in Seq(Service) /\ IsInjective(StoredServices)
           /\ {s.port : s \in Range(StoredServices)} = row.ports
<1>1. row.names \in SUBSET Names /\ row.ports \in SUBSET Ports
  BY DEF Row
<1>2. IsFiniteSet(row.names) /\ IsFiniteSet(row.ports)
  BY <1>1, FS_Subset, StoreAssumption
<1> DEFINE S == {[port |-> p, client |-> FALSE] : p \in row.ports}
           f == [p \in row.ports |-> [port |-> p, client |-> FALSE]]
<1>3. IsFiniteSet(S)
  <2>1. f \in Surjection(row.ports, S)
    BY DEF Surjection
  <2> QED BY <1>2, <2>1, FS_Surjection
<1>4. S \subseteq Service
  <2>1. \A p \in row.ports : [port |-> p, client |-> FALSE] \in Service
    BY <1>1 DEF Service
  <2> QED BY <2>1, Zenon
<1>5. /\ StoredNames \in Seq(row.names) /\ IsInjective(StoredNames)
      /\ Range(StoredNames) = row.names
  BY <1>2, SetToSeqLists DEF StoredNames
<1>6. /\ StoredServices \in Seq(S) /\ IsInjective(StoredServices)
      /\ Range(StoredServices) = S
  <2>1. StoredServices = SetToSeq(S)
    BY DEF StoredServices
  <2> HIDE DEF S
  <2> QED BY <1>3, <2>1, SetToSeqLists
<1>7. StoredNames \in Seq(Names) /\ StoredServices \in Seq(Service)
  <2> HIDE DEF S
  <2> QED BY <1>1, <1>4, <1>5, <1>6, SeqMonotonic
<1>8. {s.port : s \in S} = row.ports
  <2>1. \A s \in S : s.port \in row.ports
    OBVIOUS
  <2>2. ASSUME NEW p \in row.ports PROVE \E s \in S : s.port = p
    <3>1. [port |-> p, client |-> FALSE] \in S
      OBVIOUS
    <3> QED BY <3>1
  <2> HIDE DEF S
  <2> QED BY <2>1, <2>2
<1> QED BY <1>5, <1>6, <1>7, <1>8

\* An upsert adds to the rows, and overwrites what the snapshot knows of the operating system.
LEMMA UpsertFacts ==
    ASSUME NEW r \in Record, row \in Row \cup {NoRow}
    PROVE  /\ Upsert(r) \in Row
           /\ Upsert(r).names = Range(r.names) \cup (IF row = NoRow THEN {} ELSE row.names)
           /\ Upsert(r).ports = PortsOf(r) \cup (IF row = NoRow THEN {} ELSE row.ports)
           /\ r.os # Unknown \/ row = NoRow => Upsert(r).os = r.os
           /\ r.os = Unknown /\ row # NoRow => Upsert(r).os = row.os
<1>1. /\ r.names \in Seq(Names) /\ r.services \in Seq(Service) /\ r.os \in OS
      /\ r.list \in List \cup {NoList}
  BY DEF Record
<1>2. Range(r.names) \in SUBSET Names /\ Range(r.services) \in SUBSET Service
  BY <1>1, RangeOfSeq
<1>3. PortsOf(r) \in SUBSET Ports
  BY <1>2 DEF PortsOf, Service
<1>4. (IF r.list = NoList THEN NoList ELSE r.list.items) \in Seq(Servers) \cup {NoList}
  BY <1>1 DEF List
<1>5. CASE row = NoRow
  BY <1>1, <1>2, <1>3, <1>4, <1>5 DEF Upsert, Row, PortsOf, Unknown
<1>6. CASE row # NoRow
  <2>1. row \in Row
    BY <1>6
  <2>2. Upsert(r) = [names |-> row.names \cup Range(r.names),
                     ports |-> row.ports \cup PortsOf(r),
                     os |-> IF r.os = "" THEN row.os ELSE r.os, list |-> row.list]
    BY <1>6, <2>1 DEF Upsert, Row, PortsOf
  <2>3. /\ row.names \in SUBSET Names /\ row.ports \in SUBSET Ports /\ row.os \in OS
        /\ row.list \in Seq(Servers) \cup {NoList}
    BY <2>1 DEF Row
  <2>4. /\ row.names \cup Range(r.names) \in SUBSET Names
        /\ row.ports \cup PortsOf(r) \in SUBSET Ports
        /\ (IF r.os = "" THEN row.os ELSE r.os) \in OS
    BY <1>1, <1>2, <1>3, <2>3
  <2>5. PICK N, P, O : /\ N = row.names \cup Range(r.names)
                       /\ P = row.ports \cup PortsOf(r)
                       /\ O = IF r.os = "" THEN row.os ELSE r.os
    OBVIOUS
  <2>6. /\ Upsert(r) = [names |-> N, ports |-> P, os |-> O, list |-> row.list]
        /\ N \in SUBSET Names /\ P \in SUBSET Ports /\ O \in OS
        /\ N = Range(r.names) \cup row.names /\ P = PortsOf(r) \cup row.ports
    BY <2>2, <2>4, <2>5
  <2>7. Upsert(r) \in Row
    BY <2>3, <2>6 DEF Row
  <2>8. Upsert(r).names = N /\ Upsert(r).ports = P /\ Upsert(r).os = O
    BY <2>6
  <2> QED BY <1>6, <2>5, <2>6, <2>7, <2>8, Zenon DEF Unknown
<1> QED BY <1>5, <1>6

-----------------------------------------------------------------------------
(* The invariant *)

\* What the rows say, together with the snapshots on their way to them.
AllNames == (IF row = NoRow THEN {} ELSE row.names) \cup UNION {Range(b.names) : b \in Range(batch)}
AllPorts == (IF row = NoRow THEN {} ELSE row.ports) \cup UNION {PortsOf(b) : b \in Range(batch)}
AllOS == (IF row = NoRow THEN {} ELSE {row.os}) \cup {b.os : b \in Range(batch)}

\* A hydration runs beside the persister, which only adds to the rows; unless snapshots were on
\* their way when it began, it finds the rows as they were.
Hydration ==
    load # NotLoading =>
        /\ mem = NoRecord /\ row # NoRow /\ load.obs \in Inputs
        /\ load.part.list # NoList => load.part.list.type = "any"
        /\ load.stage = "services" => /\ IsInjective(load.part.names)
                                      /\ Range(load.part.names) \subseteq row.names
        /\ ~blind => /\ batch = <<>> /\ load.part.os = row.os
                     /\ load.stage = "services" => row.names \subseteq Range(load.part.names)

\* Memory knows what it sent.
Ahead ==
    mem # NoRecord /\ ~blind =>
        /\ AllNames \subseteq Range(mem.names)
        /\ AllPorts \subseteq PortsOf(mem)
        /\ AllOS \subseteq {Unknown, mem.os}

\* What is not marked was sent, and is stored or on its way.
Behind ==
    mem # NoRecord /\ ~dirty /\ ~lost =>
        /\ row # NoRow \/ batch # <<>>
        /\ Range(mem.names) \subseteq AllNames
        /\ PortsOf(mem) \subseteq AllPorts
        /\ ~blind /\ mem.os # Unknown => mem.os \in AllOS

IInv == TypeOK /\ Hydration /\ Ahead /\ Behind /\ (mem # NoRecord => Clean(mem))

\* The first states.
LEMMA InitIInv == Init => IInv
<1> SUFFICES ASSUME Init PROVE IInv
  OBVIOUS
<1>1. row \in Row \cup {NoRow}
  <2>1. CASE row = NoRow
    BY <2>1
  <2>2. CASE row \in [names: {{}, Names}, ports: {{}}, os: {""}, list: {NoList}]
    BY <2>2 DEF Row, OS
  <2> QED BY <2>1, <2>2 DEF Init
<1>2. TypeOK
  <2>1. <<>> \in Seq(Record)
    OBVIOUS
  <2>2. /\ mem = NoRecord /\ dirty = FALSE /\ batch = <<>> /\ load = NotLoading
        /\ lost = FALSE /\ blind = FALSE
    BY DEF Init
  <2> QED BY <1>1, <2>1, <2>2 DEF TypeOK
<1> QED BY <1>2 DEF Init, IInv, Hydration, Ahead, Behind

\* As long as rows and snapshots stay, what they say does.
LEMMA AllUnchanged ==
    ASSUME UNCHANGED <<row, batch>>
    PROVE  AllNames' = AllNames /\ AllPorts' = AllPorts /\ AllOS' = AllOS
BY DEF AllNames, AllPorts, AllOS

\* Without snapshots on their way, the rows say it all.
LEMMA AllIsRow ==
    ASSUME batch = <<>>
    PROVE  /\ row # NoRow => AllNames = row.names /\ AllPorts = row.ports /\ AllOS = {row.os}
           /\ row = NoRow => AllNames = {} /\ AllPorts = {} /\ AllOS = {}
<1>1. Range(batch) = {}
  BY DEF Range
<1> QED BY <1>1 DEF AllNames, AllPorts, AllOS

\* The rows are among what is said.
LEMMA RowInAll ==
    ASSUME row # NoRow
    PROVE  row.names \subseteq AllNames /\ row.ports \subseteq AllPorts /\ row.os \in AllOS
BY DEF AllNames, AllPorts, AllOS

\* Draining sends what memory knows.
LEMMA AllDrained ==
    ASSUME NEW r \in Record, batch \in Seq(Record), batch' = Append(batch, r), row' = row
    PROVE  /\ batch' \in Seq(Record) /\ batch' # <<>>
           /\ AllNames' = AllNames \cup Range(r.names)
           /\ AllPorts' = AllPorts \cup PortsOf(r)
           /\ AllOS' = AllOS \cup {r.os}
<1>1. Range(batch') = Range(batch) \cup {r}
  <2>1. Len(batch) \in Nat /\ DOMAIN batch = 1..Len(batch)
    BY LenProperties
  <2>2. /\ batch' \in Seq(Record) /\ Len(batch') = Len(batch) + 1
        /\ batch'[Len(batch) + 1] = r /\ \A i \in 1..Len(batch) : batch'[i] = batch[i]
    BY AppendProperties
  <2>3. DOMAIN batch' = DOMAIN batch \cup {Len(batch) + 1}
    BY <2>1, <2>2, LenProperties
  <2>4. \A i \in DOMAIN batch : i \in DOMAIN batch' /\ batch'[i] = batch[i]
    BY <2>1, <2>2, <2>3
  <2>5. \A i \in DOMAIN batch' : batch'[i] \in Range(batch) \cup {r}
    BY <2>2, <2>3, <2>4 DEF Range
  <2> QED BY <2>2, <2>3, <2>4, <2>5 DEF Range
<1>2. batch' \in Seq(Record) /\ batch' # <<>>
  BY AppendProperties
<1>3. AllNames' = AllNames \cup Range(r.names)
  BY <1>1 DEF AllNames
<1>4. AllPorts' = AllPorts \cup PortsOf(r)
  BY <1>1 DEF AllPorts
<1>5. AllOS' = AllOS \cup {r.os}
  BY <1>1 DEF AllOS
<1> QED BY <1>2, <1>3, <1>4, <1>5

\* The snapshots are the first and the others.
LEMMA BatchSplits ==
    ASSUME batch \in Seq(Record), batch # <<>>
    PROVE  /\ Head(batch) \in Record /\ Tail(batch) \in Seq(Record)
           /\ Range(batch) = {Head(batch)} \cup Range(Tail(batch))
<1>1. Len(batch) \in Nat /\ Len(batch) # 0 /\ DOMAIN batch = 1..Len(batch)
  BY LenProperties, EmptySeq
<1>2. /\ Head(batch) = batch[1] /\ Head(batch) \in Record
      /\ Tail(batch) \in Seq(Record) /\ Len(Tail(batch)) = Len(batch) - 1
      /\ \A i \in 1..Len(Tail(batch)) : Tail(batch)[i] = batch[i + 1]
  BY HeadTailProperties, <1>1
<1>3. DOMAIN Tail(batch) = 1..(Len(batch) - 1)
  BY <1>2, LenProperties
<1>4. ASSUME NEW i \in DOMAIN batch PROVE batch[i] \in {Head(batch)} \cup Range(Tail(batch))
  <2>1. CASE i = 1
    BY <1>2, <2>1
  <2>2. CASE i # 1
    <3>1. i - 1 \in DOMAIN Tail(batch) /\ Tail(batch)[i - 1] = batch[i]
      BY <1>1, <1>2, <1>3, <2>2
    <3> QED BY <3>1 DEF Range
  <2> QED BY <2>1, <2>2
<1>5. ASSUME NEW i \in DOMAIN Tail(batch) PROVE Tail(batch)[i] \in Range(batch)
  <2>1. i + 1 \in DOMAIN batch /\ Tail(batch)[i] = batch[i + 1]
    BY <1>1, <1>2, <1>3
  <2> QED BY <2>1 DEF Range
<1>6. Head(batch) \in Range(batch)
  BY <1>1, <1>2 DEF Range
<1> QED BY <1>2, <1>4, <1>5, <1>6 DEF Range

\* A snapshot that is saved moves to the rows; what they say stays, but for the operating
\* system they had.
LEMMA AllSaved ==
    ASSUME batch \in Seq(Record), batch # <<>>, row \in Row \cup {NoRow},
           row' = Upsert(Head(batch)), batch' = Tail(batch)
    PROVE  /\ AllNames' = AllNames
           /\ AllPorts' = AllPorts
           /\ AllOS' \subseteq AllOS
           /\ \A os \in AllOS : AllOS \subseteq {Unknown, os} /\ os # Unknown => os \in AllOS'
           /\ row' \in Row /\ row' # NoRow
           /\ row # NoRow => row.names \subseteq row'.names
<1> DEFINE b == Head(batch)
<1>1. b \in Record /\ Range(batch) = {b} \cup Range(batch')
  BY BatchSplits
<1>2. /\ row' \in Row
      /\ row'.names = Range(b.names) \cup (IF row = NoRow THEN {} ELSE row.names)
      /\ row'.ports = PortsOf(b) \cup (IF row = NoRow THEN {} ELSE row.ports)
      /\ b.os # Unknown \/ row = NoRow => row'.os = b.os
      /\ b.os = Unknown /\ row # NoRow => row'.os = row.os
  BY <1>1, UpsertFacts
<1>3. row' # NoRow
  BY <1>2, StoreAssumption
<1> HIDE DEF b
<1>4. AllNames' = AllNames
  BY <1>1, <1>2, <1>3 DEF AllNames
<1>5. AllPorts' = AllPorts
  BY <1>1, <1>2, <1>3 DEF AllPorts
<1>6. AllOS' \subseteq AllOS
  BY <1>1, <1>2, <1>3 DEF AllOS
<1>7. ASSUME NEW os \in AllOS, AllOS \subseteq {Unknown, os}, os # Unknown PROVE os \in AllOS'
  <2>1. AllOS' = {row'.os} \cup {c.os : c \in Range(batch')}
    BY <1>3 DEF AllOS
  <2>2. CASE \E c \in Range(batch') : c.os = os
    BY <2>1, <2>2
  <2>3. CASE b.os = os
    BY <1>2, <2>1, <2>3, <1>7
  <2>4. CASE row # NoRow /\ row.os = os
    <3>1. b.os \in AllOS
      BY <1>1 DEF AllOS
    <3> QED BY <1>2, <1>7, <2>1, <2>4, <3>1
  <2> QED BY <1>1, <2>2, <2>3, <2>4 DEF AllOS
<1> QED BY <1>2, <1>3, <1>4, <1>5, <1>6, <1>7

\* Without the first snapshot the rest says no more.
LEMMA AllGivenUp ==
    ASSUME batch \in Seq(Record), batch # <<>>, row' = row, batch' = Tail(batch)
    PROVE  AllNames' \subseteq AllNames /\ AllPorts' \subseteq AllPorts /\ AllOS' \subseteq AllOS
<1>1. Range(batch') \subseteq Range(batch)
  BY BatchSplits
<1> QED BY <1>1 DEF AllNames, AllPorts, AllOS

-----------------------------------------------------------------------------
(* Steps *)

\* An observation of an asset in memory.
LEMMA UpdateStep ==
    ASSUME IInv, NEW o \in Inputs, NEW newer \in BOOLEAN, Update(o, newer)
    PROVE  IInv'
<1> DEFINE m == mergeInto(mem, o)
<1>1. /\ mem \in Record /\ mem # NoRecord /\ mem' = m /\ load' = NotLoading /\ load' = load
      /\ dirty' = (dirty \/ newer \/ Changed(mem, o))
      /\ UNCHANGED <<batch, row, lost, blind>>
  BY DEF Update, IInv, TypeOK
<1>2. /\ m \in Record /\ Range(mem.names) \subseteq Range(m.names)
      /\ PortsOf(mem) \subseteq PortsOf(m)
      /\ (mem.os # Unknown => m.os = mem.os)
      /\ (Clean(mem) => Clean(m))
      /\ (~Changed(mem, o) => m.names = mem.names /\ m.services = mem.services /\ m.os = mem.os)
  BY <1>1, MergeFacts
<1>3. Changed(mem, o) \in BOOLEAN
  BY DEF Changed
<1> HIDE DEF m
<1>4. TypeOK'
  BY <1>1, <1>2, <1>3 DEF IInv, TypeOK
<1>5. AllNames' = AllNames /\ AllPorts' = AllPorts /\ AllOS' = AllOS
  BY <1>1, AllUnchanged
<1>6. Hydration'
  BY <1>1 DEF Hydration
<1>7. Ahead'
  BY <1>1, <1>2, <1>5 DEF IInv, Ahead
<1>8. Behind'
  <2> SUFFICES ASSUME ~dirty', ~lost'
               PROVE  /\ row' # NoRow \/ batch' # <<>>
                      /\ Range(mem'.names) \subseteq AllNames'
                      /\ PortsOf(mem') \subseteq AllPorts'
                      /\ ~blind' /\ mem'.os # Unknown => mem'.os \in AllOS'
    BY DEF Behind, PortsOf
  <2>1. ~dirty /\ ~lost /\ m.names = mem.names /\ m.services = mem.services /\ m.os = mem.os
    BY <1>1, <1>2, <1>3 DEF IInv, TypeOK
  <2>2. PortsOf(m) = PortsOf(mem)
    BY <2>1 DEF PortsOf
  <2>3. PortsOf(mem') = PortsOf(m)
    BY <1>1 DEF PortsOf
  <2> QED BY <1>1, <1>5, <2>1, <2>2, <2>3 DEF IInv, Behind
<1>9. Clean(mem')
  BY <1>1, <1>2 DEF IInv
<1> QED BY <1>4, <1>6, <1>7, <1>8, <1>9 DEF IInv, Clean

\* A new record is marked.
LEMMA CreateStep ==
    ASSUME IInv, NEW o \in Inputs, Create(o), blind' \in BOOLEAN,
           ~blind' => row = NoRow /\ batch = <<>>
    PROVE  IInv'
<1>1. /\ mem' = mergeInto(Blank, o) /\ dirty' = TRUE /\ lost' = FALSE /\ load' = NotLoading
      /\ UNCHANGED <<batch, row>>
  BY DEF Create
<1>2. mem' \in Record /\ Clean(mem')
  BY <1>1, BlankFacts, MergeFacts
<1>3. TypeOK'
  BY <1>1, <1>2 DEF IInv, TypeOK
<1>4. Ahead'
  <2> SUFFICES ASSUME ~blind' PROVE AllNames' = {} /\ AllPorts' = {} /\ AllOS' = {}
    BY DEF Ahead
  <2> QED BY <1>1, AllUnchanged, AllIsRow
<1>5. Behind'
  BY <1>1 DEF Behind
<1>6. Hydration'
  BY <1>1 DEF Hydration
<1> QED BY <1>2, <1>3, <1>4, <1>5, <1>6 DEF IInv, Clean

\* An observation of an asset not in memory.
LEMMA HydrateStep ==
    ASSUME IInv, NEW o \in Inputs, Hydrate(o)
    PROVE  IInv'
<1>1. load = NotLoading /\ mem = NoRecord /\ blind' = (batch # <<>>)
  BY DEF Hydrate
<1>2. CASE row = NoRow
  BY <1>1, <1>2, CreateStep DEF Hydrate
<1>3. CASE row # NoRow
  <2>1. /\ load' = [stage |-> "names", part |-> StoredAsset, obs |-> o]
        /\ UNCHANGED <<mem, dirty, batch, row, lost>>
    BY <1>3 DEF Hydrate
  <2>2. row \in Row
    BY <1>3 DEF IInv, TypeOK
  <2>3. /\ StoredAsset \in Record /\ StoredAsset.os = row.os
        /\ StoredAsset.list # NoList => StoredAsset.list.type = "any"
    BY <2>2, StoredAssetFacts
  <2>4. load' \in Loading
    BY <2>1, <2>3, StoreAssumption DEF Loading
  <2>5. TypeOK'
    BY <1>1, <2>1, <2>4 DEF IInv, TypeOK
  <2>6. Hydration'
    BY <1>1, <1>3, <2>1, <2>3 DEF Hydration
  <2>7. mem' = NoRecord
    BY <1>1, <2>1
  <2> QED BY <2>5, <2>6, <2>7 DEF IInv, Ahead, Behind
<1> QED BY <1>2, <1>3

\* The query of the host names, in a hydration.
LEMMA LoadHostnamesStep ==
    ASSUME IInv, LoadHostnames
    PROVE  IInv'
<1>1. /\ load \in Loading /\ load # NotLoading
      /\ load' = [load EXCEPT !.stage = "services", !.part.names = StoredNames]
      /\ UNCHANGED <<mem, dirty, batch, row, lost, blind>>
  BY DEF LoadHostnames, IInv, TypeOK
<1>2. mem = NoRecord /\ row \in Row /\ row # NoRow
  BY <1>1 DEF IInv, TypeOK, Hydration
<1>3. /\ StoredNames \in Seq(Names) /\ IsInjective(StoredNames) /\ Range(StoredNames) = row.names
  BY <1>2, StoredListsFacts
<1>4. load.part \in Record /\ load.obs \in Observation
  BY <1>1 DEF Loading
<1>5. /\ load'.stage = "services" /\ load'.obs = load.obs
      /\ load'.part = [load.part EXCEPT !.names = StoredNames]
      /\ load' = [stage |-> "services", part |-> load'.part, obs |-> load.obs]
  BY <1>1 DEF Loading
<1>6. /\ load'.part \in Record /\ load'.part.names = StoredNames
      /\ load'.part.os = load.part.os /\ load'.part.list = load.part.list
  BY <1>3, <1>4, <1>5 DEF Record
<1>7. load' \in Loading
  BY <1>4, <1>5, <1>6 DEF Loading
<1>8. TypeOK'
  BY <1>1, <1>7 DEF IInv, TypeOK
<1>9. Hydration'
  BY <1>1, <1>3, <1>5, <1>6 DEF IInv, Hydration
<1>10. mem' = NoRecord
  BY <1>1, <1>2
<1> QED BY <1>8, <1>9, <1>10 DEF IInv, Ahead, Behind

\* The query of the services, and what becomes of the observation.
LEMMA LoadServicesStep ==
    ASSUME IInv, NEW newer \in BOOLEAN, LoadServices(newer)
    PROVE  IInv'
<1> DEFINE r == [load.part EXCEPT !.services = StoredServices]
           o == load.obs
           m == mergeInto(r, o)
<1>1. /\ load \in Loading /\ load # NotLoading /\ load.stage = "services"
      /\ mem' = m /\ dirty' = (dirty \/ newer \/ Changed(r, o))
      /\ load' = NotLoading /\ lost' = FALSE
      /\ UNCHANGED <<batch, row, blind>>
  BY DEF LoadServices, IInv, TypeOK
<1>2. /\ row \in Row /\ row # NoRow /\ o \in Inputs
      /\ load.part.list # NoList => load.part.list.type = "any"
      /\ IsInjective(load.part.names) /\ Range(load.part.names) \subseteq row.names
      /\ ~blind => batch = <<>> /\ load.part.os = row.os /\ row.names \subseteq Range(load.part.names)
  BY <1>1 DEF IInv, TypeOK, Hydration
<1>3. /\ StoredServices \in Seq(Service) /\ IsInjective(StoredServices)
      /\ {s.port : s \in Range(StoredServices)} = row.ports
  BY <1>2, StoredListsFacts
<1>4. load.part \in Record
  BY <1>1 DEF Loading
<1>5. /\ r \in Record /\ r.names = load.part.names /\ r.services = StoredServices
      /\ r.os = load.part.os /\ r.list = load.part.list
  BY <1>3, <1>4 DEF Record
<1> HIDE DEF r, o
<1>6. PortsOf(r) = row.ports
  BY <1>3, <1>5 DEF PortsOf
<1>7. Clean(r)
  BY <1>2, <1>3, <1>5 DEF Clean
<1>8. /\ m \in Record /\ Range(r.names) \subseteq Range(m.names)
      /\ PortsOf(r) \subseteq PortsOf(m)
      /\ (r.os # Unknown => m.os = r.os)
      /\ Clean(m)
      /\ (~Changed(r, o) => m.names = r.names /\ m.services = r.services /\ m.os = r.os)
  BY <1>2, <1>5, <1>7, MergeFacts
<1>9. Changed(r, o) \in BOOLEAN
  BY DEF Changed
<1> HIDE DEF m
<1>10. TypeOK'
  BY <1>1, <1>8, <1>9 DEF IInv, TypeOK
<1>11. AllNames' = AllNames /\ AllPorts' = AllPorts /\ AllOS' = AllOS
  BY <1>1, AllUnchanged
<1>12. Hydration'
  BY <1>1 DEF Hydration
<1>13. PortsOf(mem') = PortsOf(m)
  BY <1>1 DEF PortsOf
<1>14. ASSUME ~blind'
       PROVE  /\ AllNames' \subseteq Range(mem'.names)
              /\ AllPorts' \subseteq PortsOf(mem')
              /\ AllOS' \subseteq {Unknown, mem'.os}
  <2>1. batch = <<>> /\ r.os = row.os /\ row.names \subseteq Range(r.names)
    BY <1>1, <1>2, <1>5, <1>14
  <2>2. AllNames = row.names /\ AllPorts = row.ports /\ AllOS = {row.os}
    BY <1>2, <2>1, AllIsRow
  <2> QED BY <1>1, <1>6, <1>8, <1>11, <1>13, <2>1, <2>2
<1>15. ASSUME ~dirty'
       PROVE  /\ row' # NoRow
              /\ Range(mem'.names) \subseteq AllNames'
              /\ PortsOf(mem') \subseteq AllPorts'
              /\ ~blind' => mem'.os \in AllOS'
  <2>1. m.names = r.names /\ m.services = r.services /\ m.os = r.os
    BY <1>1, <1>8, <1>9, <1>15 DEF IInv, TypeOK
  <2>2. PortsOf(m) = PortsOf(r)
    BY <2>1 DEF PortsOf
  <2>3. row.names \subseteq AllNames /\ row.ports \subseteq AllPorts /\ row.os \in AllOS
    BY <1>2, RowInAll
  <2> QED BY <1>1, <1>2, <1>5, <1>6, <1>11, <1>13, <2>1, <2>2, <2>3
<1>16. Ahead'
  BY <1>14 DEF Ahead, PortsOf
<1>17. Behind'
  BY <1>15 DEF Behind, PortsOf
<1>18. Clean(mem')
  BY <1>1, <1>8
<1> QED BY <1>10, <1>12, <1>16, <1>17, <1>18 DEF IInv, Clean

\* A query of a hydration fails.
LEMMA LoadFailsStep ==
    ASSUME IInv, LoadFails
    PROVE  IInv'
<1>1. load # NotLoading /\ Create(load.obs) /\ blind' = TRUE
  BY DEF LoadFails
<1>2. load.obs \in Inputs
  BY <1>1 DEF IInv, Hydration
<1> QED BY <1>1, <1>2, CreateStep

\* A snapshot is taken of a marked asset.
LEMMA DrainStep ==
    ASSUME IInv, Drain
    PROVE  IInv'
<1>1. /\ load = NotLoading /\ load' = load /\ dirty' = FALSE
      /\ batch' = (IF mem = NoRecord THEN batch ELSE Append(batch, mem))
      /\ UNCHANGED <<mem, row, lost, blind>>
  BY DEF Drain
<1>2. mem \in Record \cup {NoRecord} /\ batch \in Seq(Record)
  BY DEF IInv, TypeOK
<1>3. Hydration'
  BY <1>1 DEF Hydration
<1>4. CASE mem = NoRecord
  <2>1. batch' = batch /\ mem' = NoRecord
    BY <1>1, <1>4
  <2>2. TypeOK'
    BY <1>1, <2>1 DEF IInv, TypeOK
  <2> QED BY <1>3, <2>1, <2>2 DEF IInv, Ahead, Behind
<1>5. CASE mem # NoRecord
  <2>1. /\ batch' \in Seq(Record) /\ batch' # <<>>
        /\ AllNames' = AllNames \cup Range(mem.names)
        /\ AllPorts' = AllPorts \cup PortsOf(mem)
        /\ AllOS' = AllOS \cup {mem.os}
    BY <1>1, <1>2, <1>5, AllDrained
  <2>2. TypeOK'
    BY <1>1, <2>1 DEF IInv, TypeOK
  <2>3. PortsOf(mem') = PortsOf(mem)
    BY <1>1 DEF PortsOf
  <2>4. Ahead'
    <3>1. ~blind' => /\ AllNames' \subseteq Range(mem'.names)
                     /\ AllPorts' \subseteq PortsOf(mem')
                     /\ AllOS' \subseteq {Unknown, mem'.os}
      BY <1>1, <1>5, <2>1, <2>3 DEF IInv, Ahead
    <3> QED BY <3>1 DEF Ahead, PortsOf
  <2>5. Behind'
    <3>1. /\ batch' # <<>> /\ Range(mem'.names) \subseteq AllNames'
          /\ PortsOf(mem') \subseteq AllPorts' /\ mem'.os \in AllOS'
      BY <1>1, <2>1, <2>3
    <3> QED BY <3>1 DEF Behind, PortsOf
  <2>6. mem' # NoRecord => Clean(mem')
    BY <1>1 DEF IInv
  <2> QED BY <1>3, <2>2, <2>4, <2>5, <2>6 DEF IInv, Clean
<1> QED BY <1>4, <1>5

\* A snapshot is saved.
LEMMA SaveStep ==
    ASSUME IInv, Save
    PROVE  IInv'
<1>1. /\ batch # <<>> /\ row' = Upsert(Head(batch)) /\ batch' = Tail(batch)
      /\ UNCHANGED <<mem, dirty, load, lost, blind>>
  BY DEF Save
<1>2. batch \in Seq(Record) /\ row \in Row \cup {NoRow}
  BY DEF IInv, TypeOK
<1>3. /\ AllNames' = AllNames
      /\ AllPorts' = AllPorts
      /\ AllOS' \subseteq AllOS
      /\ \A os \in AllOS : AllOS \subseteq {Unknown, os} /\ os # Unknown => os \in AllOS'
      /\ row' \in Row /\ row' # NoRow
      /\ row # NoRow => row.names \subseteq row'.names
  BY <1>1, <1>2, AllSaved
<1>4. batch' \in Seq(Record)
  BY <1>1, <1>2, BatchSplits
<1>5. TypeOK'
  BY <1>1, <1>3, <1>4 DEF IInv, TypeOK
<1>6. Hydration'
  BY <1>1, <1>3 DEF IInv, Hydration
<1>7. PortsOf(mem') = PortsOf(mem)
  BY <1>1 DEF PortsOf
<1>8. Ahead'
  <2>1. mem' # NoRecord /\ ~blind' => /\ AllNames' \subseteq Range(mem'.names)
                                      /\ AllPorts' \subseteq PortsOf(mem')
                                      /\ AllOS' \subseteq {Unknown, mem'.os}
    BY <1>1, <1>3, <1>7 DEF IInv, Ahead
  <2> QED BY <2>1 DEF Ahead, PortsOf
<1>9. Behind'
  <2> SUFFICES ASSUME mem' # NoRecord, ~dirty', ~lost'
               PROVE  /\ row' # NoRow
                      /\ Range(mem'.names) \subseteq AllNames'
                      /\ PortsOf(mem') \subseteq AllPorts'
                      /\ ~blind' /\ mem'.os # Unknown => mem'.os \in AllOS'
    BY DEF Behind, PortsOf
  <2>1. /\ Range(mem.names) \subseteq AllNames /\ PortsOf(mem) \subseteq AllPorts
        /\ ~blind /\ mem.os # Unknown => mem.os \in AllOS /\ AllOS \subseteq {Unknown, mem.os}
    BY <1>1 DEF IInv, Ahead, Behind
  <2> QED BY <1>1, <1>3, <1>7, <2>1
<1>10. mem' # NoRecord => Clean(mem')
  BY <1>1 DEF IInv
<1> QED BY <1>5, <1>6, <1>8, <1>9, <1>10 DEF IInv, Clean

\* A snapshot is given up.
LEMMA GiveUpStep ==
    ASSUME IInv, GiveUp
    PROVE  IInv'
<1>1. /\ batch # <<>> /\ batch' = Tail(batch) /\ lost' = TRUE
      /\ UNCHANGED <<mem, dirty, row, load, blind>>
  BY DEF GiveUp
<1>2. batch \in Seq(Record)
  BY DEF IInv, TypeOK
<1>3. AllNames' \subseteq AllNames /\ AllPorts' \subseteq AllPorts /\ AllOS' \subseteq AllOS
  BY <1>1, <1>2, AllGivenUp
<1>4. batch' \in Seq(Record)
  BY <1>1, <1>2, BatchSplits
<1>5. TypeOK'
  BY <1>1, <1>4 DEF IInv, TypeOK
<1>6. Hydration'
  BY <1>1 DEF IInv, Hydration
<1>7. Ahead'
  <2>1. PortsOf(mem') = PortsOf(mem)
    BY <1>1 DEF PortsOf
  <2>2. mem' # NoRecord /\ ~blind' => /\ AllNames' \subseteq Range(mem'.names)
                                      /\ AllPorts' \subseteq PortsOf(mem')
                                      /\ AllOS' \subseteq {Unknown, mem'.os}
    BY <1>1, <1>3, <2>1 DEF IInv, Ahead
  <2> QED BY <2>2 DEF Ahead, PortsOf
<1>8. mem' # NoRecord => Clean(mem')
  BY <1>1 DEF IInv
<1> QED BY <1>1, <1>5, <1>6, <1>7, <1>8 DEF IInv, Behind, Clean

\* The asset leaves memory.
LEMMA EvictStep ==
    ASSUME IInv, Evict
    PROVE  IInv'
<1>1. /\ load = NotLoading /\ mem' = NoRecord
      /\ UNCHANGED <<dirty, batch, row, load, lost, blind>>
  BY DEF Evict
<1>2. TypeOK' /\ Hydration'
  BY <1>1 DEF IInv, TypeOK, Hydration
<1> QED BY <1>1, <1>2 DEF IInv, Ahead, Behind

\* The process ends, and the asset is loaded again or not.
LEMMA RestartStep ==
    ASSUME IInv, Restart
    PROVE  IInv'
<1> DEFINE r == [StoredAsset EXCEPT !.names = StoredNames, !.services = StoredServices]
<1>1. /\ mem' = NoRecord \/ (row # NoRow /\ mem' = r)
      /\ dirty' = FALSE /\ batch' = <<>> /\ load' = NotLoading
      /\ lost' = FALSE /\ blind' = FALSE /\ row' = row
  BY DEF Restart
<1>2. row \in Row \cup {NoRow}
  BY DEF IInv, TypeOK
<1>3. ASSUME row # NoRow
      PROVE  /\ r \in Record /\ Clean(r)
             /\ Range(r.names) = row.names /\ PortsOf(r) = row.ports /\ r.os = row.os
  <2>1. /\ StoredAsset \in Record /\ StoredAsset.os = row.os
        /\ StoredAsset.list # NoList => StoredAsset.list.type = "any"
    BY <1>2, <1>3, StoredAssetFacts
  <2>2. /\ StoredNames \in Seq(Names) /\ IsInjective(StoredNames)
        /\ Range(StoredNames) = row.names
        /\ StoredServices \in Seq(Service) /\ IsInjective(StoredServices)
        /\ {s.port : s \in Range(StoredServices)} = row.ports
    BY <1>2, <1>3, StoredListsFacts
  <2>3. /\ r \in Record /\ r.names = StoredNames /\ r.services = StoredServices
        /\ r.os = row.os /\ r.list = StoredAsset.list
    BY <2>1, <2>2 DEF Record
  <2> HIDE DEF r
  <2>4. PortsOf(r) = row.ports
    BY <2>2, <2>3 DEF PortsOf
  <2>5. Clean(r)
    BY <2>1, <2>2, <2>3 DEF Clean
  <2> QED BY <2>2, <2>3, <2>4, <2>5
<1> HIDE DEF r
<1>4. <<>> \in Seq(Record)
  OBVIOUS
<1>5. TypeOK'
  BY <1>1, <1>2, <1>3, <1>4 DEF TypeOK
<1>6. Hydration'
  BY <1>1 DEF Hydration
<1>7. row' # NoRow => AllNames' = row'.names /\ AllPorts' = row'.ports /\ AllOS' = {row'.os}
  <2>1. Range(batch') = {}
    BY <1>1 DEF Range
  <2> QED BY <2>1 DEF AllNames, AllPorts, AllOS
<1>8. CASE mem' = NoRecord
  BY <1>5, <1>6, <1>8 DEF IInv, Ahead, Behind
<1>9. CASE row # NoRow /\ mem' = r
  <2>1. /\ row' # NoRow /\ Range(mem'.names) = AllNames' /\ PortsOf(mem') = AllPorts'
        /\ AllOS' = {mem'.os}
    <3>1. PortsOf(mem') = PortsOf(r)
      BY <1>9 DEF PortsOf
    <3> QED BY <1>1, <1>3, <1>7, <1>9, <3>1
  <2>2. Ahead'
    BY <2>1 DEF Ahead, PortsOf
  <2>3. Behind'
    BY <2>1 DEF Behind, PortsOf
  <2>4. Clean(mem')
    BY <1>3, <1>9
  <2> QED BY <1>5, <1>6, <2>2, <2>3, <2>4 DEF IInv, Clean
<1> QED BY <1>1, <1>8, <1>9

\* Every step keeps the invariant.
LEMMA StepIInv == IInv /\ [Next]_vars => IInv'
<1> SUFFICES ASSUME IInv, [Next]_vars PROVE IInv'
  OBVIOUS
<1>1. CASE UNCHANGED vars
  BY <1>1 DEF vars, IInv, TypeOK, Hydration, Ahead, Behind, Clean, AllNames, AllPorts, AllOS, PortsOf
<1>2. CASE \E o \in Inputs : Hydrate(o)
  BY <1>2, HydrateStep
<1>3. CASE \E newer \in BOOLEAN : LoadServices(newer)
  BY <1>3, LoadServicesStep
<1>4. CASE \E newer \in BOOLEAN, o \in Inputs : Update(o, newer)
  BY <1>4, UpdateStep
<1>5. CASE LoadHostnames
  BY <1>5, LoadHostnamesStep
<1>6. CASE LoadFails
  BY <1>6, LoadFailsStep
<1>7. CASE Drain
  BY <1>7, DrainStep
<1>8. CASE Save
  BY <1>8, SaveStep
<1>9. CASE GiveUp
  BY <1>9, GiveUpStep
<1>10. CASE Evict
  BY <1>10, EvictStep
<1>11. CASE Restart
  BY <1>11, RestartStep
<1> QED BY <1>1, <1>2, <1>3, <1>4, <1>5, <1>6, <1>7, <1>8, <1>9, <1>10, <1>11 DEF Next

\* The invariant holds of every behaviour.
LEMMA AlwaysIInv == Spec => []IInv
BY InitIInv, StepIInv, PTL DEF Spec

-----------------------------------------------------------------------------
(* Theorems *)

\* Record, rows, snapshots and a hydration in progress keep their types, whatever is merged into
\* what (merge.go:13-43, sqlite.go:196-243).
THEOREM TypesKept == Spec => []TypeOK
<1>1. IInv => TypeOK
  BY DEF IInv
<1> QED BY <1>1, AlwaysIInv, PTL

\* What memory knows and has not marked is stored or on its way; so that when nothing is on its
\* way and nothing was given up, the rows have the names, the ports and the operating system.
THEOREM RowsFollowMemory == Spec => []RowAnswersForMemory
<1>1. IInv => RowAnswersForMemory
  <2> SUFFICES ASSUME IInv, mem # NoRecord, ~dirty, batch = <<>>, ~lost
               PROVE  /\ row # NoRow
                      /\ Range(mem.names) \subseteq row.names
                      /\ PortsOf(mem) \subseteq row.ports
                      /\ mem.os # Unknown /\ ~blind => row.os = mem.os
    BY DEF RowAnswersForMemory, Unknown
  <2>1. /\ row # NoRow /\ Range(mem.names) \subseteq AllNames /\ PortsOf(mem) \subseteq AllPorts
        /\ ~blind /\ mem.os # Unknown => mem.os \in AllOS
    BY DEF IInv, Behind
  <2>2. AllNames = row.names /\ AllPorts = row.ports /\ AllOS = {row.os}
    BY <2>1, AllIsRow
  <2> QED BY <2>1, <2>2
<1> QED BY <1>1, AlwaysIInv, PTL

\* What was stored of an asset in memory is in memory, although a hydration reads three tables
\* while snapshots are written to them.
THEOREM MemoryFollowsRows == Spec => []MemoryAnswersForRow
<1>1. IInv => MemoryAnswersForRow
  BY RowInAll DEF IInv, Ahead, MemoryAnswersForRow
<1> QED BY <1>1, AlwaysIInv, PTL

\* No list in memory repeats itself, however often it was stored, loaded and merged.
THEOREM ListsStayClean == Spec => []NothingListedTwice
<1>1. IInv => NothingListedTwice
  BY DEF IInv, Clean, NothingListedTwice
<1> QED BY <1>1, AlwaysIInv, PTL
=============================================================================
