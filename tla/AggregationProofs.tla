-------------------------- MODULE AggregationProofs --------------------------
(***************************************************************************)
(* Theorems about Aggregation, for any findings, any diff and any answers  *)
(* of the larger model: merging, ranking and escalation lose no finding    *)
(* and no severity; the parser agrees with the reference reading of the    *)
(* diff; comments go to lines GitHub takes.                                *)
(***************************************************************************)
EXTENDS Aggregation, FiniteSetTheorems, FunctionTheorems, TLAPS

USE DedupAssumption, AggregationAssumption

\* The keys of dedup_map are different; only a merge gives an entry another
\* title than that of its key.
KeysApart ==
    /\ \A i, j \in 1..Len(entries) :
          i # j /\ Spot(entries[i]) = Spot(entries[j]) => entries[i].key # entries[j].key
    /\ \A i \in 1..Len(entries) :
          entries[i].title # entries[i].key => entries[i].src = "merged"

MapOK ==
    /\ raw \in Seq(Finding) /\ read \in 0..Len(raw)
    /\ entries \in Seq(Entry)

DedupInv == MapOK /\ KeysApart /\ SeverityPreserved

\* A merge keeps place, family and key of the entry.
LEMMA MergedEntry ==
  ASSUME NEW e \in Entry, NEW f \in Finding
  PROVE  LET m == Merged(e, f)
         IN  /\ m \in Entry
             /\ Spot(m) = Spot(e) /\ m.fam = e.fam /\ m.key = e.key /\ m.src = "merged"
             /\ m.sev <= e.sev /\ m.sev <= f.sev /\ m.sev \in {e.sev, f.sev}
             /\ m.conf >= e.conf /\ m.conf >= f.conf /\ m.conf \in {e.conf, f.conf}
  BY DEF Merged, Entry, Finding, Spot, Lower, Higher, Severity, Confidence, Wins

\* A finding without a match becomes an entry as it is.
LEMMA NewEntryFields ==
  ASSUME NEW f \in Finding
  PROVE  LET e == NewEntry(f)
         IN  /\ e \in Entry
             /\ Spot(e) = Spot(f) /\ e.fam = f.fam /\ e.key = f.title /\ e.title = f.title
             /\ e.sev = f.sev /\ e.conf = f.conf /\ e.src = f.src
  BY DEF NewEntry, Entry, Finding, Spot

\* What holds of the findings read so far when they and the entries grow.
LEMMA Appended ==
  ASSUME DedupInv, read < Len(raw), Matches(raw[read + 1]) = {},
         entries' = Append(entries, NewEntry(raw[read + 1])), read' = read + 1, raw' = raw
  PROVE  DedupInv'
  <1> DEFINE f == raw[read + 1]
             n == Len(entries)
             e == NewEntry(f)
  <1>1. /\ raw \in Seq(Finding) /\ read \in 0..Len(raw) /\ entries \in Seq(Entry)
        /\ n \in Nat /\ Len(raw) \in Nat
    BY DEF DedupInv, MapOK
  <1>2. f \in Finding
    BY <1>1
  <1>3. /\ e \in Entry
        /\ Spot(e) = Spot(f) /\ e.fam = f.fam /\ e.key = f.title /\ e.title = f.title
        /\ e.sev = f.sev /\ e.conf = f.conf /\ e.src = f.src
    BY <1>2, NewEntryFields
  <1> HIDE DEF e, f
  <1>4. /\ entries' = Append(entries, e) /\ entries' \in Seq(Entry) /\ Len(entries') = n + 1
        /\ entries'[n + 1] = e /\ \A i \in 1..n : entries'[i] = entries[i]
    BY <1>1, <1>3 DEF e, f
  <1>5. \A i \in 1..n : ~ (Spot(entries[i]) = Spot(f) /\ entries[i].key = f.title)
    BY DEF Matches, SameKey, f
  <1>6. MapOK'
    BY <1>1, <1>4 DEF MapOK
  <1>7. KeysApart'
    <2>1. \A i \in 1..(n + 1) : i \in 1..n \/ i = n + 1
      BY <1>1
    <2>2. ASSUME NEW i \in 1..(n + 1), NEW j \in 1..(n + 1), i # j, Spot(entries'[i]) = Spot(entries'[j])
          PROVE  entries'[i].key # entries'[j].key
      BY <1>3, <1>4, <1>5, <2>1, <2>2 DEF DedupInv, KeysApart
    <2>3. ASSUME NEW i \in 1..(n + 1), entries'[i].title # entries'[i].key
          PROVE  entries'[i].src = "merged"
      BY <1>3, <1>4, <2>1, <2>3 DEF DedupInv, KeysApart
    <2>4. QED
      BY <1>4, <2>2, <2>3 DEF KeysApart, Spot
  <1>8. SeverityPreserved'
    <2>1. ASSUME NEW k \in 1..(read + 1)
          PROVE  \E i \in 1..(n + 1) : Covers(entries'[i], raw[k])
      <3>1. CASE k = read + 1
        <4>1. Covers(e, f)
          BY <1>2, <1>3 DEF Finding, Severity, Confidence, Covers
        <4>2. n + 1 \in 1..(n + 1) /\ raw[k] = f
          BY <1>1, <3>1 DEF f
        <4>3. QED
          BY <1>4, <4>1, <4>2
      <3>2. CASE k \in 1..read
        <4>1. PICK i \in 1..n : Covers(entries[i], raw[k])
          BY <3>2 DEF DedupInv, SeverityPreserved
        <4>2. i \in 1..(n + 1) /\ entries'[i] = entries[i]
          BY <1>1, <1>4
        <4>3. QED
          BY <4>1, <4>2
      <3>3. k \in 1..read \/ k = read + 1
        BY <1>1
      <3>4. QED
        BY <3>1, <3>2, <3>3
    <2>2. ASSUME NEW i \in 1..(n + 1)
          PROVE  \E m, k \in 1..(read + 1) : Backs(raw[m], raw[k], entries'[i])
      <3>1. CASE i = n + 1
        <4>1. read + 1 \in 1..(read + 1) /\ entries'[i] = e /\ raw[read + 1] = f
          BY <1>1, <1>4, <3>1 DEF f
        <4>2. Backs(f, f, e)
          BY <1>3 DEF Backs
        <4>3. QED
          BY <4>1, <4>2
      <3>2. CASE i \in 1..n
        <4>1. PICK m \in 1..read, k \in 1..read : Backs(raw[m], raw[k], entries[i])
          BY <3>2 DEF DedupInv, SeverityPreserved
        <4>2. m \in 1..(read + 1) /\ k \in 1..(read + 1) /\ entries'[i] = entries[i]
          BY <1>1, <1>4, <3>2
        <4>3. QED
          BY <4>1, <4>2
      <3>3. i \in 1..n \/ i = n + 1
        BY <1>1
      <3>4. QED
        BY <3>1, <3>2, <3>3
    <2>3. QED
      BY <1>4, <2>1, <2>2 DEF SeverityPreserved
  <1>9. QED
    BY <1>6, <1>7, <1>8 DEF DedupInv

\* A merged entry speaks for the new finding and for all it spoke for before.
LEMMA MergedInto ==
  ASSUME DedupInv, read < Len(raw), NEW i \in Matches(raw[read + 1]),
         entries' = [entries EXCEPT ![i] = Merged(entries[i], raw[read + 1])],
         read' = read + 1, raw' = raw
  PROVE  DedupInv'
  <1> DEFINE f == raw[read + 1]
             n == Len(entries)
             m == Merged(entries[i], f)
  <1>1. /\ raw \in Seq(Finding) /\ read \in 0..Len(raw) /\ entries \in Seq(Entry)
        /\ n \in Nat /\ Len(raw) \in Nat
    BY DEF DedupInv, MapOK
  <1>2. f \in Finding
    BY <1>1
  <1>3. /\ i \in 1..n /\ Spot(entries[i]) = Spot(f)
        /\ entries[i].key = f.title \/ entries[i].fam = f.fam
    BY DEF Matches, SameKey, CrossSource, SameFamily
  <1>4. entries[i] \in Entry
    BY <1>1, <1>3
  <1>5. /\ m \in Entry
        /\ Spot(m) = Spot(entries[i]) /\ m.fam = entries[i].fam /\ m.key = entries[i].key
        /\ m.src = "merged"
        /\ m.sev <= entries[i].sev /\ m.sev <= f.sev /\ m.sev \in {entries[i].sev, f.sev}
        /\ m.conf >= entries[i].conf /\ m.conf >= f.conf /\ m.conf \in {entries[i].conf, f.conf}
    BY <1>2, <1>4, MergedEntry
  <1>6. entries' = [entries EXCEPT ![i] = m] /\ raw[read + 1] = f
    OBVIOUS
  <1> HIDE DEF m, f
  <1>7. /\ entries' \in Seq(Entry) /\ Len(entries') = n
        /\ entries'[i] = m /\ \A j \in 1..n : j # i => entries'[j] = entries[j]
    BY <1>1, <1>3, <1>5, <1>6
  <1>8. MapOK'
    BY <1>1, <1>7 DEF MapOK
  <1>9. \A j \in 1..n : Spot(entries'[j]) = Spot(entries[j]) /\ entries'[j].key = entries[j].key
    BY <1>5, <1>7
  <1>10. KeysApart'
    <2>1. ASSUME NEW j \in 1..n, NEW k \in 1..n, j # k, Spot(entries'[j]) = Spot(entries'[k])
          PROVE  entries'[j].key # entries'[k].key
      BY <1>9, <2>1 DEF DedupInv, KeysApart
    <2>2. ASSUME NEW j \in 1..n, entries'[j].title # entries'[j].key
          PROVE  entries'[j].src = "merged"
      BY <1>5, <1>7, <2>2 DEF DedupInv, KeysApart
    <2>3. QED
      BY <1>7, <2>1, <2>2 DEF KeysApart, Spot
  <1>11. SeverityPreserved'
    <2>1. ASSUME NEW k \in 1..(read + 1)
          PROVE  \E j \in 1..n : Covers(entries'[j], raw[k])
      <3>1. CASE k = read + 1
        <4>1. Covers(m, f)
          BY <1>3, <1>5 DEF Covers
        <4>2. QED
          BY <1>3, <1>6, <1>7, <3>1, <4>1
      <3>2. CASE k \in 1..read
        <4>1. PICK j \in 1..n : Covers(entries[j], raw[k])
          BY <3>2 DEF DedupInv, SeverityPreserved
        <4>2. CASE j = i
          <5>1. raw[k] \in Finding
            BY <1>1, <3>2
          <5>2. Covers(entries[i], raw[k])
            BY <4>1, <4>2
          <5>3. /\ raw[k].sev \in Int /\ raw[k].conf \in Int
            BY <5>1 DEF Finding, Severity, Confidence
          <5>4. /\ entries[i].sev \in Int /\ entries[i].conf \in Int
            BY <1>4 DEF Entry, Severity, Confidence
          <5>5. /\ m.sev \in Int /\ m.conf \in Int
            BY <1>5 DEF Entry, Severity, Confidence
          <5>6. entries[i].sev <= raw[k].sev /\ entries[i].conf >= raw[k].conf
            BY <5>2 DEF Covers
          <5>7. m.sev <= entries[i].sev /\ m.conf >= entries[i].conf
            BY <1>5
          <5>8. m.sev <= raw[k].sev /\ m.conf >= raw[k].conf
            BY <5>3, <5>4, <5>5, <5>6, <5>7
          <5>9. Spot(m) = Spot(raw[k]) /\ (m.key = raw[k].title \/ m.fam = raw[k].fam)
            BY <1>5, <5>2 DEF Covers
          <5>10. Covers(m, raw[k])
            BY <1>5, <5>8, <5>9 DEF Covers
          <5>11. QED
            BY <1>3, <1>7, <5>10
        <4>3. CASE j # i
          BY <1>7, <4>1, <4>3
        <4>4. QED
          BY <4>2, <4>3
      <3>3. k \in 1..read \/ k = read + 1
        BY <1>1
      <3>4. QED
        BY <3>1, <3>2, <3>3
    <2>2. ASSUME NEW j \in 1..n
          PROVE  \E g, h \in 1..(read + 1) : Backs(raw[g], raw[h], entries'[j])
      <3>1. PICK g \in 1..read, h \in 1..read : Backs(raw[g], raw[h], entries[j])
        BY DEF DedupInv, SeverityPreserved
      <3>2. g \in 1..(read + 1) /\ h \in 1..(read + 1) /\ read + 1 \in 1..(read + 1)
        BY <1>1
      <3>3. CASE j # i
        BY <1>7, <3>1, <3>2, <3>3
      <3>4. CASE j = i
        <4>1. PICK x \in {g, read + 1} : Spot(raw[x]) = Spot(m) /\ raw[x].sev = m.sev
          BY <1>3, <1>5, <1>6, <3>1, <3>4 DEF Backs
        <4>2. PICK y \in {h, read + 1} : Spot(raw[y]) = Spot(m) /\ raw[y].conf = m.conf
          BY <1>3, <1>5, <1>6, <3>1, <3>4 DEF Backs
        <4>3. Backs(raw[x], raw[y], entries'[j])
          BY <1>7, <3>4, <4>1, <4>2 DEF Backs
        <4>4. QED
          BY <3>2, <4>3
      <3>5. QED
        BY <3>3, <3>4
    <2>3. QED
      BY <1>7, <2>1, <2>2 DEF SeverityPreserved
  <1>12. QED
    BY <1>8, <1>10, <1>11 DEF DedupInv

\* Only the loop over the findings changes the entries.
LEMMA DedupStep ==
  ASSUME DedupInv, [Next]_vars
  PROVE  DedupInv'
  <1>1. CASE Deduplicate
    <2>1. read < Len(raw) /\ read' = read + 1 /\ raw' = raw
      BY <1>1 DEF Deduplicate, DedupFinding
    <2>2. \/ Matches(raw[read + 1]) = {} /\ entries' = Append(entries, NewEntry(raw[read + 1]))
          \/ \E i \in Matches(raw[read + 1]) :
                entries' = [entries EXCEPT ![i] = Merged(entries[i], raw[read + 1])]
      BY <1>1 DEF Deduplicate, DedupFinding
    <2>3. QED
      BY <2>1, <2>2, Appended, MergedInto
  <1>2. CASE UNCHANGED <<raw, read, entries>>
    BY <1>2 DEF DedupInv, MapOK, KeysApart, SeverityPreserved, Spot
  <1>3. CASE Rank
    BY <1>2, <1>3 DEF Rank, SortAndTruncate
  <1>4. CASE AnalyzeLlm
    BY <1>2, <1>4 DEF AnalyzeLlm, Tier2Answers, Tier2Invalid, Tier2Fails, dedupVars
  <1>5. CASE Parse \/ Map \/ Compose \/ TimeLimit
    BY <1>2, <1>5 DEF Parse, Map, Compose, TimeLimit, dedupVars
  <1>6. CASE PostReview \/ PostSummaryOnly \/ PostFails
    BY <1>2, <1>6 DEF PostReview, PostSummaryOnly, PostFails, dedupVars
  <1>7. CASE UNCHANGED vars
    BY <1>2, <1>7 DEF vars, dedupVars
  <1>8. QED
    BY <1>1, <1>3, <1>4, <1>5, <1>6, <1>7 DEF Next

\* The inductive invariant of the deduplication.
THEOREM DedupInvariant == Spec => []DedupInv
  <1>1. Init => DedupInv
    <2> SUFFICES ASSUME Init PROVE DedupInv
      OBVIOUS
    <2>1. raw \in Seq(Finding) /\ read = 0 /\ entries = <<>>
      BY DEF Init, DedupInit
    <2>2. Len(entries) = 0 /\ entries \in Seq(Entry) /\ Len(raw) \in Nat
      BY <2>1
    <2>3. QED
      BY <2>1, <2>2 DEF DedupInv, MapOK, KeysApart, SeverityPreserved
  <1>2. QED
    BY <1>1, DedupStep, PTL DEF Spec

\* No merge loses a vulnerability or plays one down, for any findings in any
\* order.
THEOREM DedupSeverityPreserved == Spec => []SeverityPreserved
  <1>1. DedupInv => SeverityPreserved
    BY DEF DedupInv
  <1>2. QED
    BY <1>1, DedupInvariant, PTL

\* Entries of one file, line, category and title exist only after a merge that
\* renamed one of them.
THEOREM DedupOneEntryPerKey == Spec => []OneEntryPerKey
  <1>1. DedupInv => OneEntryPerKey
    BY DEF DedupInv, KeysApart, OneEntryPerKey
  <1>2. QED
    BY <1>1, DedupInvariant, PTL

-----------------------------------------------------------------------------
(* Sorting.                                                                *)

\* A nonempty set of numbers has a smallest one.
LEMMA Smallest ==
  ASSUME NEW S \in SUBSET Nat, S # {}
  PROVE  \E x \in S : \A y \in S : x <= y
  <1>1. PICK x \in S : \A y \in S : ~ (<<y, x>> \in OpToRel(<, Nat))
    BY NatLessThanWellFounded, WFMin
  <1>2. ASSUME NEW y \in S PROVE x <= y
    <2>1. <<y, x>> \in Nat \X Nat /\ ~ (<<y, x>> \in OpToRel(<, Nat))
      BY <1>1
    <2>2. ~ (y < x)
      BY <2>1 DEF OpToRel
    <2>3. QED
      BY <2>2
  <1>3. QED
    BY <1>2

\* A nonempty set of numbers with a bound has a largest one.
LEMMA Largest ==
  ASSUME NEW n \in Nat, NEW S \in SUBSET (0..n), S # {}
  PROVE  \E x \in S : \A y \in S : y <= x
  <1> DEFINE T == {m \in 0..n : n - m \in S}
  <1>1. T \in SUBSET Nat /\ T # {}
    <2>1. PICK x \in S : TRUE
      OBVIOUS
    <2>2. n - x \in 0..n /\ n - (n - x) = x
      OBVIOUS
    <2>3. n - x \in T
      BY <2>1, <2>2
    <2>4. QED
      BY <2>3
  <1>2. PICK m \in T : \A k \in T : m <= k
    BY <1>1, Smallest
  <1>3. ASSUME NEW y \in S PROVE y <= n - m
    <2>1. n - y \in 0..n /\ n - (n - y) = y /\ m \in 0..n
      OBVIOUS
    <2>2. n - y \in T
      BY <2>1
    <2>3. m <= n - y
      BY <1>2, <2>2
    <2>4. QED
      BY <2>1, <2>3
  <1>4. QED
    BY <1>3

\* The numbers entries are sorted by.
LEMMA SortKeys ==
  ASSUME NEW e \in Entry
  PROVE  e.sev \in Nat /\ e.file \in Nat /\ e.line \in Nat
  BY DEF Entry, Severity

\* The order is transitive, and so is its complement.
LEMMA BeforeTransitive ==
  ASSUME NEW e \in Entry, NEW f \in Entry, NEW g \in Entry
  PROVE  /\ Before(e, f) /\ Before(f, g) => Before(e, g)
         /\ ~ Before(e, f) /\ ~ Before(f, g) => ~ Before(e, g)
         /\ Before(e, f) => ~ Before(f, e)
  <1>1. PICK a \in Nat, b \in Nat, c \in Nat : e.sev = a /\ e.file = b /\ e.line = c
    BY SortKeys
  <1>2. PICK k \in Nat, l \in Nat, m \in Nat : f.sev = k /\ f.file = l /\ f.line = m
    BY SortKeys
  <1>3. PICK x \in Nat, y \in Nat, z \in Nat : g.sev = x /\ g.file = y /\ g.line = z
    BY SortKeys
  <1>4. QED
    BY <1>1, <1>2, <1>3 DEF Before

\* Entry j comes before entry i, or is entry i.
Upto(i) ==
    {j \in 1..Len(entries) :
       \/ Before(entries[j], entries[i])
       \/ ~ Before(entries[i], entries[j]) /\ j <= i}

\* Of two entries one comes first.
LEMMA OneComesFirst ==
  ASSUME entries \in Seq(Entry), NEW i \in 1..Len(entries), NEW j \in 1..Len(entries)
  PROVE  /\ i \in Upto(i) /\ (i \in Upto(j) \/ j \in Upto(i))
         /\ i \in Upto(j) /\ j \in Upto(i) => i = j
         /\ i \in Upto(j) => entries[i].sev <= entries[j].sev /\ Upto(i) \subseteq Upto(j)
  <1>1. \A k \in 1..Len(entries) : entries[k].sev \in Nat /\ entries[k].file \in Nat
                                     /\ entries[k].line \in Nat /\ k \in Nat
    BY SortKeys
  <1>2. i \in Upto(i) /\ (i \in Upto(j) \/ j \in Upto(i))
    BY <1>1 DEF Upto, Before
  <1>3. i \in Upto(j) /\ j \in Upto(i) => i = j
    BY <1>1 DEF Upto, Before
  <1>4. i \in Upto(j) => entries[i].sev <= entries[j].sev
    BY <1>1 DEF Upto, Before
  <1>5. ASSUME i \in Upto(j), NEW k \in Upto(i) PROVE k \in Upto(j)
    <2>1. /\ k \in 1..Len(entries) /\ entries[k] \in Entry /\ entries[i] \in Entry
          /\ entries[j] \in Entry
      BY DEF Upto
    <2>2. /\ Before(entries[k], entries[i]) \/ (~ Before(entries[i], entries[k]) /\ k <= i)
          /\ Before(entries[i], entries[j]) \/ (~ Before(entries[j], entries[i]) /\ i <= j)
      BY <1>5 DEF Upto
    <2>3. CASE ~ Before(entries[i], entries[k]) /\ k <= i /\ ~ Before(entries[j], entries[i]) /\ i <= j
      <3>1. ~ Before(entries[j], entries[k])
        BY <2>1, <2>3, BeforeTransitive
      <3>2. k <= j
        BY <1>1, <2>1, <2>3
      <3>3. QED
        BY <2>1, <3>1, <3>2 DEF Upto
    <2>4. CASE Before(entries[k], entries[i]) \/ Before(entries[i], entries[j])
      <3>1. Before(entries[k], entries[j])
        BY <2>1, <2>2, <2>4, BeforeTransitive
      <3>2. QED
        BY <2>1, <3>1 DEF Upto
    <2>5. QED
      BY <2>2, <2>3, <2>4
  <1>6. QED
    BY <1>2, <1>3, <1>4, <1>5

\* The places of the entries are the numbers up to their number, each once,
\* and an entry that comes first has the smaller place.
LEMMA PlacesOrdered ==
  ASSUME entries \in Seq(Entry)
  PROVE  /\ \A i \in 1..Len(entries) : Place(i) \in 1..Len(entries)
         /\ \A i, j \in 1..Len(entries) : i \in Upto(j) /\ i # j => Place(i) < Place(j)
  <1> DEFINE n == Len(entries)
  <1>1. n \in Nat /\ IsFiniteSet(1..n) /\ Cardinality(1..n) = n
    BY FS_Interval
  <1>2. ASSUME NEW i \in 1..n
        PROVE  /\ Place(i) = Cardinality(Upto(i)) /\ IsFiniteSet(Upto(i)) /\ i \in Upto(i)
               /\ Place(i) \in 1..n
    <2>1. Place(i) = Cardinality(Upto(i)) /\ Upto(i) \in SUBSET (1..n)
      BY DEF Place, Upto
    <2>2. IsFiniteSet(Upto(i)) /\ Cardinality(Upto(i)) <= n
      BY <1>1, <2>1, FS_Subset
    <2>3. i \in Upto(i)
      BY OneComesFirst
    <2>4. Cardinality(Upto(i)) \in Nat /\ Cardinality(Upto(i)) # 0
      BY <2>2, <2>3, FS_CardinalityType, FS_EmptySet
    <2>5. QED
      BY <1>1, <2>1, <2>2, <2>3, <2>4
  <1>3. ASSUME NEW i \in 1..n, NEW j \in 1..n, i \in Upto(j), i # j
        PROVE  Place(i) < Place(j)
    <2>1. Upto(i) \in SUBSET Upto(j) /\ j \in Upto(j) /\ j \notin Upto(i)
      BY <1>3, OneComesFirst
    <2>2. Cardinality(Upto(i)) <= Cardinality(Upto(j))
          /\ Cardinality(Upto(i)) # Cardinality(Upto(j))
      BY <1>2, <2>1, FS_Subset
    <2>3. Place(i) \in Nat /\ Place(j) \in Nat
      BY <1>2
    <2>4. QED
      BY <1>2, <2>2, <2>3
  <1>4. QED
    BY <1>2, <1>3

\* n entries take n different places of n: none stays empty.
LEMMA EveryPlaceTaken ==
  ASSUME entries \in Seq(Entry), NEW p \in 1..Len(entries)
  PROVE  \E i \in 1..Len(entries) : Place(i) = p
  <1> DEFINE n == Len(entries)
             F == [i \in 1..n |-> Place(i)]
  <1>1. n \in Nat /\ IsFiniteSet(1..n)
    BY FS_Interval
  <1>2. F \in [1..n -> 1..n]
    BY PlacesOrdered
  <1>3. ASSUME NEW i \in 1..n, NEW j \in 1..n, F[i] = F[j] PROVE i = j
    <2>1. Place(i) \in Nat /\ Place(j) \in Nat /\ Place(i) = Place(j)
      BY <1>3, PlacesOrdered
    <2>2. i \in Upto(j) \/ j \in Upto(i)
      BY OneComesFirst
    <2>3. SUFFICES ASSUME i # j PROVE FALSE
      OBVIOUS
    <2>4. Place(i) < Place(j) \/ Place(j) < Place(i)
      BY <2>2, <2>3, PlacesOrdered
    <2>5. QED
      BY <2>1, <2>4
  <1> HIDE DEF F
  <1>4. F \in Injection(1..n, 1..n)
    BY <1>2, <1>3, Fun_IsInj
  <1>5. F \in Surjection(1..n, 1..n)
    BY <1>1, <1>4, FS_Injection
  <1>6. \E i \in 1..n : F[i] = p
    BY <1>5 DEF Surjection
  <1>7. QED
    BY <1>6 DEF F

\* Sorting loses no entry, and the most severe ones come first.
LEMMA SortedEntries ==
  ASSUME entries \in Seq(Entry)
  PROVE  /\ Sorted \in Seq(Entry) /\ Len(Sorted) = Len(entries)
         /\ \A i \in 1..Len(entries) : Place(i) \in 1..Len(entries) /\ Sorted[Place(i)] = entries[i]
         /\ \A p \in 1..Len(entries) : \E i \in 1..Len(entries) : Sorted[p] = entries[i]
         /\ \A p, q \in 1..Len(entries) : p <= q => Sorted[p].sev <= Sorted[q].sev
  <1> DEFINE n == Len(entries)
             at(p) == CHOOSE i \in 1..n : Place(i) = p
  <1>1. n \in Nat
    OBVIOUS
  <1>2. ASSUME NEW p \in 1..n
        PROVE  at(p) \in 1..n /\ Place(at(p)) = p /\ Sorted[p] = entries[at(p)]
    BY <1>2, EveryPlaceTaken DEF Sorted
  <1>3. Sorted = [p \in 1..n |-> entries[at(p)]]
    BY DEF Sorted
  <1> HIDE DEF at
  <1>4. ASSUME NEW p \in 1..n PROVE Sorted[p] \in Entry
    BY <1>2
  <1>5. Sorted \in [1..n -> Entry]
    BY <1>2, <1>3, <1>4
  <1>6. Sorted \in Seq(Entry) /\ Len(Sorted) = n
    BY <1>1, <1>5
  <1>7. ASSUME NEW i \in 1..n PROVE Place(i) \in 1..n /\ Sorted[Place(i)] = entries[i]
    <2>1. Place(i) \in 1..n
      BY PlacesOrdered
    <2>2. PICK k \in 1..n : Place(k) = Place(i) /\ Sorted[Place(i)] = entries[k]
      BY <1>2, <2>1
    <2>3. k = i
      <3> SUFFICES ASSUME k # i PROVE FALSE
        OBVIOUS
      <3>1. Place(i) < Place(k) \/ Place(k) < Place(i)
        BY OneComesFirst, PlacesOrdered
      <3>2. QED
        BY <2>1, <2>2, <3>1
    <2>4. QED
      BY <2>1, <2>2, <2>3
  <1>8. ASSUME NEW p \in 1..n, NEW q \in 1..n, p <= q PROVE Sorted[p].sev <= Sorted[q].sev
    <2>1. PICK i \in 1..n, j \in 1..n : /\ Place(i) = p /\ Sorted[p] = entries[i]
                                        /\ Place(j) = q /\ Sorted[q] = entries[j]
      BY <1>2
    <2>2. i \in Upto(j)
      <3> SUFFICES ASSUME i \notin Upto(j) PROVE FALSE
        OBVIOUS
      <3>1. j \in Upto(i) /\ i # j
        BY OneComesFirst
      <3>2. Place(j) < Place(i)
        BY <3>1, PlacesOrdered
      <3>3. QED
        BY <1>8, <2>1, <3>2
    <2>3. QED
      BY <2>1, <2>2, OneComesFirst
  <1>9. \A p \in 1..n : \E i \in 1..n : Sorted[p] = entries[i]
    BY <1>2
  <1>10. QED
    BY <1>6, <1>7, <1>8, <1>9

-----------------------------------------------------------------------------
(* Types.                                                                  *)

USE PathAssumption

\* A hunk read so far is a record of numbers of lines.
LEMMA HunkFields ==
  ASSUME hunks \in Seq(Hunk), NEW i \in 1..Len(hunks)
  PROVE  /\ hunks[i] \in Hunk /\ hunks[i].file \in Path
         /\ hunks[i].modified \in SUBSET Nat /\ hunks[i].context \in SUBSET Nat
  <1>1. hunks[i] \in Hunk
    OBVIOUS
  <1>2. QED
    BY <1>1 DEF Hunk

\* Reading a line of the diff keeps the types of the parser.
LEMMA ParseTypes ==
  ASSUME MappingTypeOK, ParseLine
  PROVE  MappingTypeOK'
  <1>1. /\ diff \in Seq(DiffLine) /\ parsed \in 0..Len(diff) /\ path \in Path \cup {0}
        /\ hunks \in Seq(Hunk) /\ open \in BOOLEAN /\ newLine \in Nat /\ position \in Seq(Position)
        /\ open => hunks # <<>> /\ hunks[Len(hunks)].file = path
    BY DEF MappingTypeOK
  <1>2. /\ parsed < Len(diff) /\ parsed' = parsed + 1 /\ diff' = diff /\ position' = position
    BY DEF ParseLine, ReadNewHeader, ReadOldHeader, ReadHunkHeader, ReadHunkLine, Reading
  <1>3. parsed' \in 0..Len(diff) /\ parsed + 1 \in 1..Len(diff)
    BY <1>1, <1>2
  <1>4. Line.name \in Path \cup {0} /\ Line.no \in Nat /\ NameRead[Line.name] \in Path \cup {0}
    <2>1. Line \in DiffLine
      BY <1>1, <1>3 DEF Line
    <2>2. Line.name \in Path \cup {0} /\ Line.no \in Nat
      BY <2>1 DEF DiffLine
    <2>3. QED
      BY <2>2
  <1>5. SUFFICES /\ path' \in Path \cup {0} /\ hunks' \in Seq(Hunk) /\ open' \in BOOLEAN
                 /\ newLine' \in Nat
                 /\ open' => hunks' # <<>> /\ hunks'[Len(hunks')].file = path'
    BY <1>1, <1>2, <1>3 DEF MappingTypeOK
  <1>6. CASE ReadNewHeader
    BY <1>1, <1>4, <1>6 DEF ReadNewHeader
  <1>7. CASE ReadOldHeader
    BY <1>1, <1>7 DEF ReadOldHeader
  <1>8. CASE ReadHunkHeader
    <2>1. CASE path = 0
      BY <1>1, <1>8, <2>1 DEF ReadHunkHeader
    <2>2. CASE path # 0
      <3> DEFINE h == [file |-> path, modified |-> {}, context |-> {}]
      <3>1. h \in Hunk /\ h.file = path
        BY <1>1, <2>2 DEF Hunk
      <3>2. hunks' = Append(hunks, h) /\ open' = TRUE /\ newLine' = Line.no /\ path' = path
        BY <1>8, <2>2 DEF ReadHunkHeader
      <3> HIDE DEF h
      <3>3. hunks' \in Seq(Hunk) /\ hunks' # <<>> /\ hunks'[Len(hunks')] = h
        BY <1>1, <3>1, <3>2
      <3>4. QED
        BY <1>1, <1>4, <3>1, <3>2, <3>3
    <2>3. QED
      BY <2>1, <2>2
  <1>9. CASE ReadHunkLine
    <2> DEFINE n == Len(hunks)
    <2>1. UNCHANGED <<path, open>>
      BY <1>9 DEF ReadHunkLine
    <2>2. CASE UNCHANGED <<hunks, newLine>>
      BY <1>1, <2>1, <2>2
    <2>3. CASE open /\ \E S \in SUBSET Nat :
                 /\ \/ hunks' = [hunks EXCEPT ![n].modified = S]
                    \/ hunks' = [hunks EXCEPT ![n].context = S]
                 /\ newLine' = newLine + 1
      <3>1. PICK S \in SUBSET Nat :
               \/ hunks' = [hunks EXCEPT ![n].modified = S]
               \/ hunks' = [hunks EXCEPT ![n].context = S]
        BY <2>3
      <3>2. n \in 1..n
        BY <1>1, <2>3
      <3>3. PICK h \in Hunk : hunks' = [hunks EXCEPT ![n] = h] /\ h.file = hunks[n].file
        <4>0. hunks[n] \in Hunk
          BY <1>1, <3>2
        <4>1. /\ [hunks[n] EXCEPT !.modified = S] \in Hunk /\ [hunks[n] EXCEPT !.context = S] \in Hunk
              /\ [hunks[n] EXCEPT !.modified = S].file = hunks[n].file
              /\ [hunks[n] EXCEPT !.context = S].file = hunks[n].file
          BY <4>0 DEF Hunk
        <4>2. QED
          BY <3>1, <4>1
      <3>4. hunks' \in Seq(Hunk) /\ Len(hunks') = n /\ hunks'[n] = h /\ hunks' # <<>>
        BY <1>1, <3>2, <3>3
      <3>5. newLine' \in Nat
        BY <1>1, <2>3
      <3>6. QED
        BY <1>1, <2>1, <2>3, <3>3, <3>4, <3>5
    <2>4. open => n \in 1..n /\ hunks[n].modified \in SUBSET Nat /\ hunks[n].context \in SUBSET Nat
      <3>1. open => n \in 1..n
        BY <1>1
      <3>2. QED
        BY <1>1, <3>1, HunkFields
    <2>5. CASE open /\ Line.kind = "add" /\ newLine' = newLine + 1
               /\ hunks' = [hunks EXCEPT ![n].modified = @ \cup {newLine}]
      <3>1. hunks[n].modified \cup {newLine} \in SUBSET Nat
        BY <1>1, <2>4, <2>5
      <3>2. hunks' = [hunks EXCEPT ![n].modified = hunks[n].modified \cup {newLine}]
        BY <2>5
      <3>3. QED
        BY <2>3, <2>5, <3>1, <3>2
    <2>6. CASE open /\ Line.kind = "context" /\ newLine' = newLine + 1
               /\ hunks' = [hunks EXCEPT ![n].context = @ \cup {newLine}]
      <3>1. hunks[n].context \cup {newLine} \in SUBSET Nat
        BY <1>1, <2>4, <2>6
      <3>2. hunks' = [hunks EXCEPT ![n].context = hunks[n].context \cup {newLine}]
        BY <2>6
      <3>3. QED
        BY <2>3, <2>6, <3>1, <3>2
    <2>7. QED
      BY <1>9, <2>2, <2>5, <2>6 DEF ReadHunkLine
  <1>10. QED
    BY <1>6, <1>7, <1>8, <1>9 DEF ParseLine

\* The first hunk a finding touches exists.
LEMMA FirstTouchedExists ==
  ASSUME hunks \in Seq(Hunk), NEW f, Touched(f) # {}
  PROVE  \E i \in Touched(f) : /\ FirstTouched(f) = hunks[i] /\ i \in 1..Len(hunks)
                               /\ \A j \in Touched(f) : i <= j
  <1>1. Touched(f) \in SUBSET Nat /\ Touched(f) \subseteq 1..Len(hunks)
    BY DEF Touched
  <1>2. \E i \in Touched(f) : \A j \in Touched(f) : i <= j
    BY <1>1, Smallest
  <1>3. QED
    BY <1>1, <1>2 DEF FirstTouched

\* A finding gets a position.
LEMMA PositionTypes ==
  ASSUME hunks \in Seq(Hunk), NEW f \in Entry, NEW p \in Positions(f)
  PROVE  p \in Position
  <1>1. f.line \in Nat /\ f.end \in Nat /\ Outside \in Position
    BY DEF Entry, Outside, Position
  <1>2. CASE Touched(f) = {}
    BY <1>1, <1>2 DEF Positions
  <1>3. CASE Touched(f) # {}
    <2>1. PICK h \in Hunk : h = FirstTouched(f)
      BY <1>3, FirstTouchedExists, HunkFields
    <2>2. h.modified \in SUBSET Nat
      BY <2>1 DEF Hunk
    <2>3. \A n \in Nearest(h.modified, f.end) : n \in Nat
      BY <2>2 DEF Nearest
    <2>4. \A l, s \in Nat : [line |-> l, start |-> s] \in Position
      BY DEF Position
    <2>5. CASE f.end \in h.modified
      BY <1>1, <1>3, <2>1, <2>4, <2>5 DEF Positions
    <2>6. CASE f.end \in h.context \ h.modified
      BY <1>1, <1>3, <2>1, <2>3, <2>4, <2>6 DEF Positions
    <2>7. CASE f.end \notin All(h)
      BY <1>1, <1>3, <2>1, <2>4, <2>7 DEF Positions, All
    <2>8. QED
      BY <2>5, <2>6, <2>7 DEF All
  <1>4. QED
    BY <1>2, <1>3

-----------------------------------------------------------------------------
(* The review.                                                             *)

\* Before the ranking there is no ranking.
Unranked == stage = "dedup" => kept = <<>> /\ dropped = <<>> /\ payload = Nothing

\* Entry e is in the review, or was dropped.
Retained(e) ==
    \/ \E k \in 1..Len(kept) : Spot(kept[k]) = Spot(e) /\ kept[k].sev = e.sev
    \/ \E j \in 1..Len(dropped) : Spot(dropped[j]) = Spot(e)

\* Once ranked, every finding has been read and every entry has its place.
Ranked ==
    stage \in {"tier2", "map", "post", "posted"} =>
       /\ read = Len(raw)
       /\ \A i \in 1..Len(entries) : Retained(entries[i])

\* The payload has every finding that was kept, and the review those of the
\* payload, with or without the comments.
Composed ==
    /\ stage \in {"post", "posted"} => payload.comments \cup payload.body = Indices
    /\ stage = "posted" => review.body = payload.body

RankInv == TypeOK /\ Unranked /\ Ranked /\ Composed

\* An element of a sequence over S is in S.
LEMMA Element ==
  ASSUME NEW S, NEW s \in Seq(S), NEW k \in 1..Len(s)
  PROVE  s[k] \in S
  OBVIOUS

\* The answer of the larger model changes nothing but confidences, and those
\* only upwards and of doubtful entries.
LEMMA EscalatedEntry ==
  ASSUME NEW e \in Entry, NEW answer \in Answers
  PROVE  LET x == Escalated(e, answer)
         IN  /\ x \in Entry /\ Spot(x) = Spot(e) /\ x.sev = e.sev
             /\ \/ x = e
                \/ Doubtful(e) /\ \E c \in Confidence : c > e.conf /\ x = [e EXCEPT !.conf = c]
  <1>1. CASE ~ (Doubtful(e) /\ Confirmations(e, answer) # {})
    BY <1>1 DEF Escalated
  <1>2. CASE Doubtful(e) /\ Confirmations(e, answer) # {}
    <2> DEFINE S == Confirmations(e, answer)
               a == answer[Last(S)].conf
    <2>1. answer \in Seq([file : File, cat : RawCategory, conf : Confidence])
      OBVIOUS
    <2>2. S \in SUBSET (0..Len(answer)) /\ S \subseteq 1..Len(answer) /\ S # {} /\ Len(answer) \in Nat
      <3>1. Len(answer) \in Nat
        BY <2>1
      <3>2. S \subseteq 1..Len(answer)
        BY DEF Confirmations
      <3>3. QED
        BY <1>2, <3>1, <3>2
    <2>3. \E x \in S : \A y \in S : y <= x
      BY <2>2, Largest
    <2>4. Last(S) \in 1..Len(answer)
      BY <2>2, <2>3 DEF Last
    <2>5. a \in Confidence
      <3>1. PICK k \in 1..Len(answer) : k = Last(S)
        BY <2>4
      <3>2. answer[k] \in [file : File, cat : RawCategory, conf : Confidence]
        BY <2>1, Element
      <3>3. QED
        BY <3>1, <3>2
    <2>6. Escalated(e, answer) = [e EXCEPT !.conf = Higher(e.conf, a)]
      BY <1>2 DEF Escalated
    <2> HIDE DEF a
    <2>7. e.conf \in Confidence
      BY DEF Entry
    <2>8. PICK c \in Confidence : /\ c = Higher(e.conf, a) /\ (c = e.conf \/ c > e.conf)
      BY <2>5, <2>7 DEF Higher, Confidence
    <2>9. Escalated(e, answer) = [e EXCEPT !.conf = c]
      BY <2>6, <2>8
    <2>10. /\ [e EXCEPT !.conf = c] \in Entry /\ Spot([e EXCEPT !.conf = c]) = Spot(e)
           /\ [e EXCEPT !.conf = c].sev = e.sev
      BY DEF Entry, Spot
    <2>11. c = e.conf => [e EXCEPT !.conf = c] = e
      BY DEF Entry
    <2>12. QED
      BY <1>2, <2>8, <2>9, <2>10, <2>11
  <1>3. QED
    BY <1>1, <1>2

\* What the answer does to the findings that were kept.
LEMMA AnswerEffect ==
  ASSUME TypeOK, Tier2Answers
  PROVE  /\ kept' \in Seq(Entry) /\ Len(kept') = Len(kept)
         /\ \A i \in Indices :
              /\ Spot(kept'[i]) = Spot(kept[i]) /\ kept'[i].sev = kept[i].sev
              /\ \/ kept'[i] = kept[i]
                 \/ Doubtful(kept[i]) /\ \E c \in Confidence :
                      c > kept[i].conf /\ kept'[i] = [kept[i] EXCEPT !.conf = c]
  <1>1. kept \in Seq(Entry) /\ Len(kept) \in Nat
    BY DEF TypeOK, DedupTypeOK
  <1>2. PICK answer \in Answers : kept' = [i \in 1..Len(kept) |-> Escalated(kept[i], answer)]
    BY DEF Tier2Answers, Indices
  <1>3. \A i \in 1..Len(kept) : kept[i] \in Entry
    BY <1>1
  <1>4. kept' \in [1..Len(kept) -> Entry]
    BY <1>2, <1>3, EscalatedEntry
  <1>5. kept' \in Seq(Entry) /\ Len(kept') = Len(kept)
    BY <1>1, <1>4
  <1>6. QED
    BY <1>2, <1>3, <1>5, EscalatedEntry DEF Indices

\* What the ranking makes of the entries.
LEMMA RankEffect ==
  ASSUME entries \in Seq(Entry), SortAndTruncate
  PROVE  /\ kept' \in Seq(Entry) /\ dropped' \in Seq(Entry)
         /\ Len(kept') = Lower(MaxFindings, Len(entries))
         /\ Len(kept') + Len(dropped') = Len(entries)
         /\ \A i \in 1..Len(kept'), j \in 1..Len(dropped') : kept'[i].sev <= dropped'[j].sev
         /\ \A i \in 1..Len(entries) : Retained(entries[i])'
         /\ \A k \in 1..Len(kept') : \E i \in 1..Len(entries) : kept'[k] = entries[i]
  <1> DEFINE n == Len(entries)
             m == Lower(MaxFindings, n)
  <1>1. /\ n \in Nat /\ m \in Nat /\ m <= n /\ m <= MaxFindings /\ m \in {n, MaxFindings}
        /\ MaxFindings \in Nat
    BY DEF Lower
  <1>2. /\ Sorted \in Seq(Entry) /\ Len(Sorted) = n
        /\ \A i \in 1..n : Place(i) \in 1..n /\ Sorted[Place(i)] = entries[i]
        /\ \A p, q \in 1..n : p <= q => Sorted[p].sev <= Sorted[q].sev
    BY SortedEntries
  <1>3. /\ kept' = SubSeq(Sorted, 1, m) /\ dropped' = SubSeq(Sorted, MaxFindings + 1, n)
        /\ entries' = entries
    BY DEF SortAndTruncate
  <1> HIDE DEF m
  <1>4. kept' \in Seq(Entry) /\ Len(kept') = m /\ \A i \in 1..m : kept'[i] = Sorted[i]
    BY <1>1, <1>2, <1>3
  <1>5. dropped' \in Seq(Entry) /\ Len(dropped') = n - m
        /\ \A j \in 1..(n - m) : dropped'[j] = Sorted[m + j] /\ m + j \in 1..n
    <2>1. CASE m = MaxFindings
      BY <1>1, <1>2, <1>3, <2>1
    <2>2. CASE m = n /\ m # MaxFindings
      BY <1>1, <1>2, <1>3, <2>2
    <2>3. QED
      BY <1>1, <2>1, <2>2
  <1>6. ASSUME NEW i \in 1..Len(kept'), NEW j \in 1..Len(dropped')
        PROVE  kept'[i].sev <= dropped'[j].sev
    <2>1. i \in 1..n /\ m + j \in 1..n /\ i <= m + j
      BY <1>1, <1>4, <1>5
    <2>2. QED
      BY <1>2, <1>4, <1>5, <2>1
  <1>7. ASSUME NEW i \in 1..n PROVE Retained(entries[i])'
    <2>1. PICK p \in 1..n : Sorted[p] = entries[i]
      BY <1>2
    <2>2. CASE p <= m
      <3>1. p \in 1..Len(kept') /\ kept'[p] = entries[i]
        BY <1>1, <1>4, <2>1, <2>2
      <3>2. QED
        BY <1>3, <3>1 DEF Retained, Spot
    <2>3. CASE p > m
      <3>1. p - m \in 1..Len(dropped') /\ dropped'[p - m] = entries[i]
        <4>1. p - m \in 1..(n - m) /\ m + (p - m) = p
          BY <1>1, <2>3
        <4>2. QED
          BY <1>5, <2>1, <4>1
      <3>2. QED
        BY <1>3, <3>1 DEF Retained, Spot
    <2>4. QED
      BY <1>1, <2>2, <2>3
  <1>8. Len(kept') + Len(dropped') = n
    BY <1>1, <1>4, <1>5
  <1>9. Len(kept') = Lower(MaxFindings, n)
    BY <1>4 DEF m
  <1>10. ASSUME NEW k \in 1..Len(kept') PROVE \E i \in 1..n : kept'[k] = entries[i]
    <2>1. k \in 1..m /\ k \in 1..n
      BY <1>1, <1>4
    <2>2. PICK i \in 1..n : Sorted[k] = entries[i]
      BY <2>1, SortedEntries
    <2>3. QED
      BY <1>4, <2>1, <2>2
  <1>11. QED
    BY <1>4, <1>5, <1>6, <1>7, <1>8, <1>9, <1>10

\* A turn of the deduplication keeps the types.
LEMMA DedupTypes ==
  ASSUME DedupTypeOK, DedupInv', DedupFinding
  PROVE  DedupTypeOK'
  <1>1. /\ read \in 0..Len(raw) /\ entries \in Seq(Entry) /\ merged \in Nat
        /\ kept \in Seq(Entry) /\ dropped \in Seq(Entry) /\ Len(kept) <= MaxFindings
        /\ Len(entries) + merged = read
    BY DEF DedupTypeOK
  <1>2. UNCHANGED <<kept, dropped>> /\ read' = read + 1
    BY DEF DedupFinding
  <1>3. raw' \in Seq(Finding) /\ read' \in 0..Len(raw') /\ entries' \in Seq(Entry)
    BY DEF DedupInv, MapOK
  <1>4. merged' \in Nat /\ Len(entries') + merged' = read'
    <2>1. CASE entries' = Append(entries, NewEntry(raw[read + 1])) /\ UNCHANGED merged
      <3>1. Len(entries') = Len(entries) + 1
        BY <1>1, <2>1
      <3>2. QED
        BY <1>1, <1>2, <2>1, <3>1
    <2>2. CASE merged' = merged + 1 /\ \E i \in Matches(raw[read + 1]) :
                 entries' = [entries EXCEPT ![i] = Merged(entries[i], raw[read + 1])]
      <3>1. Len(entries') = Len(entries)
        BY <1>1, <1>3, <2>2
      <3>2. QED
        BY <1>1, <1>2, <2>2, <3>1
    <2>3. QED
      BY <2>1, <2>2 DEF DedupFinding
  <1>5. QED
    BY <1>1, <1>2, <1>3, <1>4 DEF DedupTypeOK

\* Every step keeps the ranking and what the review tells of it.
LEMMA RankStep ==
  ASSUME DedupInv, DedupInv', RankInv, [Next]_vars
  PROVE  RankInv'
  <1> USE DEF RankInv
  <1>1. /\ DedupTypeOK /\ MappingTypeOK
        /\ stage \in {"dedup", "tier2", "map", "post", "posted", "raised"}
        /\ calls \in 0..MaxCalls /\ payload \in Parts /\ review \in Parts
        /\ Len(position) <= Len(kept)
        /\ entries \in Seq(Entry) /\ kept \in Seq(Entry) /\ dropped \in Seq(Entry)
        /\ position \in Seq(Position) /\ hunks \in Seq(Hunk)
    BY DEF TypeOK, DedupTypeOK, MappingTypeOK
  <1>2. CASE Deduplicate
    <2>1. stage = "dedup" /\ DedupFinding /\ UNCHANGED <<mappingVars, stage, calls, payload, review>>
      BY <1>2 DEF Deduplicate
    <2>2. UNCHANGED <<kept, dropped>>
      BY <2>1 DEF DedupFinding
    <2>3. DedupTypeOK'
      BY <1>1, <2>1, DedupTypes
    <2>4. TypeOK'
      BY <1>1, <2>1, <2>2, <2>3 DEF TypeOK, MappingTypeOK, mappingVars
    <2>5. QED
      BY <2>1, <2>2, <2>4 DEF Unranked, Ranked, Composed
  <1>3. CASE Rank
    <2>1. /\ stage = "dedup" /\ SortAndTruncate /\ UNCHANGED <<mappingVars, calls, payload, review>>
          /\ stage' \in {"tier2", "map"} /\ UNCHANGED <<raw, read, entries, merged>>
          /\ read = Len(raw)
      BY <1>3 DEF Rank, SortAndTruncate
    <2>2. /\ kept' \in Seq(Entry) /\ dropped' \in Seq(Entry)
          /\ Len(kept') = Lower(MaxFindings, Len(entries))
          /\ \A i \in 1..Len(entries) : Retained(entries[i])'
      BY <1>1, <2>1, RankEffect
    <2>3. Len(kept') <= MaxFindings
      BY <2>2 DEF Lower
    <2>4. Len(position) = 0
      <3>1. kept = <<>>
        BY <2>1 DEF Unranked
      <3>2. QED
        BY <1>1, <3>1
    <2>5. DedupTypeOK'
      BY <1>1, <2>1, <2>2, <2>3 DEF DedupTypeOK
    <2>6. TypeOK'
      <3>1. position' = position /\ Len(kept') \in Nat
        BY <2>1, <2>2 DEF mappingVars
      <3>2. MappingTypeOK'
        BY <1>1, <2>1 DEF MappingTypeOK, mappingVars
      <3>3. QED
        BY <1>1, <2>1, <2>4, <2>5, <3>1, <3>2 DEF TypeOK
    <2>7. QED
      BY <2>1, <2>2, <2>6 DEF Unranked, Ranked, Composed
  <1>4. CASE Tier2Answers
    <2>1. /\ stage = "tier2" /\ calls < MaxCalls /\ calls' = calls + 1 /\ stage' = "map"
          /\ UNCHANGED <<raw, read, entries, merged, dropped, mappingVars, payload, review>>
      BY <1>4 DEF Tier2Answers
    <2>2. /\ kept' \in Seq(Entry) /\ Len(kept') = Len(kept)
          /\ \A i \in Indices : Spot(kept'[i]) = Spot(kept[i]) /\ kept'[i].sev = kept[i].sev
      BY <1>4, AnswerEffect
    <2>3. DedupTypeOK'
      BY <1>1, <2>1, <2>2 DEF DedupTypeOK
    <2>4. calls' \in 0..MaxCalls
      BY <1>1, <2>1
    <2>5. TypeOK'
      BY <1>1, <2>1, <2>2, <2>3, <2>4 DEF TypeOK, MappingTypeOK, mappingVars
    <2>6. ASSUME NEW i \in 1..Len(entries) PROVE Retained(entries[i])'
      BY <2>1, <2>2 DEF Ranked, Retained, Indices, Spot
    <2>7. QED
      BY <2>1, <2>5, <2>6 DEF Unranked, Ranked, Composed
  <1>5. CASE (Tier2Invalid \/ Tier2Fails)
    <2>1. /\ stage = "tier2" /\ calls < MaxCalls /\ calls' = calls + 1 /\ stage' \in {"tier2", "map"}
          /\ UNCHANGED <<dedupVars, mappingVars, payload, review>>
      BY <1>5 DEF Tier2Invalid, Tier2Fails
    <2>2. calls' \in 0..MaxCalls
      BY <1>1, <2>1
    <2>3. TypeOK'
      BY <1>1, <2>1, <2>2 DEF TypeOK, DedupTypeOK, MappingTypeOK, dedupVars, mappingVars
    <2>4. QED
      BY <2>1, <2>3 DEF Unranked, Ranked, Retained, Composed, Spot, dedupVars
  <1>6. CASE Parse
    <2>1. /\ stage = "map" /\ ParseLine /\ UNCHANGED <<dedupVars, stage, calls, payload, review>>
          /\ UNCHANGED position
      BY <1>6 DEF Parse, ParseLine, ReadNewHeader, ReadOldHeader, ReadHunkHeader, ReadHunkLine
    <2>2. MappingTypeOK'
      BY <1>1, <2>1, ParseTypes
    <2>3. TypeOK'
      BY <1>1, <2>1, <2>2 DEF TypeOK, DedupTypeOK, dedupVars
    <2>4. QED
      BY <2>1, <2>3 DEF Unranked, Ranked, Retained, Composed, Spot, dedupVars
  <1>7. CASE Map
    <2>1. /\ stage = "map" /\ Len(position) < Len(kept)
          /\ UNCHANGED <<dedupVars, stage, calls, payload, review>>
          /\ UNCHANGED <<diff, parsed, path, hunks, open, newLine>>
          /\ \E p \in Positions(kept[Len(position) + 1]) : position' = Append(position, p)
      BY <1>7 DEF Map, MapFinding
    <2>2. kept[Len(position) + 1] \in Entry
      BY <1>1, <2>1
    <2>3. PICK p \in Position : position' = Append(position, p)
      BY <1>1, <2>1, <2>2, PositionTypes
    <2>4. position' \in Seq(Position) /\ Len(position') <= Len(kept)
      BY <1>1, <2>1, <2>3
    <2>5. MappingTypeOK'
      BY <1>1, <2>1, <2>4 DEF MappingTypeOK
    <2>6. TypeOK'
      BY <1>1, <2>1, <2>4, <2>5 DEF TypeOK, DedupTypeOK, dedupVars
    <2>7. QED
      BY <2>1, <2>6 DEF Unranked, Ranked, Retained, Composed, Spot, dedupVars
  <1>8. CASE Compose
    <2>1. /\ stage = "map" /\ stage' = "post" /\ UNCHANGED <<dedupVars, mappingVars, calls, review>>
          /\ payload' = [comments |-> {i \in Indices : position[i].line # 0}, body |-> Unmapped]
      BY <1>8 DEF Compose
    <2>2. payload' \in Parts /\ payload'.comments \cup payload'.body = Indices
      <3>1. Indices \subseteq Nat
        BY DEF Indices
      <3>2. QED
        BY <2>1, <3>1 DEF Parts, Unmapped
    <2>3. TypeOK'
      BY <1>1, <2>1, <2>2 DEF TypeOK, DedupTypeOK, MappingTypeOK, dedupVars, mappingVars
    <2>4. QED
      BY <2>1, <2>2, <2>3 DEF Unranked, Ranked, Retained, Composed, Spot, dedupVars, Indices
  <1>9. CASE (TimeLimit \/ PostFails)
    <2>1. stage' = "raised" /\ UNCHANGED <<dedupVars, mappingVars, calls, payload, review>>
      BY <1>9 DEF TimeLimit, PostFails
    <2>2. TypeOK'
      BY <1>1, <2>1 DEF TypeOK, DedupTypeOK, MappingTypeOK, dedupVars, mappingVars
    <2>3. QED
      BY <2>1, <2>2 DEF Unranked, Ranked, Composed
  <1>10. CASE (PostReview \/ PostSummaryOnly)
    <2>1. /\ stage = "post" /\ stage' = "posted" /\ UNCHANGED <<dedupVars, mappingVars, calls, payload>>
          /\ review' = payload \/ review' = [payload EXCEPT !.comments = {}]
      BY <1>10 DEF PostReview, PostSummaryOnly
    <2>2. review' \in Parts /\ review'.body = payload.body
      BY <1>1, <2>1 DEF Parts
    <2>3. TypeOK'
      BY <1>1, <2>1, <2>2 DEF TypeOK, DedupTypeOK, MappingTypeOK, dedupVars, mappingVars
    <2>4. QED
      BY <2>1, <2>2, <2>3 DEF Unranked, Ranked, Retained, Composed, Spot, dedupVars, Indices
  <1>11. CASE UNCHANGED vars
    <2>1. TypeOK'
      BY <1>1, <1>11 DEF vars, TypeOK, DedupTypeOK, MappingTypeOK, dedupVars, mappingVars
    <2>2. QED
      BY <1>11, <2>1 DEF vars, Unranked, Ranked, Retained, Composed, Spot, dedupVars, Indices
  <1>12. QED
    BY <1>2, <1>3, <1>4, <1>5, <1>6, <1>7, <1>8, <1>9, <1>10, <1>11 DEF Next, AnalyzeLlm

\* Before the first finding is read there is nothing to rank.
LEMMA RankInitial == Init => DedupInv /\ RankInv
  <1> SUFFICES ASSUME Init PROVE DedupInv /\ RankInv
    OBVIOUS
  <1>1. PICK in \in Inputs : raw = in.raw /\ diff = in.diff
    BY DEF Init
  <1>2. raw \in Seq(Finding) /\ diff \in Seq(DiffLine)
    BY <1>1
  <1>3. /\ read = 0 /\ entries = <<>> /\ merged = 0 /\ kept = <<>> /\ dropped = <<>>
        /\ parsed = 0 /\ path = 0 /\ hunks = <<>> /\ open = FALSE /\ newLine = 0
        /\ position = <<>> /\ stage = "dedup" /\ calls = 0 /\ payload = Nothing /\ review = Nothing
    BY DEF Init, DedupInit, MappingInit
  <1>4. Len(raw) \in Nat /\ Len(diff) \in Nat
    BY <1>2
  <1>5. DedupInv
    BY <1>2, <1>3, <1>4 DEF DedupInv, MapOK, KeysApart, SeverityPreserved
  <1>6. DedupTypeOK /\ MappingTypeOK
    <2>1. /\ entries \in Seq(Entry) /\ kept \in Seq(Entry) /\ dropped \in Seq(Entry)
          /\ Len(entries) = 0 /\ Len(kept) = 0
      BY <1>3
    <2>2. DedupTypeOK
      BY <1>2, <1>3, <1>4, <2>1 DEF DedupTypeOK
    <2>3. hunks \in Seq(Hunk) /\ position \in Seq(Position)
      BY <1>3
    <2>4. MappingTypeOK
      <3>1. parsed \in 0..Len(diff) /\ newLine \in Nat /\ path \in Path \cup {0}
        BY <1>3, <1>4
      <3>2. open \in BOOLEAN /\ ~ open
        BY <1>3
      <3>3. QED
        BY <1>2, <2>3, <3>1, <3>2, Zenon DEF MappingTypeOK
    <2>5. QED
      BY <2>2, <2>4
  <1>7. TypeOK
    BY <1>3, <1>6 DEF TypeOK, Nothing, Parts
  <1>8. QED
    BY <1>3, <1>5, <1>7 DEF RankInv, Unranked, Ranked, Composed

\* The inductive invariant of the ranking.
THEOREM AggregationInvariant == Spec => [](DedupInv /\ RankInv)
  <1>1. DedupInv /\ RankInv /\ [Next]_vars => (DedupInv /\ RankInv)'
    BY DedupStep, RankStep
  <1>2. QED
    BY <1>1, RankInitial, PTL DEF Spec

\* Type correctness of the aggregation: the deduplication counts every finding
\* it has read as an entry or as merged, the parser's open hunk is one of the
\* file it is in, every position is one a comment can have.
THEOREM AggregationTypeOK == Spec => []TypeOK
  <1>1. DedupInv /\ RankInv => TypeOK
    BY DEF RankInv
  <1>2. QED
    BY <1>1, AggregationInvariant, PTL

\* Only the ranking and the larger model change the findings that were kept.
LEMMA SevereFirstStep ==
  ASSUME DedupInv, RankInv, SevereFirst, [Next]_vars
  PROVE  SevereFirst'
  <1>1. kept \in Seq(Entry) /\ dropped \in Seq(Entry) /\ entries \in Seq(Entry)
    BY DEF RankInv, TypeOK, DedupTypeOK
  <1>2. CASE UNCHANGED <<kept, dropped, entries>>
    BY <1>2 DEF SevereFirst
  <1>3. CASE Deduplicate
    <2>1. kept = <<>> /\ dropped = <<>> /\ UNCHANGED <<kept, dropped>>
      BY <1>3 DEF Deduplicate, DedupFinding, RankInv, Unranked
    <2>2. QED
      BY <2>1 DEF SevereFirst
  <1>4. CASE Rank
    <2>1. SortAndTruncate /\ UNCHANGED entries
      BY <1>4 DEF Rank, SortAndTruncate
    <2>2. /\ Len(kept') = Lower(MaxFindings, Len(entries))
          /\ Len(kept') + Len(dropped') = Len(entries)
          /\ \A i \in 1..Len(kept'), j \in 1..Len(dropped') : kept'[i].sev <= dropped'[j].sev
          /\ kept' \in Seq(Entry) /\ dropped' \in Seq(Entry)
      BY <1>1, <2>1, RankEffect
    <2>3. Len(dropped') > 0 => Len(kept') = MaxFindings
      <3>1. Len(kept') \in Nat /\ Len(dropped') \in Nat /\ Len(entries) \in Nat
        BY <1>1, <2>2
      <3>2. QED
        BY <2>2, <3>1 DEF Lower
    <2>4. QED
      BY <2>1, <2>2, <2>3 DEF SevereFirst
  <1>5. CASE Tier2Answers
    <2>1. /\ kept' \in Seq(Entry) /\ Len(kept') = Len(kept)
          /\ \A i \in Indices : kept'[i].sev = kept[i].sev
      BY <1>5, AnswerEffect DEF RankInv
    <2>2. UNCHANGED <<entries, dropped>>
      BY <1>5 DEF Tier2Answers
    <2>3. kept' # <<>> => kept # <<>>
      BY <1>1, <2>1
    <2>4. QED
      BY <2>1, <2>2, <2>3 DEF SevereFirst, Indices
  <1>6. CASE Tier2Invalid \/ Tier2Fails
    BY <1>2, <1>6 DEF Tier2Invalid, Tier2Fails, dedupVars
  <1>7. CASE Parse \/ Map \/ Compose \/ TimeLimit
    BY <1>2, <1>7 DEF Parse, Map, Compose, TimeLimit, dedupVars
  <1>8. CASE PostReview \/ PostSummaryOnly \/ PostFails \/ UNCHANGED vars
    BY <1>2, <1>8 DEF PostReview, PostSummaryOnly, PostFails, vars, dedupVars
  <1>9. QED
    BY <1>3, <1>4, <1>5, <1>6, <1>7, <1>8 DEF Next, AnalyzeLlm

\* For any findings and any limit of the review: nothing that is dropped is
\* more severe than anything kept, findings are dropped only from a full
\* review, and none is lost between the two. The sort is stable and a
\* permutation (SortedEntries), and the larger model never changes a severity.
THEOREM DedupSevereFirst == Spec => []SevereFirst
  <1>1. Init => SevereFirst
    BY DEF Init, DedupInit, SevereFirst
  <1>2. (DedupInv /\ RankInv) /\ SevereFirst /\ [Next]_vars => SevereFirst'
    BY SevereFirstStep
  <1>3. QED
    BY <1>1, <1>2, AggregationInvariant, PTL DEF Spec

\* Whatever the larger model answers, and when it fails, a finding that was
\* kept stays as it is, but for a doubtful critical one whose confidence rises.
THEOREM AggregationEscalationOnlyRaises == Spec => EscalationOnlyRaises
  <1> DEFINE Raises == kept # <<>> =>
                         /\ Len(kept') = Len(kept)
                         /\ \A i \in Indices :
                              \/ kept'[i] = kept[i]
                              \/ Doubtful(kept[i]) /\ \E c \in Confidence :
                                   c > kept[i].conf /\ kept'[i] = [kept[i] EXCEPT !.conf = c]
  <1>1. RankInv /\ [Next]_vars => [Raises]_vars
    <2> SUFFICES ASSUME RankInv, Next PROVE Raises
      OBVIOUS
    <2>1. CASE UNCHANGED kept
      BY <2>1
    <2>2. CASE Deduplicate
      BY <2>1, <2>2 DEF Deduplicate, DedupFinding
    <2>3. CASE Rank
      BY <2>3 DEF Rank, RankInv, Unranked
    <2>4. CASE Tier2Answers
      BY <2>4, AnswerEffect DEF RankInv
    <2>5. CASE Tier2Invalid \/ Tier2Fails \/ Parse \/ Map \/ Compose \/ TimeLimit
      BY <2>1, <2>5 DEF Tier2Invalid, Tier2Fails, Parse, Map, Compose, TimeLimit, dedupVars
    <2>6. CASE PostReview \/ PostSummaryOnly \/ PostFails
      BY <2>1, <2>6 DEF PostReview, PostSummaryOnly, PostFails, dedupVars
    <2>7. QED
      BY <2>2, <2>3, <2>4, <2>5, <2>6 DEF Next, AnalyzeLlm
  <1>2. Spec => [](DedupInv /\ RankInv) /\ [][Next]_vars
    BY AggregationInvariant DEF Spec
  <1> HIDE DEF Raises
  <1>3. Spec => [][Raises]_vars
    BY <1>1, <1>2, PTL
  <1>4. QED
    BY <1>3 DEF EscalationOnlyRaises, Raises

\* However many findings the engines report and whatever the larger model
\* answers: unless GitHub refuses the comments, the posted review tells of each
\* of them at its spot, at least as severe, or a finding of that spot was
\* dropped.
THEOREM AggregationEveryFindingReported == Spec => []EveryFindingReported
  <1>1. DedupInv /\ RankInv => EveryFindingReported
    <2> SUFFICES ASSUME DedupInv, RankInv, stage = "posted", review.comments = payload.comments,
                        NEW n \in 1..Len(raw)
                 PROVE  \/ \E i \in review.comments \cup review.body :
                             Spot(kept[i]) = Spot(raw[n]) /\ kept[i].sev <= raw[n].sev
                        \/ \E j \in 1..Len(dropped) : Spot(dropped[j]) = Spot(raw[n])
      BY DEF EveryFindingReported
    <2>1. /\ read = Len(raw) /\ \A i \in 1..Len(entries) : Retained(entries[i])
          /\ review.comments \cup review.body = Indices
      BY DEF RankInv, Ranked, Composed
    <2>2. PICK i \in 1..Len(entries) : Covers(entries[i], raw[n])
      BY <2>1 DEF DedupInv, SeverityPreserved
    <2>3. Spot(entries[i]) = Spot(raw[n]) /\ entries[i].sev <= raw[n].sev
      BY <2>2 DEF Covers
    <2>4. Retained(entries[i])
      BY <2>1
    <2>5. CASE \E k \in 1..Len(kept) : Spot(kept[k]) = Spot(entries[i]) /\ kept[k].sev = entries[i].sev
      BY <2>1, <2>3, <2>5 DEF Indices
    <2>6. CASE \E j \in 1..Len(dropped) : Spot(dropped[j]) = Spot(entries[i])
      BY <2>3, <2>6
    <2>7. QED
      BY <2>4, <2>5, <2>6 DEF Retained
  <1>2. QED
    BY <1>1, AggregationInvariant, PTL

-----------------------------------------------------------------------------
(* The diff.                                                               *)

\* What git promises of a diff: hunks come after the header of their file,
\* lines of files only in hunks, headers have names, and a hunk that shows
\* lines of the new file starts at line 1 or later.
WellFormed(d) ==
    /\ \A h \in 1..Len(d) : d[h].kind = "@@" => \E q \in 1..(h - 1) : d[q].kind = "+++"
    /\ \A p, q \in 1..Len(d) :
          p < q /\ d[p].kind \in {"+++", "---"} /\ d[q].kind \in NewLines =>
             \E r \in (p + 1)..(q - 1) : d[r].kind = "@@"
    /\ \A p \in 1..Len(d) : d[p].kind = "+++" => d[p].name # 0
    /\ \A h, q \in 1..Len(d) :
          /\ h < q /\ d[h].kind = "@@" /\ d[q].kind \in NewLines
          /\ \A r \in (h + 1)..(q - 1) : d[r].kind # "@@"
          => d[h].no > 0

\* The lines that name a file to the parser, and those that close a hunk.
Naming == {"+++", "added ++"}
Closing == {"@@", "+++", "---", "added ++", "deleted --"}

\* The file the parser is in is the last one named.
PathRead ==
    /\ \A q \in 1..parsed :
          diff[q].kind \in Naming /\ (\A r \in (q + 1)..parsed : diff[r].kind \notin Naming)
             => path = NameRead[diff[q].name]
    /\ (\A q \in 1..parsed : diff[q].kind \notin Naming) => path = 0

\* The hunk of header h is being read.
InHunk(h) == diff[h].kind = "@@" /\ \A r \in (h + 1)..parsed : diff[r].kind \notin Closing

\* Hunk i of the parser is that of header h as far as it has been read.
HunkRead(i, h) ==
    /\ hunks[i].modified \subseteq Added(h) /\ All(hunks[i]) \subseteq Shown(h)
    /\ NamesApart /\ hunks[i].file \in Owned => Owner(h) = hunks[i].file
    /\ Plain /\ WellFormed(diff) =>
          /\ hunks[i].file = NameRead[Owner(h)]
          /\ \A q \in BodyOf(h) :
                q <= parsed /\ diff[q].kind # "context" => Number(h, q) \in hunks[i].modified

\* The hunks of the parser are those of the headers hd, in the order of the
\* diff; one that is not closed is open, and goes on with the next number.
ReadAs(hd) ==
    /\ \A i \in 1..Len(hunks) : /\ hd[i] \in 1..parsed /\ diff[hd[i]].kind = "@@"
                                /\ HunkRead(i, hd[i])
                                /\ InHunk(hd[i]) => open /\ i = Len(hunks)
    /\ \A i, j \in 1..Len(hunks) : i < j => hd[i] < hd[j]
    /\ open => InHunk(hd[Len(hunks)]) /\ newLine = Number(hd[Len(hunks)], parsed + 1)
    /\ Plain /\ WellFormed(diff) =>
          \A h \in 1..parsed : diff[h].kind = "@@" /\ NameRead[Owner(h)] = Owner(h) =>
             \E i \in 1..Len(hunks) : hd[i] = h

ParserInv == PathRead /\ \E hd \in [1..Len(hunks) -> 1..parsed] : ReadAs(hd)

\* Last is the largest element, wherever there is one.
LEMMA LastIs ==
  ASSUME NEW S \in SUBSET Nat, NEW x \in S, \A y \in S : y <= x
  PROVE  Last(S) = x
  <1>1. \A z \in S : (\A y \in S : y <= z) => z = x
    OBVIOUS
  <1>2. QED
    BY <1>1 DEF Last

\* A set of lines that is not empty has a last one.
LEMMA LastIn ==
  ASSUME NEW n \in Nat, NEW S \in SUBSET (0..n), S # {}
  PROVE  Last(S) \in S /\ \A y \in S : y <= Last(S)
  <1>1. PICK x \in S : \A y \in S : y <= x
    BY Largest
  <1>2. S \in SUBSET Nat
    OBVIOUS
  <1>3. Last(S) = x
    BY <1>1, <1>2, LastIs
  <1>4. QED
    BY <1>1, <1>3

\* The diff is read, never changed: nor is what it says.
LEMMA DiffSame ==
  ASSUME diff' = diff
  PROVE  /\ \A h : BodyOf(h)' = BodyOf(h) /\ Owner(h)' = Owner(h)
         /\ \A h, p : Number(h, p)' = Number(h, p)
         /\ \A h : Shown(h)' = Shown(h) /\ Added(h)' = Added(h)
         /\ Plain' = Plain /\ NamesApart' = NamesApart /\ Owned' = Owned
  <1>1. \A k, p : Headers(k, p)' = Headers(k, p)
    BY DEF Headers
  <1>2. \A h : BodyOf(h)' = BodyOf(h)
    BY <1>1 DEF BodyOf
  <1>3. \A h : Owner(h)' = Owner(h)
    BY <1>1 DEF Owner
  <1>4. \A h, p : {q \in BodyOf(h) : q < p}' = {q \in BodyOf(h) : q < p}
    BY <1>2
  <1>5. \A h, p : Number(h, p)' = Number(h, p)
    BY <1>4 DEF Number
  <1>6. \A h : Shown(h)' = Shown(h)
    BY <1>2, <1>5 DEF Shown
  <1>7. \A h : Added(h)' = Added(h)
    BY <1>2, <1>5 DEF Added
  <1>8. Owned' = Owned
    BY DEF Owned
  <1>9. Plain' = Plain /\ NamesApart' = NamesApart
    BY <1>8 DEF Plain, NamesApart
  <1>10. QED
    BY <1>2, <1>3, <1>5, <1>6, <1>7, <1>8, <1>9

\* Lines of the body follow their header, with no other in between.
LEMMA BodyLine ==
  ASSUME diff \in Seq(DiffLine), NEW h \in 1..Len(diff), NEW p \in 1..Len(diff),
         diff[h].kind = "@@"
  PROVE  p \in BodyOf(h) <=>
            /\ h < p /\ diff[p].kind \in NewLines
            /\ \A r \in (h + 1)..(p - 1) : diff[r].kind # "@@"
  <1> DEFINE S == Headers("@@", p)
  <1>1. Len(diff) \in Nat /\ S \in SUBSET (0..Len(diff)) /\ S \in SUBSET Nat
    BY DEF Headers
  <1>2. ASSUME h < p, \A r \in (h + 1)..(p - 1) : diff[r].kind # "@@"
        PROVE  Last(S) = h
    <2>1. h \in S /\ \A y \in S : y <= h
      BY <1>2 DEF Headers
    <2>2. QED
      BY <1>1, <2>1, LastIs
  <1>3. ASSUME h < p, Last(S) = h, NEW r \in (h + 1)..(p - 1)
        PROVE  diff[r].kind # "@@"
    <2>1. h \in S
      BY <1>3 DEF Headers
    <2>2. \A y \in S : y <= h
      BY <1>1, <1>3, <2>1, LastIn
    <2>3. r \notin S
      BY <2>2
    <2>4. QED
      BY <1>1, <2>3 DEF Headers
  <1>4. p \in BodyOf(h) <=> h < p /\ diff[p].kind \in NewLines /\ Last(S) = h
    BY <1>1 DEF BodyOf
  <1>5. QED
    BY <1>2, <1>3, <1>4

\* Numbers count the lines of the body.
LEMMA NumberStep ==
  ASSUME diff \in Seq(DiffLine), NEW h \in 1..Len(diff), NEW p \in Nat
  PROVE  /\ Number(h, p) \in Nat
         /\ p \in BodyOf(h) => Number(h, p + 1) = Number(h, p) + 1
         /\ p \notin BodyOf(h) => Number(h, p + 1) = Number(h, p)
         /\ p <= h + 1 => Number(h, p) = diff[h].no
  <1> DEFINE S == {q \in BodyOf(h) : q < p}
             T == {q \in BodyOf(h) : q < p + 1}
  <1>1. S \in SUBSET (1..Len(diff)) /\ IsFiniteSet(1..Len(diff))
    BY FS_Interval DEF BodyOf
  <1>2. IsFiniteSet(S) /\ Cardinality(S) \in Nat
    BY <1>1, FS_Subset, FS_CardinalityType
  <1>3. diff[h] \in DiffLine
    OBVIOUS
  <1>4. diff[h].no \in Nat
    BY <1>3 DEF DiffLine
  <1>5. Number(h, p) = diff[h].no + Cardinality(S) /\ Number(h, p + 1) = diff[h].no + Cardinality(T)
    BY DEF Number
  <1>6. \A q \in BodyOf(h) : q \in Nat /\ q > h
    BY DEF BodyOf
  <1>7. p \in BodyOf(h) => T = S \cup {p} /\ p \notin S
    BY <1>6
  <1>8. p \notin BodyOf(h) => T = S
    BY <1>6
  <1> HIDE DEF S, T
  <1>9. p \in BodyOf(h) => Cardinality(T) = Cardinality(S) + 1
    BY <1>2, <1>7, FS_AddElement
  <1>10. p <= h + 1 => Cardinality(S) = 0
    <2>1. p <= h + 1 => S = {}
      BY <1>6 DEF S
    <2>2. QED
      BY <2>1, FS_EmptySet
  <1>11. QED
    BY <1>2, <1>4, <1>5, <1>8, <1>9, <1>10

\* The file the parser takes a hunk for.
LEMMA OwnerRead ==
  ASSUME MappingTypeOK, PathRead, NEW h, h = parsed + 1, h <= Len(diff), diff[h].kind = "@@"
  PROVE  /\ NamesApart /\ path # 0 /\ path \in Owned => Owner(h) = path
         /\ Plain /\ WellFormed(diff) => path = NameRead[Owner(h)] /\ Owner(h) # 0
  <1> DEFINE N == {q \in 1..parsed : diff[q].kind \in Naming}
             S == Headers("+++", h)
  <1>1. /\ diff \in Seq(DiffLine) /\ parsed \in Nat /\ Len(diff) \in Nat /\ parsed < Len(diff)
        /\ N \in SUBSET (0..parsed) /\ S \in SUBSET (0..parsed) /\ S \in SUBSET Nat
    BY DEF MappingTypeOK, Headers
  <1>2. CASE N = {}
    <2>1. path = 0 /\ \A q \in 1..(h - 1) : diff[q].kind # "+++"
      <3>1. \A q \in 1..parsed : diff[q].kind \notin Naming
        BY <1>2
      <3>2. path = 0
        BY <3>1 DEF PathRead
      <3>3. h - 1 = parsed
        BY <1>1
      <3>4. QED
        BY <3>1, <3>2, <3>3 DEF Naming
    <2>2. h \in 1..Len(diff)
      BY <1>1
    <2>3. WellFormed(diff) => \E q \in 1..(h - 1) : diff[q].kind = "+++"
      BY <2>2 DEF WellFormed
    <2>4. QED
      BY <2>1, <2>3
  <1>3. CASE N # {}
    <2>1. PICK q \in N : \A r \in N : r <= q
      BY <1>1, <1>3, Largest
    <2>2. /\ q \in 1..parsed /\ diff[q].kind \in Naming /\ q \in 1..Len(diff)
          /\ \A r \in (q + 1)..parsed : diff[r].kind \notin Naming
      <3>1. q \in 1..parsed /\ diff[q].kind \in Naming /\ q \in 1..Len(diff)
        BY <1>1
      <3>2. ASSUME NEW r \in (q + 1)..parsed PROVE diff[r].kind \notin Naming
        <4>1. r \in 1..parsed /\ ~ (r <= q)
          BY <1>1, <3>1
        <4>2. QED
          BY <2>1, <4>1
      <3>3. QED
        BY <3>1, <3>2
    <2>3. path = NameRead[diff[q].name]
      BY <2>2 DEF PathRead
    <2>4. CASE diff[q].kind = "+++"
      <3>1. q \in S /\ \A y \in S : y <= q
        <4>1. q \in S
          BY <1>1, <2>2, <2>4 DEF Headers
        <4>2. ASSUME NEW y \in S PROVE y <= q
          <5>1. y \in 1..parsed /\ diff[y].kind = "+++"
            BY <1>1 DEF Headers
          <5>2. y \in N
            BY <5>1 DEF Naming
          <5>3. QED
            BY <2>1, <5>2
        <4>3. QED
          BY <4>1, <4>2
      <3>2. Owner(h) = diff[q].name
        BY <1>1, <3>1, LastIs DEF Owner
      <3>3. NamesApart /\ path \in Owned => path = diff[q].name
        BY <2>2, <2>3, <2>4 DEF NamesApart
      <3>4. WellFormed(diff) => diff[q].name # 0
        BY <2>2, <2>4 DEF WellFormed
      <3>5. QED
        BY <2>3, <3>2, <3>3, <3>4
    <2>5. CASE diff[q].kind = "added ++"
      <3>1. ~ Plain
        BY <2>2, <2>5 DEF Plain
      <3>2. NamesApart => path \notin Owned
        BY <2>2, <2>3, <2>5 DEF NamesApart
      <3>3. QED
        BY <3>1, <3>2
    <2>6. QED
      BY <2>2, <2>4, <2>5 DEF Naming
  <1>4. QED
    BY <1>2, <1>3

\* Every line keeps track of the last file named.
LEMMA PathStep ==
  ASSUME MappingTypeOK, PathRead, ParseLine
  PROVE  PathRead'
  <1>1. /\ parsed \in Nat /\ parsed' = parsed + 1 /\ diff' = diff
    <2>1. parsed \in Nat
      BY DEF MappingTypeOK
    <2>2. parsed' = parsed + 1 /\ diff' = diff
      BY DEF ParseLine, ReadNewHeader, ReadOldHeader, ReadHunkHeader, ReadHunkLine
    <2>3. QED
      BY <2>1, <2>2
  <1>2. \A q \in 1..parsed' : q \in 1..parsed \/ q = parsed + 1
    BY <1>1
  <1>3. parsed + 1 \in 1..parsed'
    BY <1>1
  <1>4. CASE ReadNewHeader
    <2>1. diff[parsed + 1].kind \in Naming /\ path' = NameRead[diff[parsed + 1].name]
      BY <1>4 DEF ReadNewHeader, Reading, Naming, Line
    <2>2. \A q \in 1..parsed : parsed + 1 \in (q + 1)..parsed'
      BY <1>1
    <2>3. QED
      BY <1>1, <1>2, <1>3, <2>1, <2>2 DEF PathRead
  <1>5. CASE ReadOldHeader \/ ReadHunkHeader \/ ReadHunkLine
    <2>1. diff[parsed + 1].kind \notin Naming /\ path' = path
      BY <1>5 DEF ReadOldHeader, ReadHunkHeader, ReadHunkLine, Reading, Naming, Line
    <2>2. ASSUME NEW q \in 1..parsed', diff[q].kind \in Naming,
                 \A r \in (q + 1)..parsed' : diff[r].kind \notin Naming
          PROVE  path = NameRead[diff[q].name]
      <3>1. q \in 1..parsed
        BY <1>2, <2>1, <2>2
      <3>2. \A r \in (q + 1)..parsed : r \in (q + 1)..parsed'
        BY <1>1
      <3>3. QED
        BY <2>2, <3>1, <3>2 DEF PathRead
    <2>3. (\A q \in 1..parsed' : diff[q].kind \notin Naming) => path = 0
      <3>1. \A q \in 1..parsed : q \in 1..parsed'
        BY <1>1
      <3>2. QED
        BY <3>1 DEF PathRead
    <2>4. QED
      BY <1>1, <2>1, <2>2, <2>3 DEF PathRead
  <1>6. QED
    BY <1>4, <1>5 DEF ParseLine

\* What has been read of a hunk stays so while the next line is of another.
LEMMA HunkKept ==
  ASSUME diff \in Seq(DiffLine), diff' = diff, parsed \in 0..Len(diff), parsed' = parsed + 1,
         NEW i \in 1..Len(hunks), NEW h \in 1..Len(diff), hunks'[i] = hunks[i], HunkRead(i, h),
         Plain /\ WellFormed(diff) /\ parsed + 1 \in BodyOf(h) /\ diff[parsed + 1].kind # "context"
           => Number(h, parsed + 1) \in hunks[i].modified
  PROVE  HunkRead(i, h)'
  <1>1. /\ Added(h)' = Added(h) /\ Shown(h)' = Shown(h) /\ NamesApart' = NamesApart
        /\ Owned' = Owned /\ Owner(h)' = Owner(h) /\ Plain' = Plain /\ BodyOf(h)' = BodyOf(h)
        /\ \A q : Number(h, q)' = Number(h, q)
    BY DiffSame
  <1>2. All(hunks[i])' = All(hunks[i])
    BY DEF All
  <1>3. WellFormed(diff)' = WellFormed(diff)
    BY DEF WellFormed
  <1>4. ASSUME Plain, WellFormed(diff), NEW q \in BodyOf(h), q <= parsed + 1, diff[q].kind # "context"
        PROVE  Number(h, q) \in hunks[i].modified
    <2>1. q \in Nat /\ (q <= parsed \/ q = parsed + 1)
      <3>1. q \in (h + 1)..Len(diff) /\ parsed \in Nat
        BY DEF BodyOf
      <3>2. q \in Nat
        BY <3>1, <1>4
      <3>3. QED
        BY <1>4, <3>1, <3>2
    <2>2. QED
      BY <1>4, <2>1 DEF HunkRead
  <1>5. QED
    BY <1>1, <1>2, <1>3, <1>4 DEF HunkRead

\* A line that closes the open hunk, or is read outside of one, leaves the
\* hunks as they are.
LEMMA CloseStep ==
  ASSUME MappingTypeOK, parsed < Len(diff), parsed' = parsed + 1, diff' = diff, hunks' = hunks,
         NEW hd \in [1..Len(hunks) -> 1..parsed], ReadAs(hd), ~ open',
         \/ /\ diff[parsed + 1].kind \in Closing
            /\ diff[parsed + 1].kind = "@@" =>
                  (Plain /\ WellFormed(diff) => NameRead[Owner(parsed + 1)] # Owner(parsed + 1))
         \/ ~ open /\ diff[parsed + 1].kind \notin Closing
  PROVE  hd \in [1..Len(hunks') -> 1..parsed'] /\ ReadAs(hd)'
  <1> DEFINE p == parsed + 1
  <1>1. /\ diff \in Seq(DiffLine) /\ parsed \in Nat /\ Len(diff) \in Nat /\ p \in 1..Len(diff)
        /\ Len(hunks) \in Nat /\ parsed \in 0..Len(diff)
    BY DEF MappingTypeOK
  <1>2. \A i \in 1..Len(hunks) : /\ hd[i] \in 1..parsed /\ hd[i] \in 1..Len(diff)
                                 /\ hd[i] \in 1..parsed'
    BY <1>1
  <1>3. ASSUME NEW i \in 1..Len(hunks) PROVE ~ InHunk(hd[i])'
    <2>1. CASE diff[p].kind \in Closing
      <3>1. p \in (hd[i] + 1)..parsed'
        BY <1>1, <1>2
      <3>2. QED
        BY <2>1, <3>1 DEF InHunk
    <2>2. CASE ~ open
      <3>1. ~ InHunk(hd[i])
        BY <2>2 DEF ReadAs
      <3>2. PICK r \in (hd[i] + 1)..parsed : diff[r].kind \in Closing
        BY <3>1 DEF InHunk, ReadAs
      <3>3. r \in (hd[i] + 1)..parsed'
        BY <1>1, <1>2
      <3>4. QED
        BY <3>2, <3>3 DEF InHunk
    <2>3. QED
      BY <2>1, <2>2
  <1>4. ASSUME NEW i \in 1..Len(hunks), Plain, WellFormed(diff), p \in BodyOf(hd[i]),
               diff[p].kind # "context"
        PROVE  FALSE
    <2>1. /\ hd[i] < p /\ diff[p].kind \in NewLines /\ diff[hd[i]].kind = "@@"
          /\ \A r \in (hd[i] + 1)..(p - 1) : diff[r].kind # "@@"
      BY <1>1, <1>2, <1>4, BodyLine DEF ReadAs
    <2>2. diff[p].kind # "added ++"
      BY <1>1, <1>4 DEF Plain
    <2>3. ~ open
      BY <2>1, <2>2 DEF Closing, NewLines
    <2>4. PICK r \in (hd[i] + 1)..parsed : diff[r].kind \in Closing
      BY <2>1, <2>3 DEF InHunk, ReadAs
    <2>5. r \in 1..Len(diff) /\ r < p /\ r \in (hd[i] + 1)..(p - 1)
      BY <1>1, <1>2
    <2>6. diff[r].kind \in {"+++", "---"}
      BY <1>4, <2>1, <2>4, <2>5 DEF Plain, Closing
    <2>7. PICK s \in (r + 1)..(p - 1) : diff[s].kind = "@@"
      BY <1>1, <1>4, <2>1, <2>5, <2>6 DEF WellFormed
    <2>8. s \in (hd[i] + 1)..(p - 1)
      BY <1>1, <1>2, <2>5
    <2>9. QED
      BY <2>1, <2>7, <2>8
  <1>5. ASSUME NEW i \in 1..Len(hunks) PROVE HunkRead(i, hd[i])'
    <2>1. HunkRead(i, hd[i])
      BY DEF ReadAs
    <2>2. hunks'[i] = hunks[i]
      OBVIOUS
    <2>3. PICK h \in 1..Len(diff) : h = hd[i]
      BY <1>2
    <2>4. HunkRead(i, h)'
      BY <1>1, <1>4, <2>1, <2>2, <2>3, HunkKept
    <2>5. QED
      BY <2>3, <2>4
  <1>6. ASSUME Plain, WellFormed(diff), NEW h \in 1..parsed', diff[h].kind = "@@",
               NameRead[Owner(h)] = Owner(h)
        PROVE  \E i \in 1..Len(hunks) : hd[i] = h
    <2>1. h # p
      BY <1>6 DEF Closing
    <2>2. h \in 1..parsed
      BY <1>1, <2>1
    <2>3. QED
      BY <1>6, <2>2 DEF ReadAs
  <1>7. /\ \A h : Owner(h)' = Owner(h)
        /\ Plain' = Plain /\ WellFormed(diff)' = WellFormed(diff)
    BY DiffSame DEF WellFormed
  <1>8. hd \in [1..Len(hunks') -> 1..parsed']
    BY <1>2
  <1>9. \A i \in 1..Len(hunks) : diff[hd[i]].kind = "@@"
    BY DEF ReadAs
  <1>10. \A i, j \in 1..Len(hunks) : i < j => hd[i] < hd[j]
    BY DEF ReadAs
  <1> HIDE DEF p
  <1>11. QED
    BY <1>2, <1>3, <1>5, <1>6, <1>7, <1>8, <1>9, <1>10 DEF ReadAs

\* A hunk header opens a hunk of the file the parser is in.
LEMMA OpenStep ==
  ASSUME MappingTypeOK, PathRead, parsed < Len(diff), diff[parsed + 1].kind = "@@", path # 0,
         ReadHunkHeader, NEW hd \in [1..Len(hunks) -> 1..parsed], ReadAs(hd)
  PROVE  \E hn \in [1..Len(hunks') -> 1..parsed'] : ReadAs(hn)'
  <1>0. PICK p, n : p = parsed + 1 /\ n = Len(hunks) + 1
    OBVIOUS
  <1>1. /\ diff \in Seq(DiffLine) /\ parsed \in Nat /\ Len(diff) \in Nat /\ p \in 1..Len(diff)
        /\ hunks \in Seq(Hunk) /\ Len(hunks) \in Nat /\ parsed \in 0..Len(diff)
        /\ path \in Path
    BY <1>0 DEF MappingTypeOK
  <1>2. PICK u : u = [file |-> path, modified |-> {}, context |-> {}]
    OBVIOUS
  <1>3. /\ u \in Hunk /\ u.file = path /\ u.modified = {} /\ All(u) = {}
    BY <1>1, <1>2 DEF Hunk, All
  <1>4. /\ hunks' = Append(hunks, u) /\ open' = TRUE /\ newLine' = diff[p].no
        /\ parsed' = parsed + 1 /\ diff' = diff
    BY <1>0, <1>2 DEF ReadHunkHeader, Line
  <1>5. /\ Len(hunks') = n /\ hunks'[n] = u /\ \A i \in 1..Len(hunks) : hunks'[i] = hunks[i]
        /\ n \in 1..n /\ \A i \in 1..n : i = n \/ i \in 1..Len(hunks)
    BY <1>0, <1>1, <1>3, <1>4
  <1>6. PICK hn : hn = [i \in 1..n |-> IF i = n THEN p ELSE hd[i]]
    OBVIOUS
  <1>7. /\ \A i \in 1..Len(hunks) : hn[i] = hd[i] /\ hd[i] \in 1..parsed /\ hd[i] \in 1..Len(diff)
        /\ hn[n] = p /\ p \in 1..parsed' /\ \A i \in 1..Len(hunks) : hd[i] \in 1..parsed'
        /\ hn \in [1..Len(hunks') -> 1..parsed']
    BY <1>0, <1>1, <1>4, <1>5, <1>6
  <1>8. p \notin BodyOf(p) /\ \A i \in 1..Len(hunks) : p \notin BodyOf(hd[i])
    <2>1. diff[p].kind \notin NewLines
      BY <1>0 DEF NewLines
    <2>2. \A h : p \notin BodyOf(h)
      BY <2>1 DEF BodyOf
    <2>3. QED
      BY <2>2
  <1>9. ASSUME NEW i \in 1..Len(hunks)
        PROVE  HunkRead(i, hn[i])' /\ ~ InHunk(hn[i])' /\ diff[hn[i]].kind = "@@"
    <2>1. HunkRead(i, hd[i]) /\ diff[hd[i]].kind = "@@"
      BY DEF ReadAs
    <2>2. PICK h \in 1..Len(diff) : h = hd[i] /\ h = hn[i]
      BY <1>7
    <2>3. HunkRead(i, h)'
      BY <1>0, <1>1, <1>4, <1>5, <1>8, <2>1, <2>2, HunkKept
    <2>4. p \in (h + 1)..parsed'
      BY <1>0, <1>1, <1>4, <1>7, <2>2
    <2>5. ~ InHunk(h)'
      BY <1>0, <1>4, <2>4 DEF InHunk, Closing
    <2>6. QED
      BY <2>1, <2>2, <2>3, <2>5
  <1>10. HunkRead(n, p)'
    <2>1. /\ NamesApart /\ path \in Owned => Owner(p) = path
          /\ Plain /\ WellFormed(diff) => path = NameRead[Owner(p)]
      BY <1>0, <1>1, OwnerRead
    <2>2. \A q \in BodyOf(p) : q > p
      BY <1>1 DEF BodyOf
    <2>3. \A q \in BodyOf(p) : ~ (q <= parsed')
      <3> SUFFICES ASSUME NEW q \in BodyOf(p) PROVE ~ (q <= p)
        BY <1>0, <1>4
      <3>1. q \in (p + 1)..Len(diff)
        BY DEF BodyOf
      <3>2. QED
        BY <1>1, <3>1
    <2>4. /\ NamesApart' = NamesApart /\ Owned' = Owned /\ Owner(p)' = Owner(p)
          /\ Plain' = Plain /\ BodyOf(p)' = BodyOf(p) /\ WellFormed(diff)' = WellFormed(diff)
      BY <1>4, DiffSame DEF WellFormed
    <2>5. All(hunks'[n]) = {} /\ hunks'[n].modified = {} /\ hunks'[n].file = path
      BY <1>3, <1>5
    <2>6. QED
      BY <2>1, <2>3, <2>4, <2>5 DEF HunkRead, All
  <1>11. InHunk(p)' /\ Number(p, p + 1) = diff[p].no /\ diff[p].kind = "@@"
    <2>1. \A r \in (p + 1)..parsed' : FALSE
      BY <1>0, <1>1, <1>4
    <2>2. InHunk(p)'
      BY <1>0, <1>4, <2>1 DEF InHunk
    <2>3. QED
      BY <1>0, <1>1, <2>2, NumberStep
  <1>12. ASSUME Plain, WellFormed(diff), NEW h \in 1..parsed', diff[h].kind = "@@",
                NameRead[Owner(h)] = Owner(h)
         PROVE  \E i \in 1..n : hn[i] = h
    <2>1. CASE h = p
      BY <1>5, <1>7, <2>1
    <2>2. CASE h \in 1..parsed
      <3>1. PICK i \in 1..Len(hunks) : hd[i] = h
        BY <1>12, <2>2 DEF ReadAs
      <3>2. i \in 1..n
        BY <1>0, <1>1
      <3>3. QED
        BY <1>7, <3>1, <3>2
    <2>3. QED
      BY <1>0, <1>1, <1>4, <2>1, <2>2
  <1>13. ASSUME NEW i \in 1..n, NEW j \in 1..n, i < j PROVE hn[i] < hn[j]
    <2>1. i \in 1..Len(hunks)
      BY <1>0, <1>1, <1>13
    <2>2. CASE j = n
      BY <1>0, <1>1, <1>7, <2>1, <2>2
    <2>3. CASE j \in 1..Len(hunks)
      BY <1>7, <1>13, <2>1, <2>3 DEF ReadAs
    <2>4. QED
      BY <1>5, <2>2, <2>3
  <1>14. ReadAs(hn)'
    <2>1. ASSUME NEW i \in 1..n
          PROVE  /\ hn[i] \in 1..parsed' /\ diff[hn[i]].kind = "@@" /\ HunkRead(i, hn[i])'
                 /\ InHunk(hn[i])' => i = n
      <3>1. CASE i = n
        BY <1>7, <1>10, <1>11, <3>1
      <3>2. CASE i \in 1..Len(hunks)
        BY <1>7, <1>9, <3>2
      <3>3. QED
        BY <1>5, <3>1, <3>2
    <2>2. InHunk(hn[n])' /\ newLine' = Number(hn[n], parsed + 1)'
      <3>1. Number(p, p + 1)' = Number(p, p + 1)
        BY <1>4, DiffSame
      <3>2. QED
        BY <1>0, <1>4, <1>7, <1>11, <3>1
    <2>3. /\ \A h : Owner(h)' = Owner(h)
          /\ Plain' = Plain /\ WellFormed(diff)' = WellFormed(diff)
      BY <1>4, DiffSame DEF WellFormed
    <2>4. QED
      BY <1>4, <1>5, <1>12, <1>13, <2>1, <2>2, <2>3 DEF ReadAs
  <1>15. QED
    BY <1>7, <1>14

\* A line of the open hunk is the next line of the body of its header.
LEMMA LineStep ==
  ASSUME MappingTypeOK, parsed < Len(diff), parsed' = parsed + 1, open, open',
         diff' = diff, diff[parsed + 1].kind \notin Closing,
         NEW hd \in [1..Len(hunks) -> 1..parsed], ReadAs(hd),
         Len(hunks') = Len(hunks),
         \A i \in 1..Len(hunks) : hunks'[i].file = hunks[i].file,
         \A i \in 1..Len(hunks) : i # Len(hunks) => hunks'[i] = hunks[i],
         \/ /\ diff[parsed + 1].kind \notin NewLines
            /\ hunks' = hunks /\ newLine' = newLine
         \/ /\ diff[parsed + 1].kind = "add" /\ newLine' = newLine + 1
            /\ hunks'[Len(hunks)].modified = hunks[Len(hunks)].modified \cup {newLine}
            /\ hunks'[Len(hunks)].context = hunks[Len(hunks)].context
         \/ /\ diff[parsed + 1].kind = "context" /\ newLine' = newLine + 1
            /\ hunks'[Len(hunks)].modified = hunks[Len(hunks)].modified
            /\ hunks'[Len(hunks)].context = hunks[Len(hunks)].context \cup {newLine}
  PROVE  hd \in [1..Len(hunks') -> 1..parsed'] /\ ReadAs(hd)'
  <1>0. PICK p, n, g : p = parsed + 1 /\ n = Len(hunks) /\ g = hd[n]
    OBVIOUS
  <1>1. /\ diff \in Seq(DiffLine) /\ parsed \in Nat /\ Len(diff) \in Nat /\ p \in 1..Len(diff)
        /\ hunks \in Seq(Hunk) /\ n \in Nat /\ parsed \in 0..Len(diff)
        /\ hunks # <<>>
    BY <1>0 DEF MappingTypeOK
  <1>2. n \in 1..n /\ g \in 1..parsed /\ g \in 1..Len(diff) /\ diff[g].kind = "@@" /\ InHunk(g)
        /\ newLine = Number(g, p) /\ HunkRead(n, g)
    BY <1>0, <1>1 DEF ReadAs
  <1>3. \A i \in 1..n : /\ hd[i] \in 1..parsed /\ hd[i] \in 1..Len(diff) /\ hd[i] \in 1..parsed'
                        /\ diff[hd[i]].kind = "@@"
    BY <1>0, <1>1 DEF ReadAs
  <1>4. p \in BodyOf(g) <=> diff[p].kind \in NewLines
    <2>1. ASSUME NEW r \in (g + 1)..(p - 1) PROVE diff[r].kind # "@@"
      <3>1. r \in (g + 1)..parsed
        BY <1>0, <1>1, <1>2
      <3>2. diff[r].kind \notin Closing
        BY <1>2, <3>1 DEF InHunk
      <3>3. QED
        BY <3>2 DEF Closing
    <2>2. g < p
      BY <1>0, <1>1, <1>2
    <2>3. QED
      BY <1>1, <1>2, <2>1, <2>2, BodyLine
  <1>5. ASSUME NEW i \in 1..n, i # n
        PROVE  p \notin BodyOf(hd[i]) /\ ~ InHunk(hd[i])
    <2>1. hd[i] < g
      BY <1>0, <1>2, <1>5 DEF ReadAs
    <2>2. g \in (hd[i] + 1)..(p - 1) /\ g \in (hd[i] + 1)..parsed
      BY <1>0, <1>1, <1>2, <1>3, <2>1
    <2>3. p \notin BodyOf(hd[i])
      <3>1. PICK h \in 1..Len(diff) : h = hd[i] /\ diff[h].kind = "@@"
        BY <1>3
      <3>2. ~ (\A r \in (h + 1)..(p - 1) : diff[r].kind # "@@")
        BY <1>2, <2>2, <3>1
      <3>3. p \notin BodyOf(h)
        BY <1>1, <3>1, <3>2, BodyLine
      <3>4. QED
        BY <3>1, <3>3
    <2>4. QED
      BY <1>2, <2>2, <2>3 DEF InHunk, Closing
  <1>6. /\ \A h, q : Number(h, q)' = Number(h, q)
        /\ \A h : Added(h)' = Added(h) /\ Shown(h)' = Shown(h) /\ BodyOf(h)' = BodyOf(h)
        /\ \A h : Owner(h)' = Owner(h)
        /\ NamesApart' = NamesApart /\ Owned' = Owned /\ Plain' = Plain
        /\ WellFormed(diff)' = WellFormed(diff)
    BY DiffSame DEF WellFormed
  <1>7. ASSUME NEW i \in 1..n, i # n PROVE HunkRead(i, hd[i])'
    <2>1. HunkRead(i, hd[i]) /\ hunks'[i] = hunks[i] /\ i \in 1..Len(hunks)
      BY <1>0, <1>7 DEF ReadAs
    <2>2. PICK h \in 1..Len(diff) : h = hd[i]
      BY <1>3
    <2>3. HunkRead(i, h)'
      BY <1>0, <1>1, <1>5, <1>7, <2>1, <2>2, HunkKept
    <2>4. QED
      BY <2>2, <2>3
  <1>8. HunkRead(n, g)'
    <2>1. /\ hunks[n].modified \subseteq Added(g) /\ All(hunks[n]) \subseteq Shown(g)
          /\ NamesApart /\ hunks[n].file \in Owned => Owner(g) = hunks[n].file
          /\ Plain /\ WellFormed(diff) =>
                /\ hunks[n].file = NameRead[Owner(g)]
                /\ \A q \in BodyOf(g) :
                      q <= parsed /\ diff[q].kind # "context" => Number(g, q) \in hunks[n].modified
      BY <1>2 DEF HunkRead
    <2>2. /\ hunks[n].modified \subseteq hunks'[n].modified
          /\ diff[p].kind = "add" => newLine \in hunks'[n].modified
          /\ \A x \in hunks'[n].modified :
                x \in hunks[n].modified \/ (x = newLine /\ diff[p].kind = "add")
          /\ \A x \in All(hunks'[n]) :
                x \in All(hunks[n]) \/ (x = newLine /\ diff[p].kind \in {"add", "context"})
      <3>1. CASE diff[p].kind \notin NewLines
        BY <1>0, <3>1 DEF NewLines, All
      <3>2. CASE diff[p].kind = "add"
        BY <1>0, <3>2 DEF NewLines, All
      <3>3. CASE diff[p].kind = "context"
        BY <1>0, <3>3 DEF NewLines, All
      <3>4. QED
        BY <1>0, <3>1, <3>2, <3>3
    <2>3. /\ diff[p].kind \in {"add", "context"} => newLine \in Shown(g)
          /\ diff[p].kind = "add" => newLine \in Added(g)
      BY <1>2, <1>4 DEF Shown, Added, NewLines
    <2>4. hunks'[n].modified \subseteq Added(g) /\ All(hunks'[n]) \subseteq Shown(g)
      BY <2>1, <2>2, <2>3
    <2>5. ASSUME Plain, WellFormed(diff), NEW q \in BodyOf(g), q <= parsed', diff[q].kind # "context"
          PROVE  Number(g, q) \in hunks'[n].modified
      <3>1. q \in (g + 1)..Len(diff)
        BY DEF BodyOf
      <3>2. q <= parsed \/ q = p
        BY <1>0, <1>1, <1>2, <2>5, <3>1
      <3>3. CASE q = p
        <4>1. diff[p].kind = "add"
          <5>1. diff[p].kind \in NewLines /\ diff[p].kind # "added ++"
            BY <1>1, <1>4, <2>5, <3>3 DEF Plain
          <5>2. QED
            BY <2>5, <3>3, <5>1 DEF NewLines
        <4>2. QED
          BY <1>2, <2>2, <3>3, <4>1
      <3>4. CASE q <= parsed
        BY <2>1, <2>2, <2>5, <3>4
      <3>5. QED
        BY <3>2, <3>3, <3>4
    <2>6. hunks'[n].file = hunks[n].file
      BY <1>0, <1>2
    <2>7. /\ hunks'[n].modified \subseteq Added(g)' /\ All(hunks'[n]) \subseteq Shown(g)'
          /\ NamesApart' /\ hunks'[n].file \in Owned' => Owner(g)' = hunks'[n].file
          /\ Plain' /\ WellFormed(diff)' =>
                /\ hunks'[n].file = NameRead[Owner(g)']
                /\ \A q \in BodyOf(g)' :
                      q <= parsed' /\ diff[q].kind # "context" => Number(g, q)' \in hunks'[n].modified
      BY <1>6, <2>1, <2>4, <2>5, <2>6
    <2>8. QED
      BY <2>7 DEF HunkRead, All
  <1>9. ASSUME NEW i \in 1..n PROVE HunkRead(i, hd[i])' /\ (InHunk(hd[i])' => i = n)
    <2>1. CASE i = n
      BY <1>0, <1>8, <2>1
    <2>2. CASE i # n
      <3>1. PICK r \in (hd[i] + 1)..parsed : diff[r].kind \in Closing
        BY <1>3, <1>5, <2>2 DEF InHunk
      <3>2. r \in (hd[i] + 1)..parsed'
        BY <1>1, <1>3
      <3>3. ~ InHunk(hd[i])'
        BY <3>1, <3>2 DEF InHunk
      <3>4. QED
        BY <1>7, <2>2, <3>3
    <2>3. QED
      BY <2>1, <2>2
  <1>10. InHunk(g)' /\ newLine' = Number(g, p + 1)
    <2>1. ASSUME NEW r \in (g + 1)..parsed' PROVE diff[r].kind \notin Closing
      <3>1. r \in (g + 1)..parsed \/ r = p
        BY <1>0, <1>1, <1>2
      <3>2. QED
        BY <1>0, <1>2, <3>1 DEF InHunk
    <2>2. InHunk(g)'
      BY <1>2, <2>1 DEF InHunk
    <2>3. newLine' = Number(g, p + 1)
      <3>1. CASE diff[p].kind \in NewLines
        <4>1. p \in BodyOf(g) /\ newLine' = newLine + 1
          BY <1>0, <1>4, <3>1 DEF NewLines
        <4>2. QED
          BY <1>1, <1>2, <4>1, NumberStep
      <3>2. CASE diff[p].kind \notin NewLines
        <4>1. p \notin BodyOf(g) /\ newLine' = newLine
          BY <1>0, <1>4, <3>2 DEF NewLines
        <4>2. QED
          BY <1>1, <1>2, <4>1, NumberStep
      <3>3. QED
        BY <3>1, <3>2
    <2>4. QED
      BY <2>2, <2>3
  <1>11. ASSUME Plain, WellFormed(diff), NEW h \in 1..parsed', diff[h].kind = "@@",
                NameRead[Owner(h)] = Owner(h)
         PROVE  \E i \in 1..n : hd[i] = h
    <2>1. h # p
      BY <1>0, <1>11 DEF Closing
    <2>2. h \in 1..parsed
      BY <1>0, <1>1, <2>1
    <2>3. QED
      BY <1>0, <1>11, <2>2 DEF ReadAs
  <1>12. hd \in [1..Len(hunks') -> 1..parsed']
    BY <1>0, <1>3
  <1>13. \A i, j \in 1..n : i < j => hd[i] < hd[j]
    BY <1>0 DEF ReadAs
  <1>14. InHunk(hd[n])' /\ newLine' = Number(hd[n], parsed + 1)' /\ n = Len(hunks')
    <2>1. Number(g, p + 1)' = Number(g, p + 1)
      BY <1>6
    <2>2. QED
      BY <1>0, <1>10, <2>1
  <1>15. ReadAs(hd)'
    BY <1>3, <1>6, <1>9, <1>11, <1>13, <1>14 DEF ReadAs
  <1>16. QED
    BY <1>12, <1>15

\* Every line the parser reads keeps its hunks those of the diff.
LEMMA ParserStep ==
  ASSUME MappingTypeOK, ParserInv, ParseLine
  PROVE  ParserInv'
  <1>1. PathRead'
    BY PathStep DEF ParserInv
  <1>2. PICK hd \in [1..Len(hunks) -> 1..parsed] : ReadAs(hd)
    BY DEF ParserInv
  <1>3. /\ parsed < Len(diff) /\ parsed' = parsed + 1 /\ diff' = diff
        /\ parsed \in Nat /\ hunks \in Seq(Hunk) /\ PathRead
        /\ parsed + 1 <= Len(diff)
    <2>1. parsed < Len(diff) /\ parsed' = parsed + 1 /\ diff' = diff
      BY DEF ParseLine, ReadNewHeader, ReadOldHeader, ReadHunkHeader, ReadHunkLine, Reading
    <2>2. parsed \in Nat /\ Len(diff) \in Nat /\ hunks \in Seq(Hunk)
      BY DEF MappingTypeOK
    <2>3. QED
      BY <2>1, <2>2 DEF ParserInv
  <1>4. ASSUME hd \in [1..Len(hunks') -> 1..parsed'] /\ ReadAs(hd)' PROVE ParserInv'
    BY <1>1, <1>4 DEF ParserInv
  <1>5. CASE ReadNewHeader \/ ReadOldHeader
    <2>1. /\ diff[parsed + 1].kind \in Closing /\ diff[parsed + 1].kind # "@@"
          /\ hunks' = hunks /\ ~ open'
      BY <1>5 DEF ReadNewHeader, ReadOldHeader, Reading, Closing
    <2>2. hd \in [1..Len(hunks') -> 1..parsed'] /\ ReadAs(hd)'
      BY <1>2, <1>3, <2>1, CloseStep
    <2>3. QED
      BY <1>4, <2>2
  <1>6. CASE ReadHunkHeader
    <2>1. diff[parsed + 1].kind = "@@" /\ diff[parsed + 1].kind \in Closing
      BY <1>6 DEF ReadHunkHeader, Reading, Closing
    <2>2. CASE path # 0
      <3>1. PICK hn \in [1..Len(hunks') -> 1..parsed'] : ReadAs(hn)'
        BY <1>2, <1>3, <1>6, <2>1, <2>2, OpenStep
      <3>2. QED
        BY <1>1, <3>1 DEF ParserInv
    <2>3. CASE path = 0
      <3>1. hunks' = hunks /\ ~ open'
        BY <1>6, <2>3 DEF ReadHunkHeader
      <3>2. Plain /\ WellFormed(diff) => NameRead[Owner(parsed + 1)] # Owner(parsed + 1)
        BY <1>3, <2>1, <2>3, OwnerRead
      <3>3. hd \in [1..Len(hunks') -> 1..parsed'] /\ ReadAs(hd)'
        BY <1>2, <1>3, <2>1, <3>1, <3>2, CloseStep
      <3>4. QED
        BY <1>4, <3>3
    <2>4. QED
      BY <2>2, <2>3
  <1>7. CASE ReadHunkLine
    <2>1. diff[parsed + 1].kind \in {"add", "context", "del", "other"} /\ open' = open
      BY <1>7 DEF ReadHunkLine, Reading
    <2>2. diff[parsed + 1].kind \notin Closing
      BY <2>1 DEF Closing
    <2>3. CASE ~ open
      <3>1. hunks' = hunks
        BY <1>7, <2>3 DEF ReadHunkLine
      <3>2. hd \in [1..Len(hunks') -> 1..parsed'] /\ ReadAs(hd)'
        BY <1>2, <1>3, <2>1, <2>2, <2>3, <3>1, CloseStep
      <3>3. QED
        BY <1>4, <3>2
    <2>4. CASE open
      <3>1. PICK n : n = Len(hunks)
        OBVIOUS
      <3>2. n \in 1..n /\ n \in Nat
        BY <1>3, <2>4, <3>1 DEF MappingTypeOK
      <3>3. /\ hunks[n] \in Hunk
            /\ \A S : /\ [hunks[n] EXCEPT !.modified = S].modified = S
                      /\ [hunks[n] EXCEPT !.modified = S].context = hunks[n].context
                      /\ [hunks[n] EXCEPT !.modified = S].file = hunks[n].file
                      /\ [hunks[n] EXCEPT !.context = S].modified = hunks[n].modified
                      /\ [hunks[n] EXCEPT !.context = S].context = S
                      /\ [hunks[n] EXCEPT !.context = S].file = hunks[n].file
        <4>1. hunks[n] \in Hunk
          BY <1>3, <3>1, <3>2
        <4>2. QED
          BY <4>1 DEF Hunk
      <3>4. ASSUME NEW h, hunks' = [hunks EXCEPT ![n] = h]
            PROVE  /\ Len(hunks') = n /\ hunks'[n] = h
                   /\ \A i \in 1..n : i # n => hunks'[i] = hunks[i]
        <4>1. hunks' \in Seq(Hunk)
          BY ParseTypes DEF MappingTypeOK
        <4>2. DOMAIN hunks = 1..n /\ DOMAIN hunks' = DOMAIN hunks
          BY <1>3, <3>1, <3>4
        <4>3. Len(hunks') = n
          BY <3>2, <4>1, <4>2
        <4>4. hunks'[n] = h /\ \A i \in 1..n : i # n => hunks'[i] = hunks[i]
          BY <3>2, <3>4, <4>2, Zenon
        <4>5. QED
          BY <4>3, <4>4
      <3>5. CASE /\ diff[parsed + 1].kind = "add" /\ newLine' = newLine + 1
                 /\ hunks' = [hunks EXCEPT ![n].modified = @ \cup {newLine}]
        <4>1. PICK h : h = [hunks[n] EXCEPT !.modified = hunks[n].modified \cup {newLine}]
          OBVIOUS
        <4>2. hunks' = [hunks EXCEPT ![n] = h]
          BY <3>5, <4>1
        <4>3. /\ Len(hunks') = n
              /\ \A i \in 1..n : i # n => hunks'[i] = hunks[i]
              /\ hunks'[n].modified = hunks[n].modified \cup {newLine}
              /\ hunks'[n].context = hunks[n].context
              /\ hunks'[n].file = hunks[n].file
          <5>1. /\ Len(hunks') = n /\ hunks'[n] = h
                /\ \A i \in 1..n : i # n => hunks'[i] = hunks[i]
            BY <3>4, <4>2
          <5>2. QED
            BY <3>3, <4>1, <5>1
        <4>4. \A i \in 1..n : hunks'[i].file = hunks[i].file
          BY <4>3
        <4>5. hd \in [1..Len(hunks') -> 1..parsed'] /\ ReadAs(hd)'
          BY <1>2, <1>3, <2>1, <2>2, <2>4, <3>1, <3>5, <4>3, <4>4, LineStep
        <4>6. QED
          BY <1>4, <4>5
      <3>6. CASE /\ diff[parsed + 1].kind = "context" /\ newLine' = newLine + 1
                 /\ hunks' = [hunks EXCEPT ![n].context = @ \cup {newLine}]
        <4>1. PICK h : h = [hunks[n] EXCEPT !.context = hunks[n].context \cup {newLine}]
          OBVIOUS
        <4>2. hunks' = [hunks EXCEPT ![n] = h]
          BY <3>6, <4>1
        <4>3. /\ Len(hunks') = n
              /\ \A i \in 1..n : i # n => hunks'[i] = hunks[i]
              /\ hunks'[n].modified = hunks[n].modified
              /\ hunks'[n].context = hunks[n].context \cup {newLine}
              /\ hunks'[n].file = hunks[n].file
          <5>1. /\ Len(hunks') = n /\ hunks'[n] = h
                /\ \A i \in 1..n : i # n => hunks'[i] = hunks[i]
            BY <3>4, <4>2
          <5>2. QED
            BY <3>3, <4>1, <5>1
        <4>4. \A i \in 1..n : hunks'[i].file = hunks[i].file
          BY <4>3
        <4>5. hd \in [1..Len(hunks') -> 1..parsed'] /\ ReadAs(hd)'
          BY <1>2, <1>3, <2>1, <2>2, <2>4, <3>1, <3>6, <4>3, <4>4, LineStep
        <4>6. QED
          BY <1>4, <4>5
      <3>7. CASE diff[parsed + 1].kind \in {"del", "other"} /\ UNCHANGED <<hunks, newLine>>
        <4>1. diff[parsed + 1].kind \notin NewLines
          BY <3>7 DEF NewLines
        <4>2. hd \in [1..Len(hunks') -> 1..parsed'] /\ ReadAs(hd)'
          BY <1>2, <1>3, <2>1, <2>2, <2>4, <3>7, <4>1, LineStep
        <4>3. QED
          BY <1>4, <4>2
      <3>8. QED
        BY <1>7, <2>4, <3>1, <3>5, <3>6, <3>7 DEF ReadHunkLine, Line
    <2>5. QED
      BY <2>3, <2>4
  <1>8. QED
    BY <1>5, <1>6, <1>7 DEF ParseLine

\* Findings and diff are those of an input, and the diff is read as it was
\* written.
DiffInv == ParserInv /\ \E in \in Inputs : raw = in.raw /\ diff = in.diff

\* Whatever does not parse leaves the hunks, and what they are of the diff.
LEMMA ParserKept ==
  ASSUME DiffInv, UNCHANGED <<raw, diff, parsed, path, hunks, open, newLine>>
  PROVE  DiffInv'
  <1>1. PathRead'
    BY DEF DiffInv, ParserInv, PathRead
  <1>2. PICK hd \in [1..Len(hunks) -> 1..parsed] : ReadAs(hd)
    BY DEF DiffInv, ParserInv
  <1>3. /\ \A h : BodyOf(h)' = BodyOf(h) /\ Owner(h)' = Owner(h)
        /\ \A h, p : Number(h, p)' = Number(h, p)
        /\ \A h : Shown(h)' = Shown(h) /\ Added(h)' = Added(h)
        /\ Plain' = Plain /\ NamesApart' = NamesApart /\ Owned' = Owned
        /\ WellFormed(diff)' = WellFormed(diff)
    BY DiffSame DEF WellFormed
  <1>4. \A i, h : HunkRead(i, h) => HunkRead(i, h)'
    BY <1>3 DEF HunkRead, All
  <1>5. \A h : InHunk(h)' = InHunk(h)
    BY DEF InHunk
  <1>6. ReadAs(hd)'
    BY <1>2, <1>3, <1>4, <1>5 DEF ReadAs
  <1>7. QED
    BY <1>1, <1>2, <1>6 DEF DiffInv, ParserInv

\* Only Parse reads the diff.
LEMMA DiffStep ==
  ASSUME RankInv, DiffInv, [Next]_vars
  PROVE  DiffInv'
  <1>1. CASE UNCHANGED <<raw, diff, parsed, path, hunks, open, newLine>>
    BY <1>1, ParserKept
  <1>2. CASE Parse
    <2>1. MappingTypeOK /\ ParserInv /\ ParseLine
      BY <1>2 DEF Parse, RankInv, TypeOK, DiffInv
    <2>2. diff' = diff /\ raw' = raw
      BY <1>2, <2>1 DEF Parse, dedupVars, ParseLine, ReadNewHeader, ReadOldHeader,
                        ReadHunkHeader, ReadHunkLine
    <2>3. QED
      BY <2>1, <2>2, ParserStep DEF DiffInv
  <1>3. CASE Map
    BY <1>1, <1>3 DEF Map, MapFinding, dedupVars
  <1>4. CASE Deduplicate \/ Rank \/ AnalyzeLlm \/ Compose \/ TimeLimit
    BY <1>1, <1>4 DEF Deduplicate, Rank, AnalyzeLlm, Tier2Answers, Tier2Invalid, Tier2Fails,
                      Compose, TimeLimit, mappingVars, dedupVars, DedupFinding,
                      SortAndTruncate
  <1>5. CASE PostReview \/ PostSummaryOnly \/ PostFails \/ UNCHANGED vars
    BY <1>1, <1>5 DEF PostReview, PostSummaryOnly, PostFails, vars, mappingVars, dedupVars
  <1>6. QED
    BY <1>2, <1>3, <1>4, <1>5 DEF Next

\* At first nothing has been read.
LEMMA DiffInitial == Init => DiffInv
  <1> SUFFICES ASSUME Init PROVE DiffInv
    OBVIOUS
  <1>1. PICK in \in Inputs : raw = in.raw /\ diff = in.diff
    BY DEF Init
  <1>2. parsed = 0 /\ path = 0 /\ hunks = <<>> /\ open = FALSE
    BY DEF Init, MappingInit
  <1>3. Len(hunks) = 0 /\ 1..Len(hunks) = {} /\ 1..parsed = {}
    BY <1>2
  <1>4. PathRead
    BY <1>2, <1>3 DEF PathRead
  <1>5. PICK hd : hd = [i \in 1..Len(hunks) |-> i]
    OBVIOUS
  <1>6. hd \in [1..Len(hunks) -> 1..parsed]
    BY <1>3, <1>5
  <1>7. ReadAs(hd)
    BY <1>2, <1>3 DEF ReadAs
  <1>8. QED
    BY <1>1, <1>4, <1>6, <1>7 DEF DiffInv, ParserInv

\* The inductive invariant of the parser: its hunks are those of the diff.
THEOREM DiffInvariant == Spec => [](RankInv /\ DiffInv)
  <1>1. DiffInv /\ [Next]_vars /\ RankInv => DiffInv'
    BY DiffStep
  <1>2. QED
    BY <1>1, DiffInitial, AggregationInvariant, PTL DEF Spec

\* The reading of the parser is that of the whole diff.
LEMMA ReadingAgrees ==
  ASSUME MappingTypeOK, DiffInv
  PROVE  ParseSound /\ (WellFormed(diff) => ParseComplete)
  <1>1. PICK hd \in [1..Len(hunks) -> 1..parsed] : ReadAs(hd)
    BY DEF DiffInv, ParserInv
  <1>2. parsed \in 0..Len(diff) /\ Len(diff) \in Nat
    BY DEF MappingTypeOK
  <1>3. \A i \in 1..Len(hunks) : hd[i] \in 1..Len(diff) /\ diff[hd[i]].kind = "@@" /\ HunkRead(i, hd[i])
    BY <1>1, <1>2 DEF ReadAs
  <1>4. ParseSound
    <2> SUFFICES ASSUME NamesApart, NEW i \in 1..Len(hunks), hunks[i].file \in Owned
                 PROVE  \E h \in HunksOf(hunks[i].file) :
                           hunks[i].modified \subseteq Added(h) /\ All(hunks[i]) \subseteq Shown(h)
      BY DEF ParseSound
    <2>1. hd[i] \in HunksOf(hunks[i].file)
      BY <1>3 DEF HunkRead, HunksOf
    <2>2. QED
      BY <1>3, <2>1 DEF HunkRead
  <1>5. ASSUME WellFormed(diff), parsed = Len(diff), Plain, NEW f \in Owned, NameRead[f] = f,
               NEW h \in HunksOf(f)
        PROVE  \E i \in 1..Len(hunks) : hunks[i].file = f /\ Added(h) \subseteq hunks[i].modified
    <2>1. h \in 1..parsed /\ diff[h].kind = "@@" /\ Owner(h) = f
      BY <1>5 DEF HunksOf
    <2>2. PICK i \in 1..Len(hunks) : hd[i] = h
      BY <1>1, <1>5, <2>1 DEF ReadAs
    <2>3. /\ hunks[i].file = f
          /\ \A q \in BodyOf(h) :
                q <= parsed /\ diff[q].kind # "context" => Number(h, q) \in hunks[i].modified
      BY <1>3, <1>5, <2>1, <2>2 DEF HunkRead
    <2>4. \A q \in BodyOf(h) : q <= parsed
      BY <1>2, <1>5 DEF BodyOf
    <2>5. Added(h) \subseteq hunks[i].modified
      BY <2>3, <2>4 DEF Added
    <2>6. QED
      BY <2>3, <2>5
  <1>6. QED
    BY <1>4, <1>5 DEF ParseComplete

\* Whatever the lines of the diff look like, and also before it is read to its
\* end: what the parser takes for a changed line of a file is one, and what it
\* takes for a line of a hunk is a line of a hunk of that file.
THEOREM AggregationParseSound == Spec => []ParseSound
  <1>1. RankInv /\ DiffInv => ParseSound
    BY ReadingAgrees DEF RankInv, TypeOK
  <1>2. QED
    BY <1>1, DiffInvariant, PTL

\* Of a diff as git writes it the parser also finds every changed line, unless
\* a line looks like a header or the path has a space.
THEOREM AggregationParseAgrees ==
  ASSUME \A in \in Inputs : WellFormed(in.diff)
  PROVE  Spec => []ParseAgrees
  <1>1. RankInv /\ DiffInv => ParseAgrees
    BY ReadingAgrees DEF RankInv, TypeOK, DiffInv, ParseAgrees
  <1>2. QED
    BY <1>1, DiffInvariant, PTL

-----------------------------------------------------------------------------
(* The comments.                                                           *)

\* Every hunk is of a file that a line of the diff names.
FilesNamed ==
    \A i \in 1..Len(hunks) : \E q \in 1..Len(diff) :
       diff[q].kind \in Naming /\ hunks[i].file = NameRead[diff[q].name]

\* The findings of the review are of files of the findings.
FilesRaised == \A k \in 1..Len(kept) : \E n \in 1..Len(raw) : kept[k].file = raw[n].file

\* The positions were given once the diff was read, after the escalation, and
\* decide what is a comment.
Mapped ==
    /\ Len(position) > 0 => parsed = Len(diff)
    /\ \A i \in 1..Len(position) : position[i] \in Positions(kept[i])
    /\ stage \in {"dedup", "tier2"} => position = <<>>
    /\ payload.comments \subseteq {i \in 1..Len(position) : position[i].line # 0}
    /\ stage \in {"post", "posted"} =>
          Len(position) = Len(kept) /\ payload.comments = {i \in Indices : position[i].line # 0}

MapInv == FilesNamed /\ FilesRaised /\ Mapped

\* A hunk is opened for the last file named.
LEMMA FilesNamedStep ==
  ASSUME MappingTypeOK, PathRead, FilesNamed, ParseLine
  PROVE  FilesNamed'
  <1>1. diff' = diff
    BY DEF ParseLine, ReadNewHeader, ReadOldHeader, ReadHunkHeader, ReadHunkLine
  <1>2. CASE hunks' = hunks
    BY <1>1, <1>2 DEF FilesNamed
  <1>3. CASE /\ path # 0
             /\ hunks' = Append(hunks, [file |-> path, modified |-> {}, context |-> {}])
    <2>1. /\ parsed \in Nat /\ parsed <= Len(diff) /\ Len(diff) \in Nat
          /\ hunks \in Seq(Hunk) /\ path \in Path
      BY <1>3 DEF MappingTypeOK
    <2>2. \E q \in 1..Len(diff) : diff[q].kind \in Naming /\ path = NameRead[diff[q].name]
      <3> DEFINE N == {q \in 1..parsed : diff[q].kind \in Naming}
      <3>1. N \in SUBSET (0..parsed) /\ N # {}
        BY <1>3, <2>1 DEF PathRead
      <3>2. PICK q \in N : \A r \in N : r <= q
        BY <2>1, <3>1, Largest
      <3>3. ASSUME NEW r \in (q + 1)..parsed PROVE diff[r].kind \notin Naming
        <4>1. r \in 1..parsed /\ ~ (r <= q)
          BY <2>1
        <4>2. QED
          BY <3>2, <4>1
      <3>4. path = NameRead[diff[q].name]
        BY <3>3 DEF PathRead
      <3>5. QED
        BY <2>1, <3>4
    <2>3. PICK u : u = [file |-> path, modified |-> {}, context |-> {}]
      OBVIOUS
    <2>4. u \in Hunk /\ u.file = path
      BY <2>1, <2>3 DEF Hunk
    <2>5. hunks' = Append(hunks, u)
      BY <1>3, <2>3
    <2>6. /\ Len(hunks') = Len(hunks) + 1 /\ hunks'[Len(hunks) + 1] = u
          /\ \A i \in 1..Len(hunks) : hunks'[i] = hunks[i]
          /\ \A i \in 1..(Len(hunks) + 1) : i \in 1..Len(hunks) \/ i = Len(hunks) + 1
      BY <2>1, <2>4, <2>5
    <2>7. QED
      BY <1>1, <2>2, <2>4, <2>6 DEF FilesNamed
  <1>4. CASE /\ Len(hunks') = Len(hunks)
             /\ \A i \in 1..Len(hunks) : hunks'[i].file = hunks[i].file
    BY <1>1, <1>4 DEF FilesNamed
  <1>5. CASE open /\ \E S : \/ hunks' = [hunks EXCEPT ![Len(hunks)].modified = S]
                            \/ hunks' = [hunks EXCEPT ![Len(hunks)].context = S]
    <2>1. PICK n : n = Len(hunks)
      OBVIOUS
    <2>2. n \in 1..n /\ n \in Nat /\ hunks \in Seq(Hunk) /\ hunks[n] \in Hunk
      <3>1. n \in 1..n /\ n \in Nat /\ hunks \in Seq(Hunk)
        BY <1>5, <2>1 DEF MappingTypeOK
      <3>2. QED
        BY <2>1, <3>1
    <2>3. PICK h : hunks' = [hunks EXCEPT ![n] = h] /\ h.file = hunks[n].file
      <3>1. PICK S : \/ hunks' = [hunks EXCEPT ![n].modified = S]
                     \/ hunks' = [hunks EXCEPT ![n].context = S]
        BY <1>5, <2>1
      <3>2. /\ [hunks[n] EXCEPT !.modified = S].file = hunks[n].file
            /\ [hunks[n] EXCEPT !.context = S].file = hunks[n].file
        BY <2>2 DEF Hunk
      <3>3. QED
        BY <3>1, <3>2
    <2>4. hunks' \in Seq(Hunk)
      BY ParseTypes DEF MappingTypeOK
    <2>5. DOMAIN hunks = 1..n /\ DOMAIN hunks' = DOMAIN hunks
      BY <2>1, <2>2, <2>3
    <2>6. Len(hunks') = n
      BY <2>2, <2>4, <2>5
    <2>7. \A i \in 1..n : hunks'[i].file = hunks[i].file
      BY <2>3, <2>5, Zenon
    <2>8. QED
      BY <1>4, <2>1, <2>6, <2>7
  <1>6. CASE ReadNewHeader \/ ReadOldHeader
    BY <1>2, <1>6 DEF ReadNewHeader, ReadOldHeader
  <1>7. CASE ReadHunkHeader
    BY <1>2, <1>3, <1>7 DEF ReadHunkHeader
  <1>8. CASE ReadHunkLine
    BY <1>2, <1>5, <1>8 DEF ReadHunkLine
  <1>9. QED
    BY <1>6, <1>7, <1>8 DEF ParseLine

\* The positions a finding may get depend on the hunks only.
LEMMA PositionsKept ==
  ASSUME UNCHANGED hunks
  PROVE  \A f : Positions(f)' = Positions(f)
  BY DEF Positions, Touched, FirstTouched, All

\* Every step keeps where the comments come from.
LEMMA MapStep ==
  ASSUME DedupInv, RankInv, DiffInv, MapInv, [Next]_vars
  PROVE  MapInv'
  <1>1. /\ MappingTypeOK /\ PathRead /\ position \in Seq(Position) /\ kept \in Seq(Entry)
        /\ entries \in Seq(Entry) /\ Len(position) \in Nat /\ Len(kept) \in Nat
        /\ raw \in Seq(Finding) /\ read \in 0..Len(raw) /\ Len(raw) \in Nat
        /\ parsed \in 0..Len(diff) /\ Len(diff) \in Nat
    BY DEF RankInv, TypeOK, DedupTypeOK, MappingTypeOK, DiffInv, ParserInv
  <1>2. CASE Deduplicate
    <2>1. UNCHANGED <<raw, kept, mappingVars, stage, payload>>
      BY <1>2 DEF Deduplicate, DedupFinding
    <2>2. QED
      BY <2>1, PositionsKept DEF MapInv, FilesNamed, FilesRaised, Mapped, mappingVars, Indices
  <1>3. CASE Rank
    <2>1. /\ stage = "dedup" /\ SortAndTruncate /\ UNCHANGED <<mappingVars, calls, payload, review>>
          /\ stage' \in {"tier2", "map"} /\ UNCHANGED <<raw, read, entries, merged>>
      BY <1>3 DEF Rank, SortAndTruncate
    <2>2. position = <<>> /\ position' = <<>> /\ Len(position) = 0
      BY <2>1 DEF MapInv, Mapped, mappingVars
    <2>3. ASSUME NEW k \in 1..Len(kept') PROVE \E n \in 1..Len(raw) : kept'[k].file = raw[n].file
      <3>1. PICK i \in 1..Len(entries) : kept'[k] = entries[i]
        BY <1>1, <2>1, RankEffect
      <3>2. PICK m \in 1..read, n \in 1..read : Backs(raw[m], raw[n], entries[i])
        BY DEF DedupInv, SeverityPreserved
      <3>3. raw[m].file = entries[i].file /\ m \in 1..Len(raw)
        BY <1>1, <3>2 DEF Backs, Spot
      <3>4. QED
        BY <3>1, <3>3
    <2>4. FilesRaised'
      BY <2>1, <2>3 DEF FilesRaised
    <2>5. FilesNamed'
      BY <2>1 DEF MapInv, FilesNamed, mappingVars
    <2>6. Mapped'
      BY <2>1, <2>2 DEF MapInv, Mapped, mappingVars
    <2>7. QED
      BY <2>4, <2>5, <2>6 DEF MapInv
  <1>4. CASE AnalyzeLlm
    <2>1. /\ stage = "tier2" /\ stage' \in {"tier2", "map"}
          /\ UNCHANGED <<raw, mappingVars, payload>>
      BY <1>4 DEF AnalyzeLlm, Tier2Answers, Tier2Invalid, Tier2Fails, dedupVars
    <2>2. position = <<>> /\ position' = <<>> /\ Len(position) = 0
      BY <2>1 DEF MapInv, Mapped, mappingVars
    <2>3. Len(kept') = Len(kept) /\ \A i \in 1..Len(kept) : kept'[i].file = kept[i].file
      <3>1. CASE Tier2Answers
        <4>1. TypeOK
          BY DEF RankInv
        <4>2. Len(kept') = Len(kept) /\ \A i \in Indices : Spot(kept'[i]) = Spot(kept[i])
          BY <3>1, <4>1, AnswerEffect
        <4>3. QED
          BY <4>2 DEF Spot, Indices
      <3>2. CASE Tier2Invalid \/ Tier2Fails
        BY <3>2 DEF Tier2Invalid, Tier2Fails, dedupVars
      <3>3. QED
        BY <1>4, <3>1, <3>2 DEF AnalyzeLlm
    <2>4. FilesRaised'
      BY <2>1, <2>3 DEF MapInv, FilesRaised
    <2>5. FilesNamed'
      BY <2>1 DEF MapInv, FilesNamed, mappingVars
    <2>6. Mapped'
      BY <2>1, <2>2 DEF MapInv, Mapped, mappingVars
    <2>7. QED
      BY <2>4, <2>5, <2>6 DEF MapInv
  <1>5. CASE Parse
    <2>1. /\ stage = "map" /\ ParseLine /\ UNCHANGED <<dedupVars, stage, calls, payload, review>>
          /\ UNCHANGED position /\ parsed < Len(diff)
      BY <1>5 DEF Parse, ParseLine, ReadNewHeader, ReadOldHeader, ReadHunkHeader, ReadHunkLine, Reading
    <2>2. Len(position) = 0
      BY <1>1, <2>1 DEF MapInv, Mapped
    <2>3. FilesNamed'
      BY <1>1, <2>1, FilesNamedStep DEF MapInv
    <2>4. FilesRaised'
      BY <2>1 DEF MapInv, FilesRaised, dedupVars
    <2>5. Mapped'
      BY <2>1, <2>2 DEF MapInv, Mapped
    <2>6. QED
      BY <2>3, <2>4, <2>5 DEF MapInv
  <1>6. CASE Map
    <2>1. /\ stage = "map" /\ Len(position) < Len(kept)
          /\ UNCHANGED <<dedupVars, stage, calls, payload, review>>
          /\ UNCHANGED <<diff, parsed, path, hunks, open, newLine>> /\ parsed = Len(diff)
      BY <1>6 DEF Map, MapFinding
    <2>2. PICK p \in Positions(kept[Len(position) + 1]) : position' = Append(position, p)
      BY <1>6 DEF Map, MapFinding
    <2>3. p \in Position
      BY <1>1, <2>1, PositionTypes DEF MappingTypeOK
    <2>4. /\ Len(position') = Len(position) + 1 /\ position'[Len(position) + 1] = p
          /\ \A i \in 1..Len(position) : position'[i] = position[i]
          /\ \A i \in 1..(Len(position) + 1) : i \in 1..Len(position) \/ i = Len(position) + 1
          /\ \A i \in 1..Len(position) : i \in 1..(Len(position) + 1)
      BY <1>1, <2>2, <2>3
    <2>5. kept' = kept /\ raw' = raw
      BY <2>1 DEF dedupVars
    <2>6. \A f : Positions(f)' = Positions(f)
      BY <2>1, PositionsKept
    <2>7. \A i \in 1..Len(position') : position'[i] \in Positions(kept[i])'
      BY <2>2, <2>4, <2>5, <2>6 DEF MapInv, Mapped
    <2>8. Mapped'
      BY <2>1, <2>4, <2>5, <2>7 DEF MapInv, Mapped
    <2>9. FilesNamed' /\ FilesRaised'
      BY <2>1, <2>5 DEF MapInv, FilesNamed, FilesRaised
    <2>10. QED
      BY <2>8, <2>9 DEF MapInv
  <1>7. CASE Compose
    <2>1. /\ stage = "map" /\ stage' = "post" /\ UNCHANGED <<dedupVars, mappingVars, calls, review>>
          /\ payload' = [comments |-> {i \in Indices : position[i].line # 0}, body |-> Unmapped]
          /\ Len(position) = Len(kept)
      BY <1>7 DEF Compose
    <2>2. payload'.comments = {i \in Indices : position[i].line # 0}
      BY <2>1
    <2>3. QED
      BY <2>1, <2>2, PositionsKept DEF MapInv, FilesNamed, FilesRaised, Mapped, mappingVars,
                                       dedupVars, Indices
  <1>8. CASE TimeLimit \/ PostReview \/ PostSummaryOnly \/ PostFails \/ UNCHANGED vars
    <2>1. UNCHANGED <<raw, kept, diff, parsed, path, hunks, open, newLine, position, payload>>
      BY <1>8 DEF TimeLimit, PostReview, PostSummaryOnly, PostFails, vars, dedupVars, mappingVars
    <2>2. \/ stage' = stage
          \/ stage' = "raised"
          \/ stage = "post" /\ stage' = "posted"
      BY <1>8 DEF TimeLimit, PostReview, PostSummaryOnly, PostFails, vars
    <2>3. \A f : Positions(f)' = Positions(f)
      BY <2>1, PositionsKept
    <2>4. QED
      BY <2>1, <2>2, <2>3 DEF MapInv, FilesNamed, FilesRaised, Mapped, Indices
  <1>9. QED
    BY <1>2, <1>3, <1>4, <1>5, <1>6, <1>7, <1>8 DEF Next

\* At first there are no hunks, findings or positions.
LEMMA MapInitial == Init => MapInv
  <1> SUFFICES ASSUME Init PROVE MapInv
    OBVIOUS
  <1>1. hunks = <<>> /\ kept = <<>> /\ position = <<>> /\ payload = Nothing /\ stage = "dedup"
    BY DEF Init, DedupInit, MappingInit
  <1>2. Len(hunks) = 0 /\ Len(kept) = 0 /\ Len(position) = 0 /\ payload.comments = {}
    BY <1>1 DEF Nothing
  <1>3. QED
    BY <1>1, <1>2 DEF MapInv, FilesNamed, FilesRaised, Mapped

\* The inductive invariant of the comments.
THEOREM CommentInvariant == Spec => [](RankInv /\ DiffInv /\ MapInv)
  <1>1. DedupInv /\ RankInv /\ DiffInv /\ MapInv /\ [Next]_vars => MapInv'
    BY MapStep
  <1>2. QED
    BY <1>1, MapInitial, AggregationInvariant, DiffInvariant, PTL DEF Spec

\* A comment goes to a changed line of a hunk of the parser that the finding
\* touches, and begins on an earlier line of it.
LEMMA PositionInHunk ==
  ASSUME hunks \in Seq(Hunk), NEW f \in Entry, NEW p \in Positions(f), p.line # 0
  PROVE  \E i \in 1..Len(hunks) :
            /\ hunks[i].file = f.file /\ p.line \in hunks[i].modified
            /\ p.start # 0 => p.start \in All(hunks[i]) /\ p.start < p.line
  <1>1. Touched(f) # {}
    BY DEF Positions, Outside
  <1>2. PICK i \in Touched(f) : FirstTouched(f) = hunks[i] /\ i \in 1..Len(hunks)
    BY <1>1, FirstTouchedExists
  <1>3. hunks[i].file = f.file
    BY <1>2 DEF Touched
  <1>4. PICK h : h = hunks[i] /\ h = FirstTouched(f)
    BY <1>2
  <1>5. CASE f.end \in h.modified
    <2>1. Positions(f) = {[line |-> f.end,
                           start |-> IF f.line < f.end /\ f.line \in All(h) THEN f.line ELSE 0]}
      BY <1>1, <1>4, <1>5 DEF Positions, All
    <2>2. QED
      BY <1>2, <1>3, <1>4, <1>5, <2>1
  <1>6. CASE f.end \in h.context \ h.modified
    <2>1. Positions(f) = IF h.modified = {} THEN {Outside}
                         ELSE {[line |-> n, start |-> 0] : n \in Nearest(h.modified, f.end)}
      BY <1>1, <1>4, <1>6 DEF Positions, All
    <2>2. \E n \in Nearest(h.modified, f.end) : p = [line |-> n, start |-> 0]
      BY <2>1 DEF Outside
    <2>3. QED
      BY <1>2, <1>3, <1>4, <2>2 DEF Nearest
  <1>7. CASE f.end \notin All(h)
    <2>1. f.line \in h.modified /\ p = [line |-> f.line, start |-> 0]
      BY <1>1, <1>4, <1>7 DEF Positions, Outside, All
    <2>2. QED
      BY <1>2, <1>3, <1>4, <2>1
  <1>8. QED
    BY <1>5, <1>6, <1>7 DEF All

\* No finding is of a file that only a misread header names.
OwnNames(in) ==
    \A n \in 1..Len(in.raw), p \in 1..Len(in.diff) :
       in.diff[p].kind \in Naming /\ NameRead[in.diff[p].name] = in.raw[n].file =>
          \E q \in 1..Len(in.diff) : in.diff[q].kind = "+++" /\ in.diff[q].name = in.raw[n].file

\* GitHub takes every comment, of any findings and for any diff in which no
\* header is misread as a file of the findings.
THEOREM AggregationCommentAccepted ==
  ASSUME \A in \in Inputs : OwnNames(in)
  PROVE  Spec => []CommentAccepted
  <1>1. RankInv /\ DiffInv /\ MapInv => CommentAccepted
    <2> SUFFICES ASSUME RankInv, DiffInv, MapInv, NamesApart, NEW i \in payload.comments
                 PROVE  \E h \in HunksOf(kept[i].file) :
                           /\ position[i].line \in Added(h)
                           /\ position[i].start # 0 =>
                                position[i].start \in Shown(h) /\ position[i].start < position[i].line
      BY DEF CommentAccepted
    <2>1. /\ MappingTypeOK /\ hunks \in Seq(Hunk) /\ kept \in Seq(Entry)
          /\ position \in Seq(Position) /\ Len(position) <= Len(kept)
          /\ Len(position) \in Nat /\ Len(kept) \in Nat
      BY DEF RankInv, TypeOK, DedupTypeOK, MappingTypeOK
    <2>2. i \in 1..Len(position) /\ position[i].line # 0 /\ position[i] \in Positions(kept[i])
      BY DEF MapInv, Mapped
    <2>3. i \in 1..Len(kept) /\ kept[i] \in Entry
      BY <2>1, <2>2
    <2>4. PICK j \in 1..Len(hunks) :
             /\ hunks[j].file = kept[i].file /\ position[i].line \in hunks[j].modified
             /\ position[i].start # 0 =>
                  position[i].start \in All(hunks[j]) /\ position[i].start < position[i].line
      BY <2>1, <2>2, <2>3, PositionInHunk
    <2>5. kept[i].file \in Owned
      <3>1. PICK q \in 1..Len(diff) : diff[q].kind \in Naming /\ kept[i].file = NameRead[diff[q].name]
        BY <2>4 DEF MapInv, FilesNamed
      <3>2. PICK n \in 1..Len(raw) : kept[i].file = raw[n].file
        BY <2>3 DEF MapInv, FilesRaised
      <3>3. PICK in \in Inputs : raw = in.raw /\ diff = in.diff
        BY DEF DiffInv
      <3>4. OwnNames(in)
        BY <3>3
      <3>5. n \in 1..Len(in.raw) /\ q \in 1..Len(in.diff)
        BY <3>1, <3>2, <3>3
      <3>6. in.diff[q].kind \in Naming /\ NameRead[in.diff[q].name] = in.raw[n].file
        BY <3>1, <3>2, <3>3
      <3>7. PICK s \in 1..Len(diff) : diff[s].kind = "+++" /\ diff[s].name = kept[i].file
        BY <3>2, <3>3, <3>4, <3>5, <3>6 DEF OwnNames
      <3>8. QED
        BY <3>7 DEF Owned
    <2>6. ParseSound
      BY <2>1, ReadingAgrees
    <2>7. PICK h \in HunksOf(hunks[j].file) :
             hunks[j].modified \subseteq Added(h) /\ All(hunks[j]) \subseteq Shown(h)
      BY <2>4, <2>5, <2>6 DEF ParseSound
    <2>8. QED
      BY <2>4, <2>7
  <1>2. QED
    BY <1>1, CommentInvariant, PTL

\* Every hunk has an owner, and a number of its body is not 0.
LEMMA OwnerNamed ==
  ASSUME diff \in Seq(DiffLine), WellFormed(diff), NEW h \in 1..Len(diff), diff[h].kind = "@@"
  PROVE  Owner(h) \in Owned /\ \A n \in Shown(h) : n # 0
  <1> DEFINE S == Headers("+++", h)
  <1>1. Len(diff) \in Nat /\ S \in SUBSET (0..Len(diff))
    BY DEF Headers
  <1>2. S # {}
    BY DEF WellFormed, Headers
  <1>3. Last(S) \in S
    BY <1>1, <1>2, LastIn
  <1>4. Last(S) \in 1..Len(diff) /\ diff[Last(S)].kind = "+++"
    BY <1>1, <1>3 DEF Headers
  <1>5. Owner(h) \in Owned
    BY <1>4 DEF Owner, Owned
  <1>6. ASSUME NEW q \in BodyOf(h) PROVE Number(h, q) # 0
    <2>1. q \in 1..Len(diff)
      BY <1>1 DEF BodyOf
    <2>2. h < q /\ diff[q].kind \in NewLines /\ \A r \in (h + 1)..(q - 1) : diff[r].kind # "@@"
      BY <2>1, BodyLine
    <2>3. diff[h].no > 0
      BY <2>1, <2>2 DEF WellFormed
    <2>4. Cardinality({r \in BodyOf(h) : r < q}) \in Nat
      <3>1. {r \in BodyOf(h) : r < q} \in SUBSET (1..Len(diff)) /\ IsFiniteSet(1..Len(diff))
        <4>1. BodyOf(h) \in SUBSET (1..Len(diff))
          BY <1>1 DEF BodyOf
        <4>2. IsFiniteSet(1..Len(diff))
          <5>1. 1 \in Int /\ Len(diff) \in Int
            BY <1>1
          <5>2. QED
            BY <5>1, FS_Interval
        <4> DEFINE T == {r \in BodyOf(h) : r < q}
        <4>3. T \subseteq BodyOf(h)
          OBVIOUS
        <4> HIDE DEF T
        <4>4. T \in SUBSET (1..Len(diff))
          BY <4>1, <4>3
        <4>5. QED
          BY <4>2, <4>4 DEF T
      <3>2. QED
        BY <3>1, FS_Subset, FS_CardinalityType
    <2>5. diff[h] \in DiffLine
      OBVIOUS
    <2>6. diff[h].no \in Nat
      BY <2>5 DEF DiffLine
    <2>7. QED
      BY <2>3, <2>4, <2>6 DEF Number
  <1>7. QED
    BY <1>5, <1>6 DEF Shown

\* Where the parser misreads nothing, the first hunk a finding touches is the
\* one it ends in, unless it begins in an earlier one.
LEMMA EndsInHunk ==
  ASSUME MappingTypeOK, DiffInv, parsed = Len(diff), WellFormed(diff), Plain, NamesApart,
         NEW f \in Entry, NameRead[f.file] = f.file, NEW h \in HunksOf(f.file),
         f.end \in Added(h),
         \A g \in HunksOf(f.file) : g < h => {f.line, f.end} \cap Shown(g) = {}
  PROVE  Touched(f) # {} /\ f.end \in FirstTouched(f).modified /\ f.end # 0
  <1>1. PICK hd \in [1..Len(hunks) -> 1..parsed] : ReadAs(hd)
    BY DEF DiffInv, ParserInv
  <1>2. /\ diff \in Seq(DiffLine) /\ Len(diff) \in Nat /\ hunks \in Seq(Hunk) /\ Len(hunks) \in Nat
        /\ h \in 1..Len(diff) /\ diff[h].kind = "@@" /\ Owner(h) = f.file
    BY DEF MappingTypeOK, HunksOf
  <1>3. f.file \in Owned /\ f.end # 0
    <2>1. f.end \in Shown(h)
      BY DEF Added, Shown
    <2>2. QED
      BY <1>2, <2>1, OwnerNamed
  <1>4. PICK i \in 1..Len(hunks) : hd[i] = h
    BY <1>1, <1>2 DEF ReadAs
  <1>5. \A j \in 1..Len(hunks) : /\ hd[j] \in 1..Len(diff) /\ diff[hd[j]].kind = "@@"
                                 /\ HunkRead(j, hd[j])
    BY <1>1 DEF ReadAs
  <1>6. hunks[i].file = f.file /\ f.end \in hunks[i].modified
    <2>1. /\ hunks[i].file = NameRead[Owner(h)]
          /\ \A q \in BodyOf(h) :
                q <= parsed /\ diff[q].kind # "context" => Number(h, q) \in hunks[i].modified
      BY <1>4, <1>5 DEF HunkRead
    <2>2. PICK q \in BodyOf(h) : diff[q].kind # "context" /\ f.end = Number(h, q)
      BY DEF Added
    <2>3. q <= parsed
      BY <1>2, <2>2 DEF BodyOf
    <2>4. QED
      BY <1>2, <2>1, <2>2, <2>3
  <1>7. i \in Touched(f)
    BY <1>6 DEF Touched, All
  <1>8. ASSUME NEW j \in Touched(f) PROVE ~ (j < i)
    <2> SUFFICES ASSUME j < i PROVE FALSE
      OBVIOUS
    <2>1. j \in 1..Len(hunks) /\ hunks[j].file = f.file /\ {f.end, f.line} \cap All(hunks[j]) # {}
      BY DEF Touched
    <2>2. hd[j] < h
      BY <1>1, <1>4, <2>1 DEF ReadAs
    <2>3. Owner(hd[j]) = f.file /\ All(hunks[j]) \subseteq Shown(hd[j])
      BY <1>3, <1>5, <2>1 DEF HunkRead
    <2>4. hd[j] \in HunksOf(f.file)
      BY <1>5, <2>1, <2>3 DEF HunksOf
    <2>5. {f.line, f.end} \cap Shown(hd[j]) = {}
      BY <2>2, <2>4
    <2>6. QED
      BY <2>1, <2>3, <2>5
  <1>9. PICK k \in Touched(f) : /\ FirstTouched(f) = hunks[k] /\ k \in 1..Len(hunks)
                                /\ \A j \in Touched(f) : k <= j
    BY <1>2, <1>7, FirstTouchedExists
  <1>10. k = i
    BY <1>2, <1>4, <1>7, <1>8, <1>9
  <1>11. QED
    BY <1>3, <1>6, <1>7, <1>9, <1>10

\* A finding that ends on a changed line gets its comment there: of any findings
\* and for any diff as git writes it.
THEOREM AggregationChangedLineCommented ==
  ASSUME \A in \in Inputs : WellFormed(in.diff)
  PROVE  Spec => []ChangedLineCommented
  <1>1. RankInv /\ DiffInv /\ MapInv => ChangedLineCommented
    <2> SUFFICES ASSUME RankInv, DiffInv, MapInv, stage \in {"post", "posted"}, Plain, NamesApart,
                        NEW i \in Indices, NameRead[kept[i].file] = kept[i].file,
                        NEW h \in HunksOf(kept[i].file), kept[i].end \in Added(h),
                        \A g \in HunksOf(kept[i].file) :
                           g < h => {kept[i].line, kept[i].end} \cap Shown(g) = {}
                 PROVE  i \in payload.comments /\ position[i].line = kept[i].end
      BY DEF ChangedLineCommented
    <2>1. /\ MappingTypeOK /\ kept \in Seq(Entry) /\ Len(kept) \in Nat
          /\ Len(position) = Len(kept) /\ position[i] \in Positions(kept[i])
          /\ payload.comments = {k \in Indices : position[k].line # 0}
      BY DEF RankInv, TypeOK, DedupTypeOK, MapInv, Mapped, Indices
    <2>2. kept[i] \in Entry
      BY <2>1 DEF Indices
    <2>3. parsed = Len(diff)
      BY <2>1 DEF MapInv, Mapped, Indices
    <2>4. WellFormed(diff)
      BY DEF DiffInv
    <2>5. PICK f \in Entry : f = kept[i]
      BY <2>2
    <2>6. Touched(f) # {} /\ f.end \in FirstTouched(f).modified /\ f.end # 0
      BY <2>1, <2>3, <2>4, <2>5, EndsInHunk
    <2>7. PICK g : g = FirstTouched(f)
      OBVIOUS
    <2>8. Positions(f) = {[line |-> f.end,
                           start |-> IF f.line < f.end /\ f.line \in All(g) THEN f.line ELSE 0]}
      BY <2>6, <2>7 DEF Positions, All
    <2>9. position[i].line = f.end
      BY <2>1, <2>5, <2>8
    <2>10. QED
      BY <2>1, <2>5, <2>6, <2>9
  <1>2. QED
    BY <1>1, CommentInvariant, PTL
=============================================================================
