--------------------------- MODULE OperatorProofs ---------------------------
(***************************************************************************)
(* The agent's synchronous code, where a method is one step.  What its     *)
(* functions return, for every argument: the grading of access events, the *)
(* pages of the read side, the purge of the audit log, the validated       *)
(* configuration, the registry, the in-memory deployer, the feed of access *)
(* events and the timeline of a report.  At the end the one synchronous    *)
(* component with a state of its own, the trainer and its feedback loop.   *)
(***************************************************************************)
EXTENDS ThreatClassifier, QuerySupport, AuditLog, Config, HoneytokenRegistry,
        MemoryDeployer, AccessEventFeed, ForensicReport, Learning,
        SequenceFilterLemmas, FiniteSetTheorems

---------------------------------------------------------------------------
(* Threat classification                                                   *)

\* Context d is at least as risky as context c in each respect.
AtLeastAsRisky(d, c) ==
    /\ c.namespace = "production" => d.namespace = "production"
    /\ d.criticality >= c.criticality
    /\ d.anomaly >= c.anomaly

\* Context d is context c with its missing fields filled in somehow.
Completes(d, c) ==
    /\ c.namespace \in {d.namespace, Missing}
    /\ c.criticality \in {d.criticality, Missing}
    /\ c.anomaly \in {d.anomaly, Missing}

LEMMA CompleteContextFields ==
    ASSUME NEW c \in CompleteContexts
    PROVE  /\ c.namespace \in Namespaces
           /\ c.criticality \in 1 .. 5
           /\ c.anomaly \in 0 .. 10
BY DEF CompleteContexts

\* The four classes in increasing order.
LEMMA SeverityOfClasses ==
    /\ Severity("low") = 0 /\ Severity("medium") = 1
    /\ Severity("high") = 2 /\ Severity("critical") = 3
BY DEF Severity

\* The rules of classifyFromInputs never grade a riskier context less severely:
\* no context falls between two rules (threat-classifier.ts:101-130).
THEOREM Monotone ==
    ASSUME NEW c \in CompleteContexts, NEW d \in CompleteContexts,
           AtLeastAsRisky(d, c)
    PROVE  Severity(ClassifyThreat(c)) <= Severity(ClassifyThreat(d))
<1>1. /\ c.namespace \in Namespaces /\ c.criticality \in 1 .. 5 /\ c.anomaly \in 0 .. 10
      /\ d.namespace \in Namespaces /\ d.criticality \in 1 .. 5 /\ d.anomaly \in 0 .. 10
  BY CompleteContextFields
<1>2. /\ c.anomaly # Missing /\ c.criticality # Missing
      /\ d.anomaly # Missing /\ d.criticality # Missing
  BY <1>1, ClassifierAssumption
<1>3. IsCritical(c) => IsCritical(d)
  BY <1>1, <1>2 DEF IsCritical, AtLeastAsRisky
<1>4. IsHigh(c) => IsCritical(d) \/ IsHigh(d)
  BY <1>1, <1>2 DEF IsCritical, IsHigh, AtLeastAsRisky
<1>5. IsLow(d) => IsLow(c) /\ ~IsCritical(c) /\ ~IsHigh(c)
  BY <1>1, <1>2 DEF IsCritical, IsHigh, IsLow, AtLeastAsRisky
<1> QED  BY <1>3, <1>4, <1>5, SeverityOfClasses DEF ClassifyThreat

\* The defaults are the worst that the missing fields could have been
\* (threat-classifier.ts:5-6): no way to complete the context is graded more
\* severely than the context with its defaults.
THEOREM DefaultsNeverLower ==
    ASSUME NEW c \in PodContexts, NEW d \in CompleteContexts, Completes(d, c)
    PROVE  Severity(ClassifyThreat(d)) <= Severity(ClassifyThreatWithDefaults(c))
<1> DEFINE worst == ApplyDefaults(c)
<1>1. d.namespace \in Namespaces /\ d.criticality \in 1 .. 5 /\ d.anomaly \in 0 .. 10
  BY CompleteContextFields
<1>2. worst \in CompleteContexts
  BY DEF ApplyDefaults, PodContexts, CompleteContexts, Namespaces
<1>3. AtLeastAsRisky(worst, d)
  BY <1>1, ClassifierAssumption DEF ApplyDefaults, AtLeastAsRisky, Completes, Namespaces
<1> HIDE DEF worst
<1>4. Severity(ClassifyThreat(d)) <= Severity(ClassifyThreat(worst))
  BY <1>2, <1>3, Monotone
<1> QED  BY <1>4 DEF worst, ClassifyThreatWithDefaults

---------------------------------------------------------------------------
(* Queries and the audit log                                               *)

\* Division rounded up bounds the number of full pages from both sides.
LEMMA RoundedUp ==
  ASSUME NEW n \in Nat, NEW size \in Nat \ {0}
  PROVE  /\ TotalPages(n, size) \in Nat \ {0}
         /\ n <= size * TotalPages(n, size)
<1> DEFINE t == (n + size - 1) \div size
<1>1. n + size - 1 \in Nat
  OBVIOUS
<1>2. /\ t \in Nat
      /\ n + size - 1 = size * t + ((n + size - 1) % size)
      /\ (n + size - 1) % size \in 0 .. size - 1
  BY <1>1, SMT
<1>3. n <= size * t
  <2> HIDE DEF t
  <2>1. size * t \in Nat
    BY <1>2
  <2> QED BY <1>2, <2>1
<1>4. CASE t >= 1
  BY <1>2, <1>3, <1>4 DEF TotalPages, AtLeastOne
<1>5. CASE t < 1
  <2>1. t = 0 /\ size * t = 0
    BY <1>2, <1>5
  <2>2. n = 0
    BY <1>3, <2>1
  <2> QED BY <2>1, <2>2 DEF TotalPages, AtLeastOne
<1> QED BY <1>2, <1>4, <1>5

\* The page on which the k-th entry is.
LEMMA PageOfEntry ==
  ASSUME NEW size \in Nat \ {0}, NEW k \in Nat \ {0}
  PROVE  \E p \in Nat \ {0} : (p - 1) * size < k /\ k <= (p - 1) * size + size
<1> DEFINE q == (k - 1) \div size
<1>1. /\ q \in Nat
      /\ k - 1 = size * q + ((k - 1) % size)
      /\ (k - 1) % size \in 0 .. size - 1
  BY SMT
<1>2. size * q = q * size /\ q * size \in Nat
  BY <1>1
<1>3. q * size < k /\ k <= q * size + size
  <2> HIDE DEF q
  <2> QED BY <1>1, <1>2
<1>4. q + 1 \in Nat \ {0} /\ (q + 1) - 1 = q
  BY <1>1
<1> HIDE DEF q
<1> QED BY <1>3, <1>4

\* No entry is on two pages.
LEMMA PagesAreDisjoint ==
  ASSUME NEW size \in Nat \ {0}, NEW k \in Nat,
         NEW p \in Nat \ {0}, NEW r \in Nat \ {0}, p < r,
         k <= (p - 1) * size + size, (r - 1) * size < k
  PROVE  FALSE
<1>1. (r - 1) * size = (p - 1) * size + (r - p) * size
  BY SMT
<1>2. (r - p) * size >= size
  <2>1. r - p - 1 \in Nat /\ (r - p - 1) * size \in Nat
    OBVIOUS
  <2>2. (r - p) * size = (r - p - 1) * size + size
    BY SMT
  <2> QED BY <2>1, <2>2
<1>3. (p - 1) * size \in Int /\ (r - p) * size \in Int /\ (r - 1) * size \in Int
  OBVIOUS
<1> QED BY <1>1, <1>2, <1>3

---------------------------------------------------------------------------
\* The entries on page p, the numbers of the pages, and the k-th entry on page p.
PageItems(items, size, p) == Paginate(items, p, size).items

Pages(items, size) == 1 .. Paginate(items, 1, size).totalPages

OnPage(items, size, p, k) ==
    LET j == k - (p - 1) * size
    IN  /\ j \in 1 .. Len(PageItems(items, size, p))
        /\ PageItems(items, size, p)[j] = items[k]

\* What a page holds: the entries from the place where it starts, no more of them
\* than its size.
LEMMA PageEntries ==
  ASSUME NEW S, NEW items \in Seq(S), NEW size \in Nat \ {0}, NEW p \in Nat \ {0}
  PROVE  /\ PageItems(items, size, p) \in Seq(S)
         /\ Len(PageItems(items, size, p)) <= size
         /\ \A j \in 1 .. Len(PageItems(items, size, p)) :
                /\ (p - 1) * size + j \in 1 .. Len(items)
                /\ PageItems(items, size, p)[j] = items[(p - 1) * size + j]
         /\ \A k \in 1 .. Len(items) :
                (p - 1) * size < k /\ k <= (p - 1) * size + size
                  => k - (p - 1) * size \in 1 .. Len(PageItems(items, size, p))
<1> DEFINE start == (p - 1) * size
           last == IF start + size <= Len(items) THEN start + size ELSE Len(items)
           page == SubSeq(items, start + 1, last)
<1>1. start \in Nat
  <2>1. p - 1 \in Nat
    OBVIOUS
  <2> QED BY <2>1
<1>2. PageItems(items, size, p) = page
  BY DEF PageItems, Paginate, Slice
<1> HIDE DEF start
<1>3. last \in Nat /\ last <= Len(items) /\ last <= start + size
  BY <1>1
<1>4. /\ page \in Seq(S)
      /\ Len(page) = IF start + 1 <= last THEN last - start ELSE 0
      /\ \A j \in 1 .. Len(page) : page[j] = items[start + j]
  <2>1. \A i \in start + 1 .. last : items[i] \in S
    <3> HIDE DEF last
    <3> QED BY <1>1, <1>3
  <2> HIDE DEF last
  <2>2. start + 1 \in Int /\ last \in Int
    BY <1>1, <1>3
  <2>3. /\ page \in Seq(S)
        /\ Len(page) = IF start + 1 <= last THEN last - (start + 1) + 1 ELSE 0
        /\ \A j \in 1 .. last - (start + 1) + 1 : page[j] = items[(start + 1) + j - 1]
    BY <2>1, <2>2, SubSeqProperties
  <2> HIDE DEF page
  <2> QED BY <1>1, <1>3, <2>3
<1>5. Len(page) <= size /\ \A j \in 1 .. Len(page) : start + j \in 1 .. Len(items)
  <2> HIDE DEF last, page
  <2> QED BY <1>1, <1>3, <1>4
<1>6. ASSUME NEW k \in 1 .. Len(items), start < k, k <= start + size
      PROVE  k - start \in 1 .. Len(page)
  <2>1. k <= last
    BY <1>6
  <2> HIDE DEF last, page
  <2> QED BY <1>1, <1>3, <1>4, <1>6, <2>1
<1> HIDE DEF page, last
<1> QED BY <1>2, <1>4, <1>5, <1>6 DEF start

(***************************************************************************)
(* Every entry of a list is on exactly one of its pages, at the place its  *)
(* position in the list gives it, and no page is longer than its size:     *)
(* what a reader who walks the pages from 1 to totalPages relies on.       *)
(***************************************************************************)
THEOREM PagesPartition ==
  ASSUME NEW S, NEW items \in Seq(S), NEW size \in Nat \ {0}
  PROVE  /\ \A p \in Pages(items, size) : Len(PageItems(items, size, p)) <= size
         /\ \A k \in 1 .. Len(items) :
              \E p \in Pages(items, size) :
                 /\ OnPage(items, size, p, k)
                 /\ \A r \in Pages(items, size) \ {p} : ~ OnPage(items, size, r, k)
<1> DEFINE total == TotalPages(Len(items), size)
           page(p) == PageItems(items, size, p)
           On(p, k) == OnPage(items, size, p, k)
<1>1. Pages(items, size) = 1 .. total
  BY DEF Pages, Paginate
<1>2. total \in Nat \ {0} /\ Len(items) <= size * total
  <2>1. Len(items) \in Nat
    OBVIOUS
  <2> HIDE DEF total
  <2> QED BY <2>1, RoundedUp DEF total
<1> HIDE DEF total
<1>3. ASSUME NEW p \in 1 .. total
      PROVE  /\ page(p) \in Seq(S) /\ Len(page(p)) <= size
             /\ \A j \in 1 .. Len(page(p)) :
                    (p - 1) * size + j \in 1 .. Len(items) /\ page(p)[j] = items[(p - 1) * size + j]
             /\ \A k \in 1 .. Len(items) :
                    (p - 1) * size < k /\ k <= (p - 1) * size + size
                      => k - (p - 1) * size \in 1 .. Len(page(p))
  <2>1. p \in Nat \ {0}
    BY <1>2
  <2> QED BY <2>1, PageEntries
<1> HIDE DEF page
<1>4. ASSUME NEW p \in 1 .. total, NEW k \in 1 .. Len(items), On(p, k)
      PROVE  (p - 1) * size < k /\ k <= (p - 1) * size + size
  <2>1. (p - 1) * size \in Int
    BY <1>2
  <2>2. k - (p - 1) * size \in 1 .. size
    BY <1>3, <1>4 DEF OnPage, page
  <2> DEFINE start == (p - 1) * size
  <2> HIDE DEF start
  <2> QED BY <2>1, <2>2 DEF start
<1>5. ASSUME NEW k \in 1 .. Len(items)
      PROVE  \E p \in 1 .. total : On(p, k) /\ \A r \in (1 .. total) \ {p} : ~ On(r, k)
  <2>1. k \in Nat \ {0} /\ k <= size * total
    BY <1>2
  <2>2. PICK p \in Nat \ {0} : (p - 1) * size < k /\ k <= (p - 1) * size + size
    BY <2>1, PageOfEntry
  <2>3. p \in 1 .. total
    <3>1. SUFFICES ASSUME total < p PROVE FALSE
      BY <1>2, <2>2
    <3>2. p - 1 - total \in Nat
      BY <1>2, <2>2, <3>1
    <3>3. (p - 1) * size = size * total + (p - 1 - total) * size
      BY <1>2, <2>2, SMT
    <3>4. (p - 1 - total) * size \in Nat /\ size * total \in Nat /\ (p - 1) * size \in Int
      BY <1>2, <2>2, <3>2
    <3> QED BY <2>1, <2>2, <3>3, <3>4
  <2>4. On(p, k)
    <3>1. k - (p - 1) * size \in 1 .. Len(page(p))
      BY <1>3, <2>2, <2>3
    <3>2. page(p)[k - (p - 1) * size] = items[(p - 1) * size + (k - (p - 1) * size)]
      BY <1>3, <2>3, <3>1
    <3>3. (p - 1) * size + (k - (p - 1) * size) = k
      BY <2>2
    <3> QED BY <3>1, <3>2, <3>3 DEF OnPage, page
  <2>5. ASSUME NEW r \in (1 .. total) \ {p}, On(r, k)
        PROVE  FALSE
    <3>1. (r - 1) * size < k /\ k <= (r - 1) * size + size
      BY <1>4, <2>5
    <3>2. CASE p < r
      BY <1>2, <2>1, <2>2, <3>1, <3>2, PagesAreDisjoint
    <3>3. CASE r < p
      BY <1>2, <2>1, <2>2, <3>1, <3>3, PagesAreDisjoint
    <3> QED BY <1>2, <2>3, <3>2, <3>3
  <2> HIDE DEF On
  <2> QED BY <2>3, <2>4, <2>5
<1> QED BY <1>1, <1>3, <1>5 DEF page

(***************************************************************************)
(* A query of the timeline loses no incident that matches and shows no     *)
(* other: over all its pages, none of which has more than 500 entries.     *)
(***************************************************************************)
THEOREM QueryIsComplete ==
  ASSUME NEW S, NEW incidents \in Seq(S), NEW filter \in IncidentTimelineFilter,
         IncidentPageSize(filter) \in Nat \ {0}
  PROVE  LET Query(p) == QueryIncidentTimeline(incidents, [filter EXCEPT !.page = p])
             pages == 1 .. Query(1).totalPages
         IN  /\ \A p \in pages : Len(Query(p).items) <= MaxIncidentPageSize
             /\ UNION {Range(Query(p).items) : p \in pages}
                  = {i \in Range(incidents) : IncidentMatches(i, filter)}
<1> DEFINE Query(p) == QueryIncidentTimeline(incidents, [filter EXCEPT !.page = p])
           matching == {i \in Range(incidents) : IncidentMatches(i, filter)}
           found == KeepIn(incidents, matching)
           size == IncidentPageSize(filter)
           pages == 1 .. TotalPages(Len(found), size)
<1>1. found \in Seq(S) /\ Range(found) = matching
  <2>1. found \in Seq(S) /\ Range(found) = Range(incidents) \cap matching
    <3> HIDE DEF matching
    <3> QED BY KeepInProperties
  <2> QED BY <2>1
<1>2. ASSUME NEW p \in Nat \ {0}
      PROVE  Query(p) = Paginate(found, p, size)
  <2> DEFINE f == [filter EXCEPT !.page = p]
  <2>1. /\ f.page = p /\ f.pageSize = filter.pageSize
        /\ f.dateRangeStart = filter.dateRangeStart /\ f.dateRangeEnd = filter.dateRangeEnd
        /\ f.threatClassification = filter.threatClassification
        /\ f.namespace = filter.namespace /\ f.responseOutcome = filter.responseOutcome
    BY DEF IncidentTimelineFilter
  <2> HIDE DEF f
  <2>2. AtLeastOne(f.page) = p
    BY <2>1 DEF AtLeastOne
  <2>3. IncidentPageSize(f) = size
    BY <2>1, Zenon DEF IncidentPageSize
  <2>4. {i \in Range(incidents) : IncidentMatches(i, f)} = matching
    <3>1. ASSUME NEW i PROVE IncidentMatches(i, f) <=> IncidentMatches(i, filter)
      BY <2>1, Zenon DEF IncidentMatches
    <3> QED BY <3>1, Zenon
  <2>5. QueryIncidentTimeline(incidents, f)
          = Paginate(KeepIn(incidents, {i \in Range(incidents) : IncidentMatches(i, f)}),
                     AtLeastOne(f.page), IncidentPageSize(f))
    BY Zenon DEF QueryIncidentTimeline
  <2> QED BY <2>2, <2>3, <2>4, <2>5, Zenon DEF f
<1>3. size \in Nat \ {0} /\ size <= MaxIncidentPageSize
  BY DEF IncidentPageSize, MaxIncidentPageSize
<1> HIDE DEF size, found, matching, Query
<1>4. /\ Pages(found, size) = pages
      /\ \A k \in 1 .. Len(found) : \E p \in pages : OnPage(found, size, p, k)
  <2>1. Pages(found, size) = pages
    BY DEF Pages, Paginate
  <2> QED BY <1>1, <1>3, <2>1, PagesPartition
<1>5. ASSUME NEW p \in pages
      PROVE  p \in Nat \ {0} /\ Query(p).items = PageItems(found, size, p)
  <2>1. TotalPages(Len(found), size) \in Nat
    BY <1>1, <1>3, RoundedUp
  <2>2. p \in Nat \ {0}
    BY <2>1
  <2> QED BY <1>2, <2>2 DEF PageItems
<1>6. 1 .. Query(1).totalPages = pages
  <2>1. Query(1) = Paginate(found, 1, size)
    BY <1>2
  <2> QED BY <2>1 DEF Paginate
<1> HIDE DEF pages
<1>7. ASSUME NEW p \in pages PROVE Range(Query(p).items) \subseteq matching
  <2> DEFINE page == PageItems(found, size, p)
  <2>1. /\ page \in Seq(S)
        /\ \A j \in 1 .. Len(page) :
               (p - 1) * size + j \in 1 .. Len(found) /\ page[j] = found[(p - 1) * size + j]
    BY <1>1, <1>3, <1>5, PageEntries
  <2> HIDE DEF page
  <2>2. \A j \in 1 .. Len(page) : page[j] \in Range(found)
    BY <1>1, <2>1 DEF Range
  <2>3. Range(page) \subseteq Range(found)
    BY <2>1, <2>2 DEF Range
  <2> QED BY <1>1, <1>5, <2>3 DEF page
<1>8. ASSUME NEW x \in matching PROVE \E p \in pages : x \in Range(Query(p).items)
  <2>1. PICK k \in 1 .. Len(found) : x = found[k]
    BY <1>1 DEF Range
  <2>2. PICK p \in pages : OnPage(found, size, p, k)
    BY <1>4
  <2> DEFINE page == PageItems(found, size, p)
             j == k - (p - 1) * size
  <2>3. page \in Seq(S)
    BY <1>1, <1>3, <1>5, PageEntries
  <2>4. j \in 1 .. Len(page) /\ page[j] = x
    BY <2>1, <2>2 DEF OnPage
  <2> HIDE DEF page, j
  <2>5. x \in Range(page)
    BY <2>3, <2>4 DEF Range
  <2> QED BY <1>5, <2>5 DEF page
<1>9. UNION {Range(Query(p).items) : p \in pages} = matching
  BY <1>7, <1>8, Zenon
<1>10. \A p \in pages : Len(Query(p).items) <= MaxIncidentPageSize
  <2> SUFFICES ASSUME NEW p \in pages PROVE Len(Query(p).items) <= MaxIncidentPageSize
    OBVIOUS
  <2>1. PageItems(found, size, p) \in Seq(S) /\ Len(PageItems(found, size, p)) <= size
    BY <1>1, <1>3, <1>5, PageEntries
  <2>2. Query(p).items = PageItems(found, size, p)
    BY <1>5
  <2>3. Len(PageItems(found, size, p)) \in Int /\ size \in Int /\ MaxIncidentPageSize \in Int
    BY <1>3, <2>1 DEF MaxIncidentPageSize
  <2> QED BY <1>3, <2>1, <2>2, <2>3
<1> QED BY <1>6, <1>9, <1>10, Zenon DEF Query, matching

---------------------------------------------------------------------------
(***************************************************************************)
(* Whatever the configuration says, purgeExpired removes no entry of the   *)
(* last 90 days, and a query for dates within the retention period finds   *)
(* the same entries before and after it.                                   *)
(***************************************************************************)
THEOREM PurgeHidesNothingRetained ==
  ASSUME ConfiguredDays \in Int, NEW Entries, NEW entries \in Seq(Entries),
         \A e \in Entries : e.timestamp \in Int,
         NEW time \in Int, NEW start \in Int, NEW end \in Int
  PROVE  /\ \A e \in Range(entries) :
                time - e.timestamp <= MinRetentionDays * Day
                  => e \in Range(PurgeExpired(entries, time))
         /\ time - start <= RetentionDays * Day
              => Range(GetByDateRange(PurgeExpired(entries, time), start, end))
                   = Range(GetByDateRange(entries, start, end))
         /\ PurgedCount(entries, time) \in Nat
<1> DEFINE kept == {e \in Range(entries) : ~ Expired(e, time)}
           after == PurgeExpired(entries, time)
           InRange(s) == {e \in Range(s) : start <= e.timestamp /\ e.timestamp <= end}
<1>1. /\ after \in Seq(Entries) /\ Range(after) = Range(entries) \cap kept
      /\ Len(after) <= Len(entries)
  <2> HIDE DEF kept
  <2> QED BY KeepInProperties DEF PurgeExpired, kept
<1>2. Range(after) = kept
  BY <1>1
<1>3. /\ Range(GetByDateRange(after, start, end)) = Range(after) \cap InRange(after)
      /\ Range(GetByDateRange(entries, start, end)) = Range(entries) \cap InRange(entries)
  <2>1. GetByDateRange(after, start, end) = KeepIn(after, InRange(after))
    BY DEF GetByDateRange
  <2>2. GetByDateRange(entries, start, end) = KeepIn(entries, InRange(entries))
    BY DEF GetByDateRange
  <2> HIDE DEF InRange, after
  <2> QED BY <1>1, <2>1, <2>2, KeepInProperties
<1>4. \A e \in Range(entries) : e.timestamp \in Int
  BY DEF Range
<1>5. RetentionDays * Day >= MinRetentionDays * Day /\ RetentionDays * Day \in Int
  BY DEF RetentionDays, MinRetentionDays, Day
<1>6. MinRetentionDays * Day \in Int
  BY DEF MinRetentionDays, Day
<1>7. ASSUME NEW e \in Range(entries), time - e.timestamp <= RetentionDays * Day
      PROVE  e \in kept
  BY <1>4, <1>5, <1>7 DEF Expired
<1>8. ASSUME NEW e \in Range(entries), time - e.timestamp <= MinRetentionDays * Day
      PROVE  e \in Range(after)
  <2>1. time - e.timestamp <= RetentionDays * Day
    BY <1>4, <1>5, <1>6, <1>8
  <2> QED BY <1>2, <1>7, <2>1
<1>9. ASSUME time - start <= RetentionDays * Day
      PROVE  Range(GetByDateRange(after, start, end)) = Range(GetByDateRange(entries, start, end))
  <2>1. ASSUME NEW e \in InRange(entries) PROVE e \in kept
    <3>1. e \in Range(entries) /\ start <= e.timestamp /\ e.timestamp \in Int
      BY <1>4, <2>1
    <3>2. time - e.timestamp <= RetentionDays * Day
      BY <1>5, <1>9, <3>1
    <3> QED BY <1>7, <3>1, <3>2
  <2>2. InRange(after) = InRange(entries)
    BY <1>2, <2>1
  <2> QED BY <1>2, <1>3, <2>1, <2>2
<1>10. PurgedCount(entries, time) \in Nat
  BY <1>1 DEF PurgedCount
<1> QED BY <1>8, <1>9, <1>10

---------------------------------------------------------------------------
(* Configuration                                                           *)

LEMMA DefaultConfigType == DefaultConfig \in Configs
BY DEF DefaultConfig, Configs, Settings

\* The defaults pass the validation (config.ts:69): an agent started without
\* any configuration starts.
THEOREM DefaultsAreAccepted == ValidateConfig(DefaultConfig)
BY DEF ValidateConfig, DefaultConfig

LEMMA MergedType ==
  ASSUME NEW overrides \in Overrides
  PROVE  Merged(overrides) \in Configs
<1>1. PICK given \in SUBSET Settings : overrides \in [given -> Int]
  BY DEF Overrides
<1>2. DefaultConfig \in [Settings -> Int] /\ DOMAIN DefaultConfig = Settings
  BY DefaultConfigType DEF Configs
<1> QED BY <1>1, <1>2 DEF Merged, DeepMerge, Configs

LEMMA SettingsAreNumbers ==
  ASSUME NEW config \in Configs
  PROVE  /\ config.maxBatchSize \in Int /\ config.flushIntervalSeconds \in Int
         /\ config.maxRetries \in Int /\ config.initialBackoffSeconds \in Int
         /\ config.backoffMultiplier \in Int /\ config.intervalMinutes \in Int
         /\ config.intervalSeconds \in Int /\ config.componentTimeoutSeconds \in Int
         /\ config.retrainingIntervalHours \in Int /\ config.retentionDays \in Int
BY DEF Configs, Settings, DefaultConfig

\* What a configuration that validateConfig lets pass (config.ts:134) gives the
\* components that get it (index.ts:81-139), whatever is overridden: a positive
\* batch size, first backoff and multiplier and no negative number of retries;
\* timers and a retraining interval that are positive; a retention of at least
\* the minimum of AuditLog.  IngestionAssumption and LearningAssumption ask two
\* things more of settings, MaxBackoff >= 0 and MinimumOutcomeRecords > 0, which
\* the validation does not give: see UncheckedSettings.
THEOREM AcceptedSettings ==
  ASSUME NEW overrides \in Overrides, NEW config \in LoadConfig(overrides)
  PROVE  /\ IngestionSettings(config).MaxBatchSize \in Nat \ {0}
         /\ IngestionSettings(config).MaxRetries \in Nat
         /\ IngestionSettings(config).InitialBackoff \in Nat \ {0}
         /\ IngestionSettings(config).BackoffMultiplier \in Nat \ {0}
         /\ IngestionSettings(config).FlushInterval \in Nat \ {0}
         /\ MonitorSettings(config).checkIntervalSeconds \in Nat \ {0}
         /\ MonitorSettings(config).componentTimeoutSeconds \in Nat \ {0}
         /\ TrainerSettings(config).retrainingIntervalHours * 60 * 60 * 1000 \in Nat \ {0}
         /\ SchedulerInterval(config) \in 5 .. 1440
         /\ AuditRetention(config) >= MinRetentionDays
<1>1. config = Merged(overrides) /\ ValidateConfig(config)
  BY DEF LoadConfig
<1>2. config \in Configs
  BY <1>1, MergedType
<1>3. /\ config.maxBatchSize > 0 /\ config.flushIntervalSeconds > 0
      /\ config.maxRetries >= 0 /\ config.initialBackoffSeconds > 0
      /\ config.backoffMultiplier >= 1 /\ config.intervalMinutes \in 5 .. 1440
      /\ config.intervalSeconds > 0 /\ config.componentTimeoutSeconds > 0
      /\ config.retrainingIntervalHours \in 1 .. 168 /\ config.retentionDays >= 90
  BY <1>1 DEF ValidateConfig
<1> QED
  BY <1>2, <1>3, SettingsAreNumbers
     DEF IngestionSettings, MonitorSettings, TrainerSettings, SchedulerInterval,
         AuditRetention, MinRetentionDays

\* Any minimumOutcomeRecords and any maxBackoffSeconds is accepted and reaches the
\* trainer and the ingestion clients: 0 records and a negative backoff, which the
\* assumptions of Learning and IngestionClient exclude, are settings the agent
\* starts with.
THEOREM UncheckedSettings ==
  ASSUME NEW records \in Int, NEW seconds \in Int
  PROVE  \E overrides \in Overrides : \E config \in LoadConfig(overrides) :
            /\ TrainerSettings(config).minimumOutcomeRecords = records
            /\ IngestionSettings(config).MaxBackoff = seconds
<1> DEFINE given == {"minimumOutcomeRecords", "maxBackoffSeconds"}
           overrides == [s \in given |-> IF s = "maxBackoffSeconds" THEN seconds ELSE records]
           config == Merged(overrides)
<1>1. given \subseteq Settings
  BY DEF Settings, DefaultConfig
<1>2. overrides \in Overrides
  <2>1. overrides \in [given -> Int]
    OBVIOUS
  <2> QED BY <1>1, <2>1 DEF Overrides
<1>3. \A s \in Settings :
        config[s] = IF s \in given THEN overrides[s] ELSE DefaultConfig[s]
  BY DEF Merged, DeepMerge, Settings
<1>4. /\ config.minimumOutcomeRecords = records
      /\ config.maxBackoffSeconds = seconds
  BY <1>1, <1>3
<1>5. ValidateConfig(config)
  <2>1. \A s \in Settings \ given : config[s] = DefaultConfig[s]
    BY <1>3
  <2>2. {"intervalMinutes", "retrainingIntervalHours", "intervalSeconds", "responseTimeoutSeconds",
         "componentTimeoutSeconds", "maxHoneytokensPerPod", "deploymentTimeoutSeconds",
         "isolationTimeoutSeconds", "retentionDays", "reportRetentionDays", "maxRetries",
         "initialBackoffSeconds", "backoffMultiplier", "maxBatchSize", "flushIntervalSeconds"}
          \subseteq Settings \ given
    BY DEF Settings, DefaultConfig
  <2> HIDE DEF config
  <2>3. ValidateConfig(config) <=> ValidateConfig(DefaultConfig)
    BY <2>1, <2>2 DEF ValidateConfig
  <2> QED BY <2>3, DefaultsAreAccepted
<1>6. config \in LoadConfig(overrides)
  BY <1>5 DEF LoadConfig
<1>7. /\ TrainerSettings(config).minimumOutcomeRecords = records
      /\ IngestionSettings(config).MaxBackoff = seconds
  BY <1>4 DEF TrainerSettings, IngestionSettings
<1> HIDE DEF config, overrides
<1> QED BY <1>2, <1>6, <1>7

---------------------------------------------------------------------------
(* The honeytoken registry                                                 *)

RegistryEntries(PodIds, Paths, Stamps) ==
    [id : Nat, pod : PodIds, path : Paths, namespace : STRING, status : STRING,
     lastAccess : Stamps, accessCount : Nat]

IdsAreUnique(entries) ==
    \A i, j \in DOMAIN entries : entries[i].id = entries[j].id => i = j

\* Map semantics (registry.ts:39): no method gives an id a second entry, and only
\* addEntry and remove change which ids there are.
THEOREM OneEntryPerId ==
  ASSUME NEW PodIds, NEW Paths, NEW Stamps,
         NEW entries \in Seq(RegistryEntries(PodIds, Paths, Stamps)),
         NEW entry \in RegistryEntries(PodIds, Paths, Stamps),
         NEW id, NEW status, NEW timestamp, IdsAreUnique(entries)
  PROVE  /\ IdsAreUnique(AddEntry(entries, entry))
         /\ Ids(AddEntry(entries, entry)) = Ids(entries) \cup {entry.id}
         /\ IdsAreUnique(UpdateStatus(entries, id, status))
         /\ Ids(UpdateStatus(entries, id, status)) = Ids(entries)
         /\ IdsAreUnique(RecordAccess(entries, id, timestamp))
         /\ Ids(RecordAccess(entries, id, timestamp)) = Ids(entries)
         /\ IdsAreUnique(Remove(entries, id))
         /\ Ids(Remove(entries, id)) = Ids(entries) \ {id}
<1> DEFINE E == RegistryEntries(PodIds, Paths, Stamps)
<1>1. IdsAreUnique(AddEntry(entries, entry)) /\ Ids(AddEntry(entries, entry)) = Ids(entries) \cup {entry.id}
  <2>1. CASE entry.id \in Ids(entries)
    BY <2>1 DEF AddEntry, IdsAreUnique, Ids
  <2>2. CASE entry.id \notin Ids(entries)
    <3>1. AddEntry(entries, entry) = Append(entries, entry)
      BY <2>2 DEF AddEntry
    <3>2. /\ DOMAIN Append(entries, entry) = 1 .. Len(entries) + 1
          /\ \A i \in DOMAIN entries : Append(entries, entry)[i] = entries[i]
          /\ Append(entries, entry)[Len(entries) + 1] = entry
          /\ DOMAIN entries = 1 .. Len(entries) /\ Len(entries) \in Nat
      OBVIOUS
    <3>3. \A i \in DOMAIN entries : entries[i].id # entry.id
      BY <2>2 DEF Ids
    <3>4. IdsAreUnique(Append(entries, entry))
      BY <3>2, <3>3 DEF IdsAreUnique
    <3>5. Ids(Append(entries, entry)) = Ids(entries) \cup {entry.id}
      BY <3>2 DEF Ids
    <3> QED BY <3>1, <3>4, <3>5
  <2> QED BY <2>1, <2>2
<1>2. \A i \in DOMAIN entries : entries[i] \in E
  OBVIOUS
<1>3. /\ DOMAIN UpdateStatus(entries, id, status) = DOMAIN entries
      /\ \A i \in DOMAIN entries : UpdateStatus(entries, id, status)[i].id = entries[i].id
  BY <1>2 DEF UpdateStatus, RegistryEntries
<1>4. /\ DOMAIN RecordAccess(entries, id, timestamp) = DOMAIN entries
      /\ \A i \in DOMAIN entries : RecordAccess(entries, id, timestamp)[i].id = entries[i].id
  BY <1>2 DEF RecordAccess, RegistryEntries
<1>5. IdsAreUnique(Remove(entries, id)) /\ Ids(Remove(entries, id)) = Ids(entries) \ {id}
  <2> DEFINE others == {e \in Range(entries) : e.id # id}
  <2> DEFINE left == KeepIn(entries, others)
  <2>1. NoRepeats(entries)
    BY DEF NoRepeats, IdsAreUnique
  <2>2. left \in Seq(E) /\ NoRepeats(left) /\ Range(left) = Range(entries) \cap others
    BY <2>1, KeepInProperties
  <2>3. \A e, f \in Range(entries) : e.id = f.id => e = f
    BY DEF IdsAreUnique, Range
  <2>4. \A i \in DOMAIN left : left[i] \in Range(entries) /\ left[i].id # id
    BY <2>2 DEF Range
  <2>5. IdsAreUnique(left)
    BY <2>2, <2>3, <2>4 DEF IdsAreUnique, NoRepeats
  <2>6. Ids(left) = {e.id : e \in Range(left)} /\ Ids(entries) = {e.id : e \in Range(entries)}
    BY DEF Ids, Range
  <2>7. Ids(left) = Ids(entries) \ {id}
    BY <2>2, <2>6
  <2> QED BY <2>5, <2>7 DEF Remove
<1>6. /\ IdsAreUnique(UpdateStatus(entries, id, status))
      /\ Ids(UpdateStatus(entries, id, status)) = Ids(entries)
  BY <1>3 DEF IdsAreUnique, Ids
<1>7. /\ IdsAreUnique(RecordAccess(entries, id, timestamp))
      /\ Ids(RecordAccess(entries, id, timestamp)) = Ids(entries)
  BY <1>4 DEF IdsAreUnique, Ids
<1> QED BY <1>1, <1>5, <1>6, <1>7

\* Once a pod has an entry for a path, accesses to it are credited to that entry
\* (workflow.ts:130) whatever is recorded and whatever later cycles add.
THEOREM OldestEntryAnswers ==
  ASSUME NEW PodIds, NEW Paths, NEW Stamps,
         NEW entries \in Seq(RegistryEntries(PodIds, Paths, Stamps)),
         NEW entry \in RegistryEntries(PodIds, Paths, Stamps),
         entry.id \notin Ids(entries),
         NEW id, NEW status, NEW timestamp,
         NEW pod, NEW path, PlacedAt(entries, pod, path) # {}
  PROVE  /\ FirstPlacedAt(AddEntry(entries, entry), pod, path)
              = FirstPlacedAt(entries, pod, path)
         /\ FirstPlacedAt(UpdateStatus(entries, id, status), pod, path)
              = FirstPlacedAt(entries, pod, path)
         /\ FirstPlacedAt(RecordAccess(entries, id, timestamp), pod, path)
              = FirstPlacedAt(entries, pod, path)
<1> DEFINE here == PlacedAt(entries, pod, path)
<1>1. DOMAIN entries = 1 .. Len(entries) /\ Len(entries) \in Nat /\ here \subseteq 1 .. Len(entries)
  BY DEF PlacedAt
<1>2. PICK first \in here : \A j \in here : first <= j
  BY <1>1, LeastNatural
<1>3. FirstPlacedAt(entries, pod, path) = first
  BY <1>1, <1>2 DEF FirstPlacedAt
<1>4. AddEntry(entries, entry) = Append(entries, entry)
  BY DEF AddEntry
<1>5. /\ DOMAIN Append(entries, entry) = 1 .. Len(entries) + 1
      /\ \A i \in 1 .. Len(entries) : Append(entries, entry)[i] = entries[i]
  OBVIOUS
<1>6. PlacedAt(Append(entries, entry), pod, path) \in {here, here \cup {Len(entries) + 1}}
  BY <1>1, <1>5 DEF PlacedAt
<1>7. FirstPlacedAt(Append(entries, entry), pod, path) = first
  BY <1>1, <1>2, <1>6 DEF FirstPlacedAt
<1>8. \A i \in DOMAIN entries : entries[i] \in RegistryEntries(PodIds, Paths, Stamps)
  OBVIOUS
<1>9. PlacedAt(UpdateStatus(entries, id, status), pod, path) = here
  BY <1>8 DEF PlacedAt, UpdateStatus, RegistryEntries
<1>10. PlacedAt(RecordAccess(entries, id, timestamp), pod, path) = here
  BY <1>8 DEF PlacedAt, RecordAccess, RegistryEntries
<1>11. /\ FirstPlacedAt(UpdateStatus(entries, id, status), pod, path) = first
       /\ FirstPlacedAt(RecordAccess(entries, id, timestamp), pod, path) = first
  BY <1>3, <1>9, <1>10 DEF FirstPlacedAt
<1> QED BY <1>3, <1>4, <1>7, <1>11

---------------------------------------------------------------------------
(* The in-memory deployer                                                  *)

\* The clean-up takes out what was placed, and nothing else: the ids of a batch
\* are fresh.
LEMMA CleanUpUndoesPlace ==
  ASSUME NEW deployed, deployed = [id \in DOMAIN deployed |-> deployed[id]],
         NEW request, NEW ids, NEW n \in Nat,
         BatchIds(ids, n) \cap DOMAIN deployed = {}
  PROVE  CleanUp(Place(deployed, request, ids, n), ids, n) = deployed
<1> DEFINE placed == Place(deployed, request, ids, n)
<1>1. DOMAIN placed = DOMAIN deployed \cup BatchIds(ids, n)
  BY DEF Place
<1>2. \A id \in DOMAIN deployed : placed[id] = deployed[id]
  BY DEF Place
<1>3. DOMAIN placed \ BatchIds(ids, n) = DOMAIN deployed
  BY <1>1
<1> HIDE DEF placed
<1>4. Restrict(placed, DOMAIN deployed) = [id \in DOMAIN deployed |-> deployed[id]]
  BY <1>2 DEF Restrict
<1> QED BY <1>3, <1>4 DEF CleanUp, placed

\* All or nothing (deployer.ts:114): whatever fails, and wherever in the batch, a
\* deployment that is not successful leaves the deployed honeytokens as they were,
\* answers no honeytoken, and proposes a remedy.
THEOREM FailedBatchLeavesNoTrace ==
  ASSUME NEW deployed, deployed = [id \in DOMAIN deployed |-> deployed[id]],
         NEW request, NEW ids, NEW failures,
         \A n \in 0 .. Len(request.honeytokens) : BatchIds(ids, n) \cap DOMAIN deployed = {},
         \A failure \in failures : failure.position \in 1 .. Len(request.honeytokens),
         Len(request.honeytokens) \in Nat,
         ~ Deploy(deployed, request, ids, failures).success
  PROVE  /\ Deploy(deployed, request, ids, failures).deployed = deployed
         /\ Deploy(deployed, request, ids, failures).placed = << >>
         /\ Deploy(deployed, request, ids, failures).remedies # << >>
<1>1. CASE ~ ValidateDeploymentRequest(request)
  BY <1>1 DEF Deploy, Failed
<1>2. CASE ValidateDeploymentRequest(request) /\ failures = {}
  BY <1>2 DEF Deploy, PlaceBatch
<1>3. CASE ValidateDeploymentRequest(request) /\ failures # {}
  <2> DEFINE failure == CHOOSE f \in failures : TRUE
  <2>1. failure \in failures
    BY <1>3
  <2>2. Deploy(deployed, request, ids, failures) = FailBatch(deployed, request, ids, failure)
    BY <1>3 DEF Deploy
  <2> HIDE DEF failure
  <2>3. failure.position - 1 \in 0 .. Len(request.honeytokens)
    BY <2>1
  <2>4. CleanUp(Place(deployed, request, ids, failure.position - 1),
                ids, failure.position - 1) = deployed
    BY <2>3, CleanUpUndoesPlace
  <2>5. SelectRemediationActions(failure.reason) # << >>
    BY DEF SelectRemediationActions
  <2> QED BY <2>2, <2>4, <2>5 DEF FailBatch, Failed
<1> QED BY <1>1, <1>2, <1>3

\* A successful deployment (deployer.ts:160) answers exactly what it left in the
\* map, one honeytoken for each of the request, and touches no other.
THEOREM SuccessfulBatchIsDeployed ==
  ASSUME NEW deployed, NEW request, NEW ids, NEW failures,
         \A n \in 0 .. Len(request.honeytokens) : BatchIds(ids, n) \cap DOMAIN deployed = {},
         \A j, k \in 1 .. Len(request.honeytokens) : ids[j] = ids[k] => j = k,
         Len(request.honeytokens) \in Nat,
         Deploy(deployed, request, ids, failures).success
  PROVE  LET answer == Deploy(deployed, request, ids, failures)
             n == Len(request.honeytokens)
         IN  /\ DOMAIN answer.placed = 1 .. n
             /\ n \in MinHoneytokens .. MaxHoneytokens
             /\ DOMAIN answer.deployed = DOMAIN deployed \cup BatchIds(ids, n)
             /\ \A k \in 1 .. n : answer.deployed[ids[k]] = answer.placed[k]
             /\ \A id \in DOMAIN deployed : answer.deployed[id] = deployed[id]
<1> DEFINE n == Len(request.honeytokens)
<1>1. ValidateDeploymentRequest(request) /\ failures = {}
  BY DEF Deploy, FailBatch, Failed
<1>2. Deploy(deployed, request, ids, failures) = PlaceBatch(deployed, request, ids)
  BY <1>1 DEF Deploy
<1>3. n \in MinHoneytokens .. MaxHoneytokens
  BY <1>1 DEF ValidateDeploymentRequest
<1>4. \A k \in 1 .. n : (CHOOSE j \in 1 .. n : ids[j] = ids[k]) = k
  OBVIOUS
<1>5. \A k \in 1 .. n :
        ids[k] \in BatchIds(ids, n) /\ Place(deployed, request, ids, n)[ids[k]]
                                          = Honeytoken(request, ids[k], k)
  BY <1>4 DEF Place, BatchIds
<1>6. \A id \in DOMAIN deployed : Place(deployed, request, ids, n)[id] = deployed[id]
  BY DEF Place
<1>7. DOMAIN Place(deployed, request, ids, n) = DOMAIN deployed \cup BatchIds(ids, n)
  BY DEF Place
<1> QED BY <1>2, <1>3, <1>5, <1>6, <1>7 DEF PlaceBatch

---------------------------------------------------------------------------
(* The feed of access events                                               *)

\* The index of the circular array, one turn at most after its start.
Wrapped(x) == IF x < Capacity THEN x ELSE x - Capacity

LEMMA WrapsOnce ==
  ASSUME Capacity \in Nat \ {0}, NEW x \in 0 .. 2 * Capacity - 1
  PROVE  x % Capacity = Wrapped(x) /\ Wrapped(x) \in 0 .. Capacity - 1
<1>1. CASE x < Capacity
  BY <1>1 DEF Wrapped
<1>2. CASE x >= Capacity
  BY <1>2 DEF Wrapped
<1> QED BY <1>1, <1>2

\* In a full array, the i-th newest event stays where it is when the oldest one,
\* at head, is overwritten.
LEMMA OldestOverwritten ==
  ASSUME Capacity \in Nat \ {0}, NEW head \in 0 .. Capacity - 1, NEW i \in 2 .. Capacity
  PROVE  /\ Wrapped(head + Capacity - (i - 1)) \in (0 .. Capacity - 1) \ {head}
         /\ Wrapped(Wrapped(head + 1) + Capacity - i) = Wrapped(head + Capacity - (i - 1))
<1>1. CASE head + 1 < Capacity
  BY <1>1 DEF Wrapped
<1>2. CASE head + 1 = Capacity
  BY <1>2 DEF Wrapped
<1> QED BY <1>1, <1>2

\* A circular array that is not off by one (access-event-feed.ts:48): the new
\* event is the first of the recent ones, those that were there follow in their
\* order, and only when the feed was full is one gone, the oldest.
THEOREM FeedKeepsNewest ==
  ASSUME Capacity \in Nat \ {0},
         NEW Events, NEW feed \in Feeds(Events), NEW event \in Events
  PROVE  LET more == AddEvent(feed, event)
             before == GetRecentEvents(feed, feed.size)
             after == GetRecentEvents(more, more.size)
         IN  /\ more \in Feeds(Events)
             /\ more.size = IF feed.size < Capacity THEN feed.size + 1 ELSE Capacity
             /\ after[1] = event
             /\ \A i \in 2 .. more.size : after[i] = before[i - 1]
<1> DEFINE more == AddEvent(feed, event)
           before == GetRecentEvents(feed, feed.size)
           after == GetRecentEvents(more, more.size)
           Cells == 0 .. Capacity - 1
<1>1. /\ feed.buffer \in [Cells -> Events \cup {Vacant}]
      /\ feed.head \in Cells /\ feed.size \in 0 .. Capacity
      /\ feed = [buffer |-> feed.buffer, head |-> feed.head, size |-> feed.size]
  BY DEF Feeds
<1>2. ASSUME NEW h \in Cells, NEW s \in 0 .. Capacity, NEW i \in 1 .. s
      PROVE  h + s - i \in 0 .. 2 * Capacity - 1
  OBVIOUS
<1>3. DOMAIN before = 1 .. feed.size
      /\ \A i \in 1 .. feed.size :
            before[i] = feed.buffer[Wrapped(feed.head + feed.size - i)]
  BY <1>1, <1>2, WrapsOnce DEF GetRecentEvents
<1>4. CASE feed.size < Capacity
  <2> DEFINE free == Wrapped(feed.head + feed.size)
  <2>1. free \in Cells /\ (feed.head + feed.size) % Capacity = free
    <3>1. feed.head + feed.size \in 0 .. 2 * Capacity - 1
      BY <1>1, <1>4
    <3> QED BY <3>1, WrapsOnce
  <2>2. more = [buffer |-> [feed.buffer EXCEPT ![free] = event],
                head |-> feed.head, size |-> feed.size + 1]
    BY <1>1, <1>4, <2>1 DEF AddEvent
  <2>3. /\ more.buffer = [feed.buffer EXCEPT ![free] = event]
        /\ more.head = feed.head /\ more.size = feed.size + 1
        /\ more.size \in 1 .. Capacity
    BY <1>1, <1>4, <2>2
  <2>4. more \in Feeds(Events)
    BY <1>1, <1>4, <2>1, <2>2 DEF Feeds
  <2>5. \A i \in 1 .. more.size :
            after[i] = more.buffer[Wrapped(feed.head + feed.size + 1 - i)]
    <3> HIDE DEF more
    <3>1. after = [i \in 1 .. more.size |->
                      more.buffer[(more.head + more.size - i) % Capacity]]
      BY <2>3, <1>1 DEF GetRecentEvents
    <3>2. ASSUME NEW i \in 1 .. more.size
          PROVE  (more.head + more.size - i) % Capacity
                    = Wrapped(feed.head + feed.size + 1 - i)
      BY <1>1, <1>2, <2>3, WrapsOnce
    <3> QED BY <3>1, <3>2
  <2>6. after[1] = event
    <3>1. feed.head + feed.size + 1 - 1 = feed.head + feed.size
      BY <1>1
    <3>2. after[1] = more.buffer[free]
      BY <2>3, <2>5, <3>1
    <3> QED BY <1>1, <2>1, <2>3, <3>2
  <2>7. ASSUME NEW i \in 2 .. more.size PROVE after[i] = before[i - 1]
    <3>1. i - 1 \in 1 .. feed.size /\ i \in 1 .. more.size
      BY <1>1, <2>3
    <3>2. feed.head + feed.size + 1 - i = feed.head + feed.size - (i - 1)
      BY <1>1, <3>1
    <3> DEFINE cell == Wrapped(feed.head + feed.size - (i - 1))
    <3>3. cell \in Cells /\ cell # free
      BY <1>1, <1>4, <3>1 DEF Wrapped
    <3>4. more.buffer[cell] = feed.buffer[cell]
      BY <1>1, <2>3, <3>3
    <3>5. after[i] = more.buffer[cell]
      BY <2>5, <3>1, <3>2
    <3>6. before[i - 1] = feed.buffer[cell]
      BY <1>3, <3>1
    <3> QED BY <3>4, <3>5, <3>6
  <2> QED BY <1>4, <2>3, <2>4, <2>6, <2>7
<1>5. CASE feed.size = Capacity
  <2> DEFINE next == Wrapped(feed.head + 1)
  <2>1. next \in Cells /\ (feed.head + 1) % Capacity = next
    <3>1. feed.head + 1 \in 0 .. 2 * Capacity - 1
      BY <1>1
    <3> QED BY <3>1, WrapsOnce
  <2>2. more = [buffer |-> [feed.buffer EXCEPT ![feed.head] = event],
                head |-> next, size |-> Capacity]
    <3> HIDE DEF next
    <3>1. more = [feed EXCEPT !.buffer[feed.head] = event, !.head = next]
      <4>1. ~ (feed.size < Capacity)
        BY <1>5
      <4> QED BY <2>1, <4>1 DEF AddEvent
    <3> QED BY <1>1, <1>5, <3>1
  <2>3. /\ more.buffer = [feed.buffer EXCEPT ![feed.head] = event]
        /\ more.head = next /\ more.size = Capacity
    BY <2>2
  <2>4. more \in Feeds(Events)
    BY <1>1, <2>1, <2>2 DEF Feeds
  <2>5. \A i \in 1 .. Capacity :
            after[i] = more.buffer[Wrapped(next + Capacity - i)]
    <3> HIDE DEF more, next
    <3>1. after = [i \in 1 .. more.size |->
                      more.buffer[(more.head + more.size - i) % Capacity]]
      BY <2>3 DEF GetRecentEvents
    <3>2. ASSUME NEW i \in 1 .. Capacity
          PROVE  (next + Capacity - i) % Capacity = Wrapped(next + Capacity - i)
      BY <1>2, <2>1, WrapsOnce
    <3> QED BY <2>3, <3>1, <3>2
  <2>6. after[1] = event
    <3>1. Wrapped(next + Capacity - 1) = feed.head
      BY <1>1 DEF Wrapped
    <3>2. after[1] = more.buffer[feed.head]
      BY <2>5, <3>1
    <3> QED BY <1>1, <2>3, <3>2
  <2>7. ASSUME NEW i \in 2 .. more.size PROVE after[i] = before[i - 1]
    <3>1. i - 1 \in 1 .. feed.size /\ i \in 1 .. Capacity /\ i >= 2
      BY <1>1, <1>5, <2>3
    <3> DEFINE cell == Wrapped(feed.head + feed.size - (i - 1))
    <3>2. cell \in Cells /\ cell # feed.head /\ Wrapped(next + Capacity - i) = cell
      <4>1. feed.head \in Cells /\ i \in 2 .. Capacity
        BY <1>1, <3>1
      <4> QED BY <1>5, <4>1, OldestOverwritten
    <3>3. more.buffer[cell] = feed.buffer[cell]
      BY <1>1, <2>3, <3>2
    <3>4. after[i] = more.buffer[cell]
      BY <2>5, <3>1, <3>2
    <3>5. before[i - 1] = feed.buffer[cell]
      BY <1>3, <3>1
    <3> QED BY <3>3, <3>4, <3>5
  <2> QED BY <1>5, <2>3, <2>4, <2>6, <2>7
<1> QED BY <1>1, <1>4, <1>5

---------------------------------------------------------------------------
(* The timeline of a report                                                *)

\* The order in which a stable sort by time leaves the actions j and k.
Before(actions, j, k) ==
    \/ actions[j].timestamp < actions[k].timestamp
    \/ actions[j].timestamp = actions[k].timestamp /\ j < k

LEMMA BeforeIsTotal ==
  ASSUME NEW actions \in Seq(Actions)
  PROVE  /\ \A j \in DOMAIN actions : ~ Before(actions, j, j)
         /\ \A j, k \in DOMAIN actions :
               j # k => Before(actions, j, k) \/ Before(actions, k, j)
         /\ \A j, k, m \in DOMAIN actions :
               Before(actions, j, k) /\ Before(actions, k, m) => Before(actions, j, m)
<1>1. \A j \in DOMAIN actions : j \in Int /\ actions[j].timestamp \in Int
  <2>1. \A j \in DOMAIN actions : actions[j] \in Actions /\ j \in Int
    OBVIOUS
  <2>2. \A action \in Actions : action.timestamp \in Int
    BY DEF Actions
  <2> QED BY <2>1, <2>2
<1> HIDE DEF Actions
<1>2. \A j, k, m \in DOMAIN actions :
        Before(actions, j, k) /\ Before(actions, k, m) => Before(actions, j, m)
  BY <1>1 DEF Before
<1>3. \A j, k \in DOMAIN actions :
        j # k => Before(actions, j, k) \/ Before(actions, k, j)
  BY <1>1 DEF Before
<1> QED BY <1>1, <1>2, <1>3 DEF Before

LEMMA EarlierIsBefore ==
  ASSUME NEW actions \in Seq(Actions), NEW k \in DOMAIN actions
  PROVE  /\ Earlier(actions, k) = {j \in DOMAIN actions : Before(actions, j, k)}
         /\ IsFiniteSet(Earlier(actions, k))
         /\ Position(actions, k) \in 1 .. Len(actions)
<1>1. Earlier(actions, k) = {j \in DOMAIN actions : Before(actions, j, k)}
  BY DEF Earlier, Before
<1>2. Earlier(actions, k) \subseteq DOMAIN actions \ {k}
  BY <1>1, BeforeIsTotal
<1>3. DOMAIN actions = 1 .. Len(actions) /\ Len(actions) \in Nat
  OBVIOUS
<1>4. IsFiniteSet(DOMAIN actions) /\ Cardinality(DOMAIN actions) = Len(actions)
  <2>1. /\ IsFiniteSet(1 .. Len(actions))
        /\ Cardinality(1 .. Len(actions))
              = IF 1 > Len(actions) THEN 0 ELSE Len(actions) - 1 + 1
    BY <1>3, FS_Interval
  <2>2. Cardinality(1 .. Len(actions)) = Len(actions)
    BY <1>3, <2>1
  <2> QED BY <1>3, <2>1, <2>2
<1>5. /\ IsFiniteSet(DOMAIN actions \ {k})
      /\ Cardinality(DOMAIN actions \ {k}) = Len(actions) - 1
  BY <1>4, FS_RemoveElement
<1>6. /\ IsFiniteSet(Earlier(actions, k))
      /\ Cardinality(Earlier(actions, k)) <= Len(actions) - 1
  BY <1>2, <1>5, FS_Subset
<1>7. Cardinality(Earlier(actions, k)) \in Nat
  BY <1>6, FS_CardinalityType
<1> QED BY <1>1, <1>3, <1>6, <1>7 DEF Position

\* An earlier action has the smaller position.
LEMMA PositionFollowsTime ==
  ASSUME NEW actions \in Seq(Actions), NEW j \in DOMAIN actions, NEW k \in DOMAIN actions,
         Before(actions, j, k)
  PROVE  Position(actions, j) < Position(actions, k)
<1>1. Earlier(actions, j) \cup {j} \subseteq Earlier(actions, k)
  BY EarlierIsBefore, BeforeIsTotal
<1>2. j \notin Earlier(actions, j)
  BY EarlierIsBefore, BeforeIsTotal
<1>3. /\ IsFiniteSet(Earlier(actions, j) \cup {j})
      /\ Cardinality(Earlier(actions, j) \cup {j}) = Cardinality(Earlier(actions, j)) + 1
  BY <1>2, EarlierIsBefore, FS_AddElement
<1>4. Cardinality(Earlier(actions, j) \cup {j}) <= Cardinality(Earlier(actions, k))
  BY <1>1, EarlierIsBefore, FS_Subset
<1>5. Cardinality(Earlier(actions, j)) \in Nat /\ Cardinality(Earlier(actions, k)) \in Nat
  BY EarlierIsBefore, FS_CardinalityType
<1> QED BY <1>3, <1>4, <1>5 DEF Position

\* Every place of the timeline is taken by exactly one action.
LEMMA PositionsAreTaken ==
  ASSUME NEW actions \in Seq(Actions)
  PROVE  /\ \A j, k \in DOMAIN actions :
               Position(actions, j) = Position(actions, k) => j = k
         /\ \A n \in DOMAIN actions : \E k \in DOMAIN actions : Position(actions, k) = n
<1> DEFINE P == [k \in DOMAIN actions |-> Position(actions, k)]
<1>1. DOMAIN actions = 1 .. Len(actions) /\ Len(actions) \in Nat
  OBVIOUS
<1>2. ASSUME NEW j \in DOMAIN actions, NEW k \in DOMAIN actions,
             Position(actions, j) = Position(actions, k)
      PROVE  j = k
  <2>1. Position(actions, j) \in Nat /\ Position(actions, k) \in Nat
    BY <1>1, EarlierIsBefore
  <2>2. ~ Before(actions, j, k) /\ ~ Before(actions, k, j)
    BY <1>2, <2>1, PositionFollowsTime
  <2> QED BY <2>2, BeforeIsTotal
<1>3. P \in [DOMAIN actions -> DOMAIN actions]
  BY <1>1, EarlierIsBefore
<1>4. P \in Injection(DOMAIN actions, DOMAIN actions)
  BY <1>2, <1>3 DEF Injection, IsInjective
<1>5. IsFiniteSet(DOMAIN actions)
  BY <1>1, FS_Interval
<1>6. P \in Surjection(DOMAIN actions, DOMAIN actions)
  BY <1>4, <1>5, FS_Injection
<1>7. \A n \in DOMAIN actions : \E k \in DOMAIN actions : Position(actions, k) = n
  BY <1>6 DEF Surjection
<1> QED BY <1>2, <1>7

\* The timeline of a report (report-generator.ts:239) tells of every action, of
\* each once, and in the order of their times; actions of the same millisecond
\* stay in the order in which they were taken.
THEOREM TimelineIsChronological ==
  ASSUME NEW actions \in Seq(Actions)
  PROVE  \E taken \in Bijection(DOMAIN actions, DOMAIN actions) :
           /\ SortedByTime(actions) = [n \in DOMAIN actions |-> actions[taken[n]]]
           /\ \A m, n \in DOMAIN actions : m < n => Before(actions, taken[m], taken[n])
<1> DEFINE taken == [n \in DOMAIN actions |->
                        CHOOSE k \in DOMAIN actions : Position(actions, k) = n]
<1>1. \A n \in DOMAIN actions :
        taken[n] \in DOMAIN actions /\ Position(actions, taken[n]) = n
  BY PositionsAreTaken
<1>2. SortedByTime(actions) = [n \in DOMAIN actions |-> actions[taken[n]]]
  BY DEF SortedByTime
<1>3. taken \in [DOMAIN actions -> DOMAIN actions]
  BY <1>1
<1> HIDE DEF taken
<1>4. taken \in Injection(DOMAIN actions, DOMAIN actions)
  BY <1>1, <1>3 DEF Injection, IsInjective
<1>5. ASSUME NEW n \in DOMAIN actions PROVE \E m \in DOMAIN actions : taken[m] = n
  <2>1. Position(actions, n) \in DOMAIN actions
    BY EarlierIsBefore
  <2>2. Position(actions, taken[Position(actions, n)]) = Position(actions, n)
    BY <1>1, <2>1
  <2>3. taken[Position(actions, n)] = n
    BY <1>1, <2>1, <2>2, PositionsAreTaken
  <2> QED BY <2>1, <2>3
<1>6. taken \in Bijection(DOMAIN actions, DOMAIN actions)
  BY <1>3, <1>4, <1>5 DEF Bijection, Surjection
<1>7. ASSUME NEW m \in DOMAIN actions, NEW n \in DOMAIN actions, m < n
      PROVE  Before(actions, taken[m], taken[n])
  <2>1. m \in Nat /\ n \in Nat
    OBVIOUS
  <2>2. taken[m] # taken[n]
    BY <1>1, <1>7, <2>1
  <2>3. ~ Before(actions, taken[n], taken[m])
    <3> SUFFICES ASSUME Before(actions, taken[n], taken[m]) PROVE FALSE
      OBVIOUS
    <3>1. Position(actions, taken[n]) < Position(actions, taken[m])
      BY <1>1, PositionFollowsTime
    <3> QED BY <1>1, <1>7, <2>1, <3>1
  <2> QED BY <1>1, <2>2, <2>3, BeforeIsTotal
<1> QED BY <1>2, <1>6, <1>7

---------------------------------------------------------------------------
(* The trainer and the feedback loop: every minimum of records, interval    *)
(* and numbering of versions.                                               *)

\* Quotient and remainder determine a number.
LEMMA DivModInjective ==
  ASSUME NEW a \in Nat, NEW b \in Nat, NEW d \in Nat \ {0},
         a \div d = b \div d, a % d = b % d
  PROVE  a = b
<1>1. a = d * (a \div d) + (a % d)
  BY SMT
<1>2. b = d * (b \div d) + (b % d)
  BY SMT
<1> QED BY <1>1, <1>2

\* A version id is well typed and tells the size of its dataset.
LEMMA GeneratedVersion ==
  ASSUME NEW size \in Nat, NEW time \in Nat
  PROVE  /\ GenerateVersionId(size, time) \in VersionIds
         /\ TellsSize(GenerateVersionId(size, time), size)
<1>1. /\ size \div RecordsPerMajor + 1 \in Nat
      /\ size % RecordsPerMajor \in Nat /\ time % StampWrap \in Nat
  BY LearningAssumption, SMT
<1> QED BY <1>1 DEF GenerateVersionId, VersionIds, TellsSize

LEMMA LearningInit == Init => IInv
<1> SUFFICES ASSUME Init PROVE IInv
  OBVIOUS
<1>1. TypeOK /\ OutcomesCountOnce
  BY LearningAssumption DEF Init, TypeOK, Models, VersionIds, OutcomesCountOnce
<1>2. 0 \div RecordsPerMajor = 0 /\ 0 % RecordsPerMajor = 0
  BY LearningAssumption, SMT
<1>3. VersionsTellSize
  BY <1>2 DEF Init, VersionsTellSize, TellsSize
<1> QED BY <1>1, <1>3 DEF IInv

---------------------------------------------------------------------------
LEMMA SubmitKeepsInv ==
  ASSUME IInv, NEW valid, SubmitOutcome(valid)
  PROVE  IInv'
<1>1. TypeOK' /\ OutcomesCountOnce'
  BY DEF IInv, SubmitOutcome, TypeOK, Models, VersionIds, OutcomesCountOnce
<1>2. VersionsTellSize'
  BY DEF IInv, SubmitOutcome, VersionsTellSize, TellsSize
<1> QED BY <1>1, <1>2 DEF IInv

LEMMA PublishKeepsInv ==
  ASSUME IInv, NEW accuracy \in Accuracies, PublishModel(accuracy)
  PROVE  IInv'
<1>1. /\ GenerateVersionId(datasetSize, now) \in VersionIds
      /\ TellsSize(GenerateVersionId(datasetSize, now), datasetSize)
  BY GeneratedVersion DEF IInv, TypeOK
<1>2. accuracy \in Nat
  BY LearningAssumption
<1>3. TypeOK' /\ OutcomesCountOnce'
  BY <1>1, <1>2 DEF IInv, PublishModel, TypeOK, Models, OutcomesCountOnce
<1>4. VersionsTellSize'
  BY <1>1 DEF IInv, PublishModel, VersionsTellSize, TellsSize
<1> QED BY <1>3, <1>4 DEF IInv

LEMMA ApplyKeepsInv ==
  ASSUME IInv, ApplyModelUpdate
  PROVE  IInv'
<1>1. TypeOK' /\ OutcomesCountOnce'
  BY DEF IInv, ApplyModelUpdate, TypeOK, Models, OutcomesCountOnce
<1>2. VersionsTellSize'
  <2>1. CASE currentModel.versionId = lastKnownModelVersion
    BY <2>1 DEF IInv, ApplyModelUpdate, VersionsTellSize, TellsSize
  <2>2. CASE currentModel.versionId # lastKnownModelVersion
    BY <2>2 DEF IInv, ApplyModelUpdate, VersionsTellSize, TellsSize
  <2> QED BY <2>1, <2>2
<1> QED BY <1>1, <1>2 DEF IInv

LEMMA LearningStep == IInv /\ [Next]_vars => IInv'
<1> SUFFICES ASSUME IInv, [Next]_vars PROVE IInv'
  OBVIOUS
<1>1. ASSUME NEW valid \in SUBSET Fields, SubmitOutcome(valid) PROVE IInv'
  BY <1>1, SubmitKeepsInv
<1>2. ASSUME NEW accuracy \in Accuracies, PublishModel(accuracy) PROVE IInv'
  BY <1>2, PublishKeepsInv
<1>3. ASSUME NEW accuracy \in Accuracies, RejectModel(accuracy) PROVE IInv'
  BY <1>3 DEF RejectModel, vars, IInv, TypeOK, OutcomesCountOnce, VersionsTellSize, TellsSize
<1>4. CASE ApplyModelUpdate
  BY <1>4, ApplyKeepsInv
<1>5. CASE Tick
  BY <1>5 DEF Tick, IInv, TypeOK, OutcomesCountOnce, VersionsTellSize, TellsSize
<1>6. CASE UNCHANGED vars
  BY <1>6 DEF vars, IInv, TypeOK, OutcomesCountOnce, VersionsTellSize, TellsSize
<1> QED BY <1>1, <1>2, <1>3, <1>4, <1>5, <1>6 DEF Next

\* The invariants are inductive.
THEOREM TrainerInvariant == Spec => []IInv
BY LearningInit, LearningStep, PTL DEF Spec

---------------------------------------------------------------------------
\* The state is always well typed, and training never lies in the future.
THEOREM TrainerTypeCorrect == Spec => []TypeOK
<1>1. IInv => TypeOK
  BY DEF IInv
<1> QED BY <1>1, TrainerInvariant, PTL

\* Every outcome counts for exactly one training.
THEOREM OutcomesAreUsedOnce == Spec => []OutcomesCountOnce
<1>1. IInv => OutcomesCountOnce
  BY DEF IInv
<1> QED BY <1>1, TrainerInvariant, PTL

\* The feedback loop never takes a new model for the one it knows.
THEOREM NoUpdateIsMissed == Spec => []UpdatesAreNoticed
<1>1. IInv => UpdatesAreNoticed
  <2> SUFFICES ASSUME IInv, lastKnownModelVersion = currentModel.versionId
               PROVE  applied = currentModel.trainingDatasetSize
    BY DEF UpdatesAreNoticed
  <2>1. applied \in Nat /\ currentModel.trainingDatasetSize \in Nat
    BY DEF IInv, TypeOK, Models
  <2> DEFINE size == currentModel.trainingDatasetSize
  <2>2. /\ applied \div RecordsPerMajor + 1 = size \div RecordsPerMajor + 1
        /\ applied % RecordsPerMajor = size % RecordsPerMajor
    BY DEF IInv, VersionsTellSize, TellsSize
  <2>3. /\ applied \div RecordsPerMajor \in Int /\ size \div RecordsPerMajor \in Int
    BY <2>1, LearningAssumption, SMT
  <2>4. applied \div RecordsPerMajor = size \div RecordsPerMajor
    BY <2>2, <2>3
  <2> QED BY <2>1, <2>2, <2>4, DivModInjective, LearningAssumption
<1> QED BY <1>1, TrainerInvariant, PTL

\* A model is replaced only by one that is no less accurate and uses more records.
THEOREM PublishedModelsImprove == Spec => ModelsImprove
<1> DEFINE Improves ==
      currentModel' # currentModel =>
        /\ currentModel'.validationAccuracy >= currentModel.validationAccuracy
        /\ currentModel'.trainingDatasetSize
               >= currentModel.trainingDatasetSize + MinimumOutcomeRecords
<1>1. IInv /\ [Next]_vars => [Improves]_vars
  <2> SUFFICES ASSUME IInv, [Next]_vars, currentModel' # currentModel
               PROVE  /\ currentModel'.validationAccuracy >= currentModel.validationAccuracy
                      /\ currentModel'.trainingDatasetSize
                             >= currentModel.trainingDatasetSize + MinimumOutcomeRecords
    OBVIOUS
  <2>1. PICK accuracy \in Accuracies : PublishModel(accuracy)
    BY DEF Next, vars, SubmitOutcome, RejectModel, ApplyModelUpdate, Tick
  <2> QED BY <2>1, LearningAssumption
          DEF IInv, TypeOK, Models, OutcomesCountOnce, PublishModel, PublishGuard, EnoughRecords
<1> QED BY <1>1, TrainerInvariant, PTL DEF Spec, ModelsImprove
=============================================================================
