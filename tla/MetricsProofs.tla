---------------------------- MODULE MetricsProofs ----------------------------
(***************************************************************************)
(* Proofs about module Metrics: for every host, label and order in which a *)
(* scrape may read the series, what it shows was reported, and what it     *)
(* shows undisturbed is the last report.                                   *)
(***************************************************************************)
EXTENDS Metrics, HalProofs

Holds(q, s) == \E i \in DOMAIN q : q[i] = s

(* The series that have yet to be set are the only ones that differ from   *)
(* what observe makes of them.                                             *)
OnlyTodoDiffers ==
  \A s \in Series : series[s] = target[s] \/ Holds(todo, s)

(* Counters count from zero. *)
InRange == \A s \in Series : series[s] >= Missing /\ target[s] >= Missing

TargetIsReport ==
  observes > 0 =>
    /\ \A p \in Profiles : target[p] = (IF p = report.profile THEN 1 ELSE 0)
    /\ target["turbo_managed"] = (IF report.turbo = Unmanaged THEN 0 ELSE 1)
    /\ report.turbo # Unmanaged =>
         target["turbo_enabled"] = (IF report.turbo = "enabled" THEN 1 ELSE 0)
    /\ target[ResultLabel(report)] >= 1

LastCounts == target["last_reconcile"] = observes /\ Counted(target) = observes

(* While a scrape runs, what it would read now it may show. *)
PossibleNow ==
  scraping => \A s \in Series :
    /\ target[s] \in possible[s]
    /\ series[s] \in possible[s] \/ (series[s] = 0 /\ Missing \in possible[s])

(* A scrape nothing overlapped has read what is still there. *)
QuietSoFar ==
  scraping /\ ~ overlaps =>
    /\ todo = <<>>
    /\ \A s \in DOMAIN shown : shown[s] = series[s]

ReadsAll ==
  scraping => \A s \in Series : s \in DOMAIN shown \/ Holds(toRead, s)

Inv == /\ TypeOK /\ OnlyTodoDiffers /\ InRange /\ TargetIsReport /\ LastCounts
       /\ PossibleNow /\ ShownWasReported /\ QuietSoFar /\ ReadsAll
       /\ (scraping \/ DOMAIN shown = {})

-----------------------------------------------------------------------------
(* Sequences of series. *)

LEMMA ResultLabelType == ASSUME NEW r PROVE ResultLabel(r) \in Results
BY DEF ResultLabel, Results

LEMMA TurboOrderType ==
  ASSUME NEW r
  PROVE  (IF r.turbo = Unmanaged THEN <<>> ELSE <<"turbo_enabled">>) \in Seq(Series)
<1>1. <<"turbo_enabled">> \in Seq(Series)
  BY DEF Series
<1>2. << >> \in Seq(Series)
  BY DEF Series
<1> QED BY <1>1, <1>2, Zenon

(* observe (metrics.rs:83-114) sets registered series only, and all those  *)
(* that the report changes.                                                *)
LEMMA WriteOrderType ==
  ASSUME NEW r \in Report
  PROVE  WriteOrder(r) \in Seq(Series)
<1>1. ProfileOrder \in Seq(Series)
  BY DEF ProfileOrder, Series, Profiles
<1>2. <<"kind", "turbo_managed">> \in Seq(Series)
  BY DEF Series
<1>3. (IF r.turbo = Unmanaged THEN <<>> ELSE <<"turbo_enabled">>) \in Seq(Series)
  BY TurboOrderType
<1>4. <<ResultLabel(r), "last_reconcile">> \in Seq(Series)
  BY ResultLabelType DEF Series
<1> HIDE DEF Series, ProfileOrder
<1>5. ProfileOrder \o <<"kind", "turbo_managed">> \in Seq(Series)
  BY <1>1, <1>2
<1>6. ProfileOrder \o <<"kind", "turbo_managed">>
        \o (IF r.turbo = Unmanaged THEN <<>> ELSE <<"turbo_enabled">>) \in Seq(Series)
  BY <1>3, <1>5
<1> QED BY <1>4, <1>6 DEF WriteOrder

LEMMA InConcat ==
  ASSUME NEW S, NEW p \in Seq(S), NEW q \in Seq(S), NEW s,
         Holds(p, s) \/ Holds(q, s)
  PROVE  Holds(p \o q, s)
<1>1. CASE Holds(p, s)
  <2>1. PICK i \in DOMAIN p : p[i] = s
    BY <1>1 DEF Holds
  <2>2. i \in DOMAIN (p \o q) /\ (p \o q)[i] = p[i]
    OBVIOUS
  <2> QED BY <2>1, <2>2 DEF Holds
<1>2. CASE Holds(q, s)
  <2>1. PICK i \in DOMAIN q : q[i] = s
    BY <1>2 DEF Holds
  <2>2. Len(p) + i \in DOMAIN (p \o q) /\ (p \o q)[Len(p) + i] = q[i]
    OBVIOUS
  <2> QED BY <2>1, <2>2 DEF Holds
<1> QED BY <1>1, <1>2

LEMMA WriteOrderCovers ==
  ASSUME NEW r \in Report, NEW s,
         \/ s \in Profiles \cup {"kind", "turbo_managed", ResultLabel(r), "last_reconcile"}
         \/ s = "turbo_enabled" /\ r.turbo # Unmanaged
  PROVE  Holds(WriteOrder(r), s)
<1> DEFINE A == ProfileOrder
           B == <<"kind", "turbo_managed">>
           T == IF r.turbo = Unmanaged THEN <<>> ELSE <<"turbo_enabled">>
           D == <<ResultLabel(r), "last_reconcile">>
<1>1. A \in Seq(Series) /\ B \in Seq(Series)
  BY DEF ProfileOrder, Series, Profiles
<1>2. T \in Seq(Series)
  BY TurboOrderType
<1>3. D \in Seq(Series)
  BY ResultLabelType DEF Series
<1>4. s \in Profiles => Holds(A, s)
  <2>1. /\ A[1] = "default" /\ A[2] = "performance" /\ A[3] = "balance_performance"
        /\ A[4] = "balance_power" /\ A[5] = "power" /\ DOMAIN A = 1 .. 5
    BY DEF ProfileOrder
  <2> HIDE DEF A
  <2> QED BY <2>1 DEF Profiles, Holds
<1>5. s \in {"kind", "turbo_managed"} => Holds(B, s)
  <2>1. B[1] = "kind" /\ B[2] = "turbo_managed" /\ DOMAIN B = 1 .. 2
    OBVIOUS
  <2> HIDE DEF B
  <2> QED BY <2>1 DEF Holds
<1>6. s = "turbo_enabled" /\ r.turbo # Unmanaged => Holds(T, s)
  <2> SUFFICES ASSUME s = "turbo_enabled", r.turbo # Unmanaged PROVE Holds(T, s)
    OBVIOUS
  <2>1. T = <<"turbo_enabled">>
    OBVIOUS
  <2> HIDE DEF T
  <2>2. T[1] = s /\ DOMAIN T = 1 .. 1
    BY <2>1
  <2> QED BY <2>2 DEF Holds
<1>7. s \in {ResultLabel(r), "last_reconcile"} => Holds(D, s)
  <2>1. D[1] = ResultLabel(r) /\ D[2] = "last_reconcile" /\ DOMAIN D = 1 .. 2
    OBVIOUS
  <2> HIDE DEF D
  <2> QED BY <2>1 DEF Holds
<1>8. WriteOrder(r) = ((A \o B) \o T) \o D
  BY DEF WriteOrder
<1> HIDE DEF A, B, T, D
<1>9. A \o B \in Seq(Series) /\ (A \o B) \o T \in Seq(Series)
  BY <1>1, <1>2
<1>10. CASE Holds(A, s) \/ Holds(B, s)
  <2>1. Holds(A \o B, s)
    BY <1>1, <1>10, InConcat
  <2>2. Holds((A \o B) \o T, s)
    BY <1>2, <1>9, <2>1, InConcat
  <2> QED BY <1>3, <1>8, <1>9, <2>2, InConcat
<1>11. CASE Holds(T, s)
  <2>1. Holds((A \o B) \o T, s)
    BY <1>2, <1>9, <1>11, InConcat
  <2> QED BY <1>3, <1>8, <1>9, <2>1, InConcat
<1>12. CASE Holds(D, s)
  BY <1>3, <1>8, <1>9, <1>12, InConcat
<1> QED BY <1>4, <1>5, <1>6, <1>7, <1>10, <1>11, <1>12

-----------------------------------------------------------------------------
(* What observe makes of the series. *)

LEMMA SetsValues ==
  ASSUME NEW r \in Report, NEW old \in [Series -> Int], \A s \in Series : old[s] >= Missing
  PROVE  /\ Sets(r, old) \in [Series -> Int]
         /\ \A s \in Series : Sets(r, old)[s] >= Missing
         /\ \A p \in Profiles : Sets(r, old)[p] = (IF p = r.profile THEN 1 ELSE 0)
         /\ Sets(r, old)["turbo_managed"] = (IF r.turbo = Unmanaged THEN 0 ELSE 1)
         /\ r.turbo # Unmanaged =>
              Sets(r, old)["turbo_enabled"] = (IF r.turbo = "enabled" THEN 1 ELSE 0)
         /\ Sets(r, old)[ResultLabel(r)] >= 1
         /\ Sets(r, old)["last_reconcile"] = old["last_reconcile"] + 1
<1>1. ResultLabel(r) \in Results
  BY ResultLabelType
<1>2. \A s \in Series : Count(old[s]) \in Int /\ Count(old[s]) >= 1
  BY DEF Count, Missing
<1>3. \A s \in Series : Sets(r, old)[s] \in Int /\ Sets(r, old)[s] >= Missing
  BY <1>1, <1>2 DEF Sets, Missing
<1>4. \A p \in Profiles : Sets(r, old)[p] = (IF p = r.profile THEN 1 ELSE 0)
  BY <1>1 DEF Sets, Series, Profiles, Results
<1>5. Sets(r, old)["turbo_managed"] = (IF r.turbo = Unmanaged THEN 0 ELSE 1)
  BY <1>1 DEF Sets, Series, Profiles, Results
<1>6. r.turbo # Unmanaged =>
        Sets(r, old)["turbo_enabled"] = (IF r.turbo = "enabled" THEN 1 ELSE 0)
  BY <1>1 DEF Sets, Series, Profiles, Results
<1>7. Sets(r, old)[ResultLabel(r)] = Count(old[ResultLabel(r)])
  BY <1>1 DEF Sets, Series, Profiles, Results
<1>8. Sets(r, old)["last_reconcile"] = old["last_reconcile"] + 1
  BY <1>1 DEF Sets, Series, Profiles, Results
<1>9. ResultLabel(r) \in Series
  BY <1>1 DEF Series
<1>10. Sets(r, old) \in [Series -> Int]
  BY <1>3 DEF Sets
<1> QED BY <1>2, <1>3, <1>4, <1>5, <1>6, <1>7, <1>8, <1>9, <1>10

(* observe sets, one after the other, all the series it changes. *)
LEMMA UntouchedKeeps ==
  ASSUME NEW r \in Report, NEW old \in [Series -> Int], NEW s \in Series,
         ~ Holds(WriteOrder(r), s)
  PROVE  Sets(r, old)[s] = old[s] \/ s = "kind"
<1>1. s \notin Profiles \cup {"kind", "turbo_managed", ResultLabel(r), "last_reconcile"}
  BY WriteOrderCovers
<1>2. ~ (s = "turbo_enabled" /\ r.turbo # Unmanaged)
  BY WriteOrderCovers
<1> QED BY <1>1, <1>2 DEF Sets

-----------------------------------------------------------------------------
(* The steps. *)

(* A report adds one to the counter of its result, and to no other. *)
LEMMA CountsOnce ==
  ASSUME NEW r \in Report, NEW old \in [Series -> Int], \A s \in Series : old[s] >= Missing
  PROVE  Counted(Sets(r, old)) = Counted(old) + 1
<1>1. ResultLabel(r) \in Results /\ Results \subseteq Series
  BY ResultLabelType DEF Series
<1>2. \A s \in Results : Sets(r, old)[s] = (IF s = ResultLabel(r) THEN Count(old[s]) ELSE old[s])
  BY <1>1 DEF Sets, Series, Profiles, Results
<1>3. \A s \in Results : old[s] \in Int /\ old[s] >= Missing
  BY <1>1
<1> DEFINE n(v) == IF v = Missing THEN 0 ELSE v
<1>4. \A v \in Int : v >= Missing => n(Count(v)) = n(v) + 1
  BY DEF Count, Missing
<1>5. \A v \in Int : n(v) \in Int
  OBVIOUS
<1>6. \A f : Counted(f) = n(f["ok"]) + n(f["invalid_label"]) + n(f["unsupported"]) + n(f["error"])
  BY DEF Counted
<1> HIDE DEF n
<1>7. ResultLabel(r) \in {"ok", "invalid_label", "unsupported", "error"}
  BY <1>1 DEF Results
<1> QED BY <1>2, <1>3, <1>4, <1>5, <1>6, <1>7 DEF Results

LEMMA InitInv == Init => Inv
<1> SUFFICES ASSUME Init PROVE Inv
  OBVIOUS
<1>1. PICK h \in Hosts : backend = DetectBackend(h)
  BY DEF Init
<1>2. IsBackend(backend)
  BY <1>1, DetectBackendType, HostsAssumption
<1>3. NoReport \in Report
  BY DEF NoReport, Report, Profiles, BackendKinds
<1>4. series \in [Series -> Int] /\ target = series /\ InRange /\ series["last_reconcile"] = 0
  BY DEF Init, InRange, Missing, Series, Plain
<1>5. << >> \in Seq(Series)
  OBVIOUS
<1>6. observes \in 0 .. MaxObserves
  BY ObservesAssumption DEF Init
<1>7. TypeOK
  BY <1>2, <1>3, <1>4, <1>5, <1>6 DEF Init, TypeOK, Nothing
<1>8. shown = Nothing /\ DOMAIN Nothing = {} /\ scraping = FALSE /\ observes = 0
  BY DEF Init, Nothing
<1>9. Counted(target) = 0
  <2>1. \A s \in Results : target[s] = Missing
    BY <1>4 DEF Init, Series, Plain, Results
  <2> QED BY <2>1 DEF Counted, Results, Missing
<1>10. OnlyTodoDiffers /\ TargetIsReport /\ LastCounts /\ PossibleNow /\ ShownWasReported
      /\ QuietSoFar /\ ReadsAll
  BY <1>4, <1>8, <1>9 DEF OnlyTodoDiffers, TargetIsReport, LastCounts, PossibleNow,
                    ShownWasReported, QuietSoFar, ReadsAll
<1> QED BY <1>4, <1>7, <1>8, <1>10 DEF Inv

LEMMA ObserveStep ==
  ASSUME Inv, NEW h \in Hosts, NEW n \in LabelSets, Observe(h, n)
  PROVE  Inv'
<1>1. /\ report' \in Report /\ target' = Sets(report', series) /\ todo' = WriteOrder(report')
      /\ observes' = observes + 1 /\ observes' \in 0 .. MaxObserves
      /\ UNCHANGED <<backend, series, toRead, scraping, shown>>
      /\ overlaps' = scraping
  BY ReportType, ObservesAssumption DEF Inv, TypeOK, Observe
<1>2. series \in [Series -> Int] /\ \A s \in Series : series[s] >= Missing
  BY DEF Inv, TypeOK, InRange
<1>3. todo' \in Seq(Series)
  BY <1>1, WriteOrderType
<1>4. target' \in [Series -> Int] /\ InRange' /\ TargetIsReport'
  BY <1>1, <1>2, SetsValues DEF InRange, TargetIsReport
<1>5. LastCounts'
  <2>1. series["last_reconcile"] = observes
    <3>1. todo = <<>> /\ "last_reconcile" \in Series
      BY DEF Observe, Series
    <3>2. series["last_reconcile"] = target["last_reconcile"]
      BY <3>1 DEF Inv, OnlyTodoDiffers, Holds
    <3> QED BY <3>2 DEF Inv, LastCounts
  <2>2. Counted(series) = observes
    <3>1. todo = <<>> /\ Results \subseteq Series
      BY DEF Observe, Series
    <3>2. \A s \in Results : series[s] = target[s]
      BY <3>1 DEF Inv, OnlyTodoDiffers, Holds
    <3>3. Counted(series) = Counted(target)
      BY <3>2 DEF Counted, Results
    <3> QED BY <3>3 DEF Inv, LastCounts
  <2> QED BY <1>1, <1>2, <2>1, <2>2, SetsValues, CountsOnce DEF LastCounts
<1>6. OnlyTodoDiffers'
  <2>1. Holds(todo', "kind")
    BY <1>1, WriteOrderCovers
  <2>2. \A s \in Series : ~ Holds(todo', s) => target'[s] = series[s]
    BY <1>1, <1>2, <2>1, UntouchedKeeps
  <2> QED BY <1>1, <2>2 DEF OnlyTodoDiffers
<1>7. /\ possible' \in [Series -> SUBSET Int]
      /\ scraping => \A s \in Series : possible'[s] = possible[s] \cup {target'[s]}
  <2>1. CASE scraping
    BY <2>1, <1>4 DEF Observe, AlsoPossible, Inv, TypeOK
  <2>2. CASE ~ scraping
    BY <2>2 DEF Observe, Inv, TypeOK
  <2> QED BY <2>1, <2>2
<1>8. PossibleNow'
  BY <1>1, <1>7 DEF PossibleNow, Inv
<1>9. ShownWasReported'
  BY <1>1, <1>7 DEF ShownWasReported, Inv, TypeOK
<1>10. QuietSoFar'
  BY <1>1 DEF QuietSoFar
<1>11. ReadsAll'
  BY <1>1 DEF Inv, ReadsAll
<1>12. TypeOK'
  BY <1>1, <1>3, <1>4, <1>7 DEF Inv, TypeOK
<1> QED BY <1>1, <1>4, <1>5, <1>6, <1>8, <1>9, <1>10, <1>11, <1>12 DEF Inv

LEMMA CreateStep ==
  ASSUME Inv, CreateSeries
  PROVE  Inv'
<1>1. /\ todo # <<>> /\ Head(todo) \in Series /\ series[Head(todo)] = Missing
      /\ series' = [series EXCEPT ![Head(todo)] = 0]
      /\ UNCHANGED <<backend, report, target, todo, observes, toRead, scraping, shown, possible, overlaps>>
  BY DEF Inv, TypeOK, CreateSeries, scrape
<1>2. Holds(todo, Head(todo))
  <2>1. todo \in Seq(Series) /\ todo # <<>>
    BY <1>1 DEF Inv, TypeOK
  <2>2. 1 \in DOMAIN todo /\ Head(todo) = todo[1]
    BY <2>1
  <2> QED BY <2>2 DEF Holds
<1>3. series' \in [Series -> Int] /\ InRange'
  BY <1>1 DEF Inv, TypeOK, InRange, Missing
<1>4. OnlyTodoDiffers'
  BY <1>1, <1>2 DEF Inv, TypeOK, OnlyTodoDiffers
<1>5. PossibleNow'
  <2> SUFFICES ASSUME scraping, NEW s \in Series
               PROVE  /\ target[s] \in possible[s]
                      /\ series'[s] \in possible[s] \/ (series'[s] = 0 /\ Missing \in possible[s])
    BY <1>1 DEF PossibleNow
  <2>1. target[s] \in possible[s]
        /\ (series[s] \in possible[s] \/ (series[s] = 0 /\ Missing \in possible[s]))
    BY DEF Inv, PossibleNow
  <2>2. CASE s = Head(todo)
    BY <1>1, <2>1, <2>2 DEF Inv, TypeOK, Missing
  <2>3. CASE s # Head(todo)
    BY <1>1, <2>1, <2>3 DEF Inv, TypeOK
  <2> QED BY <2>2, <2>3
<1>6. QuietSoFar'
  BY <1>1 DEF Inv, QuietSoFar
<1>7. TypeOK' /\ TargetIsReport' /\ LastCounts' /\ ShownWasReported' /\ ReadsAll'
  BY <1>1, <1>3 DEF Inv, TypeOK, TargetIsReport, LastCounts, ShownWasReported, ReadsAll
<1> QED BY <1>1, <1>3, <1>4, <1>5, <1>6, <1>7 DEF Inv

LEMMA SetStep ==
  ASSUME Inv, SetSeries
  PROVE  Inv'
<1>1. /\ todo # <<>> /\ Head(todo) \in Series
      /\ series' = [series EXCEPT ![Head(todo)] = target[Head(todo)]]
      /\ todo' = Tail(todo)
      /\ UNCHANGED <<backend, report, target, observes, toRead, scraping, shown, possible, overlaps>>
  BY DEF Inv, TypeOK, SetSeries, scrape
<1>2. todo' \in Seq(Series)
  BY <1>1 DEF Inv, TypeOK
<1>3. \A s : Holds(todo, s) => s = Head(todo) \/ Holds(todo', s)
  <2>1. todo \in Seq(Series)
    BY DEF Inv, TypeOK
  <2> SUFFICES ASSUME NEW s, NEW i \in DOMAIN todo, todo[i] = s
               PROVE  s = Head(todo) \/ Holds(todo', s)
    BY DEF Holds
  <2>2. CASE i = 1
    BY <2>1, <2>2, <1>1
  <2>3. CASE i # 1
    <3>1. i - 1 \in DOMAIN todo' /\ todo'[i - 1] = todo[i]
      BY <1>1, <2>1, <2>3
    <3> QED BY <3>1 DEF Holds
  <2> QED BY <2>2, <2>3
<1>4. series' \in [Series -> Int] /\ InRange'
  BY <1>1 DEF Inv, TypeOK, InRange
<1>5. OnlyTodoDiffers'
  BY <1>1, <1>3 DEF Inv, TypeOK, OnlyTodoDiffers
<1>6. PossibleNow'
  BY <1>1 DEF Inv, TypeOK, PossibleNow
<1>7. QuietSoFar'
  BY <1>1 DEF Inv, QuietSoFar
<1>8. TypeOK' /\ TargetIsReport' /\ LastCounts' /\ ShownWasReported' /\ ReadsAll'
  BY <1>1, <1>2, <1>4 DEF Inv, TypeOK, TargetIsReport, LastCounts, ShownWasReported, ReadsAll
<1> QED BY <1>1, <1>4, <1>5, <1>6, <1>7, <1>8 DEF Inv

LEMMA ScrapeStep ==
  ASSUME Inv, Scrape
  PROVE  Inv'
<1>1. /\ scraping' = TRUE /\ shown' = Nothing /\ overlaps' = (todo # <<>>)
      /\ possible' = [s \in Series |-> {series[s], target[s]}]
      /\ UNCHANGED <<backend, series, report, target, todo, observes>>
  BY DEF Scrape, writer
<1>2. toRead' \in Seq(Series) /\ \A s \in Series : Holds(toRead', s)
  BY OrdersAssumption DEF Scrape, Holds
<1>3. DOMAIN shown' = {}
  BY <1>1 DEF Nothing
<1>4. possible' \in [Series -> SUBSET Int] /\ overlaps' \in BOOLEAN
  BY <1>1 DEF Inv, TypeOK
<1>5. TypeOK'
  BY <1>1, <1>2, <1>3, <1>4 DEF Inv, TypeOK
<1>6. PossibleNow'
  BY <1>1 DEF PossibleNow
<1>7. QuietSoFar' /\ ShownWasReported' /\ ReadsAll'
  BY <1>1, <1>2, <1>3 DEF QuietSoFar, ShownWasReported, ReadsAll
<1>8. OnlyTodoDiffers' /\ InRange' /\ TargetIsReport' /\ LastCounts'
  BY <1>1 DEF Inv, OnlyTodoDiffers, InRange, TargetIsReport, LastCounts
<1> QED BY <1>3, <1>5, <1>6, <1>7, <1>8 DEF Inv

LEMMA ReadStep ==
  ASSUME Inv, ReadSeries
  PROVE  Inv'
<1> DEFINE d == Head(toRead)
<1>1. /\ scraping /\ toRead # <<>> /\ toRead' = Tail(toRead) /\ d \in Series
      /\ UNCHANGED <<backend, series, report, target, todo, observes, scraping, possible, overlaps>>
  BY DEF Inv, TypeOK, ReadSeries, writer
<1>2. /\ DOMAIN shown' = DOMAIN shown \cup {d}
      /\ shown'[d] = series[d]
      /\ \A s \in DOMAIN shown : s # d => shown'[s] = shown[s]
  BY DEF ReadSeries
<1>3. toRead' \in Seq(Series)
  BY <1>1 DEF Inv, TypeOK
<1>4. \A s : Holds(toRead, s) => s = d \/ Holds(toRead', s)
  <2>1. toRead \in Seq(Series)
    BY DEF Inv, TypeOK
  <2> SUFFICES ASSUME NEW s, NEW i \in DOMAIN toRead, toRead[i] = s
               PROVE  s = d \/ Holds(toRead', s)
    BY DEF Holds
  <2>2. CASE i = 1
    BY <2>1, <2>2, <1>1
  <2>3. CASE i # 1
    <3>1. i - 1 \in DOMAIN toRead' /\ toRead'[i - 1] = toRead[i]
      BY <1>1, <2>1, <2>3
    <3> QED BY <3>1 DEF Holds
  <2> QED BY <2>2, <2>3
<1>5. TypeOK'
  BY <1>1, <1>2, <1>3 DEF Inv, TypeOK
<1>6. ShownWasReported'
  <2>1. series[d] \in possible[d] \/ (series[d] = 0 /\ Missing \in possible[d])
    BY <1>1 DEF Inv, PossibleNow
  <2> QED BY <1>1, <1>2, <2>1 DEF Inv, ShownWasReported
<1>7. QuietSoFar'
  BY <1>1, <1>2 DEF Inv, QuietSoFar
<1>8. ReadsAll'
  BY <1>1, <1>2, <1>4 DEF Inv, ReadsAll
<1>9. OnlyTodoDiffers' /\ InRange' /\ TargetIsReport' /\ LastCounts' /\ PossibleNow'
  BY <1>1 DEF Inv, OnlyTodoDiffers, InRange, TargetIsReport, LastCounts, PossibleNow
<1> QED BY <1>1, <1>5, <1>6, <1>7, <1>8, <1>9 DEF Inv

LEMMA AnswerStep ==
  ASSUME Inv, Answer
  PROVE  Inv'
<1>1. /\ scraping' = FALSE /\ overlaps' = FALSE /\ DOMAIN shown' = {}
      /\ possible' \in [Series -> SUBSET Int]
      /\ UNCHANGED <<backend, series, report, target, todo, observes, toRead>>
  BY DEF Answer, writer, Nothing
<1> QED BY <1>1 DEF Inv, TypeOK, OnlyTodoDiffers, InRange, TargetIsReport, LastCounts,
                    PossibleNow, ShownWasReported, QuietSoFar, ReadsAll

-----------------------------------------------------------------------------
(* The theorems. *)

(* Only the series observe has yet to set differ from the report, and what *)
(* a scrape has read, or would read now, some report set: metrics.rs:83.   *)
THEOREM MetricsInvariant == Spec => []Inv
<1>1. Inv /\ [Next]_vars => Inv'
  <2>1. Inv /\ Next => Inv'
    BY ObserveStep, CreateStep, SetStep, ScrapeStep, ReadStep, AnswerStep DEF Next
  <2>2. Inv /\ UNCHANGED vars => Inv'
    BY DEF vars, writer, scrape, Inv, TypeOK, OnlyTodoDiffers, InRange, TargetIsReport,
           LastCounts, PossibleNow, ShownWasReported, QuietSoFar, ReadsAll
  <2> QED BY <2>1, <2>2
<1> QED BY <1>1, InitInv, PTL DEF Spec

(* observe sets and encode reads no series but the registered ones, and    *)
(* every one holds a number: metrics.rs:83-125.                            *)
THEOREM MetricsTypeCorrect == Spec => []TypeOK
<1>1. Inv => TypeOK
  BY DEF Inv
<1> QED BY <1>1, MetricsInvariant, PTL

(* Whatever observe a scrape runs into, and in whatever order it reads,    *)
(* each series it shows has a value some report gave it, one in force or   *)
(* being set since the scrape began: metrics.rs:83-114, http.rs:30.        *)
THEOREM ShownWasReportedAlways == Spec => []ShownWasReported
<1>1. Inv => ShownWasReported
  BY DEF Inv
<1> QED BY <1>1, MetricsInvariant, PTL

(* A scrape that no observe overlapped shows the last report whole.        *)
THEOREM QuietScrapeShowsReportAlways == Spec => []QuietScrapeShowsReport
<1>1. Inv => QuietScrapeShowsReport
  <2> SUFFICES ASSUME Inv, scraping, toRead = <<>>, ~ overlaps, observes > 0
               PROVE  QuietScrapeShowsReport
    BY DEF QuietScrapeShowsReport
  <2>1. \A s \in Series : s \in DOMAIN shown
    BY DEF Inv, ReadsAll, Holds
  <2>2. \A s \in Series : shown[s] = target[s]
    BY <2>1 DEF Inv, QuietSoFar, OnlyTodoDiffers, Holds
  <2>3. ResultLabel(report) \in Series
    BY ResultLabelType DEF Series
  <2>4. /\ Profiles \subseteq Series
        /\ {"turbo_managed", "turbo_enabled", "last_reconcile"} \subseteq Series
    BY DEF Series
  <2>5. Counted(shown) = Counted(target)
    BY <2>2 DEF Counted, Series, Results
  <2> QED BY <2>2, <2>3, <2>4, <2>5 DEF Inv, TargetIsReport, LastCounts, QuietScrapeShowsReport
<1> QED BY <1>1, MetricsInvariant, PTL
=============================================================================
