------------------------------- MODULE Metrics -------------------------------
(***************************************************************************)
(* The metrics of one power-agent process.  observe runs on the loop's     *)
(* thread and sets one gauge after another; a scrape of /metrics gathers   *)
(* them on a thread of the HTTP server.  Every read and write of one       *)
(* series is atomic, nothing makes a group of them so.                     *)
(*                                                                         *)
(* A series of a gauge vector or counter vector does not exist before its  *)
(* first use, and then starts at zero.  The series of                      *)
(* power_agent_backend_kind_info stand here as one, "kind", for the kind   *)
(* the process detected.                                                   *)
(***************************************************************************)
EXTENDS Reconcile, Sequences

CONSTANTS
  Hosts,        \* the forms the host takes
  LabelSets,    \* the labels the Node may have
  ReadOrders,   \* orders in which a scrape may read the series
  MaxObserves   \* bound on the reports of the process

Results == {"ok", "invalid_label", "unsupported", "error"}

(* The series, and those that exist before the first report. *)
Series == Profiles \cup Results \cup {"kind", "turbo_managed", "turbo_enabled", "last_reconcile"}
Plain  == {"turbo_managed", "turbo_enabled", "last_reconcile"}

ASSUME HostsAssumption == \A h \in Hosts : IsHost(h)
(* gather returns every series. *)
ASSUME OrdersAssumption ==
  \A order \in ReadOrders :
    order \in Seq(Series) /\ \A s \in Series : \E i \in DOMAIN order : order[i] = s
ASSUME ObservesAssumption == MaxObserves \in Nat

Missing == -1

VARIABLES
  backend,    \* the backend of the process
  series,     \* the value of every series, or Missing
  report,     \* the report observe was last called with
  target,     \* what the series are once observe returns
  todo,       \* the series observe has yet to set, in order
  observes,   \* how many reports there were
  toRead,     \* the series a scrape has yet to read, in order
  scraping,   \* whether one is under way
  shown,      \* what it has read so far; at its end, the answer
  possible,   \* history: values each series had at the end of some observe
              \* that was the last, or ran, since the scrape began
  overlaps    \* history: an observe ran during the scrape

writer  == <<backend, series, report, target, todo, observes>>
scrape  == <<toRead, scraping, shown, possible, overlaps>>
vars    == <<writer, scrape>>

Nothing == [s \in {} |-> 0]

NoReport == [profile |-> "default", profileInvalid |-> FALSE, profileError |-> FALSE,
             turbo |-> Unmanaged, turboInvalid |-> FALSE, turboError |-> FALSE,
             turboUnsupported |-> FALSE, kind |-> "unsupported"]

TypeOK ==
  /\ IsBackend(backend)
  /\ series \in [Series -> Int] /\ target \in [Series -> Int]
  /\ report \in Report
  /\ todo \in Seq(Series) /\ toRead \in Seq(Series)
  /\ observes \in 0 .. MaxObserves
  /\ scraping \in BOOLEAN /\ overlaps \in BOOLEAN
  /\ DOMAIN shown \subseteq Series
  /\ possible \in [Series -> SUBSET Int]

Init ==
  /\ \E h \in Hosts : backend = DetectBackend(h)
  /\ series = [s \in Series |-> IF s \in Plain THEN 0 ELSE Missing]
  /\ report = NoReport
  /\ target = series /\ todo = <<>> /\ observes = 0
  /\ toRead = <<>> /\ scraping = FALSE /\ shown = Nothing
  /\ possible = [s \in Series |-> {}] /\ overlaps = FALSE

-----------------------------------------------------------------------------
(* observe. *)

ProfileOrder == <<"default", "performance", "balance_performance", "balance_power", "power">>

(* Mutation: only the active profile is set. *)
WriteOrderActive(r) ==
  <<r.profile, "kind", "turbo_managed">>
    \o (IF r.turbo = Unmanaged THEN <<>> ELSE <<"turbo_enabled">>)
    \o <<ResultLabel(r), "last_reconcile">>

(* Mutation: a metric by the name of its label. *)
WriteOrderMisspelt(r) ==
  ProfileOrder \o <<"kind", "turbo-managed", ResultLabel(r), "last_reconcile">>

(* turbo_enabled keeps its value when turbo is not managed. *)
WriteOrder(r) ==
  ProfileOrder \o <<"kind", "turbo_managed">>
    \o (IF r.turbo = Unmanaged THEN <<>> ELSE <<"turbo_enabled">>)
    \o <<ResultLabel(r), "last_reconcile">>

Count(n) == IF n = Missing THEN 1 ELSE n + 1

(* The series after observe(r); the reports are their own clock. *)
Sets(r, before) ==
  [s \in Series |->
     CASE s \in Profiles           -> IF s = r.profile THEN 1 ELSE 0
       [] s = "kind"               -> 1
       [] s = "turbo_managed"      -> IF r.turbo = Unmanaged THEN 0 ELSE 1
       [] s = "turbo_enabled" /\ r.turbo # Unmanaged
                                   -> IF r.turbo = "enabled" THEN 1 ELSE 0
       [] s = ResultLabel(r)       -> Count(before[s])
       [] s = "last_reconcile"     -> before[s] + 1
       [] OTHER                    -> before[s]]

(* What a scrape may yet show of the series when observe sets them to t. *)
AlsoPossible(t) == [s \in Series |-> possible[s] \cup {t[s]}]

Observe(h, n) ==
  /\ todo = <<>> /\ observes < MaxObserves
  /\ report' = ReportOf(backend, h, n)
  /\ target' = Sets(report', series)
  /\ todo' = WriteOrder(report')
  /\ observes' = observes + 1
  /\ possible' = IF scraping THEN AlsoPossible(target') ELSE possible
  /\ overlaps' = scraping
  /\ UNCHANGED <<backend, series, toRead, scraping, shown>>

(* with_label_values creates the series it does not find. *)
CreateSeries ==
  /\ todo # <<>> /\ series[Head(todo)] = Missing
  /\ series' = [series EXCEPT ![Head(todo)] = 0]
  /\ UNCHANGED <<backend, report, target, todo, observes, scrape>>

(* Mutation: every gauge of the profiles is cleared before one is set. *)
SetSeriesAfterReset ==
  /\ todo # <<>> /\ series[Head(todo)] # Missing
  /\ series' = [s \in Series |-> IF s = Head(todo) THEN target[s]
                                 ELSE IF s \in Profiles /\ Head(todo) = "default" THEN 0
                                 ELSE series[s]]
  /\ todo' = Tail(todo)
  /\ UNCHANGED <<backend, report, target, observes, scrape>>

SetSeries ==
  /\ todo # <<>> /\ series[Head(todo)] # Missing
  /\ series' = [series EXCEPT ![Head(todo)] = target[Head(todo)]]
  /\ todo' = Tail(todo)
  /\ UNCHANGED <<backend, report, target, observes, scrape>>

-----------------------------------------------------------------------------
(* metrics_handler: gather and encode. *)

Scrape ==
  /\ ~ scraping
  /\ scraping' = TRUE
  /\ toRead' \in ReadOrders
  /\ shown' = Nothing
  /\ possible' = [s \in Series |-> {series[s], target[s]}]
  /\ overlaps' = (todo # <<>>)
  /\ UNCHANGED writer

ReadSeries ==
  /\ scraping /\ toRead # <<>>
  /\ shown' = [s \in DOMAIN shown \cup {Head(toRead)} |->
                 IF s = Head(toRead) THEN series[s] ELSE shown[s]]
  /\ toRead' = Tail(toRead)
  /\ UNCHANGED <<writer, scraping, possible, overlaps>>

Answer ==
  /\ scraping /\ toRead = <<>>
  /\ scraping' = FALSE /\ overlaps' = FALSE
  /\ shown' = Nothing /\ possible' = [s \in Series |-> {}]
  /\ UNCHANGED <<writer, toRead>>

Next ==
  \/ \E h \in Hosts, n \in LabelSets : Observe(h, n)
  \/ CreateSeries \/ SetSeries
  \/ Scrape \/ ReadSeries \/ Answer

Spec == Init /\ [][Next]_vars
-----------------------------------------------------------------------------
(* Properties. *)

(* Whatever a scrape overtakes or is overtaken by, each series it shows    *)
(* has a value that some report gave it, one that was in force or being    *)
(* set while the scrape ran.  A series that is new may show as zero.       *)
ShownWasReported ==
  \A s \in DOMAIN shown :
    \/ shown[s] \in possible[s]
    \/ shown[s] = 0 /\ Missing \in possible[s]

(* The reports that the counters of the results have seen. *)
Counted(values) ==
  LET n(s) == IF values[s] = Missing THEN 0 ELSE values[s]
  IN  n("ok") + n("invalid_label") + n("unsupported") + n("error")

(* A scrape that no observe overlapped shows the last report: one profile, *)
(* all five series there, the turbo label as it was read; and its counters *)
(* have counted every report of the process under exactly one result.      *)
QuietScrapeShowsReport ==
  scraping /\ toRead = <<>> /\ ~ overlaps /\ observes > 0 =>
    /\ \A p \in Profiles : shown[p] = (IF p = report.profile THEN 1 ELSE 0)
    /\ shown["turbo_managed"] = (IF report.turbo = Unmanaged THEN 0 ELSE 1)
    /\ report.turbo # Unmanaged =>
         shown["turbo_enabled"] = (IF report.turbo = "enabled" THEN 1 ELSE 0)
    /\ shown[ResultLabel(report)] >= 1
    /\ Counted(shown) = observes
    /\ shown["last_reconcile"] = observes
=============================================================================
