---------------------------- MODULE DefectReports ----------------------------
(* Reports on logged defects: the MCP tools in agents/tools/pcb/analytics,  *)
(* reporting and general/history, the REST endpoints in app/api/v1/defects  *)
(* and the summaries of services/domains/pcb/defect_store.                  *)
(*                                                                          *)
(* A report is a sequence of queries, each on a connection and with a       *)
(* window of its own, between which defects are logged and time passes.     *)
EXTENDS DefectTable

CONSTANT NoReport

VARIABLES
  report,   \* the report under way or the last one, with its window
  queries,  \* what it has still to ask
  start,    \* where the window of its last query begins
  figures   \* the rows behind each figure it has, by the figure's name

reportVars == <<table, clock, report, queries, start, figures>>

-----------------------------------------------------------------------------
(* Queries: the figure they fill, their window and the rows they look at.   *)
Counted(name, hours) ==
  [name |-> name, hours |-> hours, kind |-> "count", of |-> Findings]

CountedHigh(name, hours) == [Counted(name, hours) EXCEPT !.of = Severe]

Listed(name, hours, n) ==
  [name |-> name, hours |-> hours, kind |-> "newest", limit |-> n]

Latest == Listed("latest", AllTime, 1)

Worst(hours) == [name |-> "worst", hours |-> hours, kind |-> "worst"]

(* All rows in the window of the query before: one `start`, two statements. *)
Whole == [name |-> "whole", hours |-> AllTime, kind |-> "again"]

Trend(hours) == Counted("trend", IF hours = AllTime THEN Week ELSE hours)

(* get_top_defect_sources: the rows grouped by board.                        *)
Sources(hours) == Counted("sources", hours)

\* Mutant: the total is read before the groups.
Breakdown_before(hours) ==
  <<Counted("whole", hours), [Whole EXCEPT !.name = "types"]>>

(* get_defect_type_breakdown: the groups, then what they are a share of.    *)
Breakdown(hours) == <<Counted("types", hours), Whole>>

Thresholds(hours) ==
  LET w == IF hours = AllTime THEN Day ELSE hours
  IN  <<Counted("inWindow", w), CountedHigh("highInWindow", w)>>

Insights(hours) ==
  <<Trend(hours)>> \o Breakdown(hours) \o <<Sources(hours)>>
  \o Thresholds(hours) \o <<Counted("total", hours)>>

(* The count by severity: medium and low are one figure here.               *)
CountReport(hours) ==
  <<Counted("total", hours), CountedHigh("high", hours),
    [Counted("lower", hours) EXCEPT !.of = Findings \ Severe]>>

StatusReport ==
  <<Counted("total", AllTime), Counted("day", Day), Counted("hour", Hour),
    Latest, Trend(Week)>> \o Thresholds(Day)

MonitoringOverview ==
  <<Counted("day", Day), CountedHigh("highDay", Day)>> \o Thresholds(Day)
  \o <<Trend(Week)>>

(* The list, the trend and, with a window, the count of twice the window    *)
(* the list is subtracted from.                                             *)
SummaryTool(hours) ==
  <<Listed("list", hours, ListLimit), Trend(hours)>>
  \o IF hours = AllTime THEN <<>> ELSE <<Counted("twice", 2 * hours)>>

SummaryEndpoint(hours) ==
  <<Listed("list", hours, ListLimit), Counted("total", hours)>>

PeriodReport(hours) ==
  <<Listed("list", hours, ListLimit)>> \o Breakdown(hours)
  \o <<Sources(hours), Trend(hours)>> \o Thresholds(hours)
  \o <<Worst(hours)>>

(* Four statements on one connection, each with a snapshot of its own.      *)
TableSummary ==
  <<Counted("all", AllTime), CountedHigh("bySeverity", AllTime),
    Counted("byBoard", AllTime), Counted("byType", AllTime)>>

(* A page of the newest rows, and how many pages there are.                 *)
BoardReport ==
  TableSummary
  \o <<Counted("everything", AllTime), Listed("recent", AllTime, ListLimit)>>

DefectReport ==
  BoardReport
  \o <<Counted("allTime", AllTime), Counted("day", Day),
       Counted("week", Week), Trend(Week)>>
  \o Breakdown(AllTime) \o Insights(AllTime)

LogQuery(hours) ==
  <<Listed("list", hours, ListLimit), Counted("total", hours),
    Latest>> \o Breakdown(hours)

HistoryQuery ==
  <<Listed("list", AllTime, ListLimit), Counted("total", AllTime),
    Latest, Counted("day", Day)>>

Windowed(name, hours) ==
  CASE name = "count"    -> CountReport(hours)
    [] name = "summary"  -> SummaryTool(hours)
    [] name = "endpoint" -> SummaryEndpoint(hours)
    [] name = "period"   -> PeriodReport(hours)
    [] name = "insights" -> Insights(hours)
    [] name = "logs"     -> LogQuery(hours)
    [] name = "types"    -> Breakdown(hours)
    [] name = "single"   -> <<Trend(hours), Sources(hours),
                              Worst(hours)>>

Fixed(name) ==
  CASE name = "status"   -> StatusReport
    [] name = "overview" -> MonitoringOverview
    [] name = "defects"  -> DefectReport
    [] name = "history"  -> HistoryQuery

WindowedReports == {"count", "summary", "endpoint", "period", "insights",
                    "logs", "types", "single"}
FixedReports == {"status", "overview", "defects", "history"}

-----------------------------------------------------------------------------
ReportInit ==
  /\ TableInit
  /\ report = NoReport
  /\ queries = <<>> /\ start = 0
  /\ figures = <<>>

Ask(name, hours) ==
  /\ queries = <<>>
  /\ report' = [name |-> name, hours |-> hours]
  /\ queries' = IF name \in WindowedReports
                THEN Windowed(name, hours) ELSE Fixed(name)
  /\ figures' = <<>>
  /\ UNCHANGED <<table, clock, start>>

Answers(q, from) ==
  CASE q.kind = "count"  -> {Count(from, q.of)}
    [] q.kind = "again"  -> {Since(from)}
    [] q.kind = "newest" -> Newest(Since(from), q.limit)
    [] q.kind = "worst"  -> MostSevere(from)

Query ==
  /\ queries # <<>>
  /\ LET q == Head(queries)
         from == IF q.kind = "again" THEN start ELSE Start(q.hours)
     IN  /\ start' = from
         /\ \E S \in Answers(q, from) :
              figures' = [n \in DOMAIN figures \cup {q.name} |->
                            IF n = q.name THEN S ELSE figures[n]]
  /\ queries' = Tail(queries)
  /\ UNCHANGED <<table, clock, report>>

RowLogged ==
  /\ \E f \in Findings : Record(f)
  /\ UNCHANGED <<report, queries, start, figures>>

ReportElapse ==
  Elapse /\ UNCHANGED <<report, queries, start, figures>>

ReportNext ==
  \/ \E name \in WindowedReports, hours \in {AllTime, Day} : Ask(name, hours)
  \/ \E name \in FixedReports : Ask(name, AllTime)
  \/ Query \/ RowLogged \/ ReportElapse

ReportSpec == ReportInit /\ [][ReportNext]_reportVars

-----------------------------------------------------------------------------
Figures == UNION {{"total", "high", "lower", "types", "whole", "sources"},
                  {"day", "hour", "week", "twice", "trend", "highDay"},
                  {"inWindow", "highInWindow", "list", "latest", "worst"},
                  {"all", "bySeverity", "byBoard", "byType", "recent"},
                  {"everything", "allTime"}}

ReportTypeOK ==
  /\ TableTypeOK
  /\ report = NoReport \/ report.name \in WindowedReports \cup FixedReports
  /\ start \in 0 .. Horizon
  /\ DOMAIN figures \subseteq Figures
  /\ \A n \in DOMAIN figures : figures[n] \subseteq DOMAIN table

Has(names) == names \subseteq DOMAIN figures

SharesFit ==
  Has({"types", "whole"}) => figures["types"] \subseteq figures["whole"]

SeveritiesFit ==
  report.name = "count" /\ report.hours = AllTime =>
    figures["total"] \subseteq figures["high"] \cup figures["lower"]

InsightsFit ==
  Has({"sources", "total"}) /\ report.hours = AllTime =>
    figures["sources"] \cup figures["whole"] \cup figures["trend"]
      \cup figures["inWindow"] \subseteq figures["total"]

WeekFits == Has({"week"}) => figures["day"] \subseteq figures["week"]

(* A report that is over shows figures that fit together although its       *)
(* queries see different tables: no share of a type breakdown is above one; *)
(* the severities of an unwindowed count make up at least the total; the    *)
(* insights' figures are within the total they are said to describe; and    *)
(* the day of the long report is within its week (the order of the queries  *)
(* in analytics.py, reporting.py and defect_store.py).                      *)
FiguresFit ==
  queries = <<>> /\ report # NoReport =>
    SharesFit /\ SeveritiesFit /\ InsightsFit /\ WeekFits

=============================================================================
