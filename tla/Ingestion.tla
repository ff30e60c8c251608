-------------------------------- MODULE Ingestion -------------------------------
(***************************************************************************)
(* How traces reach the database: the OTLP endpoint (agentcost/otel/         *)
(* collector.py, routes.py), which turns spans into traces, the batch and    *)
(* single endpoints (api/server.py), the queries over the table              *)
(* (data/events.py), and the reports of agentcost/analytics.  A payload is   *)
(* stored trace by trace, each in its own statement; when one fails the      *)
(* request fails and the client may send the payload again.  A span's        *)
(* attributes are a function from the keys of the conventions; values are    *)
(* integers: the negative ones stand for texts, 0 for the zero and for the   *)
(* empty text.                                                               *)
(***************************************************************************)
EXTENDS Integers, Sequences, FiniteSets, SequencesExt, FiniteSetsExt, Functions

CONSTANTS Clients,
          Payloads,     \* payload |-> [resource, spans], spans being sequences of
                        \* [attrs, typed, start, failed]
          Tariff,       \* Tariff[model]: the calculated cost of a call with tokens; a
                        \* model without one costs nothing
          Default,      \* the text "default"
          MaxSends, NoValue,
          ReportLimit,  \* limit=10000 of the endpoints that report
          PeriodLength  \* instants in a period of a trend

ASSUME IngestionAssumption ==
    /\ ReportLimit \in Nat \ {0} /\ PeriodLength \in Nat \ {0} /\ MaxSends \in Nat
    /\ NoValue \notin Int /\ Default \in Int /\ \A m \in DOMAIN Tariff : Tariff[m] \in Nat
    /\ IsFiniteSet(Clients) /\ IsFiniteSet(DOMAIN Payloads) /\ NoValue \notin DOMAIN Payloads
    /\ \A p \in DOMAIN Payloads :
         /\ Payloads[p].resource \in Int \cup {NoValue}
         /\ DOMAIN Payloads[p].spans \subseteq Nat /\ IsFiniteSet(DOMAIN Payloads[p].spans)
         /\ \A i \in DOMAIN Payloads[p].spans :
              LET span == Payloads[p].spans[i]
              IN  span.start \in Int /\ \A key \in DOMAIN span.attrs : span.attrs[key] \in Int

\* Keys in the order they are tried, conventions shortened to their prefix.
ModelKeys == <<"gen_ai.model", "llm.model", "model">>
InputKeys == <<"gen_ai.input", "llm.input", "input">>
OutputKeys == <<"gen_ai.output", "llm.output", "output">>
CostKeys == <<"llm.cost", "gen_ai.cost", "cost">>
ProjectKeys == <<"llm.project", "project", "service.name">>

VARIABLES stored,   \* trace_events
          client,   \* client[c]: the payload being stored, the spans left, the traces stored
          acks,     \* acks[p]: the numbers answered for payload p
          sent      \* history: sent[p]: how often payload p was sent

invars == <<stored, client, acks, sent>>

Waiting == [payload |-> NoValue, left |-> {}, count |-> 0]

IngestInit ==
    /\ stored = <<>>
    /\ acks = [p \in DOMAIN Payloads |-> <<>>] /\ sent = [p \in DOMAIN Payloads |-> 0]
    /\ client = [c \in Clients |-> Waiting]

-----------------------------------------------------------------------------
(* span_to_trace_event                                                      *)

\* _get_attr: in the typed form a zero or an empty value counts as missing.
GetAttr(span, key) ==
    IF key \notin DOMAIN span.attrs \/ (span.typed /\ span.attrs[key] = 0) THEN NoValue
    ELSE span.attrs[key]
FirstMatch(span, keys, default) ==
    LET hits == {i \in DOMAIN keys : GetAttr(span, keys[i]) # NoValue}
    IN  IF hits = {} THEN default ELSE GetAttr(span, keys[Min(hits)])
\* _to_int, _to_float: what is no number is the default, 0.
ToNumber(v) == IF v > 0 THEN v ELSE 0

Model(span) == FirstMatch(span, ModelKeys, NoValue)
IsLLM(span) == Model(span) \notin {0, NoValue}
Tokens(span) == ToNumber(FirstMatch(span, InputKeys, 0)) + ToNumber(FirstMatch(span, OutputKeys, 0))
GivenCost(span) == ToNumber(FirstMatch(span, CostKeys, 0))
\* A cost of zero is calculated again.
Cost(span) ==
    IF GivenCost(span) = 0 /\ Tokens(span) > 0 /\ Model(span) \in DOMAIN Tariff
    THEN Tariff[Model(span)]
    ELSE GivenCost(span)
\* The service name of the resource stands in for a missing project.
Project(span, resource) ==
    LET own == FirstMatch(span, ProjectKeys, Default)
    IN  IF own = Default /\ resource \notin {0, NoValue} THEN resource ELSE own

ToTrace(span, resource) ==
    [model |-> Model(span), project |-> Project(span, resource),
     tokens |-> Tokens(span), cost |-> Cost(span), at |-> span.start, failed |-> span.failed]

\* parse_otlp_json: spans that are no model calls are skipped; a trace has the
\* number of its span.
MutParse(p) == [i \in DOMAIN p.spans |-> ToTrace(p.spans[i], p.resource)]
Parse(p) == [i \in {i \in DOMAIN p.spans : IsLLM(p.spans[i])} |-> ToTrace(p.spans[i], p.resource)]
Parsed == [p \in DOMAIN Payloads |-> Parse(Payloads[p])]
TracesOf(p) == Parsed[p]

-----------------------------------------------------------------------------
(* ingest_spans and ingest_trace_batch                                      *)

Send(c, p) ==
    /\ client[c].payload = NoValue
    /\ SumFunction(sent) < MaxSends /\ sent' = [sent EXCEPT ![p] = @ + 1]
    /\ client' = [client EXCEPT ![c] = [payload |-> p, left |-> DOMAIN TracesOf(p), count |-> 0]]
    /\ UNCHANGED <<stored, acks>>

\* The traces are stored in the order of their spans.
LogTrace(c) ==
    LET next == Min(client[c].left) IN
    /\ client[c].left # {}
    /\ stored' = Append(stored, TracesOf(client[c].payload)[next])
    /\ client' = [client EXCEPT ![c].left = @ \ {next}, ![c].count = @ + 1]
    /\ UNCHANGED <<acks, sent>>

\* 200 with the number of traces.
Acknowledge(c) ==
    /\ client[c].payload # NoValue /\ client[c].left = {}
    /\ acks' = [acks EXCEPT ![client[c].payload] = Append(@, client[c].count)]
    /\ client' = [client EXCEPT ![c] = Waiting]
    /\ UNCHANGED <<stored, sent>>

\* The insert raises, the server dies or the answer is lost: what is stored stays.
FailRequest(c) ==
    /\ client[c].payload # NoValue
    /\ client' = [client EXCEPT ![c] = Waiting]
    /\ UNCHANGED <<stored, acks, sent>>

IngestNext ==
    \E c \in Clients :
        \/ \E p \in DOMAIN Payloads : Send(c, p)
        \/ LogTrace(c) \/ Acknowledge(c) \/ FailRequest(c)

IngestSpec == IngestInit /\ [][IngestNext]_invars

-----------------------------------------------------------------------------
(* Queries.  Rows are known by their place in the table; an answer in some     *)
(* order is the set of the rows in it, and one that a LIMIT cuts is one of the   *)
(* answers that ties allow.                                                   *)

\* ORDER BY rank DESC LIMIT n: n members, none of them behind one left out.
Foremost(S, rank, n) ==
    {T \in SUBSET S : /\ Cardinality(T) = (IF n < Cardinality(S) THEN n ELSE Cardinality(S))
                     /\ \A x \in T, y \in S \ T : rank[x] >= rank[y]}

\* get_traces: of a project, the latest first, up to a limit.
RowsOfProject(project) == {i \in DOMAIN stored : stored[i].project = project}
Recent(project, limit) ==
    Foremost(RowsOfProject(project), [i \in DOMAIN stored |-> stored[i].at], limit)

CostIn(rows) == SumFunction([i \in rows |-> stored[i].cost])
Summary == [calls |-> Len(stored), cost |-> CostIn(DOMAIN stored)]
ByModel == [m \in {stored[i].model : i \in DOMAIN stored} |->
               CostIn({i \in DOMAIN stored : stored[i].model = m})]
ByProject == [p \in {stored[i].project : i \in DOMAIN stored} |-> CostIn(RowsOfProject(p))]

-----------------------------------------------------------------------------
(* Reports: UsageAnalytics over the latest traces of a project.  Shares and  *)
(* averages are left as the sums they are made of.                           *)

\* analytics.add_traces(get_events().get_traces(project, limit))
Usage(project) == Recent(project, ReportLimit)

Line(rows) == [cost |-> CostIn(rows), calls |-> Cardinality(rows),
               tokens |-> SumFunction([i \in rows |-> stored[i].tokens])]
\* The dictionary every report is collected in, by key[row].
GroupBy(rows, key) == [k \in {key[i] : i \in rows} |-> Line({i \in rows : key[i] = k})]
Field(by) == [i \in DOMAIN stored |-> stored[i][by]]

TotalOf(groups) == SumFunction([k \in DOMAIN groups |-> groups[k].cost])

\* top_spenders: the dearest.
TopSpenders(rows, by, limit) ==
    LET groups == GroupBy(rows, Field(by))
    IN  Foremost(DOMAIN groups, [k \in DOMAIN groups |-> groups[k].cost], limit)
\* chargeback_report: the lines and their total.
ChargebackReport(rows, by) ==
    LET groups == GroupBy(rows, Field(by)) IN [lines |-> groups, total |-> TotalOf(groups)]
TokenEfficiency(rows) == GroupBy(rows, Field("model"))
\* cost_trends, of one model or of all.
CostTrends(rows, models) ==
    GroupBy({i \in rows : stored[i].model \in models},
            [i \in DOMAIN stored |-> stored[i].at \div PeriodLength])
UsageSummary(rows) ==
    [all |-> Line(rows), models |-> {stored[i].model : i \in rows},
     errors |-> Cardinality({i \in rows : stored[i].failed})]

-----------------------------------------------------------------------------
Copies(t) == Cardinality({i \in DOMAIN stored : stored[i] = t})
InPayload(t, p) == Cardinality({i \in DOMAIN TracesOf(p) : TracesOf(p)[i] = t})
AllTraces == UNION {{TracesOf(p)[i] : i \in DOMAIN TracesOf(p)} : p \in DOMAIN Payloads}

\* Whatever fails and is sent again: an acknowledged payload is stored whole, once
\* for each acknowledgement, with the number of traces that was answered; only
\* traces that were sent are stored; and a trace is stored no more often than it
\* was sent.
NothingAckedIsLost ==
    /\ \A t \in AllTraces :
         /\ SumFunction([p \in DOMAIN Payloads |-> Len(acks[p]) * InPayload(t, p)]) <= Copies(t)
         /\ Copies(t) <= SumFunction([p \in DOMAIN Payloads |-> sent[p] * InPayload(t, p)])
    /\ \A i \in DOMAIN stored : stored[i] \in AllTraces
    /\ \A p \in DOMAIN Payloads : \A i \in DOMAIN acks[p] :
         acks[p][i] = Cardinality(DOMAIN TracesOf(p))

\* A stored call with tokens costs something when its model has a tariff; no trace
\* is without a model and a project; the breakdowns add up to the summary; and the
\* latest trace of a project heads its list.
StoredIsUsable ==
    /\ \A i \in DOMAIN stored :
         /\ stored[i].model \notin {0, NoValue} /\ stored[i].project # NoValue
         /\ stored[i].model \in DOMAIN Tariff =>
              (stored[i].tokens > 0 /\ Tariff[stored[i].model] > 0 => stored[i].cost > 0)
    /\ SumFunction(ByModel) = Summary.cost /\ SumFunction(ByProject) = Summary.cost
    /\ \A p \in DOMAIN ByProject : \A rows \in Recent(p, 1) :
         \E last \in rows : rows = {last} /\ \A i \in RowsOfProject(p) : stored[last].at >= stored[i].at

\* The reports of a project tell one story: lines, trends and models add up to the
\* summary; the top spender has at least its share; and the summary is what the
\* event store says of the project, or, past the limit, of traces none of which is
\* older than one left out.
ReportsSound ==
    \A project \in DOMAIN ByProject : \A rows \in Usage(project) :
        LET summary == UsageSummary(rows)
            sum == summary.all
            bill == ChargebackReport(rows, "model")
            mine == RowsOfProject(project)
        IN  /\ bill.total = sum.cost /\ TotalOf(CostTrends(rows, summary.models)) = sum.cost
            /\ SumFunction([m \in summary.models |-> TokenEfficiency(rows)[m].tokens]) = sum.tokens
            /\ SumFunction([m \in summary.models |-> TokenEfficiency(rows)[m].calls]) = sum.calls
            /\ \A top \in TopSpenders(rows, "model", 1) : \A m \in top :
                 bill.lines[m].cost * Cardinality(summary.models) >= sum.cost
            /\ summary.errors <= sum.calls
            /\ Cardinality(mine) <= ReportLimit =>
                 sum.cost = ByProject[project] /\ sum.calls = Cardinality(mine)
            /\ Cardinality(mine) > ReportLimit =>
                 /\ sum.calls = ReportLimit /\ sum.cost <= ByProject[project]
                 /\ \A i \in mine, j \in rows : stored[i].at > stored[j].at => i \in rows

IngestionSound == NothingAckedIsLost /\ StoredIsUsable /\ ReportsSound
===============================================================================
