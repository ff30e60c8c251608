-------------------------------- MODULE Feedback -------------------------------
(***************************************************************************)
(* Feedback on traces (agentcost/feedback): scores of -1, 0 and 1 in a table  *)
(* of their own, joined with trace_events by trace_id when quality per model,  *)
(* project or prompt version is asked for.  Nothing makes a trace_id unique or *)
(* known: feedback may come before its trace, and a trace that the SDK sends    *)
(* again is stored again.  A deletion looks first and deletes then.            *)
(***************************************************************************)
EXTENDS Integers, Sequences, FiniteSets, SequencesExt, Functions

CONSTANTS Raters,        \* requests that may be deleting at once
          TraceInfo,     \* TraceInfo[id]: [model, project, version, price] of a trace
          Scores,        \* what clients send, good or bad
          Tenants,       \* org_id
          MaxFeedback,   \* bound on the feedback submitted
          MaxTraceRows,  \* bound on the rows of trace_events
          Unversioned    \* a trace without a prompt version

ASSUME FeedbackAssumption == IsFiniteSet(DOMAIN TraceInfo) /\ IsFiniteSet(Tenants)

VARIABLES feedback,   \* trace_feedback: [n, trace, score, org]
          traceRows,  \* trace_events: the trace ids of the rows
          rater,      \* rater[r]: the feedback a deletion has found, or 0
          given,      \* history: feedback submitted so far
          removals    \* history: [n, lone]: deletions that were answered with success

fbvars == <<feedback, traceRows, rater, given, removals>>

FeedbackInit ==
    /\ feedback = {} /\ traceRows = <<>>
    /\ rater = [r \in Raters |-> 0]
    /\ given = 0 /\ removals = <<>>

\* A score that is none of the three raises, and changes nothing.
ValidScore(score) == score \in {-1, 0, 1}

Submit(trace, score, org) ==
    /\ ValidScore(score)
    /\ given < MaxFeedback
    /\ given' = given + 1
    /\ feedback' = feedback \cup {[n |-> given + 1, trace |-> trace, score |-> score, org |-> org]}
    /\ UNCHANGED <<traceRows, rater, removals>>

\* External: a trace is stored, the first time or again.
StoreTrace(trace) ==
    /\ Len(traceRows) < MaxTraceRows
    /\ traceRows' = Append(traceRows, trace)
    /\ UNCHANGED <<feedback, rater, given, removals>>

\* delete_feedback, which answers False or ...
FindFeedback(r, n) ==
    /\ rater[r] = 0
    /\ \E f \in feedback : f.n = n
    /\ rater' = [rater EXCEPT ![r] = n]
    /\ UNCHANGED <<feedback, traceRows, given, removals>>

\* ... deletes, and answers True whether the row was still there or not.
RemoveFeedback(r) ==
    /\ rater[r] # 0
    /\ feedback' = {f \in feedback : f.n # rater[r]}
    /\ removals' = Append(removals, rater[r])
    /\ rater' = [rater EXCEPT ![r] = 0]
    /\ UNCHANGED <<traceRows, given>>

FeedbackNext ==
    \/ \E trace \in DOMAIN TraceInfo, score \in Scores, org \in Tenants : Submit(trace, score, org)
    \/ \E trace \in DOMAIN TraceInfo : StoreTrace(trace)
    \/ \E r \in Raters : (\E n \in 1 .. given : FindFeedback(r, n)) \/ RemoveFeedback(r)

FeedbackSpec == FeedbackInit /\ [][FeedbackNext]_fbvars

-----------------------------------------------------------------------------
(* Queries                                                                  *)

\* What get_trace_score and get_summary count.
Counts(some) ==
    LET having(s) == Cardinality({f \in some : f.score = s})
    IN  [total |-> Cardinality(some), positive |-> having(1), negative |-> having(-1), neutral |-> having(0)]
TraceScore(trace) == Counts({f \in feedback : f.trace = trace})
FeedbackSummary == Counts(feedback)

\* trace_feedback f JOIN trace_events t: one row for each pair.
Joined == {p \in feedback \X DOMAIN traceRows : p[1].trace = traceRows[p[2]]}
About(p) == TraceInfo[p[1].trace]

QualityOf(rows) ==
    [total |-> Cardinality(rows),
     positive |-> Cardinality({p \in rows : p[1].score = 1}),
     negative |-> Cardinality({p \in rows : p[1].score = -1}),
     \* avg_cost times total
     cost |-> SumFunction([p \in rows |-> About(p).price])]

Models == {TraceInfo[t].model : t \in DOMAIN TraceInfo}
ModelQuality(model) == QualityOf({p \in Joined : About(p).model = model})
ProjectQuality(project, model) ==
    QualityOf({p \in Joined : About(p).model = model /\ About(p).project = project})
\* One line for each model that has feedback.
QualityByModel == [m \in {m \in Models : ModelQuality(m).total > 0} |-> ModelQuality(m)]
QualityByVersion ==
    LET rows == {p \in Joined : About(p).version # Unversioned}
    IN  [v \in {About(p).version : p \in rows} |-> QualityOf({p \in rows : About(p).version = v})]
\* list_feedback of an organization and a model: feedback on a trace that was stored
\* twice is listed twice.
ListFeedback(org, model) == {p \in Joined : About(p).model = model /\ p[1].org = org}

-----------------------------------------------------------------------------
(* Properties *)

TimesStored(trace) == Cardinality({i \in DOMAIN traceRows : traceRows[i] = trace})
Arrived == {f \in feedback : TimesStored(f.trace) > 0}
NoneResent == \A trace \in DOMAIN TraceInfo : TimesStored(trace) <= 1

\* The counts of the traces add up to the summary.  As long as no trace was stored
\* twice, the models together count each piece of feedback whose trace has arrived
\* once, and no prompt version or project counts more than its model; a trace that
\* was stored twice can only add.
QualityAddsUp ==
    LET all == SumFunction([m \in DOMAIN QualityByModel |-> QualityByModel[m].total])
        versions == SumFunction([v \in DOMAIN QualityByVersion |-> QualityByVersion[v].total])
        projects == {TraceInfo[t].project : t \in DOMAIN TraceInfo}
    IN  /\ SumFunction([t \in DOMAIN TraceInfo |-> TraceScore(t).total]) = FeedbackSummary.total
        /\ NoneResent => all = Cardinality(Arrived)
        /\ all >= Cardinality(Arrived)
        /\ versions <= all
        /\ \A m \in Models :
             /\ ModelQuality(m).positive + ModelQuality(m).negative <= ModelQuality(m).total
             /\ SumFunction([p \in projects |-> ProjectQuality(p, m).total]) = ModelQuality(m).total
             /\ SumFunction([o \in Tenants |-> Cardinality(ListFeedback(o, m))]) = ModelQuality(m).total

\* What a deletion was answered for is gone for good, and only what was deleted is
\* missing.
DeletedForGood == {f.n : f \in feedback} = (1 .. given) \ ToSet(removals)

FeedbackSound == QualityAddsUp /\ DeletedForGood
===============================================================================
