------------------------------- MODULE Notify -------------------------------
(***************************************************************************)
(* agentcost/notify: the channels and the dispatcher, and the scorecards   *)
(* of agents, which share nothing but their directory and routes.          *)
(***************************************************************************)
EXTENDS Integers, Sequences, FiniteSets, SequencesExt, Functions

-----------------------------------------------------------------------------
(***************************************************************************)
(* Notification channels (agentcost/notify/channel_service.py), the          *)
(* dispatcher that posts an event to every channel subscribed to it          *)
(* (dispatcher.py) and their routes.  A dispatch reads the channels once and *)
(* posts to them one after the other, while other workers edit them.         *)
(* Messages are not modelled; a channel is configured or it is not.          *)
(***************************************************************************)

CONSTANTS Posters,      \* workers that dispatch
          Channel,      \* identifiers
          ChannelOrg,   \* the organizations
          Rows,         \* channels that are asked for: [org, kind, events, enabled, ready]
          Subjects,     \* event types
          MaxTouch, MaxPosts, Missing

ValidKinds == {"slack", "email", "webhook", "pagerduty"}
Stubs == {"email", "pagerduty"}
Star == {"*"}
Answered == {"ok", "refused", "raised"}

ASSUME NotifyAssumption ==
    /\ IsFiniteSet(Channel) /\ {MaxTouch, MaxPosts} \subseteq Nat
    /\ Rows \subseteq [org : ChannelOrg, kind : ValidKinds \cup {"fax"}, enabled : BOOLEAN,
                      ready : BOOLEAN, events : SUBSET (Subjects \cup Star)]
    /\ Missing \notin Rows

VARIABLES chan,    \* chan[c]: [org, kind, events, enabled, ready] or Missing
          post,    \* post[w]: the dispatch in progress: event, snapshot, what is left, results
          reports, \* what dispatches returned
          reached, \* messages that arrived: <<dispatch, channel>>
          touch, posts

nvars == <<chan, post, reports, reached, touch, posts>>

Quiet == [id |-> 0, org |-> Missing, event |-> Missing, left |-> <<>>, snap |-> <<>>, results |-> <<>>]

NotifyInit ==
    /\ chan = [c \in Channel |-> Missing]
    /\ post = [w \in Posters |-> Quiet]
    /\ reports = {} /\ reached = {} /\ touch = 0 /\ posts = 0

Touch == touch < MaxTouch /\ touch' = touch + 1

\* An unknown channel_type is refused with an error.
CreateChannel(c, row) ==
    /\ chan[c] = Missing /\ row.kind \in ValidKinds /\ Touch
    /\ chan' = [chan EXCEPT ![c] = row]
    /\ UNCHANGED <<post, reports, reached, posts>>

\* update() and toggle(): only the organization's own row changes.
UpdateChannel(c, row) ==
    /\ chan[c] # Missing /\ chan[c].org = row.org /\ row.kind \in ValidKinds /\ row # chan[c]
    /\ Touch
    /\ chan' = [chan EXCEPT ![c] = row]
    /\ UNCHANGED <<post, reports, reached, posts>>

DeleteChannel(c) ==
    /\ chan[c] # Missing /\ Touch
    /\ chan' = [chan EXCEPT ![c] = Missing]
    /\ UNCHANGED <<post, reports, reached, posts>>

\* get_channels_for_event: enabled, of the organization, for all events or this one.
Subscribed(c, org, event) ==
    /\ chan[c] # Missing /\ chan[c].org = org /\ chan[c].enabled
    /\ chan[c].events = Star \/ event \in chan[c].events
\* In some order, as ids are taken for no names.
ForEvent(org, event) == SetToSeq({c \in Channel : Subscribed(c, org, event)})

StartDispatch(w, org, event) ==
    /\ post[w] = Quiet /\ posts < MaxPosts /\ posts' = posts + 1
    /\ LET s == ForEvent(org, event) IN
       /\ s # <<>>                     \* otherwise 0 dispatched, and done
       /\ post' = [post EXCEPT ![w] = [id |-> posts + 1, org |-> org, event |-> event, left |-> s,
                                       snap |-> [i \in DOMAIN s |-> chan[s[i]]], results |-> <<>>]]
    /\ UNCHANGED <<chan, reports, reached, touch>>

\* What a sender returns: an HTTP call that raises counts as a success ("queued"),
\* though nothing sends it later; the stubs succeed without sending anything.
MutRaises(row, answer) == row.ready /\ (row.kind \in Stubs \/ answer = "ok")
Success(row, answer) == row.ready /\ (row.kind \in Stubs \/ answer # "refused")
Arrives(row, answer) == row.ready /\ row.kind \notin Stubs /\ answer = "ok"

\* send_to_channel, from the snapshot: a failing channel stops no other.
SendNext(w, answer) ==
    /\ post[w].left # <<>>
    /\ LET c == Head(post[w].left)
           row == post[w].snap[Len(post[w].results) + 1]
       IN  /\ post' = [post EXCEPT ![w].left = Tail(@),
                                   ![w].results = Append(@, [chan |-> c, success |-> Success(row, answer),
                                                             answer |-> answer])]
           /\ reached' = IF Arrives(row, answer) THEN reached \cup {<<post[w].id, c>>} ELSE reached
    /\ UNCHANGED <<chan, reports, touch, posts>>

EndDispatch(w) ==
    /\ post[w].results # <<>> /\ post[w].left = <<>>
    /\ reports' = reports \cup {[id |-> post[w].id, org |-> post[w].org, snap |-> post[w].snap,
                                 results |-> post[w].results]}
    /\ post' = [post EXCEPT ![w] = Quiet]
    /\ UNCHANGED <<chan, reached, touch, posts>>

\* The sender dies between two channels: the rest is never told.
PosterDies(w) ==
    /\ post[w] # Quiet
    /\ post' = [post EXCEPT ![w] = Quiet]
    /\ UNCHANGED <<chan, reports, reached, touch, posts>>

NotifyNext ==
    \/ \E c \in Channel : DeleteChannel(c) \/ \E row \in Rows : CreateChannel(c, row) \/ UpdateChannel(c, row)
    \/ \E w \in Posters :
         \/ \E org \in ChannelOrg, event \in Subjects : StartDispatch(w, org, event)
         \/ \E answer \in Answered : SendNext(w, answer)
         \/ EndDispatch(w) \/ PosterDies(w)

NotifySpec == NotifyInit /\ [][NotifyNext]_nvars

-----------------------------------------------------------------------------
\* No message crosses organizations, even when a channel is deleted and its
\* identifier, kind or subscription changes during the dispatch; a dispatch tries
\* each channel of its snapshot once, whatever the ones before answered; and of
\* the successes it reports over HTTP, the ones that did not arrive are those whose
\* call raised.
DispatchSound ==
    /\ \A r \in reports :
         /\ Len(r.results) = Len(r.snap)
         /\ \A i, j \in DOMAIN r.results : r.results[i].chan = r.results[j].chan => i = j
         /\ \A i \in DOMAIN r.results :
              /\ r.snap[i].org = r.org /\ r.snap[i].enabled
              /\ <<r.id, r.results[i].chan>> \in reached => r.results[i].success
              /\ (r.results[i].success /\ r.snap[i].kind \notin Stubs
                  /\ <<r.id, r.results[i].chan>> \notin reached) => r.results[i].answer = "raised"
              /\ r.results[i].answer = "raised" /\ r.snap[i].ready => r.results[i].success
    /\ \A w \in Posters : post[w] # Quiet =>
         Len(post[w].results) + Len(post[w].left) = Len(post[w].snap)

-----------------------------------------------------------------------------
(***************************************************************************)
(* Agent scorecards (agentcost/notify/scorecard_service.py): statistics over *)
(* an agent's traces of a month, a grade, and a row that is looked for and   *)
(* then updated or inserted; the table has no uniqueness.  A trace counts    *)
(* only if it carries the organization, which log_trace does not write: such *)
(* traces come from outside this code.  Rates are in percent, rounded down,  *)
(* costs in tenths of a cent.                                                *)
(***************************************************************************)

CONSTANTS Graders,      \* workers
          Rated,        \* agents
          TaskCosts, MaxTasks, MaxGrades, Unset

Task == [agent : Rated, cost : TaskCosts, ok : BOOLEAN, attributed : BOOLEAN]

ASSUME CardsAssumption ==
    TaskCosts \subseteq Nat /\ IsFiniteSet(Graders) /\ {MaxTasks, MaxGrades} \subseteq Nat

VARIABLES tasks,    \* a sequence of tasks, as they finished
          cards,    \* agent_scorecards, in the order of insertion
          grader,   \* grader[w]: statistics computed, and whether a row was found
          grades

gradevars == <<tasks, cards, grader, grades>>

Off == [agent |-> Unset, total |-> 0, step |-> "off", card |-> Unset]

CardsInit ==
    /\ tasks = <<>> /\ cards = <<>> /\ grades = 0
    /\ grader = [w \in Graders |-> Off]

Finish(t) ==
    /\ Len(tasks) < MaxTasks
    /\ tasks' = Append(tasks, t)
    /\ UNCHANGED <<cards, grader, grades>>

\* The attributed tasks of an agent among the first n, and what is counted of them.
Mine(n, a) == {i \in 1 .. n : tasks[i].agent = a /\ tasks[i].attributed}
CostOf == [i \in DOMAIN tasks |-> tasks[i].cost]
Figures(S) == [total |-> Cardinality(S), ok |-> Cardinality({i \in S : tasks[i].ok}),
               cost |-> SumFunctionOnSet(CostOf, S)]
Quality(f) == (100 * f.ok) \div f.total
ErrorRate(f) == (100 * (f.total - f.ok)) \div f.total
PerTask(f) == f.cost \div f.total

\* _compute_grade, in tenths.
CostScore(c) == CASE c <= 1 -> 100 [] c \in 2 .. 10 -> 90 [] c \in 11 .. 50 -> 75
                  [] c \in 51 .. 100 -> 60 [] c \in 101 .. 500 -> 40 [] c \in 501 .. 1000 -> 20
                  [] OTHER -> 10
Composite(q, e, c) == 5 * q + 3 * (100 - e) + 2 * CostScore(c)
Grade(q, e, c) ==
    LET x == Composite(q, e, c) IN
    CASE x >= 900 -> "A" [] x \in 800 .. 899 -> "B" [] x \in 700 .. 799 -> "C"
      [] x \in 600 .. 699 -> "D" [] x < 600 -> "F"

\* _generate_recommendations.
Advice(q, e, c, total) ==
    LET all == (IF e > 10 THEN {"errors"} ELSE {}) \cup (IF e > 25 THEN {"pause"} ELSE {})
               \cup (IF c > 500 THEN {"cheaper"} ELSE {}) \cup (IF c > 100 THEN {"smaller"} ELSE {})
               \cup (IF q < 70 THEN {"prompts"} ELSE {}) \cup (IF total > 100000 THEN {"budget"} ELSE {})
    IN  IF all = {} THEN {"fine"} ELSE all

Card(a, f) ==
    [agent |-> a, quality |-> Quality(f), errors |-> ErrorRate(f), each |-> PerTask(f), total |-> f.total,
     grade |-> Grade(Quality(f), ErrorRate(f), PerTask(f)),
     advice |-> Advice(Quality(f), ErrorRate(f), PerTask(f), f.cost)]

\* generate(): the statistics, the search for a row, the write; without traces
\* nothing is written.
ReadStats(w, a) ==
    /\ grader[w] = Off /\ grades < MaxGrades /\ grades' = grades + 1
    /\ LET f == Figures(Mine(Len(tasks), a)) IN
       /\ f.total > 0
       /\ grader' = [grader EXCEPT ![w] = [agent |-> a, total |-> f.total, step |-> "look",
                                           card |-> Card(a, f)]]
    /\ UNCHANGED <<tasks, cards>>

RowsOf(a) == {i \in DOMAIN cards : cards[i].agent = a}
Look(w) ==
    /\ grader[w].step = "look"
    /\ grader' = [grader EXCEPT ![w].step = IF RowsOf(grader[w].agent) # {} THEN "update" ELSE "insert"]
    /\ UNCHANGED <<tasks, cards, grades>>

\* The update changes every row of the agent and month.
Store(w) ==
    /\ grader[w].step \in {"update", "insert"}
    /\ cards' = IF grader[w].step = "insert" THEN Append(cards, grader[w].card)
                ELSE [i \in DOMAIN cards |-> IF i \in RowsOf(grader[w].agent) THEN grader[w].card
                                             ELSE cards[i]]
    /\ grader' = [grader EXCEPT ![w] = Off]
    /\ UNCHANGED <<tasks, grades>>

CardsNext ==
    \/ \E t \in Task : Finish(t)
    \/ \E w \in Graders : Look(w) \/ Store(w) \/ \E a \in Rated : ReadStats(w, a)

CardsSpec == CardsInit /\ [][CardsNext]_gradevars

-----------------------------------------------------------------------------
GradeRank(g) == CASE g = "A" -> 5 [] g = "B" -> 4 [] g = "C" -> 3 [] g = "D" -> 2 [] g = "F" -> 1

\* Each row tells what the agent's attributed tasks were at some moment: never more
\* tasks than there are; and an agent has at most one row for each grader that can
\* race for it.
CardsAreTrue ==
    /\ \A i \in DOMAIN cards :
         \E n \in 1 .. Len(tasks) :
            LET f == Figures(Mine(n, cards[i].agent)) IN f.total > 0 /\ cards[i] = Card(cards[i].agent, f)
    /\ \A a \in Rated : Cardinality(RowsOf(a)) <= Cardinality(Graders)

\* A better agent is never graded worse: with another success that costs no more
\* than the average, the grade does not fall; an agent that failed every task fails,
\* and an A is never told to pause.
GradesMonotone ==
    \A a \in Rated : LET f == Figures(Mine(Len(tasks), a)) IN
        f.total > 0 =>
            LET now == Card(a, f)
                more == Card(a, [f EXCEPT !.total = @ + 1, !.ok = @ + 1])
            IN  /\ GradeRank(more.grade) >= GradeRank(now.grade)
                /\ now.quality = 0 => now.grade = "F"
                /\ now.grade = "A" => "pause" \notin now.advice

ScorecardsSound == CardsAreTrue /\ GradesMonotone

-----------------------------------------------------------------------------
\* A dispatch serves the channels it saw, and a scorecard says what its month says.
NoticesSound == DispatchSound /\ ScorecardsSound
===============================================================================
