------------------------------- MODULE Prompts -------------------------------
(***************************************************************************)
(* PromptService (agentcost/prompts): prompts, their numbered versions and *)
(* the version deployed to each environment.                               *)
(*                                                                         *)
(* Every db.execute / db.fetch_* opens its own connection and commits on   *)
(* its own, so one database call is one atomic step here and a service     *)
(* method is a sequence of such steps.  Workers are the API processes and  *)
(* threads that call the service; a worker may die between two steps.      *)
(*                                                                         *)
(* A prompt is found by id or by name and both end in one row, so a lookup *)
(* is a choice of an existing row.  Content, tags, model and config are    *)
(* payload nothing branches on and are left out.                           *)
(***************************************************************************)
EXTENDS Naturals

CONSTANTS Workers,      \* concurrent callers of the service
          Ids,          \* prompt ids (uuid4 prefixes, never used twice)
          Names,        \* (name, project, org_id) triples
          Envs,         \* deployment environments
          MaxVersion,   \* bound: no version beyond it is created
          MayCrash,     \* whether a worker may die inside a call
          None          \* "no value"

ASSUME PromptsAssumption ==
    /\ MaxVersion \in Nat \ {0}
    /\ MayCrash \in BOOLEAN
    /\ None \notin Ids \cup Names \cup Envs

VARIABLES row,        \* row[p]: is p in table prompts ("live"), not yet, or deleted
          name,       \* prompts.name (with project and org)
          latest,     \* prompts.latest_version
          versions,   \* versions[p]: the version numbers in prompt_versions
          deployed,   \* deployed[p][e]: prompt_deployments.version, 0 = no row
          call,       \* call[w]: the service call w is inside of
          purged,     \* history: prompts whose version rows a delete removed
          released    \* history: <<p, e>> deployed once and not deleted since

vars == <<row, name, latest, versions, deployed, call, purged, released>>

Steps == {"idle", "insert_first", "insert_next", "bump",
          "check", "undeploy", "redeploy",
          "read_deployment", "read_latest", "fetch", "fetch_given",
          "del_deployments", "del_versions", "del_row"}

\* A call in progress: the next database call, and the locals it will use.
Call(at, p, v, e) == [at |-> at, p |-> p, v |-> v, e |-> e]
Calls == [at : Steps, p : Ids \cup {None}, v : 0 .. MaxVersion, e : Envs \cup {None}]
Idle == Call("idle", None, 0, None)

TypeOK ==
    /\ row \in [Ids -> {"unborn", "live", "gone"}]
    /\ name \in [Ids -> Names \cup {None}]
    /\ latest \in [Ids -> 0 .. MaxVersion]
    /\ versions \in [Ids -> SUBSET (1 .. MaxVersion)]
    /\ deployed \in [Ids -> [Envs -> 0 .. MaxVersion]]
    /\ call \in [Workers -> Calls]
    /\ purged \subseteq Ids
    /\ released \subseteq Ids \X Envs

Init ==
    /\ row = [p \in Ids |-> "unborn"]
    /\ name = [p \in Ids |-> None]
    /\ latest = [p \in Ids |-> 0]
    /\ versions = [p \in Ids |-> {}]
    /\ deployed = [p \in Ids |-> [e \in Envs |-> 0]]
    /\ call = [w \in Workers |-> Idle]
    /\ purged = {}
    /\ released = {}

At(w, step) == call[w].at = step
Goto(w, c) == call' = [call EXCEPT ![w] = c]
Next_at(w, step) == Goto(w, Call(step, call[w].p, call[w].v, call[w].e))
Return(w) == Goto(w, Idle)

Tables == <<row, name, latest, versions, deployed, purged, released>>

-----------------------------------------------------------------------------
(* create_prompt and create_version *)

\* UNIQUE(name, project, org_id) on table prompts.
NameFree(n) == \A q \in Ids : row[q] = "live" => name[q] # n

FirstVersion == 1

\* INSERT INTO prompts; a taken name raises and nothing has changed.
CreatePrompt(w, p, n) ==
    /\ At(w, "idle")
    /\ row[p] = "unborn"
    /\ NameFree(n)
    /\ row' = [row EXCEPT ![p] = "live"]
    /\ name' = [name EXCEPT ![p] = n]
    /\ latest' = [latest EXCEPT ![p] = FirstVersion]
    /\ Goto(w, Call("insert_first", p, FirstVersion, None))
    /\ UNCHANGED <<versions, deployed, purged, released>>

MutSkipNumber(p) == latest[p] + 2
NextNumber(p) == latest[p] + 1

\* create_version reads latest_version, and inserts the number after it.
ReadForVersion(w, p) ==
    /\ At(w, "idle")
    /\ row[p] = "live"
    /\ NextNumber(p) <= MaxVersion
    /\ Goto(w, Call("insert_next", p, NextNumber(p), None))
    /\ UNCHANGED Tables

MutAnyNumber(p, v) == TRUE
\* UNIQUE(prompt_id, version) on table prompt_versions.
NumberFree(p, v) == v \notin versions[p]

\* _create_version_record.
InsertVersion(w) ==
    LET c == call[w] IN
    /\ c.at \in {"insert_first", "insert_next"}
    /\ \/ /\ NumberFree(c.p, c.v)
          /\ versions' = [versions EXCEPT ![c.p] = @ \cup {c.v}]
          /\ IF c.at = "insert_first" THEN Return(w) ELSE Next_at(w, "bump")
       \/ /\ ~NumberFree(c.p, c.v)          \* IntegrityError reaches the caller
          /\ Return(w)
          /\ UNCHANGED versions
    /\ UNCHANGED <<row, name, latest, deployed, purged, released>>

MutKeepLatest(p, v) == latest[p]
NewLatest(p, v) == v

\* UPDATE prompts SET latest_version; no row matches once p is deleted.
BumpLatest(w) ==
    LET c == call[w] IN
    /\ At(w, "bump")
    /\ latest' = IF row[c.p] = "live"
                 THEN [latest EXCEPT ![c.p] = NewLatest(c.p, c.v)]
                 ELSE latest
    /\ Return(w)
    /\ UNCHANGED <<row, name, versions, deployed, purged, released>>

-----------------------------------------------------------------------------
(* deploy *)

StartDeploy(w, p, v, e) ==
    /\ At(w, "idle")
    /\ row[p] = "live"
    /\ Goto(w, Call("check", p, v, e))
    /\ UNCHANGED Tables

MutUnchecked(p, v) == TRUE
VersionFound(p, v) == v \in versions[p]

CheckVersion(w) ==
    LET c == call[w] IN
    /\ At(w, "check")
    /\ IF VersionFound(c.p, c.v) THEN Next_at(w, "undeploy") ELSE Return(w)
    /\ UNCHANGED Tables

\* DELETE of the old deployment row; an error of this call is swallowed.
Undeploy(w) ==
    LET c == call[w] IN
    /\ At(w, "undeploy")
    /\ \/ deployed' = [deployed EXCEPT ![c.p][c.e] = 0]
       \/ UNCHANGED deployed
    /\ Next_at(w, "redeploy")
    /\ UNCHANGED <<row, name, latest, versions, purged, released>>

\* INSERT of the new row; UNIQUE(prompt_id, environment) may reject it.
Redeploy(w) ==
    LET c == call[w] IN
    /\ At(w, "redeploy")
    /\ \/ /\ deployed[c.p][c.e] = 0
          /\ deployed' = [deployed EXCEPT ![c.p][c.e] = c.v]
          /\ released' = released \cup {<<c.p, c.e>>}
       \/ /\ deployed[c.p][c.e] # 0
          /\ UNCHANGED <<deployed, released>>
    /\ Return(w)
    /\ UNCHANGED <<row, name, latest, versions, purged>>

-----------------------------------------------------------------------------
(* resolve *)

StartResolve(w, p, e) ==
    /\ At(w, "idle")
    /\ row[p] = "live"
    /\ \/ Goto(w, Call("read_deployment", p, 0, e))
       \/ \E v \in 1 .. MaxVersion : Goto(w, Call("fetch_given", p, v, e))
    /\ UNCHANGED Tables

MutFirstIsNone(p, e) == deployed[p][e] <= 1
NotDeployed(p, e) == deployed[p][e] = 0

ReadDeployment(w) ==
    LET c == call[w] IN
    /\ At(w, "read_deployment")
    /\ \/ /\ ~NotDeployed(c.p, c.e)
          /\ Goto(w, Call("fetch", c.p, deployed[c.p][c.e], c.e))
       \/ /\ NotDeployed(c.p, c.e)
          /\ Next_at(w, "read_latest")
    /\ UNCHANGED Tables

\* The fallback; with the row gone, prompt["latest_version"] raises.
ReadLatest(w) ==
    LET c == call[w] IN
    /\ At(w, "read_latest")
    /\ IF row[c.p] = "live"
       THEN Goto(w, Call("fetch", c.p, latest[c.p], c.e))
       ELSE Return(w)
    /\ UNCHANGED Tables

\* get_version: the answer, or "No version found"; both end the call.
Fetch(w) ==
    /\ call[w].at \in {"fetch", "fetch_given"}
    /\ Return(w)
    /\ UNCHANGED Tables

-----------------------------------------------------------------------------
(* delete_prompt: deployments, then versions, then the prompt itself *)

StartDelete(w, p) ==
    /\ At(w, "idle")
    /\ row[p] = "live"
    /\ Goto(w, Call("del_deployments", p, 0, None))
    /\ UNCHANGED Tables

DeleteDeployments(w) ==
    LET p == call[w].p IN
    /\ At(w, "del_deployments")
    /\ deployed' = [deployed EXCEPT ![p] = [e \in Envs |-> 0]]
    /\ released' = released \ ({p} \X Envs)
    /\ Next_at(w, "del_versions")
    /\ UNCHANGED <<row, name, latest, versions, purged>>

DeleteVersions(w) ==
    LET p == call[w].p IN
    /\ At(w, "del_versions")
    /\ versions' = [versions EXCEPT ![p] = {}]
    /\ purged' = purged \cup {p}
    /\ Next_at(w, "del_row")
    /\ UNCHANGED <<row, name, latest, deployed, released>>

DeleteRow(w) ==
    LET p == call[w].p IN
    /\ At(w, "del_row")
    /\ row' = [row EXCEPT ![p] = "gone"]
    /\ name' = [name EXCEPT ![p] = None]
    /\ latest' = [latest EXCEPT ![p] = 0]
    /\ Return(w)
    /\ UNCHANGED <<versions, deployed, purged, released>>

-----------------------------------------------------------------------------
\* The worker dies, or the next database call fails: the rest never runs.
Crash(w) ==
    /\ MayCrash
    /\ ~At(w, "idle")
    /\ Return(w)
    /\ UNCHANGED Tables

Writer(w) ==
    \/ \E p \in Ids, n \in Names : CreatePrompt(w, p, n)
    \/ \E p \in Ids : ReadForVersion(w, p)
    \/ InsertVersion(w)
    \/ BumpLatest(w)

Deployer(w) ==
    \/ \E p \in Ids, v \in 1 .. MaxVersion, e \in Envs : StartDeploy(w, p, v, e)
    \/ CheckVersion(w)
    \/ Undeploy(w)
    \/ Redeploy(w)

Resolver(w) ==
    \/ \E p \in Ids, e \in Envs : StartResolve(w, p, e)
    \/ ReadDeployment(w)
    \/ ReadLatest(w)
    \/ Fetch(w)

Deleter(w) ==
    \/ \E p \in Ids : StartDelete(w, p)
    \/ DeleteDeployments(w)
    \/ DeleteVersions(w)
    \/ DeleteRow(w)

Next ==
    \E w \in Workers :
        Writer(w) \/ Deployer(w) \/ Resolver(w) \/ Deleter(w) \/ Crash(w)

Spec == Init /\ [][Next]_vars

-----------------------------------------------------------------------------
(* Properties *)

Intact(p) == row[p] = "live" /\ p \notin purged

\* However create_version calls interleave or die, the versions of a prompt
\* nobody deletes are numbered without a gap from 2 to latest_version, and at
\* most one further version, the one whose UPDATE is still missing, exists.
\* (Version 1 may be missing: create_prompt inserts it after the prompt.)
VersionsContiguous ==
    \A p \in Ids : Intact(p) =>
        /\ 2 .. latest[p] \subseteq versions[p]
        /\ versions[p] \subseteq 1 .. latest[p] + 1

\* latest_version never goes back and never skips a number: the blind UPDATE
\* at the end of create_version cannot overwrite the work of a later call.
LatestOnlyGrows ==
    [][\A p \in Ids : Intact(p) => latest'[p] \in {latest[p], latest[p] + 1}]_vars

\* A deployment never points to a version that does not exist.
DeployedExists ==
    \A p \in Ids \ purged, e \in Envs :
        deployed[p][e] # 0 => deployed[p][e] \in versions[p]

\* resolve() without a version, once past its reads of the deployment or of
\* the prompt, finds the version it is about to fetch, unless create_prompt
\* has not inserted version 1 or the prompt is being deleted.
ResolveFindsVersion ==
    \A w \in Workers :
        LET c == call[w] IN
        At(w, "fetch") /\ c.p \notin purged /\ 1 \in versions[c.p]
            => c.v \in versions[c.p]

\* When no call is in progress, the number create_version would use is free,
\* so a new version can be created.  Holds only while no worker dies between
\* the INSERT of a version and the UPDATE of latest_version.
NextNumberFree ==
    (\A w \in Workers : At(w, "idle"))
        => \A p \in Ids : Intact(p) => latest[p] + 1 \notin versions[p]
=============================================================================
