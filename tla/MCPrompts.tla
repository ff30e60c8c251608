------------------------------ MODULE MCPrompts ------------------------------
(* Instances of Prompts for TLC. *)
EXTENDS Prompts, TLC

\* Workers are interchangeable: no definition tells them apart.
Symmetry == Permutations(Workers)

VARIABLE died    \* history: has a worker died inside a call

MCInit == Init /\ died = FALSE
MCNext ==
    \E w \in Workers :
        \/ (Writer(w) \/ Deployer(w) \/ Resolver(w) \/ Deleter(w)) /\ UNCHANGED died
        \/ Crash(w) /\ died' = TRUE
MCSpec == MCInit /\ [][MCNext]_<<vars, died>>

\* As long as no worker died, the number create_version will use is free
\* whenever no call is in progress: races alone never block a prompt.
FreeUnlessDied == ~died => NextNumberFree

\* docs/guides/prompts.md:148: an application that asks for an environment
\* "always gets the version deployed to" it.  It falls back to the latest
\* version of a deployed prompt only while some deploy() there is between its
\* DELETE and its INSERT, or after one died in between.
FallbackOnlyDuringDeploy ==
    [][\A w \in Workers :
          LET c == call[w] IN
          At(w, "read_deployment") /\ call'[w].at = "read_latest"
            /\ <<c.p, c.e>> \in released /\ ~died =>
              \E x \in Workers : At(x, "redeploy") /\ call[x].p = c.p /\ call[x].e = c.e]_vars
=============================================================================
