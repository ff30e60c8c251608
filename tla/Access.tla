-------------------------------- MODULE Access --------------------------------
(***************************************************************************)
(* agentcost/auth: whom a request is taken for.  A bearer token is checked    *)
(* against a cached copy of the key set the identity provider publishes; else *)
(* an API key against its row; else a session cookie, which sign-in hands     *)
(* out.  The middleware counts the refused requests to /auth/ per address and *)
(* turns an address away that has too many.  It looks before the request is   *)
(* served and counts after it, and other requests come in between.            *)
(* Key material, signatures and claims are numbers: a token fits if the cache *)
(* has the material it was signed with under its key id.                      *)
(***************************************************************************)
EXTENDS Integers, FiniteSets, Functions, FiniteSetsExt

CONSTANTS Visitors,      \* requests to /auth/ that may be under way
          Addresses,     \* client addresses
          KeyIds,        \* `kid's of the identity provider
          MaxMaterial,   \* bound on the keys published under one kid
          Bearers,        \* bearer tokens: [kid, mat, until, right]; right: issuer and audience
          ApiKeys,       \* API keys clients hold
          KeyUntil,      \* KeyUntil[k]: expiry of the row of k, Endless, or Nobody without a row
          Endless, Nobody,
          FailMax,       \* _RATE_LIMIT_MAX
          FailWindow,    \* _RATE_LIMIT_WINDOW
          CacheTtl,      \* cache_ttl_seconds
          SessionAge,    \* session_max_age
          LastHour,      \* bound on the clock
          MaxRefused     \* bound on the refusals of an address

ASSUME AccessAssumption ==
    /\ FailMax \in Nat \ {0} /\ FailWindow \in Nat \ {0}
    /\ CacheTtl \in Nat /\ SessionAge \in Nat /\ LastHour \in Nat
    /\ MaxMaterial \in Nat /\ MaxRefused \in Nat
    /\ Bearers \subseteq [kid : KeyIds, mat : Nat \ {0}, until : Nat, right : BOOLEAN]
    /\ Nobody \notin Bearers \cup Addresses
    /\ IsFiniteSet(Visitors)

VARIABLES hour,        \* time.time()
          published,   \* external: published[kid], the material, 0 if none
          down,        \* external: the provider does not answer
          ring,        \* JWKSKeyCache: _keys and _last_fetch
          fails,       \* _fail_counts: fails[a][t], how often the list of a has time t
          visit,       \* visit[v]: the address of a request that is served, or Nobody
          session,     \* until when the cookie handed out last is good
          verdict,     \* what the last request with a token was taken for
          withdrawn,   \* history: keys the provider took back, and when
          refused      \* history: refused[a][t]: refusals of address a at time t

provider == <<published, down, withdrawn>>
counting == <<fails, visit, refused>>
accessvars == <<hour, provider, ring, counting, session, verdict>>

Times == 0 .. LastHour
Never == [t \in Times |-> 0]
HowOften(counts, S) == SumFunctionOnSet(counts, S)

NoVerdict == [by |-> "refused", tok |-> Nobody, at |-> 0, current |-> FALSE, out |-> FALSE]

AccessTypeOK ==
    /\ hour \in Times
    /\ published \in [KeyIds -> Nat] /\ down \in BOOLEAN
    /\ IsFiniteSet(withdrawn)
    /\ withdrawn \subseteq [kid : KeyIds, mat : Nat \ {0}, at : 0 .. hour]
    /\ ring \in [keys : [KeyIds -> Nat], at : Int] /\ ring.at <= hour
    /\ fails \in [Addresses -> [Times -> Nat]] /\ refused \in [Addresses -> [Times -> Nat]]
    /\ visit \in [Visitors -> Addresses \cup {Nobody}]
    /\ session \in Int
    /\ verdict \in [by : {"oidc", "api_key", "session", "refused"},
                    tok : Bearers \cup {Nobody}, at : 0 .. hour, current : BOOLEAN, out : BOOLEAN]

AccessInit ==
    /\ hour = 0
    /\ published \in [KeyIds -> {0, 1}] /\ down = FALSE /\ withdrawn = {}
    /\ ring = [keys |-> [k \in KeyIds |-> 0], at |-> -CacheTtl - 1]
    /\ fails = [a \in Addresses |-> Never] /\ refused = [a \in Addresses |-> Never]
    /\ visit = [v \in Visitors |-> Nobody]
    /\ session = -1
    /\ verdict = NoVerdict

-----------------------------------------------------------------------------
(* JWKSKeyCache and validate_jwt                                            *)

IsStale == hour - ring.at > CacheTtl

MutOnlyUnknown(kid) == ring.keys[kid] = 0
\* get_key fetches when the cache is stale or does not know the kid.
MustFetch(kid) == IsStale \/ ring.keys[kid] = 0

\* A fetch that fails leaves the old keys, and _last_fetch as it was.  The second
\* attempt of validate_jwt for an unknown kid finds what the first one found.
RingFor(kid) ==
    IF MustFetch(kid) /\ ~down THEN [keys |-> published, at |-> hour] ELSE ring

TokenFits(tok, r) ==
    /\ r.keys[tok.kid] # 0
    /\ tok.mat = r.keys[tok.kid]
    /\ hour <= tok.until
    /\ tok.right

-----------------------------------------------------------------------------
(* validate_api_key, _validate_session, get_current_user                    *)

KeyFits(k) == KeyUntil[k] # Nobody /\ (KeyUntil[k] = Endless \/ KeyUntil[k] >= hour)
SessionFits == hour <= session

\* A request carries a token or not, an API key or not, the cookie or not.
Carried == [tok : Bearers \cup {Nobody}, key : ApiKeys \cup {Nobody}, cookie : BOOLEAN]

RingAfter(q) == IF q.tok = Nobody THEN ring ELSE RingFor(q.tok.kid)

\* A bad token is passed over, a bad key is final, a bad cookie is none.
Method(q) ==
    IF q.tok # Nobody /\ TokenFits(q.tok, RingAfter(q)) THEN "oidc"
    ELSE IF q.key # Nobody THEN (IF KeyFits(q.key) THEN "api_key" ELSE "refused")
    ELSE IF q.cookie /\ SessionFits THEN "session" ELSE "refused"

GetCurrentUser(q) ==
    /\ ring' = RingAfter(q)
    /\ verdict' = IF q.tok = Nobody THEN NoVerdict
                  ELSE [by |-> Method(q), tok |-> q.tok, at |-> hour, out |-> down,
                        current |-> published[q.tok.kid] = q.tok.mat]

\* A route outside /auth/.
CallApi(q) ==
    /\ GetCurrentUser(q)
    /\ UNCHANGED <<hour, provider, counting, session>>

-----------------------------------------------------------------------------
(* AuthMiddleware.dispatch and the routes under /auth/                      *)

FreshFails(counts) == [t \in Times |-> IF hour - t < FailWindow THEN counts[t] ELSE 0]
TooMany(counts) == HowOften(FreshFails(counts), Times) >= FailMax

\* Up to call_next; an address with too many failures is sent away with 429.
Enter(v, a) ==
    /\ visit[v] = Nobody
    /\ fails' = [fails EXCEPT ![a] = FreshFails(@)]
    /\ visit' = IF TooMany(fails[a]) THEN visit ELSE [visit EXCEPT ![v] = a]
    /\ UNCHANGED <<hour, provider, refused, ring, session, verdict>>

\* The response is there: a 401 is counted, whatever came in between.
Leave(v, status) ==
    /\ visit[v] # Nobody
    /\ visit' = [visit EXCEPT ![v] = Nobody]
    /\ IF status = 401
       THEN /\ HowOften(refused[visit[v]], Times) < MaxRefused
            /\ fails' = [fails EXCEPT ![visit[v]][hour] = @ + 1]
            /\ refused' = [refused EXCEPT ![visit[v]][hour] = @ + 1]
       ELSE UNCHANGED <<fails, refused>>

\* GET /auth/me
Me(v, q) ==
    /\ GetCurrentUser(q)
    /\ Leave(v, IF Method(q) = "refused" THEN 401 ELSE 200)
    /\ UNCHANGED <<hour, provider, session>>

\* POST /auth/refresh: the provider answers, or says no, which is a 401.
Refresh(v) ==
    /\ Leave(v, IF down THEN 500 ELSE 200) \/ Leave(v, 401)
    /\ UNCHANGED <<hour, provider, ring, session, verdict>>

\* GET /auth/callback: the token of the code becomes a session.  A code or a token
\* that is no good is answered with 400, which is not counted.
Callback(v, tok) ==
    /\ ring' = RingFor(tok.kid)
    /\ IF TokenFits(tok, RingFor(tok.kid))
       THEN session' = hour + SessionAge /\ Leave(v, 302)
       ELSE UNCHANGED session /\ Leave(v, 400)
    /\ UNCHANGED <<hour, provider, verdict>>

\* POST /auth/saml/acs with an assertion that is good, or not.
SamlAcs(v) ==
    /\ \/ session' = hour + SessionAge /\ Leave(v, 302)
       \/ UNCHANGED session /\ Leave(v, 400)
    /\ UNCHANGED <<hour, provider, ring, verdict>>

\* POST /auth/logout and GET /auth/saml/slo take the cookie back.
Logout(v) ==
    /\ session' = -1
    /\ Leave(v, 200)
    /\ UNCHANGED <<hour, provider, ring, verdict>>

-----------------------------------------------------------------------------
(* The identity provider and the clock                                      *)

NextMaterial(kid) == Cardinality({w \in withdrawn' : w.kid = kid}) + 1

\* A key is withdrawn, replaced under its kid or published anew.
Rotate(kid, again) ==
    /\ withdrawn' = IF published[kid] = 0 THEN withdrawn
                    ELSE withdrawn \cup {[kid |-> kid, mat |-> published[kid], at |-> hour]}
    /\ published' = [published EXCEPT ![kid] = IF again THEN NextMaterial(kid) ELSE 0]
    /\ published' # published /\ NextMaterial(kid) <= MaxMaterial
    /\ UNCHANGED <<hour, down, ring, counting, session, verdict>>

Outage ==
    /\ down' = ~down
    /\ UNCHANGED <<hour, published, withdrawn, ring, counting, session, verdict>>

HourPasses ==
    /\ hour < LastHour
    /\ hour' = hour + 1
    /\ UNCHANGED <<provider, ring, counting, session, verdict>>

AccessNext ==
    \/ \E q \in Carried : CallApi(q) \/ (\E v \in Visitors : Me(v, q))
    \/ \E v \in Visitors : \/ \E a \in Addresses : Enter(v, a)
                           \/ Refresh(v) \/ SamlAcs(v) \/ Logout(v)
                           \/ \E tok \in Bearers : Callback(v, tok)
    \/ \E kid \in KeyIds, again \in BOOLEAN : Rotate(kid, again)
    \/ Outage
    \/ HourPasses

AccessSpec == AccessInit /\ [][AccessNext]_accessvars

-----------------------------------------------------------------------------
(* Properties *)

\* A key the provider took back opens no door for longer than the cache lives,
\* unless the provider could not be asked at that moment.
TrustIsRecent ==
    verdict.by = "oidc" =>
        \A w \in withdrawn :
            w.kid = verdict.tok.kid /\ w.mat = verdict.tok.mat =>
                verdict.at - w.at <= CacheTtl \/ verdict.out

\* A token that is signed with what is published, unexpired and meant for us is
\* passed over only when the provider is down, or for the life of the cache after
\* the material under its kid was replaced.
GoodTokensPass ==
    verdict.tok # Nobody /\ verdict.current /\ verdict.tok.right
        /\ verdict.at <= verdict.tok.until /\ verdict.by # "oidc" =>
            \/ verdict.out
            \/ \E w \in withdrawn : /\ w.kid = verdict.tok.kid /\ w.at <= verdict.at
                                    /\ verdict.at - w.at <= CacheTtl

InWindow(t) == {u \in Times : t <= u /\ u < t + FailWindow}

\* In no window does an address fail more often than the limit and the requests
\* that were let in before the limit was reached.
FailuresBounded ==
    \A a \in Addresses, t \in 0 .. hour :
        HowOften(refused[a], InWindow(t)) <= FailMax + Cardinality(Visitors) - 1

AccessSound == TrustIsRecent /\ GoodTokensPass /\ FailuresBounded
===============================================================================
