------------------------------ MODULE Console ------------------------------
(***************************************************************************)
(* The process state of indexer-web: the sessions, the data floor and the  *)
(* diagnose button.  A session is a signed cookie, nothing is stored for   *)
(* it; the floor lives in a global and in Redis; the diagnose button keeps *)
(* the time of its last call and its last answer under one mutex, which is *)
(* not held while the diagnostics are collected and the model answers.     *)
(***************************************************************************)
EXTENDS Integers, FiniteSets

CONSTANTS
  User,          \* user names
  SessionTtl,    \* SESSION_TTL_SECS
  Tab,           \* requests that may be on their way at once
  FloorDate,     \* dates the operator may type
  DefaultFloor,  \* DEFAULT_DATA_FLOOR
  NoFloor,       \* the floor is disabled: "none" in Redis
  CacheTtl,      \* diagnose_cache_ttl_secs
  RateLimit,     \* diagnose_rate_limit_secs
  LlmTimeout,    \* the LLM client's request timeout
  MaxClock       \* bound: time

ASSUME ConsoleAssumption ==
  /\ SessionTtl \in Nat /\ CacheTtl \in Nat /\ RateLimit \in Nat /\ LlmTimeout \in Nat
  /\ DefaultFloor \in FloorDate /\ NoFloor \notin FloorDate \cup {"missing"}
  /\ "missing" \notin FloorDate

VARIABLES
  clock,
  users_yaml,    \* the allowlist on disk
  users,         \* the allowlist the process loaded at its start
  cookie,        \* [User -> set of at most one [user, expires]]: the browsers
  logged_in,     \* history: [User -> when the password was last checked, or -1]
  redis_floor,   \* DATA_FLOOR_KEY: "missing", NoFloor or a date
  floor,         \* the global DATA_FLOOR
  saving,        \* [Tab -> {} or {[pc, value, alone]}]: set_data_floor requests, and
                 \*   the SETs that have outlived theirs
  floor_doubt,   \* history: requests overlapped, a SET was not answered, or a start
                 \*   could not read Redis, and no change has gone through since
  last_call_at,  \* DiagnoseCache: {} or {time}
  last_response, \* DiagnoseCache: {} or {[at, bundle]}
  diagnosing,    \* [Tab -> {} or {[pc, bundle]}]: requests past the gate
  gate,          \* history: admission times of the last two calls
  served         \* history: {} or {[at, bundle]}: the last answer shown

sessionVars == <<users_yaml, users, cookie, logged_in>>
floorVars == <<redis_floor, floor, saving, floor_doubt>>
diagnoseVars == <<last_call_at, last_response, diagnosing, gate, served>>
consoleVars == <<clock, sessionVars, floorVars, diagnoseVars>>

-----------------------------------------------------------------------------
(* Sessions. *)

issue_token(u) == [user |-> u, expires |-> clock + SessionTtl]

\* Mutant: a token is good for as long as its signature says.
verify_signature(token) == clock <= token.expires

verify_token(token) == clock <= token.expires /\ token.user \in users

\* AuthUser: what a request with the browser's cookie is let in as.
from_request_parts(u) == {t.user : t \in {c \in cookie[u] : verify_token(c)}}

\* verify_password finds the user in the loaded list and checks the hash.
login_post(u) ==
  /\ u \in users
  /\ cookie' = [cookie EXCEPT ![u] = {issue_token(u)}]
  /\ logged_in' = [logged_in EXCEPT ![u] = clock]
  /\ UNCHANGED <<clock, users_yaml, users, floorVars, diagnoseVars>>

logout(u) ==
  /\ cookie[u] # {}
  /\ cookie' = [cookie EXCEPT ![u] = {}]
  /\ logged_in' = [logged_in EXCEPT ![u] = -1]
  /\ UNCHANGED <<clock, users_yaml, users, floorVars, diagnoseVars>>

EditAllowlist(U) ==
  /\ users_yaml' = U
  /\ UNCHANGED <<clock, users, cookie, logged_in, floorVars, diagnoseVars>>

-----------------------------------------------------------------------------
(* The data floor. *)

load_data_floor(raw) == IF raw = "missing" THEN DefaultFloor ELSE raw

InFlight == {t \in Tab : saving[t] # {}}

\* A request that another one has joined on the way.
Overlapped(r) == [pc |-> r.pc, value |-> r.value, alone |-> FALSE]

\* Mutant: the global is set before the value is saved.
FloorSubmitSets(t, value) ==
  /\ saving[t] = {}
  /\ saving' = [[s \in Tab |-> {Overlapped(r) : r \in saving[s]}]
                EXCEPT ![t] = {[pc |-> "save", value |-> value, alone |-> InFlight = {}]}]
  /\ floor_doubt' = (floor_doubt \/ InFlight # {})
  /\ floor' = value
  /\ UNCHANGED <<clock, sessionVars, redis_floor, diagnoseVars>>

\* A date that does not parse changes nothing.
FloorSubmit(t, value) ==
  /\ saving[t] = {}
  /\ saving' = [[s \in Tab |-> {Overlapped(r) : r \in saving[s]}]
                EXCEPT ![t] = {[pc |-> "save", value |-> value, alone |-> InFlight = {}]}]
  /\ floor_doubt' = (floor_doubt \/ InFlight # {})
  /\ UNCHANGED <<clock, sessionVars, redis_floor, floor, diagnoseVars>>

FloorSaved(t) ==
  \E r \in saving[t] :
    /\ r.pc = "save"
    /\ redis_floor' = r.value
    /\ saving' = [saving EXCEPT ![t] = {[r EXCEPT !.pc = "apply"]}]
    /\ UNCHANGED <<clock, sessionVars, floor, floor_doubt, diagnoseVars>>

\* "could not save", and Redis has not: the handler returns before the global
\* is set.
FloorSaveFails(t) ==
  /\ \E r \in saving[t] : r.pc = "save"
  /\ saving' = [saving EXCEPT ![t] = {}]
  /\ UNCHANGED <<clock, sessionVars, redis_floor, floor, floor_doubt, diagnoseVars>>

\* The answer is lost, or the client goes away and the handler is cancelled in
\* the await: the global is not set, and the SET may still take effect.
FloorSaveLost(t) ==
  \E r \in saving[t] :
    /\ r.pc = "save"
    /\ saving' = [saving EXCEPT ![t] = {[r EXCEPT !.pc = "late"]}]
    /\ floor_doubt' = TRUE
    /\ UNCHANGED <<clock, sessionVars, redis_floor, floor, diagnoseVars>>

\* Redis runs such a SET, or it is gone with its connection.
FloorLate(t) ==
  \E r \in saving[t] :
    /\ r.pc = "late"
    /\ redis_floor' \in {redis_floor, r.value}
    /\ saving' = [saving EXCEPT ![t] = {}]
    /\ UNCHANGED <<clock, sessionVars, floor, floor_doubt, diagnoseVars>>

FloorApply(t) ==
  \E r \in saving[t] :
    /\ r.pc = "apply"
    /\ floor' = r.value
    /\ saving' = [saving EXCEPT ![t] = {}]
    /\ floor_doubt' = (floor_doubt /\ ~r.alone)
    /\ UNCHANGED <<clock, sessionVars, redis_floor, diagnoseVars>>

-----------------------------------------------------------------------------
(* The diagnose button. *)

Cached == {r \in last_response : clock - r.at < CacheTtl}

Limited == \E c \in last_call_at : clock - c < RateLimit

\* Mutant: serving the cached answer renews it.
DiagnoseCachedRenews ==
  /\ Cached # {}
  /\ served' = {[at |-> clock, bundle |-> r.bundle] : r \in Cached}
  /\ last_response' = {[r EXCEPT !.at = clock] : r \in Cached}
  /\ UNCHANGED <<clock, sessionVars, floorVars, last_call_at, diagnosing, gate>>

DiagnoseCached ==
  /\ Cached # {}
  /\ served' = {[at |-> clock, bundle |-> r.bundle] : r \in Cached}
  /\ UNCHANGED <<clock, sessionVars, floorVars, last_call_at, last_response, diagnosing, gate>>

\* Past the gate, which is one critical section.
DiagnoseGate(t) ==
  /\ diagnosing[t] = {} /\ Cached = {} /\ ~Limited
  /\ last_call_at' = {clock}
  /\ gate' = <<gate[2], clock>>
  /\ diagnosing' = [diagnosing EXCEPT ![t] = {[pc |-> "collect", bundle |-> clock]}]
  /\ UNCHANGED <<clock, sessionVars, floorVars, last_response, served>>

\* collect reads the store, Redis and the event stream, each read that fails
\* as an absent or zero figure; the bundle is as old as this moment.
DiagnoseCollect(t) ==
  \E d \in diagnosing[t] :
    /\ d.pc = "collect"
    /\ diagnosing' = [diagnosing EXCEPT ![t] = {[pc |-> "call", bundle |-> clock]}]
    /\ UNCHANGED <<clock, sessionVars, floorVars, last_call_at, last_response, gate, served>>

\* The answer is cached under the time it came, in the order of the answers.
DiagnoseAnswer(t) ==
  \E d \in diagnosing[t] :
    /\ d.pc = "call"
    /\ last_response' = {[at |-> clock, bundle |-> d.bundle]}
    /\ served' = {[at |-> clock, bundle |-> d.bundle]}
    /\ diagnosing' = [diagnosing EXCEPT ![t] = {}]
    /\ UNCHANGED <<clock, sessionVars, floorVars, last_call_at, gate>>

\* An HTTP error, a status that is not success, no content, or the timeout.
DiagnoseFails(t) ==
  /\ \E d \in diagnosing[t] : d.pc = "call"
  /\ diagnosing' = [diagnosing EXCEPT ![t] = {}]
  /\ UNCHANGED <<clock, sessionVars, floorVars, last_call_at, last_response, gate, served>>

-----------------------------------------------------------------------------
ConsoleInit ==
  /\ clock = 0
  /\ users_yaml = User /\ users = User
  /\ cookie = [u \in User |-> {}] /\ logged_in = [u \in User |-> -1]
  /\ redis_floor = "missing" /\ floor = DefaultFloor
  /\ saving = [t \in Tab |-> {}] /\ floor_doubt = FALSE
  /\ last_call_at = {} /\ last_response = {} /\ diagnosing = [t \in Tab |-> {}]
  /\ gate = <<-RateLimit, -RateLimit>> /\ served = {}

\* No call outlives the client's timeout.
ClockTick ==
  /\ clock < MaxClock
  /\ \A t \in Tab : \A d \in diagnosing[t] : d.pc = "call" => clock - d.bundle < LlmTimeout
  /\ clock' = clock + 1
  /\ UNCHANGED <<sessionVars, floorVars, diagnoseVars>>

\* The SETs the process may leave behind.
Unanswered(t) == {[r EXCEPT !.pc = "late"] : r \in {q \in saving[t] : q.pc # "apply"}}

\* A crash or a deployment: requests end, the caches are lost, the allowlist
\* and the floor are read again; a read that fails leaves the default floor, and
\* a SET that has been sent may be run after the read.
WebRestart ==
  /\ users' = users_yaml
  /\ saving' = [t \in Tab |-> Unanswered(t)]
  /\ \/ floor' = load_data_floor(redis_floor) /\ floor_doubt' = (\E t \in Tab : Unanswered(t) # {})
     \/ floor' = DefaultFloor /\ floor_doubt' = TRUE
  /\ last_call_at' = {} /\ last_response' = {} /\ diagnosing' = [t \in Tab |-> {}]
  /\ gate' = <<-RateLimit, -RateLimit>> /\ served' = {}
  /\ UNCHANGED <<clock, users_yaml, cookie, logged_in, redis_floor>>

SessionNext ==
  \/ \E u \in User : login_post(u) \/ logout(u)
  \/ \E U \in SUBSET User : EditAllowlist(U)

FloorNext ==
  \E t \in Tab : \/ \E v \in FloorDate \cup {NoFloor} : FloorSubmit(t, v)
                 \/ FloorSaved(t) \/ FloorSaveFails(t) \/ FloorSaveLost(t)
                 \/ FloorLate(t) \/ FloorApply(t)

DiagnoseNext ==
  \/ DiagnoseCached
  \/ \E t \in Tab : \/ DiagnoseGate(t) \/ DiagnoseCollect(t)
                    \/ DiagnoseAnswer(t) \/ DiagnoseFails(t)

ConsoleNext == ClockTick \/ WebRestart \/ SessionNext \/ FloorNext \/ DiagnoseNext

ConsoleSpec == ConsoleInit /\ [][ConsoleNext]_consoleVars

-----------------------------------------------------------------------------
(* Properties. *)

\* The floor the pages use is the one a restart would load, between requests
\* too and after a save that Redis refused.  It may differ from the time that
\* two changes overlapped, that a SET was not answered or that a start could
\* not read Redis, to the next change that goes through with no other, and no
\* SET of an earlier one, on its way.
FloorSurvivesRestart ==
  (InFlight = {} /\ ~floor_doubt) => floor = load_data_floor(redis_floor)

\* What the process lets through is within its limits, though nothing stores
\* them: whoever a request is let in as typed the password at most SessionTtl
\* ago, has not logged out since, and was on the allowlist when the process
\* started, so that taking a user off and restarting ends the user's sessions;
\* calls pass the gate at least RateLimit apart; and no answer shown is made
\* from figures older than CacheTtl plus the timeout, though calls overlap and
\* their answers may come in the other order.
TimeLimitsKept ==
  /\ \A u \in User : \A v \in from_request_parts(u) :
       v = u /\ v \in users /\ logged_in[v] >= 0 /\ clock - logged_in[v] <= SessionTtl
  /\ gate[2] - gate[1] >= RateLimit \/ gate[1] < 0
  /\ \A s \in served : s.at - s.bundle <= CacheTtl + LlmTimeout

-----------------------------------------------------------------------------
(* What the two rest on. *)

FloorValue == FloorDate \cup {NoFloor}

\* A change that has had no company since it was asked for is the only one on
\* its way, and what it has saved is what Redis holds; without a doubt every
\* change is of that kind, no SET has outlived its request, and no change has
\* been saved that is not applied.
FloorInv ==
  /\ saving \in [Tab -> SUBSET [pc: {"save", "apply", "late"}, value: FloorValue, alone: BOOLEAN]]
  /\ redis_floor \in FloorValue \cup {"missing"} /\ floor_doubt \in BOOLEAN
  /\ \A t \in Tab : \A r \in saving[t] :
       /\ saving[t] = {r}
       /\ r.alone => \A s \in Tab \ {t} : saving[s] = {}
       /\ r.alone /\ r.pc = "apply" => redis_floor = r.value
       /\ ~floor_doubt => r.alone /\ r.pc # "late"
  /\ ~floor_doubt /\ (\A t \in Tab : \A r \in saving[t] : r.pc = "save") =>
       floor = load_data_floor(redis_floor)

\* A cookie expires SessionTtl after the login that set it.
SessionInv ==
  /\ clock \in Nat
  /\ cookie \in [User -> SUBSET [user: User, expires: Nat]]
  /\ logged_in \in [User -> Nat \cup {-1}]
  /\ \A u \in User : \A c \in cookie[u] :
       c.user = u /\ logged_in[u] >= 0 /\ c.expires = logged_in[u] + SessionTtl

\* The gate's history ends with the call that the mutex remembers; what an
\* answer is made from was collected at most LlmTimeout before it came.
DiagnoseInv ==
  /\ gate \in Int \X Int /\ gate[2] <= clock
  /\ last_call_at = {gate[2]} \/ (last_call_at = {} /\ gate[2] = -RateLimit)
  /\ diagnosing \in [Tab -> SUBSET [pc: {"collect", "call"}, bundle: Nat]]
  /\ \A t \in Tab : \A d \in diagnosing[t] : d.bundle <= clock
  /\ \A t \in Tab : \A d \in diagnosing[t] : d.pc = "call" => clock - d.bundle <= LlmTimeout
  /\ last_response \subseteq [at: Nat, bundle: Nat]
  /\ \A r \in last_response : r.at - r.bundle <= LlmTimeout
  /\ served \subseteq [at: Nat, bundle: Nat]
=============================================================================
