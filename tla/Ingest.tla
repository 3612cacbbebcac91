-------------------------------- MODULE Ingest --------------------------------
(***************************************************************************)
(* services/ingest/app.py: the HTTP service.  A request passes the guard   *)
(* middleware, the API-key dependency, the rate limiter of its endpoint    *)
(* and the endpoint's own checks; a triage request also passes the         *)
(* provider, whose output is not trusted (services/ingest/ai.py).          *)
(* Workers are the requests in flight.  Each endpoint has its own          *)
(* RateLimiter; both read the same clock.                                  *)
(***************************************************************************)
EXTENDS Integers, Sequences, FiniteSets

CONSTANTS Workers, Clients, Idle,
          EventLimit, TriageLimit, Window,
          MaxTime   \* bound on the clock

VARIABLES clock,
          eventHits, eventCall, eventAdmitted,      \* app.state.event_limiter
          triageHits, triageCall, triageAdmitted,   \* app.state.triage_limiter
          req,        \* per worker, the request in flight
          charged,    \* per endpoint and client: answers given past the limiter
          sent        \* the response the last step sent, if it sent one

eventVars == <<eventHits, eventCall, eventAdmitted>>
triageVars == <<triageHits, triageCall, triageAdmitted>>
vars == <<clock, eventVars, triageVars, req, charged, sent>>

EventLimiter == INSTANCE RateLimiter WITH
  Threads <- Workers, Limit <- EventLimit,
  hits <- eventHits, call <- eventCall, admitted <- eventAdmitted
TriageLimiter == INSTANCE RateLimiter WITH
  Threads <- Workers, Limit <- TriageLimit,
  hits <- triageHits, call <- triageCall, admitted <- triageAdmitted

Limited == {"events", "triage"}
Paths == Limited \cup {"healthz"}
Stages == {"received", "routed", "authorised", "limiting", "admitted", "prompted", "decided"}
Outputs == {"none", "acceptable", "unacceptable"}

Request == [path : Paths, client : Clients, stage : Stages, keyed : BOOLEAN, output : Outputs]
Response == [path : Paths, status : {200, 400, 401, 413, 422, 429, 500, 502}, output : Outputs]

ASSUME WorkersAssumption == IsFiniteSet(Workers)
ASSUME SettingsAssumption ==
  EventLimit \in Int /\ TriageLimit \in Int /\ Window \in Nat /\ MaxTime \in Nat
ASSUME IdleAssumption ==
  Idle \notin Request /\ Idle \notin Response /\ Idle \notin [client : Clients, now : Nat]

Init ==
  /\ EventLimiter!Init
  /\ TriageLimiter!Init
  /\ req = [w \in Workers |-> Idle]
  /\ charged = [p \in Limited |-> [c \in Clients |-> 0]]
  /\ sent = Idle

-----------------------------------------------------------------------------
At(w, stage) == req[w] # Idle /\ req[w].stage = stage
For(w, path) == req[w].path = path

Advance(w, stage) == req' = [req EXCEPT ![w].stage = stage]

\* The response leaves.
Respond(w, status) ==
  /\ req' = [req EXCEPT ![w] = Idle]
  /\ sent' = [path |-> req[w].path, status |-> status, output |-> req[w].output]

Silent == sent' = Idle

Charge(w) == charged' = [charged EXCEPT ![req[w].path][req[w].client] = @ + 1]

Tick ==
  /\ clock < MaxTime
  /\ clock' = clock + 1
  /\ Silent
  /\ UNCHANGED <<eventVars, triageVars, req, charged>>

Arrive(w) ==
  /\ req[w] = Idle
  /\ \E p \in Paths, c \in Clients :
       req' = [req EXCEPT ![w] = [path |-> p, client |-> c, stage |-> "received",
                                  keyed |-> FALSE, output |-> "none"]]
  /\ Silent
  /\ UNCHANGED <<clock, eventVars, triageVars, charged>>

\* guard: a malformed or excessive Content-Length is answered on the spot; a
\* request without the header passes.
Guard(w) ==
  /\ At(w, "received")
  /\ \/ Respond(w, 400)
     \/ Respond(w, 413)
     \/ Advance(w, "routed") /\ Silent
  /\ UNCHANGED <<clock, eventVars, triageVars, charged>>

Healthz(w) ==
  /\ At(w, "routed") /\ For(w, "healthz")
  /\ Respond(w, 200)
  /\ UNCHANGED <<clock, eventVars, triageVars, charged>>

\* The framework reads the body, runs require_key and binds the payload:
\* unreadable JSON or a body that is no object is 422, a wrong key is 401.
\* The limiter has not been asked yet.
RequireKey(w) ==
  /\ At(w, "routed") /\ req[w].path \in Limited
  /\ \/ Respond(w, 422)
     \/ Respond(w, 401)
     \/ /\ req' = [req EXCEPT ![w].stage = "authorised", ![w].keyed = TRUE]
        /\ Silent
  /\ UNCHANGED <<clock, eventVars, triageVars, charged>>

-----------------------------------------------------------------------------
(* allow(), by the limiter of the request's endpoint.                      *)

\* A slip: one limiter for both endpoints.
EnterSharedLimiter(w) ==
  /\ At(w, "authorised")
  /\ EventLimiter!ReadClock(w, req[w].client) /\ UNCHANGED triageVars
  /\ Advance(w, "limiting") /\ Silent
  /\ UNCHANGED charged

EnterLimiter(w) ==
  /\ At(w, "authorised")
  /\ \/ For(w, "events") /\ EventLimiter!ReadClock(w, req[w].client) /\ UNCHANGED triageVars
     \/ For(w, "triage") /\ TriageLimiter!ReadClock(w, req[w].client) /\ UNCHANGED eventVars
  /\ Advance(w, "limiting") /\ Silent
  /\ UNCHANGED charged

\* A slip: the answer of allow() is not looked at.
TooManyIgnored(w) ==
  /\ At(w, "limiting")
  /\ \/ EventLimiter!Refuse(w) /\ UNCHANGED triageVars
     \/ TriageLimiter!Refuse(w) /\ UNCHANGED eventVars
  /\ Advance(w, "admitted") /\ Silent
  /\ UNCHANGED charged

TooMany(w) ==
  /\ At(w, "limiting")
  /\ \/ EventLimiter!Refuse(w) /\ UNCHANGED triageVars
     \/ TriageLimiter!Refuse(w) /\ UNCHANGED eventVars
  /\ Respond(w, 429)
  /\ UNCHANGED charged

Allowed(w) ==
  /\ At(w, "limiting")
  /\ \/ EventLimiter!Admit(w) /\ UNCHANGED triageVars
     \/ TriageLimiter!Admit(w) /\ UNCHANGED eventVars
  /\ Advance(w, "admitted") /\ Silent
  /\ UNCHANGED charged

-----------------------------------------------------------------------------
\* ingest(): the telemetry schema decides.
Events(w) ==
  /\ At(w, "admitted") /\ For(w, "events")
  /\ \E status \in {200, 422} : Respond(w, status)
  /\ Charge(w)
  /\ UNCHANGED <<clock, eventVars, triageVars>>

\* triage() up to build_prompt: no event or one off the schema is 422, one
\* too long for triage is 413.
TriageChecks(w) ==
  /\ At(w, "admitted") /\ For(w, "triage")
  /\ \/ /\ \E status \in {422, 413} : Respond(w, status)
        /\ Charge(w)
     \/ Advance(w, "prompted") /\ UNCHANGED charged /\ Silent
  /\ UNCHANGED <<clock, eventVars, triageVars>>

\* provider.triage(event) returns anything, or raises: "unhandled" answers 500.
Provider(w) ==
  /\ At(w, "prompted")
  /\ \/ /\ \E out \in Outputs \ {"none"} :
             req' = [req EXCEPT ![w].stage = "decided", ![w].output = out]
        /\ Silent
        /\ UNCHANGED charged
     \/ Respond(w, 500) /\ Charge(w)
  /\ UNCHANGED <<clock, eventVars, triageVars>>

\* validate_triage stands between the provider and the caller.  A slip: it
\* does not.
ValidateTriageSkipped(w) ==
  /\ At(w, "decided")
  /\ Respond(w, 200)
  /\ Charge(w)
  /\ UNCHANGED <<clock, eventVars, triageVars>>

ValidateTriage(w) ==
  /\ At(w, "decided")
  /\ \/ req[w].output = "acceptable" /\ Respond(w, 200)
     \/ req[w].output # "acceptable" /\ Respond(w, 502)
  /\ Charge(w)
  /\ UNCHANGED <<clock, eventVars, triageVars>>

Serve(w) ==
  \/ Guard(w) \/ Healthz(w) \/ RequireKey(w)
  \/ EnterLimiter(w) \/ TooMany(w) \/ Allowed(w)
  \/ Events(w) \/ TriageChecks(w) \/ Provider(w) \/ ValidateTriage(w)

Next == Tick \/ \E w \in Workers : Arrive(w) \/ Serve(w)

Spec == Init /\ [][Next]_vars

-----------------------------------------------------------------------------
(* Type correctness.                                                       *)
TypeOK ==
  /\ EventLimiter!TypeOK
  /\ TriageLimiter!TypeOK
  /\ req \in [Workers -> Request \cup {Idle}]
  /\ charged \in [Limited -> [Clients -> Nat]]
  /\ sent \in Response \cup {Idle}

Inside(p, c) ==
  {w \in Workers : /\ req[w] # Idle
                   /\ req[w].path = p
                   /\ req[w].client = c
                   /\ req[w].stage \in {"admitted", "prompted", "decided"}}

(* Every admission a limiter has charged to a client is one request of     *)
(* that client at that endpoint, answered exactly once or still being      *)
(* served; what the service rejects earlier, or with 429, costs nothing.   *)
ChargesConserved ==
  \A c \in Clients :
    /\ Len(eventAdmitted[c]) = charged["events"][c] + Cardinality(Inside("events", c))
    /\ Len(triageAdmitted[c]) = charged["triage"][c] + Cardinality(Inside("triage", c))

(* A limiter's record of a client changes only for a request of that       *)
(* client, at that endpoint, that has shown the API key.                   *)
Calls(w, p, c) ==
  req[w] # Idle /\ req[w].path = p /\ req[w].client = c /\ req[w].keyed
ChargedToCaller ==
  [][\A c \in Clients :
       /\ eventHits'[c] # eventHits[c] => \E w \in Workers : Calls(w, "events", c)
       /\ triageHits'[c] # triageHits[c] => \E w \in Workers : Calls(w, "triage", c)]_vars

(* The provider is untrusted: what a caller is given as a triage decision  *)
(* has passed validate_triage, whoever was served in between.              *)
OnlyValidatedTriageServed ==
  sent # Idle /\ sent.path = "triage" /\ sent.status = 200 => sent.output = "acceptable"

(* Each endpoint holds every client to a quota of its own, although both   *)
(* share the worker threads and the clock.                                 *)
Quotas == EventLimiter!ImplementsQuota /\ TriageLimiter!ImplementsQuota
=============================================================================
