----------------------------- MODULE IngestProofs -----------------------------
(***************************************************************************)
(* Proofs about the ingest service, for any workers, clients, limits,      *)
(* window and length of run.  What a limiter promises on its own is taken  *)
(* from RateLimiterProofs, instantiated once for each endpoint.            *)
(***************************************************************************)
EXTENDS Ingest, FiniteSetTheorems, SequenceTheorems, TLAPS

Event == INSTANCE RateLimiterProofs WITH
  Threads <- Workers, Limit <- EventLimit,
  hits <- eventHits, call <- eventCall, admitted <- eventAdmitted
Triage == INSTANCE RateLimiterProofs WITH
  Threads <- Workers, Limit <- TriageLimit,
  hits <- triageHits, call <- triageCall, admitted <- triageAdmitted

(* The state of the requests by itself.                                    *)
Typed ==
  /\ req \in [Workers -> Request \cup {Idle}]
  /\ charged \in [Limited -> [Clients -> Nat]]
  /\ sent \in Response \cup {Idle}

(* A worker inside a limiter's allow() serves a request of that endpoint,  *)
(* and the call is the request's client's.                                 *)
Linked ==
  \A w \in Workers :
    /\ eventCall[w] # Idle =>
         At(w, "limiting") /\ For(w, "events") /\ eventCall[w].client = req[w].client
    /\ triageCall[w] # Idle =>
         At(w, "limiting") /\ For(w, "triage") /\ triageCall[w].client = req[w].client

(* What a request has behind it at each stage.                             *)
Staged ==
  \A w \in Workers : req[w] # Idle =>
    /\ req[w].stage \in {"authorised", "limiting", "admitted", "prompted", "decided"} =>
         req[w].path \in Limited /\ req[w].keyed
    /\ req[w].stage \in {"prompted", "decided"} => req[w].path = "triage"

IInv == Event!IInv /\ Triage!IInv /\ Typed /\ Linked /\ Staged

-----------------------------------------------------------------------------
(* The two limiters of the service are those the proofs are about.         *)
LEMMA SameEvent ==
  /\ EventLimiter!Init <=> Event!Init
  /\ EventLimiter!TypeOK <=> Event!TypeOK
  /\ \A w, c : EventLimiter!ReadClock(w, c) <=> Event!ReadClock(w, c)
  /\ \A w : EventLimiter!Admit(w) <=> Event!Admit(w)
  /\ \A w : EventLimiter!Refuse(w) <=> Event!Refuse(w)
BY DEF EventLimiter!Init, Event!Init, EventLimiter!TypeOK, Event!TypeOK,
       EventLimiter!Call, Event!Call, EventLimiter!Admission, Event!Admission,
       EventLimiter!ReadClock, Event!ReadClock, EventLimiter!Admit, Event!Admit,
       EventLimiter!Refuse, Event!Refuse, EventLimiter!Pops, Event!Pops,
       EventLimiter!Expired, Event!Expired, EventLimiter!Full, Event!Full,
       EventLimiter!Pruned, Event!Pruned

LEMMA SameTriage ==
  /\ TriageLimiter!Init <=> Triage!Init
  /\ TriageLimiter!TypeOK <=> Triage!TypeOK
  /\ \A w, c : TriageLimiter!ReadClock(w, c) <=> Triage!ReadClock(w, c)
  /\ \A w : TriageLimiter!Admit(w) <=> Triage!Admit(w)
  /\ \A w : TriageLimiter!Refuse(w) <=> Triage!Refuse(w)
BY DEF TriageLimiter!Init, Triage!Init, TriageLimiter!TypeOK, Triage!TypeOK,
       TriageLimiter!Call, Triage!Call, TriageLimiter!Admission, Triage!Admission,
       TriageLimiter!ReadClock, Triage!ReadClock, TriageLimiter!Admit, Triage!Admit,
       TriageLimiter!Refuse, Triage!Refuse, TriageLimiter!Pops, Triage!Pops,
       TriageLimiter!Expired, Triage!Expired, TriageLimiter!Full, Triage!Full,
       TriageLimiter!Pruned, Triage!Pruned

(* The limiters' own assumptions hold of the service's settings.           *)
LEMMA LimiterAssumptions ==
  /\ EventLimit \in Int /\ TriageLimit \in Int /\ Window \in Nat /\ MaxTime \in Nat
  /\ Idle \notin Event!Call /\ Idle \notin Triage!Call
BY SettingsAssumption, IdleAssumption DEF Event!Call, Triage!Call

-----------------------------------------------------------------------------
(* The limiters' view of a step of the service: each of them takes a step  *)
(* of its own or none, and time passes for both at once.                   *)
LEMMA LimiterSteps ==
  ASSUME Typed, [Next]_vars
  PROVE  [Event!Next]_(Event!vars) /\ [Triage!Next]_(Triage!vars)
<1> USE DEF Event!vars, Triage!vars, eventVars, triageVars
<1>1. CASE Tick
  BY <1>1 DEF Tick, Event!Next, Event!Tick, Triage!Next, Triage!Tick
<1>2. ASSUME NEW w \in Workers, EnterLimiter(w)
      PROVE  [Event!Next]_(Event!vars) /\ [Triage!Next]_(Triage!vars)
  <2>1. req[w].client \in Clients
    BY <1>2 DEF EnterLimiter, At, Typed, Request
  <2>2. CASE For(w, "events") /\ EventLimiter!ReadClock(w, req[w].client) /\ UNCHANGED triageVars
    <3>1. Event!Next
      BY <2>1, <2>2, SameEvent DEF Event!Next
    <3>2. clock' = clock
      BY <2>2 DEF EventLimiter!ReadClock
    <3> QED
      BY <2>2, <3>1, <3>2
  <2>3. CASE For(w, "triage") /\ TriageLimiter!ReadClock(w, req[w].client) /\ UNCHANGED eventVars
    <3>1. Triage!Next
      BY <2>1, <2>3, SameTriage DEF Triage!Next
    <3>2. clock' = clock
      BY <2>3 DEF TriageLimiter!ReadClock
    <3> QED
      BY <2>3, <3>1, <3>2
  <2> QED
    BY <1>2, <2>2, <2>3 DEF EnterLimiter
<1>3. ASSUME NEW w \in Workers, TooMany(w)
      PROVE  [Event!Next]_(Event!vars) /\ [Triage!Next]_(Triage!vars)
  <2>1. CASE EventLimiter!Refuse(w) /\ UNCHANGED triageVars
    <3>1. Event!Next
      BY <2>1, SameEvent DEF Event!Next
    <3>2. clock' = clock
      BY <2>1 DEF EventLimiter!Refuse
    <3> QED
      BY <2>1, <3>1, <3>2
  <2>2. CASE TriageLimiter!Refuse(w) /\ UNCHANGED eventVars
    <3>1. Triage!Next
      BY <2>2, SameTriage DEF Triage!Next
    <3>2. clock' = clock
      BY <2>2 DEF TriageLimiter!Refuse
    <3> QED
      BY <2>2, <3>1, <3>2
  <2> QED
    BY <1>3, <2>1, <2>2 DEF TooMany
<1>4. ASSUME NEW w \in Workers, Allowed(w)
      PROVE  [Event!Next]_(Event!vars) /\ [Triage!Next]_(Triage!vars)
  <2>1. CASE EventLimiter!Admit(w) /\ UNCHANGED triageVars
    <3>1. Event!Next
      BY <2>1, SameEvent DEF Event!Next
    <3>2. clock' = clock
      BY <2>1 DEF EventLimiter!Admit
    <3> QED
      BY <2>1, <3>1, <3>2
  <2>2. CASE TriageLimiter!Admit(w) /\ UNCHANGED eventVars
    <3>1. Triage!Next
      BY <2>2, SameTriage DEF Triage!Next
    <3>2. clock' = clock
      BY <2>2 DEF TriageLimiter!Admit
    <3> QED
      BY <2>2, <3>1, <3>2
  <2> QED
    BY <1>4, <2>1, <2>2 DEF Allowed
<1>5. ASSUME NEW w \in Workers,
             \/ Arrive(w) \/ Guard(w) \/ Healthz(w) \/ RequireKey(w)
             \/ Events(w) \/ TriageChecks(w) \/ Provider(w) \/ ValidateTriage(w)
      PROVE  UNCHANGED <<clock, eventVars, triageVars>>
  BY <1>5 DEF Arrive, Guard, Healthz, RequireKey, Events, TriageChecks, Provider, ValidateTriage
<1>6. CASE UNCHANGED vars
  BY <1>6 DEF vars
<1> QED
  BY <1>1, <1>2, <1>3, <1>4, <1>5, <1>6 DEF Next, Serve

(* The requests' part of the state keeps its type.                         *)
LEMMA TypedNext ==
  ASSUME Typed, Staged, Next
  PROVE  Typed'
<1> USE DEF Typed, Request, Response, Paths, Limited, Stages, Outputs, Silent, Respond, Advance, At, For
<1>1. CASE Tick
  BY <1>1 DEF Tick
<1>2. ASSUME NEW w \in Workers, Arrive(w) PROVE Typed'
  BY <1>2 DEF Arrive
<1>3. ASSUME NEW w \in Workers, Guard(w) PROVE Typed'
  BY <1>3 DEF Guard
<1>4. ASSUME NEW w \in Workers, Healthz(w) PROVE Typed'
  BY <1>4 DEF Healthz
<1>5. ASSUME NEW w \in Workers, RequireKey(w) PROVE Typed'
  BY <1>5 DEF RequireKey
<1>6. ASSUME NEW w \in Workers, EnterLimiter(w) PROVE Typed'
  BY <1>6 DEF EnterLimiter
<1>7. ASSUME NEW w \in Workers, TooMany(w) PROVE Typed'
  BY <1>7 DEF TooMany
<1>8. ASSUME NEW w \in Workers, Allowed(w) PROVE Typed'
  BY <1>8 DEF Allowed
<1>9. ASSUME NEW w \in Workers, Events(w) PROVE Typed'
  BY <1>9 DEF Events, Charge
<1>10. ASSUME NEW w \in Workers, TriageChecks(w) PROVE Typed'
  BY <1>10 DEF TriageChecks, Charge
<1>11. ASSUME NEW w \in Workers, Provider(w) PROVE Typed'
  BY <1>11 DEF Provider, Charge, Staged
<1>12. ASSUME NEW w \in Workers, ValidateTriage(w) PROVE Typed'
  BY <1>12 DEF ValidateTriage, Charge, Staged
<1> QED
  BY <1>1, <1>2, <1>3, <1>4, <1>5, <1>6, <1>7, <1>8, <1>9, <1>10, <1>11, <1>12 DEF Next, Serve

(* What a request has behind it is never taken back.                       *)
LEMMA StagedNext ==
  ASSUME Typed, Staged, Next
  PROVE  Staged'
<1> USE DEF Typed, Staged, Silent, Respond, Advance, At, For, Limited
<1>1. CASE Tick
  BY <1>1 DEF Tick
<1>2. ASSUME NEW w \in Workers, Arrive(w) PROVE Staged'
  BY <1>2 DEF Arrive
<1>3. ASSUME NEW w \in Workers, Guard(w) PROVE Staged'
  <2>1. req[w] \in Request
    BY <1>3 DEF Guard
  <2>2. \A u \in Workers \ {w} : req'[u] = req[u]
    BY <1>3 DEF Guard
  <2>3. req'[w] = Idle \/ req'[w].stage = "routed"
    BY <1>3, <2>1 DEF Guard, Request
  <2> QED
    BY <2>2, <2>3
<1>4. ASSUME NEW w \in Workers, Healthz(w) PROVE Staged'
  BY <1>4 DEF Healthz
<1>5. ASSUME NEW w \in Workers, RequireKey(w) PROVE Staged'
  BY <1>5 DEF RequireKey, Request
<1>6. ASSUME NEW w \in Workers, EnterLimiter(w) PROVE Staged'
  BY <1>6 DEF EnterLimiter, Request
<1>7. ASSUME NEW w \in Workers, TooMany(w) PROVE Staged'
  BY <1>7 DEF TooMany
<1>8. ASSUME NEW w \in Workers, Allowed(w) PROVE Staged'
  BY <1>8 DEF Allowed, Request
<1>9. ASSUME NEW w \in Workers, Events(w) PROVE Staged'
  BY <1>9 DEF Events
<1>10. ASSUME NEW w \in Workers, TriageChecks(w) PROVE Staged'
  BY <1>10 DEF TriageChecks, Request
<1>11. ASSUME NEW w \in Workers, Provider(w) PROVE Staged'
  BY <1>11 DEF Provider, Request
<1>12. ASSUME NEW w \in Workers, ValidateTriage(w) PROVE Staged'
  BY <1>12 DEF ValidateTriage
<1> QED
  BY <1>1, <1>2, <1>3, <1>4, <1>5, <1>6, <1>7, <1>8, <1>9, <1>10, <1>11, <1>12 DEF Next, Serve

(* A request outside the limiters changes and no call does.               *)
LEMMA LinkedAway ==
  ASSUME Linked, NEW w \in Workers, eventCall[w] = Idle, triageCall[w] = Idle,
         UNCHANGED <<eventCall, triageCall>>, \A u \in Workers \ {w} : req'[u] = req[u]
  PROVE  Linked'
BY DEF Linked, At, For

(* A call begins and ends with the stage "limiting" of its request.        *)
LEMMA LinkedNext ==
  ASSUME Typed, EventLimiter!TypeOK, TriageLimiter!TypeOK, Linked, Next
  PROVE  Linked'
<1> USE DEF Typed, Linked, Silent, Respond, Advance, At, For, eventVars, triageVars,
            EventLimiter!TypeOK, TriageLimiter!TypeOK
<1>1. CASE Tick
  BY <1>1 DEF Tick
<1>2. ASSUME NEW w \in Workers, Arrive(w) PROVE Linked'
  <2>1. eventCall[w] = Idle /\ triageCall[w] = Idle /\ UNCHANGED <<eventCall, triageCall>>
    BY <1>2 DEF Arrive
  <2>2. \A u \in Workers \ {w} : req'[u] = req[u]
    BY <1>2 DEF Arrive
  <2> QED
    BY <2>1, <2>2, LinkedAway
<1>3. ASSUME NEW w \in Workers, Guard(w) PROVE Linked'
  <2>1. eventCall[w] = Idle /\ triageCall[w] = Idle /\ UNCHANGED <<eventCall, triageCall>>
    BY <1>3 DEF Guard
  <2>2. \A u \in Workers \ {w} : req'[u] = req[u]
    BY <1>3 DEF Guard
  <2> QED
    BY <2>1, <2>2, LinkedAway
<1>4. ASSUME NEW w \in Workers, Healthz(w) PROVE Linked'
  <2>1. eventCall[w] = Idle /\ triageCall[w] = Idle /\ UNCHANGED <<eventCall, triageCall>>
    BY <1>4 DEF Healthz
  <2>2. \A u \in Workers \ {w} : req'[u] = req[u]
    BY <1>4 DEF Healthz
  <2> QED
    BY <2>1, <2>2, LinkedAway
<1>5. ASSUME NEW w \in Workers, RequireKey(w) PROVE Linked'
  <2>1. eventCall[w] = Idle /\ triageCall[w] = Idle /\ UNCHANGED <<eventCall, triageCall>>
    BY <1>5 DEF RequireKey
  <2>2. \A u \in Workers \ {w} : req'[u] = req[u]
    BY <1>5 DEF RequireKey
  <2> QED
    BY <2>1, <2>2, LinkedAway
<1>6. ASSUME NEW w \in Workers, EnterLimiter(w) PROVE Linked'
  <2>1. req[w] \in Request /\ req[w] # Idle
    BY <1>6 DEF EnterLimiter
  <2>2. eventCall[w] = Idle /\ triageCall[w] = Idle
    BY <1>6 DEF EnterLimiter
  <2>3. /\ req'[w].stage = "limiting" /\ req'[w].path = req[w].path
        /\ req'[w].client = req[w].client /\ req'[w] \in Request
        /\ \A u \in Workers \ {w} : req'[u] = req[u]
    BY <1>6, <2>1 DEF EnterLimiter, Request, Stages
  <2>4. req'[w] # Idle
    BY <2>3, IdleAssumption
  <2>5. CASE For(w, "events") /\ EventLimiter!ReadClock(w, req[w].client) /\ UNCHANGED triageVars
    <3>1. /\ eventCall'[w].client = req[w].client /\ triageCall' = triageCall
          /\ \A u \in Workers \ {w} : eventCall'[u] = eventCall[u]
      BY <2>5 DEF EventLimiter!ReadClock
    <3> HIDE DEF Typed, Silent, Respond, Advance, eventVars, triageVars,
                 EventLimiter!TypeOK, TriageLimiter!TypeOK
    <3> QED
      BY <2>2, <2>3, <2>4, <2>5, <3>1
  <2>6. CASE For(w, "triage") /\ TriageLimiter!ReadClock(w, req[w].client) /\ UNCHANGED eventVars
    <3>1. /\ triageCall'[w].client = req[w].client /\ eventCall' = eventCall
          /\ \A u \in Workers \ {w} : triageCall'[u] = triageCall[u]
      BY <2>6 DEF TriageLimiter!ReadClock
    <3> HIDE DEF Typed, Silent, Respond, Advance, eventVars, triageVars,
                 EventLimiter!TypeOK, TriageLimiter!TypeOK
    <3> QED
      BY <2>2, <2>3, <2>4, <2>6, <3>1
  <2> QED
    BY <1>6, <2>5, <2>6 DEF EnterLimiter
<1>7. ASSUME NEW w \in Workers, TooMany(w) PROVE Linked'
  <2>1. \A u \in Workers \ {w} : req'[u] = req[u]
    BY <1>7 DEF TooMany
  <2>2. CASE EventLimiter!Refuse(w) /\ UNCHANGED triageVars
    <3>1. /\ eventCall[w] # Idle /\ eventCall'[w] = Idle /\ triageCall' = triageCall
          /\ \A u \in Workers \ {w} : eventCall'[u] = eventCall[u]
      BY <2>2 DEF EventLimiter!Refuse
    <3>2. triageCall[w] = Idle
      BY <3>1
    <3> HIDE DEF Typed, Silent, Respond, Advance, eventVars, triageVars,
                 EventLimiter!TypeOK, TriageLimiter!TypeOK
    <3> QED
      BY <2>1, <3>1, <3>2
  <2>3. CASE TriageLimiter!Refuse(w) /\ UNCHANGED eventVars
    <3>1. /\ triageCall[w] # Idle /\ triageCall'[w] = Idle /\ eventCall' = eventCall
          /\ \A u \in Workers \ {w} : triageCall'[u] = triageCall[u]
      BY <2>3 DEF TriageLimiter!Refuse
    <3>2. eventCall[w] = Idle
      BY <3>1
    <3> HIDE DEF Typed, Silent, Respond, Advance, eventVars, triageVars,
                 EventLimiter!TypeOK, TriageLimiter!TypeOK
    <3> QED
      BY <2>1, <3>1, <3>2
  <2> QED
    BY <1>7, <2>2, <2>3 DEF TooMany
<1>8. ASSUME NEW w \in Workers, Allowed(w) PROVE Linked'
  <2>1. \A u \in Workers \ {w} : req'[u] = req[u]
    BY <1>8 DEF Allowed
  <2>2. CASE EventLimiter!Admit(w) /\ UNCHANGED triageVars
    <3>1. /\ eventCall[w] # Idle /\ eventCall'[w] = Idle /\ triageCall' = triageCall
          /\ \A u \in Workers \ {w} : eventCall'[u] = eventCall[u]
      BY <2>2 DEF EventLimiter!Admit
    <3>2. triageCall[w] = Idle
      BY <3>1
    <3> HIDE DEF Typed, Silent, Respond, Advance, eventVars, triageVars,
                 EventLimiter!TypeOK, TriageLimiter!TypeOK
    <3> QED
      BY <2>1, <3>1, <3>2
  <2>3. CASE TriageLimiter!Admit(w) /\ UNCHANGED eventVars
    <3>1. /\ triageCall[w] # Idle /\ triageCall'[w] = Idle /\ eventCall' = eventCall
          /\ \A u \in Workers \ {w} : triageCall'[u] = triageCall[u]
      BY <2>3 DEF TriageLimiter!Admit
    <3>2. eventCall[w] = Idle
      BY <3>1
    <3> HIDE DEF Typed, Silent, Respond, Advance, eventVars, triageVars,
                 EventLimiter!TypeOK, TriageLimiter!TypeOK
    <3> QED
      BY <2>1, <3>1, <3>2
  <2> QED
    BY <1>8, <2>2, <2>3 DEF Allowed
<1>9. ASSUME NEW w \in Workers, Events(w) PROVE Linked'
  <2>1. eventCall[w] = Idle /\ triageCall[w] = Idle /\ UNCHANGED <<eventCall, triageCall>>
    BY <1>9 DEF Events
  <2>2. \A u \in Workers \ {w} : req'[u] = req[u]
    BY <1>9 DEF Events
  <2> QED
    BY <2>1, <2>2, LinkedAway
<1>10. ASSUME NEW w \in Workers, TriageChecks(w) PROVE Linked'
  <2>1. eventCall[w] = Idle /\ triageCall[w] = Idle /\ UNCHANGED <<eventCall, triageCall>>
    BY <1>10 DEF TriageChecks
  <2>2. \A u \in Workers \ {w} : req'[u] = req[u]
    BY <1>10 DEF TriageChecks
  <2> QED
    BY <2>1, <2>2, LinkedAway
<1>11. ASSUME NEW w \in Workers, Provider(w) PROVE Linked'
  <2>1. eventCall[w] = Idle /\ triageCall[w] = Idle /\ UNCHANGED <<eventCall, triageCall>>
    BY <1>11 DEF Provider
  <2>2. \A u \in Workers \ {w} : req'[u] = req[u]
    BY <1>11 DEF Provider
  <2> QED
    BY <2>1, <2>2, LinkedAway
<1>12. ASSUME NEW w \in Workers, ValidateTriage(w) PROVE Linked'
  <2>1. eventCall[w] = Idle /\ triageCall[w] = Idle /\ UNCHANGED <<eventCall, triageCall>>
    BY <1>12 DEF ValidateTriage
  <2>2. \A u \in Workers \ {w} : req'[u] = req[u]
    BY <1>12 DEF ValidateTriage
  <2> QED
    BY <2>1, <2>2, LinkedAway
<1> QED
  BY <1>1, <1>2, <1>3, <1>4, <1>5, <1>6, <1>7, <1>8, <1>9, <1>10, <1>11, <1>12 DEF Next, Serve

-----------------------------------------------------------------------------
(* The inductive invariant.                                                *)
LEMMA InitIInv == Init => IInv
<1> SUFFICES ASSUME Init PROVE IInv
  OBVIOUS
<1>1. Event!IInv
  BY LimiterAssumptions, SameEvent, Event!InitIInv DEF Init
<1>2. Triage!IInv
  BY LimiterAssumptions, SameTriage, Triage!InitIInv DEF Init
<1>3. Typed
  BY DEF Init, Typed
<1>4. Linked /\ Staged
  BY DEF Init, Linked, Staged, EventLimiter!Init, TriageLimiter!Init
<1> QED
  BY <1>1, <1>2, <1>3, <1>4 DEF IInv

LEMMA NextIInv == IInv /\ [Next]_vars => IInv'
<1> SUFFICES ASSUME IInv, [Next]_vars PROVE IInv'
  OBVIOUS
<1>1. EventLimiter!TypeOK /\ TriageLimiter!TypeOK
  BY SameEvent, SameTriage DEF IInv, Event!IInv, Triage!IInv
<1>2. [Event!Next]_(Event!vars) /\ [Triage!Next]_(Triage!vars)
  BY LimiterSteps DEF IInv
<1>3. Event!IInv'
  BY <1>2, LimiterAssumptions, Event!NextIInv DEF IInv
<1>4. Triage!IInv'
  BY <1>2, LimiterAssumptions, Triage!NextIInv DEF IInv
<1>5. CASE Next
  BY <1>1, <1>3, <1>4, <1>5, TypedNext, LinkedNext, StagedNext DEF IInv
<1>6. CASE UNCHANGED vars
  BY <1>3, <1>4, <1>6 DEF IInv, vars, eventVars, triageVars, Typed, Linked, Staged, At, For
<1> QED
  BY <1>5, <1>6

(* The inductive invariant holds throughout.                               *)
THEOREM Invariance == Spec => []IInv
<1> QED
  BY InitIInv, NextIInv, PTL DEF Spec

(* The service is well typed, both limiters with every deque within its    *)
(* limit included.                                                         *)
THEOREM TypeCorrect == Spec => []TypeOK
<1>1. IInv => TypeOK
  BY SameEvent, SameTriage DEF IInv, Event!IInv, Triage!IInv, Typed, TypeOK
<1> QED
  BY <1>1, Invariance, PTL

-----------------------------------------------------------------------------
(* A triage decision leaves the service in one step only, ValidateTriage.  *)
LEMMA ValidatedNext ==
  ASSUME IInv, OnlyValidatedTriageServed, [Next]_vars
  PROVE  OnlyValidatedTriageServed'
<1> USE IdleAssumption DEF OnlyValidatedTriageServed, Silent, Respond, IInv, Typed
<1>1. CASE Tick
  BY <1>1 DEF Tick
<1>2. ASSUME NEW w \in Workers, Healthz(w) \/ Events(w) PROVE OnlyValidatedTriageServed'
  BY <1>2 DEF Healthz, Events, For
<1>3. ASSUME NEW w \in Workers, ValidateTriage(w) PROVE OnlyValidatedTriageServed'
  BY <1>3 DEF ValidateTriage
<1>4. ASSUME NEW w \in Workers,
             \/ Arrive(w) \/ Guard(w) \/ RequireKey(w) \/ EnterLimiter(w) \/ TooMany(w)
             \/ Allowed(w) \/ TriageChecks(w) \/ Provider(w)
      PROVE  sent' = Idle \/ sent'.status # 200
  BY <1>4 DEF Arrive, Guard, RequireKey, EnterLimiter, TooMany, Allowed, TriageChecks, Provider
<1>5. CASE UNCHANGED vars
  BY <1>5 DEF vars
<1> QED
  BY <1>1, <1>2, <1>3, <1>4, <1>5 DEF Next, Serve

(* Whatever the provider returns, a 200 from /triage carries output that   *)
(* passed validate_triage.                                                 *)
THEOREM ValidatedCorrect == Spec => []OnlyValidatedTriageServed
<1>1. Init => OnlyValidatedTriageServed
  BY DEF Init, OnlyValidatedTriageServed
<1>2. IInv /\ OnlyValidatedTriageServed /\ [Next]_vars => OnlyValidatedTriageServed'
  BY ValidatedNext
<1> QED
  BY <1>1, <1>2, Invariance, PTL DEF Spec

-----------------------------------------------------------------------------
(* A limiter's record changes for the client of a call only, and that call *)
(* is a request with the key.                                              *)
LEMMA ChargedNext ==
  ASSUME IInv, [Next]_vars, NEW c \in Clients
  PROVE  /\ eventHits'[c] # eventHits[c] => \E w \in Workers : Calls(w, "events", c)
         /\ triageHits'[c] # triageHits[c] => \E w \in Workers : Calls(w, "triage", c)
<1> USE DEF eventVars, triageVars
<1>1. EventLimiter!TypeOK /\ TriageLimiter!TypeOK /\ Linked /\ Staged
  BY SameEvent, SameTriage DEF IInv, Event!IInv, Triage!IInv
<1>2. ASSUME NEW w \in Workers, EventLimiter!Refuse(w) \/ EventLimiter!Admit(w),
             eventHits'[c] # eventHits[c]
      PROVE  Calls(w, "events", c)
  <2>1. eventCall[w] # Idle /\ eventCall[w].client = c
    BY <1>1, <1>2 DEF EventLimiter!Refuse, EventLimiter!Admit, EventLimiter!TypeOK
  <2> QED
    BY <1>1, <2>1 DEF Linked, Staged, Calls, At, For
<1>3. ASSUME NEW w \in Workers, TriageLimiter!Refuse(w) \/ TriageLimiter!Admit(w),
             triageHits'[c] # triageHits[c]
      PROVE  Calls(w, "triage", c)
  <2>1. triageCall[w] # Idle /\ triageCall[w].client = c
    BY <1>1, <1>3 DEF TriageLimiter!Refuse, TriageLimiter!Admit, TriageLimiter!TypeOK
  <2> QED
    BY <1>1, <2>1 DEF Linked, Staged, Calls, At, For
<1>4. ASSUME NEW w \in Workers, TooMany(w) \/ Allowed(w)
      PROVE  /\ eventHits'[c] # eventHits[c] => Calls(w, "events", c)
             /\ triageHits'[c] # triageHits[c] => Calls(w, "triage", c)
  BY <1>2, <1>3, <1>4 DEF TooMany, Allowed
<1>5. ASSUME NEW w \in Workers,
             \/ Arrive(w) \/ Guard(w) \/ Healthz(w) \/ RequireKey(w) \/ EnterLimiter(w)
             \/ Events(w) \/ TriageChecks(w) \/ Provider(w) \/ ValidateTriage(w)
      PROVE  UNCHANGED <<eventHits, triageHits>>
  BY <1>5 DEF Arrive, Guard, Healthz, RequireKey, EnterLimiter, Events, TriageChecks, Provider,
              ValidateTriage, EventLimiter!ReadClock, TriageLimiter!ReadClock
<1>6. CASE Tick \/ UNCHANGED vars
  BY <1>6 DEF Tick, vars
<1> QED
  BY <1>4, <1>5, <1>6 DEF Next, Serve

(* No client pays for another, for the other endpoint, or without a key.   *)
THEOREM ChargedCorrect == Spec => ChargedToCaller
<1>1. IInv /\ [Next]_vars =>
        [\A c \in Clients :
           /\ eventHits'[c] # eventHits[c] => \E w \in Workers : Calls(w, "events", c)
           /\ triageHits'[c] # triageHits[c] => \E w \in Workers : Calls(w, "triage", c)]_vars
  BY ChargedNext
<1> QED
  BY <1>1, Invariance, PTL DEF Spec, ChargedToCaller

-----------------------------------------------------------------------------
(* The requests being served past a limiter, when one worker w moves.      *)
Still(w) == \A u \in Workers \ {w} : req'[u] = req[u]

LEMMA InsideMember ==
  ASSUME NEW w \in Workers, NEW p, NEW c
  PROVE  /\ w \in Inside(p, c) <=>
              /\ req[w] # Idle /\ req[w].path = p /\ req[w].client = c
              /\ req[w].stage \in {"admitted", "prompted", "decided"}
         /\ w \in Inside(p, c)' <=>
              /\ req'[w] # Idle /\ req'[w].path = p /\ req'[w].client = c
              /\ req'[w].stage \in {"admitted", "prompted", "decided"}
BY DEF Inside

LEMMA InsideCounted ==
  ASSUME NEW p, NEW c
  PROVE  IsFiniteSet(Inside(p, c)) /\ Cardinality(Inside(p, c)) \in Nat
<1>1. Inside(p, c) \subseteq Workers
  BY DEF Inside
<1> QED
  BY <1>1, WorkersAssumption, FS_Subset, FS_CardinalityType

LEMMA InsideStays ==
  ASSUME NEW w \in Workers, Still(w), NEW p, NEW c, w \in Inside(p, c)' <=> w \in Inside(p, c)
  PROVE  Inside(p, c)' = Inside(p, c)
BY DEF Still, Inside

LEMMA InsideEntered ==
  ASSUME NEW w \in Workers, Still(w), NEW p, NEW c, w \notin Inside(p, c), w \in Inside(p, c)'
  PROVE  Cardinality(Inside(p, c)') = Cardinality(Inside(p, c)) + 1
<1>1. Inside(p, c)' = Inside(p, c) \cup {w}
  BY DEF Still, Inside
<1> QED
  BY <1>1, InsideCounted, FS_AddElement

LEMMA InsideLeft ==
  ASSUME NEW w \in Workers, Still(w), NEW p, NEW c, w \in Inside(p, c), w \notin Inside(p, c)'
  PROVE  Cardinality(Inside(p, c)') = Cardinality(Inside(p, c)) - 1
<1>1. Inside(p, c)' = Inside(p, c) \ {w}
  BY DEF Still, Inside
<1> QED
  BY <1>1, InsideCounted, FS_RemoveElement

(* The requests inside do not change, and nothing is charged.              *)
LEMMA ConservedQuiet ==
  ASSUME ChargesConserved, NEW w \in Workers, Still(w),
         UNCHANGED <<charged, eventAdmitted, triageAdmitted>>,
         \A p \in Limited, c \in Clients : w \in Inside(p, c)' <=> w \in Inside(p, c)
  PROVE  ChargesConserved'
<1>1. \A p \in Limited, c \in Clients : Inside(p, c)' = Inside(p, c)
  BY InsideStays
<1> QED
  BY <1>1 DEF ChargesConserved, Limited

(* An answer takes the request out and is charged.                         *)
LEMMA ConservedAnswer ==
  ASSUME ChargesConserved, Typed, NEW w \in Workers, req[w] # Idle, req[w].path \in Limited,
         req[w].stage \in {"admitted", "prompted", "decided"},
         req' = [req EXCEPT ![w] = Idle], Charge(w), UNCHANGED <<eventAdmitted, triageAdmitted>>
  PROVE  ChargesConserved'
<1>0. PICK q \in Limited, d \in Clients : req[w].path = q /\ req[w].client = d
  BY DEF At, Typed, Request
<1>1. Still(w) /\ req'[w] = Idle
  BY DEF At, Typed, Still
<1>2. /\ charged'[q][d] = charged[q][d] + 1
      /\ \A p \in Limited, c \in Clients : <<p, c>> # <<q, d>> => charged'[p][c] = charged[p][c]
      /\ \A p \in Limited, c \in Clients : charged[p][c] \in Nat
  BY <1>0 DEF Charge, Typed
<1>3. Cardinality(Inside(q, d)') = Cardinality(Inside(q, d)) - 1
  <2>1. w \in Inside(q, d) /\ w \notin Inside(q, d)'
    BY <1>0, <1>1, InsideMember DEF At
  <2> QED
    BY <1>1, <2>1, InsideLeft
<1>4. \A p \in Limited, c \in Clients : <<p, c>> # <<q, d>> => Inside(p, c)' = Inside(p, c)
  <2> SUFFICES ASSUME NEW p \in Limited, NEW c \in Clients, <<p, c>> # <<q, d>>
               PROVE  Inside(p, c)' = Inside(p, c)
    OBVIOUS
  <2>1. w \notin Inside(p, c) /\ w \notin Inside(p, c)'
    BY <1>0, <1>1, InsideMember
  <2> QED
    BY <1>1, <2>1, InsideStays
<1>5. \A p \in Limited, c \in Clients : Cardinality(Inside(p, c)) \in Nat
  BY InsideCounted
<1>6. \A p \in Limited, c \in Clients :
        charged'[p][c] + Cardinality(Inside(p, c)') = charged[p][c] + Cardinality(Inside(p, c))
  <2> SUFFICES ASSUME NEW p \in Limited, NEW c \in Clients
               PROVE  charged'[p][c] + Cardinality(Inside(p, c)') =
                        charged[p][c] + Cardinality(Inside(p, c))
    OBVIOUS
  <2>1. CASE p = q /\ c = d
    BY <1>2, <1>3, <1>5, <2>1
  <2>2. CASE ~(p = q /\ c = d)
    BY <1>2, <1>4, <2>2
  <2> QED
    BY <2>1, <2>2
<1> QED
  BY <1>6 DEF ChargesConserved, Limited

(* An admission lets the request in.                                       *)
LEMMA ConservedAdmission ==
  ASSUME ChargesConserved, Typed, Linked, EventLimiter!TypeOK, TriageLimiter!TypeOK,
         NEW w \in Workers, Allowed(w)
  PROVE  ChargesConserved'
<1> DEFINE q == req[w].path
           d == req[w].client
<1>1. /\ d \in Clients /\ req[w] \in Request /\ At(w, "limiting") /\ Still(w) /\ charged' = charged
      /\ req'[w] = [req[w] EXCEPT !.stage = "admitted"]
  BY DEF Allowed, Advance, At, Typed, Request, Still
<1>2. /\ req'[w] # Idle /\ req'[w].path = q /\ req'[w].client = d /\ req'[w].stage = "admitted"
      /\ req[w].stage = "limiting"
  <2>1. [req[w] EXCEPT !.stage = "admitted"] \in Request
    BY <1>1 DEF Request, Stages
  <2> QED
    BY <1>1, <2>1, IdleAssumption DEF Request, At
<1>3. \A p \in Limited, c \in Clients :
        Cardinality(Inside(p, c)') =
          Cardinality(Inside(p, c)) + (IF p = q /\ c = d THEN 1 ELSE 0)
  <2> SUFFICES ASSUME NEW p \in Limited, NEW c \in Clients
               PROVE  Cardinality(Inside(p, c)') =
                        Cardinality(Inside(p, c)) + (IF p = q /\ c = d THEN 1 ELSE 0)
    OBVIOUS
  <2>1. CASE p = q /\ c = d
    <3>1. w \notin Inside(p, c) /\ w \in Inside(p, c)'
      BY <1>2, <2>1, InsideMember
    <3> QED
      BY <1>1, <2>1, <3>1, InsideEntered
  <2>2. CASE ~(p = q /\ c = d)
    <3>1. w \notin Inside(p, c) /\ w \notin Inside(p, c)'
      BY <1>2, <2>2, InsideMember
    <3>2. Inside(p, c)' = Inside(p, c)
      BY <1>1, <3>1, InsideStays
    <3> QED
      BY <2>2, <3>2, InsideCounted
  <2> QED
    BY <2>1, <2>2
<1>4. \A c \in Clients :
        /\ Cardinality(Inside("events", c)) \in Nat /\ charged["events"][c] \in Nat
        /\ Cardinality(Inside("triage", c)) \in Nat /\ charged["triage"][c] \in Nat
  BY InsideCounted DEF Typed, Limited
<1>5. CASE EventLimiter!Admit(w) /\ UNCHANGED triageVars
  <2>1. q = "events" /\ eventCall[w].client = d
    BY <1>5 DEF EventLimiter!Admit, Linked, For
  <2>2. eventCall[w].now \in Nat /\ clock \in Nat
    BY <1>5 DEF EventLimiter!Admit, EventLimiter!TypeOK, EventLimiter!Call
  <2> DEFINE e == [stamp |-> eventCall[w].now, at |-> clock]
  <2>3. /\ eventAdmitted'[d] = Append(eventAdmitted[d], e)
        /\ \A c \in Clients \ {d} : eventAdmitted'[c] = eventAdmitted[c]
        /\ triageAdmitted' = triageAdmitted
    <3>1. /\ eventAdmitted' = [eventAdmitted EXCEPT ![d] = Append(@, e)]
          /\ triageAdmitted' = triageAdmitted
      BY <1>5, <2>1 DEF EventLimiter!Admit, triageVars
    <3>2. eventAdmitted \in [Clients -> Seq(EventLimiter!Admission)]
      BY DEF EventLimiter!TypeOK
    <3> HIDE DEF e, d
    <3> QED
      BY <1>1, <3>1, <3>2
  <2>4. eventAdmitted[d] \in Seq(EventLimiter!Admission) /\ e \in EventLimiter!Admission
    BY <1>1, <2>2 DEF EventLimiter!TypeOK, EventLimiter!Admission
  <2>5. Len(eventAdmitted'[d]) = Len(eventAdmitted[d]) + 1
    BY <2>3, <2>4, AppendProperties
  <2> HIDE DEF q, d
  <2>6. ASSUME NEW c \in Clients
        PROVE  Len(eventAdmitted'[c]) = charged'["events"][c] + Cardinality(Inside("events", c)')
    <3>1. Cardinality(Inside("events", c)') =
            Cardinality(Inside("events", c)) + (IF c = d THEN 1 ELSE 0)
      BY <1>3, <2>1, <2>6 DEF Limited
    <3>2. Len(eventAdmitted[c]) = charged["events"][c] + Cardinality(Inside("events", c))
      BY <2>6 DEF ChargesConserved
    <3>3. Len(eventAdmitted'[c]) = Len(eventAdmitted[c]) + (IF c = d THEN 1 ELSE 0)
      BY <1>4, <2>3, <2>5, <2>6, <3>2
    <3> QED
      BY <1>1, <1>4, <2>6, <3>1, <3>2, <3>3
  <2>7. ASSUME NEW c \in Clients
        PROVE  Len(triageAdmitted'[c]) = charged'["triage"][c] + Cardinality(Inside("triage", c)')
    <3>1. Cardinality(Inside("triage", c)') = Cardinality(Inside("triage", c))
      BY <1>3, <1>4, <2>1, <2>7 DEF Limited
    <3> QED
      BY <1>1, <2>3, <2>7, <3>1 DEF ChargesConserved
  <2> QED
    BY <2>6, <2>7 DEF ChargesConserved
<1>6. CASE TriageLimiter!Admit(w) /\ UNCHANGED eventVars
  <2>1. q = "triage" /\ triageCall[w].client = d
    BY <1>6 DEF TriageLimiter!Admit, Linked, For
  <2>2. triageCall[w].now \in Nat /\ clock \in Nat
    BY <1>6 DEF TriageLimiter!Admit, TriageLimiter!TypeOK, TriageLimiter!Call
  <2> DEFINE e == [stamp |-> triageCall[w].now, at |-> clock]
  <2>3. /\ triageAdmitted'[d] = Append(triageAdmitted[d], e)
        /\ \A c \in Clients \ {d} : triageAdmitted'[c] = triageAdmitted[c]
        /\ eventAdmitted' = eventAdmitted
    <3>1. /\ triageAdmitted' = [triageAdmitted EXCEPT ![d] = Append(@, e)]
          /\ eventAdmitted' = eventAdmitted
      BY <1>6, <2>1 DEF TriageLimiter!Admit, eventVars
    <3>2. triageAdmitted \in [Clients -> Seq(TriageLimiter!Admission)]
      BY DEF TriageLimiter!TypeOK
    <3> HIDE DEF e, d
    <3> QED
      BY <1>1, <3>1, <3>2
  <2>4. triageAdmitted[d] \in Seq(TriageLimiter!Admission) /\ e \in TriageLimiter!Admission
    BY <1>1, <2>2 DEF TriageLimiter!TypeOK, TriageLimiter!Admission
  <2>5. Len(triageAdmitted'[d]) = Len(triageAdmitted[d]) + 1
    BY <2>3, <2>4, AppendProperties
  <2> HIDE DEF q, d
  <2>6. ASSUME NEW c \in Clients
        PROVE  Len(triageAdmitted'[c]) = charged'["triage"][c] + Cardinality(Inside("triage", c)')
    <3>1. Cardinality(Inside("triage", c)') =
            Cardinality(Inside("triage", c)) + (IF c = d THEN 1 ELSE 0)
      BY <1>3, <2>1, <2>6 DEF Limited
    <3>2. Len(triageAdmitted[c]) = charged["triage"][c] + Cardinality(Inside("triage", c))
      BY <2>6 DEF ChargesConserved
    <3>3. Len(triageAdmitted'[c]) = Len(triageAdmitted[c]) + (IF c = d THEN 1 ELSE 0)
      BY <1>4, <2>3, <2>5, <2>6, <3>2
    <3> QED
      BY <1>1, <1>4, <2>6, <3>1, <3>2, <3>3
  <2>7. ASSUME NEW c \in Clients
        PROVE  Len(eventAdmitted'[c]) = charged'["events"][c] + Cardinality(Inside("events", c)')
    <3>1. Cardinality(Inside("events", c)') = Cardinality(Inside("events", c))
      BY <1>3, <1>4, <2>1, <2>7 DEF Limited
    <3> QED
      BY <1>1, <2>3, <2>7, <3>1 DEF ChargesConserved
  <2> QED
    BY <2>6, <2>7 DEF ChargesConserved
<1> QED
  BY <1>5, <1>6 DEF Allowed

LEMMA ConservedNext ==
  ASSUME IInv, ChargesConserved, [Next]_vars
  PROVE  ChargesConserved'
<1>1. Typed /\ Linked /\ Staged /\ EventLimiter!TypeOK /\ TriageLimiter!TypeOK
  BY SameEvent, SameTriage DEF IInv, Event!IInv, Triage!IInv
<1> USE DEF At, For, Advance, Respond, Limited
<1>2. CASE Tick \/ UNCHANGED vars
  <2>1. UNCHANGED <<charged, eventAdmitted, triageAdmitted, req>>
    BY <1>2 DEF Tick, vars, eventVars, triageVars
  <2>2. \A p, c : Inside(p, c)' = Inside(p, c)
    BY <2>1 DEF Inside
  <2> QED
    BY <2>1, <2>2 DEF ChargesConserved
<1>3. ASSUME NEW w \in Workers,
             Arrive(w) \/ Guard(w) \/ Healthz(w) \/ RequireKey(w) \/ EnterLimiter(w) \/ TooMany(w)
      PROVE  ChargesConserved'
  <2>1. Still(w) /\ UNCHANGED <<charged, eventAdmitted, triageAdmitted>>
    BY <1>1, <1>3 DEF Still, Typed, Arrive, Guard, Healthz, RequireKey, EnterLimiter, TooMany,
       EventLimiter!ReadClock, TriageLimiter!ReadClock, EventLimiter!Refuse, TriageLimiter!Refuse,
       eventVars, triageVars
  <2>2. req[w] = Idle \/ req[w].stage \in {"received", "routed", "authorised", "limiting"}
    BY <1>3 DEF Arrive, Guard, Healthz, RequireKey, EnterLimiter, TooMany
  <2>3. req'[w] = Idle \/ req'[w].stage \in {"received", "routed", "authorised", "limiting"}
    <3>1. CASE Arrive(w)
      BY <1>1, <3>1 DEF Arrive, Typed
    <3>2. CASE ~Arrive(w)
      <4>1. req[w] \in Request
        BY <1>1, <1>3, <3>2 DEF Typed, Guard, Healthz, RequireKey, EnterLimiter, TooMany
      <4> QED
        BY <1>1, <1>3, <3>2, <4>1
           DEF Typed, Request, Guard, Healthz, RequireKey, EnterLimiter, TooMany
    <3> QED
      BY <3>1, <3>2
  <2>4. \A p \in Limited, c \in Clients : w \notin Inside(p, c) /\ w \notin Inside(p, c)'
    BY <2>2, <2>3, InsideMember
  <2> QED
    BY <2>1, <2>4, ConservedQuiet
<1>4. ASSUME NEW w \in Workers, Allowed(w) PROVE ChargesConserved'
  BY <1>1, <1>4, ConservedAdmission
<1>5. ASSUME NEW w \in Workers, Events(w) \/ TriageChecks(w) \/ Provider(w) \/ ValidateTriage(w)
      PROVE  ChargesConserved'
  <2>1. /\ req[w] \in Request /\ req[w] # Idle /\ req[w].path \in Limited
        /\ req[w].stage \in {"admitted", "prompted", "decided"}
        /\ UNCHANGED <<eventAdmitted, triageAdmitted>>
    BY <1>1, <1>5 DEF Typed, Staged, Events, TriageChecks, Provider, ValidateTriage,
       eventVars, triageVars
  <2>2. CASE req' = [req EXCEPT ![w] = Idle] /\ Charge(w)
    BY <1>1, <2>1, <2>2, ConservedAnswer
  <2>3. CASE ~(req' = [req EXCEPT ![w] = Idle] /\ Charge(w))
    <3>1. /\ Still(w) /\ charged' = charged /\ req'[w] \in Request
          /\ req'[w].path = req[w].path /\ req'[w].client = req[w].client
          /\ req'[w].stage \in {"admitted", "prompted", "decided"}
      BY <1>1, <1>5, <2>1, <2>3 DEF Typed, Still, Request, Stages, Outputs,
         Events, TriageChecks, Provider, ValidateTriage
    <3>2. req'[w] # Idle
      BY <3>1, IdleAssumption
    <3>3. \A p \in Limited, c \in Clients : w \in Inside(p, c)' <=> w \in Inside(p, c)
      BY <2>1, <3>1, <3>2, InsideMember
    <3> QED
      BY <2>1, <3>1, <3>3, ConservedQuiet
  <2> QED
    BY <2>2, <2>3
<1> QED
  BY <1>2, <1>3, <1>4, <1>5 DEF Next, Serve

(* Every admission of a limiter is one request of its client, answered     *)
(* exactly once or still being served.                                     *)
THEOREM ConservedCorrect == Spec => []ChargesConserved
<1>1. Init => ChargesConserved
  <2> SUFFICES ASSUME Init PROVE ChargesConserved
    OBVIOUS
  <2>1. \A p, c : Inside(p, c) = {}
    BY DEF Init, Inside
  <2>2. \A c \in Clients : eventAdmitted[c] = <<>> /\ triageAdmitted[c] = <<>>
    BY DEF Init, EventLimiter!Init, TriageLimiter!Init
  <2>3. \A c \in Clients : charged["events"][c] = 0 /\ charged["triage"][c] = 0
    BY DEF Init, Limited
  <2>4. Cardinality({}) = 0 /\ Len(<<>>) = 0 /\ 0 = 0 + 0
    BY FS_EmptySet
  <2> QED
    BY <2>1, <2>2, <2>3, <2>4 DEF ChargesConserved
<1>2. IInv /\ ChargesConserved /\ [Next]_vars => ChargesConserved'
  BY ConservedNext
<1> QED
  BY <1>1, <1>2, Invariance, PTL DEF Spec

-----------------------------------------------------------------------------
(* Both limiters keep their quotas inside the service.                     *)
THEOREM QuotasImplemented == Spec => Quotas
<1>1. Init => Event!Init /\ Triage!Init
  BY SameEvent, SameTriage DEF Init
<1>2. IInv /\ [Next]_vars => [Event!Next]_(Event!vars) /\ [Triage!Next]_(Triage!vars)
  BY LimiterSteps DEF IInv
<1>3. Spec => Event!Spec /\ Triage!Spec
  BY <1>1, <1>2, Invariance, PTL DEF Spec, Event!Spec, Triage!Spec
<1>4. Event!Spec => Event!ImplementsQuota
  BY LimiterAssumptions, Event!QuotaImplemented
<1>5. Triage!Spec => Triage!ImplementsQuota
  BY LimiterAssumptions, Triage!QuotaImplemented
<1>6. Event!ImplementsQuota => EventLimiter!ImplementsQuota
  <2>1. Event!Promise!Init <=> EventLimiter!Promise!Init
    BY DEF Event!Promise!Init, EventLimiter!Promise!Init
  <2>2. [Event!Promise!Next]_(Event!Promise!vars) => [EventLimiter!Promise!Next]_(EventLimiter!Promise!vars)
    BY DEF Event!Promise!Next, EventLimiter!Promise!Next, Event!Promise!vars, EventLimiter!Promise!vars,
           Event!Promise!Tick, EventLimiter!Promise!Tick, Event!Promise!Admit, EventLimiter!Promise!Admit,
           Event!Promise!HasRoom, EventLimiter!Promise!HasRoom
  <2> QED
    BY <2>1, <2>2, PTL DEF Event!ImplementsQuota, EventLimiter!ImplementsQuota,
       Event!Promise!Spec, EventLimiter!Promise!Spec
<1>7. Triage!ImplementsQuota => TriageLimiter!ImplementsQuota
  <2>1. Triage!Promise!Init <=> TriageLimiter!Promise!Init
    BY DEF Triage!Promise!Init, TriageLimiter!Promise!Init
  <2>2. [Triage!Promise!Next]_(Triage!Promise!vars) => [TriageLimiter!Promise!Next]_(TriageLimiter!Promise!vars)
    BY DEF Triage!Promise!Next, TriageLimiter!Promise!Next, Triage!Promise!vars, TriageLimiter!Promise!vars,
           Triage!Promise!Tick, TriageLimiter!Promise!Tick, Triage!Promise!Admit, TriageLimiter!Promise!Admit,
           Triage!Promise!HasRoom, TriageLimiter!Promise!HasRoom
  <2> QED
    BY <2>1, <2>2, PTL DEF Triage!ImplementsQuota, TriageLimiter!ImplementsQuota,
       Triage!Promise!Spec, TriageLimiter!Promise!Spec
<1> QED
  BY <1>3, <1>4, <1>5, <1>6, <1>7, PTL DEF Quotas
=============================================================================
