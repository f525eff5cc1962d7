------------------------------- MODULE ArmReview -------------------------------
(***************************************************************************)
(* The review of an authorization and its commitment (engine.py,           *)
(* operations.py, qualification.py, authorization.py).  The operator reads *)
(* a review and sends it back later; the engine makes the review again,    *)
(* compares, and writes the run documents it had read for it.  Between the *)
(* second review and the transaction the HTTP thread stops everything or   *)
(* publishes limits, the watchdog raises an incident, and another process  *)
(* takes the workspace over.  What an authorized run then does is the      *)
(* subject of EntryAuthorization.                                          *)
(***************************************************************************)
EXTENDS Naturals, FiniteSets

CONSTANTS Runs, Contracts,
          Actions,      \* identifiers the browser gives its requests
          Setups        \* [family, contract, capacity, bounds]: the family of each run, its contract, how many runs
                        \* each version of the limits allows; bounds: [reviews, changes, trades,
                        \* incidents, stops, takeovers]

VARIABLES
  setup,      \* its families are "modern": reviewed paper stock, "legacy", and "flexible": scheduled sessions
  runs,       \* the run documents; a run is armed when its status is "authorized"
  created,    \* runs with an entry since their authorization
  position,   \* of each run: "flat", "working": an entry under way, or "held"
  published,  \* versions of the limits that are published
  qualified,  \* [smoke, accepted]: a whole trade was seen, and the operator accepted the expansion
  episodes,   \* the restriction of each scope: [revision, state]
  emergency,
  engine,     \* [instance, context, ready]: ready: connected, reconciled, with data, in the session
  owner,      \* the instance that owns the workspace
  actions,    \* the requests that were carried out, by their identifier
  page,       \* the review the browser shows
  op,         \* what the engine has read for a commitment that it has not made
  reviewed,   \* runs whose authorization has not been revoked since its review
  bounds
vars == <<setup, runs, created, position, published, qualified, episodes, emergency, engine, owner, actions, page, op, reviewed, bounds>>
store == <<setup, runs, created, position, published, qualified, episodes, emergency, owner, actions, reviewed>>

None == "none"
Idle == [kind |-> "idle"]
Nothing == [ids |-> {}]       \* no page, no request
Unstated == [version |-> 0]   \* a request without a fingerprint
Scopes == {"workspace"} \cup Contracts
Statuses == {"ready", "authorized", "temporarily_suspended", "revoked"}
Contract(r) == setup.contract[r]
Armed(r) == runs[r].status = "authorized"
Suspended(r) == runs[r].status = "temporarily_suspended"
Spend(b) == bounds[b] > 0 /\ bounds' = [bounds EXCEPT ![b] = @ - 1]

\* The restrictions that concern runs: those of their contracts and of the whole workspace.
Restricted == {s \in Scopes : episodes[s].state \in {"failing", "ready"}}
Applicable(ids) == Restricted \cap ({"workspace"} \cup {Contract(r) : r \in ids})
Recoveries(ids) == {<<s, episodes[s].revision>> : s \in Applicable(ids)}
Ready(ids) == \A s \in Applicable(ids) : episodes[s].state = "ready"

-----------------------------------------------------------------------------
(* The review.                                                             *)

\* Runs that take capacity beside the selected ones.  The review of scheduled sessions counts the
\* armed runs alone.
Active(ids, flexible) ==
  {r \in Runs \ ids : Armed(r) \/ (~flexible /\ (Suspended(r) \/ position[r] # "flat"))}
Family(ids, f) == \A r \in ids : setup.family[r] = f
\* A selection with a run of scheduled sessions is reviewed as they are.
Flexible(ids) == \E r \in ids : setup.family[r] = "flexible"
\* Runs of reviewed paper stock may share a contract.
DistinctSymbols(S, flexible) ==
  \A q, r \in S : q # r /\ Contract(q) = Contract(r) => ~flexible /\ Family({q, r}, "modern")
QualificationChecks(ids, version) ==
  Family(ids, "modern") \/ setup.capacity[version] = 1 \/ (qualified.smoke /\ qualified.accepted)
\* ready stands for what is checked of the connection, the funds, the build, the contract, its data and the
\* session.  A cancellation under way is not reconciled.
Readiness == engine.ready /\ ~emergency /\ \A r \in Runs : position[r] = "working" => Armed(r)
Checks(ids, version) ==
  LET all == ids \cup Active(ids, Flexible(ids))
  IN  /\ Readiness /\ QualificationChecks(ids, version)
      /\ \A r \in ids : ~Armed(r) /\ position[r] # "held"
      /\ DistinctSymbols(all, Flexible(ids)) /\ Cardinality(all) <= setup.capacity[version]
\* Scheduled sessions wait for every recovery, and are not authorized together with one.
Eligible(ids, version) == Checks(ids, version) /\ (IF Flexible(ids) THEN Restricted ELSE Applicable(ids)) = {}
EligibleAfterRecovery(ids, version) ==
  /\ Checks(ids, version) /\ Applicable(ids) # {} /\ Ready(ids) /\ ~Flexible(ids)
\* Reviewed paper stock is reviewed separately.
Selectable(ids) ==
  (Family(ids, "modern") \/ \A r \in ids : setup.family[r] # "modern") /\ \A r \in ids : ~runs[r].archived
Latest == published
ReviewFingerprint(ids, version) ==
  [instance |-> engine.instance, context |-> engine.context, version |-> version,
   recoveries |-> IF Flexible(ids) THEN {} ELSE Recoveries(ids),
   runs |-> [r \in ids |-> IF Flexible(ids) THEN runs[r] ELSE [entries |-> runs[r].entries]]]

\* The browser shows a review.
ArmPreview(ids, version) ==
  /\ op = Idle /\ Selectable(ids) /\ Spend("reviews")
  /\ page' = [ids |-> ids, version |-> version, recoveries |-> Recoveries(ids),
              fingerprint |-> ReviewFingerprint(ids, version)]
  /\ UNCHANGED <<store, engine, op>>

-----------------------------------------------------------------------------
(* The commitment.                                                         *)

\* What the browser may send from its page: reviewed paper stock with all that was reviewed, the
\* others with or without the fingerprint and the version.
Requests ==
  IF page = Nothing THEN {} ELSE
  {[ids |-> page.ids, version |-> v, acknowledged |-> acks, fingerprint |-> f, instance |-> page.fingerprint.instance] :
     v \in IF Family(page.ids, "modern") THEN {page.version} ELSE {page.version, 0},
     acks \in {{}, page.recoveries},
     f \in IF Family(page.ids, "modern") THEN {page.fingerprint} ELSE {page.fingerprint, Unstated}}
Version(request) == IF request.version = 0 THEN Latest ELSE request.version
Documents(ids) == [r \in ids |-> runs[r]]

\* arm up to its transaction.  A request that was carried out is only answered.
BeginArm(a, request) ==
  LET ids == request.ids
      version == Version(request)
  IN  /\ op = Idle /\ actions[a] = Nothing /\ Selectable(ids)
      /\ request.fingerprint \in {Unstated, ReviewFingerprint(ids, version)}
      /\ Family(ids, "modern") => request.instance = engine.instance
      /\ Eligible(ids, version) \/ (request.acknowledged # {} /\ EligibleAfterRecovery(ids, version))
      /\ op' = [kind |-> "arm", action |-> a, request |-> request, version |-> version, documents |-> Documents(ids)]
      /\ UNCHANGED <<store, engine, page, bounds>>

RecoveryOwner == owner = engine.instance
ValidateAcknowledgments(acks, ids, instance) ==
  engine.ready /\ instance = engine.instance /\ acks = Recoveries(ids) /\ Ready(ids)
Committable ==
  LET request == op.request
      ids == request.ids
  IN  /\ RecoveryOwner /\ request.instance = engine.instance
      /\ IF request.acknowledged # {}
         THEN ValidateAcknowledgments(request.acknowledged, ids, request.instance)
         ELSE Applicable(ids) = {}
      /\ ~emergency
Authorized(document, sameDay) ==
  [status |-> "authorized", entries |-> IF sameDay THEN document.entries ELSE 0, archived |-> document.archived, limits |-> op.version,
   authorization |-> op.action, instance |-> engine.instance, context |-> engine.context]
Released(acks) ==
  [s \in Scopes |-> IF \E x \in acks : x[1] = s THEN [revision |-> episodes[s].revision + 1, state |-> "released"] ELSE episodes[s]]
\* The runs that may keep the count of their entries when they were last authorized on the same day:
\* those of reviewed paper stock start from none.
Counted == {r \in Runs : setup.family[r] # "modern"}
\* The transaction writes the documents as they were read.
CommitArm ==
  /\ op.kind = "arm"
  /\ IF Committable
     THEN /\ \E sameDay \in SUBSET Counted :
               runs' = [r \in Runs |-> IF r \in op.request.ids THEN Authorized(op.documents[r], r \in sameDay) ELSE runs[r]]
          /\ episodes' = Released(op.request.acknowledged)
          /\ actions' = [actions EXCEPT ![op.action] = op.request]
          /\ created' = created \ op.request.ids /\ reviewed' = reviewed \cup op.request.ids
     ELSE UNCHANGED <<runs, episodes, actions, created, reviewed>>
  /\ op' = Idle
  /\ UNCHANGED <<setup, position, published, qualified, emergency, engine, owner, page, bounds>>

-----------------------------------------------------------------------------
(* The resumption of a suspended authorization.                            *)

Revoke(S) == [r \in Runs |-> IF r \in S THEN [runs[r] EXCEPT !.status = "revoked"] ELSE runs[r]]
Disarmed(S) == runs' = Revoke(S) /\ reviewed' = reviewed \ S
\* A suspended run of another instance or context, or with an order of its authorization, is disarmed.
Resumable(r) == runs[r].instance = engine.instance /\ runs[r].context = engine.context /\ r \notin created
BeginResume(r) ==
  /\ op = Idle /\ Suspended(r) /\ setup.family[r] = "modern" /\ Resumable(r)
  /\ Selectable({r}) /\ Eligible({r}, runs[r].limits)
  /\ op' = [kind |-> "resume", run |-> r]
  /\ UNCHANGED <<store, engine, page, bounds>>
RefuseResume(r) ==
  /\ op = Idle /\ Suspended(r) /\ ~Resumable(r) /\ Disarmed({r})
  /\ UNCHANGED <<setup, created, position, published, qualified, episodes, emergency, owner, actions, engine, page, op, bounds>>
\* The transaction reads the run again.
CommitResume ==
  /\ op.kind = "resume" /\ op' = Idle
  /\ IF Suspended(op.run) /\ RecoveryOwner /\ Applicable({op.run}) = {} /\ ~emergency
     THEN runs' = [runs EXCEPT ![op.run].status = "authorized"]
     ELSE UNCHANGED runs
  /\ UNCHANGED <<setup, created, position, published, qualified, episodes, emergency, owner, actions, reviewed, engine, page, bounds>>

-----------------------------------------------------------------------------
(* Everybody else.                                                         *)

\* The HTTP thread stops in the store, before the engine hears of it; the engine clears.
SetEmergency ==
  /\ ~emergency /\ Spend("stops") /\ emergency' = TRUE /\ Disarmed(Runs)
  /\ UNCHANGED <<setup, created, position, published, qualified, episodes, owner, actions, engine, page, op>>
ClearEmergency ==
  /\ op = Idle /\ emergency /\ emergency' = FALSE
  /\ UNCHANGED <<setup, runs, created, position, published, qualified, episodes, owner, actions, reviewed, engine, page, op, bounds>>

\* An incident takes the authorization of the runs it concerns, and suspends it when the failure is
\* routine and the run was armed under the policy of resumption; a run whose entry is under way is
\* concerned although it had been revoked.
Affected(s) == {r \in Runs : s \in {"workspace", Contract(r)} /\ (Armed(r) \/ Suspended(r) \/ position[r] = "working")}
ResumableFailure(r, routine) == routine /\ setup.family[r] = "modern" /\ runs[r].instance = owner
RaiseIn(s, routine) ==
  /\ episodes' = [episodes EXCEPT ![s] = [revision |-> @.revision + 1, state |-> "failing"]]
  /\ runs' = [r \in Runs |-> IF r \notin Affected(s) THEN runs[r]
                ELSE [runs[r] EXCEPT !.status = IF ResumableFailure(r, routine) THEN "temporarily_suspended" ELSE "revoked"]]
  /\ reviewed' = reviewed \ {r \in Affected(s) : ~ResumableFailure(r, routine)}
Incident(s, routine) ==
  /\ s = "workspace" \/ op = Idle
  /\ Spend("incidents") /\ RaiseIn(s, routine)
  /\ UNCHANGED <<setup, created, position, published, qualified, emergency, owner, actions, engine, page, op>>
\* The evidence of recovery, and the release of what recovers by itself.
Recover(s) ==
  /\ op = Idle /\ engine.ready /\ RecoveryOwner
  /\ \E next \in {"ready", "released"} :
       /\ episodes[s].state = (IF next = "ready" THEN "failing" ELSE "ready")
       /\ episodes' = [episodes EXCEPT ![s] = [revision |-> @.revision + 1, state |-> next]]
  /\ UNCHANGED <<setup, runs, created, position, published, qualified, emergency, owner, actions, reviewed, engine, page, op, bounds>>

\* disarm: by the operator, at the end of the session, or by a guard.
Disarm(r) ==
  /\ op = Idle /\ (Armed(r) \/ Suspended(r)) /\ Spend("changes") /\ Disarmed({r})
  /\ UNCHANGED <<setup, created, position, published, qualified, episodes, emergency, owner, actions, engine, page, op>>

\* What an armed run does, and what the broker reports of it.
Entry(r) ==
  /\ op = Idle /\ Armed(r) /\ position[r] = "flat" /\ Readiness /\ Applicable({r}) = {} /\ Spend("trades")
  /\ position' = [position EXCEPT ![r] = "working"] /\ created' = created \cup {r}
  /\ runs' = [runs EXCEPT ![r].entries = @ + 1]
  /\ UNCHANGED <<setup, published, qualified, episodes, emergency, owner, actions, reviewed, engine, page, op>>
EntryEnds(r) ==
  /\ op = Idle /\ position[r] = "working" /\ \E p \in {"flat", "held"} : position' = [position EXCEPT ![r] = p]
  /\ UNCHANGED <<setup, runs, created, published, qualified, episodes, emergency, owner, actions, reviewed, engine, page, op, bounds>>
\* A position that a reconciliation saw protected, and that is sold again, is the evidence of a whole trade.
TradeCloses(r) ==
  /\ op = Idle /\ position[r] = "held" /\ position' = [position EXCEPT ![r] = "flat"]
  /\ \E protected \in BOOLEAN : qualified' = [qualified EXCEPT !.smoke = @ \/ protected]
  /\ UNCHANGED <<setup, runs, created, published, episodes, emergency, owner, actions, reviewed, engine, page, op, bounds>>

\* The HTTP thread: accept_review and save_profile.
AcceptReview ==
  /\ qualified.smoke /\ ~qualified.accepted /\ qualified' = [qualified EXCEPT !.accepted = TRUE]
  /\ UNCHANGED <<setup, runs, created, position, published, episodes, emergency, owner, actions, reviewed, engine, page, op, bounds>>
SaveProfile ==
  /\ published < Cardinality(DOMAIN setup.capacity) /\ published' = published + 1
  /\ UNCHANGED <<setup, runs, created, position, qualified, episodes, emergency, owner, actions, reviewed, engine, page, op, bounds>>

\* A run that is not armed and has no work is archived, and restored by late news of its orders.
Archive(r) ==
  /\ op = Idle /\ (runs[r].archived \/ (~Armed(r) /\ ~Suspended(r) /\ position[r] = "flat")) /\ Spend("changes")
  /\ runs' = [runs EXCEPT ![r].archived = ~@]
  /\ UNCHANGED <<setup, created, position, published, qualified, episodes, emergency, owner, actions, reviewed, engine, page, op>>

\* The login of the Gateway changed: nothing that was reviewed counts any more.
InvalidateAuthorizations ==
  /\ op = Idle /\ Spend("stops") /\ engine' = [engine EXCEPT !.context = @ + 1] /\ Disarmed(Runs)
  /\ UNCHANGED <<setup, created, position, published, qualified, episodes, emergency, owner, actions, page, op>>
Conditions ==
  /\ op = Idle /\ Spend("changes") /\ engine' = [engine EXCEPT !.ready = ~@]
  /\ UNCHANGED <<store, page, op>>
\* Another process takes the workspace and disarms; later the first one ends.
Takeover ==
  /\ owner = engine.instance /\ Spend("takeovers") /\ owner' = owner + 1 /\ Disarmed(Runs)
  /\ UNCHANGED <<setup, created, position, published, qualified, episodes, emergency, actions, engine, page, op>>
ProcessEnds ==
  /\ owner # engine.instance /\ op' = Idle
  /\ engine' = [instance |-> owner, context |-> engine.context + 1, ready |-> FALSE]
  /\ UNCHANGED <<store, page, bounds>>

Init ==
  /\ setup \in Setups /\ bounds = setup.bounds
  /\ runs = [r \in Runs |-> [status |-> "ready", entries |-> 0, archived |-> FALSE, limits |-> 0, authorization |-> None,
                             instance |-> 0, context |-> 0]]
  /\ created = {} /\ position = [r \in Runs |-> "flat"] /\ published = 1
  /\ qualified = [smoke |-> FALSE, accepted |-> FALSE]
  /\ episodes = [s \in Scopes |-> [revision |-> 0, state |-> "none"]] /\ emergency = FALSE
  /\ engine = [instance |-> 1, context |-> 1, ready |-> TRUE] /\ owner = 1
  /\ actions = [a \in Actions |-> Nothing] /\ page = Nothing /\ op = Idle /\ reviewed = {}
Next ==
  \/ \E ids \in SUBSET Runs \ {{}}, v \in 1..published : ArmPreview(ids, v)
  \/ \E a \in Actions, request \in Requests : BeginArm(a, request)
  \/ CommitArm \/ CommitResume \/ SetEmergency \/ ClearEmergency \/ AcceptReview \/ SaveProfile
  \/ InvalidateAuthorizations \/ Conditions \/ Takeover \/ ProcessEnds
  \/ \E s \in Scopes : Recover(s) \/ \E routine \in BOOLEAN : Incident(s, routine)
  \/ \E r \in Runs : BeginResume(r) \/ RefuseResume(r) \/ Disarm(r) \/ Entry(r) \/ EntryEnds(r) \/ TradeCloses(r) \/ Archive(r)
Spec == Init /\ [][Next]_vars

-----------------------------------------------------------------------------
(* Properties.                                                             *)

TypeOK ==
  /\ published \in 1..Cardinality(DOMAIN setup.capacity) /\ emergency \in BOOLEAN /\ created \subseteq Runs
  /\ reviewed \subseteq Runs /\ owner \in engine.instance..engine.instance + 1
  /\ \A r \in Runs : runs[r].status \in Statuses /\ position[r] \in {"flat", "working", "held"}

\* The runs that are armed are within the limits of one of them, and share no contract unless their
\* policy provides for it, whatever was published, suspended and resumed between their reviews.
WithinProfile ==
  LET armed == {r \in Runs : Armed(r)} IN
  /\ armed # {} => \E r \in armed : Cardinality(armed) <= setup.capacity[runs[r].limits]
  /\ \A q, r \in armed : q # r /\ Contract(q) = Contract(r) => Family({q, r}, "modern")

\* The authorization of a run, also a suspended one, is that of an action that was carried out, for this
\* run and with these limits.
ActionIsRecorded ==
  \A r \in Runs : Armed(r) \/ Suspended(r) =>
    LET a == runs[r].authorization IN
    a \in Actions /\ r \in actions[a].ids /\ actions[a].version \in {0, runs[r].limits}

\* A run is armed once by an action, as the operator saw it: with the limits, the entries, the instance,
\* the login and the very incidents of the page; nothing is left that restricts it, an archived
\* run stays in the archive, and an engine that lost the workspace arms nothing.
ArmedAsReviewed ==
  \A r \in Runs : Armed(r)' /\ ~Armed(r) /\ op.kind = "arm" =>
    LET f == op.request.fingerprint IN
    /\ owner = engine.instance /\ ~emergency /\ Applicable({r})' = {} /\ actions[op.action] = Nothing
    /\ runs'[r].archived = runs[r].archived /\ ~runs[r].archived
    /\ {s \in Scopes : episodes'[s] # episodes[s]} = {s \in Scopes : <<s, episodes[s].revision>> \in op.request.acknowledged}
    /\ f # Unstated => /\ f.version = runs'[r].limits /\ f.runs[r].entries = runs[r].entries
                   /\ f.instance = owner /\ f.context = engine.context

\* Without a review a run is armed only if its authorization was suspended and never revoked since the
\* review, by the engine and under the login it was given to, and no order was made under it.
ResumedAsReviewed ==
  \A r \in Runs : Armed(r)' /\ ~Armed(r) /\ op.kind = "resume" =>
    /\ r \in reviewed \ created /\ runs[r].instance = owner /\ runs[r].context = engine.context
    /\ Applicable({r}) = {} /\ ~emergency

\* More than one run is authorized only after a whole trade and the operator's acceptance of it.
ExpandedOnEvidence ==
  \A r \in Runs : Armed(r) /\ setup.family[r] # "modern" /\ setup.capacity[runs[r].limits] > 1 =>
    qualified.smoke /\ qualified.accepted
=============================================================================
