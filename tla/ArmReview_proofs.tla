--------------------------- MODULE ArmReview_proofs ---------------------------
(* Proofs about ArmReview for any runs, contracts, actions and bounds.     *)
EXTENDS ArmReview, FiniteSetTheorems, TLAPS

-----------------------------------------------------------------------------
(* The inductive invariant.                                                *)

Document ==
  [status : Statuses, entries : Nat, archived : BOOLEAN, limits : Nat, authorization : Actions \cup {None},
   instance : Nat, context : Nat]
Positions == {"flat", "working", "held"}
Episode == [revision : Nat, state : {"none", "failing", "ready", "released"}]
OpTyped ==
  \/ op = Idle
  \/ /\ op.kind = "arm" /\ op.action \in Actions /\ op.request.ids \in SUBSET Runs /\ op.version \in Nat
     /\ op.documents \in [op.request.ids -> Document]
  \/ op.kind = "resume" /\ op.run \in Runs
Typed ==
  /\ runs \in [Runs -> Document] /\ position \in [Runs -> Positions] /\ episodes \in [Scopes -> Episode]
  /\ created \in SUBSET Runs /\ reviewed \in SUBSET Runs
  /\ engine \in [instance : Nat, context : Nat, ready : BOOLEAN] /\ owner \in Nat
  /\ published \in Nat /\ emergency \in BOOLEAN /\ qualified \in [smoke : BOOLEAN, accepted : BOOLEAN]
  /\ actions = [a \in Actions |-> actions[a]]
  /\ page.ids \in SUBSET Runs /\ (page # Nothing => page.version \in Nat)
  /\ OpTyped

\* Every authorization in force is that of a recorded action; also one that was revoked while its
\* entry is under way, because an incident may suspend it.
Recorded(r) ==
  /\ runs[r].authorization \in Actions /\ r \in actions[runs[r].authorization].ids
  /\ actions[runs[r].authorization].version \in {0, runs[r].limits}
RecordedInv == \A r \in Runs : Armed(r) \/ Suspended(r) \/ position[r] = "working" => Recorded(r)

\* A suspension of what had been revoked is of a run with an order.
ReviewedInv ==
  \A r \in Runs : /\ position[r] = "working" => r \in created
                  /\ Armed(r) => r \in reviewed
                  /\ Suspended(r) => r \in reviewed \cup created

\* What the engine read for a commitment still holds of the fields that nobody else writes.
Read(r) ==
  /\ position[r] = "flat" /\ ~runs[r].archived
  /\ op.documents[r].archived = runs[r].archived /\ op.documents[r].entries = runs[r].entries
AsShown(r) ==
  LET f == op.request.fingerprint IN
  f # Unstated => /\ f.version = op.version /\ f.runs[r].entries = runs[r].entries
                  /\ f.instance = engine.instance /\ f.context = engine.context
Expandable(r, version) ==
  setup.family[r] # "modern" /\ setup.capacity[version] > 1 => qualified.smoke /\ qualified.accepted
ArmInv ==
  op.kind = "arm" =>
    /\ actions[op.action] = Nothing /\ op.request.version \in {0, op.version}
    /\ \A r \in op.request.ids : Read(r) /\ AsShown(r) /\ Expandable(r, op.version)
ResumeInv == op.kind = "resume" => Resumable(op.run) /\ setup.family[op.run] = "modern"

Inv == Typed /\ RecordedInv /\ ReviewedInv /\ ArmInv /\ ResumeInv /\ ExpandedOnEvidence

-----------------------------------------------------------------------------
(* Steps that only take authorizations away.                               *)

Kept(r) ==
  /\ runs'[r].entries = runs[r].entries /\ runs'[r].archived = runs[r].archived /\ runs'[r].limits = runs[r].limits
  /\ runs'[r].authorization = runs[r].authorization
  /\ runs'[r].instance = runs[r].instance /\ runs'[r].context = runs[r].context
Weaker(r) ==
  /\ Kept(r) /\ (Armed(r)' => Armed(r)) /\ (Suspended(r)' => Suspended(r) \/ Armed(r) \/ position[r] = "working")
  /\ r \in reviewed => r \in reviewed' \/ (~Armed(r)' /\ ~Suspended(r)')
Weakens ==
  /\ \A r \in Runs : Weaker(r)
  /\ op' = Idle \/ (op' = op /\ engine' = engine)
  /\ setup' = setup /\ position' = position /\ created' = created /\ actions' = actions
  /\ qualified.smoke => qualified'.smoke
  /\ qualified.accepted => qualified'.accepted

LEMMA Revokes ==
  ASSUME Typed, NEW S, runs' = Revoke(S), reviewed' = reviewed \ S
  PROVE  runs' \in [Runs -> Document] /\ reviewed' \in SUBSET Runs /\ \A r \in Runs : Weaker(r)
<1>1. ASSUME NEW r \in Runs PROVE runs'[r] = IF r \in S THEN [runs[r] EXCEPT !.status = "revoked"] ELSE runs[r]
  BY DEF Revoke
<1>2. ASSUME NEW r \in Runs PROVE runs[r] \in Document
  BY DEF Typed
<1>3. ASSUME NEW r \in Runs PROVE runs'[r] \in Document /\ Weaker(r)
  BY <1>1, <1>2, <1>3 DEF Document, Statuses, Weaker, Kept, Armed, Suspended
<1>4. runs' = [r \in Runs |-> runs'[r]]
  BY DEF Revoke
<1> QED BY <1>3, <1>4 DEF Typed

LEMMA Raises ==
  ASSUME Typed, NEW s \in Scopes, NEW routine \in BOOLEAN, RaiseIn(s, routine)
  PROVE  /\ runs' \in [Runs -> Document] /\ reviewed' \in SUBSET Runs /\ episodes' \in [Scopes -> Episode]
         /\ \A r \in Runs : Weaker(r)
<1>1. ASSUME NEW r \in Runs
      PROVE  runs'[r] = IF r \notin Affected(s) THEN runs[r]
                        ELSE [runs[r] EXCEPT !.status = IF ResumableFailure(r, routine) THEN "temporarily_suspended" ELSE "revoked"]
  BY DEF RaiseIn
<1>2. ASSUME NEW r \in Runs PROVE runs[r] \in Document
  BY DEF Typed
<1>3. ASSUME NEW r \in Runs PROVE runs'[r] \in Document /\ Kept(r)
  BY <1>1, <1>2, <1>3 DEF Document, Statuses, Kept
<1>4. ASSUME NEW r \in Runs PROVE Weaker(r)
  <2>1. CASE r \notin Affected(s)
    BY <1>1, <1>3, <2>1 DEF RaiseIn, Weaker, Armed, Suspended
  <2>2. CASE r \in Affected(s) /\ ResumableFailure(r, routine)
    <3>1. runs'[r].status = "temporarily_suspended"
      BY <1>1, <1>2, <2>2 DEF Document
    <3> QED BY <1>3, <2>2, <3>1 DEF RaiseIn, Weaker, Armed, Suspended, Affected
  <2>3. CASE r \in Affected(s) /\ ~ResumableFailure(r, routine)
    <3>1. runs'[r].status = "revoked"
      BY <1>1, <1>2, <2>3 DEF Document
    <3> QED BY <1>3, <2>3, <3>1 DEF Weaker, Armed, Suspended
  <2> QED BY <2>1, <2>2, <2>3
<1>5. runs' = [r \in Runs |-> runs'[r]]
  BY DEF RaiseIn
<1>6. episodes' \in [Scopes -> Episode]
  BY DEF RaiseIn, Typed, Episode
<1> QED BY <1>3, <1>4, <1>5, <1>6 DEF RaiseIn, Typed

LEMMA WeakensKeeps ==
  ASSUME Typed, RecordedInv, ReviewedInv, ArmInv, ResumeInv, ExpandedOnEvidence, Weakens, Typed'
  PROVE  RecordedInv' /\ ReviewedInv' /\ ArmInv' /\ ResumeInv' /\ ExpandedOnEvidence'
<1>1. RecordedInv'
  BY DEF RecordedInv, Recorded, Weakens, Weaker, Kept
<1>2. ReviewedInv'
  BY DEF ReviewedInv, Weakens, Weaker
<1>3. ArmInv'
  <2>1. CASE op' = Idle
    BY <2>1 DEF ArmInv, Idle
  <2>2. CASE op' = op /\ engine' = engine /\ op.kind = "arm"
    <3>1. op.request.ids \subseteq Runs
      BY <2>2 DEF Typed, OpTyped, Idle
    <3>2. ASSUME NEW r \in op.request.ids PROVE (Read(r) /\ AsShown(r) /\ Expandable(r, op.version))'
      <4>1. Read(r) /\ AsShown(r) /\ Expandable(r, op.version) /\ Kept(r)
        BY <2>2, <3>1 DEF ArmInv, Weakens, Weaker
      <4>2. Read(r)'
        BY <2>2, <4>1 DEF Read, Kept, Weakens
      <4>3. AsShown(r)'
        BY <2>2, <4>1 DEF AsShown, Kept, Weakens
      <4>4. Expandable(r, op.version)'
        BY <2>2, <4>1 DEF Expandable, Weakens
      <4> QED BY <4>2, <4>3, <4>4
    <3> QED BY <2>2, <3>2 DEF ArmInv, Weakens
  <2>3. CASE op' = op /\ op.kind # "arm"
    BY <2>3 DEF ArmInv
  <2> QED BY <2>1, <2>2, <2>3 DEF Weakens
<1>4. ResumeInv'
  <2>1. CASE op' = Idle
    BY <2>1 DEF ResumeInv, Idle
  <2>2. CASE op' = op /\ engine' = engine /\ op.kind = "resume"
    BY <2>2 DEF ResumeInv, Resumable, Weakens, Weaker, Kept, Typed, OpTyped, Idle
  <2>3. CASE op' = op /\ op.kind # "resume"
    BY <2>3 DEF ResumeInv
  <2> QED BY <2>1, <2>2, <2>3 DEF Weakens
<1>5. ExpandedOnEvidence'
  BY DEF ExpandedOnEvidence, Weakens, Weaker, Kept
<1> QED BY <1>1, <1>2, <1>3, <1>4, <1>5

-----------------------------------------------------------------------------
(* Types.                                                                  *)

LEMMA RequestTyped ==
  ASSUME Typed, NEW request \in Requests
  PROVE  /\ request.ids \in SUBSET Runs /\ request.version \in Nat
         /\ Version(request) \in Nat /\ request.version \in {0, Version(request)}
<1>1. page # Nothing
  BY DEF Requests
<1>2. request.ids = page.ids /\ request.version \in {page.version, 0}
  <2>1. PICK v \in IF Family(page.ids, "modern") THEN {page.version} ELSE {page.version, 0},
             acks \in {{}, page.recoveries},
             f \in IF Family(page.ids, "modern") THEN {page.fingerprint} ELSE {page.fingerprint, Unstated} :
          request = [ids |-> page.ids, version |-> v, acknowledged |-> acks, fingerprint |-> f,
                     instance |-> page.fingerprint.instance]
    BY <1>1, SMT DEF Requests
  <2> QED BY <2>1
<1> QED BY <1>1, <1>2 DEF Typed, Version, Latest

\* The steps that leave the store and what the engine read alone but for the parts named.
LEMMA OthersTyped ==
  ASSUME Typed,
         \/ \E ids \in SUBSET Runs \ {{}}, v \in 1..published : ArmPreview(ids, v)
         \/ \E s \in Scopes : Recover(s)
         \/ ClearEmergency \/ AcceptReview \/ SaveProfile \/ Conditions \/ ProcessEnds
         \/ UNCHANGED vars
  PROVE  Typed' /\ Weakens
<1> USE DEF Weakens, Weaker, Kept, Armed, Suspended, Typed, OpTyped, store
<1>1. CASE \E ids \in SUBSET Runs \ {{}}, v \in 1..published : ArmPreview(ids, v)
  <2>1. PICK ids \in SUBSET Runs \ {{}}, v \in 1..published : ArmPreview(ids, v)
    BY <1>1
  <2>2. page'.ids = ids /\ page'.version = v /\ v \in Nat
    BY <2>1 DEF ArmPreview
  <2> QED BY <2>1, <2>2 DEF ArmPreview
<1>2. CASE \E s \in Scopes : Recover(s)
  <2>1. PICK s \in Scopes : Recover(s)
    BY <1>2
  <2>2. PICK next \in {"ready", "released"} : episodes' = [episodes EXCEPT ![s] = [revision |-> @.revision + 1, state |-> next]]
    BY <2>1 DEF Recover
  <2>3. episodes' \in [Scopes -> Episode]
    BY <2>2 DEF Episode
  <2> QED BY <2>1, <2>3 DEF Recover
<1>3. CASE ClearEmergency
  BY <1>3 DEF ClearEmergency
<1>4. CASE AcceptReview
  <2>1. qualified' \in [smoke : BOOLEAN, accepted : BOOLEAN] /\ qualified'.smoke = qualified.smoke /\ qualified'.accepted
    BY <1>4 DEF AcceptReview
  <2> QED BY <1>4, <2>1 DEF AcceptReview
<1>5. CASE SaveProfile
  BY <1>5 DEF SaveProfile
<1>6. CASE Conditions
  <2>1. engine' \in [instance : Nat, context : Nat, ready : BOOLEAN]
    BY <1>6 DEF Conditions
  <2> QED BY <1>6, <2>1 DEF Conditions
<1>7. CASE ProcessEnds
  BY <1>7 DEF ProcessEnds
<1>8. CASE UNCHANGED vars
  BY <1>8 DEF vars
<1> QED BY <1>1, <1>2, <1>3, <1>4, <1>5, <1>6, <1>7, <1>8

\* The steps that take authorizations away.
LEMMA RevocationsTyped ==
  ASSUME Typed,
         \/ SetEmergency \/ InvalidateAuthorizations \/ Takeover
         \/ \E s \in Scopes, routine \in BOOLEAN : Incident(s, routine)
         \/ \E r \in Runs : RefuseResume(r) \/ Disarm(r)
  PROVE  Typed' /\ Weakens
<1>1. CASE SetEmergency
  <2>1. runs' \in [Runs -> Document] /\ reviewed' \in SUBSET Runs /\ \A r \in Runs : Weaker(r)
    BY <1>1, Revokes DEF SetEmergency, Disarmed
  <2> QED BY <1>1, <2>1 DEF SetEmergency, Weakens, Typed, OpTyped
<1>2. CASE InvalidateAuthorizations
  <2>1. runs' \in [Runs -> Document] /\ reviewed' \in SUBSET Runs /\ \A r \in Runs : Weaker(r)
    BY <1>2, Revokes DEF InvalidateAuthorizations, Disarmed
  <2>2. engine' \in [instance : Nat, context : Nat, ready : BOOLEAN]
    BY <1>2 DEF InvalidateAuthorizations, Typed
  <2> QED BY <1>2, <2>1, <2>2 DEF InvalidateAuthorizations, Weakens, Typed, OpTyped
<1>3. CASE Takeover
  <2>1. runs' \in [Runs -> Document] /\ reviewed' \in SUBSET Runs /\ \A r \in Runs : Weaker(r)
    BY <1>3, Revokes DEF Takeover, Disarmed
  <2> QED BY <1>3, <2>1 DEF Takeover, Weakens, Typed, OpTyped
<1>4. CASE \E s \in Scopes, routine \in BOOLEAN : Incident(s, routine)
  <2>1. PICK s \in Scopes, routine \in BOOLEAN : Incident(s, routine)
    BY <1>4
  <2>2. /\ runs' \in [Runs -> Document] /\ reviewed' \in SUBSET Runs /\ episodes' \in [Scopes -> Episode]
        /\ \A r \in Runs : Weaker(r)
    BY <2>1, Raises DEF Incident
  <2> QED BY <2>1, <2>2 DEF Incident, Weakens, Typed, OpTyped
<1>5. CASE \E r \in Runs : RefuseResume(r)
  <2>1. PICK r \in Runs : RefuseResume(r)
    BY <1>5
  <2>2. runs' \in [Runs -> Document] /\ reviewed' \in SUBSET Runs /\ \A q \in Runs : Weaker(q)
    BY <2>1, Revokes DEF RefuseResume, Disarmed
  <2> QED BY <2>1, <2>2 DEF RefuseResume, Weakens, Typed, OpTyped
<1>6. CASE \E r \in Runs : Disarm(r)
  <2>1. PICK r \in Runs : Disarm(r)
    BY <1>6
  <2>2. runs' \in [Runs -> Document] /\ reviewed' \in SUBSET Runs /\ \A q \in Runs : Weaker(q)
    BY <2>1, Revokes DEF Disarm, Disarmed
  <2> QED BY <2>1, <2>2 DEF Disarm, Weakens, Typed, OpTyped
<1> QED BY <1>1, <1>2, <1>3, <1>4, <1>5, <1>6

-----------------------------------------------------------------------------
(* Steps of the commitment.                                                *)

\* What a review that allows its runs says of them.
Fit(ids, version) ==
  \A r \in ids : ~Armed(r) /\ position[r] = "flat" /\ ~runs[r].archived /\ Expandable(r, version)
LEMMA ReviewedRunsFit ==
  ASSUME Typed, NEW ids \in SUBSET Runs, NEW version, Selectable(ids), Checks(ids, version)
  PROVE  Fit(ids, version)
<1> SUFFICES ASSUME NEW r \in ids
             PROVE  ~Armed(r) /\ position[r] = "flat" /\ ~runs[r].archived /\ Expandable(r, version)
  BY DEF Fit
<1>1. ~Armed(r) /\ position[r] # "held" /\ ~runs[r].archived /\ QualificationChecks(ids, version) /\ Readiness
  BY DEF Checks, Selectable
<1>2. position[r] = "flat"
  BY <1>1 DEF Readiness, Typed, Positions
<1>3. Expandable(r, version)
  <2>1. CASE Family(ids, "modern")
    BY <2>1 DEF Family, Expandable
  <2>2. CASE setup.capacity[version] = 1
    BY <2>2 DEF Expandable
  <2>3. CASE qualified.smoke /\ qualified.accepted
    BY <2>3 DEF Expandable
  <2> QED BY <1>1, <2>1, <2>2, <2>3 DEF QualificationChecks
<1> QED BY <1>1, <1>2, <1>3

LEMMA BeginArmKeeps ==
  ASSUME Inv, NEW a \in Actions, NEW request \in Requests, BeginArm(a, request)
  PROVE  Inv'
<1> DEFINE ids == request.ids
<1>0. PICK version \in Nat : version = Version(request) /\ request.version \in {0, version}
  BY RequestTyped DEF Inv
<1>1. Typed /\ ids \in SUBSET Runs
  BY RequestTyped DEF Inv
<1>2. /\ op' = [kind |-> "arm", action |-> a, request |-> request, version |-> version, documents |-> Documents(ids)]
      /\ UNCHANGED <<store, engine, page, bounds>> /\ actions[a] = Nothing /\ Selectable(ids)
      /\ request.fingerprint \in {Unstated, ReviewFingerprint(ids, version)} /\ Checks(ids, version)
  BY <1>0 DEF BeginArm, Eligible, EligibleAfterRecovery
<1>3. Typed'
  BY <1>0, <1>1, <1>2 DEF Typed, OpTyped, store, Documents
<1>4. RecordedInv' /\ ReviewedInv' /\ ExpandedOnEvidence' /\ ResumeInv'
  BY <1>2 DEF Inv, RecordedInv, Recorded, ReviewedInv, ExpandedOnEvidence, ResumeInv, store, Armed, Suspended
<1>5. ArmInv'
  <2>1. Fit(ids, version)
    BY <1>1, <1>2, ReviewedRunsFit
  <2>2. ASSUME NEW r \in ids PROVE Read(r)' /\ AsShown(r)' /\ Expandable(r, version)'
    <3>1. Read(r)'
      BY <1>1, <1>2, <2>1 DEF Fit, Read, Documents, store
    <3>2. Expandable(r, version)'
      BY <1>2, <2>1 DEF Fit, Expandable, store
    <3>3. AsShown(r)'
      <4>1. CASE request.fingerprint = Unstated
        BY <1>2, <4>1 DEF AsShown
      <4>2. CASE request.fingerprint = ReviewFingerprint(ids, version)
        <5>1. /\ request.fingerprint.version = version /\ request.fingerprint.runs[r].entries = runs[r].entries
              /\ request.fingerprint.instance = engine.instance /\ request.fingerprint.context = engine.context
          BY <4>2 DEF ReviewFingerprint
        <5> HIDE DEF ids
        <5> QED BY <1>2, <5>1 DEF AsShown, store
      <4> QED BY <1>2, <4>1, <4>2
    <3> QED BY <3>1, <3>2, <3>3
  <2>3. op'.request.ids = ids /\ op'.version = version /\ op'.action = a /\ actions' = actions /\ op'.request = request
    BY <1>2 DEF store
  <2> HIDE DEF ids
  <2> QED BY <1>0, <1>2, <2>2, <2>3 DEF ArmInv
<1> QED BY <1>3, <1>4, <1>5 DEF Inv

\* The documents and the records of a commitment that is carried out.
Committed ==
  /\ op.kind = "arm" /\ Committable /\ op' = Idle
  /\ \E sameDay \in SUBSET Counted :
       runs' = [r \in Runs |-> IF r \in op.request.ids THEN Authorized(op.documents[r], r \in sameDay) ELSE runs[r]]
  /\ episodes' = Released(op.request.acknowledged)
  /\ actions' = [actions EXCEPT ![op.action] = op.request]
  /\ created' = created \ op.request.ids /\ reviewed' = reviewed \cup op.request.ids
  /\ UNCHANGED <<setup, position, published, qualified, emergency, engine, owner, page, bounds>>
NewlyArmed(r) ==
  /\ runs'[r].status = "authorized" /\ runs'[r].limits = op.version /\ runs'[r].authorization = op.action
  /\ runs'[r].archived = op.documents[r].archived
LEMMA AuthorizedIsDocument ==
  ASSUME NEW d \in Document, NEW b \in BOOLEAN, op.version \in Nat, op.action \in Actions, engine.instance \in Nat,
         engine.context \in Nat
  PROVE  /\ Authorized(d, b) \in Document /\ Authorized(d, b).status = "authorized" /\ Authorized(d, b).limits = op.version
         /\ Authorized(d, b).authorization = op.action /\ Authorized(d, b).archived = d.archived
<1>1. d.archived \in BOOLEAN /\ (IF b THEN d.entries ELSE 0) \in Nat
  BY DEF Document
<1> QED BY <1>1 DEF Authorized, Document, Statuses
LEMMA CommittedRuns ==
  ASSUME Typed, Committed
  PROVE  /\ op.request.ids \in SUBSET Runs /\ op.action \in Actions /\ runs' \in [Runs -> Document]
         /\ \A r \in op.request.ids : NewlyArmed(r)
         /\ \A r \in Runs \ op.request.ids : runs'[r] = runs[r]
<1>1. /\ op.request.ids \in SUBSET Runs /\ op.action \in Actions /\ op.version \in Nat
      /\ op.documents \in [op.request.ids -> Document]
  BY DEF Typed, OpTyped, Idle, Committed
<1>0. PICK sameDay \in SUBSET Counted :
        runs' = [r \in Runs |-> IF r \in op.request.ids THEN Authorized(op.documents[r], r \in sameDay) ELSE runs[r]]
  BY DEF Committed
<1>2. ASSUME NEW r \in op.request.ids PROVE runs'[r] \in Document /\ NewlyArmed(r)
  <2> DEFINE b == r \in sameDay
             d == op.documents[r]
  <2>1. runs'[r] = Authorized(d, b)
    BY <1>0, <1>1
  <2>2. d \in Document /\ engine.instance \in Nat /\ engine.context \in Nat
    BY <1>1 DEF Typed
  <2>3. b \in BOOLEAN
    OBVIOUS
  <2>4. d.archived = op.documents[r].archived
    OBVIOUS
  <2> HIDE DEF b, d
  <2>5. /\ Authorized(d, b) \in Document /\ Authorized(d, b).status = "authorized"
        /\ Authorized(d, b).limits = op.version /\ Authorized(d, b).authorization = op.action
        /\ Authorized(d, b).archived = d.archived
    BY <1>1, <2>2, <2>3, AuthorizedIsDocument
  <2> QED BY <2>1, <2>4, <2>5 DEF NewlyArmed
<1>3. \A r \in Runs \ op.request.ids : runs'[r] = runs[r] /\ runs'[r] \in Document
  BY <1>0 DEF Typed
<1>4. runs' = [r \in Runs |-> runs'[r]]
  BY <1>0
<1>5. runs' \in [Runs -> Document]
  BY <1>2, <1>3, <1>4
<1> QED BY <1>1, <1>2, <1>3, <1>5

LEMMA CommittedKeeps ==
  ASSUME Inv, Committed
  PROVE  Inv'
<1>1. /\ op.request.ids \in SUBSET Runs /\ op.action \in Actions /\ runs' \in [Runs -> Document]
      /\ \A r \in op.request.ids : NewlyArmed(r)
      /\ \A r \in Runs \ op.request.ids : runs'[r] = runs[r]
  BY CommittedRuns DEF Inv
<1>2. Typed /\ ArmInv /\ op.kind = "arm" /\ actions[op.action] = Nothing /\ op.request.version \in {0, op.version}
  BY DEF Inv, ArmInv, Committed
<1>3. /\ actions'[op.action] = op.request
      /\ \A a \in Actions : a # op.action => actions'[a] = actions[a]
      /\ actions' = [a \in Actions |-> actions'[a]]
  BY <1>1, <1>2 DEF Typed, Committed
<1>4. Typed'
  <2>1. episodes' \in [Scopes -> Episode]
    BY DEF Committed, Released, Inv, Typed, Episode
  <2> QED BY <1>1, <1>2, <1>3, <2>1 DEF Typed, OpTyped, Committed
<1>5. RecordedInv'
  <2> SUFFICES ASSUME NEW r \in Runs, Armed(r)' \/ Suspended(r)' \/ position'[r] = "working" PROVE Recorded(r)'
    BY DEF RecordedInv
  <2>1. CASE r \in op.request.ids
    BY <1>1, <1>2, <1>3, <2>1 DEF NewlyArmed, Recorded
  <2>2. CASE r \notin op.request.ids
    <3>1. Recorded(r) /\ runs'[r] = runs[r]
      BY <1>1, <2>2 DEF Inv, RecordedInv, Armed, Suspended, Committed
    <3>2. runs[r].authorization # op.action
      BY <1>2, <3>1 DEF Recorded, Nothing
    <3> QED BY <1>3, <3>1, <3>2 DEF Recorded
  <2> QED BY <2>1, <2>2
<1>6. ReviewedInv'
  <2> SUFFICES ASSUME NEW r \in Runs
               PROVE  /\ position'[r] = "working" => r \in created'
                      /\ Armed(r)' => r \in reviewed'
                      /\ Suspended(r)' => r \in reviewed' \cup created'
    BY DEF ReviewedInv
  <2>1. CASE r \in op.request.ids
    <3>1. position[r] = "flat"
      BY <1>2, <2>1 DEF ArmInv, Read
    <3> QED BY <2>1, <3>1 DEF Committed
  <2>2. CASE r \notin op.request.ids
    BY <1>1, <2>2 DEF Inv, ReviewedInv, Committed, Armed, Suspended
  <2> QED BY <2>1, <2>2
<1>7. ExpandedOnEvidence'
  <2> SUFFICES ASSUME NEW r \in Runs, Armed(r)', setup'.family[r] # "modern", setup'.capacity[runs'[r].limits] > 1
               PROVE  qualified'.smoke /\ qualified'.accepted
    BY DEF ExpandedOnEvidence
  <2>1. CASE r \in op.request.ids
    <3>1. Expandable(r, op.version) /\ runs'[r].limits = op.version
      BY <1>1, <1>2, <2>1 DEF ArmInv, NewlyArmed
    <3> QED BY <3>1 DEF Expandable, Committed
  <2>2. CASE r \notin op.request.ids
    BY <1>1, <2>2 DEF Inv, ExpandedOnEvidence, Committed, Armed
  <2> QED BY <2>1, <2>2
<1>8. ArmInv' /\ ResumeInv'
  BY DEF ArmInv, ResumeInv, Committed, Idle
<1> QED BY <1>4, <1>5, <1>6, <1>7, <1>8 DEF Inv

-----------------------------------------------------------------------------
(* Steps of the resumption, and of trading.                                *)

LEMMA BeginResumeKeeps ==
  ASSUME Inv, NEW r \in Runs, BeginResume(r)
  PROVE  Inv'
<1>1. /\ op' = [kind |-> "resume", run |-> r] /\ UNCHANGED <<store, engine, page, bounds>>
      /\ Resumable(r) /\ setup.family[r] = "modern"
  BY DEF BeginResume
<1>2. Typed'
  BY <1>1 DEF Inv, Typed, OpTyped, store
<1>3. RecordedInv' /\ ReviewedInv' /\ ExpandedOnEvidence' /\ ArmInv'
  BY <1>1 DEF Inv, RecordedInv, Recorded, ReviewedInv, ExpandedOnEvidence, ArmInv, store, Armed, Suspended
<1>4. ResumeInv'
  BY <1>1 DEF ResumeInv, Resumable, store
<1> QED BY <1>2, <1>3, <1>4 DEF Inv

\* The run of a resumption that is carried out.
Resumed(r) ==
  /\ op.kind = "resume" /\ op.run = r /\ op' = Idle
  /\ Suspended(r) /\ RecoveryOwner /\ Applicable({r}) = {} /\ ~emergency
  /\ runs' = [runs EXCEPT ![r].status = "authorized"]
  /\ UNCHANGED <<setup, created, position, published, qualified, episodes, emergency, owner, actions, reviewed, engine, page, bounds>>
LEMMA ResumedRun ==
  ASSUME Typed, NEW r \in Runs, Resumed(r)
  PROVE  /\ runs' \in [Runs -> Document] /\ \A q \in Runs : Kept(q)
         /\ runs'[r].status = "authorized" /\ \A q \in Runs \ {r} : runs'[q] = runs[q]
<1>1. runs'[r] = [runs[r] EXCEPT !.status = "authorized"] /\ runs[r] \in Document
  BY DEF Resumed, Typed
<1>2. runs'[r] \in Document /\ runs'[r].status = "authorized" /\ Kept(r)
  BY <1>1 DEF Document, Statuses, Kept
<1>3. \A q \in Runs \ {r} : runs'[q] = runs[q] /\ Kept(q)
  BY DEF Resumed, Typed, Kept
<1>4. runs' \in [Runs -> Document]
  BY <1>2 DEF Resumed, Typed
<1> QED BY <1>2, <1>3, <1>4

LEMMA ResumedKeeps ==
  ASSUME Inv, NEW r \in Runs, Resumed(r)
  PROVE  Inv'
<1>1. /\ runs' \in [Runs -> Document] /\ \A q \in Runs : Kept(q)
      /\ runs'[r].status = "authorized" /\ \A q \in Runs \ {r} : runs'[q] = runs[q]
  BY ResumedRun DEF Inv
<1>2. Typed'
  BY <1>1 DEF Inv, Typed, OpTyped, Resumed
<1>3. RecordedInv'
  BY <1>1 DEF Inv, RecordedInv, Recorded, Resumed, Kept, Armed, Suspended
<1>4. ReviewedInv'
  <2>1. r \in reviewed
    BY DEF Inv, ReviewedInv, ResumeInv, Resumable, Resumed
  <2> QED BY <1>1, <2>1 DEF Inv, ReviewedInv, Resumed, Armed, Suspended
<1>5. ExpandedOnEvidence'
  BY <1>1 DEF Inv, ExpandedOnEvidence, ResumeInv, Resumed, Kept, Armed
<1>6. ArmInv' /\ ResumeInv'
  BY DEF ArmInv, ResumeInv, Resumed, Idle
<1> QED BY <1>2, <1>3, <1>4, <1>5, <1>6 DEF Inv

LEMMA TradingKeeps ==
  ASSUME Inv, NEW r \in Runs, Entry(r) \/ EntryEnds(r) \/ TradeCloses(r) \/ Archive(r)
  PROVE  Inv'
<1> USE DEF Inv
<1>1. op = Idle /\ op' = Idle
  BY DEF Entry, EntryEnds, TradeCloses, Archive
<1>2. ArmInv' /\ ResumeInv'
  BY <1>1 DEF ArmInv, ResumeInv, Idle
<1>3. CASE Entry(r)
  <2>1. runs' = [runs EXCEPT ![r].entries = @ + 1] /\ position' = [position EXCEPT ![r] = "working"] /\ Armed(r)
    BY <1>3 DEF Entry
  <2>2. runs'[r] = [runs[r] EXCEPT !.entries = @ + 1] /\ runs[r] \in Document
    BY <2>1 DEF Typed
  <2>3. runs'[r] \in Document /\ runs'[r].status = runs[r].status /\ runs'[r].limits = runs[r].limits
        /\ runs'[r].authorization = runs[r].authorization
    BY <2>2 DEF Document
  <2>4. runs' \in [Runs -> Document] /\ \A q \in Runs \ {r} : runs'[q] = runs[q]
    BY <2>1, <2>3 DEF Typed
  <2>5. position' \in [Runs -> Positions] /\ \A q \in Runs \ {r} : position'[q] = position[q]
    BY <2>1 DEF Typed, Positions
  <2>6. Typed'
    BY <1>1, <1>3, <2>4, <2>5 DEF Typed, OpTyped, Entry
  <2>7. RecordedInv' /\ ExpandedOnEvidence'
    BY <1>3, <2>1, <2>3, <2>4, <2>5 DEF Entry, RecordedInv, Recorded, ExpandedOnEvidence, Armed, Suspended
  <2>8. ReviewedInv'
    BY <1>3, <2>1, <2>3, <2>4, <2>5 DEF Entry, ReviewedInv, Armed, Suspended
  <2> QED BY <1>2, <2>6, <2>7, <2>8
<1>4. CASE EntryEnds(r)
  <2>1. PICK p \in {"flat", "held"} : position' = [position EXCEPT ![r] = p]
    BY <1>4 DEF EntryEnds
  <2>2. position' \in [Runs -> Positions] /\ \A q \in Runs : position'[q] = "working" => position[q] = "working"
    BY <2>1 DEF Typed, Positions
  <2>3. Typed'
    BY <1>1, <1>4, <2>2 DEF Typed, OpTyped, EntryEnds
  <2>4. RecordedInv' /\ ExpandedOnEvidence' /\ ReviewedInv'
    BY <1>4, <2>2 DEF EntryEnds, RecordedInv, Recorded, ExpandedOnEvidence, ReviewedInv, Armed, Suspended
  <2> QED BY <1>2, <2>3, <2>4
<1>5. CASE TradeCloses(r)
  <2>1. PICK protected \in BOOLEAN : qualified' = [qualified EXCEPT !.smoke = @ \/ protected]
    BY <1>5 DEF TradeCloses
  <2>2. qualified' \in [smoke : BOOLEAN, accepted : BOOLEAN] /\ (qualified.smoke => qualified'.smoke)
        /\ qualified'.accepted = qualified.accepted
    BY <2>1 DEF Typed
  <2>3. position' \in [Runs -> Positions] /\ \A q \in Runs : position'[q] = "working" => position[q] = "working"
    BY <1>5 DEF TradeCloses, Typed, Positions
  <2>4. Typed'
    BY <1>1, <1>5, <2>2, <2>3 DEF Typed, OpTyped, TradeCloses
  <2>5. RecordedInv' /\ ExpandedOnEvidence' /\ ReviewedInv'
    BY <1>5, <2>2, <2>3 DEF TradeCloses, RecordedInv, Recorded, ExpandedOnEvidence, ReviewedInv, Armed, Suspended
  <2> QED BY <1>2, <2>4, <2>5
<1>6. CASE Archive(r)
  <2>1. runs'[r] = [runs[r] EXCEPT !.archived = ~@] /\ runs[r] \in Document
    BY <1>6 DEF Archive, Typed
  <2>2. runs'[r] \in Document /\ runs'[r].status = runs[r].status /\ runs'[r].limits = runs[r].limits
        /\ runs'[r].authorization = runs[r].authorization
    BY <2>1 DEF Document
  <2>3. runs' \in [Runs -> Document] /\ \A q \in Runs \ {r} : runs'[q] = runs[q]
    BY <1>6, <2>2 DEF Archive, Typed
  <2>4. Typed'
    BY <1>1, <1>6, <2>3 DEF Typed, OpTyped, Archive
  <2>5. RecordedInv' /\ ExpandedOnEvidence' /\ ReviewedInv'
    BY <1>6, <2>2, <2>3 DEF Archive, RecordedInv, Recorded, ExpandedOnEvidence, ReviewedInv, Armed, Suspended
  <2> QED BY <1>2, <2>4, <2>5
<1> QED BY <1>3, <1>4, <1>5, <1>6

-----------------------------------------------------------------------------
(* The invariant is inductive.                                             *)

\* What a step is, as far as authorizations are concerned.
Trading == \E r \in Runs : Entry(r) \/ EntryEnds(r) \/ TradeCloses(r) \/ Archive(r)
Beginning == (\E a \in Actions, request \in Requests : BeginArm(a, request)) \/ (\E r \in Runs : BeginResume(r))
Resuming == \E r \in Runs : Resumed(r)
LEMMA Cases ==
  ASSUME Typed, [Next]_vars
  PROVE  (Typed' /\ Weakens) \/ Beginning \/ Committed \/ Resuming \/ Trading
<1>1. CASE CommitArm
  <2>1. CASE Committable
    BY <1>1, <2>1 DEF CommitArm, Committed
  <2>2. CASE ~Committable
    BY <1>1, <2>2 DEF CommitArm, Weakens, Weaker, Kept, Typed, OpTyped, Armed, Suspended
  <2> QED BY <2>1, <2>2
<1>2. CASE CommitResume
  <2>1. op.run \in Runs
    BY <1>2 DEF CommitResume, Typed, OpTyped, Idle
  <2>2. CASE Suspended(op.run) /\ RecoveryOwner /\ Applicable({op.run}) = {} /\ ~emergency
    BY <1>2, <2>1, <2>2 DEF CommitResume, Resuming, Resumed
  <2>3. CASE ~(Suspended(op.run) /\ RecoveryOwner /\ Applicable({op.run}) = {} /\ ~emergency)
    BY <1>2, <2>3 DEF CommitResume, Weakens, Weaker, Kept, Typed, OpTyped, Armed, Suspended
  <2> QED BY <2>2, <2>3
<1>3. CASE \/ \E ids \in SUBSET Runs \ {{}}, v \in 1..published : ArmPreview(ids, v)
           \/ \E s \in Scopes : Recover(s)
           \/ ClearEmergency \/ AcceptReview \/ SaveProfile \/ Conditions \/ ProcessEnds
           \/ UNCHANGED vars
  BY <1>3, OthersTyped, Zenon
<1>4. CASE \/ SetEmergency \/ InvalidateAuthorizations \/ Takeover
           \/ \E s \in Scopes, routine \in BOOLEAN : Incident(s, routine)
           \/ \E r \in Runs : RefuseResume(r) \/ Disarm(r)
  BY <1>4, RevocationsTyped, Zenon
<1>5. CASE Beginning \/ Trading
  BY <1>5
<1> QED BY <1>1, <1>2, <1>3, <1>4, <1>5, Zenon DEF Next, Beginning, Trading

LEMMA InvInductive == Inv /\ [Next]_vars => Inv'
<1> SUFFICES ASSUME Inv, [Next]_vars PROVE Inv'
  OBVIOUS
<1>1. CASE Typed' /\ Weakens
  BY <1>1, WeakensKeeps DEF Inv
<1>2. CASE Beginning
  BY <1>2, BeginArmKeeps, BeginResumeKeeps DEF Beginning
<1>3. CASE Committed
  BY <1>3, CommittedKeeps
<1>4. CASE Resuming
  BY <1>4, ResumedKeeps DEF Resuming
<1>5. CASE Trading
  BY <1>5, TradingKeeps DEF Trading
<1> QED BY <1>1, <1>2, <1>3, <1>4, <1>5, Cases DEF Inv

LEMMA InitInv == Init => Inv
<1> SUFFICES ASSUME Init PROVE Inv
  OBVIOUS
<1>1. Typed
  BY DEF Init, Typed, OpTyped, Document, Statuses, Positions, Episode, Nothing
<1>2. RecordedInv /\ ReviewedInv /\ ArmInv /\ ResumeInv /\ ExpandedOnEvidence
  BY DEF Init, RecordedInv, ReviewedInv, ArmInv, ResumeInv, ExpandedOnEvidence, Armed, Suspended, Idle
<1> QED BY <1>1, <1>2 DEF Inv

LEMMA InvHolds == Spec => []Inv
BY InitInv, InvInductive, PTL DEF Spec

(* Whatever is armed or suspended was authorized by an action on record, for  *)
(* this run and with these limits; no step between the review and its         *)
(* transaction can put another action or other limits there.                  *)
THEOREM ActionsAreRecorded == Spec => []ActionIsRecorded
<1>1. Inv => ActionIsRecorded
  BY DEF Inv, RecordedInv, Recorded, ActionIsRecorded
<1> QED BY <1>1, InvHolds, PTL

(* No run but of reviewed paper stock is armed under limits of more than one  *)
(* run without a whole observed trade and the operator's acceptance.          *)
THEOREM ExpansionsAreAccepted == Spec => []ExpandedOnEvidence
<1>1. Inv => ExpandedOnEvidence
  BY DEF Inv
<1> QED BY <1>1, InvHolds, PTL

-----------------------------------------------------------------------------
(* Steps that arm.                                                         *)

\* An engine that has read something for a commitment begins nothing else and trades nothing.
LEMMA OneAtATime ==
  ASSUME Beginning \/ Trading
  PROVE  op.kind = "idle"
<1>1. op = Idle
  <2>1. CASE \E a \in Actions, request \in Requests : BeginArm(a, request)
    <3>1. PICK a \in Actions, request \in Requests : BeginArm(a, request)
      BY <2>1
    <3> QED BY <3>1 DEF BeginArm
  <2>2. CASE \E r \in Runs : BeginResume(r)
    BY <2>2 DEF BeginResume
  <2>3. CASE Trading
    <3>1. PICK r \in Runs : Entry(r) \/ EntryEnds(r) \/ TradeCloses(r) \/ Archive(r)
      BY <2>3 DEF Trading
    <3> QED BY <3>1 DEF Entry, EntryEnds, TradeCloses, Archive
  <2> QED BY <2>1, <2>2, <2>3 DEF Beginning
<1> QED BY <1>1 DEF Idle

\* What is released are the restrictions that were acknowledged, and they are all that applied.
LEMMA ReleasedAsAcknowledged ==
  ASSUME Typed, Committed
  PROVE  /\ \A r \in op.request.ids : Applicable({r})' = {}
         /\ {s \in Scopes : episodes'[s] # episodes[s]} = {s \in Scopes : <<s, episodes[s].revision>> \in op.request.acknowledged}
<1> DEFINE ids == op.request.ids
           acks == op.request.acknowledged
           A == Applicable(ids)
<1>1. acks = {<<s, episodes[s].revision>> : s \in A}
  BY DEF Committed, Committable, ValidateAcknowledgments, Recoveries
<1>2. A \subseteq Scopes
  BY DEF Applicable, Restricted
<1>3. \A s \in Scopes : /\ (\E x \in acks : x[1] = s) <=> s \in A
                        /\ <<s, episodes[s].revision>> \in acks <=> s \in A
  <2> HIDE DEF acks, A
  <2> TAKE s \in Scopes
  <2>1. ASSUME NEW x \in acks PROVE x[1] \in A /\ x = <<x[1], episodes[x[1]].revision>>
    BY <1>1
  <2>2. ASSUME s \in A PROVE <<s, episodes[s].revision>> \in acks /\ <<s, episodes[s].revision>>[1] = s
    BY <1>1, <2>2
  <2>3. (\E x \in acks : x[1] = s) <=> s \in A
    BY <2>1, <2>2
  <2>4. <<s, episodes[s].revision>> \in acks => s \in A
    <3>1. <<s, episodes[s].revision>>[1] = s
      OBVIOUS
    <3> QED BY <2>1, <3>1
  <2> QED BY <2>2, <2>3, <2>4
<1>4. ASSUME NEW s \in Scopes
      PROVE  /\ s \in A => episodes'[s] = [revision |-> episodes[s].revision + 1, state |-> "released"]
             /\ s \notin A => episodes'[s] = episodes[s]
  <2>1. episodes'[s] = IF \E x \in acks : x[1] = s THEN [revision |-> episodes[s].revision + 1, state |-> "released"]
                       ELSE episodes[s]
    BY DEF Committed, Released
  <2> HIDE DEF acks, A
  <2> QED BY <1>3, <2>1
<1>5. ASSUME NEW s \in Scopes PROVE episodes'[s] # episodes[s] <=> s \in A
  <2>1. CASE s \in A
    <3>1. episodes'[s] = [revision |-> episodes[s].revision + 1, state |-> "released"] /\ episodes[s].revision \in Nat
      BY <1>4, <2>1 DEF Typed, Episode
    <3> QED BY <2>1, <3>1
  <2>2. CASE s \notin A
    BY <1>4, <2>2
  <2> QED BY <2>1, <2>2
<1>6. ASSUME NEW r \in ids PROVE Applicable({r})' = {}
  <2> SUFFICES ASSUME NEW s \in Scopes, s \in {"workspace", Contract(r)} PROVE episodes'[s].state \notin {"failing", "ready"}
    BY DEF Applicable, Restricted, Contract, Committed
  <2>1. CASE s \in A
    <3> HIDE DEF A
    <3>1. episodes'[s] = [revision |-> episodes[s].revision + 1, state |-> "released"]
      BY <1>4, <2>1
    <3> QED BY <3>1
  <2>2. CASE s \notin A
    BY <1>4, <2>2 DEF Applicable, Restricted, Contract
  <2> QED BY <2>1, <2>2
<1> HIDE DEF ids, acks, A
<1>7. {s \in Scopes : episodes'[s] # episodes[s]} = {s \in Scopes : <<s, episodes[s].revision>> \in acks}
  BY <1>3, <1>5
<1> QED BY <1>6, <1>7 DEF ids, acks

(* A run is armed by an action once, with the limits, the entries, the       *)
(* instance and the login that were shown, with nothing left that restricts  *)
(* it and exactly the shown incidents released, although the engine wrote    *)
(* what it had read before others wrote.                                     *)
THEOREM RunsAreArmedAsReviewed == Spec => [][ArmedAsReviewed]_vars
<1>1. Inv /\ [Next]_vars => [ArmedAsReviewed]_vars
  <2> SUFFICES ASSUME Inv, [Next]_vars, NEW r \in Runs, Armed(r)', ~Armed(r), op.kind = "arm"
               PROVE  LET f == op.request.fingerprint IN
                      /\ owner = engine.instance /\ ~emergency /\ Applicable({r})' = {} /\ actions[op.action] = Nothing
                      /\ runs'[r].archived = runs[r].archived /\ ~runs[r].archived
                      /\ {s \in Scopes : episodes'[s] # episodes[s]}
                           = {s \in Scopes : <<s, episodes[s].revision>> \in op.request.acknowledged}
                      /\ f # Unstated => /\ f.version = runs'[r].limits /\ f.runs[r].entries = runs[r].entries
                                         /\ f.instance = owner /\ f.context = engine.context
    BY DEF ArmedAsReviewed
  <2>1. Committed
    <3>1. CASE Typed' /\ Weakens
      BY <3>1 DEF Weakens, Weaker
    <3>2. CASE Beginning \/ Trading
      BY <3>2, OneAtATime
    <3>3. CASE Resuming
      BY <3>3 DEF Resuming, Resumed
    <3> QED BY <3>1, <3>2, <3>3, Cases DEF Inv
  <2>2. /\ \A q \in op.request.ids : NewlyArmed(q)
        /\ \A q \in Runs \ op.request.ids : runs'[q] = runs[q]
    BY <2>1, CommittedRuns DEF Inv
  <2>3. r \in op.request.ids
    BY <2>2 DEF Armed
  <2>4. NewlyArmed(r) /\ Read(r) /\ AsShown(r) /\ actions[op.action] = Nothing
    BY <2>2, <2>3 DEF Inv, ArmInv
  <2>5. /\ Applicable({r})' = {}
        /\ {s \in Scopes : episodes'[s] # episodes[s]} = {s \in Scopes : <<s, episodes[s].revision>> \in op.request.acknowledged}
    BY <2>1, <2>3, ReleasedAsAcknowledged DEF Inv
  <2>6. owner = engine.instance /\ ~emergency
    BY <2>1 DEF Committed, Committable, RecoveryOwner
  <2> QED BY <2>4, <2>5, <2>6 DEF NewlyArmed, Read, AsShown
<1> QED BY <1>1, InvHolds, PTL DEF Spec

(* No authorization comes back by itself that was revoked, given by another  *)
(* engine or under another login, or used for an order; not even when an     *)
(* incident turned what had been revoked into a suspension.                  *)
THEOREM RunsAreResumedAsReviewed == Spec => [][ResumedAsReviewed]_vars
<1>1. Inv /\ [Next]_vars => [ResumedAsReviewed]_vars
  <2> SUFFICES ASSUME Inv, [Next]_vars, NEW r \in Runs, Armed(r)', ~Armed(r), op.kind = "resume"
               PROVE  /\ r \in reviewed \ created /\ runs[r].instance = owner /\ runs[r].context = engine.context
                      /\ Applicable({r}) = {} /\ ~emergency
    BY DEF ResumedAsReviewed
  <2>1. PICK q \in Runs : Resumed(q)
    <3>1. CASE Typed' /\ Weakens
      BY <3>1 DEF Weakens, Weaker
    <3>2. CASE Beginning \/ Trading
      BY <3>2, OneAtATime
    <3>3. CASE Committed
      BY <3>3 DEF Committed
    <3> QED BY <3>1, <3>2, <3>3, Cases DEF Inv, Resuming
  <2>2. \A p \in Runs \ {q} : runs'[p] = runs[p]
    BY <2>1, ResumedRun DEF Inv
  <2>3. q = r
    BY <2>2 DEF Armed
  <2>4. Resumable(r) /\ r \in reviewed \cup created
    BY <2>1, <2>3 DEF Inv, ResumeInv, ReviewedInv, Resumed
  <2> QED BY <2>1, <2>3, <2>4 DEF Resumed, Resumable, RecoveryOwner
<1> QED BY <1>1, InvHolds, PTL DEF Spec

-----------------------------------------------------------------------------
(* The limits.                                                             *)

\* What is assumed of the limits: versions are numbered from 1 and each allows a number of runs.
Sound == IsFiniteSet(Runs) /\ \A s \in Setups : \E n \in Nat \ {0} : s.capacity \in [1..n -> Nat]
Versions == DOMAIN setup.capacity
Graded == IsFiniteSet(Runs) /\ \E n \in Nat \ {0} : setup.capacity \in [1..n -> Nat]

\* The engine takes its limits from what was published.
Published == published \in Versions /\ (page # Nothing => page.version \in Versions)
LimitsInv ==
  /\ op.kind = "arm" => op.version \in Versions
  /\ \A r \in Runs : Armed(r) \/ Suspended(r) \/ position[r] = "working" => runs[r].limits \in Versions

\* Of any of the armed runs, one was authorized under limits that allow them all: the last of them.
ArmedRuns == {r \in Runs : Armed(r)}
Within(S) == \E r \in S : Cardinality(S) <= setup.capacity[runs[r].limits]
Allowed(S, version) == \A T \in SUBSET S : Cardinality(T) <= setup.capacity[version]
Distinct(S) == \A q, r \in S : q # r /\ Contract(q) = Contract(r) => Family({q, r}, "modern")
ArmedInv == (\A S \in SUBSET ArmedRuns : S # {} => Within(S)) /\ Distinct(ArmedRuns)
\* What the engine has read still allows the runs of the commitment beside all that are armed.
ArmRoom == op.kind = "arm" => Allowed(op.request.ids \cup ArmedRuns, op.version) /\ Distinct(op.request.ids \cup ArmedRuns)
ResumeRoom == op.kind = "resume" => Allowed({op.run} \cup ArmedRuns, runs[op.run].limits) /\ Distinct({op.run} \cup ArmedRuns)
CapacityInv == ArmedInv /\ ArmRoom /\ ResumeRoom
Limits == Inv /\ Graded /\ Published /\ LimitsInv /\ CapacityInv

LEMMA Grades ==
  ASSUME Graded
  PROVE  /\ Versions = 1..Cardinality(Versions) /\ Cardinality(Versions) \in Nat
         /\ \A v \in Versions : v \in Nat /\ setup.capacity[v] \in Nat
<1>1. PICK n \in Nat \ {0} : setup.capacity \in [1..n -> Nat]
  BY DEF Graded
<1>2. Versions = 1..n /\ Cardinality(1..n) = n
  BY <1>1, FS_Interval DEF Versions
<1> QED BY <1>1, <1>2

LEMMA PublishedKeeps ==
  ASSUME Graded, Published, [Next]_vars
  PROVE  Graded' /\ Published' /\ setup' = setup
<1>1. CASE \E ids \in SUBSET Runs \ {{}}, v \in 1..published : ArmPreview(ids, v)
  <2>1. PICK ids \in SUBSET Runs \ {{}}, v \in 1..published : ArmPreview(ids, v)
    BY <1>1
  <2>2. page'.version = v /\ setup' = setup /\ published' = published
    BY <2>1 DEF ArmPreview, store
  <2>3. v \in Versions
    BY Grades DEF Published
  <2> QED BY <2>2, <2>3 DEF Graded, Published, Versions
<1>2. CASE SaveProfile
  <2>1. published + 1 \in Versions
    BY <1>2, Grades DEF SaveProfile, Published, Versions
  <2> QED BY <1>2, <2>1 DEF SaveProfile, Graded, Published, Versions
<1>3. CASE UNCHANGED <<setup, published, page>>
  BY <1>3 DEF Graded, Published, Versions
<1>4. CASE \E a \in Actions, request \in Requests : BeginArm(a, request)
  <2>1. PICK a \in Actions, request \in Requests : BeginArm(a, request)
    BY <1>4
  <2> QED BY <1>3, <2>1 DEF BeginArm, store
<1>5. CASE \/ CommitArm \/ CommitResume \/ SetEmergency \/ ClearEmergency \/ AcceptReview
           \/ InvalidateAuthorizations \/ Conditions \/ Takeover \/ ProcessEnds \/ UNCHANGED vars
  BY <1>3, <1>5 DEF CommitArm, CommitResume, SetEmergency, ClearEmergency, AcceptReview, InvalidateAuthorizations,
     Conditions, Takeover, ProcessEnds, vars, store
<1>6. CASE \E s \in Scopes : Recover(s) \/ \E routine \in BOOLEAN : Incident(s, routine)
  BY <1>3, <1>6 DEF Recover, Incident
<1>7. CASE \E r \in Runs : BeginResume(r) \/ RefuseResume(r) \/ Disarm(r) \/ Entry(r) \/ EntryEnds(r) \/ TradeCloses(r) \/ Archive(r)
  BY <1>3, <1>7 DEF BeginResume, RefuseResume, Disarm, Entry, EntryEnds, TradeCloses, Archive, store
<1> QED BY <1>1, <1>2, <1>4, <1>5, <1>6, <1>7, Zenon DEF Next

LEMMA RequestsArePublished ==
  ASSUME Typed, Graded, Published, NEW request \in Requests
  PROVE  Version(request) \in Versions
<1>1. page # Nothing
  BY DEF Requests
<1>2. PICK v \in IF Family(page.ids, "modern") THEN {page.version} ELSE {page.version, 0},
           acks \in {{}, page.recoveries},
           f \in IF Family(page.ids, "modern") THEN {page.fingerprint} ELSE {page.fingerprint, Unstated} :
        request = [ids |-> page.ids, version |-> v, acknowledged |-> acks, fingerprint |-> f,
                   instance |-> page.fingerprint.instance]
  BY <1>1, SMT DEF Requests
<1>3. request.version \in {page.version, 0}
  BY <1>2
<1>4. page.version \in Versions /\ published \in Versions /\ 0 \notin Versions
  BY <1>1, Grades DEF Published
<1> QED BY <1>3, <1>4 DEF Version, Latest

\* A review that allows its runs leaves room for them beside all that are armed.
LEMMA ReviewedRunsHaveRoom ==
  ASSUME Graded, NEW ids \in SUBSET Runs, NEW version \in Versions, Checks(ids, version)
  PROVE  Allowed(ids \cup ArmedRuns, version) /\ Distinct(ids \cup ArmedRuns)
<1> DEFINE all == ids \cup Active(ids, Flexible(ids))
<1>1. DistinctSymbols(all, Flexible(ids)) /\ Cardinality(all) <= setup.capacity[version]
  BY DEF Checks
<1>2. ids \cup ArmedRuns \subseteq all /\ all \subseteq Runs
  BY DEF ArmedRuns, Active
<1> HIDE DEF all
<1>3. IsFiniteSet(all) /\ Cardinality(all) \in Nat
  BY <1>2, FS_Subset, FS_CardinalityType DEF Graded
<1>4. ASSUME NEW T \in SUBSET (ids \cup ArmedRuns) PROVE Cardinality(T) <= setup.capacity[version]
  <2>1. T \subseteq all
    BY <1>2
  <2>2. IsFiniteSet(T) /\ Cardinality(T) <= Cardinality(all)
    BY <1>3, <2>1, FS_Subset
  <2>3. Cardinality(T) \in Nat
    BY <2>2, FS_CardinalityType
  <2>4. setup.capacity[version] \in Nat
    BY Grades
  <2> QED BY <1>1, <1>3, <2>2, <2>3, <2>4
<1>5. Distinct(ids \cup ArmedRuns)
  BY <1>1, <1>2 DEF DistinctSymbols, Distinct
<1> QED BY <1>4, <1>5 DEF Allowed

\* Fewer armed runs under the same limits are still within them.
LEMMA WeakensKeepsRoom ==
  ASSUME Typed, LimitsInv, CapacityInv, Weakens, Typed'
  PROVE  LimitsInv' /\ CapacityInv'
<1>1. /\ setup' = setup /\ position' = position
      /\ \A r \in Runs : /\ runs'[r].limits = runs[r].limits /\ (Armed(r)' => Armed(r))
                       /\ (Suspended(r)' => Suspended(r) \/ Armed(r) \/ position[r] = "working")
  BY DEF Weakens, Weaker, Kept
<1>2. ArmedRuns' \subseteq ArmedRuns /\ ArmedRuns \subseteq Runs
  BY <1>1 DEF ArmedRuns
<1>3. op' = Idle \/ op' = op
  BY DEF Weakens
<1>4. LimitsInv'
  BY <1>1, <1>3 DEF LimitsInv, Versions, Idle
<1>5. ArmedInv'
  <2>1. ASSUME NEW S \in SUBSET ArmedRuns', S # {} PROVE Within(S)'
    <3>1. PICK r \in S : Cardinality(S) <= setup.capacity[runs[r].limits]
      BY <1>2, <2>1 DEF CapacityInv, ArmedInv, Within
    <3>2. r \in Runs /\ runs'[r].limits = runs[r].limits
      BY <1>1, <1>2, <2>1
    <3> QED BY <1>1, <3>1, <3>2 DEF Within
  <2>2. Distinct(ArmedRuns)'
    BY <1>1, <1>2 DEF CapacityInv, ArmedInv, Distinct, Contract, Family
  <2> QED BY <2>1, <2>2 DEF ArmedInv
<1>6. ArmRoom'
  <2>1. CASE op' = Idle
    BY <2>1 DEF ArmRoom, Idle
  <2>2. CASE op' = op
    <3> SUFFICES ASSUME op.kind = "arm"
                 PROVE  Allowed(op.request.ids \cup ArmedRuns, op.version)' /\ Distinct(op.request.ids \cup ArmedRuns)'
      BY <2>2 DEF ArmRoom
    <3>1. Allowed(op.request.ids \cup ArmedRuns, op.version) /\ Distinct(op.request.ids \cup ArmedRuns)
      BY DEF CapacityInv, ArmRoom
    <3>2. op.request.ids \cup ArmedRuns' \subseteq op.request.ids \cup ArmedRuns
      BY <1>2
    <3> QED BY <1>1, <2>2, <3>1, <3>2 DEF Allowed, Distinct, Contract, Family
  <2> QED BY <1>3, <2>1, <2>2
<1>7. ResumeRoom'
  <2>1. CASE op' = Idle
    BY <2>1 DEF ResumeRoom, Idle
  <2>2. CASE op' = op
    <3> SUFFICES ASSUME op.kind = "resume"
                 PROVE  Allowed({op.run} \cup ArmedRuns, runs[op.run].limits)' /\ Distinct({op.run} \cup ArmedRuns)'
      BY <2>2 DEF ResumeRoom
    <3>1. Allowed({op.run} \cup ArmedRuns, runs[op.run].limits) /\ Distinct({op.run} \cup ArmedRuns)
      BY DEF CapacityInv, ResumeRoom
    <3>2. {op.run} \cup ArmedRuns' \subseteq {op.run} \cup ArmedRuns
      BY <1>2
    <3>3. op.run \in Runs
      BY DEF Typed, OpTyped, Idle
    <3>4. runs'[op.run].limits = runs[op.run].limits
      BY <1>1, <3>3
    <3> QED BY <1>1, <2>2, <3>1, <3>2, <3>4 DEF Allowed, Distinct, Contract, Family
  <2> QED BY <1>3, <2>1, <2>2
<1> QED BY <1>4, <1>5, <1>6, <1>7 DEF CapacityInv

\* The runs are as they were, and the engine has read what leaves room.
LEMMA BeginKeepsRoom ==
  ASSUME LimitsInv, CapacityInv, UNCHANGED <<setup, runs, position>>,
         op'.kind = "arm" => /\ op'.version \in Versions
                             /\ Allowed(op'.request.ids \cup ArmedRuns, op'.version) /\ Distinct(op'.request.ids \cup ArmedRuns),
         op'.kind = "resume" => Allowed({op'.run} \cup ArmedRuns, runs[op'.run].limits) /\ Distinct({op'.run} \cup ArmedRuns)
  PROVE  LimitsInv' /\ CapacityInv'
<1>1. LimitsInv'
  BY DEF LimitsInv, Versions, Armed, Suspended
<1>2. ArmedRuns' = ArmedRuns
  BY DEF ArmedRuns, Armed
<1>3. ArmedInv'
  BY <1>2 DEF CapacityInv, ArmedInv, Within, Distinct, Contract, Family
<1>4. ArmRoom'
  BY <1>2 DEF ArmRoom, Allowed, Distinct, Contract, Family
<1>5. ResumeRoom'
  BY <1>2 DEF ResumeRoom, Allowed, Distinct, Contract, Family
<1> QED BY <1>1, <1>3, <1>4, <1>5 DEF CapacityInv

LEMMA BeginArmKeepsRoom ==
  ASSUME Limits, NEW a \in Actions, NEW request \in Requests, BeginArm(a, request)
  PROVE  LimitsInv' /\ CapacityInv'
<1>1. PICK version \in Versions : version = Version(request)
  BY RequestsArePublished DEF Limits, Inv
<1>2. request.ids \in SUBSET Runs
  BY RequestTyped DEF Limits, Inv
<1>3. /\ op' = [kind |-> "arm", action |-> a, request |-> request, version |-> version, documents |-> Documents(request.ids)]
      /\ UNCHANGED <<setup, runs, position>> /\ Checks(request.ids, version)
  BY <1>1 DEF BeginArm, Eligible, EligibleAfterRecovery, store
<1>4. Allowed(request.ids \cup ArmedRuns, version) /\ Distinct(request.ids \cup ArmedRuns)
  BY <1>2, <1>3, ReviewedRunsHaveRoom DEF Limits
<1>5. op'.kind = "arm" /\ op'.version = version /\ op'.request = request
  BY <1>3
<1> QED BY <1>3, <1>4, <1>5, BeginKeepsRoom DEF Limits

LEMMA BeginResumeKeepsRoom ==
  ASSUME Limits, NEW r \in Runs, BeginResume(r)
  PROVE  LimitsInv' /\ CapacityInv'
<1>1. PICK version \in Versions : version = runs[r].limits
  BY DEF BeginResume, Limits, LimitsInv
<1>2. op' = [kind |-> "resume", run |-> r] /\ UNCHANGED <<setup, runs, position>> /\ Checks({r}, version)
  BY <1>1 DEF BeginResume, Eligible, store
<1>3. Allowed({r} \cup ArmedRuns, version) /\ Distinct({r} \cup ArmedRuns)
  BY <1>2, ReviewedRunsHaveRoom DEF Limits
<1>4. op'.kind = "resume" /\ op'.run = r
  BY <1>2
<1> QED BY <1>1, <1>2, <1>3, <1>4, BeginKeepsRoom DEF Limits

\* Runs are armed under limits that allow them beside all that are armed.
LEMMA ArmingKeepsRoom ==
  ASSUME NEW ids \in SUBSET Runs, NEW version, ArmedInv, setup' = setup,
         Allowed(ids \cup ArmedRuns, version), Distinct(ids \cup ArmedRuns),
         \A r \in ids : Armed(r)' /\ runs'[r].limits = version,
         \A r \in Runs \ ids : runs'[r] = runs[r]
  PROVE  ArmedInv'
<1>1. ArmedRuns' = ids \cup ArmedRuns
  BY DEF ArmedRuns, Armed
<1>2. ASSUME NEW S \in SUBSET (ids \cup ArmedRuns), S # {} PROVE Within(S)'
  <2>1. CASE S \cap ids # {}
    <3>1. PICK r \in S : r \in ids
      BY <2>1
    <3>2. Cardinality(S) <= setup.capacity[version]
      BY DEF Allowed
    <3> QED BY <3>1, <3>2 DEF Within
  <2>2. CASE S \cap ids = {}
    <3>1. S \in SUBSET ArmedRuns /\ S \subseteq Runs
      BY <2>2 DEF ArmedRuns
    <3>2. PICK r \in S : Cardinality(S) <= setup.capacity[runs[r].limits]
      BY <1>2, <3>1 DEF ArmedInv, Within
    <3>3. runs'[r] = runs[r]
      BY <2>2, <3>1
    <3> QED BY <3>2, <3>3 DEF Within
  <2> QED BY <2>1, <2>2
<1>3. Distinct(ids \cup ArmedRuns)'
  BY <1>1 DEF Distinct, Contract, Family
<1> QED BY <1>1, <1>2, <1>3 DEF ArmedInv

LEMMA CommittedKeepsRoom ==
  ASSUME Limits, Committed
  PROVE  LimitsInv' /\ CapacityInv'
<1>1. /\ op.request.ids \in SUBSET Runs
      /\ \A r \in op.request.ids : NewlyArmed(r)
      /\ \A r \in Runs \ op.request.ids : runs'[r] = runs[r]
  BY CommittedRuns DEF Limits, Inv
<1>2. op.kind = "arm" /\ op'.kind = "idle" /\ setup' = setup /\ position' = position
  BY DEF Committed, Idle
<1>3. LimitsInv'
  BY <1>1, <1>2 DEF Limits, LimitsInv, Versions, NewlyArmed, Armed, Suspended
<1>4. ArmedInv'
  BY <1>1, <1>2, ArmingKeepsRoom DEF Limits, CapacityInv, ArmRoom, NewlyArmed, Armed
<1> QED BY <1>2, <1>3, <1>4 DEF CapacityInv, ArmRoom, ResumeRoom

LEMMA ResumedKeepsRoom ==
  ASSUME Limits, NEW r \in Runs, Resumed(r)
  PROVE  LimitsInv' /\ CapacityInv'
<1>1. /\ \A q \in Runs : Kept(q)
      /\ runs'[r].status = "authorized" /\ \A q \in Runs \ {r} : runs'[q] = runs[q]
  BY ResumedRun DEF Limits, Inv
<1>2. op.kind = "resume" /\ op.run = r /\ Suspended(r) /\ op'.kind = "idle" /\ setup' = setup /\ position' = position
  BY DEF Resumed, Idle
<1>3. LimitsInv'
  BY <1>1, <1>2 DEF Limits, LimitsInv, Versions, Kept, Armed, Suspended
<1>4. ArmedInv'
  <2>0. PICK version : version = runs[r].limits
    OBVIOUS
  <2>1. PICK ids \in SUBSET Runs : ids = {r} /\ version = runs[r].limits
    BY <2>0
  <2>2. /\ \A q \in ids : Armed(q)' /\ runs'[q].limits = version
        /\ \A q \in Runs \ ids : runs'[q] = runs[q]
    BY <1>1, <2>1 DEF Kept, Armed
  <2>3. ArmedInv /\ Allowed(ids \cup ArmedRuns, version) /\ Distinct(ids \cup ArmedRuns) /\ setup' = setup
    BY <1>2, <2>1 DEF Limits, CapacityInv, ResumeRoom
  <2> QED BY <2>2, <2>3, ArmingKeepsRoom
<1> QED BY <1>2, <1>3, <1>4 DEF CapacityInv, ArmRoom, ResumeRoom

LEMMA TradingKeepsRoom ==
  ASSUME Limits, NEW r \in Runs, Entry(r) \/ EntryEnds(r) \/ TradeCloses(r) \/ Archive(r)
  PROVE  LimitsInv' /\ CapacityInv'
<1> USE DEF Limits, Inv
<1>1. op' = Idle /\ setup' = setup
  BY DEF Entry, EntryEnds, TradeCloses, Archive
<1>2. \A q \in Runs : runs'[q].status = runs[q].status /\ runs'[q].limits = runs[q].limits
  <2>1. CASE Entry(r)
    <3>1. runs' = [runs EXCEPT ![r].entries = @ + 1]
      BY <2>1 DEF Entry
    <3> QED BY <3>1 DEF Typed, Document
  <2>2. CASE EntryEnds(r) \/ TradeCloses(r)
    BY <2>2 DEF EntryEnds, TradeCloses
  <2>3. CASE Archive(r)
    <3>1. runs' = [runs EXCEPT ![r].archived = ~@]
      BY <2>3 DEF Archive
    <3> QED BY <3>1 DEF Typed, Document
  <2> QED BY <2>1, <2>2, <2>3
<1>3. \A q \in Runs : position'[q] = "working" => position[q] = "working" \/ Armed(q)
  <2>1. CASE Entry(r)
    BY <2>1 DEF Entry, Typed
  <2>2. CASE EntryEnds(r)
    <3>1. PICK p \in {"flat", "held"} : position' = [position EXCEPT ![r] = p]
      BY <2>2 DEF EntryEnds
    <3> QED BY <3>1 DEF Typed
  <2>3. CASE TradeCloses(r)
    BY <2>3 DEF TradeCloses, Typed
  <2>4. CASE Archive(r)
    BY <2>4 DEF Archive
  <2> QED BY <2>1, <2>2, <2>3, <2>4
<1>4. LimitsInv'
  BY <1>1, <1>2, <1>3 DEF LimitsInv, Versions, Armed, Suspended, Idle
<1>5. ArmedRuns' = ArmedRuns /\ ArmedRuns \subseteq Runs
  BY <1>2 DEF ArmedRuns, Armed
<1>6. ArmedInv'
  <2>1. ASSUME NEW S \in SUBSET ArmedRuns', S # {} PROVE Within(S)'
    <3>1. PICK q \in S : Cardinality(S) <= setup.capacity[runs[q].limits]
      BY <1>5, <2>1 DEF CapacityInv, ArmedInv, Within
    <3>2. runs'[q].limits = runs[q].limits
      BY <1>2, <1>5, <2>1
    <3> QED BY <1>1, <3>1, <3>2 DEF Within
  <2>2. Distinct(ArmedRuns)'
    BY <1>1, <1>5 DEF CapacityInv, ArmedInv, Distinct, Contract, Family
  <2> QED BY <2>1, <2>2 DEF ArmedInv
<1> QED BY <1>1, <1>4, <1>6 DEF CapacityInv, ArmRoom, ResumeRoom, Idle

LEMMA LimitsInductive == Limits /\ [Next]_vars => Limits'
<1> SUFFICES ASSUME Limits, [Next]_vars PROVE Limits'
  OBVIOUS
<1>1. Inv' /\ Graded' /\ Published'
  BY InvInductive, PublishedKeeps DEF Limits
<1>2. LimitsInv' /\ CapacityInv'
  <2>1. CASE Typed' /\ Weakens
    BY <2>1, WeakensKeepsRoom DEF Limits, Inv
  <2>2. CASE Beginning
    BY <2>2, BeginArmKeepsRoom, BeginResumeKeepsRoom DEF Beginning
  <2>3. CASE Committed
    BY <2>3, CommittedKeepsRoom
  <2>4. CASE Resuming
    BY <2>4, ResumedKeepsRoom DEF Resuming
  <2>5. CASE Trading
    BY <2>5, TradingKeepsRoom DEF Trading
  <2> QED BY <2>1, <2>2, <2>3, <2>4, <2>5, Cases DEF Limits, Inv
<1> QED BY <1>1, <1>2 DEF Limits

LEMMA InitLimits == Sound /\ Init => Limits
<1> SUFFICES ASSUME Sound, Init PROVE Limits
  OBVIOUS
<1>1. Graded
  BY DEF Sound, Init, Graded
<1>2. Published
  <2>1. PICK n \in Nat \ {0} : setup.capacity \in [1..n -> Nat]
    BY <1>1 DEF Graded
  <2>2. published = 1 /\ page = Nothing
    BY DEF Init
  <2> QED BY <2>1, <2>2 DEF Published, Versions
<1>3. ArmedRuns = {}
  BY DEF Init, ArmedRuns, Armed
<1>4. LimitsInv
  BY DEF Init, LimitsInv, Armed, Suspended, Idle
<1>5. CapacityInv
  BY <1>3 DEF Init, CapacityInv, ArmedInv, ArmRoom, ResumeRoom, Distinct, Idle
<1> QED BY <1>1, <1>2, <1>4, <1>5, InitInv DEF Limits

LEMMA LimitsHold == Sound /\ Spec => []Limits
BY InitLimits, LimitsInductive, PTL DEF Spec

(* However reviews, publications of limits, suspensions and resumptions      *)
(* follow on each other, the armed runs are no more than the limits of one   *)
(* of them allow, and no two of them share a contract unless both are of     *)
(* reviewed paper stock.  Runs that are suspended, or armed under wider      *)
(* limits while an earlier review waits, never add up to more.               *)
THEOREM LimitsAreKept == Sound /\ Spec => []WithinProfile
<1>1. Limits => WithinProfile
  <2> SUFFICES ASSUME Limits PROVE WithinProfile
    OBVIOUS
  <2>1. ArmedRuns # {} => Within(ArmedRuns)
    BY DEF Limits, CapacityInv, ArmedInv
  <2>2. Distinct(ArmedRuns)
    BY DEF Limits, CapacityInv, ArmedInv
  <2> QED BY <2>1, <2>2 DEF WithinProfile, Within, Distinct, ArmedRuns
<1> QED BY <1>1, LimitsHold, PTL

(* The types of the commitment; an engine that lost the workspace has lost it *)
(* to the next instance, and the published limits are among those there are.  *)
THEOREM TypeCorrect == Sound /\ Spec => []TypeOK
<1> DEFINE Owner == owner \in engine.instance..engine.instance + 1
<1>1. Init => Owner
  BY DEF Init
<1>2. Inv /\ Owner /\ [Next]_vars => Owner'
  <2> SUFFICES ASSUME Inv, Owner, [Next]_vars PROVE Owner'
    OBVIOUS
  <2>1. CASE Takeover
    BY <2>1 DEF Takeover, Inv, Typed
  <2>2. CASE ProcessEnds
    BY <2>2 DEF ProcessEnds, Inv, Typed, store
  <2>3. CASE InvalidateAuthorizations
    BY <2>3 DEF InvalidateAuthorizations, Inv, Typed
  <2>4. CASE Conditions
    BY <2>4 DEF Conditions, Inv, Typed, store
  <2>5. CASE UNCHANGED <<owner, engine>>
    BY <2>5
  <2>6. CASE \E ids \in SUBSET Runs \ {{}}, v \in 1..published : ArmPreview(ids, v)
    BY <2>5, <2>6 DEF ArmPreview, store
  <2>7. CASE \E a \in Actions, request \in Requests : BeginArm(a, request)
    <3>1. PICK a \in Actions, request \in Requests : BeginArm(a, request)
      BY <2>7
    <3> QED BY <2>5, <3>1 DEF BeginArm, store
  <2>8. CASE \/ CommitArm \/ CommitResume \/ SetEmergency \/ ClearEmergency \/ AcceptReview \/ SaveProfile \/ UNCHANGED vars
    BY <2>5, <2>8 DEF CommitArm, CommitResume, SetEmergency, ClearEmergency, AcceptReview, SaveProfile, vars
  <2>9. CASE \E s \in Scopes : Recover(s) \/ \E routine \in BOOLEAN : Incident(s, routine)
    BY <2>5, <2>9 DEF Recover, Incident
  <2>10. CASE \E r \in Runs : BeginResume(r) \/ RefuseResume(r) \/ Disarm(r) \/ Entry(r) \/ EntryEnds(r) \/ TradeCloses(r) \/ Archive(r)
    BY <2>5, <2>10 DEF BeginResume, RefuseResume, Disarm, Entry, EntryEnds, TradeCloses, Archive, store
  <2> HIDE DEF Owner
  <2> QED BY <2>1, <2>2, <2>3, <2>4, <2>6, <2>7, <2>8, <2>9, <2>10, Zenon DEF Next
<1>3. Limits /\ Owner => TypeOK
  <2> SUFFICES ASSUME Limits, Owner PROVE TypeOK
    OBVIOUS
  <2>1. published \in 1..Cardinality(DOMAIN setup.capacity)
    BY Grades DEF Limits, Published, Versions
  <2> QED BY <2>1 DEF Limits, Inv, Typed, TypeOK, Document, Positions
<1> HIDE DEF Owner
<1> QED BY <1>1, <1>2, <1>3, InvHolds, LimitsHold, PTL DEF Spec
=============================================================================
