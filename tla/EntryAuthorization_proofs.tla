---------------------- MODULE EntryAuthorization_proofs ----------------------
(***************************************************************************)
(* Proofs about EntryAuthorization, for every set of runs and contracts,   *)
(* every capacity and every number of reviews, alarms and restarts.        *)
(***************************************************************************)
EXTENDS EntryAuthorization, FiniteSetTheorems, TLAPS

-----------------------------------------------------------------------------
(* Types.                                                                  *)

(* A revoked document is a document. *)
LEMMA RevokedType == ASSUME NEW doc \in Run PROVE Revoked(doc) \in Run
BY DEF Revoked, Run, Statuses

(* Disarming and containing leave documents of runs (disarm, raise_in). *)
LEMMA DisarmedType ==
  ASSUME TypeOK, NEW S, Disarmed(S)
  PROVE  run' \in [Runs -> Run] /\ reviewed' \subseteq Runs
BY RevokedType DEF TypeOK, Disarmed

LEMMA RaisedInType ==
  ASSUME TypeOK, NEW S \in SUBSET Runs, NEW resumable \in BOOLEAN, RaisedIn(S, resumable)
  PROVE  /\ run' \in [Runs -> Run] /\ holds' \subseteq Runs
         /\ intents' \subseteq Runs /\ reviewed' \subseteq Runs
<1> USE DEF TypeOK, RaisedIn
<1>1. \A r \in Runs : \A s \in Statuses : [run[r] EXCEPT !.status = s] \in Run
  BY DEF Run
<1>2. run' \in [Runs -> Run]
  BY <1>1 DEF Statuses
<1> QED BY <1>2

LEMMA CancelledType ==
  ASSUME TypeOK, NEW S
  PROVE  Cancelled(S) \in [Runs -> Orders]
BY DEF TypeOK, Cancelled, Orders

(* What a stopped process leaves of an order is a state of an order (_restore). *)
LEMMA LeftType == ASSUME TypeOK, NEW r \in Runs PROVE Left(r) \subseteq Orders
BY DEF TypeOK, Left, Orders

(* What the engine has read when it has read nothing is a function of documents. *)
LEMMA NothingType == Nothing \in [Runs -> Run]
BY DEF Nothing, Run, Statuses

LEMMA TypeInductive == TypeOK /\ [Next]_vars => TypeOK'
<1> SUFFICES ASSUME TypeOK, [Next]_vars PROVE TypeOK'
  OBVIOUS
<1>1. ASSUME NEW r \in Runs, Enter(r) PROVE TypeOK'
  <2>1. CASE Signal(r)
    BY <2>1 DEF Signal, TypeOK, GoTo, Places, others, history
  <2>2. CASE Refuse(r)
    BY <2>2, NothingType DEF Refuse, TypeOK, GoTo, Places, Rest, others, history
  <2>3. CASE Check(r) \/ GuardPasses(r) \/ Submit(r)
    BY <2>3 DEF Check, GuardPasses, Submit, TypeOK, GoTo, Places, durable, others, history
  <2>4. CASE Reserve(r)
    BY <2>4 DEF Reserve, TypeOK, GoTo, Places, Orders, others, history
  <2>5. CASE GuardBlocks(r)
    BY <2>5, DisarmedType, NothingType
       DEF GuardBlocks, TypeOK, GoTo, Places, Rest, Orders, others
  <2>6. CASE MarkDispatch(r)
    BY <2>6 DEF MarkDispatch, TypeOK, GoTo, Places, Orders, others, history
  <2>7. CASE SubmitRaises(r)
    BY <2>7, RaisedInType DEF SubmitRaises, TypeOK, GoTo, Places, Orders, others
  <2>8. CASE ReadRun(r)
    BY <2>8 DEF ReadRun, TypeOK, GoTo, Places, durable, others, history
  <2>9. CASE PutRun(r)
    <3>1. [read[r] EXCEPT !.entries = @ + 1] \in Run
      BY DEF TypeOK, Run
    <3> QED BY <2>9, <3>1, NothingType
      DEF PutRun, TypeOK, Invalidated, GoTo, Places, Rest, others, history
  <2> QED BY <1>1, <2>1, <2>2, <2>3, <2>4, <2>5, <2>6, <2>7, <2>8, <2>9 DEF Enter
<1>2. ASSUME NEW r \in Runs, Operate(r) PROVE TypeOK'
  <2>1. CASE Arm(r)
    <3>1. \A kept \in {0, run[r].entries} : [status |-> "authorized", entries |-> kept] \in Run
      BY DEF TypeOK, Run, Statuses
    <3> QED BY <2>1, <3>1 DEF Arm, TypeOK, engine, others
  <2>2. CASE Disarm(r)
    BY <2>2, DisarmedType, CancelledType DEF Disarm, Cancels, Invalidated, TypeOK, others
  <2>3. CASE Resume(r)
    <3>1. [run[r] EXCEPT !.status = "authorized"] \in Run
      BY DEF TypeOK, Run, Statuses
    <3> QED BY <2>3, <3>1 DEF Resume, TypeOK, engine, others, history
  <2>4. CASE Release(r)
    BY <2>4 DEF Release, TypeOK, engine, others, history
  <2>5. CASE FlushIncident(r)
    BY <2>5 DEF FlushIncident, Invalidated, TypeOK, Orders, others, history
  <2>6. CASE Answered(r)
    BY <2>6 DEF Answered, Invalidated, TypeOK, Orders, others, history
  <2>8. CASE Uncertain(r)
    <3>1. /\ run' \in [Runs -> Run] /\ holds' \subseteq Runs
          /\ intents' \subseteq Runs /\ reviewed' \subseteq Runs
      <4>1. CASE RaisedIn({r}, FALSE)
        BY <4>1, RaisedInType
      <4>2. CASE UNCHANGED <<run, holds, intents, reviewed>>
        BY <4>2 DEF TypeOK
      <4> QED BY <2>8, <4>1, <4>2 DEF Uncertain
    <3> QED BY <2>8, <3>1 DEF Uncertain, Invalidated, TypeOK, Orders, others
  <2>9. CASE CancelEntry(r)
    BY <2>9 DEF CancelEntry, Invalidated, TypeOK, Orders, others, history
  <2>7. ASSUME NEW resumable \in BOOLEAN, Incident({r}, resumable) \/ Incident(Runs, resumable)
        PROVE  TypeOK'
    <3>1. PICK S \in {{r}, Runs} : Incident(S, resumable)
      BY <2>7
    <3>2. S \in SUBSET Runs
      BY <3>1
    <3>3. RaisedIn(S, resumable)
      BY <3>1 DEF Incident
    <3>4. /\ run' \in [Runs -> Run] /\ holds' \subseteq Runs
          /\ intents' \subseteq Runs /\ reviewed' \subseteq Runs
      BY <3>2, <3>3, RaisedInType
    <3> QED BY <3>1, <3>4 DEF Incident, TypeOK, engine, others
  <2> QED BY <1>2, <2>1, <2>2, <2>3, <2>4, <2>5, <2>6, <2>7, <2>8, <2>9 DEF Operate
<1>3. CASE Emergency
  <2>1. CASE PressEmergency
    BY <2>1, DisarmedType DEF PressEmergency, Stopped, TypeOK, engine
  <2>2. CASE CommandEmergency
    <3>1. /\ run' \in [Runs -> Run] /\ reviewed' \subseteq Runs
          /\ order' \in [Runs -> Orders]
      BY <2>2, DisarmedType, CancelledType DEF CommandEmergency, Stopped, Cancels
    <3>2. ready' \in BOOLEAN /\ begun' \in BOOLEAN
      BY <2>2 DEF CommandEmergency, Cancels, Invalidated, TypeOK
    <3> QED BY <2>2, <3>1, <3>2 DEF CommandEmergency, Stopped, TypeOK
  <2>3. CASE CallExpires
    BY <2>3 DEF CallExpires, TypeOK, durable, engine, history
  <2>4. CASE ClearEmergency
    BY <2>4 DEF ClearEmergency, TypeOK, engine, others
  <2> QED BY <1>3, <2>1, <2>2, <2>3, <2>4 DEF Emergency
<1>4. CASE Watchdog
  <2>1. CASE WatchdogAlarm
    <3>1. /\ run' \in [Runs -> Run] /\ holds' \subseteq Runs
          /\ intents' \subseteq Runs /\ reviewed' \subseteq Runs
      <4>1. CASE RaisedIn(Runs, FALSE)
        BY <4>1, RaisedInType
      <4>2. CASE UNCHANGED <<run, holds, intents, reviewed>>
        BY <4>2 DEF TypeOK
      <4> QED BY <2>1, <4>1, <4>2 DEF WatchdogAlarm
    <3> QED BY <2>1, <3>1 DEF WatchdogAlarm, TypeOK, engine
  <2>2. CASE WatchdogRecovers
    BY <2>2 DEF WatchdogRecovers, TypeOK, durable, engine, history
  <2> QED BY <1>4, <2>1, <2>2 DEF Watchdog
<1>5. CASE BeginBatch \/ EndBatch \/ BeginReconcile
  <2>1. CASE BeginBatch
    BY <2>1 DEF BeginBatch, TypeOK, durable, others, history
  <2>2. CASE EndBatch
    BY <2>2, NothingType DEF EndBatch, TypeOK, durable, others, history
  <2>3. CASE BeginReconcile
    <3>1. ready' \in BOOLEAN
      BY <2>3 DEF BeginReconcile, TypeOK
    <3> QED BY <2>3, <3>1 DEF BeginReconcile, TypeOK, durable, others, history
  <2> QED BY <1>5, <2>1, <2>2, <2>3
<1>6. CASE Reconcile
  BY <1>6 DEF Reconcile, Settled, TypeOK, GoTo, Places, others, history
<1>7. CASE Publish
  BY <1>7, NothingType DEF Publish, TypeOK, GoTo, Places, Rest, others, history
<1>8. CASE Restart
  BY <1>8, DisarmedType, NothingType
     DEF Restart, Invalidated, TypeOK, GoTo, Places, Rest, Orders
<1>9. CASE UNCHANGED vars
  BY <1>9 DEF vars, durable, engine, others, history, TypeOK
<1> QED BY <1>1, <1>2, <1>3, <1>4, <1>5, <1>6, <1>7, <1>8, <1>9 DEF Next

LEMMA TypeAtInit == Init => TypeOK
<1> SUFFICES ASSUME Init PROVE TypeOK
  OBVIOUS
<1>1. run \in [Runs -> Run] /\ listed \in [Runs -> Run] /\ read \in [Runs -> Run]
  BY NothingType DEF Init
<1>2. order \in [Runs -> Orders]
  BY DEF Init, Orders
<1>3. place \in [at : Places, run : Runs \cup {NoRun}]
  BY DEF Init, Places
<1> QED BY <1>1, <1>2, <1>3 DEF Init, TypeOK

(* Every variable keeps to the values the code can store. *)
THEOREM TypeCorrect == Spec => []TypeOK
BY TypeAtInit, TypeInductive, PTL DEF Spec

-----------------------------------------------------------------------------
(* The emergency stop.  EmergencyStopsEntries is inductive: while the stop  *)
(* is answered the flag is set, with the flag no order is marked, and only  *)
(* an order that was unknown already is found to work.                      *)

LEMMA StopInductive ==
  TypeOK /\ EmergencyStopsEntries /\ [Next]_vars => EmergencyStopsEntries'
<1> SUFFICES ASSUME TypeOK, EmergencyStopsEntries, [Next]_vars PROVE EmergencyStopsEntries'
  OBVIOUS
<1> USE DEF EmergencyStopsEntries, Exposed
<1>1. ASSUME NEW r \in Runs, Enter(r) PROVE EmergencyStopsEntries'
  <2>1. CASE Signal(r) \/ Refuse(r) \/ PutRun(r)
    <3>1. UNCHANGED <<emergency, order, stopped, doubted>> /\ place'.at \in {"enter", "idle"}
      BY <2>1 DEF Signal, Refuse, PutRun, GoTo, Rest, history
    <3> QED BY <3>1
  <2>2. CASE Check(r) \/ GuardPasses(r) \/ Submit(r) \/ ReadRun(r)
    <3>1. UNCHANGED <<emergency, order, stopped, doubted>> /\ place'.at \in {"reserve", "mark", "count", "put"}
      BY <2>2 DEF Check, GuardPasses, Submit, ReadRun, GoTo, durable, history
    <3> QED BY <3>1
  <2>5. CASE Reserve(r)
    BY <2>5 DEF Reserve, TypeOK, GoTo, history
  <2>6. CASE GuardBlocks(r)
    BY <2>6 DEF GuardBlocks, TypeOK, GoTo, Rest
  <2>3. CASE MarkDispatch(r)
    BY <2>3 DEF MarkDispatch, history
  <2>4. CASE SubmitRaises(r)
    BY <2>4 DEF SubmitRaises, At
  <2> QED BY <1>1, <2>1, <2>2, <2>3, <2>4, <2>5, <2>6 DEF Enter
<1>2. ASSUME NEW r \in Runs, Operate(r) PROVE EmergencyStopsEntries'
  <2>1. CASE Arm(r) \/ Resume(r) \/ Release(r)
    BY <2>1 DEF Arm, Resume, Release, engine, history
  <2>2. CASE Disarm(r)
    BY <2>2 DEF Disarm, Cancels, Cancelled
  <2>3. CASE FlushIncident(r) \/ Answered(r)
    BY <2>3 DEF FlushIncident, Answered, TypeOK, history
  <2>5. CASE Uncertain(r) \/ CancelEntry(r)
    BY <2>5 DEF Uncertain, CancelEntry, TypeOK, history
  <2>4. ASSUME NEW resumable \in BOOLEAN, Incident({r}, resumable) \/ Incident(Runs, resumable)
        PROVE  EmergencyStopsEntries'
    BY <2>4 DEF Incident, engine
  <2> QED BY <1>2, <2>1, <2>2, <2>3, <2>4, <2>5 DEF Operate
<1>3. CASE Emergency
  BY <1>3 DEF Emergency, PressEmergency, CommandEmergency, CallExpires, ClearEmergency, Stopped,
              Between, Idle, Cancels, Cancelled, durable, engine, history
<1>4. CASE Watchdog
  BY <1>4 DEF Watchdog, WatchdogAlarm, WatchdogRecovers, durable, engine, history
<1>5. CASE BeginBatch \/ EndBatch \/ BeginReconcile
  BY <1>5 DEF BeginBatch, EndBatch, BeginReconcile, durable, history
<1>8. CASE Reconcile
  BY <1>8 DEF Reconcile, GoTo, history
<1>9. CASE Publish
  BY <1>9 DEF Publish, GoTo, Rest, history
<1>6. CASE Restart
  <2>1. \A r \in Runs : stopped => order'[r] = order[r] \/ order'[r] = "unsent"
    BY <1>6 DEF Restart, Left, At
  <2> QED BY <1>6, <2>1 DEF Restart, GoTo, Rest
<1>7. CASE UNCHANGED vars
  BY <1>7 DEF vars, durable, engine, history
<1> QED BY <1>1, <1>2, <1>3, <1>4, <1>5, <1>6, <1>7, <1>8, <1>9 DEF Next

(* Once the engine has answered the emergency call no order is being        *)
(* submitted, and the only orders that may be with the broker unasked to    *)
(* cancel are those whose outcome was unknown when it answered (disarm      *)
(* cancels what works or is being dispatched).                              *)
THEOREM AnsweredStopHolds == Spec => []EmergencyStopsEntries
<1>1. Init => TypeOK /\ EmergencyStopsEntries
  BY TypeAtInit DEF Init, EmergencyStopsEntries
<1> QED BY <1>1, TypeInductive, StopInductive, PTL DEF Spec

-----------------------------------------------------------------------------
(* Restrictions.  A run that is on its way to dispatch and still armed is   *)
(* not restricted, and what is being submitted was sent.                    *)

OnItsWay == place.at \in {"reserve", "guard", "mark"}

HoldInv ==
  /\ \A r \in Runs : OnItsWay /\ place.run = r /\ Armed(r) => r \notin holds
  /\ \A r \in Runs : At("submit", r) => order[r] = "sent"
  /\ HeldEntryIsCancelled

(* raise_in leaves no held run that is armed, when nothing may be resumed,  *)
(* and none with an entry that is not asked to be cancelled.                *)
LEMMA RaisedInHolds ==
  ASSUME TypeOK, HeldEntryIsCancelled, NEW S \in SUBSET Runs, NEW resumable \in BOOLEAN,
         RaisedIn(S, resumable)
  PROVE  /\ \A r \in holds' : order[r] \in Pending \ {"cancel_pending"} => r \in intents'
         /\ \A r \in S : ~resumable => run'[r].status # "authorized"
BY DEF RaisedIn, HeldEntryIsCancelled, TypeOK, Run

LEMMA HoldInductive == TypeOK /\ HoldInv /\ [Next]_vars => HoldInv'
<1> SUFFICES ASSUME TypeOK, HoldInv, [Next]_vars PROVE HoldInv'
  OBVIOUS
<1> USE DEF HoldInv, HeldEntryIsCancelled, OnItsWay, At, Armed
<1>1. ASSUME NEW r \in Runs, Enter(r) PROVE HoldInv'
  <2>1. CASE Signal(r) \/ Refuse(r) \/ ReadRun(r) \/ PutRun(r)
    BY <2>1 DEF Signal, Refuse, ReadRun, PutRun, GoTo, Rest, durable
  <2>2. CASE Check(r) \/ GuardPasses(r) \/ Submit(r)
    BY <2>2 DEF Check, GuardPasses, Submit, GoTo, durable
  <2>3. CASE Reserve(r)
    BY <2>3 DEF Reserve, GoTo, TypeOK, Pending, Orders
  <2>4. CASE GuardBlocks(r)
    BY <2>4 DEF GuardBlocks, GoTo, Rest, TypeOK, Pending, Orders
  <2>5. CASE MarkDispatch(r)
    BY <2>5 DEF MarkDispatch, GoTo, TypeOK, Pending, Orders
  <2>6. CASE SubmitRaises(r)
    <3>1. \A s \in holds' : order[s] \in Pending \ {"cancel_pending"} => s \in intents'
      BY <2>6, RaisedInHolds DEF SubmitRaises
    <3>2. order[r] = "sent"
      BY <2>6 DEF SubmitRaises
    <3> QED BY <2>6, <3>1, <3>2 DEF SubmitRaises, GoTo, TypeOK, Pending, Orders
  <2> QED BY <1>1, <2>1, <2>2, <2>3, <2>4, <2>5, <2>6 DEF Enter
<1>2. ASSUME NEW r \in Runs, Operate(r) PROVE HoldInv'
  <2>1. CASE Arm(r) \/ Resume(r) \/ Release(r)
    BY <2>1 DEF Arm, Resume, Release, Between, Idle, engine
  <2>2. CASE Disarm(r)
    BY <2>2 DEF Disarm, Cancels, Cancelled, Between, Idle, Pending, Orders, TypeOK
  <2>3. CASE FlushIncident(r)
    BY <2>3 DEF FlushIncident, Between, Idle, Pending, Orders, TypeOK
  <2>4. CASE Answered(r)
    BY <2>4 DEF Answered, Idle, Pending, Orders, TypeOK
  <2>6. CASE Uncertain(r)
    <3>1. \A s \in holds' : order[s] \in Pending \ {"cancel_pending"} => s \in intents'
      <4>1. CASE RaisedIn({r}, FALSE)
        BY <4>1, RaisedInHolds
      <4>2. CASE UNCHANGED <<run, holds, intents, reviewed>>
        BY <4>2
      <4> QED BY <2>6, <4>1, <4>2 DEF Uncertain
    <3>2. \A s \in Runs : order'[s] \in Pending \ {"cancel_pending"} =>
                          order[s] \in Pending \ {"cancel_pending"}
      BY <2>6 DEF Uncertain, Pending, Orders, TypeOK
    <3> QED BY <2>6, <3>1, <3>2 DEF Uncertain, Idle, TypeOK
  <2>7. CASE CancelEntry(r)
    BY <2>7 DEF CancelEntry, Between, Idle, TypeOK
  <2>5. ASSUME NEW resumable \in BOOLEAN, Incident({r}, resumable) \/ Incident(Runs, resumable)
        PROVE  HoldInv'
    <3>1. \A s \in holds' : order[s] \in Pending \ {"cancel_pending"} => s \in intents'
      BY <2>5, RaisedInHolds DEF Incident
    <3> QED BY <2>5, <3>1 DEF Incident, Idle, engine
  <2> QED BY <1>2, <2>1, <2>2, <2>3, <2>4, <2>5, <2>6, <2>7 DEF Operate
<1>3. CASE Emergency
  BY <1>3 DEF Emergency, PressEmergency, CommandEmergency, CallExpires, ClearEmergency, Stopped,
              Disarmed, Revoked, Between, Idle, Cancels, Cancelled, Pending, Orders, TypeOK, Run,
              durable, engine
<1>4. CASE Watchdog
  <2>1. CASE WatchdogAlarm
    <3>1. CASE RaisedIn(Runs, FALSE)
      <4>1. /\ \A s \in holds' : order[s] \in Pending \ {"cancel_pending"} => s \in intents'
            /\ \A s \in Runs : run'[s].status # "authorized"
        BY <3>1, RaisedInHolds
      <4> QED BY <2>1, <4>1 DEF WatchdogAlarm, engine
    <3>2. CASE UNCHANGED <<run, holds, intents, reviewed>>
      BY <2>1, <3>2 DEF WatchdogAlarm, engine
    <3> QED BY <2>1, <3>1, <3>2 DEF WatchdogAlarm
  <2>2. CASE WatchdogRecovers
    BY <2>2 DEF WatchdogRecovers, durable, engine
  <2> QED BY <1>4, <2>1, <2>2 DEF Watchdog
<1>5. CASE BeginBatch \/ EndBatch \/ BeginReconcile
  BY <1>5 DEF BeginBatch, EndBatch, BeginReconcile, durable
<1>6. CASE Reconcile
  BY <1>6 DEF Reconcile, GoTo
<1>9. CASE Publish
  BY <1>9 DEF Publish, GoTo, Rest
<1>7. CASE Restart
  <2>1. \A r \in Runs : order'[r] \in Pending \ {"cancel_pending"} =>
                        order[r] \in Pending \ {"cancel_pending"}
    BY <1>7 DEF Restart, Left, At, Pending, Orders, TypeOK
  <2>2. \A r \in Runs : run'[r].status # "authorized"
    BY <1>7 DEF Restart, Disarmed, Revoked, TypeOK, Run
  <2> QED BY <1>7, <2>1, <2>2 DEF Restart, GoTo, Rest, TypeOK
<1>8. CASE UNCHANGED vars
  BY <1>8 DEF vars, durable, engine
<1> QED BY <1>1, <1>2, <1>3, <1>4, <1>5, <1>6, <1>7, <1>8, <1>9 DEF Next

LEMMA HoldAtInit == Init => HoldInv
BY DEF Init, HoldInv, OnItsWay, At, Armed, HeldEntryIsCancelled

(* A restricted run has no live entry without a durable cancellation, in    *)
(* every interleaving of the engine, the emergency call and the watchdog.   *)
THEOREM RestrictionCancels == Spec => []HeldEntryIsCancelled
<1>1. HoldInv => HeldEntryIsCancelled
  BY DEF HoldInv
<1> QED BY <1>1, TypeAtInit, HoldAtInit, TypeInductive, HoldInductive, PTL DEF Spec

-----------------------------------------------------------------------------
(* Dispatch.  Only mark_dispatch turns a reserved order into a sent one.    *)

Dispatched(r) == order[r] = "reserved" /\ order'[r] = "sent"
Authorizes(r) == Armed(r) /\ ~emergency /\ r \notin holds

LEMMA DispatchStep ==
  TypeOK /\ HoldInv /\ [Next]_vars => [\A r \in Runs : Dispatched(r) => Authorizes(r)]_vars
<1> SUFFICES ASSUME TypeOK, HoldInv, Next, NEW r \in Runs, Dispatched(r) PROVE Authorizes(r)
  OBVIOUS
<1> USE DEF Dispatched
<1>1. ASSUME NEW s \in Runs, Enter(s) PROVE Authorizes(r)
  <2>1. CASE MarkDispatch(s)
    <3>1. r = s
      BY <2>1 DEF MarkDispatch, TypeOK
    <3> QED BY <2>1, <3>1 DEF MarkDispatch, HoldInv, OnItsWay, At, Authorizes
  <2>2. CASE Signal(s) \/ Refuse(s) \/ Check(s) \/ GuardPasses(s)
    BY <2>2 DEF Signal, Refuse, Check, GuardPasses, durable
  <2>3. CASE Submit(s) \/ ReadRun(s) \/ PutRun(s)
    BY <2>3 DEF Submit, ReadRun, PutRun, durable
  <2>4. CASE Reserve(s) \/ GuardBlocks(s) \/ SubmitRaises(s)
    BY <2>4 DEF Reserve, GuardBlocks, SubmitRaises, TypeOK
  <2> QED BY <1>1, <2>1, <2>2, <2>3, <2>4 DEF Enter
<1>2. ASSUME NEW s \in Runs, Operate(s) PROVE FALSE
  <2>1. CASE Arm(s) \/ Resume(s) \/ Release(s)
    BY <2>1 DEF Arm, Resume, Release
  <2>2. CASE Disarm(s)
    BY <2>2 DEF Disarm, Cancels, Cancelled
  <2>3. CASE FlushIncident(s) \/ Answered(s)
    BY <2>3 DEF FlushIncident, Answered, TypeOK
  <2>5. CASE Uncertain(s) \/ CancelEntry(s)
    BY <2>5 DEF Uncertain, CancelEntry, TypeOK
  <2>4. ASSUME NEW resumable \in BOOLEAN, Incident({s}, resumable) \/ Incident(Runs, resumable)
        PROVE  FALSE
    BY <2>4 DEF Incident
  <2> QED BY <1>2, <2>1, <2>2, <2>3, <2>4, <2>5 DEF Operate
<1>3. CASE Emergency \/ Watchdog
  BY <1>3 DEF Emergency, PressEmergency, CommandEmergency, CallExpires, ClearEmergency,
              Cancels, Cancelled, Watchdog, WatchdogAlarm, WatchdogRecovers, durable
<1>4. CASE BeginBatch \/ EndBatch \/ BeginReconcile \/ Reconcile \/ Publish
  BY <1>4 DEF BeginBatch, EndBatch, BeginReconcile, Reconcile, Publish, durable
<1>5. CASE Restart
  BY <1>5 DEF Restart, Left
<1> QED BY <1>1, <1>2, <1>3, <1>4, <1>5 DEF Next

(* An order leaves only for a run that is armed in the store at that very   *)
(* moment, without an emergency stop and without a restriction.             *)
THEOREM DispatchNeedsAuthorization == Spec => DispatchIsAuthorized
<1>1. TypeOK /\ HoldInv /\ [Next]_vars =>
        [\A r \in Runs : order[r] = "reserved" /\ order'[r] = "sent" =>
           Armed(r) /\ ~emergency /\ r \notin holds]_vars
  BY DispatchStep DEF Dispatched, Authorizes
<1> QED BY <1>1, TypeAtInit, HoldAtInit, TypeInductive, HoldInductive, PTL
        DEF Spec, DispatchIsAuthorized

-----------------------------------------------------------------------------
(* Capacity.                                                               *)

CapacityInv == IsFiniteSet(reserved) /\ ExposureIsReserved

(* Reservations are only added by reserve_order ... *)
LEMMA OneMoreReservation ==
  ASSUME CapacityInv, NEW r \in Runs, Reserve(r), TypeOK
  PROVE  CapacityInv'
<1>1. reserved' = reserved \cup {r} /\ order' = [order EXCEPT ![r] = "reserved"]
  BY DEF Reserve
<1>2. r \notin reserved
  BY DEF Reserve, Shares
<1>3. IsFiniteSet(reserved') /\ Cardinality(reserved') = Cardinality(reserved) + 1
  BY <1>1, <1>2, FS_AddElement DEF CapacityInv
<1>4. Cardinality(reserved') <= Capacity
  BY <1>3, FS_CardinalityType, AuthorizationAssumption DEF Reserve, CapacityInv
<1>5. \A s, t \in reserved' : ContractOf[s] = ContractOf[t] => s = t
  BY <1>1 DEF Reserve, Shares, CapacityInv, ExposureIsReserved
<1>6. \A s \in Runs : order'[s] \in Pending => s \in reserved'
  BY <1>1 DEF CapacityInv, ExposureIsReserved, TypeOK
<1> QED BY <1>3, <1>4, <1>5, <1>6 DEF CapacityInv, ExposureIsReserved

(* ... and everything else keeps what still may fill. *)
LEMMA FewerReservations ==
  ASSUME CapacityInv, reserved' \subseteq reserved,
         \A r \in Runs : order'[r] \in Pending => r \in reserved'
  PROVE  CapacityInv'
<1>1. IsFiniteSet(reserved') /\ Cardinality(reserved') <= Cardinality(reserved)
  BY FS_Subset DEF CapacityInv
<1>2. Cardinality(reserved') <= Capacity
  BY <1>1, FS_CardinalityType, AuthorizationAssumption DEF CapacityInv, ExposureIsReserved
<1> QED BY <1>1, <1>2 DEF CapacityInv, ExposureIsReserved

LEMMA CapacityInductive == TypeOK /\ HoldInv /\ CapacityInv /\ [Next]_vars => CapacityInv'
<1> SUFFICES ASSUME TypeOK, HoldInv, CapacityInv, [Next]_vars PROVE CapacityInv'
  OBVIOUS
<1> DEFINE Keeps == /\ reserved' \subseteq reserved
                    /\ \A r \in Runs : order'[r] \in Pending => r \in reserved'
<1> USE DEF CapacityInv, ExposureIsReserved
<1>1. ASSUME NEW r \in Runs, Enter(r) PROVE CapacityInv'
  <2>1. CASE Reserve(r)
    BY <2>1, OneMoreReservation
  <2>2. CASE Signal(r) \/ Refuse(r) \/ Check(r) \/ GuardPasses(r)
    <3>1. Keeps BY <2>2 DEF Signal, Refuse, Check, GuardPasses, durable
    <3> QED BY <3>1, FewerReservations
  <2>3. CASE Submit(r) \/ ReadRun(r) \/ PutRun(r)
    <3>1. Keeps BY <2>3 DEF Submit, ReadRun, PutRun, durable
    <3> QED BY <3>1, FewerReservations
  <2>4. CASE GuardBlocks(r)
    <3>1. Keeps BY <2>4 DEF GuardBlocks, TypeOK, Pending, Orders
    <3> QED BY <3>1, FewerReservations
  <2>5. CASE MarkDispatch(r)
    <3>1. Keeps BY <2>5 DEF MarkDispatch, TypeOK
    <3> QED BY <3>1, FewerReservations
  <2>6. CASE SubmitRaises(r)
    <3>1. r \in reserved
      BY <2>6 DEF SubmitRaises, HoldInv, Pending, Orders
    <3>2. Keeps BY <2>6, <3>1 DEF SubmitRaises, TypeOK
    <3> QED BY <3>2, FewerReservations
  <2> QED BY <1>1, <2>1, <2>2, <2>3, <2>4, <2>5, <2>6 DEF Enter
<1>2. ASSUME NEW r \in Runs, Operate(r) PROVE CapacityInv'
  <2>1. Keeps
    <3>1. CASE Arm(r) \/ Resume(r) \/ Release(r)
      BY <3>1 DEF Arm, Resume, Release
    <3>2. CASE Disarm(r)
      BY <3>2 DEF Disarm, Cancels, Cancelled, Pending, Orders
    <3>3. CASE FlushIncident(r)
      BY <3>3 DEF FlushIncident, TypeOK, Pending, Orders
    <3>4. CASE Answered(r)
      BY <3>4 DEF Answered, TypeOK, Pending, Orders
    <3>6. CASE Uncertain(r)
      BY <3>6 DEF Uncertain, TypeOK, Pending, Orders
    <3>7. CASE CancelEntry(r)
      BY <3>7 DEF CancelEntry, TypeOK, Pending, Orders
    <3>5. ASSUME NEW resumable \in BOOLEAN, Incident({r}, resumable) \/ Incident(Runs, resumable)
          PROVE  Keeps
      BY <3>5 DEF Incident
    <3> QED BY <1>2, <3>1, <3>2, <3>3, <3>4, <3>5, <3>6, <3>7 DEF Operate
  <2> QED BY <2>1, FewerReservations
<1>3. CASE Emergency \/ Watchdog
  <2>1. Keeps
    BY <1>3 DEF Emergency, PressEmergency, CommandEmergency, CallExpires, ClearEmergency,
                Cancels, Cancelled, Watchdog, WatchdogAlarm, WatchdogRecovers, durable, Pending, Orders
  <2> QED BY <2>1, FewerReservations
<1>4. CASE BeginBatch \/ EndBatch \/ BeginReconcile \/ Publish
  <2>1. Keeps
    BY <1>4 DEF BeginBatch, EndBatch, BeginReconcile, Publish, durable
  <2> QED BY <2>1, FewerReservations
<1>5. CASE Reconcile
  <2>1. Keeps BY <1>5 DEF Reconcile
  <2> QED BY <2>1, FewerReservations
<1>6. CASE Restart
  <2>1. Keeps BY <1>6 DEF Restart, Left, At, HoldInv, Pending, Orders
  <2> QED BY <2>1, FewerReservations
<1>7. CASE UNCHANGED vars
  <2>1. Keeps BY <1>7 DEF vars, durable
  <2> QED BY <2>1, FewerReservations
<1> QED BY <1>1, <1>2, <1>3, <1>4, <1>5, <1>6, <1>7 DEF Next

(* Every entry that can still fill holds capacity: at most Capacity of them, *)
(* each alone on its contract, whatever the number of runs.                  *)
THEOREM CapacityHolds == Spec => []ExposureIsReserved
<1>1. Init => CapacityInv
  <2> SUFFICES ASSUME Init PROVE CapacityInv
    OBVIOUS
  <2>1. IsFiniteSet({}) /\ Cardinality({}) = 0
    BY FS_EmptySet
  <2> QED BY <2>1, AuthorizationAssumption DEF Init, CapacityInv, ExposureIsReserved, Pending, Orders
<1>2. CapacityInv => ExposureIsReserved
  BY DEF CapacityInv
<1> QED BY <1>1, <1>2, TypeAtInit, HoldAtInit, TypeInductive, HoldInductive, CapacityInductive, PTL
        DEF Spec
=============================================================================
