----------------------------- MODULE PaperAdapter -----------------------------
(***************************************************************************)
(* The legacy paper adapter (ibkr_paper_adapter.py): it keeps the state of *)
(* a connection, refuses what a recorded doubt forbids, sends a submission *)
(* once for its idempotency key, and turns status and fill callbacks into  *)
(* target states of the order.  Everything is journalled; what the adapter *)
(* remembers is only in memory.                                            *)
(***************************************************************************)
EXTENDS Integers, Sequences, FiniteSets

CONSTANTS Quantity,   \* of the order
          CallbackIds,        \* identifiers of callbacks
          Budgets     \* bounds: [calls, raises, restarts]

VARIABLES
  connection,   \* "disconnected", "connected_paper" or "unknown": doubt, which asks for reconciliation
  submitted,    \* the request remembered for the idempotency key, or Nothing
  remembered,   \* the callback remembered for an identifier, or Nothing; statuses and fills apart
  progress,     \* [observed, cumulative] of the last callback that was accepted
  sent,         \* requests that reached the connector, in order: [request, outcome]
  accepted,     \* callbacks that were accepted, in order
  demanded,     \* a recorded result asked for reconciliation, and no state was recorded since
  overlooked,   \* the journal failed before the doubt such a result asks for was recorded
  bounds
vars == <<connection, submitted, remembered, progress, sent, accepted, demanded, overlooked, bounds>>

Nothing == [none |-> TRUE]
Start == [observed |-> 0, cumulative |-> 0]
Forgotten == [kind \in {"status", "fill"} |-> [i \in CallbackIds |-> Nothing]]
Requests == [contract : {"good", "stale", "mismatch"}, protected : BOOLEAN]
PaperStatus == {"acknowledged", "partially_filled", "filled", "rejected"}
Statuses == [kind : {"status"}, paper : PaperStatus, cumulative : 0..Quantity, quantity : {0}, observed : 1..2]
Fills == [kind : {"fill"}, paper : {"fill"}, cumulative : 0..Quantity, quantity : {0, 1}, observed : 1..2]

\* What a result says of the adapter: which results leave it in doubt.
ProbeState(s) == CASE s = "reachable" -> "connected_paper" [] s = "refused" -> "disconnected" [] OTHER -> "unknown"
LookupDemands == {"blocked_reconciliation_required", "stale_result_rejected", "unknown"}
SubmissionDemands == {"blocked_reconciliation_required", "blocked_stale_contract", "unknown"}
StatusSettled == {"accepted_status_update", "duplicate_status_update"}
FillSettled == {"accepted_fill_update", "duplicate_fill_update"}

Init ==
  /\ connection = "disconnected" /\ submitted = Nothing /\ remembered = Forgotten
  /\ progress = Start /\ sent = <<>> /\ accepted = <<>> /\ demanded = FALSE /\ overlooked = FALSE
  /\ bounds \in Budgets

Call == bounds.calls > 0
\* A result is journalled, and then the doubt it asks for; the journal may fail in between.
Recorded(demands) ==
  \/ /\ connection' = (IF demands THEN "unknown" ELSE connection) /\ demanded' = (demanded \/ demands)
     /\ UNCHANGED overlooked /\ bounds' = [bounds EXCEPT !.calls = @ - 1]
  \/ /\ demands /\ connection # "unknown" /\ bounds.raises > 0
     /\ demanded' = TRUE /\ overlooked' = TRUE /\ UNCHANGED connection
     /\ bounds' = [bounds EXCEPT !.calls = @ - 1, !.raises = @ - 1]

StateRecorded(s) ==
  /\ Call /\ connection' = s /\ demanded' = (s = "unknown") /\ overlooked' = FALSE
  /\ bounds' = [bounds EXCEPT !.calls = @ - 1]
  /\ UNCHANGED <<submitted, remembered, progress, sent, accepted>>
RecordConnectionState == \E s \in {"disconnected", "connected_paper", "unknown"} : StateRecorded(s)
\* A probe says no more than whether the port answers, and its state replaces a doubt.
ProbeLocalConnectivity == \E s \in {"reachable", "refused", "timeout"} : StateRecorded(ProbeState(s))

LookupContract ==
  /\ Call
  /\ \E stock \in BOOLEAN, answer \in {"resolved", "not_found", "ambiguous", "stale_result_rejected", "unknown"} :
       Recorded((CASE connection = "unknown" -> "blocked_reconciliation_required"
                   [] connection = "disconnected" -> "blocked_disconnected"
                   [] connection = "connected_paper" /\ ~stock -> "unsupported_instrument"
                   [] OTHER -> answer) \in LookupDemands)
  /\ UNCHANGED <<submitted, remembered, progress, sent, accepted>>

-----------------------------------------------------------------------------
(* Submissions.                                                            *)

\* Why a request is not sent: the first of the reasons.
Refusal(r) ==
  CASE submitted = r -> "duplicate_accepted"
    [] submitted # Nothing /\ submitted # r -> "blocked_duplicate_conflict"
    [] submitted = Nothing /\ connection = "unknown" -> "blocked_reconciliation_required"
    [] submitted = Nothing /\ connection = "disconnected" -> "blocked_disconnected"
    [] OTHER -> CASE r.contract = "mismatch" -> "blocked_contract_mismatch"
                  [] r.contract = "stale" -> "blocked_stale_contract"
                  [] r.contract = "good" /\ ~r.protected -> "blocked_missing_protection"
                  [] OTHER -> "none"
SubmissionRefused ==
  /\ Call
  /\ \E r \in Requests : Refusal(r) # "none" /\ Recorded(Refusal(r) \in SubmissionDemands)
  /\ UNCHANGED <<submitted, remembered, progress, sent, accepted>>
\* The connector returns, or raises: a request whose answer was lost is not remembered.
Submit ==
  /\ Call
  /\ \E r \in Requests, outcome \in {"accepted", "unknown"} :
       /\ Refusal(r) = "none" /\ sent' = Append(sent, [request |-> r, outcome |-> outcome])
       /\ submitted' = (IF outcome = "accepted" THEN r ELSE submitted)
       /\ Recorded(outcome \in SubmissionDemands)
  /\ UNCHANGED <<remembered, progress, accepted>>

-----------------------------------------------------------------------------
(* Callbacks.                                                              *)

StatusTarget(c) ==
  CASE c.paper = "acknowledged" /\ c.cumulative = 0 -> "ACKNOWLEDGED"
    [] c.paper = "partially_filled" /\ 0 < c.cumulative /\ c.cumulative < Quantity -> "PARTIALLY_FILLED"
    [] c.paper = "filled" /\ c.cumulative = Quantity -> "FILLED"
    [] c.paper = "rejected" /\ c.cumulative = 0 -> "REJECTED"
    [] OTHER -> "none"
FillTarget(c) ==
  CASE c.quantity <= 0 \/ c.cumulative <= 0 \/ c.quantity > c.cumulative \/ c.cumulative > Quantity -> "none"
    [] OTHER -> IF c.cumulative < Quantity THEN "PARTIALLY_FILLED" ELSE "FILLED"
\* A fill must go beyond every quantity that was accepted, of a status too.
Beyond(c) == c.cumulative > progress.cumulative
Accepts(c) == IF c.kind = "status" THEN StatusTarget(c) # "none" ELSE FillTarget(c) # "none" /\ Beyond(c)

\* How a callback ends; matched says that it names an accepted submission and its acknowledgement.
Outcome(i, c, matched, fresh) ==
  LET before == remembered[c.kind][i] IN
  CASE before = c -> "duplicate"
    [] before # Nothing /\ before # c -> "blocked_duplicate_conflict"
    [] before = Nothing /\ connection # "connected_paper" -> "blocked"
    [] OTHER -> CASE ~matched \/ ~fresh \/ c.observed < progress.observed -> "blocked"
                  [] OTHER -> IF Accepts(c) THEN "accepted" ELSE "blocked_invalid"
Callback(i, c) ==
  /\ Call
  /\ \E matched \in BOOLEAN, fresh \in BOOLEAN :
       LET o == Outcome(i, c, matched, fresh) IN
       /\ matched => \E k \in 1..Len(sent) : sent[k].outcome = "accepted"
       /\ IF o = "accepted"
          THEN /\ remembered' = [remembered EXCEPT ![c.kind][i] = c] /\ accepted' = Append(accepted, c)
               /\ progress' = [observed |-> c.observed,
                               cumulative |-> IF c.cumulative > progress.cumulative THEN c.cumulative ELSE progress.cumulative]
          ELSE UNCHANGED <<remembered, accepted, progress>>
       /\ Recorded(o \notin {"accepted", "duplicate"})
  /\ UNCHANGED <<submitted, sent>>
StatusCallback == \E i \in CallbackIds, c \in Statuses : Callback(i, c)
FillCallback == \E i \in CallbackIds, c \in Fills : Callback(i, c)

\* What the adapter remembers is lost; the journal is not read back.
Restart ==
  /\ bounds.restarts > 0 /\ bounds' = [bounds EXCEPT !.restarts = @ - 1]
  /\ connection' = "disconnected" /\ submitted' = Nothing /\ remembered' = Forgotten /\ progress' = Start
  /\ demanded' = FALSE /\ overlooked' = FALSE /\ sent' = <<>> /\ accepted' = <<>>

Next == \/ RecordConnectionState \/ ProbeLocalConnectivity \/ LookupContract
        \/ SubmissionRefused \/ Submit \/ StatusCallback \/ FillCallback \/ Restart
Spec == Init /\ [][Next]_vars

-----------------------------------------------------------------------------
TypeOK == /\ progress.cumulative \in 0..Quantity /\ submitted \in Requests \cup {Nothing}
          /\ overlooked => demanded

\* A key is sent again only when the adapter itself had left the last outcome unknown, and a
\* second payload under the key of an accepted one never is; until the process restarts.
SentOnce ==
  \A k \in 1..Len(sent) : sent[k].outcome = "accepted" => k = Len(sent) /\ submitted = sent[k].request
\* The fills of the order that are accepted grow, stay within the order, and come in the order they
\* were observed in, whatever was delivered twice, late or under a used identifier.
FillsGrow ==
  \A k, l \in 1..Len(accepted) : k < l =>
    /\ accepted[k].observed <= accepted[l].observed
    /\ accepted[l].kind = "fill" => accepted[k].cumulative < accepted[l].cumulative
\* A result that asks for reconciliation leaves the adapter in doubt, so that nothing is sent or
\* accepted until a state is recorded; unless the journal failed in between.
DoubtIsKept == demanded => connection = "unknown" \/ overlooked
=============================================================================
