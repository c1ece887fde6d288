-------------------------- MODULE ServedPathProofs --------------------------
(***************************************************************************)
(* Proofs about ServedPath, for every set of contents, environments and    *)
(* engines and any number of requests and restarts: what is on record of   *)
(* what was answered and kept.                                             *)
(***************************************************************************)
EXTENDS ServedPath, TLAPS

----------------------------------------------------------------------------
(* The inductive invariant, in parts.                                       *)

Typed ==
    /\ bodies \in [Contents -> {"absent", "stored", "purged"}]
    /\ up \in BOOLEAN

\* lifespan let the process through: production keeps its records.
Checked ==
    deployment.production => deployment.durable

IInv ==
    /\ Typed /\ Checked
    /\ AnswerIsRecorded /\ StoredIsNamed
    /\ ProductionRemembers /\ AskedIsBound

----------------------------------------------------------------------------
(* What the helpers do.                                                     *)

\* A record is accepted, or its content is among the lost ones; no record goes away,
\* and no decision, attestation or replay looks like a binding.
LEMMA RecordKeeps ==
  ASSUME NEW c, NEW action, NEW form, NEW out, Record(c, action, form, out)
  PROVE  /\ records \subseteq records' /\ lost \subseteq lost' /\ acked \subseteq acked'
         /\ out = "ok" => \E r \in records' : r.content = c /\ r.action = action
         /\ out # "ok" => c \in lost'
         /\ \A r \in records' \ records : r.action = action
         /\ acked' \ acked \subseteq records'
  <1> DEFINE new == [content |-> c, commitment |-> form, action |-> action]
  <1>1. new.content = c /\ new.action = action
    OBVIOUS
  <1>2. CASE out = "ok"
    <2>1. records' = records \cup {new} /\ acked' = acked \cup {new} /\ lost' = lost
      BY <1>2 DEF Record
    <2>. QED
      BY <1>1, <1>2, <2>1
  <1>3. CASE out # "ok"
    <2>1. records' = records /\ acked' = acked /\ lost' = lost \cup {c}
      BY <1>3 DEF Record
    <2>. QED
      BY <1>3, <2>1
  <1>. QED
    BY <1>2, <1>3

\* record_decision keeps what Record keeps and turns at most the content's own absent
\* body into a stored one.
LEMMA DecisionKeeps ==
  ASSUME Typed, NEW c \in Contents, NEW action, NEW out, record_decision(c, action, out)
  PROVE  /\ records \subseteq records' /\ lost \subseteq lost' /\ acked \subseteq acked'
         /\ out = "ok" => \E r \in records' : r.content = c /\ r.action = action
         /\ \A r \in records' \ records : r.action = action
         /\ acked' \ acked \subseteq records'
         /\ bodies' \in [Contents -> {"absent", "stored", "purged"}]
         /\ \A d \in Contents \ lost' :
               \/ bodies'[d] = bodies[d]
               \/ bodies'[d] = "stored" /\ \E r \in records' : r.content = d
  <1>1. CASE out = "unstored"
    BY <1>1 DEF record_decision, Typed
  <1>2. CASE out # "unstored"
    <2>1. /\ Record(c, action, commitment_form(c), out)
          /\ bodies' = [bodies EXCEPT ![c] = IF deployment.retain /\ bodies[c] = "absent"
                                             THEN "stored" ELSE bodies[c]]
      BY <1>2 DEF record_decision
    <2>2. /\ bodies' \in [Contents -> {"absent", "stored", "purged"}]
          /\ \A d \in Contents : bodies'[d] = bodies[d] \/ (d = c /\ bodies'[d] = "stored")
      BY <2>1 DEF Typed
    <2>. QED
      BY <2>1, <2>2, RecordKeeps
  <1>. QED
    BY <1>1, <1>2

----------------------------------------------------------------------------
(* The steps.                                                               *)

\* A step that takes nothing back keeps what is said of the stores: what each
\* conjunct needs is that the records grow, and that a body that comes to be stored is
\* named by a record or is among the lost ones.
LEMMA GrowingStoresAgree ==
  ASSUME IInv, UNCHANGED <<deployment, up, boots>>,
         records \subseteq records', lost \subseteq lost', acked \subseteq acked',
         acked' \ acked \subseteq records',
         \A r \in records' \ records : r.action # "BINDING",
         \A d \in Contents \ lost' :
            \/ bodies'[d] = bodies[d]
            \/ bodies'[d] = "stored" /\ \E r \in records' : r.content = d
            \/ bodies'[d] = "purged"
  PROVE  Checked' /\ StoredIsNamed' /\ ProductionRemembers' /\ AskedIsBound'
  <1>1. Checked'
    BY DEF IInv, Checked
  <1>3. StoredIsNamed'
    BY DEF IInv, StoredIsNamed
  <1>4. ProductionRemembers'
    BY DEF IInv, ProductionRemembers
  <1>5. AskedIsBound'
    BY DEF IInv, AskedIsBound
  <1>. QED
    BY <1>1, <1>3, <1>4, <1>5

\* A request that leaves both stores alone and answers no decision.
LEMMA QuietStep ==
  ASSUME IInv,
         \/ Unauthorised \/ EvaluateRaises \/ EvaluateActionRaises \/ AddBadRule
         \/ \E kind \in {"invalid_request", "unknown_tenant"} : EvaluateRefused(kind)
         \/ \E c \in Contents : EvaluateActionUnknown(c)
  PROVE  IInv'
  <1>0. UNCHANGED <<deployment, up, boots, bodies, records, lost, acked>>
    BY DEF Unauthorised, EvaluateRaises, EvaluateActionRaises, AddBadRule, EvaluateRefused,
           EvaluateActionUnknown, Serve, process, history
  <1>1. Checked' /\ StoredIsNamed' /\ ProductionRemembers' /\ AskedIsBound'
    BY <1>0, GrowingStoresAgree
  <1>2. AnswerIsRecorded'
    BY DEF Unauthorised, EvaluateRaises, EvaluateActionRaises, AddBadRule, EvaluateRefused,
           EvaluateActionUnknown, AnswerIsRecorded
  <1>3. Typed'
    BY <1>0 DEF IInv, Typed
  <1>. QED
    BY <1>1, <1>2, <1>3 DEF IInv

\* The refusal of a request over its quota.
LEMMA LimitedStep ==
  ASSUME IInv, NEW c \in Contents, EvaluateLimited(c)
  PROVE  IInv'
  <1>1. PICK out \in StoreOutcomes(TRUE) :
          /\ Bump({"total", "rate_limited"} \cup Unrecorded(out))
          /\ record_decision(c, "rate_limited", out)
          /\ reply' = [status |-> StatusOf(out, 429), of |-> "evaluate"]
    BY DEF EvaluateLimited
  <1>2. UNCHANGED <<deployment, up, boots>>
    BY DEF EvaluateLimited, Serve, process
  <1>3. Checked' /\ StoredIsNamed' /\ ProductionRemembers' /\ AskedIsBound'
    BY <1>1, <1>2, DecisionKeeps, GrowingStoresAgree DEF IInv
  <1>4. AnswerIsRecorded'
    BY <1>1 DEF AnswerIsRecorded
  <1>5. Typed'
    BY <1>1, <1>2, DecisionKeeps DEF IInv, Typed
  <1>. QED
    BY <1>3, <1>4, <1>5 DEF IInv

\* A decision of /v1/evaluate: a reply of 200 means the record was accepted.
LEMMA DecidesStep ==
  ASSUME IInv, NEW c \in Contents, NEW action \in {"allow", "audit", "deny"},
         EvaluateDecides(c, action)
  PROVE  IInv'
  <1>1. PICK out \in StoreOutcomes(TRUE) :
          /\ Bump({"total", CounterOf(action)} \cup Unrecorded(out))
          /\ record_decision(c, action, out)
          /\ reply' = [status |-> StatusOf(out, 200), of |-> "decision",
                       allowed |-> action # "deny", action |-> action, content |-> c]
    BY DEF EvaluateDecides
  <1>2. UNCHANGED <<deployment, up, boots>>
    BY DEF EvaluateDecides, Serve, process
  <1>3. Checked' /\ StoredIsNamed' /\ ProductionRemembers' /\ AskedIsBound'
    BY <1>1, <1>2, DecisionKeeps, GrowingStoresAgree DEF IInv
  <1>4. AnswerIsRecorded'
    <2>1. reply'.status = 200 => out = "ok"
      BY <1>1 DEF StatusOf
    <2>2. reply'.of = "decision" /\ reply'.content = c /\ reply'.action = action
      BY <1>1
    <2>. QED
      BY <1>1, <2>1, <2>2, DecisionKeeps DEF AnswerIsRecorded, Recorded, IInv
  <1>5. Typed'
    BY <1>1, <1>2, DecisionKeeps DEF IInv, Typed
  <1>. QED
    BY <1>3, <1>4, <1>5 DEF IInv

\* An answer of the action gate: an allow stands only with its record.
LEMMA GateStep ==
  ASSUME IInv, NEW c \in Contents, NEW action \in {"allow", "audit", "deny"},
         EvaluateAction(c, action)
  PROVE  IInv'
  <1>1. PICK out \in StoreOutcomes(FALSE) :
          LET stands == action # "deny" /\ out = "ok"
          IN  /\ Bump({IF stands THEN "allowed" ELSE "denied"})
              /\ record_decision(c, action, out)
              /\ reply' = [status |-> 200, of |-> "gate",
                           allowed |-> stands, action |-> action, content |-> c]
    BY DEF EvaluateAction
  <1>2. UNCHANGED <<deployment, up, boots>>
    BY DEF EvaluateAction, Serve, process
  <1>3. Checked' /\ StoredIsNamed' /\ ProductionRemembers' /\ AskedIsBound'
    BY <1>1, <1>2, DecisionKeeps, GrowingStoresAgree DEF IInv
  <1>4. AnswerIsRecorded'
    <2>1. /\ reply'.of = "gate" /\ reply'.content = c /\ reply'.action = action
          /\ reply'.allowed => out = "ok"
      BY <1>1
    <2>. QED
      BY <1>1, <2>1, DecisionKeeps DEF AnswerIsRecorded, Recorded, IInv
  <1>5. Typed'
    BY <1>1, <1>2, DecisionKeeps DEF IInv, Typed
  <1>. QED
    BY <1>3, <1>4, <1>5 DEF IInv

\* A purge, and a replay: the one deletes before it records, the other only records.
LEMMA PurgeStep ==
  ASSUME IInv, NEW c \in Contents, retention_purge(c) \/ replay(c)
  PROVE  IInv'
  <1>1. UNCHANGED <<deployment, up, boots>>
    BY DEF retention_purge, replay, Serve, process
  <1>2. CASE replay(c)
    <2>1. PICK out : /\ Record(c, "replay", "none", out) /\ UNCHANGED bodies
                     /\ reply'.of = "replay"
      BY <1>2 DEF replay
    <2>2. Checked' /\ StoredIsNamed' /\ ProductionRemembers' /\ AskedIsBound'
      BY <1>1, <2>1, RecordKeeps, GrowingStoresAgree
    <2>3. AnswerIsRecorded' /\ Typed'
      BY <1>1, <2>1 DEF IInv, Typed, AnswerIsRecorded
    <2>. QED
      BY <2>2, <2>3 DEF IInv
  <1>3. CASE retention_purge(c)
    <2>1. PICK out : /\ reply' = PurgeReply(c, out)
                     /\ \/ out = "unstored" /\ UNCHANGED <<bodies, records, lost, acked>>
                        \/ /\ bodies' = [bodies EXCEPT ![c] = "purged"]
                           /\ Record(c, "PURGE", "purged-v1", out)
      BY <1>3 DEF retention_purge
    <2>2. /\ records \subseteq records' /\ lost \subseteq lost' /\ acked \subseteq acked'
          /\ acked' \ acked \subseteq records' /\ \A r \in records' \ records : r.action = "PURGE"
          /\ out = "ok" => \E r \in records' : r.content = c /\ r.action = "PURGE"
      BY <2>1, RecordKeeps
    <2>3. /\ bodies' \in [Contents -> {"absent", "stored", "purged"}]
          /\ \A d \in Contents : bodies'[d] = bodies[d] \/ bodies'[d] = "purged"
      BY <2>1 DEF IInv, Typed
    <2>4. Checked' /\ StoredIsNamed' /\ ProductionRemembers' /\ AskedIsBound'
      BY <1>1, <2>2, <2>3, GrowingStoresAgree
    <2>5. /\ reply'.status = 200 => out = "ok"
          /\ reply'.of = "purge" /\ reply'.content = c /\ reply'.action = "PURGE"
      BY <2>1 DEF PurgeReply, StatusOf
    <2>6. AnswerIsRecorded'
      BY <2>2, <2>5 DEF AnswerIsRecorded, Recorded
    <2>7. Typed'
      BY <1>1, <2>3 DEF IInv, Typed
    <2>. QED
      BY <2>4, <2>6, <2>7 DEF IInv
  <1>. QED
    BY <1>2, <1>3

\* A start: the binding is of this very start.
LEMMA StartStep ==
  ASSUME IInv, Start
  PROVE  IInv'
  <1>1. UNCHANGED <<deployment, metrics, bodies, lost>> /\ reply' = NoReply
    BY DEF Start
  <1>2. \/ /\ ~deployment.bind /\ up' = TRUE /\ UNCHANGED <<records, acked>>
        \/ /\ deployment.bind /\ up' = TRUE
           /\ records' = records \cup {BindingRecord} /\ acked' = acked \cup {BindingRecord}
        \/ deployment.bind /\ up' = FALSE /\ UNCHANGED <<records, acked>>
    BY DEF Start
  <1>3. BindingRecord.action = "BINDING" /\ BindingRecord.boot = boots'
    BY DEF BindingRecord
  <1>4. records \subseteq records' /\ (acked \subseteq records => acked' \subseteq records')
    BY <1>2
  <1>5. Typed' /\ Checked' /\ AnswerIsRecorded'
    BY <1>1, <1>2 DEF IInv, Typed, Checked, AnswerIsRecorded, NoReply
  <1>6. StoredIsNamed' /\ ProductionRemembers'
    BY <1>1, <1>4 DEF IInv, StoredIsNamed, ProductionRemembers
  <1>7. AskedIsBound'
    BY <1>1, <1>2, <1>3 DEF IInv, AskedIsBound
  <1>. QED
    BY <1>5, <1>6, <1>7 DEF IInv

\* The end of a process: what is in memory goes, and its contents count as lost; so
\* does the one whose request was cut off.
LEMMA DownStep ==
  ASSUME IInv, NEW cut, Down(cut), bodies' \in [Contents -> {"absent", "stored", "purged"}],
         \A c \in Contents \ cut : bodies'[c] = bodies[c]
  PROVE  IInv'
  <1>1. UNCHANGED <<deployment, boots, acked>> /\ reply' = NoReply /\ up' = FALSE /\ cut \subseteq lost'
    BY DEF Down
  <1>2. \/ deployment.durable /\ UNCHANGED records /\ lost \subseteq lost'
        \/ /\ ~deployment.durable /\ records' = {}
           /\ lost \subseteq lost' /\ {c \in Contents : bodies[c] # "absent"} \subseteq lost'
    BY DEF Down
  <1>3. Typed' /\ Checked' /\ AnswerIsRecorded'
    BY <1>1 DEF IInv, Typed, Checked, AnswerIsRecorded, NoReply
  <1>4. StoredIsNamed'
    <2> SUFFICES ASSUME NEW c \in Contents, c \notin lost', bodies'[c] = "stored"
                 PROVE  \E r \in records' : r.content = c
      BY DEF StoredIsNamed
    <2>1. c \notin cut /\ bodies[c] = "stored" /\ c \notin lost
      BY <1>1, <1>2
    <2>. QED
      BY <1>2, <2>1 DEF IInv, StoredIsNamed
  <1>5. ProductionRemembers' /\ AskedIsBound'
    BY <1>1, <1>2 DEF IInv, Checked, ProductionRemembers, AskedIsBound
  <1>. QED
    BY <1>3, <1>4, <1>5 DEF IInv

LEMMA StopStep ==
  ASSUME IInv, Stop \/ \E c \in Contents : StopBeforeRecord(c) \/ StopBeforeAttestation(c)
  PROVE  IInv'
  <1>1. CASE Stop
    <2>1. Down({}) /\ bodies' = bodies
      BY <1>1 DEF Stop
    <2>. QED
      BY <2>1, DownStep DEF IInv, Typed
  <1>2. ASSUME NEW c \in Contents, NEW body \in {"stored", "purged"}, StopInRequest(c, body)
        PROVE  IInv'
    <2>1. Down({c}) /\ bodies' = [bodies EXCEPT ![c] = body]
      BY <1>2 DEF StopInRequest
    <2>2. /\ bodies' \in [Contents -> {"absent", "stored", "purged"}]
          /\ \A d \in Contents \ {c} : bodies'[d] = bodies[d]
      BY <2>1 DEF IInv, Typed
    <2>. QED
      BY <2>1, <2>2, DownStep
  <1>. QED
    BY <1>1, <1>2 DEF StopBeforeRecord, StopBeforeAttestation

LEMMA UnchangedStep ==
  ASSUME IInv, UNCHANGED vars
  PROVE  IInv'
  BY DEF vars, process, history, IInv, Typed, Checked, AnswerIsRecorded, Recorded,
         StoredIsNamed, ProductionRemembers, AskedIsBound

----------------------------------------------------------------------------
(* The theorems.                                                            *)

LEMMA ServedInit ==
  ASSUME Init
  PROVE  IInv
  <1> USE DEF Init
  <1>1. Checked
    <2>1. PICK e \in Environments : Accepted(e) /\ deployment = Deployed(e)
      OBVIOUS
    <2>. QED
      BY <2>1 DEF Accepted, require_durable_audit, Deployed, Checked
  <1>2. Typed
    BY DEF Typed
  <1>3. AnswerIsRecorded
    BY DEF AnswerIsRecorded, NoReply
  <1>4. StoredIsNamed
    BY DEF StoredIsNamed
  <1>5. ProductionRemembers /\ AskedIsBound
    BY DEF ProductionRemembers, AskedIsBound
  <1>. QED
    BY <1>1, <1>2, <1>3, <1>4, <1>5 DEF IInv

LEMMA ServedInvariant == Spec => []IInv
  <1>1. Init => IInv
    BY ServedInit
  <1>2. IInv /\ [Next]_vars => IInv'
    BY QuietStep, LimitedStep, DecidesStep, GateStep, PurgeStep, StartStep, StopStep,
       UnchangedStep DEF Next
  <1>. QED
    BY <1>1, <1>2, PTL DEF Spec

\* An answer of 200 at /v1/evaluate or to a purge, and an allow at /v1/evaluate_action, is in the
\* chain when the response is written, whatever the store answered: the handler of a
\* full store and the gate's _unrecordable leave no answer without its record.
THEOREM AnswersAreRecorded == Spec => []AnswerIsRecorded
  <1>1. IInv => AnswerIsRecorded
    BY DEF IInv
  <1>. QED
    BY <1>1, ServedInvariant, PTL

\* record_decision stores before it records: a body that is kept is named by a record,
\* or the chain refused a record of it, or the process stopped before the record or
\* took it along.
THEOREM StoredBodiesAreNamed == Spec => []StoredIsNamed
  <1>1. IInv => StoredIsNamed
    BY DEF IInv
  <1>. QED
    BY <1>1, ServedInvariant, PTL

\* In every environment that require_durable_audit lets through as production, what
\* the chain accepted is still in it after any number of restarts.
THEOREM ProductionKeepsItsRecords == Spec => []ProductionRemembers
  <1>1. IInv => ProductionRemembers
    BY DEF IInv
  <1>. QED
    BY <1>1, ServedInvariant, PTL

\* A deployment that asks to be bound serves only with the binding of this very start
\* in its chain, and one that does not ask writes none (lifespan, establish).
THEOREM BoundBeforeServing == Spec => []AskedIsBound
  <1>1. IInv => AskedIsBound
    BY DEF IInv
  <1>. QED
    BY <1>1, ServedInvariant, PTL
============================================================================
