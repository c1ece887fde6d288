----------------------------- MODULE Retention -----------------------------
(***************************************************************************)
(* Content retention of one tenant: custos/retention.py.  The bodies live  *)
(* in a side store (ContentStore, an SQLite file), the records that name   *)
(* them by digest live in the audit chain, and no transaction spans both.  *)
(*                                                                         *)
(* A worker is a request being served: a gate thread of the MCP adapter or *)
(* another process on the same files.  One action is one SQL statement or  *)
(* transaction, or one append to the chain, because that is where other    *)
(* workers can come in between: Python's sqlite3 opens a transaction at    *)
(* the first write, so the SELECTs that precede it do not belong to it.    *)
(*                                                                         *)
(* A content hash is the content itself.  The chain is the set of records  *)
(* it holds, because reconcile() asks only which ones are there.           *)
(*                                                                         *)
(* A behaviour runs at one site: its workers, the content they are sent,   *)
(* whether old content is brought in with put_and_record(legacy=True), and *)
(* whether backups are restored, which RestoreDrill adds.                  *)
(***************************************************************************)
EXTENDS Naturals, FiniteSets

CONSTANTS Workers, Contents,
          NoContent,    \* what an idle worker works on
          Sites         \* the sites a behaviour may run at

ASSUME ContentsAssumption == NoContent \notin Contents
ASSUME WorkersAssumption == IsFiniteSet(Workers)
ASSUME SitesAssumption ==
    Sites \subseteq [workers : SUBSET Workers, contents : SUBSET Contents,
                     legacy : BOOLEAN, drilled : BOOLEAN]

Forms == {"none", "salted-v1", "unsalted-v0", "purged-v1"}

Records == [content : Contents, commitment : Forms, action : {"DECIDE", "PURGE"}]

PutSteps   == {"body?", "purged?", "insert", "legacy", "marker?", "tombstone?",
               "record"}
PurgeSteps == {"purge?", "delete", "attest", "update"}

VARIABLES
    site,       \* fixed at the start
    body,       \* content_bodies: the marker of the stored body, or "absent"
    purges,     \* purges: "absent", "unattested" (attestation_hash NULL), "attested"
    records,    \* the audit chain
    point,      \* where each worker is
    arg,        \* the content it works on
    form        \* the commitment form it is about to record

retentionVars == <<site, body, purges, records, point, arg, form>>
stores == <<body, purges, records>>

RetentionInit ==
    /\ site \in Sites
    /\ body = [c \in Contents |-> "absent"]
    /\ purges = [c \in Contents |-> "absent"]
    /\ records = {}
    /\ point = [w \in Workers |-> "idle"]
    /\ arg = [w \in Workers |-> NoContent]
    /\ form = [w \in Workers |-> "none"]

Goto(w, step) == point' = [point EXCEPT ![w] = step]

\* The call is over: it returned or raised.
End(w) ==
    /\ Goto(w, "idle")
    /\ form' = [form EXCEPT ![w] = "none"]
    /\ arg' = [arg EXCEPT ![w] = NoContent]

\* A statement that only moves the worker on.
Step(w, step) == Goto(w, step) /\ UNCHANGED <<arg, form>>

Call(w, c, step) ==
    /\ point[w] = "idle"
    /\ arg' = [arg EXCEPT ![w] = c]
    /\ Goto(w, step)
    /\ UNCHANGED <<stores, form>>

----------------------------------------------------------------------------
(* record_decision -> put_and_record: put, commitment_form, chain.record.   *)

record_decision(w, c) == Call(w, c, "body?")

\* put: a body already there is kept.
PutSelectBody(w) ==
    /\ point[w] = "body?"
    /\ Step(w, IF body[arg[w]] # "absent" THEN "marker?" ELSE "purged?")
    /\ UNCHANGED stores

\* Variant: put does not look for a purge.
PutSelectPurge_Blind(w) ==
    /\ point[w] = "purged?"
    /\ Step(w, "insert")
    /\ UNCHANGED stores

\* put: purged content raises ContentPurged, and record_decision goes on to
\* record the decision with the form "none", which is what form[w] holds.
PutSelectPurge(w) ==
    /\ point[w] = "purged?"
    /\ Step(w, IF purges[arg[w]] # "absent" THEN "record" ELSE "insert")
    /\ UNCHANGED stores

\* put: INSERT, in a transaction of its own.
PutInsert(w) ==
    /\ point[w] = "insert"
    /\ body[arg[w]] = "absent"
    /\ body' = [body EXCEPT ![arg[w]] = "salted-v1"]
    /\ Step(w, "marker?")
    /\ UNCHANGED <<purges, records>>

\* put: IntegrityError on the primary key, which record_decision reports as a
\* body without a record and raises.
PutCollision(w) ==
    /\ point[w] = "insert"
    /\ body[arg[w]] # "absent"
    /\ End(w)
    /\ UNCHANGED stores

\* put_legacy: INSERT OR IGNORE.
put_legacy(w) ==
    /\ point[w] = "legacy"
    /\ body' = [body EXCEPT ![arg[w]] =
                  IF body[arg[w]] = "absent" THEN "unsalted-v0" ELSE @]
    /\ Step(w, "marker?")
    /\ UNCHANGED <<purges, records>>

\* commitment_form: marker() reads the body row, then the purge row.
MarkerOfBody(w) ==
    /\ point[w] = "marker?"
    /\ form' = [form EXCEPT ![w] = IF body[arg[w]] # "absent" THEN body[arg[w]] ELSE @]
    /\ Goto(w, IF body[arg[w]] # "absent" THEN "record" ELSE "tombstone?")
    /\ UNCHANGED <<stores, arg>>

MarkerOfPurge(w) ==
    /\ point[w] = "tombstone?"
    /\ form' = [form EXCEPT ![w] =
                  IF purges[arg[w]] # "absent" THEN "purged-v1" ELSE "none"]
    /\ Goto(w, "record")
    /\ UNCHANGED <<stores, arg>>

\* chain.record of the decision.
RecordDecision(w) ==
    /\ point[w] = "record"
    /\ records' = records \cup
          {[content |-> arg[w], commitment |-> form[w], action |-> "DECIDE"]}
    /\ End(w)
    /\ UNCHANGED <<body, purges>>

----------------------------------------------------------------------------
(* purge: delete and leave a purge row, then attest, then mark attested.    *)

purge(w, c) == Call(w, c, "purge?")

\* Variant: the attestation is written before the deletion.
PurgeSelect_AttestFirst(w) ==
    /\ point[w] = "purge?"
    /\ body[arg[w]] # "absent"
    /\ records' = records \cup
          {[content |-> arg[w], commitment |-> "purged-v1", action |-> "PURGE"]}
    /\ Step(w, "delete")
    /\ UNCHANGED <<body, purges>>

\* SELECT body.  An absent body raises ContentPurged or PurgeRefused.
PurgeSelect(w) ==
    /\ point[w] = "purge?"
    /\ body[arg[w]] # "absent"
    /\ Step(w, "delete")
    /\ UNCHANGED stores

PurgeRefuse(w) ==
    /\ point[w] = "purge?"
    /\ body[arg[w]] = "absent"
    /\ End(w)
    /\ UNCHANGED stores

\* Variant: the body is deleted and no purge row is left.
PurgeDelete_NoRow(w) ==
    /\ point[w] = "delete"
    /\ purges[arg[w]] = "absent"
    /\ body' = [body EXCEPT ![arg[w]] = "absent"]
    /\ Step(w, "attest")
    /\ UNCHANGED <<purges, records>>

\* Variant: INSERT OR REPLACE INTO purges.
PurgeDelete_Replace(w) ==
    /\ point[w] = "delete"
    /\ body' = [body EXCEPT ![arg[w]] = "absent"]
    /\ purges' = [purges EXCEPT ![arg[w]] = "unattested"]
    /\ Step(w, "attest")
    /\ UNCHANGED records

\* DELETE and INSERT INTO purges, one transaction.
PurgeDelete(w) ==
    /\ point[w] = "delete"
    /\ purges[arg[w]] = "absent"
    /\ body' = [body EXCEPT ![arg[w]] = "absent"]
    /\ purges' = [purges EXCEPT ![arg[w]] = "unattested"]
    /\ Step(w, "attest")
    /\ UNCHANGED records

\* The purge row is already there: IntegrityError, the transaction rolls back.
PurgeCollision(w) ==
    /\ point[w] = "delete"
    /\ purges[arg[w]] # "absent"
    /\ End(w)
    /\ UNCHANGED stores

\* chain.record of the attestation.
Attest(w) ==
    /\ point[w] = "attest"
    /\ records' = records \cup
          {[content |-> arg[w], commitment |-> "purged-v1", action |-> "PURGE"]}
    /\ Step(w, "update")
    /\ UNCHANGED <<body, purges>>

\* UPDATE purges SET attestation_hash.
MarkAttested(w) ==
    /\ point[w] = "update"
    /\ purges' = [purges EXCEPT ![arg[w]] = IF @ = "absent" THEN @ ELSE "attested"]
    /\ End(w)
    /\ UNCHANGED <<body, records>>

----------------------------------------------------------------------------

\* chain.record raises (a full or forked store, an unbound record): what the
\* call did to the side store stays done.
ChainRefuses(w) ==
    /\ point[w] \in {"record", "attest"}
    /\ End(w)
    /\ UNCHANGED stores

\* The process dies between two statements.
WorkerDies(w) ==
    /\ point[w] # "idle"
    /\ End(w)
    /\ UNCHANGED stores

RetentionNext ==
    /\ UNCHANGED site
    /\ \E w \in site.workers :
        \/ \E c \in site.contents : \/ record_decision(w, c)
                                    \/ purge(w, c)
                                    \/ site.legacy /\ Call(w, c, "legacy")
        \/ PutSelectBody(w) \/ PutSelectPurge(w) \/ PutInsert(w) \/ PutCollision(w)
        \/ put_legacy(w)
        \/ MarkerOfBody(w) \/ MarkerOfPurge(w) \/ RecordDecision(w)
        \/ PurgeSelect(w) \/ PurgeRefuse(w) \/ PurgeDelete(w) \/ PurgeCollision(w)
        \/ Attest(w) \/ MarkAttested(w)
        \/ ChainRefuses(w) \/ WorkerDies(w)

RetentionSpec == RetentionInit /\ [][RetentionNext]_retentionVars

----------------------------------------------------------------------------
(* reconcile(records, store).                                               *)

status(c) ==
    IF body[c] # "absent" THEN "present"
    ELSE IF purges[c] # "absent" THEN "purged" ELSE "unknown"

\* Variant: any record of the content counts as its attestation.
AttestedContents_AnyRecord == {r.content : r \in records}

AttestedContents == {r.content : r \in {q \in records : q.commitment = "purged-v1"}}
ClaimedContents ==
    {r.content : r \in {q \in records : q.commitment \in {"salted-v1", "unsalted-v0"}}}

reconcile ==
    [kind : {"unattested-purge"},
     content : {c \in ClaimedContents \ AttestedContents : status(c) = "purged"}]
    \cup [kind : {"body-missing"},
          content : {c \in ClaimedContents : status(c) = "unknown"}]
    \cup [kind : {"uneffected-purge"},
          content : {c \in AttestedContents : status(c) = "present"}]

Reports(kind, c) == [kind |-> kind, content |-> c] \in reconcile

----------------------------------------------------------------------------
(* Properties.                                                              *)

\* Every variable holds values of the kind the code keeps in it.
RetentionTypeOK ==
    /\ site \in Sites
    /\ body \in [Contents -> {"absent", "salted-v1", "unsalted-v0"}]
    /\ purges \in [Contents -> {"absent", "unattested", "attested"}]
    /\ records \subseteq Records
    /\ point \in [Workers -> {"idle"} \cup PutSteps \cup PurgeSteps]
    /\ arg \in [Workers -> Contents \cup {NoContent}]
    /\ form \in [Workers -> Forms]

\* A record never claims a stored form of content the store has lost without a
\* trace: put before record, and a delete always leaves its purge row.  A restore
\* of one store alone may lose content, which is what reconcile() is for.
NoBodyMissing == ~site.drilled => \A c \in Contents : ~Reports("body-missing", c)

\* "The store cannot claim a purge it did not perform" (custos/retention.py,
\* purge): a purge attestation in the chain, and a purge row marked attested,
\* each follow the deletion they speak of, as long as neither store is put back.
AttestationFollowsDeletion ==
    ~site.drilled => \A c \in Contents :
        LET attested == \E r \in records : r.content = c /\ r.action = "PURGE"
        IN  /\ attested => purges[c] # "absent"
            /\ purges[c] = "attested" => attested

\* Each deletion is attested at most once: of the workers that purge the same
\* content one gets past the purge row, and no one after it.
OneAttestor ==
    \A w \in Workers : point[w] \in {"attest", "update"} =>
        /\ purges[arg[w]] = "unattested"
        /\ \A u \in Workers \ {w} :
              ~(point[u] \in {"attest", "update"} /\ arg[u] = arg[w])

\* One process serves every request, one statement after the other, and no content
\* is older than the store.  Two workers can interleave a put with a purge, and
\* put_legacy does not look for a purge.
Served == Cardinality(site.workers) = 1 /\ ~site.legacy

\* "A purge that can be undone by re-offering the same bytes is not a purge"
\* (custos/retention.py, put): purged content is not held again.
PurgeHolds == \A c \in Contents : purges[c] # "absent" => body[c] = "absent"

\* So it is where one process serves; of two workers, one may look for a purge before
\* the other purges, and insert the body after it.
PurgeIsFinal == Served => PurgeHolds

\* "The deletion happened and nothing in the records says so" (custos/retention.py,
\* reconcile): a deletion of claimed content that no purge record attests is
\* reported, once the worker that deleted it is gone.
UnattestedIsReported ==
    Served =>
        \A c \in ClaimedContents :
            /\ status(c) = "purged"
            /\ ~\E r \in records : r.content = c /\ r.action = "PURGE"
            /\ \A w \in Workers : ~(point[w] = "attest" /\ arg[w] = c)
            => Reports("unattested-purge", c)
============================================================================
