--------------------------- MODULE RetentionProofs ---------------------------
(***************************************************************************)
(* Proofs about Retention and RestoreDrill, for every set of workers,      *)
(* contents and sites: what the two stores say of each other while workers *)
(* race, die between two statements and backups are put back.              *)
(***************************************************************************)
EXTENDS RestoreDrill, FiniteSetTheorems, TLAPS

----------------------------------------------------------------------------
(* The inductive invariant, in parts.                                       *)

Stored == {"salted-v1", "unsalted-v0"}

\* RetentionTypeOK, and: a worker in a call is one of the site and has a content, an idle one
\* has no form, and the backup is a copy of such stores.
Typed ==
    /\ RetentionTypeOK
    /\ \A w \in Workers : IF point[w] = "idle" THEN form[w] = "none"
                           ELSE w \in site.workers /\ arg[w] \in Contents
    /\ backup \in [body : [Contents -> {"absent", "salted-v1", "unsalted-v0"}],
                   purges : [Contents -> {"absent", "unattested", "attested"}],
                   records : SUBSET Records]

\* The side store knows of the content: it holds the body or the row of its purge.
Known(c) == body[c] # "absent" \/ purges[c] # "absent"

PurgeRecorded(c) == \E r \in records : r.content = c /\ r.action = "PURGE"

\* Where no store is put back, the chain does not run ahead of the side store.
Followed ==
    ~site.drilled =>
        /\ \A c \in Contents : PurgeRecorded(c) => purges[c] # "absent"
        /\ \A c \in Contents : purges[c] = "attested" => PurgeRecorded(c)
        /\ \A w \in Workers : point[w] = "update" => PurgeRecorded(arg[w])
        /\ \A r \in records : r.commitment \in Stored => Known(r.content)
        /\ \A w \in Workers : point[w] # "idle" /\ form[w] \in Stored => Known(arg[w])

\* Where one worker serves every request, what it has read is still so.
Alone ==
    Served =>
        /\ \A c \in Contents : purges[c] # "absent" => body[c] = "absent"
        /\ \A c \in Contents : backup.purges[c] # "absent" => backup.body[c] = "absent"
        /\ \A r \in records \cup backup.records :
              r.commitment = "purged-v1" => r.action = "PURGE"
        /\ \A w \in Workers :
              /\ point[w] \notin {"legacy", "tombstone?"} /\ form[w] # "purged-v1"
              /\ point[w] = "insert" => purges[arg[w]] = "absent"
              /\ point[w] = "marker?" => body[arg[w]] # "absent"

\* An attestation is recorded as what it is.
Attestations ==
    \A r \in records \cup backup.records :
        r.action = "PURGE" => r.commitment = "purged-v1"

IInv == Typed /\ OneAttestor /\ Followed /\ Alone /\ Attestations

----------------------------------------------------------------------------
(* Typing.                                                                  *)

\* A worker of the site and a content of the site are among all of them.
LEMMA SiteFacts ==
  ASSUME RetentionTypeOK
  PROVE  site.workers \subseteq Workers /\ site.contents \subseteq Contents
  BY SitesAssumption DEF RetentionTypeOK

LEMMA TypedStep ==
  ASSUME Typed, [DrillNext]_drillVars
  PROVE  Typed'
  <1> USE SiteFacts DEF Typed, RetentionTypeOK, Forms, PutSteps, PurgeSteps
  <1>1. CASE UNCHANGED drillVars
    BY <1>1 DEF drillVars, retentionVars
  <1>2. ASSUME UNCHANGED <<site, backup>>, NEW w \in site.workers, NEW c \in site.contents,
               record_decision(w, c) \/ purge(w, c) \/ Call(w, c, "legacy")
        PROVE  Typed'
    BY <1>2 DEF record_decision, purge, Call, Goto, stores
  <1>3. ASSUME UNCHANGED <<site, backup>>, NEW w \in site.workers,
               PutSelectBody(w) \/ PutSelectPurge(w) \/ PurgeSelect(w)
        PROVE  Typed'
    BY <1>3 DEF PutSelectBody, PutSelectPurge, PurgeSelect, Step, Goto, stores
  <1>4. ASSUME UNCHANGED <<site, backup>>, NEW w \in site.workers, PutInsert(w)
        PROVE  Typed'
    BY <1>4 DEF PutInsert, Step, Goto
  <1>5. ASSUME UNCHANGED <<site, backup>>, NEW w \in site.workers,
               PutCollision(w) \/ PurgeRefuse(w) \/ PurgeCollision(w) \/ ChainRefuses(w) \/ WorkerDies(w)
        PROVE  Typed'
    BY <1>5 DEF PutCollision, PurgeRefuse, PurgeCollision, ChainRefuses, WorkerDies, End, Goto, stores
  <1>6. ASSUME UNCHANGED <<site, backup>>, NEW w \in site.workers, put_legacy(w)
        PROVE  Typed'
    BY <1>6 DEF put_legacy, Step, Goto
  <1>7. ASSUME UNCHANGED <<site, backup>>, NEW w \in site.workers,
               MarkerOfBody(w) \/ MarkerOfPurge(w)
        PROVE  Typed'
    BY <1>7 DEF MarkerOfBody, MarkerOfPurge, Goto, stores
  <1>8. ASSUME UNCHANGED <<site, backup>>, NEW w \in site.workers, RecordDecision(w)
        PROVE  Typed'
    <2>1. [content |-> arg[w], commitment |-> form[w], action |-> "DECIDE"] \in Records
      BY <1>8 DEF RecordDecision, Records
    <2>. QED
      BY <1>8, <2>1 DEF RecordDecision, End, Goto
  <1>9. ASSUME UNCHANGED <<site, backup>>, NEW w \in site.workers, PurgeDelete(w)
        PROVE  Typed'
    BY <1>9 DEF PurgeDelete, Step, Goto
  <1>10. ASSUME UNCHANGED <<site, backup>>, NEW w \in site.workers, Attest(w)
         PROVE  Typed'
    <2>1. [content |-> arg[w], commitment |-> "purged-v1", action |-> "PURGE"] \in Records
      BY <1>10 DEF Attest, Records
    <2>. QED
      BY <1>10, <2>1 DEF Attest, Step, Goto
  <1>11. ASSUME UNCHANGED <<site, backup>>, NEW w \in site.workers, MarkAttested(w)
         PROVE  Typed'
    BY <1>11 DEF MarkAttested, End, Goto
  <1>12. CASE TakeBackup
    BY <1>12 DEF TakeBackup, retentionVars
  <1>13. CASE RestoreContent
    BY <1>13 DEF RestoreContent
  <1>14. CASE RestoreAudit
    BY <1>14 DEF RestoreAudit
  <1>. QED
    BY <1>1, <1>2, <1>3, <1>4, <1>5, <1>6, <1>7, <1>8, <1>9, <1>10, <1>11, <1>12, <1>13,
       <1>14 DEF DrillNext, RetentionNext

----------------------------------------------------------------------------
(* One attestor.                                                            *)

LEMMA OneAttestorStep ==
  ASSUME Typed, OneAttestor, [DrillNext]_drillVars
  PROVE  OneAttestor'
  <1> USE SiteFacts DEF Typed, RetentionTypeOK, OneAttestor
  <1>1. CASE UNCHANGED drillVars
    BY <1>1 DEF drillVars, retentionVars
  <1>2. ASSUME UNCHANGED <<site, backup>>, NEW w \in site.workers,
               NEW c \in site.contents,
               record_decision(w, c) \/ purge(w, c) \/ Call(w, c, "legacy")
        PROVE  OneAttestor'
    BY <1>2 DEF record_decision, purge, Call, Goto, stores
  <1>3. ASSUME UNCHANGED <<site, backup>>, NEW w \in site.workers,
               PutSelectBody(w) \/ PutSelectPurge(w) \/ PurgeSelect(w)
        PROVE  OneAttestor'
    BY <1>3 DEF PutSelectBody, PutSelectPurge, PurgeSelect, Step, Goto, stores
  <1>4. ASSUME UNCHANGED <<site, backup>>, NEW w \in site.workers, PutInsert(w)
        PROVE  OneAttestor'
    BY <1>4 DEF PutInsert, Step, Goto
  <1>5. ASSUME UNCHANGED <<site, backup>>, NEW w \in site.workers,
               PutCollision(w) \/ PurgeRefuse(w) \/ PurgeCollision(w) \/ ChainRefuses(w) \/ WorkerDies(w)
        PROVE  OneAttestor'
    BY <1>5 DEF PutCollision, PurgeRefuse, PurgeCollision, ChainRefuses, WorkerDies, End, Goto, stores
  <1>6. ASSUME UNCHANGED <<site, backup>>, NEW w \in site.workers, put_legacy(w)
        PROVE  OneAttestor'
    BY <1>6 DEF put_legacy, Step, Goto
  <1>7. ASSUME UNCHANGED <<site, backup>>, NEW w \in site.workers, MarkerOfBody(w) \/ MarkerOfPurge(w)
        PROVE  OneAttestor'
    BY <1>7 DEF MarkerOfBody, MarkerOfPurge, Goto, stores
  <1>8. ASSUME UNCHANGED <<site, backup>>, NEW w \in site.workers, RecordDecision(w)
        PROVE  OneAttestor'
    BY <1>8 DEF RecordDecision, End, Goto
  <1>9. ASSUME UNCHANGED <<site, backup>>, NEW w \in site.workers, PurgeDelete(w)
        PROVE  OneAttestor'
    BY <1>9 DEF PurgeDelete, Step, Goto
  <1>10. ASSUME UNCHANGED <<site, backup>>, NEW w \in site.workers, Attest(w)
         PROVE  OneAttestor'
    BY <1>10 DEF Attest, Step, Goto
  <1>11. ASSUME UNCHANGED <<site, backup>>, NEW w \in site.workers, MarkAttested(w)
         PROVE  OneAttestor'
    BY <1>11 DEF MarkAttested, End, Goto
  <1>12. CASE TakeBackup
    BY <1>12 DEF TakeBackup, retentionVars
  <1>13. CASE RestoreContent
    BY <1>13 DEF RestoreContent, Quiet
  <1>14. CASE RestoreAudit
    BY <1>14 DEF RestoreAudit, Quiet
  <1>. QED
    BY <1>1, <1>2, <1>3, <1>4, <1>5, <1>6, <1>7, <1>8, <1>9, <1>10, <1>11, <1>12, <1>13,
       <1>14 DEF DrillNext, RetentionNext

----------------------------------------------------------------------------
(* The chain and the side store.                                            *)

LEMMA FollowedStep ==
  ASSUME Typed, OneAttestor, Followed, [DrillNext]_drillVars
  PROVE  Followed'
  <1> USE SiteFacts DEF Typed, RetentionTypeOK, OneAttestor, Followed, Known, PurgeRecorded, Stored
  <1>1. CASE UNCHANGED drillVars
    BY <1>1 DEF drillVars, retentionVars
  <1>2. ASSUME UNCHANGED <<site, backup>>, NEW w \in site.workers,
               NEW c \in site.contents,
               record_decision(w, c) \/ purge(w, c) \/ Call(w, c, "legacy")
        PROVE  Followed'
    BY <1>2 DEF record_decision, purge, Call, Goto, stores
  <1>3. ASSUME UNCHANGED <<site, backup>>, NEW w \in site.workers,
               PutSelectBody(w) \/ PutSelectPurge(w) \/ PurgeSelect(w)
        PROVE  Followed'
    BY <1>3 DEF PutSelectBody, PutSelectPurge, PurgeSelect, Step, Goto, stores
  <1>4. ASSUME UNCHANGED <<site, backup>>, NEW w \in site.workers, PutInsert(w)
        PROVE  Followed'
    BY <1>4 DEF PutInsert, Step, Goto
  <1>5. ASSUME UNCHANGED <<site, backup>>, NEW w \in site.workers,
               PutCollision(w) \/ PurgeRefuse(w) \/ PurgeCollision(w) \/ ChainRefuses(w) \/ WorkerDies(w)
        PROVE  Followed'
    BY <1>5 DEF PutCollision, PurgeRefuse, PurgeCollision, ChainRefuses, WorkerDies, End, Goto, stores
  <1>6. ASSUME UNCHANGED <<site, backup>>, NEW w \in site.workers, put_legacy(w)
        PROVE  Followed'
    BY <1>6 DEF put_legacy, Step, Goto
  <1>7. ASSUME UNCHANGED <<site, backup>>, NEW w \in site.workers, MarkerOfBody(w) \/ MarkerOfPurge(w)
        PROVE  Followed'
    BY <1>7 DEF MarkerOfBody, MarkerOfPurge, Goto, stores
  <1>8. ASSUME UNCHANGED <<site, backup>>, NEW w \in site.workers, RecordDecision(w)
        PROVE  Followed'
    BY <1>8 DEF RecordDecision, End, Goto
  <1>9. ASSUME UNCHANGED <<site, backup>>, NEW w \in site.workers, PurgeDelete(w)
        PROVE  Followed'
    <2>1. /\ arg[w] \in Contents /\ purges'[arg[w]] = "unattested" /\ purges[arg[w]] = "absent"
          /\ \A c \in Contents \ {arg[w]} : purges'[c] = purges[c] /\ body'[c] = body[c]
          /\ UNCHANGED <<records, arg, form>>
          /\ point'[w] = "attest" /\ point[w] = "delete" /\ \A v \in Workers \ {w} : point'[v] = point[v]
      BY <1>9 DEF PurgeDelete, Step, Goto
    <2>2. \A c \in Contents : Known(c) => Known(c)'
      BY <2>1
    <2>3. \A c \in Contents : PurgeRecorded(c)' <=> PurgeRecorded(c)
      BY <2>1
    <2>4. \A r \in records : r.content \in Contents
      BY DEF Records
    <2>. QED
      BY <1>9, <2>1, <2>2, <2>3, <2>4
  <1>10. ASSUME UNCHANGED <<site, backup>>, NEW w \in site.workers, Attest(w)
         PROVE  Followed'
    <2> DEFINE new == [content |-> arg[w], commitment |-> "purged-v1", action |-> "PURGE"]
    <2>1. /\ arg[w] \in Contents /\ purges[arg[w]] = "unattested"
          /\ records' = records \cup {new} /\ UNCHANGED <<body, purges, arg, form>>
          /\ point[w] = "attest" /\ point'[w] = "update" /\ \A v \in Workers \ {w} : point'[v] = point[v]
      BY <1>10 DEF Attest, Step, Goto
    <2>2. new \in records' /\ new.content = arg[w] /\ new.action = "PURGE"
      BY <2>1
    <2>3. \A r \in records' : r \in records \/ r.content = arg[w]
      BY <2>1
    <2>4. \A r \in records' : r.commitment \in Stored => r \in records
      BY <2>1
    <2> HIDE DEF new, Stored, Known
    <2>5. SUFFICES ASSUME ~site.drilled PROVE Followed'
      BY <1>10
    <2>6. \A c \in Contents : PurgeRecorded(c)' => purges'[c] # "absent"
      BY <2>1, <2>3, <2>5
    <2>7. \A c \in Contents : purges'[c] = "attested" => PurgeRecorded(c)'
      BY <2>1, <2>5
    <2>8. \A v \in Workers : point'[v] = "update" =>
             \E r \in records' : r.content = arg'[v] /\ r.action = "PURGE"
      BY <2>1, <2>2, <2>5
    <2>9. \A r \in records' : r.commitment \in Stored =>
             body'[r.content] # "absent" \/ purges'[r.content] # "absent"
      BY <2>1, <2>4, <2>5 DEF Known
    <2>10. \A v \in Workers : point'[v] # "idle" /\ form'[v] \in Stored =>
             body'[arg'[v]] # "absent" \/ purges'[arg'[v]] # "absent"
      BY <2>1, <2>5 DEF Known
    <2>. QED
      BY <2>6, <2>7, <2>8, <2>9, <2>10 DEF Stored, Known
  <1>11. ASSUME UNCHANGED <<site, backup>>, NEW w \in site.workers, MarkAttested(w)
         PROVE  Followed'
    BY <1>11 DEF MarkAttested, End, Goto
  <1>12. CASE TakeBackup
    BY <1>12 DEF TakeBackup, retentionVars
  <1>13. CASE RestoreContent
    BY <1>13 DEF RestoreContent, Quiet
  <1>14. CASE RestoreAudit
    BY <1>14 DEF RestoreAudit, Quiet
  <1>. QED
    BY <1>1, <1>2, <1>3, <1>4, <1>5, <1>6, <1>7, <1>8, <1>9, <1>10, <1>11, <1>12, <1>13,
       <1>14 DEF DrillNext, RetentionNext

----------------------------------------------------------------------------
(* One served process.                                                      *)

\* Where one worker serves, no two workers are in a call.
LEMMA ServedIsAlone ==
  ASSUME Typed, Served
  PROVE  \A w, u \in site.workers : w = u
  <1>1. IsFiniteSet(site.workers)
    BY SiteFacts, WorkersAssumption, FS_Subset DEF Typed
  <1>. QED
    BY <1>1, FS_Singleton DEF Served

LEMMA AloneStep ==
  ASSUME Typed, Attestations, Alone, [DrillNext]_drillVars
  PROVE  Alone'
  <1> SUFFICES ASSUME Served' PROVE Alone'
    BY DEF Alone
  <1>0. Served /\ \A w, u \in site.workers : w = u
    BY ServedIsAlone DEF DrillNext, drillVars, retentionVars, RetentionNext, TakeBackup, RestoreContent, RestoreAudit, Served
  <1>01. ~site.legacy /\ Typed /\ Alone
    BY <1>0 DEF Served
  <1> USE <1>0, <1>01, SiteFacts DEF Typed, RetentionTypeOK, Alone
  <1>1. CASE UNCHANGED drillVars
    BY <1>1 DEF drillVars, retentionVars
  <1>2. ASSUME UNCHANGED <<site, backup>>, NEW w \in site.workers,
               NEW c \in site.contents,
               record_decision(w, c) \/ purge(w, c)
        PROVE  Alone'
    BY <1>2 DEF record_decision, purge, Call, Goto, stores
  <1>3. ASSUME UNCHANGED <<site, backup>>, NEW w \in site.workers,
               PutSelectBody(w) \/ PutSelectPurge(w) \/ PurgeSelect(w)
        PROVE  Alone'
    BY <1>3 DEF PutSelectBody, PutSelectPurge, PurgeSelect, Step, Goto, stores
  <1>4. ASSUME UNCHANGED <<site, backup>>, NEW w \in site.workers, PutInsert(w)
        PROVE  Alone'
    BY <1>4 DEF PutInsert, Step, Goto
  <1>5. ASSUME UNCHANGED <<site, backup>>, NEW w \in site.workers,
               PutCollision(w) \/ PurgeRefuse(w) \/ PurgeCollision(w) \/ ChainRefuses(w) \/ WorkerDies(w)
        PROVE  Alone'
    BY <1>5 DEF PutCollision, PurgeRefuse, PurgeCollision, ChainRefuses, WorkerDies, End, Goto, stores
  <1>6. ASSUME UNCHANGED <<site, backup>>, NEW w \in site.workers, put_legacy(w)
        PROVE  Alone'
    BY <1>6 DEF put_legacy, Step, Goto
  <1>7. ASSUME UNCHANGED <<site, backup>>, NEW w \in site.workers, MarkerOfBody(w) \/ MarkerOfPurge(w)
        PROVE  Alone'
    BY <1>7 DEF MarkerOfBody, MarkerOfPurge, Goto, stores
  <1>8. ASSUME UNCHANGED <<site, backup>>, NEW w \in site.workers, RecordDecision(w)
        PROVE  Alone'
    BY <1>8 DEF RecordDecision, End, Goto
  <1>9. ASSUME UNCHANGED <<site, backup>>, NEW w \in site.workers, PurgeDelete(w)
        PROVE  Alone'
    BY <1>9 DEF PurgeDelete, Step, Goto
  <1>10. ASSUME UNCHANGED <<site, backup>>, NEW w \in site.workers, Attest(w)
         PROVE  Alone'
    BY <1>10 DEF Attest, Step, Goto
  <1>11. ASSUME UNCHANGED <<site, backup>>, NEW w \in site.workers, MarkAttested(w)
         PROVE  Alone'
    BY <1>11 DEF MarkAttested, End, Goto
  <1>12. CASE TakeBackup
    BY <1>12 DEF TakeBackup, retentionVars
  <1>13. CASE RestoreContent
    BY <1>13 DEF RestoreContent, Quiet
  <1>14. CASE RestoreAudit
    BY <1>14 DEF RestoreAudit, Quiet
  <1>. QED
    BY <1>1, <1>2, <1>3, <1>4, <1>5, <1>6, <1>7, <1>8, <1>9, <1>10, <1>11, <1>12, <1>13,
       <1>14 DEF DrillNext, RetentionNext

LEMMA AttestationsStep ==
  ASSUME Typed, Attestations, [DrillNext]_drillVars
  PROVE  Attestations'
  <1> USE DEF Attestations
  <1>1. CASE UNCHANGED drillVars
    BY <1>1 DEF drillVars, retentionVars
  <1>2. ASSUME UNCHANGED <<site, backup>>, NEW w \in site.workers,
               NEW c \in site.contents,
               record_decision(w, c) \/ purge(w, c) \/ Call(w, c, "legacy")
        PROVE  Attestations'
    BY <1>2 DEF record_decision, purge, Call, Goto, stores
  <1>3. ASSUME UNCHANGED <<site, backup>>, NEW w \in site.workers,
               PutSelectBody(w) \/ PutSelectPurge(w) \/ PurgeSelect(w)
        PROVE  Attestations'
    BY <1>3 DEF PutSelectBody, PutSelectPurge, PurgeSelect, Step, Goto, stores
  <1>4. ASSUME UNCHANGED <<site, backup>>, NEW w \in site.workers, PutInsert(w)
        PROVE  Attestations'
    BY <1>4 DEF PutInsert, Step, Goto
  <1>5. ASSUME UNCHANGED <<site, backup>>, NEW w \in site.workers,
               PutCollision(w) \/ PurgeRefuse(w) \/ PurgeCollision(w) \/ ChainRefuses(w) \/ WorkerDies(w)
        PROVE  Attestations'
    BY <1>5 DEF PutCollision, PurgeRefuse, PurgeCollision, ChainRefuses, WorkerDies, End, Goto, stores
  <1>6. ASSUME UNCHANGED <<site, backup>>, NEW w \in site.workers, put_legacy(w)
        PROVE  Attestations'
    BY <1>6 DEF put_legacy, Step, Goto
  <1>7. ASSUME UNCHANGED <<site, backup>>, NEW w \in site.workers, MarkerOfBody(w) \/ MarkerOfPurge(w)
        PROVE  Attestations'
    BY <1>7 DEF MarkerOfBody, MarkerOfPurge, Goto, stores
  <1>8. ASSUME UNCHANGED <<site, backup>>, NEW w \in site.workers, RecordDecision(w)
        PROVE  Attestations'
    BY <1>8 DEF RecordDecision, End, Goto
  <1>9. ASSUME UNCHANGED <<site, backup>>, NEW w \in site.workers, PurgeDelete(w)
        PROVE  Attestations'
    BY <1>9 DEF PurgeDelete, Step, Goto
  <1>10. ASSUME UNCHANGED <<site, backup>>, NEW w \in site.workers, Attest(w)
         PROVE  Attestations'
    BY <1>10 DEF Attest, Step, Goto
  <1>11. ASSUME UNCHANGED <<site, backup>>, NEW w \in site.workers, MarkAttested(w)
         PROVE  Attestations'
    BY <1>11 DEF MarkAttested, End, Goto
  <1>12. CASE TakeBackup
    BY <1>12 DEF TakeBackup, retentionVars
  <1>13. CASE RestoreContent
    BY <1>13 DEF RestoreContent, Quiet
  <1>14. CASE RestoreAudit
    BY <1>14 DEF RestoreAudit, Quiet
  <1>. QED
    BY <1>1, <1>2, <1>3, <1>4, <1>5, <1>6, <1>7, <1>8, <1>9, <1>10, <1>11, <1>12, <1>13,
       <1>14 DEF DrillNext, RetentionNext

----------------------------------------------------------------------------
(* The theorems.                                                            *)

LEMMA StartsRight ==
  ASSUME DrillInit
  PROVE  IInv
  <1> USE DEF DrillInit, RetentionInit
  <1>1. Typed
    BY DEF Typed, RetentionTypeOK, Forms, PutSteps, PurgeSteps
  <1>2. OneAttestor
    BY DEF OneAttestor
  <1>3. Followed
    BY DEF Followed, PurgeRecorded, Known
  <1>4. Alone /\ Attestations
    BY DEF Alone, Attestations
  <1>. QED
    BY <1>1, <1>2, <1>3, <1>4 DEF IInv

LEMMA RetentionInvariant == DrillSpec => []IInv
  <1>1. DrillInit => IInv
    BY StartsRight
  <1>2. IInv /\ [DrillNext]_drillVars => IInv'
    BY TypedStep, OneAttestorStep, FollowedStep, AloneStep, AttestationsStep DEF IInv
  <1>. QED
    BY <1>1, <1>2, PTL DEF DrillSpec

\* The two stores and the workers' places keep the types the code gives them, while
\* statements of several workers interleave, workers die and stores are put back.
THEOREM RetentionTypeCorrect == DrillSpec => []RetentionTypeOK
  <1>1. IInv => RetentionTypeOK
    BY DEF IInv, Typed
  <1>. QED
    BY <1>1, RetentionInvariant, PTL

\* Of the workers that purge one content, however many there are and wherever they
\* stop, one gets past the INSERT INTO purges, and while it is on its way to attest
\* the row it left is still the unattested one.
THEOREM PurgesHaveOneAttestor == DrillSpec => []OneAttestor
  <1>1. IInv => OneAttestor
    BY DEF IInv
  <1>. QED
    BY <1>1, RetentionInvariant, PTL

\* While no store is put back, reconcile() never reports a body as missing: put writes
\* before record does, and purge leaves its row in the transaction of its DELETE.
THEOREM StoredFormsAreNotLost == DrillSpec => []NoBodyMissing
  <1>1. ASSUME IInv, ~site.drilled, NEW c \in Contents, Reports("body-missing", c)
        PROVE  FALSE
    <2>1. c \in ClaimedContents /\ status(c) = "unknown"
      BY <1>1 DEF Reports, reconcile
    <2>2. PICK r \in records : r.content = c /\ r.commitment \in Stored
      BY <2>1 DEF ClaimedContents, Stored
    <2>3. Known(c)
      BY <1>1, <2>2 DEF IInv, Followed
    <2>. QED
      BY <2>1, <2>3 DEF status, Known
  <1>2. IInv => NoBodyMissing
    BY <1>1 DEF NoBodyMissing
  <1>. QED
    BY <1>2, RetentionInvariant, PTL

\* While no store is put back, the chain attests a purge, and the purge row says it is
\* attested, only after the deletion each speaks of.
THEOREM AttestationsFollowDeletions == DrillSpec => []AttestationFollowsDeletion
  <1>1. IInv => AttestationFollowsDeletion
    BY DEF IInv, Followed, PurgeRecorded, AttestationFollowsDeletion
  <1>. QED
    BY <1>1, RetentionInvariant, PTL

\* In one served process, backups put back or not, content with a purge row is not
\* held: put looks for the row before it inserts, and nothing comes in between.
THEOREM PurgedStaysPurged == DrillSpec => []PurgeIsFinal
  <1>1. IInv => PurgeIsFinal
    BY DEF IInv, Alone, PurgeIsFinal, PurgeHolds
  <1>. QED
    BY <1>1, RetentionInvariant, PTL

\* In one served process, a deletion of claimed content that no purge record speaks of
\* is reported by reconcile(), once the worker that deleted it is gone: no decision was
\* recorded with the purged form, so nothing hides it.
THEOREM UnattestedPurgesAreReported == DrillSpec => []UnattestedIsReported
  <1>1. ASSUME IInv, Served, NEW c \in ClaimedContents, status(c) = "purged",
               ~PurgeRecorded(c)
        PROVE  Reports("unattested-purge", c)
    <2>1. c \notin AttestedContents
      BY <1>1 DEF IInv, Alone, PurgeRecorded, AttestedContents
    <2>. QED
      BY <1>1, <2>1 DEF Reports, reconcile
  <1>2. IInv => UnattestedIsReported
    BY <1>1 DEF UnattestedIsReported, PurgeRecorded
  <1>. QED
    BY <1>2, RetentionInvariant, PTL

\* In one served process a green reconcile() means what an operator takes it to mean,
\* whichever store was put back from whichever backup: all content a record claims is
\* held and not recorded as purged, or recorded as purged and gone.
THEOREM GreenReportsAgree == DrillSpec => []GreenMeansAgreement
  <1>1. ASSUME IInv, Served, reconcile = {}, NEW c \in ClaimedContents
        PROVE  \/ body[c] # "absent" /\ ~PurgeRecorded(c)
               \/ body[c] = "absent" /\ purges[c] # "absent" /\ PurgeRecorded(c)
    <2>0. c \in Contents
      BY <1>1 DEF IInv, Typed, RetentionTypeOK, Records, ClaimedContents
    <2>1. \A k : ~Reports(k, c)
      BY <1>1 DEF Reports
    <2>2. status(c) # "unknown"
      BY <1>1, <2>1 DEF Reports, reconcile
    <2>3. CASE body[c] # "absent"
      <3>1. c \notin AttestedContents
        BY <2>3, <2>1 DEF Reports, reconcile, status
      <3>. QED
        BY <2>3, <3>1, <1>1 DEF IInv, Attestations, PurgeRecorded, AttestedContents
    <2>4. CASE body[c] = "absent"
      <3>1. status(c) = "purged" /\ purges[c] # "absent"
        BY <2>2, <2>4 DEF status
      <3>2. c \in AttestedContents
        BY <1>1, <2>1, <3>1 DEF Reports, reconcile
      <3>. QED
        BY <2>4, <3>1, <3>2, <1>1 DEF IInv, Alone, PurgeRecorded, AttestedContents
    <2>. QED
      BY <2>3, <2>4
  <1>2. IInv => GreenMeansAgreement
    BY <1>1 DEF GreenMeansAgreement, PurgeRecorded
  <1>. QED
    BY <1>2, RetentionInvariant, PTL
============================================================================
