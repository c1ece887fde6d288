---------------------------- MODULE RestoreDrill ----------------------------
(***************************************************************************)
(* Retention with backups: both stores are copied while no request is in   *)
(* flight, and later one of them, or both, are put back                    *)
(* (scripts/drills/phase11_export_backup.py).  The question is what        *)
(* reconcile() lets an operator conclude from a green report.              *)
(***************************************************************************)
EXTENDS Retention

VARIABLE backup     \* the copy of both stores

drillVars == <<retentionVars, backup>>

Quiet == \A w \in Workers : point[w] = "idle"

DrillInit ==
    RetentionInit /\ backup = [body |-> body, purges |-> purges, records |-> records]

TakeBackup ==
    /\ site.drilled /\ Quiet
    /\ backup' = [body |-> body, purges |-> purges, records |-> records]
    /\ UNCHANGED retentionVars

RestoreContent ==
    /\ site.drilled /\ Quiet
    /\ body' = backup.body /\ purges' = backup.purges
    /\ UNCHANGED <<site, records, point, arg, form, backup>>

RestoreAudit ==
    /\ site.drilled /\ Quiet
    /\ records' = backup.records
    /\ UNCHANGED <<site, body, purges, point, arg, form, backup>>

DrillNext ==
    \/ RetentionNext /\ UNCHANGED backup
    \/ TakeBackup \/ RestoreContent \/ RestoreAudit

DrillSpec == DrillInit /\ [][DrillNext]_drillVars

\* When reconcile() finds nothing and no request is in flight, the two stores of one
\* served process tell one story of all content a record claims to be stored: it is
\* held and no purge of it is recorded, or its purge is recorded and it is gone.
GreenMeansAgreement ==
    Served /\ Quiet /\ reconcile = {} =>
        \A c \in ClaimedContents :
            LET recorded == \E r \in records : r.content = c /\ r.action = "PURGE"
            IN  \/ body[c] # "absent" /\ ~recorded
                \/ body[c] = "absent" /\ purges[c] # "absent" /\ recorded
============================================================================
