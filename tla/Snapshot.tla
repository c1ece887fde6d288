------------------------------ MODULE Snapshot ------------------------------
(***************************************************************************)
(* Snapshots of one tenant's chain: custos/snapshot.py, SnapshotEngine.    *)
(* A process loads the rows of StoredChain and later exports them while    *)
(* its other threads append: generate() takes the lock of the chain four   *)
(* times, once for the records, once for the verification and twice for    *)
(* the latest hash, and every time it may find the chain grown.            *)
(*                                                                         *)
(* snapshot_hash is the payload it is the digest of.                       *)
(***************************************************************************)
EXTENDS StoredChain

VARIABLES
    loaded,     \* _records of the process that makes the snapshot, or NotLoaded
    step,       \* the next thing generate() does, or "done"
    document    \* what it has put together so far

snapshotVars == <<tableVars, loaded, step, document>>

NotLoaded == << <<>> >>
NoDocument == [records |-> << >>]

SnapshotInit == TableInit /\ loaded = NotLoaded /\ step = "idle" /\ document = NoDocument

\* The process starts and reads the table, which later alterations do not reach.
Load ==
    /\ loaded = NotLoaded
    /\ loaded' = rows
    /\ UNCHANGED <<tableVars, step, document>>

latest_hash == IF loaded = << >> THEN GENESIS_HASH ELSE Last(loaded).record_hash

\* A record of this process follows the last one in its memory, and goes to the
\* table and to memory.
AppendWhileServing ==
    /\ loaded # NotLoaded /\ step # "done" /\ Len(loaded) < MaxStored
    /\ Grow(latest_hash)
    /\ loaded' = Append(loaded, Last(rows'))
    /\ UNCHANGED <<step, document>>

\* The time ranges: everything, not the first record, not the last one.
Ranges(n) == {<<1, n>>, <<2, n>>, <<1, n - 1>>}

\* get_records, and those of them in the range.
GetRecords(range) ==
    /\ loaded # NotLoaded /\ step = "idle"
    /\ document' = [records |-> SubSeq(loaded, range[1], range[2])]
    /\ step' = "verify"
    /\ UNCHANGED <<tableVars, loaded>>

\* Variant: the walk ends after the first record.
VerifyChain_FirstOnly ==
    /\ step = "verify"
    /\ document' = [records |-> document.records,
                    valid |-> loaded = << >> \/ verify(<<Head(loaded)>>) = "ok"]
    /\ step' = "sign"
    /\ UNCHANGED <<tableVars, loaded>>

VerifyChain ==
    /\ step = "verify"
    /\ document' = [records |-> document.records, valid |-> verify(loaded) = "ok"]
    /\ step' = "sign"
    /\ UNCHANGED <<tableVars, loaded>>

Payload(d, hash) == [records |-> d.records, valid |-> d.valid, latest_hash |-> hash]

\* The payload with the latest hash is signed ...
SignPayload ==
    /\ step = "sign"
    /\ document' = [records |-> document.records, valid |-> document.valid,
                    snapshot_hash |-> Payload(document, latest_hash)]
    /\ step' = "finish"
    /\ UNCHANGED <<tableVars, loaded>>

\* ... and the result reads the latest hash again.
Finish ==
    /\ step = "finish"
    /\ document' = [records |-> document.records, valid |-> document.valid,
                    snapshot_hash |-> document.snapshot_hash,
                    latest_hash |-> latest_hash]
    /\ step' = "done"
    /\ UNCHANGED <<tableVars, loaded>>

verify_snapshot(d) == d.snapshot_hash = Payload(d, d.latest_hash)

\* Before this process starts others write; the table may be altered at any time.
SnapshotNext ==
    \/ /\ loaded = NotLoaded
       /\ Grow(HeadHash)
       /\ UNCHANGED <<loaded, step, document>>
    \/ Alter /\ UNCHANGED <<loaded, step, document>>
    \/ Load \/ AppendWhileServing
    \/ \E range \in Ranges(Len(loaded)) : GetRecords(range)
    \/ VerifyChain \/ SignPayload \/ Finish

SnapshotSpec == SnapshotInit /\ [][SnapshotNext]_snapshotVars

----------------------------------------------------------------------------

\* "Exports a tamper-evident snapshot of the audit chain" (snapshot.py): a document
\* that says the chain is valid and that verify_snapshot accepts holds records as
\* they were written, in every bound field, and ends in a latest hash of the same
\* history, whatever was altered before and appended while it was made; and verify_snapshot rejects an
\* untouched document only if a record was appended between the two readings of the
\* latest hash.
SnapshotIsGenuine ==
    step = "done" =>
        LET signed == document.snapshot_hash.latest_hash
        IN  /\ verify_snapshot(document) /\ document.valid =>
                 \A i \in DOMAIN document.records :
                    LET r == document.records[i]
                    IN  /\ \E w \in written : BoundFieldsKept(r, w)
                        /\ IsPrefix(r.record_hash, document.latest_hash)
            /\ ~verify_snapshot(document) => IsStrictPrefix(signed, document.latest_hash)
============================================================================
