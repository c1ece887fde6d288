------------------------------ MODULE Custody ------------------------------
(***************************************************************************)
(* External custody of one tenant's chain: custos/custody.py (the anchor   *)
(* manager, the git sink, the re-walk verify_custody) and the part of      *)
(* custos/action_gate.py that anchors policy commits.                      *)
(*                                                                         *)
(* The anchor loop and the gate's threads share the manager.  The loop     *)
(* anchors the head of the chain; every thread drains the queue of policy  *)
(* commits.  All of it is kept in memory, and a restart starts it afresh.  *)
(*                                                                         *)
(* A record of the chain is an honest one, with the digest it cites, or,   *)
(* in a copy of the store, a forged one.  Hashes are injective and keep    *)
(* what was hashed: the record hash at a length is the prefix of that      *)
(* length, an anchor's hash its predecessor's hash and its own fields.     *)
(***************************************************************************)
EXTENDS Naturals, Sequences, FiniteSetsExt

CONSTANTS
    Gates,          \* threads of the action gate
    Digests,        \* digests of policy sets
    NoDigest,       \* None: a gate for whose policy set no digest is computed
    AnchorN,        \* records between two anchors (CUSTOS_CUSTODY_ANCHOR_N)
    SinkFails,      \* BOOLEAN: a sink may refuse an anchor
    MaxRecords,     \* bound on the chain
    MaxEpoch,       \* bound on the epochs of either kind
    MaxQueue,       \* bound on the queue of policy commits
    MaxGap,         \* bound on the failed attempts at one anchor
    MaxRestarts     \* bound on the restarts

ASSUME CustodyAssumption ==
    /\ {AnchorN, MaxEpoch, MaxQueue, MaxGap} \subseteq Nat \ {0}
    /\ {MaxRecords, MaxRestarts} \subseteq Nat
    /\ SinkFails \in BOOLEAN /\ NoDigest \notin Digests

VARIABLES
    chain,          \* the records of the tenant
    policy,         \* digest of the policy set in force
    st,             \* _tenant_state: epoch, length, anchor_hash, failed attempts
    pst,            \* _policy_state: the epoch
    queue,          \* _policy_queue
    last,           \* the gate's _last_anchored_digest
    pc, cited, popped, failed,      \* the locals of each thread
    files,          \* the files of the git sink, by the epoch in their name
    restarts

manager == <<st, pst, queue, last>>
threads == <<pc, cited, popped, failed>>
vars == <<chain, policy, manager, threads, files, restarts>>

Loop == "loop"
Threads == Gates \cup {Loop}

GENESIS_ANCHOR_HASH == <<>>
Honest(d) == [by |-> "gate", policy_digest |-> d]
Forged == [by |-> "forger", policy_digest |-> NoDigest]

NoFile == [kind |-> "none"]
NoCommit == [digest |-> NoDigest, canonical |-> NoDigest]
Items == [digest : Digests, canonical : Digests]

----------------------------------------------------------------------------
(* Anchor records and their files.                                          *)

\* What the hash of a head anchor covers.
compute_hash(a) ==
    Append(a.prev, <<a.epoch, a.chain_length, a.head_hash, a.gap>>)

\* The anchor is built without its hash, then sealed with it.
Anchor(prev, epoch, length, head, gap) ==
    LET a == [kind |-> "head", epoch |-> epoch, chain_length |-> length, head_hash |-> head,
              prev |-> prev, gap |-> gap, anchor_hash |-> GENESIS_ANCHOR_HASH]
    IN  [a EXCEPT !.anchor_hash = compute_hash(a)]

\* A commit links to the one before it as well, a link verify_custody leaves alone.
PolicyCommit(epoch, item) ==
    [kind |-> "policy_commit", epoch |-> epoch,
     digest |-> item.digest, canonical |-> item.canonical]

\* GitAnchorSink.append: one file for each epoch of the tenant.
Written(a) == [files EXCEPT ![a.epoch] = a]

Kind(k) == {e \in DOMAIN files : files[e].kind = k}

\* GitAnchorSink.load_anchors, and the head anchors the re-walk sorts out of it, each
\* under the epoch that both sort by.
load_anchors == [e \in Kind("head") |-> files[e]]

anchored_digests == {files[e].digest : e \in Kind("policy_commit")}

----------------------------------------------------------------------------
(* verify_custody over a copy of the store, re-hashed so that P1 holds.     *)

ESTABLISHED == "ESTABLISHED"
CANNOT_ESTABLISH == "CANNOT ESTABLISH"
CONTRADICTION == "CONTRADICTION"

Verdict(anchors, holds) ==
    IF DOMAIN anchors = {} THEN CANNOT_ESTABLISH
    ELSE IF holds THEN ESTABLISHED ELSE CONTRADICTION

P2(copy, anchors) ==
    Verdict(anchors, \A e \in DOMAIN anchors :
        /\ anchors[e].chain_length \in 1..Len(copy)
        /\ anchors[e].head_hash = SubSeq(copy, 1, anchors[e].chain_length))

\* Epochs rise, every anchor links to the one before it, and hashes are right.
P3(anchors) ==
    Verdict(anchors, \A e \in DOMAIN anchors :
        LET before == {d \in DOMAIN anchors : d < e}
        IN  /\ anchors[e].epoch > (IF before = {} THEN 0 ELSE anchors[Max(before)].epoch)
            /\ anchors[e].prev = IF before = {} THEN GENESIS_ANCHOR_HASH
                                                ELSE anchors[Max(before)].anchor_hash
            /\ anchors[e].anchor_hash = compute_hash(anchors[e]))

P4(copy, anchors) ==
    Verdict(anchors, \A e \in DOMAIN anchors : anchors[e].chain_length <= Len(copy))

\* The canonical bytes in a commit re-hash to its digest.
P5 == IF \A e \in Kind("policy_commit") : files[e].canonical = files[e].digest
      THEN ESTABLISHED ELSE CONTRADICTION

\* Every digest a record cites was committed.
P6(copy) ==
    IF \A i \in DOMAIN copy : copy[i].policy_digest \in anchored_digests \cup {NoDigest}
    THEN ESTABLISHED ELSE CONTRADICTION

verify_custody(copy, anchors) ==
    LET verdicts == {P2(copy, anchors), P3(anchors), P4(copy, anchors), P5, P6(copy)}
    IN  IF CONTRADICTION \in verdicts THEN CONTRADICTION
        ELSE IF verdicts = {ESTABLISHED} THEN ESTABLISHED ELSE CANNOT_ESTABLISH

----------------------------------------------------------------------------

FreshManager ==
    /\ st' = [epoch |-> 0, length |-> 0, anchor_hash |-> GENESIS_ANCHOR_HASH, gap |-> 0]
    /\ pst' = 0 /\ queue' = <<>> /\ last' = NoDigest
    /\ pc' = [t \in Threads |-> "idle"]
    /\ cited' = [t \in Threads |-> NoDigest]
    /\ popped' = [t \in Threads |-> NoCommit]
    /\ failed' = [t \in Threads |-> <<>>]

Init ==
    /\ chain = <<>> /\ files = [e \in 1..MaxEpoch |-> NoFile] /\ restarts = 0
    /\ policy \in Digests \cup {NoDigest}
    /\ st = [epoch |-> 0, length |-> 0, anchor_hash |-> GENESIS_ANCHOR_HASH, gap |-> 0]
    /\ pst = 0 /\ queue = <<>> /\ last = NoDigest
    /\ pc = [t \in Threads |-> "idle"]
    /\ cited = [t \in Threads |-> NoDigest]
    /\ popped = [t \in Threads |-> NoCommit]
    /\ failed = [t \in Threads |-> <<>>]

Goto(t, label) == pc' = [pc EXCEPT ![t] = label]

----------------------------------------------------------------------------
(* The gate.                                                                *)

\* register_tools, or a rule added: another policy set is in force.
ChangePolicy ==
    /\ policy # NoDigest
    /\ \E d \in Digests \ {policy} : policy' = d
    /\ UNCHANGED <<chain, manager, threads, files, restarts>>

\* evaluate_action computes the digest the decision will cite; there is nothing
\* to anchor when it is the last one anchored, or when there is none.
EvaluateAction(g) ==
    /\ pc[g] = "idle" /\ Len(chain) < MaxRecords
    /\ cited' = [cited EXCEPT ![g] = policy]
    /\ Goto(g, IF policy \in {NoDigest, last} THEN "record" ELSE "queue")
    /\ UNCHANGED <<chain, policy, manager, popped, failed, files, restarts>>

\* _maybe_anchor_policy_commit reads the policy set once more, for the canonical
\* bytes, and queues them with the digest.
AnchorPolicyCommit(g) ==
    /\ pc[g] = "queue" /\ Len(queue) < MaxQueue
    /\ queue' = Append(queue, [digest |-> cited[g], canonical |-> policy])
    /\ Goto(g, "drain")
    /\ UNCHANGED <<chain, policy, st, pst, last, cited, popped, failed, files, restarts>>

\* The decision is recorded.
Record(g) ==
    /\ pc[g] = "record" /\ Len(chain) < MaxRecords
    /\ chain' = Append(chain, Honest(cited[g]))
    /\ cited' = [cited EXCEPT ![g] = NoDigest]
    /\ Goto(g, "idle")
    /\ UNCHANGED <<policy, manager, popped, failed, files, restarts>>

----------------------------------------------------------------------------
(* drain_policy_commits, in any thread.                                     *)

\* The queue's head is taken under the lock; the commit is built without it.
Pop(t) ==
    /\ pc[t] = "drain" /\ queue # <<>> /\ pst < MaxEpoch
    /\ popped' = [popped EXCEPT ![t] = PolicyCommit(pst + 1, Head(queue))]
    /\ queue' = Tail(queue)
    /\ Goto(t, "append")
    /\ UNCHANGED <<chain, policy, st, pst, last, cited, failed, files, restarts>>

\* Every sink took the commit.
AppendCommit(t) ==
    /\ pc[t] = "append"
    /\ files' = Written(popped[t])
    /\ Goto(t, "advance")
    /\ UNCHANGED <<chain, policy, manager, cited, popped, failed, restarts>>

\* Some sink refused it; the git sink may have written its file before.
AppendCommitFails(t) ==
    /\ SinkFails
    /\ pc[t] = "append"
    /\ files' \in {files, Written(popped[t])}
    /\ failed' = [failed EXCEPT ![t] =
          Append(@, [digest |-> popped[t].digest, canonical |-> popped[t].canonical])]
    /\ popped' = [popped EXCEPT ![t] = NoCommit]
    /\ Goto(t, "drain")
    /\ UNCHANGED <<chain, policy, manager, cited, restarts>>

\* The epoch is counted up from what it is now, not from what the commit took.
Advance(t) ==
    /\ pc[t] = "advance" /\ pst < MaxEpoch
    /\ pst' = pst + 1
    /\ popped' = [popped EXCEPT ![t] = NoCommit]
    /\ Goto(t, "drain")
    /\ UNCHANGED <<chain, policy, st, queue, last, cited, failed, files, restarts>>

\* Variant: a commit that failed is not put back.
DrainEnds_Drops(t) ==
    /\ pc[t] = "drain" /\ queue = <<>>
    /\ failed' = [failed EXCEPT ![t] = <<>>]
    /\ last' = IF t \in Gates /\ failed[t] = <<>> THEN cited[t] ELSE last
    /\ Goto(t, IF t = Loop THEN "heads" ELSE "record")
    /\ UNCHANGED <<chain, policy, st, pst, queue, cited, popped, files, restarts>>

\* The queue is empty: what failed goes back to its front.  A gate whose drain
\* had no failure marks its digest as anchored.
DrainEnds(t) ==
    /\ pc[t] = "drain" /\ queue = <<>>
    /\ queue' = failed[t]
    /\ failed' = [failed EXCEPT ![t] = <<>>]
    /\ last' = IF t \in Gates /\ failed[t] = <<>> THEN cited[t] ELSE last
    /\ Goto(t, IF t = Loop THEN "heads" ELSE "record")
    /\ UNCHANGED <<chain, policy, st, pst, cited, popped, files, restarts>>

----------------------------------------------------------------------------
(* The anchor loop.                                                         *)

\* Every anchor_t seconds anchor_due drains the queue, then looks at the head.
Tick ==
    /\ pc[Loop] = "idle"
    /\ Goto(Loop, "drain")
    /\ UNCHANGED <<chain, policy, manager, cited, popped, failed, files, restarts>>

\* anchor_due has an argument to anchor whatever the length, which no caller sets.
Due == Len(chain) - st.length >= AnchorN

NotDue ==
    /\ pc[Loop] = "heads" /\ ~Due
    /\ Goto(Loop, "idle")
    /\ UNCHANGED <<chain, policy, manager, cited, popped, failed, files, restarts>>

\* _emit: the head as it is now, the gap of the attempts that failed.
HeadAnchor == Anchor(st.anchor_hash, st.epoch + 1, Len(chain), chain, st.gap)

Emit ==
    /\ pc[Loop] = "heads" /\ Due /\ st.epoch < MaxEpoch
    /\ files' = Written(HeadAnchor)
    /\ st' = [epoch |-> HeadAnchor.epoch, length |-> Len(chain),
              anchor_hash |-> HeadAnchor.anchor_hash, gap |-> 0]
    /\ Goto(Loop, "idle")
    /\ UNCHANGED <<chain, policy, pst, queue, last, cited, popped, failed, restarts>>

\* Variant: the manager counts the anchor as done.
EmitFails_Counted ==
    /\ SinkFails
    /\ pc[Loop] = "heads" /\ Due /\ st.epoch < MaxEpoch /\ st.gap < MaxGap
    /\ files' \in {files, Written(HeadAnchor)}
    /\ st' = [epoch |-> HeadAnchor.epoch, length |-> Len(chain),
              anchor_hash |-> HeadAnchor.anchor_hash, gap |-> st.gap + 1]
    /\ Goto(Loop, "idle")
    /\ UNCHANGED <<chain, policy, pst, queue, last, cited, popped, failed, restarts>>

\* Some sink refused the anchor: the gap grows, nothing else moves.
EmitFails ==
    /\ SinkFails
    /\ pc[Loop] = "heads" /\ Due /\ st.epoch < MaxEpoch /\ st.gap < MaxGap
    /\ files' \in {files, Written(HeadAnchor)}
    /\ st' = [st EXCEPT !.gap = @ + 1]
    /\ Goto(Loop, "idle")
    /\ UNCHANGED <<chain, policy, pst, queue, last, cited, popped, failed, restarts>>

\* The process restarts: the chain is loaded again, the manager is built anew.
Restart ==
    /\ restarts < MaxRestarts
    /\ restarts' = restarts + 1
    /\ FreshManager
    /\ UNCHANGED <<chain, policy, files>>

Next ==
    \/ ChangePolicy \/ Tick \/ NotDue \/ Emit \/ EmitFails \/ Restart
    \/ \E g \in Gates : EvaluateAction(g) \/ AnchorPolicyCommit(g) \/ Record(g)
    \/ \E t \in Threads :
        Pop(t) \/ AppendCommit(t) \/ AppendCommitFails(t) \/ Advance(t) \/ DrainEnds(t)

Spec == Init /\ [][Next]_vars

\* The loop is a thread of its own, and a sink that is tried again and again
\* takes an anchor at last.  The gate need not be called again.
FairSpec ==
    /\ Spec
    /\ WF_vars(Tick \/ NotDue) /\ SF_vars(Emit)
    /\ \A t \in Threads :
        WF_vars(Pop(t) \/ Advance(t) \/ DrainEnds(t)) /\ SF_vars(AppendCommit(t))

----------------------------------------------------------------------------
(* Properties.                                                              *)

\* Every variable holds values of the kind the code keeps in it; what waits to
\* be anchored is digests and their bytes, which a later drain can commit again.
TypeOK ==
    /\ chain \in Seq({Honest(d) : d \in Digests \cup {NoDigest}})
    /\ policy \in Digests \cup {NoDigest}
    /\ st.epoch \in 0..MaxEpoch /\ st.length \in 0..Len(chain) /\ st.gap \in 0..MaxGap
    /\ pst \in 0..MaxEpoch
    /\ queue \in Seq(Items) /\ failed \in [Threads -> Seq(Items)]
    /\ last \in Digests \cup {NoDigest}
    /\ cited \in [Threads -> Digests \cup {NoDigest}]
    /\ pc \in [Threads -> {"idle", "queue", "drain", "append", "advance", "heads",
                        "record"}]
    /\ \A e \in 1..MaxEpoch : files[e] = NoFile \/ files[e].epoch = e

\* No policy commit was anchored and the manager has run since the first record.
\* Commits share the file names of heads (GitAnchorSink.append) and a manager that
\* is built anew starts again at epoch 1; both replace head anchors.
HeadsOnly == policy = NoDigest /\ restarts = 0

\* The re-walk never contradicts an untouched store, whatever the sinks refused
\* and wherever the loop is (verify_custody; AnchorManager._emit).
HonestIsNeverContradicted ==
    HeadsOnly => verify_custody(chain, load_anchors) # CONTRADICTION

\* A copy of the store that lost or rewrote a record the manager holds as anchored
\* is contradicted, even when it was re-hashed (verify_custody, P2 and P4).
TamperingShows ==
    HeadsOnly =>
        \A n \in 0..MaxRecords : \A copy \in [1..n -> {Honest(NoDigest), Forged}] :
            (n < st.length \/ SubSeq(copy, 1, st.length) # SubSeq(chain, 1, st.length))
                => verify_custody(copy, load_anchors) = CONTRADICTION

Queued(d) == \E i \in DOMAIN queue : queue[i].digest = d

\* "Failed commits are requeued and retried on later ticks" (custody.py,
\* anchor_policy_commit): a commit that is queued when the manager was built for
\* the last time reaches the external log in the end, whichever thread took it from
\* the queue and however often a sink refused it.
EveryCommitLands ==
    \A d \in Digests : Queued(d) /\ restarts = MaxRestarts ~> d \in anchored_digests

\* "the system appends a commitment ... but can never rewrite one" (custody.py,
\* PolicyCommitRecord): a file that holds a policy commit keeps it.
CommitsAreNeverRewritten ==
    [][\A e \in Kind("policy_commit") : files'[e] = files[e]]_vars
============================================================================
