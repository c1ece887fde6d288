------------------------------ MODULE MCChain ------------------------------
(* The stores of evidence: the chain that processes extend side by side, the *)
(* rows of one tenant that builds write and others alter, and the content    *)
(* store beside a chain.  They do not meet here, so a behaviour follows one. *)
EXTENDS MCAuditChain, MCStoredChain, MCRetention

VARIABLE followed

chainVars == <<followed, vars, snapshotVars, drillVars>>

ChainInit ==
    /\ followed \in {"writers", "rows", "contents"}
    /\ Init /\ SnapshotInit /\ DrillInit
    /\ followed # "writers" => store = EmptyStore
    /\ followed # "contents" => site = CHOOSE s \in Sites : TRUE

ChainNext ==
    \/ followed = "writers" /\ Next /\ UNCHANGED <<followed, snapshotVars, drillVars>>
    \/ followed = "rows" /\ SnapshotNext /\ UNCHANGED <<followed, vars, drillVars>>
    \/ followed = "contents" /\ DrillNext /\ UNCHANGED <<followed, vars, snapshotVars>>

ChainSpec == ChainInit /\ [][ChainNext]_chainVars
============================================================================
