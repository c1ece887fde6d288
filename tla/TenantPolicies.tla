--------------------------- MODULE TenantPolicies ---------------------------
(***************************************************************************)
(* Tenants and their custom policy rules: custos/tenant.py, TenantManager, *)
(* custos/policy_store.py with a durable backend, and the administrative   *)
(* endpoints of main.py that call them.                                    *)
(*                                                                         *)
(* Each process keeps the registered tenants, the rules its engines        *)
(* enforce and the list it saves, all under one lock; the table            *)
(* policy_rules is what processes share and what a restart starts from.  A *)
(* process changes memory first and saves second, and a save that fails    *)
(* does not take the change in memory back.                                *)
(*                                                                         *)
(* Every engine starts from the same default rules, which are left out.    *)
(***************************************************************************)
EXTENDS Naturals, Sequences, FiniteSets

CONSTANTS
    Processes,
    Tenants,
    Default,            \* the tenant "default"
    Rules,              \* policy rules, each with a name
    MaxRules            \* bound: rules in one list

ASSUME TenantsAssumption == Default \in Tenants
ASSUME TenantBounds == MaxRules \in Nat
ASSUME ProcessesAssumption == IsFiniteSet(Processes)

VARIABLES
    up,         \* the processes that run
    tenants,    \* _tenants: the registered tenants of each process
    engine,     \* the custom rules each tenant's engine enforces
    custom,     \* _custom_rules: the list that is saved and shown
    db,         \* the table policy_rules
    acked,      \* history: rules an administrator was told are added, and did not
                \* ask to delete; was their tenant registered?
    behind      \* history: tenants whose last save the store failed

vars == <<up, tenants, engine, custom, db, acked, behind>>

Lists == [Tenants -> Seq(Rules)]
Empty == [t \in Tenants |-> << >>]

Elements(s) == {s[i] : i \in DOMAIN s}

\* UNIQUE(tenant_id, name).
Unique(rules) ==
    \A i, j \in DOMAIN rules : rules[i].name = rules[j].name => i = j

Init ==
    /\ up = {} /\ db = Empty /\ acked = {}
    /\ behind = [p \in Processes |-> {}]
    /\ tenants = [p \in Processes |-> {}]
    /\ engine = [p \in Processes |-> Empty]
    /\ custom = [p \in Processes |-> Empty]

\* Variant: only the default tenant is brought back.
Start_DefaultOnly(p) ==
    /\ p \notin up
    /\ up' = up \cup {p}
    /\ tenants' = [tenants EXCEPT ![p] = {Default}]
    /\ LET loaded == [Empty EXCEPT ![Default] = db[Default]]
       IN  /\ engine' = [engine EXCEPT ![p] = loaded]
           /\ custom' = [custom EXCEPT ![p] = loaded]
    /\ UNCHANGED <<db, acked, behind>>

\* TenantManager.__init__: the default tenant, and every tenant with rules.
Start(p) ==
    /\ p \notin up
    /\ up' = up \cup {p}
    /\ tenants' = [tenants EXCEPT ![p] = {Default} \cup {t \in Tenants : db[t] # << >>}]
    /\ engine' = [engine EXCEPT ![p] = db]
    /\ custom' = [custom EXCEPT ![p] = db]
    /\ UNCHANGED <<db, acked, behind>>

\* The process ends, planned or not.
Stop(p) ==
    /\ p \in up
    /\ up' = up \ {p}
    /\ tenants' = [tenants EXCEPT ![p] = {}]
    /\ engine' = [engine EXCEPT ![p] = Empty]
    /\ custom' = [custom EXCEPT ![p] = Empty]
    /\ behind' = [behind EXCEPT ![p] = {}]
    /\ UNCHANGED <<db, acked>>

\* The endpoint refuses the default tenant and a tenant that is registered.
register(p, t) ==
    /\ p \in up /\ t \notin tenants[p]
    /\ tenants' = [tenants EXCEPT ![p] = @ \cup {t}]
    /\ custom' = [custom EXCEPT ![p][t] = db[t]]
    /\ engine' = [engine EXCEPT ![p][t] = db[t]]
    /\ behind' = [behind EXCEPT ![p] = @ \ {t}]
    /\ UNCHANGED <<up, db, acked>>

\* The engine a rule for t goes to.
get_or_default(p, t) == IF t \in tenants[p] THEN t ELSE Default

\* add_policy_rule before the save: the engine and the list have the rule.
AddInMemory(p, t, r) ==
    /\ p \in up /\ Len(custom[p][t]) < MaxRules
    /\ Len(engine[p][get_or_default(p, t)]) < MaxRules
    /\ engine' = [engine EXCEPT ![p][get_or_default(p, t)] = Append(@, r)]
    /\ custom' = [custom EXCEPT ![p][t] = Append(@, r)]
    /\ UNCHANGED <<up, tenants>>

Ack(p, t, r) == [tenant |-> t, rule |-> r, registered |-> t \in tenants[p]]

\* Variant: the error of the store is not passed on.
add_policy_rule_Quiet(p, t, r) ==
    /\ AddInMemory(p, t, r)
    /\ db' = IF Unique(custom'[p][t]) THEN [db EXCEPT ![t] = custom'[p][t]] ELSE db
    /\ acked' = acked \cup {Ack(p, t, r)}
    /\ behind' = [behind EXCEPT ![p] = @ \ {t}]

\* save_rules replaces the tenant's rows with the list, in one transaction.
add_policy_rule(p, t, r) ==
    /\ AddInMemory(p, t, r)
    /\ Unique(custom'[p][t])
    /\ db' = [db EXCEPT ![t] = custom'[p][t]]
    /\ acked' = acked \cup {Ack(p, t, r)}
    /\ behind' = [behind EXCEPT ![p] = @ \ {t}]

\* Two rules of the list have the same name: the transaction is rolled back.
AddRefused(p, t, r) ==
    /\ AddInMemory(p, t, r)
    /\ ~Unique(custom'[p][t])
    /\ UNCHANGED <<db, acked, behind>>

\* The store failed: the transaction is rolled back.
AddFails(p, t, r) ==
    /\ AddInMemory(p, t, r)
    /\ behind' = [behind EXCEPT ![p] = @ \cup {t}]
    /\ UNCHANGED <<db, acked>>

\* unregister before the delete: the tenant is gone from memory.
RemoveInMemory(p, t) ==
    /\ p \in up /\ t \in tenants[p] \ {Default}
    /\ tenants' = [tenants EXCEPT ![p] = @ \ {t}]
    /\ custom' = [custom EXCEPT ![p][t] = << >>]
    /\ engine' = [engine EXCEPT ![p][t] = << >>]
    /\ UNCHANGED up

\* Variant: the rows stay.
unregister_KeepsRows(p, t) ==
    /\ RemoveInMemory(p, t)
    /\ acked' = {a \in acked : a.tenant # t}
    /\ behind' = [behind EXCEPT ![p] = @ \ {t}]
    /\ UNCHANGED db

unregister(p, t) ==
    /\ RemoveInMemory(p, t)
    /\ db' = [db EXCEPT ![t] = << >>]
    /\ acked' = {a \in acked : a.tenant # t}
    /\ behind' = [behind EXCEPT ![p] = @ \ {t}]

\* The store failed: the rows stay, and the tenant is no longer there to be
\* deleted again.
UnregisterFails(p, t) ==
    /\ RemoveInMemory(p, t)
    /\ acked' = {a \in acked : a.tenant # t}
    /\ behind' = [behind EXCEPT ![p] = @ \cup {t}]
    /\ UNCHANGED db

\* Every step of a process but its end.
Administer(p) ==
    \/ Start(p)
    \/ \E t \in Tenants :
        \/ register(p, t) \/ unregister(p, t) \/ UnregisterFails(p, t)
        \/ \E r \in Rules :
            add_policy_rule(p, t, r) \/ AddRefused(p, t, r) \/ AddFails(p, t, r)

Next == \E p \in Processes : Administer(p) \/ Stop(p)

Spec == Init /\ [][Next]_vars

----------------------------------------------------------------------------
(* Properties.                                                              *)

\* Every variable holds values of the kind the code keeps in it, and a running
\* process has the default tenant, which get_or_default relies on.
TypeOK ==
    /\ up \subseteq Processes
    /\ tenants \in [Processes -> SUBSET Tenants]
    /\ engine \in [Processes -> Lists] /\ custom \in [Processes -> Lists]
    /\ db \in Lists
    /\ acked \subseteq [tenant : Tenants, rule : Rules, registered : BOOLEAN]
    /\ behind \in [Processes -> SUBSET Tenants]
    /\ \A p \in up : Default \in tenants[p]

\* "persist it immediately via the PolicyStore, so it survives the next restart"
\* (tenant.py, add_policy_rule): a rule the administrator was told is added is in
\* the table until the tenant is deleted, whatever fails afterwards.  It takes one
\* process on the table: each save replaces the rows with that process's list.
AckedRuleIsStored ==
    Cardinality(Processes) = 1 =>
        \A a \in acked : a.rule \in Elements(db[a.tenant])

\* Memory and table part only over a save the store failed or a name used twice,
\* and the next save, registration or restart brings them together again
\* (tenant.py, add_policy_rule and unregister).
PartOnlyOverFailures ==
    Cardinality(Processes) = 1 =>
        \A p \in up, t \in Tenants :
            custom[p][t] # db[t] => t \in behind[p] \/ ~Unique(custom[p][t])

\* "Add a custom policy rule for a tenant.  The rule is applied immediately"
\* (main.py, add_tenant_policy_rule), and again after every restart, if the tenant
\* was registered; otherwise the default tenant's engine got it (get_or_default).
AckedRuleIsInForce ==
    Cardinality(Processes) = 1 =>
        \A p \in up : \A a \in acked :
            a.registered => a.tenant \in tenants[p]
                            /\ a.rule \in Elements(engine[p][a.tenant])
============================================================================
