------------------------------- MODULE Ledger -------------------------------
(***************************************************************************)
(* What the audit store promises: one append-only history per scope.  An   *)
(* append adds one entry at the end of one history, and nothing ever       *)
(* rewrites, drops or branches one.                                        *)
(***************************************************************************)
EXTENDS Sequences

CONSTANTS Keys,     \* the scopes that have a history of their own
          Items     \* what an entry may hold

VARIABLE ledger

Init == ledger \in [Keys -> Seq(Items)]

\* One item more at the end of the history of k, every other history as it was.
Extend(k) ==
    /\ ledger'[k] # << >>
    /\ LET x == ledger'[k][Len(ledger'[k])]
       IN  x \in Items /\ ledger' = [ledger EXCEPT ![k] = Append(ledger[k], x)]

Next == \E k \in Keys : Extend(k)

Spec == Init /\ [][Next]_ledger
============================================================================
