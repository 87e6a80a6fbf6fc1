------------------------------ MODULE LockTable ------------------------------
(****************************************************************************)
(* What a shared/exclusive lock service promises, with no queue, no         *)
(* goroutine and no condition variable: a table of which transaction holds  *)
(* which resource in which mode.  LockManager.tla implements it, and        *)
(* Coordinator.tla is built on top of it.                                   *)
(****************************************************************************)

CONSTANTS Txn,       \* lock-manager transaction ids (lockmanager.TxnID)
          Resource   \* lockable resources (lockmanager.ResourceID)

VARIABLE held        \* held[t][r]: the mode t holds on r, or "none"

Mode == {"S", "X"}

TypeOK == held \in [Txn -> [Resource -> Mode \cup {"none"}]]

Init == held = [t \in Txn |-> [r \in Resource |-> "none"]]

\* A mode is compatible with the current holders.  The code tests every
\* holder, the requesting transaction included: nothing is re-entrant.
Compatible(r, m) ==
  \A u \in Txn : IF m = "X" THEN held[u][r] = "none" ELSE held[u][r] # "X"

Grant(t, r, m) ==
  /\ Compatible(r, m)
  /\ held' = [held EXCEPT ![t][r] = m]

\* A transaction gives back some of what it holds (one resource, or all).
Drop(t, R) ==
  held' = [held EXCEPT ![t] = [r \in Resource |-> IF r \in R THEN "none" ELSE @[r]]]

Next ==
  \E t \in Txn :
    \/ \E r \in Resource, m \in Mode : Grant(t, r, m)
    \/ \E R \in SUBSET Resource : Drop(t, R)

Spec == Init /\ [][Next]_held

\* No resource is held exclusively by one transaction and in any mode by
\* another: the readers/writer exclusion the whole system rests on.
SharedExclusive ==
  \A r \in Resource, t \in Txn :
    held[t][r] = "X" => \A u \in Txn \ {t} : held[u][r] = "none"
==============================================================================
