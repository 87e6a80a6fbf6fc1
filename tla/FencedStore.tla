----------------------------- MODULE FencedStore -----------------------------
(****************************************************************************)
(* What fencing promises, whatever the locks do: documents whose every      *)
(* change is made by a transaction that has seen the version it replaces.   *)
(*                                                                          *)
(* A resource has a fence document (client/fencing) with the highest token  *)
(* ever allocated for it and the transaction that token is alive for, and   *)
(* the data the resource guards, abstracted to a version number.  Nothing   *)
(* here says when a token may be allocated or invalidated: that is the      *)
(* coordinator's business (Coordinator.tla), and its mistakes may stop a    *)
(* transaction but not make it overwrite what it has not seen.              *)
(****************************************************************************)
EXTENDS Integers

CONSTANTS Txn,         \* transactions (external ids)
          Resource,    \* fenced resources
          None,        \* no owner
          MaxToken,    \* bound on the tokens of a resource
          MaxVersion   \* bound on the versions of a resource

ASSUME NoneAssumption == None \notin Txn
ASSUME BoundsAssumption == MaxToken \in Nat /\ MaxVersion \in Nat

VARIABLES fence,  \* fence[r]: [token, owner]
          data,   \* data[r]: the version of what r guards
          grant,  \* grant[t][r]: the token t was given for r, 0 for none
          seen    \* seen[t][r]: the version t has read, or Unread

vars == <<fence, data, grant, seen>>

Unread == -1

TypeOK ==
  /\ fence \in [Resource -> [token : 0..MaxToken, owner : Txn \cup {None}]]
  /\ data \in [Resource -> 0..MaxVersion]
  /\ grant \in [Txn -> [Resource -> 0..MaxToken]]
  /\ seen \in [Txn -> [Resource -> 0..MaxVersion \cup {Unread}]]

Init ==
  /\ fence = [r \in Resource |-> [token |-> 0, owner |-> None]]
  /\ data = [r \in Resource |-> 0]
  /\ grant = [t \in Txn |-> [r \in Resource |-> 0]]
  /\ seen = [t \in Txn |-> [r \in Resource |-> Unread]]

\* The filter validateFences matches the fence document against.
Live(t, r) == grant[t][r] > 0 /\ fence[r].token = grant[t][r] /\ fence[r].owner = t

Allocate(t, r) ==
  /\ fence[r].token < MaxToken
  /\ fence' = [fence EXCEPT ![r] = [token |-> fence[r].token + 1, owner |-> t]]
  /\ UNCHANGED <<data, grant, seen>>

Invalidate(t, r) ==
  /\ fence[r].owner = t
  /\ fence' = [fence EXCEPT ![r].owner = None]
  /\ UNCHANGED <<data, grant, seen>>

\* A transaction is given a token allocated earlier, perhaps long ago.
Deliver(t, r) ==
  /\ grant[t][r] = 0
  /\ \E k \in 1..fence[r].token : grant' = [grant EXCEPT ![t][r] = k]
  /\ UNCHANGED <<fence, data, seen>>

\* It reads only once it has been given the token.
Read(t, r) ==
  /\ grant[t][r] > 0
  /\ seen' = [seen EXCEPT ![t][r] = data[r]]
  /\ UNCHANGED <<fence, data, grant>>

\* Its one commit writes some of what it has read, if every token is live.
Commit(t, R) ==
  /\ \A r \in R : Live(t, r) /\ seen[t][r] # Unread /\ data[r] < MaxVersion
  /\ data' = [r \in Resource |-> IF r \in R THEN data[r] + 1 ELSE data[r]]
  /\ seen' = [seen EXCEPT ![t] = [r \in Resource |-> Unread]]
  /\ UNCHANGED <<fence, grant>>

Next ==
  \E t \in Txn :
    \/ \E r \in Resource :
         Allocate(t, r) \/ Invalidate(t, r) \/ Deliver(t, r) \/ Read(t, r)
    \/ \E R \in SUBSET Resource : Commit(t, R)

Spec == Init /\ [][Next]_vars
------------------------------------------------------------------------------
\* While a transaction's token is live, what it has read is current: nobody
\* has changed the data since.
LiveReadCurrent ==
  \A t \in Txn, r \in Resource :
    Live(t, r) /\ seen[t][r] # Unread => seen[t][r] = data[r]

\* No update is ever lost: every change of a resource's data is made on top of
\* a version that some transaction had read, and moves it by one.
NoLostUpdate ==
  [][\A r \in Resource :
       data'[r] # data[r] =>
         /\ data'[r] = data[r] + 1
         /\ \E t \in Txn : seen[t][r] = data[r] /\ fence[r].owner = t]_vars
==============================================================================
