----------------------------- MODULE AtomicStore -----------------------------
(****************************************************************************)
(* mongostore.RunAtomic (client/storage/mongostore/atomic.go): the commit   *)
(* of one SAFER mutation as a MongoDB snapshot transaction that writes the  *)
(* mutation's documents and then, last, proves every fencing token by a     *)
(* conditional WRITE of its fence document.  Coordinator writes to the      *)
(* fence documents come in between at any point.                            *)
(*                                                                          *)
(* MongoDB itself is external: a transaction reads the state as of its      *)
(* start; it may write a document unless the document was changed since     *)
(* then or another open transaction has written it, which is a write        *)
(* conflict that aborts it; a write outside any transaction waits for the   *)
(* open transaction that has written the document.                          *)
(****************************************************************************)
EXTENDS FencedStore

VARIABLE tx   \* tx[t]: the transaction t's RunAtomic has open

Snapshot == [fence : [Resource -> [token : 0..MaxToken, owner : Txn \cup {None}]],
             data : [Resource -> 0..MaxVersion]]

\* pc: no transaction open ("none"), fn is to run ("started"), validateFences
\* is running ("validating"), or RunAtomic has returned ("done").
\* wrote: the data fn has written; proved: the fences written so far.
TxType == [pc : {"none", "started", "validating", "done"},
           snapshot : Snapshot, wrote : SUBSET Resource, proved : SUBSET Resource]

storeVars == <<fence, data, grant, seen, tx>>

NoTx ==
  [pc |-> "none",
   snapshot |-> [fence |-> [r \in Resource |-> [token |-> 0, owner |-> None]],
                 data |-> [r \in Resource |-> 0]],
   wrote |-> {}, proved |-> {}]

StoreTypeOK == TypeOK /\ tx \in [Txn -> TxType]

StoreInit == Init /\ tx = [t \in Txn |-> NoTx]

\* The grants of the operation's context: every token the transaction holds.
GrantsFromContext(t) == {r \in Resource : grant[t][r] > 0}

\* Fault: validating a fence by reading it does not keep writers away from it.
FencingByRead(r) == FALSE

\* An open transaction has written the fence document of r.
Fencing(r) == \E t \in Txn : r \in tx[t].proved

\* mongofence.Allocate and Invalidate wait while a transaction has written
\* the fence document.
FenceWrite ==
  \E t \in Txn, r \in Resource :
    /\ ~Fencing(r)
    /\ Allocate(t, r) \/ Invalidate(t, r)
    /\ UNCHANGED tx

Work ==
  \E t \in Txn, r \in Resource :
    /\ tx[t].pc = "none"
    /\ Deliver(t, r) \/ Read(t, r)
    /\ UNCHANGED tx

\* RunAtomic: StartSession and the start of an attempt of WithTransaction.
\* What fn will write was computed before, from what the operation read.
RunAtomic(t) ==
  /\ tx[t].pc = "none"
  /\ GrantsFromContext(t) # {}
  /\ \A r \in GrantsFromContext(t) : seen[t][r] # Unread
  /\ tx' = [tx EXCEPT ![t] =
       [NoTx EXCEPT !.pc = "started", !.snapshot = [fence |-> fence, data |-> data]]]
  /\ UNCHANGED vars

\* fn writes the mutation's documents.
RunFn(t) ==
  LET R == GrantsFromContext(t)
  IN  /\ tx[t].pc = "started"
      /\ \A r \in R : /\ data[r] < MaxVersion
                      /\ data[r] = tx[t].snapshot.data[r]
                      /\ \A u \in Txn : r \notin tx[u].wrote
      /\ tx' = [tx EXCEPT ![t].pc = "validating", ![t].wrote = R]
      /\ UNCHANGED vars

\* A snapshot document matches validateFences' filter.
Matches(t, r) ==
  LET doc == tx[t].snapshot.fence[r] IN doc.token = grant[t][r] /\ doc.owner = t

\* validateFences, one grant: the conditional update matches and is applied.
validateFence(t, r) ==
  /\ tx[t].pc = "validating"
  /\ r \in GrantsFromContext(t) \ tx[t].proved
  /\ Matches(t, r)
  /\ fence[r] = tx[t].snapshot.fence[r]
  /\ ~Fencing(r)
  /\ tx' = [tx EXCEPT ![t].proved = @ \cup {r}]
  /\ UNCHANGED vars

\* It matches nothing: ErrStaleFence, which is not retried.
StaleFence(t, r) ==
  /\ tx[t].pc = "validating"
  /\ r \in GrantsFromContext(t) \ tx[t].proved
  /\ ~Matches(t, r)
  /\ tx' = [tx EXCEPT ![t] = [NoTx EXCEPT !.pc = "done"]]
  /\ UNCHANGED vars

\* A write conflict or another transient error aborts the attempt;
\* WithTransaction runs it again on a new snapshot.
Retry(t) ==
  /\ tx[t].pc \in {"started", "validating"}
  /\ tx' = [tx EXCEPT ![t] =
       [NoTx EXCEPT !.pc = "started", !.snapshot = [fence |-> fence, data |-> data]]]
  /\ UNCHANGED vars

\* The deadline, the caller or the process's end aborts it for good.
Abort(t) ==
  /\ tx[t].pc \in {"started", "validating"}
  /\ tx' = [tx EXCEPT ![t] = [NoTx EXCEPT !.pc = "done"]]
  /\ UNCHANGED vars

\* Fault: the grants are not validated before the commit.
CommitUnvalidated(t) ==
  /\ tx[t].pc = "validating"
  /\ data' = [r \in Resource |-> IF r \in tx[t].wrote THEN data[r] + 1 ELSE data[r]]
  /\ seen' = [seen EXCEPT ![t] = [r \in Resource |-> Unread]]
  /\ tx' = [tx EXCEPT ![t] = [NoTx EXCEPT !.pc = "done"]]
  /\ UNCHANGED <<fence, grant>>

\* The commit: every write of the transaction becomes visible at once.
CommitTransaction(t) ==
  /\ tx[t].pc = "validating"
  /\ tx[t].proved = GrantsFromContext(t)
  /\ data' = [r \in Resource |-> IF r \in tx[t].wrote THEN data[r] + 1 ELSE data[r]]
  /\ seen' = [seen EXCEPT ![t] = [r \in Resource |-> Unread]]
  /\ tx' = [tx EXCEPT ![t] = [NoTx EXCEPT !.pc = "done"]]
  /\ UNCHANGED <<fence, grant>>

StoreNext ==
  \/ FenceWrite
  \/ Work
  \/ \E t \in Txn :
       \/ RunAtomic(t) \/ RunFn(t) \/ Retry(t) \/ Abort(t) \/ CommitTransaction(t)
       \/ \E r \in Resource : validateFence(t, r) \/ StaleFence(t, r)

StoreSpec == StoreInit /\ [][StoreNext]_storeVars
------------------------------------------------------------------------------
\* A fence that an open transaction has written is live for it until it ends:
\* the coordinator cannot move it, whatever it decides meanwhile.
ProvedIsLive ==
  \A t \in Txn : \A r \in tx[t].proved : Live(t, r)

\* A transaction that runs as MongoDB statements between fence writes implements
\* the atomic, fenced commit of FencedStore.
ImplementsFencedStore == Spec
==============================================================================
