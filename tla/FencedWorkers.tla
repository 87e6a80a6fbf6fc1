---------------------------- MODULE FencedWorkers ----------------------------
(****************************************************************************)
(* The coordinator and its clients together: workers that lock, read and    *)
(* commit through client/coordination/grpccoord/client.go, client.go's      *)
(* runAtomicStorage and mongostore.RunAtomic, while the coordinator of      *)
(* Coordinator.tla leases, revokes, fails over the fence store and          *)
(* restarts.  Messages may be lost in either direction and a worker may     *)
(* stop anywhere.                                                           *)
(*                                                                          *)
(* A worker is one operation: one exclusive lock, one read, one commit.     *)
(* Whatever the coordinator does, the committed data is that of             *)
(* FencedStore.                                                             *)
(****************************************************************************)
EXTENDS Coordinator, Integers

CONSTANT MaxVersion   \* bound on the versions of a resource's data

ASSUME VersionAssumption == MaxVersion \in Nat

VARIABLES worker,     \* worker[u]: the operation that calls itself u
          data        \* data[r]: the version of what r guards

workerVars == <<worker, data>>
allVars == <<vars, worker, data>>

\* An operation has not called yet, waits for Acquire's answer, holds a grant,
\* has read under it, has nothing left but ReleaseAll, or has returned.  sent:
\* its Acquire request is on the way.
Worker ==
  [pc : {"new", "calling", "granted", "read", "ending", "gone"},
   res : Resource \cup {None}, sent : BOOLEAN, token : 0..MaxToken, seen : -1..MaxVersion]
NewWorker == [pc |-> "new", res |-> None, sent |-> FALSE, token |-> 0, seen |-> -1]

\* Whoever works under a grant was given a token with it.
WorkersTypeOK ==
  /\ worker \in [UUID -> Worker]
  /\ \A u \in UUID : worker[u].pc \in {"granted", "read"} => worker[u].token > 0
  /\ data \in [Resource -> 0..MaxVersion]

WorkersInit ==
  /\ Init
  /\ worker = [u \in UUID |-> NewWorker]
  /\ data = [r \in Resource |-> 0]

\* A step of the coordinator that no worker hears of.
Unheard(A) == A /\ UNCHANGED workerVars
------------------------------------------------------------------------------
\* remoteGuard.AcquireContext sends its request ...
Call(u, r) ==
  /\ worker[u].pc = "new"
  /\ worker' = [worker EXCEPT ![u].pc = "calling", ![u].res = r, ![u].sent = TRUE]
  /\ UNCHANGED <<vars, data>>

\* ... and a handler starts on it, perhaps when the caller has given up.
Deliver(u, h) ==
  /\ worker[u].sent
  /\ ensure(h, u, worker[u].res, "X")
  /\ worker' = [worker EXCEPT ![u].sent = FALSE]
  /\ UNCHANGED data

\* The grant's response arrives.
Granted(h) ==
  LET u == txn[handler[h].obj].external
  IN  /\ handler[h].pc = "recording"
      /\ worker[u].pc = "calling"
      /\ recordGrant(h)
      /\ worker' = [worker EXCEPT ![u].pc = "granted", ![u].token = handler[h].token]
      /\ UNCHANGED data

\* The call fails: refused, cancelled, or its answer lost or late.
CallFails(u) ==
  /\ worker[u].pc = "calling"
  /\ worker' = [worker EXCEPT ![u].pc = "ending"]
  /\ UNCHANGED <<vars, data>>

\* heartbeat: renews the lease from the first grant until ReleaseAll.
Heartbeat(u) ==
  /\ worker[u].pc \in {"granted", "read", "ending"}
  /\ worker[u].token > 0
  /\ RenewLease(u)
  /\ UNCHANGED workerVars

Read(u) ==
  /\ worker[u].pc = "granted"
  /\ worker' = [worker EXCEPT ![u].pc = "read", ![u].seen = data[worker[u].res]]
  /\ UNCHANGED <<vars, data>>

\* Fault: the token is compared and its owner is not, so that a token that was
\* invalidated still passes.
FenceMatchesToken(u) == fence[worker[u].res].token = worker[u].token

\* validateFences: the fence still carries this token for this owner.
FenceMatches(u) ==
  fence[worker[u].res] = [token |-> worker[u].token, owner |-> u]

\* runAtomicStorage's transaction commits what was computed from the read ...
CommitTransaction(u) ==
  /\ worker[u].pc = "read"
  /\ FenceMatches(u)
  /\ worker[u].seen < MaxVersion
  /\ data' = [data EXCEPT ![worker[u].res] = worker[u].seen + 1]
  /\ worker' = [worker EXCEPT ![u].pc = "ending", ![u].seen = -1]
  /\ UNCHANGED vars

\* ... or is refused, or fails: nothing is written.
AbortTransaction(u) ==
  /\ worker[u].pc = "read"
  /\ worker' = [worker EXCEPT ![u].pc = "ending"]
  /\ UNCHANGED <<vars, data>>

\* remoteGuard.ReleaseAll: EndTransaction arrives, and changes something only
\* if the coordinator knows the transaction as active ...
ReleaseAll(u) ==
  /\ worker[u].pc = "ending"
  /\ EndTransaction(u)
  /\ worker' = [worker EXCEPT ![u].pc = "gone"]
  /\ UNCHANGED data

\* ... or is lost; and a worker may vanish at any time.
Vanish(u) ==
  /\ worker[u].pc # "gone"
  /\ worker' = [worker EXCEPT ![u].pc = "gone"]
  /\ UNCHANGED <<vars, data>>

WorkersNext ==
  \/ \E u \in UUID :
       \/ \E r \in Resource : Call(u, r)
       \/ \E h \in Handler : Deliver(u, h)
       \/ CallFails(u) \/ Heartbeat(u) \/ Read(u)
       \/ CommitTransaction(u) \/ AbortTransaction(u) \/ ReleaseAll(u) \/ Vanish(u)
       \/ Unheard(revoke(u))
  \/ \E h \in Handler : Granted(h) \/ Unheard(Acquire(h))
  \/ \E o \in Obj :
       \/ Unheard(LeasePasses(o))
       \/ Unheard(TeardownSnapshot(o) \/ TeardownRetry(o) \/ TeardownFinish(o))
       \/ \E r \in Resource : Unheard(Invalidate(o, r) \/ InvalidateFails(o, r))
  \/ Unheard(SweepTick \/ SweepPrune)
  \/ Unheard(Restart)

WorkersSpec == WorkersInit /\ [][WorkersNext]_allVars
------------------------------------------------------------------------------
FS == INSTANCE FencedStore WITH
        Txn <- UUID,
        grant <- [u \in UUID |-> [r \in Resource |->
                    IF r = worker[u].res THEN worker[u].token ELSE 0]],
        seen <- [u \in UUID |-> [r \in Resource |->
                    IF r = worker[u].res THEN worker[u].seen ELSE -1]]

\* The workers and the coordinator implement the fenced store: every update is
\* made on top of the version it read, under a live token, whatever leases
\* expire, messages are lost and processes restart in between.
WorkersImplementFencedStore == FS!Spec
==============================================================================
