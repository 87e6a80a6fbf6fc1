----------------------------- MODULE Coordinator -----------------------------
(****************************************************************************)
(* The lock coordinator: client/coordination/grpccoord/server.go and        *)
(* transactions.go, with the durable fence documents of                     *)
(* client/fencing/mongofence/store.go.                                      *)
(*                                                                          *)
(* Its RPC handlers, its sweeper and its cleanup goroutines interleave at   *)
(* every point where they give up registry.mu, call the lock manager or     *)
(* call the fence store.  The lock manager appears as LockTable, the        *)
(* abstract table LockManager.tla is shown to implement.                    *)
(****************************************************************************)
EXTENDS Naturals, FiniteSets, Sequences

CONSTANTS UUID,        \* external transaction ids, made by the workers
          Resource,    \* lockable resources
          Handler,     \* activations of the Acquire RPC handler
          None,        \* no owner, no value
          MaxTxnID,    \* the last internal id (^uint64(0) in the code)
          MaxToken,    \* bound on fencing tokens per resource
          MaxRestarts  \* bound on coordinator restarts

ASSUME BoundsAssumption ==
  MaxTxnID \in Nat \ {0} /\ MaxToken \in Nat /\ MaxRestarts \in Nat
ASSUME NoneAssumption == None \notin UUID

VARIABLES
  \* in the coordinator's memory
  byID,      \* registry.byID: the transaction of an external id, 0 if none
  next,      \* registry.next
  txn,       \* the transaction objects, by internal id
  held,      \* the lock manager's table, by internal id
  handler,   \* the Acquire handlers
  teardown,  \* what is tearing an object down, and what it has left to do
  sweeper,   \* the sweepLeases goroutine
  \* in MongoDB
  fence,     \* fence[r]: the highest token handed out, and its live owner
  restarts   \* how often the coordinator has restarted

vars == <<byID, next, txn, held, handler, teardown, sweeper, fence, restarts>>

Obj == 1..MaxTxnID
LT == INSTANCE LockTable WITH Txn <- Obj
Mode == LT!Mode

\* grantRecord; the token of a shared grant is 0.
GrantRecord == [res : Resource, mode : Mode, token : 0..MaxToken]

\* transaction.  lease: not started, running, or its deadline has passed;
\* grants: in acquisition order.
Transaction ==
  [external : UUID \cup {None},
   state    : {"active", "ending", "revoking"},
   finished : BOOLEAN,
   lease    : {"none", "running", "passed"},
   grants   : Seq(GrantRecord)]
NoTransaction ==
  [external |-> None, state |-> "active", finished |-> FALSE,
   lease |-> "none", grants |-> <<>>]

\* Where an Acquire handler is: ensure has returned its transaction object
\* ("ensured"); its cancel function is registered and it waits for the lock
\* ("queued"); the lock manager granted it ("granted"); it found the
\* transaction still active and is allocating a token ("fencing") or has what
\* it needs to record the grant ("recording"); or it must give the lock back
\* ("undo").  cancelled: it waits and its wait context is done.
HandlerState ==
  [pc : {"idle", "ensured", "queued", "granted", "fencing", "recording", "undo"},
   obj : Obj \cup {0}, res : Resource \cup {None}, mode : Mode \cup {None},
   token : 0..MaxToken, cancelled : BOOLEAN]
IdleHandler ==
  [pc |-> "idle", obj |-> 0, res |-> None, mode |-> None, token |-> 0, cancelled |-> FALSE]

\* A teardown has begun, is invalidating the fences left, has failed and waits
\* for scheduleRetry's ticker, or there is none (any more).
Teardown == [pc : {"none", "begun", "invalidating", "retry"}, left : Seq(Resource)]
NoTeardown == [pc |-> "none", left |-> <<>>]

\* sweepLeases: the candidates of this tick still to be revoked, and the
\* object it is tearing down now (0 if none).
Sweeper == [pc : {"idle", "revoking"}, left : SUBSET UUID, cur : Obj \cup {0}]
IdleSweeper == [pc |-> "idle", left |-> {}, cur |-> 0]

TypeOK ==
  /\ byID \in [UUID -> Obj \cup {0}]
  /\ next \in 0..MaxTxnID
  /\ txn \in [Obj -> Transaction]
  /\ LT!TypeOK
  /\ handler \in [Handler -> HandlerState]
  /\ teardown \in [Obj -> Teardown]
  /\ sweeper \in Sweeper
  /\ fence \in [Resource -> [token : 0..MaxToken, owner : UUID \cup {None}]]
  /\ restarts \in 0..MaxRestarts

MemoryInit ==
  /\ byID = [u \in UUID |-> 0]
  /\ next = 0
  /\ txn = [o \in Obj |-> NoTransaction]
  /\ LT!Init
  /\ handler = [h \in Handler |-> IdleHandler]
  /\ teardown = [o \in Obj |-> NoTeardown]
  /\ sweeper = IdleSweeper

Init ==
  /\ MemoryInit
  /\ fence = [r \in Resource |-> [token |-> 0, owner |-> None]]
  /\ restarts = 0
------------------------------------------------------------------------------
\* registry.stillActive's test, which ensure and beginTeardown share: this
\* object is the one registered for its id, and accepts work.
Active(o) ==
  /\ txn[o].external # None
  /\ byID[txn[o].external] = o
  /\ ~txn[o].finished
  /\ txn[o].state = "active"

Grants(o) == {txn[o].grants[i] : i \in DOMAIN txn[o].grants}
GrantsOn(o, r) == {g \in Grants(o) : g.res = r}

\* transaction.fenceGrants: the resources granted exclusively, in order.
fenceGrants(o) ==
  LET X == SelectSeq(txn[o].grants, LAMBDA g : g.mode = "X")
  IN  [i \in DOMAIN X |-> X[i].res]

Return(h) == handler' = [handler EXCEPT ![h] = IdleHandler]
Goto(h, l) == handler' = [handler EXCEPT ![h].pc = l]

\* registry.ensure: the transaction of u, created on first use.  A transaction
\* that is not active, or an exhausted id space, is an error and changes
\* nothing.
ensure(h, u, r, m) ==
  /\ handler[h].pc = "idle"
  /\ \/ /\ byID[u] # 0
        /\ Active(byID[u])
        /\ UNCHANGED <<byID, next, txn>>
     \/ /\ byID[u] = 0
        /\ next < MaxTxnID
        /\ next' = next + 1
        /\ txn' = [txn EXCEPT ![next + 1] = [NoTransaction EXCEPT !.external = u]]
        /\ byID' = [byID EXCEPT ![u] = next + 1]
  /\ handler' = [handler EXCEPT ![h] =
       [IdleHandler EXCEPT !.pc = "ensured", !.obj = byID'[u], !.res = r, !.mode = m]]
  /\ UNCHANGED <<held, teardown, sweeper, fence, restarts>>

\* heldGrant: an identical request returns the recorded grant, one for another
\* mode is refused; neither changes anything.
AcquireRetry(h) ==
  /\ handler[h].pc = "ensured"
  /\ GrantsOn(handler[h].obj, handler[h].res) # {}
  /\ Return(h)
  /\ UNCHANGED <<byID, next, txn, held, teardown, sweeper, fence, restarts>>

\* registerPending, and the request enters the lock manager, which refuses a
\* resource the transaction already holds.
AcquireQueue(h) ==
  LET hs == handler[h]
  IN  /\ hs.pc = "ensured"
      /\ GrantsOn(hs.obj, hs.res) = {}
      /\ IF held[hs.obj][hs.res] = "none" THEN Goto(h, "queued") ELSE Return(h)
      /\ UNCHANGED <<byID, next, txn, held, teardown, sweeper, fence, restarts>>

\* The lock manager grants a queued request.  A cancelled wait may still be
\* granted: the watcher that would flag it has not run yet.
AcquireGrant(h) ==
  /\ handler[h].pc = "queued"
  /\ LT!Grant(handler[h].obj, handler[h].res, handler[h].mode)
  /\ handler' = [handler EXCEPT ![h].pc = "granted", ![h].cancelled = FALSE]
  /\ UNCHANGED <<byID, next, txn, teardown, sweeper, fence, restarts>>

\* Fault: a request that gives up waiting releases the resource all the same.
AbandonReleasing(h) ==
  /\ handler[h].pc = "queued"
  /\ LT!Drop(handler[h].obj, {handler[h].res})
  /\ Return(h)
  /\ UNCHANGED <<byID, next, txn, teardown, sweeper, fence, restarts>>

\* The wait ends without a grant: cancelled by beginTeardown, or the caller
\* has gone away.
AcquireAbandon(h) ==
  /\ handler[h].pc = "queued"
  /\ Return(h)
  /\ UNCHANGED <<byID, next, txn, held, teardown, sweeper, fence, restarts>>

\* Fault: the transaction is not looked at again after the wait.
stillActiveAssumed(h) ==
  /\ handler[h].pc = "granted"
  /\ Goto(h, IF handler[h].mode = "X" THEN "fencing" ELSE "recording")
  /\ UNCHANGED <<byID, next, txn, held, teardown, sweeper, fence, restarts>>

\* clearPending and stillActive.
stillActive(h) ==
  LET hs == handler[h]
  IN  /\ hs.pc = "granted"
      /\ Goto(h, IF ~Active(hs.obj) THEN "undo"
                 ELSE IF hs.mode = "X" THEN "fencing" ELSE "recording")
      /\ UNCHANGED <<byID, next, txn, held, teardown, sweeper, fence, restarts>>

\* mongofence.Allocate: one atomic increment that also sets the owner.
Allocate(h) ==
  LET hs == handler[h]
      t == fence[hs.res].token + 1
  IN  /\ hs.pc = "fencing"
      /\ t <= MaxToken
      /\ fence' = [fence EXCEPT ![hs.res] = [token |-> t, owner |-> txn[hs.obj].external]]
      /\ handler' = [handler EXCEPT ![h].pc = "recording", ![h].token = t]
      /\ UNCHANGED <<byID, next, txn, held, teardown, sweeper, restarts>>

\* Fault: the error path returns without giving the lock back.
AllocateFailsHolding(h) ==
  /\ handler[h].pc = "fencing"
  /\ Return(h)
  /\ UNCHANGED <<byID, next, txn, held, teardown, sweeper, fence, restarts>>

\* Allocate returns an error; the increment may have been applied or not.
AllocateFails(h) ==
  LET hs == handler[h]
      t == fence[hs.res].token + 1
  IN  /\ hs.pc = "fencing"
      /\ Goto(h, "undo")
      /\ \/ UNCHANGED fence
         \/ /\ t <= MaxToken
            /\ fence' = [fence EXCEPT ![hs.res] = [token |-> t, owner |-> txn[hs.obj].external]]
      /\ UNCHANGED <<byID, next, txn, held, teardown, sweeper, restarts>>

\* Fault: only an exclusive grant starts the lease.
recordGrantUnleased(h) ==
  LET hs == handler[h]
  IN  /\ hs.pc = "recording"
      /\ txn' = [txn EXCEPT ![hs.obj].grants =
                     Append(@, [res |-> hs.res, mode |-> hs.mode, token |-> hs.token]),
                   ![hs.obj].lease = IF hs.mode = "X" THEN "running" ELSE @]
      /\ Return(h)
      /\ UNCHANGED <<byID, next, held, teardown, sweeper, fence, restarts>>

\* recordGrant and startLeaseIfNeeded; the response is sent.
recordGrant(h) ==
  LET hs == handler[h]
  IN  /\ hs.pc = "recording"
      /\ txn' = [txn EXCEPT ![hs.obj].grants =
                     Append(@, [res |-> hs.res, mode |-> hs.mode, token |-> hs.token]),
                   ![hs.obj].lease = "running"]
      /\ Return(h)
      /\ UNCHANGED <<byID, next, held, teardown, sweeper, fence, restarts>>

\* releaseOne: lm.Release of a lock that may already be gone.
releaseOne(h) ==
  /\ handler[h].pc = "undo"
  /\ LT!Drop(handler[h].obj, {handler[h].res})
  /\ Return(h)
  /\ UNCHANGED <<byID, next, txn, teardown, sweeper, fence, restarts>>
------------------------------------------------------------------------------
\* RenewLease: moves the deadline of a lease that has started.
RenewLease(u) ==
  /\ byID[u] # 0
  /\ Active(byID[u])
  /\ txn[byID[u]].lease # "none"
  /\ txn' = [txn EXCEPT ![byID[u]].lease = "running"]
  /\ UNCHANGED <<byID, next, held, handler, teardown, sweeper, fence, restarts>>

\* Time: a lease's deadline passes (nobody looks at it once the transaction
\* is not active).
LeasePasses(o) ==
  /\ txn[o].lease = "running"
  /\ txn[o].state = "active"
  /\ txn' = [txn EXCEPT ![o].lease = "passed"]
  /\ UNCHANGED <<byID, next, held, handler, teardown, sweeper, fence, restarts>>

\* registry.beginTeardown and the calls of the cancel functions it returns:
\* those of the requests registered and not yet cleared.  Only one that still
\* waits notices.
beginTeardown(o, state) ==
  /\ txn' = [txn EXCEPT ![o].state = state]
  /\ teardown' = [teardown EXCEPT ![o].pc = "begun"]
  /\ handler' = [h \in Handler |->
       IF handler[h].obj = o /\ handler[h].pc = "queued"
       THEN [handler[h] EXCEPT !.cancelled = TRUE] ELSE handler[h]]

\* EndTransaction.  For an unknown transaction, or one already being torn
\* down, it changes nothing.
EndTransaction(u) ==
  /\ byID[u] # 0
  /\ Active(byID[u])
  /\ beginTeardown(byID[u], "ending")
  /\ UNCHANGED <<byID, next, held, sweeper, fence, restarts>>

\* fenceGrantsOf: teardown's snapshot of the fences to invalidate.
TeardownSnapshot(o) ==
  /\ teardown[o].pc = "begun"
  /\ teardown' = [teardown EXCEPT ![o] = [pc |-> "invalidating", left |-> fenceGrants(o)]]
  /\ UNCHANGED <<byID, next, txn, held, handler, sweeper, fence, restarts>>

\* mongofence.Invalidate of one of them: clears the owner if it is still this
\* transaction.
Invalidate(o, r) ==
  /\ teardown[o].pc = "invalidating"
  /\ teardown[o].left # <<>> /\ r = Head(teardown[o].left)
  /\ fence' = IF fence[r].owner = txn[o].external
              THEN [fence EXCEPT ![r].owner = None] ELSE fence
  /\ teardown' = [teardown EXCEPT ![o].left = Tail(@)]
  /\ UNCHANGED <<byID, next, txn, held, handler, sweeper, restarts>>

\* Fault: the locks are released although a fence could not be invalidated.
InvalidateFailsReleasing(o, r) ==
  /\ teardown[o].pc = "invalidating"
  /\ teardown[o].left # <<>> /\ r = Head(teardown[o].left)
  /\ LT!Drop(o, Resource)
  /\ teardown' = [teardown EXCEPT ![o] = [pc |-> "retry", left |-> <<>>]]
  /\ sweeper' = IF sweeper.cur = o THEN [sweeper EXCEPT !.cur = 0] ELSE sweeper
  /\ UNCHANGED <<byID, next, txn, handler, fence, restarts>>

\* An Invalidate returns an error, applied or not: nothing is released and
\* scheduleRetry takes over.
InvalidateFails(o, r) ==
  /\ teardown[o].pc = "invalidating"
  /\ teardown[o].left # <<>> /\ r = Head(teardown[o].left)
  /\ \/ UNCHANGED fence
     \/ fence[r].owner = txn[o].external /\ fence' = [fence EXCEPT ![r].owner = None]
  /\ teardown' = [teardown EXCEPT ![o] = [pc |-> "retry", left |-> <<>>]]
  /\ sweeper' = IF sweeper.cur = o THEN [sweeper EXCEPT !.cur = 0] ELSE sweeper
  /\ UNCHANGED <<byID, next, txn, held, handler, restarts>>

\* scheduleRetry's goroutine starts the teardown again.
TeardownRetry(o) ==
  /\ teardown[o].pc = "retry"
  /\ teardown' = [teardown EXCEPT ![o].pc = "begun"]
  /\ UNCHANGED <<byID, next, txn, held, handler, sweeper, fence, restarts>>

\* Every fence is dead: lm.ReleaseAll, then registry.finish.
TeardownFinish(o) ==
  /\ teardown[o].pc = "invalidating"
  /\ teardown[o].left = <<>>
  /\ LT!Drop(o, Resource)
  /\ txn' = [txn EXCEPT ![o].finished = TRUE]
  /\ teardown' = [teardown EXCEPT ![o] = NoTeardown]
  /\ sweeper' = IF sweeper.cur = o THEN [sweeper EXCEPT !.cur = 0] ELSE sweeper
  /\ UNCHANGED <<byID, next, handler, fence, restarts>>
------------------------------------------------------------------------------
\* registry.expired: the ids whose lease has passed.
expired == {u \in UUID : byID[u] # 0 /\ Active(byID[u]) /\ txn[byID[u]].lease = "passed"}

\* The ids registry.prune may forget, once they are old enough.
tombstones == {u \in UUID : byID[u] # 0 /\ txn[byID[u]].finished}

\* sweepLeases, one tick: the candidates are collected ...  (A tick that finds
\* nothing to revoke and nothing to prune has no effect.)
SweepTick ==
  /\ sweeper.pc = "idle"
  /\ sweeper' = IF expired \cup tombstones = {} THEN sweeper
                ELSE [sweeper EXCEPT !.pc = "revoking", !.left = expired]
  /\ UNCHANGED <<byID, next, txn, held, handler, teardown, fence, restarts>>

\* ... revoked one after the other; a candidate no longer active is skipped ...
revoke(u) ==
  /\ sweeper.pc = "revoking"
  /\ sweeper.cur = 0
  /\ u \in sweeper.left
  /\ IF byID[u] # 0 /\ Active(byID[u])
     THEN /\ beginTeardown(byID[u], "revoking")
          /\ sweeper' = [sweeper EXCEPT !.left = @ \ {u}, !.cur = byID[u]]
     ELSE /\ sweeper' = [sweeper EXCEPT !.left = @ \ {u}]
          /\ UNCHANGED <<txn, teardown, handler>>
  /\ UNCHANGED <<byID, next, held, fence, restarts>>

\* ... and tombstones past the retention window are pruned.
SweepPrune ==
  /\ sweeper.pc = "revoking"
  /\ sweeper.cur = 0
  /\ sweeper.left = {}
  /\ \E old \in SUBSET tombstones :
       byID' = [u \in UUID |-> IF u \in old THEN 0 ELSE byID[u]]
  /\ sweeper' = IdleSweeper
  /\ UNCHANGED <<next, txn, held, handler, teardown, fence, restarts>>

\* The coordinator process dies and a new one starts: only the fences last.
\* Not a step of Next, which is one life of the process: what a restart can
\* break is out among the workers, and FencedWorkers.tla takes it.
Restart ==
  /\ restarts < MaxRestarts
  /\ restarts' = restarts + 1
  /\ byID' = [u \in UUID |-> 0]
  /\ next' = 0
  /\ txn' = [o \in Obj |-> NoTransaction]
  /\ held' = [o \in Obj |-> [r \in Resource |-> "none"]]
  /\ handler' = [h \in Handler |-> IdleHandler]
  /\ teardown' = [o \in Obj |-> NoTeardown]
  /\ sweeper' = IdleSweeper
  /\ UNCHANGED fence
------------------------------------------------------------------------------
Acquire(h) ==
  \/ AcquireRetry(h) \/ AcquireQueue(h) \/ AcquireGrant(h) \/ AcquireAbandon(h)
  \/ stillActive(h) \/ Allocate(h) \/ AllocateFails(h) \/ recordGrant(h) \/ releaseOne(h)

Next ==
  \/ \E h \in Handler :
       \/ \E u \in UUID, r \in Resource, m \in Mode : ensure(h, u, r, m)
       \/ Acquire(h)
  \/ \E u \in UUID : RenewLease(u) \/ EndTransaction(u) \/ revoke(u)
  \/ \E o \in Obj :
       \/ LeasePasses(o)
       \/ TeardownSnapshot(o) \/ TeardownRetry(o) \/ TeardownFinish(o)
       \/ \E r \in Resource : Invalidate(o, r) \/ InvalidateFails(o, r)
  \/ SweepTick
  \/ SweepPrune

Spec == Init /\ [][Next]_vars
------------------------------------------------------------------------------
\* Every lock can be reclaimed: it is on its way to being recorded or given
\* back by the Acquire handler that took it, or its transaction is registered,
\* unfinished, and either has a lease that can pass or is being torn down.
\* A lock outside these cases would block its resource until a restart.
InFlight(o, r) ==
  \E h \in Handler :
    /\ handler[h].obj = o
    /\ handler[h].res = r
    /\ handler[h].pc \in {"granted", "fencing", "recording", "undo"}

NoOrphanLock ==
  \A o \in Obj, r \in Resource :
    held[o][r] # "none" =>
      \/ InFlight(o, r)
      \/ /\ txn[o].external # None
         /\ byID[txn[o].external] = o
         /\ ~txn[o].finished
         /\ txn[o].lease # "none" \/ teardown[o].pc # "none"

\* What an active transaction has been told it holds, it holds: no other
\* handler's undo and no other transaction's teardown took it away.
GrantBacked ==
  \A o \in Obj : Active(o) => \A g \in Grants(o) : held[o][g.res] = g.mode

\* However requests for one resource are repeated and overlap, a transaction
\* is granted it in one mode, with one token.  (Two overlapping shared requests
\* that queue behind a writer are both granted and recorded, with equal records:
\* the lock manager tests for a second acquisition only when it is entered.)
OneGrantPerResource ==
  \A o \in Obj : \A g1, g2 \in Grants(o) : g1.res = g2.res => g1 = g2

\* A fence-store failure never lets a writer go: as long as a teardown has
\* fences left to invalidate, the transaction still holds every resource it
\* was granted exclusively, whatever its other handlers undo meanwhile.
KeepsLocksUntilFenced ==
  \A o \in Obj :
    teardown[o].pc # "none" =>
      \A g \in Grants(o) : g.mode = "X" => held[o][g.res] = "X"
------------------------------------------------------------------------------
\* server.go 447-449: once the next holder can start writing, the previous
\* transaction's token must already be dead.  An active transaction that was
\* granted a resource exclusively is the next holder; a live token of another
\* transaction on that resource is one that is not dead.
PreviousTokenDead ==
  \A o \in Obj :
    Active(o) => \A g \in Grants(o) :
      g.mode = "X" => fence[g.res].owner \in {txn[o].external, None}
==============================================================================
