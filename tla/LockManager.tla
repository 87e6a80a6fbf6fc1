----------------------------- MODULE LockManager -----------------------------
(****************************************************************************)
(* The in-process lock manager, client/lockmanager/lockmanager.go.          *)
(*                                                                          *)
(* Everything the code does under lm.mu up to the next cond.Wait, return or *)
(* unlock is one action.  A member of Call is one activation of             *)
(* AcquireContext: the goroutine running it, its lockRequest, its context   *)
(* and the watcher goroutine it spawns.  A call that has returned and whose *)
(* watcher has exited is used again for a later activation.                 *)
(****************************************************************************)
EXTENDS Naturals, Sequences

CONSTANTS Txn,       \* TxnID
          Resource,  \* ResourceID
          Call,      \* activations of AcquireContext
          NoTxn,     \* hasExclusive = false
          NoRequest  \* a call that is not in progress

ASSUME NoTxnAssumption == NoTxn \notin Txn

VARIABLES
  \* LockManager and its lockState records
  resources,        \* the keys of lm.resources: resources with a lockState
  sharedHolders,    \* lockState.sharedHolders
  exclusiveHolder,  \* lockState.exclusiveHolder, NoTxn if not hasExclusive
  queue,            \* lockState.queue: the calls not yet granted, in order
  held,             \* lm.held: held[t][r], "none" if there is no entry
  \* the calls
  pc,               \* "idle" (not called, or returned), "asleep" in
                    \* cond.Wait, or "woken" by a Broadcast and about to
                    \* re-check
  req,              \* the lockRequest: its transaction, resource and mode
  done,             \* calls whose context is done
  cancelled,        \* calls with lockRequest.cancelled set
  watching          \* calls whose watcher goroutine has not exited

lockVars == <<resources, sharedHolders, exclusiveHolder, queue, held>>
vars == <<resources, sharedHolders, exclusiveHolder, queue, held,
          pc, req, done, cancelled, watching>>

Mode == {"S", "X"}
Request == [txn : Txn, res : Resource, mode : Mode]

ASSUME NoRequestAssumption == NoRequest \notin Request

\* Calls whose request is in a wait queue.
Waiting == {c \in Call : pc[c] # "idle"}

TypeOK ==
  /\ resources \subseteq Resource
  /\ sharedHolders \in [Resource -> SUBSET Txn]
  /\ exclusiveHolder \in [Resource -> Txn \cup {NoTxn}]
  /\ queue \in [Resource -> Seq(Call)]
  /\ held \in [Txn -> [Resource -> Mode \cup {"none"}]]
  /\ pc \in [Call -> {"idle", "asleep", "woken"}]
  /\ req \in [Call -> Request \cup {NoRequest}]
  /\ done \subseteq Call
  /\ cancelled \subseteq Call
  /\ watching \subseteq Call

Init ==
  /\ resources = {}
  /\ sharedHolders = [r \in Resource |-> {}]
  /\ exclusiveHolder = [r \in Resource |-> NoTxn]
  /\ queue = [r \in Resource |-> << >>]
  /\ held = [t \in Txn |-> [r \in Resource |-> "none"]]
  /\ pc = [c \in Call |-> "idle"]
  /\ req = [c \in Call |-> NoRequest]
  /\ done = {} /\ cancelled = {} /\ watching = {}
------------------------------------------------------------------------------
\* Fault: a writer does not wait for the readers that hold the resource.
canGrantPastReaders(c, rq, q) ==
  /\ exclusiveHolder[rq.res] = NoTxn
  /\ \A i \in 1..Len(q) :
       (\A j \in 1..i : q[j] # c) => rq.mode = "S" /\ req[q[i]].mode = "S"

\* Fault: the queue is not looked at, so a reader overtakes a waiting writer.
canGrantOvertaking(c, rq, q) ==
  /\ exclusiveHolder[rq.res] = NoTxn
  /\ rq.mode = "X" => sharedHolders[rq.res] = {}

\* lockState.canGrant: compatible with the holders, and everything ahead of
\* c in q is Shared while c is Shared too.
canGrant(c, rq, q) ==
  /\ exclusiveHolder[rq.res] = NoTxn
  /\ rq.mode = "X" => sharedHolders[rq.res] = {}
  /\ \A i \in 1..Len(q) :
       (\A j \in 1..i : q[j] # c) => rq.mode = "S" /\ req[q[i]].mode = "S"

\* lockState.removeFromQueue: c's position is cut out of the queue.
removeFromQueue(q, c) ==
  IF \E i \in 1..Len(q) : q[i] = c
  THEN LET i == CHOOSE i \in 1..Len(q) : q[i] = c
       IN  [j \in 1..(Len(q) - 1) |-> IF j < i THEN q[j] ELSE q[j + 1]]
  ELSE q

\* Fault: cond.Signal, which wakes one waiter.
Signal(R) ==
  LET asleep == {c \in Call : pc[c] = "asleep" /\ req[c].res \in R}
  IN  [c \in Call |-> IF asleep # {} /\ c = CHOOSE w \in asleep : TRUE THEN "woken" ELSE pc[c]]

\* cond.Broadcast on the resources R: every call asleep on one of them wakes.
Broadcast(R) ==
  [c \in Call |-> IF pc[c] = "asleep" /\ req[c].res \in R THEN "woken" ELSE pc[c]]

\* Fault: a record is deleted under the calls queued on it.
sweepUnheld(shared, exclusive, q) == exclusive = NoTxn /\ shared = {}

\* The condition sweepIfIdle deletes a lockState record under.
sweepIfIdle(shared, exclusive, q) ==
  exclusive = NoTxn /\ shared = {} /\ q = << >>

\* Fault: the grant is not entered in lm.held.
GrantUnrecorded(c, rq, q) ==
  /\ queue' = [queue EXCEPT ![rq.res] = removeFromQueue(q, c)]
  /\ exclusiveHolder' = [exclusiveHolder EXCEPT ![rq.res] = rq.txn]
  /\ pc' = [Broadcast({rq.res}) EXCEPT ![c] = "idle"]
  /\ UNCHANGED <<sharedHolders, held>>

\* The tail of AcquireContext after its loop breaks: leave the queue, become
\* a holder, record it in held, Broadcast.
Grant(c, rq, q) ==
  /\ queue' = [queue EXCEPT ![rq.res] = removeFromQueue(q, c)]
  /\ IF rq.mode = "X"
     THEN /\ exclusiveHolder' = [exclusiveHolder EXCEPT ![rq.res] = rq.txn]
          /\ UNCHANGED sharedHolders
     ELSE /\ sharedHolders' = [sharedHolders EXCEPT ![rq.res] = @ \cup {rq.txn}]
          /\ UNCHANGED exclusiveHolder
  /\ held' = [held EXCEPT ![rq.txn][rq.res] = rq.mode]
  /\ pc' = [Broadcast({rq.res}) EXCEPT ![c] = "idle"]
------------------------------------------------------------------------------
\* AcquireContext, from its call to its first cond.Wait or return.  A request
\* on a context that is done, or on a resource the transaction already holds
\* in any mode, is refused and changes nothing.  Any other is queued, on a new
\* lockState if there is none; it gets a watcher, and is granted at once if it
\* can be.
AcquireContext(c, rq) ==
  /\ req[c] = NoRequest
  /\ held[rq.txn][rq.res] = "none"
  /\ req' = [req EXCEPT ![c] = rq]
  /\ resources' = resources \cup {rq.res}
  /\ watching' = watching \cup {c}
  /\ LET q == Append(queue[rq.res], c)
     IN  \/ /\ canGrant(c, rq, q)
            /\ Grant(c, rq, q)
         \/ /\ ~canGrant(c, rq, q)
            /\ queue' = [queue EXCEPT ![rq.res] = q]
            /\ pc' = [pc EXCEPT ![c] = "asleep"]
            /\ UNCHANGED <<sharedHolders, exclusiveHolder, held>>
  /\ UNCHANGED <<done, cancelled>>

\* One turn of the wait loop after a wake, cancellation first: the request
\* leaves the queue, everyone is woken, an idle record is reclaimed.
WakeCancelled(c) ==
  LET r == req[c].res
      q == removeFromQueue(queue[r], c)
      idle == sweepIfIdle(sharedHolders[r], exclusiveHolder[r], q)
  IN  /\ pc[c] = "woken"
      /\ c \in cancelled
      /\ queue' = [queue EXCEPT ![r] = IF idle THEN << >> ELSE q]
      /\ resources' = IF idle THEN resources \ {r} ELSE resources
      /\ pc' = [Broadcast({r}) EXCEPT ![c] = "idle"]
      /\ req' = [req EXCEPT ![c] = NoRequest]
      /\ done' = done \ {c}
      /\ cancelled' = cancelled \ {c}
      /\ UNCHANGED <<sharedHolders, exclusiveHolder, held, watching>>

\* The wait loop: granted.
WakeGranted(c) ==
  /\ pc[c] = "woken"
  /\ c \notin cancelled
  /\ canGrant(c, req[c], queue[req[c].res])
  /\ Grant(c, req[c], queue[req[c].res])
  /\ UNCHANGED <<resources, req, done, cancelled, watching>>

\* The wait loop: neither, back to cond.Wait.
WakeAgain(c) ==
  /\ pc[c] = "woken"
  /\ c \notin cancelled
  /\ ~canGrant(c, req[c], queue[req[c].res])
  /\ pc' = [pc EXCEPT ![c] = "asleep"]
  /\ UNCHANGED <<lockVars, req, done, cancelled, watching>>

Wake(c) == WakeCancelled(c) \/ WakeGranted(c) \/ WakeAgain(c)

\* The caller's context is cancelled or passes its deadline.
ContextDone(c) ==
  /\ c \in watching \ done
  /\ done' = done \cup {c}
  /\ UNCHANGED <<lockVars, pc, req, cancelled, watching>>

\* Fault: the watcher flags the request and wakes nobody.
WatcherSilent(c) ==
  /\ c \in watching \cap done
  /\ c \in Waiting
  /\ cancelled' = cancelled \cup {c}
  /\ watching' = watching \ {c}
  /\ UNCHANGED <<lockVars, pc, req, done>>

\* The watcher goroutine takes the done branch of its select: it flags the
\* request and wakes the resource.
WatcherDone(c) ==
  /\ c \in watching \cap done
  /\ c \in Waiting
  /\ cancelled' = cancelled \cup {c}
  /\ watching' = watching \ {c}
  /\ pc' = Broadcast({req[c].res})
  /\ UNCHANGED <<lockVars, req, done>>

\* The watcher of a call that has returned exits.  If its context is done too
\* the select may still take the done branch: flagging the request is then
\* without effect, and the Broadcast wakes the resource for nothing, or
\* reaches nobody if the lockState has been replaced since.
WatcherExit(c) ==
  /\ c \in watching
  /\ c \notin Waiting
  /\ watching' = watching \ {c}
  /\ req' = [req EXCEPT ![c] = NoRequest]
  /\ done' = done \ {c}
  /\ \/ UNCHANGED pc
     \/ c \in done /\ pc' = Broadcast({req[c].res})
  /\ UNCHANGED <<lockVars, cancelled>>
------------------------------------------------------------------------------
\* releaseLocked's own tests: the lockState exists and agrees with held.
Releasable(t, r) ==
  /\ held[t][r] # "none"
  /\ r \in resources
  /\ held[t][r] = "X" => exclusiveHolder[r] = t
  /\ held[t][r] = "S" => t \in sharedHolders[r]

\* releaseLocked for every resource of R, in one critical section.  A
\* resource that fails a test is skipped and left as it is.
releaseLocked(t, R) ==
  LET shared(r) == IF held[t][r] = "S" THEN sharedHolders[r] \ {t} ELSE sharedHolders[r]
      exclusive(r) == IF held[t][r] = "X" THEN NoTxn ELSE exclusiveHolder[r]
      idle == {r \in R : sweepIfIdle(shared(r), exclusive(r), queue[r])}
  IN  /\ sharedHolders' = [r \in Resource |-> IF r \in R THEN shared(r) ELSE sharedHolders[r]]
      /\ exclusiveHolder' = [r \in Resource |-> IF r \in R THEN exclusive(r) ELSE exclusiveHolder[r]]
      /\ held' = [held EXCEPT ![t] = [r \in Resource |-> IF r \in R THEN "none" ELSE @[r]]]
      /\ resources' = resources \ idle
      /\ queue' = [r \in Resource |-> IF r \in idle THEN << >> ELSE queue[r]]
      /\ pc' = Broadcast(R)
      /\ UNCHANGED <<req, done, cancelled, watching>>

\* Release: one resource.
Release(t, r) == Releasable(t, r) /\ releaseLocked(t, {r})

\* ReleaseAll (and LockGuard.ReleaseAll, which is this once per guard).
ReleaseAll(t) ==
  /\ \E r \in Resource : held[t][r] # "none"
  /\ releaseLocked(t, {r \in Resource : Releasable(t, r)})
------------------------------------------------------------------------------
Next ==
  \/ \E c \in Call :
       \/ \E rq \in Request : AcquireContext(c, rq)
       \/ Wake(c)
       \/ ContextDone(c)
       \/ WatcherDone(c)
       \/ WatcherExit(c)
  \/ \E t \in Txn : ReleaseAll(t) \/ \E r \in Resource : Release(t, r)

Spec == Init /\ [][Next]_vars

\* The Go scheduler and sync.Mutex (which hands over to a starved goroutine)
\* let every runnable goroutine through: a woken call re-checks, a watcher
\* whose context is done runs.
SchedulerFairness == \A c \in Call : WF_vars(Wake(c)) /\ WF_vars(WatcherDone(c))

\* Callers end their transactions: every SAFER operation defers ReleaseAll.
CallerFairness == \A t \in Txn : WF_vars(ReleaseAll(t))

SchedulerSpec == Spec /\ SchedulerFairness
------------------------------------------------------------------------------
LT == INSTANCE LockTable

\* What AcquireContext and Release do to lm.held is what an abstract lock
\* table allows: a grant is compatible with every holder, and nothing but a
\* release takes a lock away.
ImplementsLockTable == LT!Spec

\* At most one exclusive holder, and then no shared one (package comment).
SharedExclusive == LT!SharedExclusive

\* The two books agree: lm.held, which releaseLocked starts from, and the
\* holders in lockState, which canGrant decides from.  It is why the
\* "internal inconsistency" errors of releaseLocked are unreachable.
HoldersAgree ==
  \A t \in Txn, r \in Resource :
    /\ held[t][r] = "X" <=> exclusiveHolder[r] = t
    /\ held[t][r] = "S" <=> t \in sharedHolders[r]

\* A lockState record exists exactly while someone holds or awaits its
\* resource: sweepIfIdle neither strands a waiter nor leaks a record.
RecordIffInUse ==
  \A r \in Resource :
    r \in resources <=>
      \/ \E t \in Txn : held[t][r] # "none"
      \/ \E c \in Waiting : req[c].res = r

\* No lost wakeup: a call that is asleep is queued on the live record, is not
\* cancelled and cannot be granted now.  Every change that could let it go on
\* was followed by a Broadcast it was there to hear.
NoLostWakeup ==
  \A c \in Call :
    pc[c] = "asleep" =>
      /\ \E i \in 1..Len(queue[req[c].res]) : queue[req[c].res][i] = c
      /\ c \notin cancelled
      /\ ~canGrant(c, req[c], queue[req[c].res])

\* canGrant's fairness policy serves every queued request, a writer behind a
\* continuous stream of readers included, as long as transactions end.
WaiterServed ==
  CallerFairness => \A c \in Call : c \in Waiting ~> c \notin Waiting

\* A wait whose context is done comes to an end even if no holder ever
\* releases anything.
DoneCallReturns == \A c \in Call : c \in Waiting /\ c \in done ~> c \notin Waiting
==============================================================================
