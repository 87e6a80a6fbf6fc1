------------------------- MODULE FencedWorkersProofs -------------------------
(****************************************************************************)
(* The workers and the coordinator implement FencedStore, for any number of *)
(* workers, resources and handlers and any number of coordinator restarts.  *)
(*                                                                          *)
(* The coordinator's own invariant (CoordinatorProofs) is needed for one    *)
(* thing only: that a handler still works for the transaction it was called *)
(* for.  That a commit is made on top of what was read is an invariant of   *)
(* workers and fences alone, so it survives a restart that forgets every    *)
(* lock.                                                                    *)
(****************************************************************************)
EXTENDS FencedWorkers, CoordinatorProofs

WorkTypes ==
  /\ worker \in [UUID -> Worker]
  /\ data \in [Resource -> 0..MaxVersion]

\* An operation that has called keeps its resource; it is given a token no
\* higher than was allocated, reads only after that, and what it has read is
\* current as long as its token is live.
Works(u) ==
  /\ worker[u].pc \notin {"new", "gone"} \/ worker[u].sent \/ worker[u].token > 0 =>
       worker[u].res \in Resource
  /\ worker[u].pc = "new" => ~worker[u].sent
  /\ worker[u].pc \in {"new", "calling"} => worker[u].token = 0
  /\ worker[u].pc \in {"granted", "read"} => worker[u].token > 0
  /\ worker[u].pc = "read" => worker[u].seen # -1
  /\ worker[u].token = 0 => worker[u].seen = -1
  /\ worker[u].token > 0 => worker[u].token <= fence[worker[u].res].token
  /\ worker[u].seen # -1 /\ FenceMatches(u) => worker[u].seen = data[worker[u].res]

\* A busy handler serves the exclusive request of a worker that has called, and
\* what it is about to hand out was allocated.
Serves(h) ==
  handler[h].pc # "idle" =>
    /\ handler[h].mode = "X"
    /\ worker[txn[handler[h].obj].external].pc # "new"
    /\ worker[txn[handler[h].obj].external].res = handler[h].res
    /\ handler[h].pc = "recording" =>
         handler[h].token > 0 /\ handler[h].token <= fence[handler[h].res].token

WorkInv ==
  /\ CoordInv /\ FenceTypes
  /\ WorkTypes
  /\ \A u \in UUID : Works(u)
  /\ \A h \in Handler : Serves(h)

\* Nobody has called, nothing was allocated.
LEMMA WorkInit == WorkersInit => WorkInv
<1> SUFFICES ASSUME WorkersInit PROVE WorkInv
  OBVIOUS
<1>1. CoordInv
  BY CoordInit DEF WorkersInit, Init
<1>2. FenceTypes /\ \A h \in Handler : handler[h].pc = "idle"
  BY BoundsAssumption DEF WorkersInit, Init, MemoryInit, FenceTypes, IdleHandler
<1>3. NewWorker \in Worker
  BY BoundsAssumption, VersionAssumption DEF NewWorker, Worker
<1>4. WorkTypes
  BY <1>3, VersionAssumption DEF WorkersInit, WorkTypes
<1>5. \A u \in UUID : Works(u)
  BY DEF WorkersInit, Works, NewWorker
<1> QED
  BY <1>1, <1>2, <1>4, <1>5 DEF WorkInv, Serves
------------------------------------------------------------------------------
\* What the steps of the coordinator do to a fence: leave it, allocate a higher
\* token, or invalidate the one it has.
FenceMoves ==
  \A r \in Resource :
    /\ fence'[r].token >= fence[r].token
    /\ \/ fence'[r] = fence[r]
       \/ fence'[r].token > fence[r].token
       \/ fence'[r].owner = None

\* Only Allocate and Invalidate write fences, for a transaction that has a name.
LEMMA FenceSteps ==
  ASSUME CoordInv, FenceTypes, [Next]_vars
  PROVE  \/ UNCHANGED fence
         \/ \E u \in UUID, r \in Resource :
              \/ /\ fence[r].token < MaxToken
                 /\ fence' = [fence EXCEPT ![r] = [token |-> fence[r].token + 1, owner |-> u]]
              \/ /\ fence[r].owner = u
                 /\ fence' = [fence EXCEPT ![r].owner = None]
<1>1. ASSUME NEW h \in Handler, Allocate(h) \/ AllocateFails(h), fence' # fence
      PROVE  \E u \in UUID, r \in Resource :
               /\ fence[r].token < MaxToken
               /\ fence' = [fence EXCEPT ![r] = [token |-> fence[r].token + 1, owner |-> u]]
  <2>1. /\ handler[h].res \in Resource
        /\ handler[h].obj \in Obj /\ handler[h].obj <= next
    BY <1>1, BoundsAssumption DEF Allocate, AllocateFails, CoordInv, Request, Types, Obj
  <2>2. txn[handler[h].obj].external \in UUID
    BY <2>1 DEF CoordInv, Named
  <2>3. /\ fence[handler[h].res].token + 1 <= MaxToken
        /\ fence' = [fence EXCEPT ![handler[h].res] =
             [token |-> fence[handler[h].res].token + 1, owner |-> txn[handler[h].obj].external]]
    BY <1>1 DEF Allocate, AllocateFails
  <2>4. fence[handler[h].res].token < MaxToken
    BY <2>1, <2>3, BoundsAssumption DEF FenceTypes
  <2> QED
    BY <2>1, <2>2, <2>3, <2>4
<1>2. ASSUME NEW o \in Obj, NEW r \in Resource, Invalidate(o, r) \/ InvalidateFails(o, r),
             fence' # fence
      PROVE  \E u \in UUID :
               fence[r].owner = u /\ fence' = [fence EXCEPT ![r].owner = None]
  <2>1. txn[o].external \in UUID
    BY <1>2 DEF Invalidate, InvalidateFails, CoordInv, Named
  <2>2. fence[r].owner = txn[o].external /\ fence' = [fence EXCEPT ![r].owner = None]
    BY <1>2 DEF Invalidate, InvalidateFails
  <2> QED
    BY <2>1, <2>2
<1>3. UNCHANGED vars => UNCHANGED fence
  BY DEF vars
<1>4. ASSUME Next
      PROVE  \/ UNCHANGED fence
             \/ \E h \in Handler : Allocate(h) \/ AllocateFails(h)
             \/ \E o \in Obj, r \in Resource : Invalidate(o, r) \/ InvalidateFails(o, r)
  BY <1>4 DEF Next, Acquire, ensure, AcquireRetry, AcquireQueue, AcquireGrant, AcquireAbandon,
       stillActive, recordGrant, releaseOne, RenewLease, EndTransaction, revoke, LeasePasses,
       TeardownSnapshot, TeardownRetry, TeardownFinish, SweepTick, SweepPrune
<1> QED
  BY <1>1, <1>2, <1>3, <1>4

\* So a fence only ever moves on.
LEMMA FencesMoveOn ==
  ASSUME CoordInv, FenceTypes, [Next]_vars
  PROVE  FenceMoves
<1>1. CASE UNCHANGED fence
  BY <1>1, BoundsAssumption DEF FenceMoves, FenceTypes
<1>2. ASSUME NEW u \in UUID, NEW r \in Resource,
             fence' = [fence EXCEPT ![r] = [token |-> fence[r].token + 1, owner |-> u]]
      PROVE  FenceMoves
  BY <1>2, BoundsAssumption DEF FenceMoves, FenceTypes
<1>3. ASSUME NEW r \in Resource, fence' = [fence EXCEPT ![r].owner = None]
      PROVE  FenceMoves
  BY <1>3, BoundsAssumption DEF FenceMoves, FenceTypes
<1> QED
  BY <1>1, <1>2, <1>3, FenceSteps

\* A token that is live afterwards was live before, if it was allocated before:
\* a worker that does nothing loses nothing but its token.
LEMMA BystanderWorks ==
  ASSUME FenceTypes, FenceTypes', WorkTypes, FenceMoves, NEW u \in UUID, Works(u),
         worker'[u] = worker[u],
         worker[u].token > 0 /\ FenceMatches(u) => data'[worker[u].res] = data[worker[u].res]
  PROVE  Works(u)'
<1>1. worker[u] \in Worker
  BY DEF WorkTypes
<1>2. CASE worker[u].token = 0
  BY <1>2 DEF Works
<1>3. CASE worker[u].token > 0
  <2>1. PICK r \in Resource : r = worker[u].res
    BY <1>3 DEF Works
  <2>2. worker[u].token <= fence'[r].token
    BY <1>1, <1>3, <2>1, BoundsAssumption DEF Works, FenceMoves, FenceTypes, Worker
  <2>3. FenceMatches(u)' => FenceMatches(u)
    <3>1. fence'[r].token > fence[r].token => fence'[r].token # worker[u].token
      BY <1>1, <1>3, <2>1, BoundsAssumption DEF Works, FenceMoves, FenceTypes, Worker
    <3> QED
      BY <2>1, <3>1, NoneAssumption DEF FenceMatches, FenceMoves
  <2> QED
    BY <1>3, <2>1, <2>2, <2>3 DEF Works
<1> QED
  BY <1>1, <1>2, <1>3, BoundsAssumption DEF Worker
------------------------------------------------------------------------------
\* The steps the coordinator takes without a new request.
Running ==
  \/ \E h \in Handler : Acquire(h)
  \/ \E u \in UUID : RenewLease(u) \/ EndTransaction(u) \/ revoke(u)
  \/ \E o \in Obj :
       \/ LeasePasses(o)
       \/ TeardownSnapshot(o) \/ TeardownRetry(o) \/ TeardownFinish(o)
       \/ \E r \in Resource : Invalidate(o, r) \/ InvalidateFails(o, r)
  \/ SweepTick \/ SweepPrune

\* A handler stays with its request, and records only a token it has allocated.
CarriesOn(h) ==
  handler'[h].pc # "idle" =>
    /\ handler[h].pc # "idle"
    /\ SameRequest(h)
    /\ handler'[h].pc = "recording" /\ handler[h].mode = "X" =>
         \/ handler[h].pc = "recording" /\ handler'[h].token = handler[h].token
         \/ handler'[h].token > 0 /\ handler'[h].token <= fence'[handler[h].res].token

NamesStay ==
  \A o \in Obj : o <= next => txn'[o].external = txn[o].external

\* A transaction keeps its name: ensure names only a fresh id.
LEMMA NamesKept ==
  ASSUME CoordInv, [Next]_vars
  PROVE  NamesStay
<1>1. txn \in [Obj -> Transaction] /\ next \in 0..MaxTxnID
  BY DEF CoordInv, Types
<1>2. CASE UNCHANGED txn
  BY <1>2 DEF NamesStay
<1>3. ASSUME NEW h \in Handler, NEW u \in UUID, NEW r \in Resource, NEW m \in Mode, ensure(h, u, r, m)
      PROVE  NamesStay
  <2>1. UNCHANGED txn \/ txn' = [txn EXCEPT ![next + 1] = [NoTransaction EXCEPT !.external = u]]
    BY <1>3 DEF ensure
  <2> QED
    BY <1>1, <1>2, <2>1, BoundsAssumption DEF NamesStay, Obj
<1>4. ASSUME NEW h \in Handler, recordGrant(h) PROVE NamesStay
  BY <1>1, <1>4 DEF recordGrant, NamesStay, Transaction
<1>5. ASSUME NEW o \in Obj,
             \/ \E l : txn' = [txn EXCEPT ![o].lease = l]
             \/ \E st : txn' = [txn EXCEPT ![o].state = st]
             \/ txn' = [txn EXCEPT ![o].finished = TRUE]
      PROVE  NamesStay
  BY <1>1, <1>5 DEF NamesStay, Transaction
<1>6. ASSUME NEW u \in UUID, RenewLease(u) \/ EndTransaction(u) \/ revoke(u) PROVE NamesStay
  <2>1. byID[u] # 0 => byID[u] \in Obj
    BY DEF CoordInv, Types
  <2> QED
    BY <1>2, <1>5, <1>6, <2>1 DEF RenewLease, EndTransaction, revoke, beginTeardown
<1>7. ASSUME NEW o \in Obj, LeasePasses(o) \/ TeardownFinish(o) PROVE NamesStay
  BY <1>5, <1>7 DEF LeasePasses, TeardownFinish
<1>8. UNCHANGED vars => UNCHANGED txn
  BY DEF vars
<1>9. ASSUME Next
      PROVE  \/ UNCHANGED txn
             \/ \E h \in Handler, u \in UUID, r \in Resource, m \in Mode : ensure(h, u, r, m)
             \/ \E h \in Handler : recordGrant(h)
             \/ \E u \in UUID : RenewLease(u) \/ EndTransaction(u) \/ revoke(u)
             \/ \E o \in Obj : LeasePasses(o) \/ TeardownFinish(o)
  BY <1>9 DEF Next, Acquire, AcquireRetry, AcquireQueue, AcquireGrant, AcquireAbandon,
       stillActive, Allocate, AllocateFails, releaseOne, TeardownSnapshot, TeardownRetry,
       Invalidate, InvalidateFails, SweepTick, SweepPrune
<1> QED
  BY <1>2, <1>3, <1>4, <1>6, <1>7, <1>8, <1>9

\* In Acquire a token comes from Allocate, and a lock that is not fenced is
\* shared.
LEMMA AcquireCarriesOn ==
  ASSUME CoordInv, FenceTypes, NEW h \in Handler, Acquire(h)
  PROVE  OnlyHandler(h) /\ CarriesOn(h)
<1>1. Types /\ handler[h] \in HandlerState
  BY DEF CoordInv, Types
<1>2. CASE Return(h)
  BY <1>1, <1>2, ReturnIdles DEF CarriesOn
<1>3. ASSUME NEW l \in {"queued", "fencing", "recording", "undo"}, Goto(h, l),
             handler[h].pc # "idle", l = "recording" => handler[h].mode # "X"
      PROVE  OnlyHandler(h) /\ CarriesOn(h)
  BY <1>1, <1>3, GotoMoves DEF CarriesOn
<1>4. CASE AcquireRetry(h) \/ AcquireQueue(h) \/ AcquireAbandon(h) \/ recordGrant(h) \/ releaseOne(h)
  BY <1>2, <1>3, <1>4 DEF AcquireRetry, AcquireQueue, AcquireAbandon, recordGrant, releaseOne
<1>5. CASE AcquireGrant(h)
  <2>1. handler' = [handler EXCEPT ![h].pc = "granted", ![h].cancelled = FALSE]
    BY <1>5 DEF AcquireGrant
  <2>2. [handler[h] EXCEPT !.pc = "granted", !.cancelled = FALSE] \in HandlerState
    BY <1>1 DEF HandlerState
  <2>3. handler[h].pc = "queued"
    BY <1>5 DEF AcquireGrant
  <2> QED
    BY <1>1, <2>1, <2>2, <2>3 DEF OnlyHandler, CarriesOn, SameRequest, Types, HandlerState
<1>6. CASE stillActive(h)
  BY <1>3, <1>6 DEF stillActive
<1>7. CASE AllocateFails(h)
  BY <1>3, <1>7 DEF AllocateFails
<1>8. CASE Allocate(h)
  <2>1. handler[h].pc = "fencing" /\ handler[h].res \in Resource
    BY <1>8 DEF Allocate, CoordInv, Request
  <2>2. PICK r \in Resource : r = handler[h].res
    BY <2>1
  <2>3. PICK t \in 1..MaxToken : t = fence[r].token + 1
    BY <1>8, <2>2, BoundsAssumption DEF Allocate, FenceTypes
  <2>4. handler' = [handler EXCEPT ![h].pc = "recording", ![h].token = t] /\ fence'[r].token = t
    BY <1>8, <2>2, <2>3 DEF Allocate, FenceTypes
  <2>5. [handler[h] EXCEPT !.pc = "recording", !.token = t] \in HandlerState
    <3>1. t \in 0..MaxToken
      BY <2>3, BoundsAssumption
    <3> QED
      BY <1>1, <3>1 DEF HandlerState
  <2>6. OnlyHandler(h) /\ SameRequest(h) /\ handler'[h].token = t
    BY <1>1, <2>4, <2>5 DEF OnlyHandler, SameRequest, Types, HandlerState
  <2> QED
    BY <2>1, <2>2, <2>3, <2>4, <2>6 DEF CarriesOn
<1> QED
  BY <1>4, <1>5, <1>6, <1>7, <1>8 DEF Acquire

\* No step without a new request gives a handler another request.
LEMMA HandlersCarryOn ==
  ASSUME CoordInv, FenceTypes, Running \/ UNCHANGED handler, NEW h \in Handler
  PROVE  CarriesOn(h)
<1>1. handler \in [Handler -> HandlerState]
  BY DEF CoordInv, Types
<1>2. CASE handler'[h] = handler[h]
  BY <1>2 DEF CarriesOn, SameRequest
<1>3. ASSUME NEW k \in Handler, Acquire(k) PROVE CarriesOn(h)
  BY <1>2, <1>3, AcquireCarriesOn DEF OnlyHandler
<1>4. ASSUME NEW o, NEW st, beginTeardown(o, st) PROVE CarriesOn(h)
  <2>1. handler'[h] = handler[h] \/ handler'[h] = [handler[h] EXCEPT !.cancelled = TRUE]
    BY <1>4 DEF beginTeardown
  <2> QED
    BY <1>1, <1>2, <2>1 DEF CarriesOn, SameRequest, HandlerState
<1>5. ASSUME Running
      PROVE  \/ UNCHANGED handler
             \/ \E k \in Handler : Acquire(k)
             \/ \E o, st : beginTeardown(o, st)
  BY <1>5 DEF Running, RenewLease, EndTransaction, revoke, LeasePasses, TeardownSnapshot,
       TeardownRetry, TeardownFinish, Invalidate, InvalidateFails, SweepTick, SweepPrune
<1> QED
  BY <1>2, <1>3, <1>4, <1>5
------------------------------------------------------------------------------
\* A worker that has called calls for one resource only.
CallersStay ==
  \A u \in UUID : worker[u].pc # "new" => worker'[u].pc # "new" /\ worker'[u].res = worker[u].res

\* A handler that carries on goes on serving its worker.
LEMMA ServesKept ==
  ASSUME WorkInv, FenceTypes', FenceMoves, NamesStay, CallersStay,
         NEW h \in Handler, CarriesOn(h)
  PROVE  Serves(h)'
<1> SUFFICES ASSUME handler'[h].pc # "idle" PROVE Serves(h)'
  BY DEF Serves
<1>1. handler[h].pc # "idle" /\ SameRequest(h) /\ Serves(h)
  BY DEF CarriesOn, WorkInv
<1>2. handler[h].obj \in Obj /\ handler[h].obj <= next /\ handler[h].res \in Resource
  BY <1>1, BoundsAssumption DEF WorkInv, CoordInv, Request, Types, Obj
<1>3. PICK u \in UUID : u = txn[handler[h].obj].external /\ u = txn'[handler'[h].obj].external
  BY <1>1, <1>2 DEF WorkInv, CoordInv, Named, NamesStay, SameRequest
<1>4. /\ handler'[h].mode = "X" /\ worker'[u].pc # "new" /\ worker'[u].res = handler'[h].res
  BY <1>1, <1>3 DEF Serves, CallersStay, SameRequest
<1>5. handler'[h].pc = "recording" =>
        handler'[h].token > 0 /\ handler'[h].token <= fence'[handler'[h].res].token
  <2>1. PICK r \in Resource : r = handler[h].res /\ r = handler'[h].res
    BY <1>1, <1>2 DEF SameRequest
  <2>2. /\ fence[r].token \in Nat /\ fence'[r].token \in Nat
        /\ fence[r].token <= fence'[r].token
    BY BoundsAssumption DEF WorkInv, FenceTypes, FenceMoves
  <2>3. handler[h].token \in Nat
    BY BoundsAssumption DEF WorkInv, CoordInv, Types, HandlerState
  <2>4. handler[h].mode = "X"
    BY <1>1 DEF Serves
  <2>5. handler[h].pc = "recording" => handler[h].token > 0 /\ handler[h].token <= fence[r].token
    BY <1>1, <2>1 DEF Serves
  <2> QED
    BY <2>1, <2>2, <2>3, <2>4, <2>5 DEF CarriesOn
<1> QED
  BY <1>3, <1>4, <1>5 DEF Serves

\* What the coordinator does, apart from restarting, keeps its own invariant.
LEMMA CoordinatorStep ==
  ASSUME WorkInv, [Next]_vars
  PROVE  CoordInv' /\ FenceTypes' /\ FenceMoves /\ NamesStay
<1>1. CoordInv /\ FenceTypes
  BY DEF WorkInv
<1>2. CASE UNCHANGED vars
  <2>1. UNCHANGED <<byID, next, txn, held, handler, teardown>>
    BY <1>2 DEF vars
  <2> QED
    BY <1>1, <2>1, StutterKeeps, FenceTypesKept, FencesMoveOn, NamesKept
<1> QED
  BY <1>1, <1>2, CoordStep, FenceTypesKept, FencesMoveOn, NamesKept

\* A step without a new request, after which every worker is as it should be.
LEMMA WorkKept ==
  ASSUME WorkInv, Running \/ UNCHANGED vars,
         WorkTypes', \A u \in UUID : Works(u)', CallersStay
  PROVE  WorkInv'
<1>1. [Next]_vars /\ (Running \/ UNCHANGED handler)
  BY DEF Running, Next, vars
<1>2. CoordInv' /\ FenceTypes' /\ FenceMoves /\ NamesStay
  BY <1>1, CoordinatorStep
<1>3. \A h \in Handler : CarriesOn(h)
  BY <1>1, HandlersCarryOn DEF WorkInv
<1> QED
  BY <1>2, <1>3, ServesKept DEF WorkInv

\* A step of the coordinator that no worker hears of.
LEMMA UnheardKept ==
  ASSUME WorkInv, Running \/ UNCHANGED vars, UNCHANGED workerVars
  PROVE  WorkInv'
<1>1. [Next]_vars
  BY DEF Running, Next, vars
<1>2. FenceTypes' /\ FenceMoves
  BY <1>1, CoordinatorStep
<1>3. UNCHANGED <<worker, data>>
  BY DEF workerVars
<1>4. \A u \in UUID : Works(u)'
  BY <1>2, <1>3, BystanderWorks DEF WorkInv
<1>5. WorkTypes' /\ CallersStay
  BY <1>3 DEF WorkInv, WorkTypes, CallersStay
<1> QED
  BY <1>4, <1>5, WorkKept

\* A step of one worker, with what the coordinator does in answer.
LEMMA OneWorkerKept ==
  ASSUME WorkInv, Running \/ UNCHANGED vars, NEW u \in UUID, NEW w \in Worker,
         worker' = [worker EXCEPT ![u] = w],
         worker[u].pc # "new" => w.pc # "new" /\ w.res = worker[u].res,
         data' \in [Resource -> 0..MaxVersion],
         \A r \in Resource : data'[r] # data[r] => fence[r].owner = u,
         Works(u)'
  PROVE  WorkInv'
<1>1. [Next]_vars
  BY DEF Running, Next, vars
<1>2. FenceTypes' /\ FenceMoves
  BY <1>1, CoordinatorStep
<1>3. worker' \in [UUID -> Worker] /\ worker'[u] = w /\ \A v \in UUID \ {u} : worker'[v] = worker[v]
  BY DEF WorkInv, WorkTypes
<1>4. ASSUME NEW v \in UUID \ {u} PROVE Works(v)'
  <2>1. worker[v].token > 0 /\ FenceMatches(v) => data'[worker[v].res] = data[worker[v].res]
    BY DEF FenceMatches, WorkInv, Works
  <2> QED
    BY <1>2, <1>3, <2>1, BystanderWorks DEF WorkInv
<1>5. WorkTypes' /\ CallersStay
  BY <1>3 DEF WorkTypes, CallersStay
<1> QED
  BY <1>4, <1>5, WorkKept

\* A worker stops working, because its call failed, its transaction was
\* refused, or it returns or vanishes: it keeps what it has.
LEMMA StopKept ==
  ASSUME WorkInv, Running \/ UNCHANGED vars, UNCHANGED <<fence, data>>,
         NEW u \in UUID, NEW l \in {"ending", "gone"},
         l = "ending" => worker[u].pc \in {"calling", "read"},
         worker' = [worker EXCEPT ![u].pc = l]
  PROVE  WorkInv'
<1>1. worker \in [UUID -> Worker] /\ worker[u] \in Worker /\ Works(u)
  BY DEF WorkInv, WorkTypes
<1>2. PICK w : w = [worker[u] EXCEPT !.pc = l]
  OBVIOUS
<1>3. w \in Worker
  BY <1>1, <1>2 DEF Worker
<1>4. /\ w.pc = l /\ w.res = worker[u].res /\ w.sent = worker[u].sent
      /\ w.token = worker[u].token /\ w.seen = worker[u].seen
  BY <1>1, <1>2 DEF Worker
<1>5. worker' = [worker EXCEPT ![u] = w] /\ worker'[u] = w
  BY <1>1, <1>2
<1>6. Works(u)'
  BY <1>1, <1>4, <1>5 DEF Works, FenceMatches
<1> QED
  BY <1>3, <1>4, <1>5, <1>6, OneWorkerKept DEF WorkInv, WorkTypes

\* It calls ...
LEMMA CallKept ==
  ASSUME WorkInv, NEW u \in UUID, NEW r \in Resource, Call(u, r)
  PROVE  WorkInv'
<1>1. worker \in [UUID -> Worker] /\ worker[u] \in Worker /\ Works(u)
  BY DEF WorkInv, WorkTypes
<1>2. PICK w : w = [worker[u] EXCEPT !.pc = "calling", !.res = r, !.sent = TRUE]
  OBVIOUS
<1>3. w \in Worker
  BY <1>1, <1>2 DEF Worker
<1>4. w.pc = "calling" /\ w.res = r /\ w.token = worker[u].token /\ w.seen = worker[u].seen
  BY <1>1, <1>2 DEF Worker
<1>5. worker' = [worker EXCEPT ![u] = w] /\ worker'[u] = w
  BY <1>1, <1>2 DEF Call
<1>6. worker[u].pc = "new" /\ UNCHANGED vars /\ UNCHANGED data
  BY DEF Call
<1>7. Works(u)'
  BY <1>1, <1>4, <1>5, <1>6 DEF Works
<1> QED
  BY <1>3, <1>4, <1>5, <1>6, <1>7, OneWorkerKept DEF WorkInv, WorkTypes

\* ... it is given the token its handler allocated ...
LEMMA GrantedKept ==
  ASSUME WorkInv, NEW h \in Handler, Granted(h)
  PROVE  WorkInv'
<1>1. handler[h].pc = "recording" /\ Serves(h) /\ recordGrant(h) /\ UNCHANGED data
  BY DEF Granted, WorkInv
<1>2. handler[h].obj \in Obj /\ handler[h].obj <= next /\ handler[h].res \in Resource
  BY <1>1, BoundsAssumption DEF WorkInv, CoordInv, Request, Types, Obj
<1>3. PICK u \in UUID : u = txn[handler[h].obj].external
  BY <1>2 DEF WorkInv, CoordInv, Named
<1>4. PICK r \in Resource : r = handler[h].res
  BY <1>2
<1>5. PICK t \in 0..MaxToken : t = handler[h].token
  BY DEF WorkInv, CoordInv, Types, HandlerState
<1>6. /\ worker[u].pc = "calling" /\ worker[u].res = r
      /\ t > 0 /\ t <= fence[r].token
  BY <1>1, <1>3, <1>4, <1>5 DEF Granted, Serves
<1>7. worker \in [UUID -> Worker] /\ worker[u] \in Worker /\ Works(u)
  BY DEF WorkInv, WorkTypes
<1>8. PICK w : w = [worker[u] EXCEPT !.pc = "granted", !.token = t]
  OBVIOUS
<1>9. w \in Worker
  BY <1>7, <1>8 DEF Worker
<1>10. w.pc = "granted" /\ w.res = r /\ w.token = t /\ w.seen = worker[u].seen
  BY <1>6, <1>7, <1>8 DEF Worker
<1>11. worker' = [worker EXCEPT ![u] = w] /\ worker'[u] = w
  BY <1>3, <1>5, <1>7, <1>8 DEF Granted
<1>12. Running /\ UNCHANGED fence
  BY <1>1 DEF Running, Acquire, recordGrant
<1>13. worker[u].seen = -1 /\ t # 0
  BY <1>5, <1>6, <1>7, BoundsAssumption DEF Works
<1>14. Works(u)'
  BY <1>6, <1>10, <1>11, <1>12, <1>13 DEF Works
<1> QED
  BY <1>1, <1>6, <1>9, <1>10, <1>11, <1>12, <1>14, OneWorkerKept DEF WorkInv, WorkTypes

\* ... it reads what is current ...
LEMMA ReadKept ==
  ASSUME WorkInv, NEW u \in UUID, Read(u)
  PROVE  WorkInv'
<1>1. worker \in [UUID -> Worker] /\ worker[u] \in Worker /\ Works(u)
  BY DEF WorkInv, WorkTypes
<1>2. worker[u].pc = "granted" /\ UNCHANGED vars /\ UNCHANGED data /\ UNCHANGED fence
  BY DEF Read, vars
<1>3. PICK r \in Resource : r = worker[u].res
  BY <1>1, <1>2 DEF Works
<1>4. PICK d \in 0..MaxVersion : d = data[r]
  BY DEF WorkInv, WorkTypes
<1>5. PICK w : w = [worker[u] EXCEPT !.pc = "read", !.seen = d]
  OBVIOUS
<1>6. d \in -1..MaxVersion /\ d # -1
  BY VersionAssumption
<1>7. w \in Worker
  BY <1>1, <1>5, <1>6 DEF Worker
<1>8. w.pc = "read" /\ w.res = r /\ w.token = worker[u].token /\ w.seen = d
  BY <1>1, <1>3, <1>5 DEF Worker
<1>9. worker' = [worker EXCEPT ![u] = w] /\ worker'[u] = w
  BY <1>1, <1>3, <1>4, <1>5 DEF Read
<1>10. worker[u].token > 0 /\ worker[u].token # 0 /\ worker[u].token <= fence[r].token
  <2>1. worker[u].token \in Nat
    BY <1>1, BoundsAssumption DEF Worker
  <2> QED
    BY <1>1, <1>2, <1>3, <2>1 DEF Works
<1>11. Works(u)'
  BY <1>2, <1>4, <1>6, <1>8, <1>9, <1>10 DEF Works
<1> QED
  BY <1>2, <1>3, <1>7, <1>8, <1>9, <1>11, OneWorkerKept DEF WorkInv, WorkTypes

\* ... and it commits while its token is live: only the live owner of a fence
\* writes what the fence guards.
LEMMA CommitKept ==
  ASSUME WorkInv, NEW u \in UUID, CommitTransaction(u)
  PROVE  WorkInv'
<1>1. worker \in [UUID -> Worker] /\ worker[u] \in Worker /\ Works(u)
  BY DEF WorkInv, WorkTypes
<1>2. worker[u].pc = "read" /\ UNCHANGED vars /\ UNCHANGED fence /\ worker[u].seen < MaxVersion
  BY DEF CommitTransaction, vars
<1>3. PICK r \in Resource : r = worker[u].res
  BY <1>1, <1>2 DEF Works
<1>4. fence[r].owner = u
  BY <1>3 DEF CommitTransaction, FenceMatches
<1>5. PICK w : w = [worker[u] EXCEPT !.pc = "ending", !.seen = -1]
  OBVIOUS
<1>6. w \in Worker
  <2>1. -1 \in -1..MaxVersion
    BY VersionAssumption
  <2> QED
    BY <1>1, <1>5, <2>1 DEF Worker
<1>7. w.pc = "ending" /\ w.res = r /\ w.token = worker[u].token /\ w.seen = -1
  BY <1>1, <1>3, <1>5 DEF Worker
<1>8. worker' = [worker EXCEPT ![u] = w] /\ worker'[u] = w
  BY <1>1, <1>5 DEF CommitTransaction
<1>9. PICK d : d = worker[u].seen + 1
  OBVIOUS
<1>10. d \in 0..MaxVersion
  BY <1>1, <1>2, <1>9, VersionAssumption DEF Worker
<1>11. data' = [data EXCEPT ![r] = d] /\ data \in [Resource -> 0..MaxVersion]
  BY <1>3, <1>9 DEF CommitTransaction, WorkInv, WorkTypes
<1>12. /\ data' \in [Resource -> 0..MaxVersion]
       /\ \A q \in Resource : data'[q] # data[q] => fence[q].owner = u
  BY <1>4, <1>10, <1>11
<1>13. Works(u)'
  BY <1>1, <1>2, <1>3, <1>7, <1>8 DEF Works
<1> QED
  BY <1>2, <1>3, <1>6, <1>7, <1>8, <1>12, <1>13, OneWorkerKept

\* A request arrives: the handler that takes it up serves its sender, whose
\* name the registry gives to the transaction.
LEMMA DeliverKept ==
  ASSUME WorkInv, NEW u \in UUID, NEW h \in Handler, Deliver(u, h)
  PROVE  WorkInv'
<1>1. worker \in [UUID -> Worker] /\ worker[u] \in Worker /\ Works(u)
  BY DEF WorkInv, WorkTypes
<1>2. PICK r \in Resource : r = worker[u].res
  BY <1>1 DEF Deliver, Works
<1>3. ensure(h, u, r, "X") /\ worker[u].pc # "new" /\ UNCHANGED <<fence, data>>
  BY <1>1, <1>2 DEF Deliver, Works, ensure
<1>4. CoordInv' /\ FenceTypes' /\ FenceMoves /\ NamesStay
  <2>1. "X" \in Mode
    BY DEF Mode, LT!Mode
  <2>2. Next
    BY <1>3, <2>1 DEF Next
  <2> QED
    BY <2>2, CoordinatorStep
<1>5. PICK w : w = [worker[u] EXCEPT !.sent = FALSE]
  OBVIOUS
<1>6. w \in Worker
  BY <1>1, <1>5 DEF Worker
<1>7. /\ w.pc = worker[u].pc /\ w.res = worker[u].res /\ ~w.sent
      /\ w.token = worker[u].token /\ w.seen = worker[u].seen
  BY <1>1, <1>5 DEF Worker
<1>8. /\ worker' \in [UUID -> Worker] /\ worker'[u] = w
      /\ \A v \in UUID \ {u} : worker'[v] = worker[v]
  BY <1>1, <1>5, <1>6 DEF Deliver
<1>9. WorkTypes' /\ CallersStay
  BY <1>3, <1>7, <1>8 DEF WorkTypes, CallersStay, WorkInv
<1>10. ASSUME NEW v \in UUID PROVE Works(v)'
  <2>1. CASE v = u
    BY <1>1, <1>3, <1>7, <1>8, <2>1 DEF Works, FenceMatches
  <2>2. CASE v # u
    BY <1>3, <1>4, <1>8, <2>2, BystanderWorks DEF WorkInv
  <2> QED
    BY <2>1, <2>2
<1>11. ASSUME NEW k \in Handler PROVE Serves(k)'
  <2>1. PICK e : e = [IdleHandler EXCEPT !.pc = "ensured", !.obj = byID'[u], !.res = r, !.mode = "X"]
    OBVIOUS
  <2>2. e.pc = "ensured" /\ e.obj = byID'[u] /\ e.res = r /\ e.mode = "X"
    BY <2>1 DEF IdleHandler
  <2>3. handler \in [Handler -> HandlerState] /\ handler' = [handler EXCEPT ![h] = e]
    BY <1>3, <2>1 DEF ensure, WorkInv, CoordInv, Types
  <2>4. CASE k = h
    <3>1. byID'[u] # 0
      BY <1>3, BoundsAssumption DEF ensure, WorkInv, CoordInv, Types
    <3>2. txn'[byID'[u]].external = u
      BY <1>4, <3>1 DEF CoordInv, Registered
    <3> QED
      BY <1>2, <1>3, <1>7, <1>8, <2>2, <2>3, <2>4, <3>2 DEF Serves
  <2>5. CASE k # h
    <3>1. handler'[k] = handler[k]
      BY <2>3, <2>5
    <3>2. CarriesOn(k)
      BY <3>1 DEF CarriesOn, SameRequest
    <3> QED
      BY <1>4, <1>9, <3>2, ServesKept
  <2> QED
    BY <2>4, <2>5
<1> QED
  BY <1>4, <1>9, <1>10, <1>11 DEF WorkInv

\* The coordinator restarts and forgets every lock: the fences, and with them
\* what the workers may rely on, are as before.
LEMMA RestartKept ==
  ASSUME WorkInv, Restart, UNCHANGED workerVars
  PROVE  WorkInv'
<1>1. MemoryInit'
  BY DEF Restart, MemoryInit, LT!Init
<1>2. CoordInv'
  BY <1>1, CoordInit, PTL
<1>3. UNCHANGED <<worker, data, fence>> /\ \A h \in Handler : handler'[h].pc = "idle"
  BY DEF Restart, workerVars, IdleHandler
<1>4. FenceTypes' /\ WorkTypes'
  BY <1>3 DEF WorkInv, FenceTypes, WorkTypes
<1>5. \A u \in UUID : Works(u)'
  BY <1>3 DEF WorkInv, Works, FenceMatches
<1> QED
  BY <1>2, <1>3, <1>4, <1>5 DEF WorkInv, Serves

\* Every step of workers and coordinator keeps the invariant.
LEMMA WorkStep ==
  ASSUME WorkInv, [WorkersNext]_allVars
  PROVE  WorkInv'
<1>1. CASE UNCHANGED allVars
  <2>1. UNCHANGED vars /\ UNCHANGED workerVars
    BY <1>1 DEF allVars, workerVars
  <2> QED
    BY <2>1, UnheardKept
<1>2. ASSUME NEW u \in UUID, NEW r \in Resource, Call(u, r) PROVE WorkInv'
  BY <1>2, CallKept
<1>3. ASSUME NEW u \in UUID, NEW h \in Handler, Deliver(u, h) PROVE WorkInv'
  BY <1>3, DeliverKept
<1>4. ASSUME NEW u \in UUID, CallFails(u) PROVE WorkInv'
  <2>1. UNCHANGED vars /\ UNCHANGED <<fence, data>>
    BY <1>4 DEF CallFails, vars
  <2> QED
    BY <1>4, <2>1, StopKept DEF CallFails
<1>5. ASSUME NEW u \in UUID, Heartbeat(u) PROVE WorkInv'
  BY <1>5, UnheardKept DEF Heartbeat, Running
<1>6. ASSUME NEW u \in UUID, Read(u) \/ CommitTransaction(u) PROVE WorkInv'
  BY <1>6, ReadKept, CommitKept
<1>7. ASSUME NEW u \in UUID, AbortTransaction(u) \/ Vanish(u) PROVE WorkInv'
  <2>1. UNCHANGED vars /\ UNCHANGED <<fence, data>>
    BY <1>7 DEF AbortTransaction, Vanish, vars
  <2> QED
    BY <1>7, <2>1, StopKept DEF AbortTransaction, Vanish
<1>8. ASSUME NEW u \in UUID, ReleaseAll(u) PROVE WorkInv'
  <2>1. Running /\ UNCHANGED <<fence, data>>
    BY <1>8 DEF ReleaseAll, Running, EndTransaction
  <2> QED
    BY <1>8, <2>1, StopKept DEF ReleaseAll
<1>9. ASSUME NEW h \in Handler, Granted(h) PROVE WorkInv'
  BY <1>9, GrantedKept
<1>10. ASSUME Restart, UNCHANGED workerVars PROVE WorkInv'
  BY <1>10, RestartKept
<1>11. ASSUME Running, UNCHANGED workerVars PROVE WorkInv'
  BY <1>11, UnheardKept
<1>12. ASSUME WorkersNext
       PROVE  \/ \E u \in UUID, r \in Resource : Call(u, r)
              \/ \E u \in UUID, h \in Handler : Deliver(u, h)
              \/ \E u \in UUID :
                   \/ CallFails(u) \/ Heartbeat(u) \/ (Read(u) \/ CommitTransaction(u))
                   \/ (AbortTransaction(u) \/ Vanish(u)) \/ ReleaseAll(u)
              \/ \E h \in Handler : Granted(h)
              \/ Restart /\ UNCHANGED workerVars
              \/ Running /\ UNCHANGED workerVars
  BY <1>12 DEF WorkersNext, Unheard, Running
<1> QED
  BY <1>1, <1>2, <1>3, <1>4, <1>5, <1>6, <1>7, <1>8, <1>9, <1>10, <1>11, <1>12

\* Whatever leases expire, messages are lost and processes restart: a worker's
\* token was allocated, and what it has read under a live one is current.
THEOREM WorkInvariant == WorkersSpec => []WorkInv
<1>1. WorkInv /\ [WorkersNext]_allVars => WorkInv'
  BY WorkStep
<1> QED
  BY <1>1, WorkInit, PTL DEF WorkersSpec
------------------------------------------------------------------------------
\* The refinement mapping: the token and the version of the one resource a
\* worker works on.
Grant == [u \in UUID |-> [r \in Resource |->
            IF r = worker[u].res THEN worker[u].token ELSE 0]]
Seen == [u \in UUID |-> [r \in Resource |->
           IF r = worker[u].res THEN worker[u].seen ELSE -1]]

\* A worker that keeps its token and what it has read, or has neither, maps to
\* the same.
SameView(u) ==
  /\ worker'[u].token = worker[u].token /\ worker'[u].seen = worker[u].seen
  /\ worker'[u].res = worker[u].res \/ (worker[u].token = 0 /\ worker[u].seen = -1)

\* Then no step shows through the refinement mapping.
LEMMA ViewsStay ==
  ASSUME \A u \in UUID : SameView(u)
  PROVE  Grant' = Grant /\ Seen' = Seen
<1>1. ASSUME NEW u \in UUID, NEW r \in Resource
      PROVE  /\ (IF r = worker[u].res THEN worker[u].token ELSE 0)'
                  = IF r = worker[u].res THEN worker[u].token ELSE 0
             /\ (IF r = worker[u].res THEN worker[u].seen ELSE -1)'
                  = IF r = worker[u].res THEN worker[u].seen ELSE -1
  BY DEF SameView
<1> QED
  BY <1>1 DEF Grant, Seen

\* A step that maps to a stutter: no fence, no data and no view changes.
LEMMA Stutters ==
  ASSUME UNCHANGED <<fence, data>>, \A u \in UUID : SameView(u)
  PROVE  UNCHANGED FS!vars
<1>1. Grant' = Grant /\ Seen' = Seen
  BY ViewsStay
<1> QED
  BY <1>1 DEF Grant, Seen, FS!vars

\* What the coordinator does to the fences is allocating and invalidating.
LEMMA CoordinatorMaps ==
  ASSUME WorkInv, [Next]_vars, UNCHANGED workerVars
  PROVE  [FS!Next]_(FS!vars)
<1>1. UNCHANGED <<worker, data>>
  BY DEF workerVars
<1>2. Grant' = Grant /\ Seen' = Seen
  BY <1>1 DEF Grant, Seen
<1>3. CASE UNCHANGED fence
  BY <1>1, <1>2, <1>3 DEF Grant, Seen, FS!vars
<1>4. ASSUME NEW u \in UUID, NEW r \in Resource, fence[r].token < MaxToken,
             fence' = [fence EXCEPT ![r] = [token |-> fence[r].token + 1, owner |-> u]]
      PROVE  FS!Next
  <2>1. FS!Allocate(u, r)
    BY <1>1, <1>2, <1>4 DEF Grant, Seen, FS!Allocate
  <2> QED
    BY <2>1 DEF FS!Next
<1>5. ASSUME NEW u \in UUID, NEW r \in Resource, fence[r].owner = u,
             fence' = [fence EXCEPT ![r].owner = None]
      PROVE  FS!Next
  <2>1. FS!Invalidate(u, r)
    BY <1>1, <1>2, <1>5 DEF Grant, Seen, FS!Invalidate
  <2> QED
    BY <2>1 DEF FS!Next
<1> QED
  BY <1>3, <1>4, <1>5, FenceSteps DEF WorkInv

\* A grant that arrives is a token delivered ...
LEMMA GrantedMaps ==
  ASSUME WorkInv, NEW h \in Handler, Granted(h)
  PROVE  FS!Next
<1>1. handler[h].pc = "recording" /\ Serves(h) /\ UNCHANGED <<fence, data>>
  BY DEF Granted, recordGrant, WorkInv
<1>2. handler[h].obj \in Obj /\ handler[h].obj <= next /\ handler[h].res \in Resource
  BY <1>1, BoundsAssumption DEF WorkInv, CoordInv, Request, Types, Obj
<1>3. PICK u \in UUID : u = txn[handler[h].obj].external
  BY <1>2 DEF WorkInv, CoordInv, Named
<1>4. PICK r \in Resource : r = handler[h].res
  BY <1>2
<1>5. PICK t \in 0..MaxToken : t = handler[h].token
  BY DEF WorkInv, CoordInv, Types, HandlerState
<1>6. /\ worker[u].pc = "calling" /\ worker[u].res = r
      /\ t > 0 /\ t <= fence[r].token
  BY <1>1, <1>3, <1>4, <1>5 DEF Granted, Serves
<1>7. t \in 1..fence[r].token
  BY <1>6, BoundsAssumption DEF WorkInv, FenceTypes
<1>8. worker \in [UUID -> Worker] /\ worker[u].token = 0
  BY <1>6 DEF WorkInv, WorkTypes, Works
<1>9. /\ worker'[u].token = t /\ worker'[u].res = r /\ worker'[u].seen = worker[u].seen
      /\ \A v \in UUID \ {u} : worker'[v] = worker[v]
  BY <1>3, <1>5, <1>6, <1>8 DEF Granted, Worker
<1>10. Grant[u][r] = 0 /\ Grant' = [Grant EXCEPT ![u][r] = t]
  <2>1. /\ DOMAIN Grant = UUID /\ DOMAIN Grant[u] = Resource /\ Grant[u][r] = 0
        /\ Grant = [v \in UUID |-> Grant[v]] /\ Grant' = [v \in UUID |-> Grant'[v]]
    BY <1>6, <1>8 DEF Grant
  <2>2. Grant'[u] = [Grant[u] EXCEPT ![r] = t]
    <3>1. Grant'[u] = [q \in Resource |-> IF q = r THEN t ELSE 0]
      BY <1>9 DEF Grant
    <3>2. Grant[u] = [q \in Resource |-> 0]
      BY <1>6, <1>8 DEF Grant
    <3> QED
      BY <3>1, <3>2
  <2>3. \A v \in UUID \ {u} : Grant'[v] = Grant[v]
    BY <1>9 DEF Grant
  <2> QED
    BY <2>1, <2>2, <2>3
<1>11. Seen' = Seen
  BY <1>6, <1>9 DEF Seen
<1>12. FS!Deliver(u, r)
  BY <1>1, <1>7, <1>10, <1>11 DEF FS!Deliver, Grant, Seen
<1> QED
  BY <1>12 DEF FS!Next

\* ... a read is a read ...
LEMMA ReadMaps ==
  ASSUME WorkInv, NEW u \in UUID, Read(u)
  PROVE  FS!Next
<1>1. worker \in [UUID -> Worker] /\ worker[u].pc = "granted" /\ UNCHANGED <<fence, data>>
  BY DEF Read, vars, WorkInv, WorkTypes
<1>2. PICK r \in Resource : r = worker[u].res
  BY <1>1 DEF WorkInv, Works
<1>3. worker[u].token > 0
  BY <1>1 DEF WorkInv, Works
<1>4. /\ worker'[u].token = worker[u].token /\ worker'[u].res = r /\ worker'[u].seen = data[r]
      /\ \A v \in UUID \ {u} : worker'[v] = worker[v]
  BY <1>1, <1>2 DEF Read, Worker
<1>5. Grant[u][r] > 0 /\ Grant' = Grant
  BY <1>2, <1>3, <1>4 DEF Grant
<1>6. Seen' = [Seen EXCEPT ![u][r] = data[r]]
  <2>1. /\ DOMAIN Seen = UUID /\ DOMAIN Seen[u] = Resource
        /\ Seen = [v \in UUID |-> Seen[v]] /\ Seen' = [v \in UUID |-> Seen'[v]]
    BY DEF Seen
  <2>2. Seen'[u] = [Seen[u] EXCEPT ![r] = data[r]]
    <3>1. Seen'[u] = [q \in Resource |-> IF q = r THEN data[r] ELSE -1]
      BY <1>4 DEF Seen
    <3>2. Seen[u] = [q \in Resource |-> IF q = r THEN worker[u].seen ELSE -1]
      BY <1>2 DEF Seen
    <3> QED
      BY <3>1, <3>2
  <2>3. \A v \in UUID \ {u} : Seen'[v] = Seen[v]
    BY <1>4 DEF Seen
  <2> QED
    BY <2>1, <2>2, <2>3
<1>7. FS!Read(u, r)
  BY <1>1, <1>5, <1>6 DEF FS!Read, Grant, Seen
<1> QED
  BY <1>7 DEF FS!Next

\* ... and a commit is one of the resource the worker has locked, on top of
\* the version it has read.
LEMMA CommitMaps ==
  ASSUME WorkInv, NEW u \in UUID, CommitTransaction(u)
  PROVE  FS!Next
<1>1. /\ worker \in [UUID -> Worker] /\ worker[u].pc = "read" /\ UNCHANGED fence
      /\ Works(u) /\ FenceMatches(u) /\ worker[u].seen < MaxVersion
  BY DEF CommitTransaction, vars, WorkInv, WorkTypes
<1>2. PICK r \in Resource : r = worker[u].res
  BY <1>1 DEF Works
<1>3. worker[u].token > 0 /\ worker[u].seen # -1 /\ worker[u].seen = data[r]
  BY <1>1, <1>2 DEF Works
<1>4. fence[r].token = worker[u].token /\ fence[r].owner = u
  BY <1>1, <1>2 DEF FenceMatches
<1>5. /\ worker'[u].token = worker[u].token /\ worker'[u].res = r /\ worker'[u].seen = -1
      /\ \A v \in UUID \ {u} : worker'[v] = worker[v]
  BY <1>1, <1>2 DEF CommitTransaction, Worker
<1>6. data' = [q \in Resource |-> IF q \in {r} THEN data[q] + 1 ELSE data[q]]
  BY <1>2, <1>3 DEF CommitTransaction, WorkInv, WorkTypes
<1>7. Grant[u][r] = worker[u].token /\ Seen[u][r] = worker[u].seen
  BY <1>2 DEF Grant, Seen
<1>8. Grant' = Grant
  BY <1>2, <1>5 DEF Grant
<1>9. Seen' = [Seen EXCEPT ![u] = [q \in Resource |-> -1]]
  BY <1>2, <1>5 DEF Seen
<1>10. \A q \in {r} : FS!Live(u, q) /\ Seen[u][q] # FS!Unread /\ data[q] < MaxVersion
  BY <1>1, <1>3, <1>4, <1>7 DEF FS!Live, FS!Unread, Grant
<1>11. FS!Commit(u, {r})
  BY <1>1, <1>6, <1>8, <1>9, <1>10 DEF FS!Commit, FS!Unread, Grant, Seen
<1> QED
  BY <1>11 DEF FS!Next

\* Calling, having the call arrive, and stopping change no view.
LEMMA OthersStutter ==
  ASSUME WorkInv, NEW u \in UUID,
         \/ \E r \in Resource : Call(u, r)
         \/ \E h \in Handler : Deliver(u, h)
         \/ CallFails(u) \/ AbortTransaction(u) \/ ReleaseAll(u) \/ Vanish(u)
  PROVE  UNCHANGED FS!vars
<1>1. worker \in [UUID -> Worker] /\ worker[u] \in Worker /\ Works(u)
  BY DEF WorkInv, WorkTypes
<1>2. ASSUME NEW w, worker' = [worker EXCEPT ![u] = w],
             w.token = worker[u].token, w.seen = worker[u].seen,
             w.res = worker[u].res \/ (worker[u].token = 0 /\ worker[u].seen = -1),
             UNCHANGED <<fence, data>>
      PROVE  UNCHANGED FS!vars
  <2>1. worker'[u] = w /\ \A v \in UUID \ {u} : worker'[v] = worker[v]
    BY <1>1, <1>2
  <2>2. \A v \in UUID : SameView(v)
    BY <1>2, <2>1 DEF SameView
  <2> QED
    BY <1>2, <2>2, Stutters
<1>3. ASSUME NEW r \in Resource, Call(u, r) PROVE UNCHANGED FS!vars
  <2>1. worker[u].token = 0 /\ worker[u].seen = -1 /\ UNCHANGED <<fence, data>>
    BY <1>1, <1>3 DEF Call, vars, Works
  <2>2. PICK w : w = [worker[u] EXCEPT !.pc = "calling", !.res = r, !.sent = TRUE]
    OBVIOUS
  <2>3. w.token = worker[u].token /\ w.seen = worker[u].seen
    BY <1>1, <2>2 DEF Worker
  <2>4. worker' = [worker EXCEPT ![u] = w]
    BY <1>1, <1>3, <2>2 DEF Call
  <2> QED
    BY <1>2, <2>1, <2>3, <2>4
<1>4. ASSUME NEW h \in Handler, Deliver(u, h) PROVE UNCHANGED FS!vars
  <2>1. UNCHANGED <<fence, data>>
    BY <1>4 DEF Deliver, ensure
  <2>2. PICK w : w = [worker[u] EXCEPT !.sent = FALSE]
    OBVIOUS
  <2>3. w.token = worker[u].token /\ w.seen = worker[u].seen /\ w.res = worker[u].res
    BY <1>1, <2>2 DEF Worker
  <2>4. worker' = [worker EXCEPT ![u] = w]
    BY <1>1, <1>4, <2>2 DEF Deliver
  <2> QED
    BY <1>2, <2>1, <2>3, <2>4
<1>5. CASE CallFails(u) \/ AbortTransaction(u) \/ ReleaseAll(u) \/ Vanish(u)
  <2>1. UNCHANGED <<fence, data>>
    BY <1>5 DEF CallFails, AbortTransaction, ReleaseAll, EndTransaction, Vanish, vars
  <2>2. PICK l : worker' = [worker EXCEPT ![u].pc = l]
    BY <1>5 DEF CallFails, AbortTransaction, ReleaseAll, Vanish
  <2>3. PICK w : w = [worker[u] EXCEPT !.pc = l]
    OBVIOUS
  <2>4. w.token = worker[u].token /\ w.seen = worker[u].seen /\ w.res = worker[u].res
    BY <1>1, <2>3 DEF Worker
  <2>5. worker' = [worker EXCEPT ![u] = w]
    BY <1>1, <2>2, <2>3
  <2> QED
    BY <1>2, <2>1, <2>4, <2>5
<1> QED
  BY <1>3, <1>4, <1>5

\* So every step is a step of the fenced store, or none.
LEMMA StepMaps ==
  ASSUME WorkInv, [WorkersNext]_allVars
  PROVE  [FS!Next]_(FS!vars)
<1>1. ASSUME UNCHANGED allVars PROVE UNCHANGED FS!vars
  <2>1. UNCHANGED vars /\ UNCHANGED workerVars
    BY <1>1 DEF allVars, workerVars
  <2>2. UNCHANGED <<fence, data>> /\ UNCHANGED worker
    BY <2>1 DEF vars, workerVars
  <2> QED
    BY <2>2, Stutters DEF SameView
<1>2. ASSUME NEW u \in UUID, Heartbeat(u) PROVE [FS!Next]_(FS!vars)
  <2>1. Next /\ UNCHANGED workerVars
    BY <1>2 DEF Heartbeat, Next
  <2> QED
    BY <2>1, CoordinatorMaps
<1>3. ASSUME Restart, UNCHANGED workerVars PROVE UNCHANGED FS!vars
  <2>1. UNCHANGED <<fence, data>> /\ UNCHANGED worker
    BY <1>3 DEF Restart, workerVars
  <2> QED
    BY <2>1, Stutters DEF SameView
<1>4. ASSUME Running, UNCHANGED workerVars PROVE [FS!Next]_(FS!vars)
  <2>1. Next
    BY <1>4 DEF Running, Next
  <2> QED
    BY <1>4, <2>1, CoordinatorMaps
<1>5. ASSUME WorkersNext
      PROVE  \/ \E u \in UUID :
                  \/ \E r \in Resource : Call(u, r)
                  \/ \E h \in Handler : Deliver(u, h)
                  \/ CallFails(u) \/ AbortTransaction(u) \/ ReleaseAll(u) \/ Vanish(u)
             \/ \E u \in UUID : Heartbeat(u) \/ Read(u) \/ CommitTransaction(u)
             \/ \E h \in Handler : Granted(h)
             \/ Restart /\ UNCHANGED workerVars
             \/ Running /\ UNCHANGED workerVars
  BY <1>5 DEF WorkersNext, Unheard, Running
<1> QED
  BY <1>1, <1>2, <1>3, <1>4, <1>5, OthersStutter, GrantedMaps, ReadMaps, CommitMaps

\* Workers and coordinator implement the fenced store, with any number of
\* workers, resources, handlers and restarts: every update is made on top of
\* the version it read, under a token that was live when it was written.
THEOREM WorkersRefineFencedStore == WorkersSpec => WorkersImplementFencedStore
<1>1. WorkersInit => FS!Init
  <2> SUFFICES ASSUME WorkersInit PROVE FS!Init
    OBVIOUS
  <2>1. \A u \in UUID : worker[u].token = 0 /\ worker[u].seen = -1
    BY DEF WorkersInit, NewWorker
  <2>2. /\ Grant = [u \in UUID |-> [r \in Resource |-> 0]]
        /\ Seen = [u \in UUID |-> [r \in Resource |-> -1]]
    BY <2>1 DEF Grant, Seen
  <2> QED
    BY <2>2 DEF WorkersInit, Init, FS!Init, FS!Unread, Grant, Seen
<1>2. WorkInv /\ [WorkersNext]_allVars => [FS!Next]_(FS!vars)
  BY StepMaps
<1> QED
  BY <1>1, <1>2, WorkInvariant, PTL DEF WorkersSpec, WorkersImplementFencedStore, FS!Spec
==============================================================================
