----------------------- MODULE CoordinatorProcessProofs -----------------------
(****************************************************************************)
(* Proofs about CoordinatorProcess: a process that starts, serves, drains   *)
(* and stops is the coordinator of Coordinator.tla all the while, so that   *)
(* what CoordinatorProofs shows holds of it; and it closes the fence store  *)
(* after its last user.                                                     *)
(****************************************************************************)
EXTENDS CoordinatorProcess, CoordinatorProofs

\* Who is tearing o down: an EndTransaction handler, the sweeper or a retry
\* goroutine.  Nobody else does, and none leaves o in the middle.
Working(o) == teardown[o].pc \in {"begun", "invalidating"}
Attended(o) ==
  Working(o) => txn[o].state = "ending" \/ sweeper.cur = o \/ o \in retrying

\* The inductive invariant.  That the store's users are gone when it is closed
\* rests on who does a teardown, and on the order in which Stop waits for them:
\* the calls first, then the sweeper and the retries.
ProcessInv ==
  /\ sweeper \in Sweeper
  /\ sweeper.pc = "idle" => sweeper = IdleSweeper
  /\ ~sweeping => sweeper.pc = "idle"
  /\ \A o \in Obj : Attended(o)
  /\ phase \in {"stopping", "closed"} => ~CallsInFlight
  /\ phase = "closed" => ~sweeping /\ retrying = {}

\* Every step of the process is a step of the coordinator or none of its.
LEMMA ProcessStepIsStep ==
  ASSUME ProcessNext PROVE [Next]_vars
<1>1. CASE Start \/ StartFails \/ Signal \/ Drained \/ SweeperStops \/ Stopped \/ Ended
  BY <1>1 DEF Start, StartFails, Signal, Drained, SweeperStops, Stopped, Ended, pvars, vars
<1>2. CASE Call
  BY <1>2 DEF Call, Next
<1>3. ASSUME NEW h \in Handler, HandlerStep(h) PROVE Next
  BY <1>3 DEF HandlerStep, Next
<1>4. ASSUME NEW u \in UUID, Revoke(u) PROVE Next
  BY <1>4 DEF Revoke, Next
<1>5. ASSUME NEW o \in Obj, TeardownStep(o) PROVE Next
  BY <1>5 DEF TeardownStep, Next
<1>6. ASSUME NEW o \in Obj, RetryStops(o) PROVE UNCHANGED vars
  BY <1>6 DEF RetryStops
<1>7. ASSUME NEW o \in Obj, LeasePasses(o) PROVE Next
  BY <1>7 DEF Next
<1>8. ASSUME NEW o \in Obj, NEW r \in Resource, InvalidateStep(o, r) \/ InvalidateFailsStep(o, r)
      PROVE  Next
  BY <1>8 DEF InvalidateStep, InvalidateFailsStep, Next
<1>9. CASE Sweep
  BY <1>9 DEF Sweep, Next
<1> QED
  BY <1>1, <1>2, <1>3, <1>4, <1>5, <1>6, <1>7, <1>8, <1>9 DEF ProcessNext

\* A process in any phase behaves as the coordinator: shutting down adds no
\* step that Coordinator.tla does not have.
THEOREM ProcessImplementsCoordinator == ProcessSpec => Spec
<1>1. ProcessInit => Init
  BY DEF ProcessInit
<1>2. [ProcessNext]_pvars => [Next]_vars
  BY ProcessStepIsStep DEF pvars
<1> QED
  BY <1>1, <1>2, PTL DEF ProcessSpec, Spec

\* A step that begins no teardown, changes no transaction's state and leaves
\* the sweeper and the process alone.
LEMMA CalmKeeps ==
  ASSUME ProcessInv,
         \A o \in Obj : (Working(o)' => Working(o)) /\ txn'[o].state = txn[o].state,
         phase \in {"stopping", "closed"} => \A h \in Handler : handler'[h].pc = "idle",
         UNCHANGED <<sweeper, phase, sweeping, retrying>>
  PROVE  ProcessInv'
<1>1. /\ sweeper' \in Sweeper /\ (sweeper'.pc = "idle" => sweeper' = IdleSweeper)
      /\ ~sweeping' => sweeper'.pc = "idle"
      /\ phase' = "closed" => ~sweeping' /\ retrying' = {}
  BY Zenon DEF ProcessInv
<1>2. \A o \in Obj : Attended(o)'
  BY DEF ProcessInv, Attended
<1>3. ASSUME phase' \in {"stopping", "closed"} PROVE ~CallsInFlight'
  <2>1. \A o \in Obj : ~EndInFlight(o)
    BY <1>3 DEF ProcessInv, CallsInFlight
  <2>2. \A o \in Obj : ~EndInFlight(o)'
    BY <2>1 DEF EndInFlight, Working
  <2> QED
    BY <1>3, <2>2 DEF CallsInFlight
<1> QED
  BY <1>1, <1>2, <1>3 DEF ProcessInv

\* beginTeardown concerns one transaction, and moves no handler.
LEMMA BeginFacts ==
  ASSUME CoordInv, NEW o \in Obj, NEW s \in {"ending", "revoking"}, beginTeardown(o, s)
  PROVE  /\ txn'[o].state = s
         /\ \A p \in Obj \ {o} : txn'[p] = txn[p] /\ teardown'[p] = teardown[p]
         /\ \A h \in Handler : handler'[h].pc = handler[h].pc
<1>1. PICK Left : teardown \in Phases(Left)
  BY Zenon DEF CoordInv, Types, TeardownTyped
<1>2. txn \in [Obj -> Transaction] /\ handler \in [Handler -> HandlerState]
  BY DEF CoordInv, Types
<1>3. /\ txn' = [txn EXCEPT ![o].state = s]
      /\ teardown' = [teardown EXCEPT ![o].pc = "begun"]
      /\ handler' = [h \in Handler |->
           IF handler[h].obj = o /\ handler[h].pc = "queued"
           THEN [handler[h] EXCEPT !.cancelled = TRUE] ELSE handler[h]]
  BY DEF beginTeardown
<1>4. txn'[o].state = s /\ \A p \in Obj \ {o} : txn'[p] = txn[p]
  BY <1>2, <1>3 DEF Transaction
<1>5. \A p \in Obj \ {o} : teardown'[p] = teardown[p]
  BY <1>1, <1>3 DEF Phases
<1>6. ASSUME NEW h \in Handler PROVE handler'[h].pc = handler[h].pc
  BY <1>2, <1>3 DEF HandlerState
<1> QED
  BY <1>4, <1>5, <1>6

\* EndTransaction attends to the teardown it begins.
LEMMA EndKeeps ==
  ASSUME ProcessInv, CoordInv, NEW u \in UUID, EndTransaction(u),
         phase = "serving", UNCHANGED process
  PROVE  ProcessInv'
<1> DEFINE o == byID[u]
<1>1. o \in Obj /\ beginTeardown(o, "ending") /\ UNCHANGED sweeper
  BY DEF EndTransaction, CoordInv, Types
<1>2. UNCHANGED <<phase, sweeping, retrying>>
  BY DEF process
<1>3. /\ txn'[o].state = "ending"
      /\ \A p \in Obj \ {o} : txn'[p] = txn[p] /\ teardown'[p] = teardown[p]
  BY <1>1, BeginFacts
<1> HIDE DEF o
<1>4. ASSUME NEW p \in Obj PROVE Attended(p)'
  BY <1>1, <1>2, <1>3 DEF ProcessInv, Attended, Working
<1>5. /\ sweeper' \in Sweeper /\ (sweeper'.pc = "idle" => sweeper' = IdleSweeper)
      /\ ~sweeping' => sweeper'.pc = "idle"
  BY <1>1, <1>2, Zenon DEF ProcessInv
<1> QED
  BY <1>2, <1>4, <1>5 DEF ProcessInv

\* So does the sweeper, which revokes one transaction after the other.
LEMMA RevokeKeeps ==
  ASSUME ProcessInv, CoordInv, NEW u \in UUID, revoke(u), phase # "closed", UNCHANGED process
  PROVE  ProcessInv'
<1> DEFINE o == byID[u]
<1>1. UNCHANGED <<phase, sweeping, retrying>>
  BY DEF process
<1>2. sweeper \in Sweeper /\ sweeper.pc = "revoking" /\ sweeper.cur = 0
  BY DEF ProcessInv, revoke
<1>3. o \in Obj \cup {0}
  BY DEF CoordInv, Types
<1>4. CASE o # 0 /\ Active(o)
  <2>1. beginTeardown(o, "revoking") /\ sweeper' = [sweeper EXCEPT !.left = @ \ {u}, !.cur = o]
    BY <1>4 DEF revoke
  <2>2. /\ txn'[o].state = "revoking"
        /\ \A p \in Obj \ {o} : txn'[p] = txn[p] /\ teardown'[p] = teardown[p]
        /\ \A h \in Handler : handler'[h].pc = handler[h].pc
    BY <1>3, <1>4, <2>1, BeginFacts
  <2> HIDE DEF o
  <2>3. sweeper' \in Sweeper /\ sweeper'.pc = "revoking" /\ sweeper'.cur = o
    <3>1. PICK s : s = [sweeper EXCEPT !.left = @ \ {u}]
      BY Zenon
    <3>2. s \in Sweeper /\ s.pc = "revoking"
      BY <1>2, <3>1 DEF Sweeper
    <3>3. sweeper' = [s EXCEPT !.cur = o]
      BY <2>1, <3>1
    <3> QED
      BY <1>3, <3>2, <3>3 DEF Sweeper
  <2>4. ASSUME NEW p \in Obj PROVE Attended(p)'
    BY <1>1, <1>2, <2>2, <2>3 DEF ProcessInv, Attended, Working, Obj
  <2>5. ASSUME phase' \in {"stopping", "closed"} PROVE ~CallsInFlight'
    <3>1. ~CallsInFlight
      BY <1>1, <2>5 DEF ProcessInv
    <3>2. ASSUME NEW p \in Obj PROVE ~EndInFlight(p)'
      BY <1>1, <2>2, <3>1, <3>2 DEF CallsInFlight, EndInFlight
    <3> QED
      BY <2>2, <3>1, <3>2 DEF CallsInFlight
  <2>6. ~sweeping' => sweeper'.pc = "idle"
    BY <1>1, <1>2, Zenon DEF ProcessInv
  <2> QED
    BY <1>1, <2>3, <2>4, <2>5, <2>6 DEF ProcessInv
<1>5. CASE ~(o # 0 /\ Active(o))
  <2>1. sweeper' = [sweeper EXCEPT !.left = @ \ {u}] /\ UNCHANGED <<txn, teardown, handler>>
    BY <1>5 DEF revoke
  <2>2. sweeper' \in Sweeper /\ sweeper'.pc = "revoking" /\ sweeper'.cur = sweeper.cur
    BY <1>2, <2>1 DEF Sweeper
  <2>3. ASSUME NEW p \in Obj PROVE Attended(p)'
    BY <1>1, <2>1, <2>2 DEF ProcessInv, Attended, Working
  <2>4. phase' \in {"stopping", "closed"} => ~CallsInFlight'
    BY <1>1, <2>1 DEF ProcessInv, CallsInFlight, EndInFlight
  <2>5. ~sweeping' => sweeper'.pc = "idle"
    BY <1>1, <1>2, Zenon DEF ProcessInv
  <2> QED
    BY <1>1, <2>2, <2>3, <2>4, <2>5 DEF ProcessInv
<1> QED
  BY <1>4, <1>5

\* The sweeper when a teardown of o ends: it goes on if o was its own.
LEMMA SweeperGoesOn ==
  ASSUME ProcessInv, NEW o \in Obj,
         sweeper' = IF sweeper.cur = o THEN [sweeper EXCEPT !.cur = 0] ELSE sweeper
  PROVE  /\ sweeper' \in Sweeper /\ sweeper'.pc = sweeper.pc
         /\ sweeper'.pc = "idle" => sweeper' = IdleSweeper
         /\ \A p \in Obj \ {o} : sweeper.cur = p => sweeper'.cur = p
<1>1. sweeper \in Sweeper /\ (sweeper.pc = "idle" => sweeper = IdleSweeper)
  BY DEF ProcessInv
<1>2. CASE sweeper.cur = o
  <2>1. sweeper.pc # "idle"
    BY <1>1, <1>2 DEF IdleSweeper, Obj
  <2>2. sweeper' = [sweeper EXCEPT !.cur = 0]
    BY <1>2
  <2>3. sweeper' \in Sweeper /\ sweeper'.pc = sweeper.pc
    BY <1>1, <2>2 DEF Sweeper
  <2> QED
    BY <1>2, <2>1, <2>3
<1>3. CASE sweeper.cur # o
  BY <1>1, <1>3
<1> QED
  BY <1>2, <1>3

\* A teardown that ends, well or by leaving o to a retry, leaves nobody in the
\* middle of it, and concerns no other.
LEMMA TeardownEndKeeps ==
  ASSUME ProcessInv, NEW o \in Obj, teardown'[o].pc \in {"none", "retry"},
         \A p \in Obj \ {o} : teardown'[p] = teardown[p] /\ (p \in retrying' <=> p \in retrying),
         \A p \in Obj : txn'[p].state = txn[p].state,
         sweeper' = IF sweeper.cur = o THEN [sweeper EXCEPT !.cur = 0] ELSE sweeper,
         phase # "closed", UNCHANGED <<handler, phase, sweeping>>
  PROVE  ProcessInv'
<1>1. /\ sweeper' \in Sweeper /\ sweeper'.pc = sweeper.pc
      /\ sweeper'.pc = "idle" => sweeper' = IdleSweeper
      /\ \A p \in Obj \ {o} : sweeper.cur = p => sweeper'.cur = p
  BY SweeperGoesOn
<1>2. ASSUME NEW p \in Obj PROVE Attended(p)'
  <2>1. CASE p = o
    BY <2>1 DEF Attended, Working
  <2>2. CASE p # o
    BY <1>1, <2>2 DEF ProcessInv, Attended, Working
  <2> QED
    BY <2>1, <2>2
<1>3. ASSUME phase' \in {"stopping", "closed"} PROVE ~CallsInFlight'
  <2>1. ~CallsInFlight
    BY <1>3 DEF ProcessInv
  <2>2. ASSUME NEW p \in Obj PROVE ~EndInFlight(p)'
    BY <2>1, <2>2 DEF CallsInFlight, EndInFlight
  <2> QED
    BY <2>1, <2>2 DEF CallsInFlight
<1>4. ~sweeping' => sweeper'.pc = "idle"
  BY <1>1, Zenon DEF ProcessInv
<1> QED
  BY <1>1, <1>2, <1>3, <1>4 DEF ProcessInv

\* Each step of a teardown keeps the invariant.
LEMMA TeardownStepKeeps ==
  ASSUME ProcessInv, CoordInv, phase # "closed", NEW o \in Obj,
         TeardownStep(o) \/ \E r \in Resource : InvalidateStep(o, r) \/ InvalidateFailsStep(o, r)
  PROVE  ProcessInv'
<1>0. PICK Left : teardown \in Phases(Left)
  BY Zenon DEF CoordInv, Types, TeardownTyped
<1>1. txn \in [Obj -> Transaction]
  BY DEF CoordInv, Types
<1>2. ASSUME NEW r \in Resource, Invalidate(o, r), UNCHANGED process PROVE ProcessInv'
  <2>1. /\ teardown[o].pc = "invalidating"
        /\ teardown' = [teardown EXCEPT ![o].left = Tail(@)]
        /\ UNCHANGED <<txn, handler, sweeper>>
    BY <1>2 DEF Invalidate
  <2>2. \A p \in Obj : teardown'[p].pc = teardown[p].pc
    BY <1>0, <2>1 DEF Phases
  <2>3. UNCHANGED <<phase, sweeping, retrying>>
    BY <1>2 DEF process
  <2>4. phase \in {"stopping", "closed"} => \A h \in Handler : handler'[h].pc = "idle"
    BY <2>1 DEF ProcessInv, CallsInFlight
  <2> QED
    BY <2>1, <2>2, <2>3, <2>4, CalmKeeps DEF Working
<1>3. CASE TeardownSnapshot(o) /\ UNCHANGED process
  <2>1. /\ teardown[o].pc = "begun"
        /\ \E l : teardown' = [teardown EXCEPT ![o] = [pc |-> "invalidating", left |-> l]]
        /\ UNCHANGED <<txn, handler, sweeper>>
    BY <1>3, Zenon DEF TeardownSnapshot
  <2>2. \A p \in Obj : Working(p)' => Working(p)
    BY <1>0, <2>1 DEF Phases, Working
  <2>3. UNCHANGED <<phase, sweeping, retrying>>
    BY <1>3 DEF process
  <2>4. phase \in {"stopping", "closed"} => \A h \in Handler : handler'[h].pc = "idle"
    BY <2>1 DEF ProcessInv, CallsInFlight
  <2> QED
    BY <2>1, <2>2, <2>3, <2>4, CalmKeeps
<1>4. CASE o \in retrying /\ TeardownRetry(o) /\ UNCHANGED process
  <2>1. /\ teardown' = [teardown EXCEPT ![o].pc = "begun"]
        /\ UNCHANGED <<txn, handler, sweeper>>
    BY <1>4 DEF TeardownRetry
  <2>2. \A p \in Obj \ {o} : teardown'[p] = teardown[p]
    BY <1>0, <2>1 DEF Phases
  <2>3. UNCHANGED <<phase, sweeping, retrying>>
    BY <1>4 DEF process
  <2>4. ASSUME NEW p \in Obj PROVE Attended(p)'
    BY <1>4, <2>1, <2>2, <2>3 DEF ProcessInv, Attended, Working
  <2>5. ASSUME phase' \in {"stopping", "closed"} PROVE ~CallsInFlight'
    <3>1. ~CallsInFlight
      BY <2>3, <2>5 DEF ProcessInv
    <3>2. ASSUME NEW p \in Obj PROVE ~EndInFlight(p)'
      BY <1>4, <2>1, <2>2, <2>3, <3>1, <3>2 DEF CallsInFlight, EndInFlight
    <3> QED
      BY <2>1, <3>1, <3>2 DEF CallsInFlight
  <2>6. /\ sweeper' \in Sweeper /\ (sweeper'.pc = "idle" => sweeper' = IdleSweeper)
        /\ ~sweeping' => sweeper'.pc = "idle"
    BY <2>1, <2>3, Zenon DEF ProcessInv
  <2> QED
    BY <2>3, <2>4, <2>5, <2>6 DEF ProcessInv
<1>5. CASE TeardownFinish(o) /\ retrying' = retrying \ {o} /\ UNCHANGED <<phase, sweeping>>
  <2>1. /\ txn' = [txn EXCEPT ![o].finished = TRUE]
        /\ teardown' = [teardown EXCEPT ![o] = NoTeardown]
        /\ sweeper' = IF sweeper.cur = o THEN [sweeper EXCEPT !.cur = 0] ELSE sweeper
        /\ UNCHANGED handler
    BY <1>5 DEF TeardownFinish
  <2>2. teardown'[o].pc = "none" /\ \A p \in Obj \ {o} : teardown'[p] = teardown[p]
    BY <1>0, <2>1 DEF Phases, NoTeardown
  <2>3. \A p \in Obj : txn'[p].state = txn[p].state
    BY <1>1, <2>1 DEF Transaction
  <2>4. \A p \in Obj \ {o} : p \in retrying' <=> p \in retrying
    BY <1>5
  <2>5. UNCHANGED <<handler, phase, sweeping>>
    BY <1>5, <2>1
  <2> QED
    BY <2>1, <2>2, <2>3, <2>4, <2>5, TeardownEndKeeps
<1>6. ASSUME NEW r \in Resource, InvalidateFailsStep(o, r) PROVE ProcessInv'
  <2>1. /\ teardown' = [teardown EXCEPT ![o] = [pc |-> "retry", left |-> <<>>]]
        /\ sweeper' = IF sweeper.cur = o THEN [sweeper EXCEPT !.cur = 0] ELSE sweeper
        /\ retrying' = retrying \cup {o}
        /\ UNCHANGED <<txn, handler, phase, sweeping>>
    BY <1>6 DEF InvalidateFailsStep, InvalidateFails
  <2>2. teardown'[o].pc = "retry" /\ \A p \in Obj \ {o} : teardown'[p] = teardown[p]
    BY <1>0, <2>1 DEF Phases
  <2>3. \A p \in Obj \ {o} : p \in retrying' <=> p \in retrying
    BY <2>1
  <2>4. UNCHANGED <<handler, phase, sweeping>>
    BY <2>1
  <2> QED
    BY <2>1, <2>2, <2>3, <2>4, TeardownEndKeeps
<1> QED
  BY <1>2, <1>3, <1>4, <1>5, <1>6 DEF TeardownStep, InvalidateStep

\* The sweeper's tick, and its pruning, which finds no teardown of its own.
LEMMA SweepKeeps ==
  ASSUME ProcessInv, Sweep PROVE ProcessInv'
<1>1. /\ UNCHANGED <<txn, handler, teardown, phase, sweeping, retrying>>
      /\ SweepTick \/ SweepPrune
  BY DEF Sweep, SweepTick, SweepPrune, process
<1>2. /\ sweeper' \in Sweeper /\ sweeper.cur = 0
      /\ sweeper'.pc = "idle" => sweeper' = IdleSweeper
  <2>1. CASE SweepTick
    <3>1. sweeper = IdleSweeper
      BY <2>1 DEF SweepTick, ProcessInv
    <3>2. expired \in SUBSET UUID
      BY DEF expired
    <3>3. CASE sweeper' = sweeper
      BY <3>1, <3>3 DEF IdleSweeper, Sweeper
    <3>4. CASE sweeper' = [sweeper EXCEPT !.pc = "revoking", !.left = expired]
      <4>1. PICK s : s = [sweeper EXCEPT !.pc = "revoking"]
        BY Zenon
      <4>2. s \in Sweeper /\ s.pc = "revoking"
        BY <3>1, <4>1 DEF IdleSweeper, Sweeper
      <4>3. sweeper' = [s EXCEPT !.left = expired]
        BY <3>4, <4>1
      <4>4. sweeper' \in Sweeper /\ sweeper'.pc = "revoking"
        BY <3>2, <4>2, <4>3 DEF Sweeper
      <4> QED
        BY <3>1, <4>4 DEF IdleSweeper
    <3> QED
      BY <2>1, <3>3, <3>4, Zenon DEF SweepTick
  <2>2. CASE SweepPrune
    BY <2>2 DEF SweepPrune, IdleSweeper, Sweeper
  <2> QED
    BY <1>1, <2>1, <2>2
<1>3. ASSUME NEW p \in Obj PROVE Attended(p)'
  BY <1>1, <1>2 DEF ProcessInv, Attended, Working, Obj
<1>4. phase' \in {"stopping", "closed"} => ~CallsInFlight'
  BY <1>1 DEF ProcessInv, CallsInFlight, EndInFlight
<1>5. sweeping'
  BY <1>1, Zenon DEF Sweep
<1>6. phase' = "closed" => ~sweeping' /\ retrying' = {}
  BY <1>1, Zenon DEF ProcessInv
<1> QED
  BY <1>2, <1>3, <1>4, <1>5, <1>6, Zenon DEF ProcessInv

\* A handler's step is one of a handler that is not idle, changes no
\* transaction's state and concerns no teardown.
LEMMA HandlerStepKeeps ==
  ASSUME ProcessInv, CoordInv, NEW h \in Handler, HandlerStep(h) PROVE ProcessInv'
<1>1. UNCHANGED <<teardown, sweeper, phase, sweeping, retrying>> /\ handler[h].pc # "idle"
  <2>1. UNCHANGED <<phase, sweeping, retrying>>
    BY DEF HandlerStep, process
  <2>2. CASE AcquireRetry(h) \/ AcquireQueue(h) \/ AcquireGrant(h) \/ AcquireAbandon(h)
    BY <2>1, <2>2 DEF AcquireRetry, AcquireQueue, AcquireGrant, AcquireAbandon
  <2>3. CASE stillActive(h) \/ Allocate(h) \/ AllocateFails(h)
    BY <2>1, <2>3 DEF stillActive, Allocate, AllocateFails
  <2>4. CASE recordGrant(h) \/ releaseOne(h)
    BY <2>1, <2>4 DEF recordGrant, releaseOne
  <2> QED
    BY <2>2, <2>3, <2>4 DEF HandlerStep, Acquire
<1>2. ASSUME NEW o \in Obj PROVE txn'[o].state = txn[o].state
  <2>1. CASE UNCHANGED txn
    BY <2>1
  <2>2. CASE recordGrant(h)
    <3>1. txn \in [Obj -> Transaction]
      BY DEF CoordInv, Types
    <3>2. \E g : txn' = [txn EXCEPT ![handler[h].obj].grants = g,
                                    ![handler[h].obj].lease = "running"]
      BY <2>2, Zenon DEF recordGrant
    <3> QED
      BY <3>1, <3>2 DEF Transaction
  <2> QED
    BY <2>1, <2>2 DEF HandlerStep, Acquire, AcquireRetry, AcquireQueue, AcquireGrant,
                      AcquireAbandon, stillActive, Allocate, AllocateFails, releaseOne
<1>3. phase \notin {"stopping", "closed"}
  BY <1>1 DEF ProcessInv, CallsInFlight
<1> QED
  BY <1>1, <1>2, <1>3, CalmKeeps DEF Working

\* A call that comes in, while the process serves.
LEMMA CallKeeps ==
  ASSUME ProcessInv, CoordInv, Call PROVE ProcessInv'
<1>0. phase = "serving" /\ UNCHANGED process
  BY DEF Call
<1>1. txn \in [Obj -> Transaction] /\ UNCHANGED <<phase, sweeping, retrying>>
  BY <1>0 DEF CoordInv, Types, process
<1>2. ASSUME NEW h \in Handler, NEW u \in UUID, NEW r \in Resource, NEW m \in Mode,
             ensure(h, u, r, m)
      PROVE  ProcessInv'
  <2>1. UNCHANGED <<teardown, sweeper>>
    BY <1>2 DEF ensure
  <2>2. ASSUME NEW o \in Obj PROVE txn'[o].state = txn[o].state
    <3>1. CASE UNCHANGED txn
      BY <3>1
    <3>2. CASE txn' = [txn EXCEPT ![next + 1] = [NoTransaction EXCEPT !.external = u]]
      <4>1. CASE o = next + 1
        <5>1. o > next
          BY <4>1 DEF CoordInv, Types
        <5>2. txn[o] = NoTransaction
          BY <5>1 DEF CoordInv, Named
        <5> QED
          BY <1>1, <3>2, <4>1, <5>2 DEF NoTransaction
      <4>2. CASE o # next + 1
        BY <1>1, <3>2, <4>2
      <4> QED
        BY <4>1, <4>2
    <3> QED
      BY <1>2, <3>1, <3>2 DEF ensure
  <2> QED
    BY <1>0, <1>1, <2>1, <2>2, CalmKeeps DEF Working
<1>3. ASSUME NEW u \in UUID, RenewLease(u) PROVE ProcessInv'
  <2>1. /\ UNCHANGED <<teardown, sweeper>>
        /\ txn' = [txn EXCEPT ![byID[u]].lease = "running"]
    BY <1>3 DEF RenewLease
  <2>2. \A o \in Obj : txn'[o].state = txn[o].state
    BY <1>1, <2>1 DEF Transaction
  <2> QED
    BY <1>0, <1>1, <2>1, <2>2, CalmKeeps DEF Working
<1> QED
  BY <1>0, <1>2, <1>3, EndKeeps DEF Call

\* The steps of the process itself.
LEMMA PhaseKeeps ==
  ASSUME ProcessInv,
         Start \/ StartFails \/ Signal \/ Drained \/ SweeperStops \/ Stopped
  PROVE  ProcessInv'
<1>1. UNCHANGED <<txn, handler, teardown, sweeper, retrying>>
  BY DEF Start, StartFails, Signal, Drained, SweeperStops, Stopped, vars
<1>2. sweeper' \in Sweeper /\ (sweeper'.pc = "idle" => sweeper' = IdleSweeper)
  BY <1>1 DEF ProcessInv
<1>3. ASSUME NEW o \in Obj PROVE Attended(o)'
  BY <1>1 DEF ProcessInv, Attended, Working
<1>4. ~sweeping' => sweeper'.pc = "idle"
  BY <1>1, Zenon DEF ProcessInv, Start, StartFails, Signal, Drained, SweeperStops, Stopped
<1>5. CallsInFlight' <=> CallsInFlight
  BY <1>1 DEF CallsInFlight, EndInFlight
<1>6. phase' \in {"stopping", "closed"} => ~CallsInFlight'
  BY <1>5 DEF ProcessInv, Start, StartFails, Signal, Drained, SweeperStops, Stopped
<1>7. phase' = "closed" => ~sweeping' /\ retrying' = {}
  <2>1. phase' = "closed" => Stopped
    BY DEF Start, StartFails, Signal, Drained, SweeperStops
  <2> QED
    BY <2>1, Zenon DEF Stopped
<1> QED
  BY <1>2, <1>3, <1>4, <1>6, <1>7, Zenon DEF ProcessInv

\* Every step of the process keeps the invariant.
LEMMA ProcessInvStep ==
  ASSUME ProcessInv, CoordInv, [ProcessNext]_pvars PROVE ProcessInv'
<1>1. CASE Start \/ StartFails \/ Signal \/ Drained \/ SweeperStops \/ Stopped
  BY <1>1, PhaseKeeps
<1>2. CASE Call
  BY <1>2, CallKeeps
<1>3. ASSUME NEW h \in Handler, HandlerStep(h) PROVE ProcessInv'
  BY <1>3, HandlerStepKeeps
<1>4. ASSUME NEW u \in UUID, Running, Revoke(u) PROVE ProcessInv'
  BY <1>4, RevokeKeeps DEF Revoke, Running
<1>5. ASSUME NEW o \in Obj, Running,
             TeardownStep(o) \/ \E r \in Resource : InvalidateStep(o, r) \/ InvalidateFailsStep(o, r)
      PROVE  ProcessInv'
  BY <1>5, TeardownStepKeeps DEF Running
<1>6. ASSUME NEW o \in Obj, RetryStops(o) PROVE ProcessInv'
  <2>1. /\ UNCHANGED <<txn, handler, teardown, sweeper, phase, sweeping>>
        /\ phase = "stopping" /\ teardown[o].pc = "retry" /\ retrying' = retrying \ {o}
    BY <1>6 DEF RetryStops, vars
  <2>2. \A p \in Obj : Attended(p)' /\ (EndInFlight(p)' => EndInFlight(p))
    BY <2>1 DEF ProcessInv, Attended, Working, EndInFlight
  <2>3. CallsInFlight' => CallsInFlight
    BY <2>1, <2>2 DEF CallsInFlight
  <2>4. /\ sweeper' \in Sweeper /\ (sweeper'.pc = "idle" => sweeper' = IdleSweeper)
        /\ ~sweeping' => sweeper'.pc = "idle"
    BY <2>1, Zenon DEF ProcessInv
  <2> QED
    BY <2>1, <2>2, <2>3, <2>4 DEF ProcessInv
<1>7. ASSUME NEW o \in Obj, LeasePasses(o), UNCHANGED process PROVE ProcessInv'
  <2>1. /\ UNCHANGED <<handler, teardown, sweeper>>
        /\ txn' = [txn EXCEPT ![o].lease = "passed"]
    BY <1>7 DEF LeasePasses
  <2>2. txn \in [Obj -> Transaction] /\ UNCHANGED <<phase, sweeping, retrying>>
    BY <1>7 DEF CoordInv, Types, process
  <2>3. \A p \in Obj : txn'[p].state = txn[p].state
    BY <2>1, <2>2 DEF Transaction
  <2>4. phase \in {"stopping", "closed"} => \A h \in Handler : handler'[h].pc = "idle"
    BY <2>1 DEF ProcessInv, CallsInFlight
  <2> QED
    BY <2>1, <2>2, <2>3, <2>4, CalmKeeps DEF Working
<1>8. CASE Sweep
  BY <1>8, SweepKeeps
<1>9. CASE UNCHANGED pvars
  <2>1. UNCHANGED <<txn, handler, teardown, sweeper, phase, sweeping, retrying>>
    BY <1>9 DEF pvars, vars, process
  <2>2. phase \in {"stopping", "closed"} => \A h \in Handler : handler'[h].pc = "idle"
    BY <2>1 DEF ProcessInv, CallsInFlight
  <2> QED
    BY <2>1, <2>2, CalmKeeps DEF Working
<1> QED
  BY <1>1, <1>2, <1>3, <1>4, <1>5, <1>6, <1>7, <1>8, <1>9 DEF ProcessNext, Ended

\* The invariant holds of every life of the process.
THEOREM ProcessInvariant == ProcessSpec => []ProcessInv
<1>1. ProcessInit => ProcessInv
  BY BoundsAssumption DEF ProcessInit, Init, MemoryInit, ProcessInv, Attended, Working, NoTeardown,
     IdleSweeper, Sweeper
<1>2. ProcessInv /\ CoordInv /\ [ProcessNext]_pvars => ProcessInv'
  BY ProcessInvStep
<1> QED
  BY <1>1, <1>2, ProcessImplementsCoordinator, CoordinatorInvariant, PTL DEF ProcessSpec

\* FencesOutliveUsers: whatever was being served, swept and retried when the
\* signal came, closeFences runs when nothing uses the store any more.
THEOREM StoreClosedLast == ProcessSpec => []FencesOutliveUsers
<1>1. ProcessInv /\ CoordInv => FencesOutliveUsers
  <2> SUFFICES ASSUME ProcessInv, CoordInv, phase = "closed"
               PROVE  /\ \A h \in Handler : handler[h].pc = "idle"
                      /\ sweeper = IdleSweeper
                      /\ \A o \in Obj : teardown[o].pc \in {"none", "retry"}
    BY DEF FencesOutliveUsers
  <2>1. ~CallsInFlight
    BY DEF ProcessInv
  <2>2. sweeper = IdleSweeper /\ retrying = {}
    BY Zenon DEF ProcessInv
  <2>3. ASSUME NEW o \in Obj PROVE teardown[o].pc \in {"none", "retry"}
    <3>1. PICK Left : teardown \in Phases(Left)
      BY Zenon DEF CoordInv, Types, TeardownTyped
    <3>2. ~Working(o)
      BY <2>1, <2>2 DEF ProcessInv, Attended, Working, CallsInFlight, EndInFlight, IdleSweeper, Obj
    <3> QED
      BY <3>1, <3>2 DEF Phases, Working
  <2> QED
    BY <2>1, <2>2, <2>3 DEF CallsInFlight
<1> QED
  BY <1>1, ProcessInvariant, ProcessImplementsCoordinator, CoordinatorInvariant, PTL
===============================================================================
