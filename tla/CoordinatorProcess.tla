-------------------------- MODULE CoordinatorProcess --------------------------
(****************************************************************************)
(* The coordinator's process, from start to graceful shutdown: run and      *)
(* openFenceStore of cmd/coordinator/main.go, and NewServerWithConfig, Stop *)
(* and the goroutines it waits for of grpccoord/server.go, around the       *)
(* handlers, sweeper and cleanups of Coordinator.tla.                       *)
(*                                                                          *)
(* GracefulStop refuses new calls and waits for those in flight.  Among     *)
(* them may be an Acquire queued behind a transaction whose worker can now  *)
(* neither renew nor end it: only the sweeper, which is stopped afterwards, *)
(* lets such a call return.                                                 *)
(****************************************************************************)
EXTENDS Coordinator

VARIABLES
  phase,     \* of run
  sweeping,  \* the sweepLeases goroutine exists
  retrying   \* Server.retrying: the objects a retry goroutine works for

process == <<phase, sweeping, retrying>>
pvars == <<vars, process>>

ProcessTypeOK ==
  /\ TypeOK
  /\ phase \in {"starting", "serving", "draining", "stopping", "closed", "failed"}
  /\ sweeping \in BOOLEAN
  /\ retrying \subseteq Obj

ProcessInit ==
  /\ Init
  /\ phase = "starting" /\ sweeping = FALSE /\ retrying = {}

\* openFenceStore opens the fence store; NewServerWithConfig starts the
\* sweeper; the process serves.
Start ==
  /\ phase = "starting"
  /\ phase' = "serving" /\ sweeping' = TRUE
  /\ UNCHANGED <<vars, retrying>>

\* Without a fence store it refuses to.
StartFails ==
  /\ phase = "starting"
  /\ phase' = "failed"
  /\ UNCHANGED <<vars, sweeping, retrying>>

\* A call comes in.  Once GracefulStop has begun, none does.
Call ==
  /\ phase = "serving"
  /\ \/ \E h \in Handler, u \in UUID, r \in Resource, m \in Mode : ensure(h, u, r, m)
     \/ \E u \in UUID : RenewLease(u) \/ EndTransaction(u)
  /\ UNCHANGED process

\* Its handler goes on, also while the process drains.
HandlerStep(h) == Acquire(h) /\ UNCHANGED process

Revoke(u) == revoke(u) /\ UNCHANGED process

\* A teardown, of EndTransaction, the sweeper or a retry goroutine.
\* scheduleRetry starts the latter, and it ends with a teardown that succeeds.
TeardownStep(o) ==
  \/ TeardownSnapshot(o) /\ UNCHANGED process
  \/ o \in retrying /\ TeardownRetry(o) /\ UNCHANGED process
  \/ TeardownFinish(o) /\ retrying' = retrying \ {o} /\ UNCHANGED <<phase, sweeping>>

InvalidateStep(o, r) == Invalidate(o, r) /\ UNCHANGED process

InvalidateFailsStep(o, r) ==
  /\ InvalidateFails(o, r)
  /\ retrying' = retrying \cup {o}
  /\ UNCHANGED <<phase, sweeping>>

Sweep == sweeping /\ (SweepTick \/ SweepPrune) /\ UNCHANGED process
------------------------------------------------------------------------------
\* Fault: the sweeper is stopped first, as if Stop preceded GracefulStop.
SignalStopping ==
  /\ phase = "serving"
  /\ phase' = "draining" /\ sweeping' = FALSE
  /\ UNCHANGED <<vars, retrying>>

\* A signal: GracefulStop begins.
Signal ==
  /\ phase = "serving"
  /\ phase' = "draining"
  /\ UNCHANGED <<vars, sweeping, retrying>>

\* The calls in flight: the Acquire handlers, and the EndTransaction handlers
\* that are tearing their transaction down themselves.
EndInFlight(o) ==
  /\ txn[o].state = "ending" /\ o \notin retrying
  /\ teardown[o].pc \in {"begun", "invalidating"}
CallsInFlight ==
  \/ \E h \in Handler : handler[h].pc # "idle"
  \/ \E o \in Obj : EndInFlight(o)

\* They have returned, so GracefulStop and Serve do, and the deferred
\* coordinator.Stop closes stop.
Drained ==
  /\ phase = "draining" /\ ~CallsInFlight
  /\ phase' = "stopping"
  /\ UNCHANGED <<vars, sweeping, retrying>>

\* The sweeper, between two ticks, sees it ...
SweeperStops ==
  /\ phase = "stopping"
  /\ sweeping /\ sweeper.pc = "idle"
  /\ sweeping' = FALSE
  /\ UNCHANGED <<vars, phase, retrying>>

\* ... and so does a retry goroutine, which leaves its transaction uncleaned.
RetryStops(o) ==
  /\ phase = "stopping"
  /\ o \in retrying /\ teardown[o].pc = "retry"
  /\ retrying' = retrying \ {o}
  /\ UNCHANGED <<vars, phase, sweeping>>

\* Fault: Stop waits for the sweeper alone.
StoppedSweeping ==
  /\ phase = "stopping" /\ ~sweeping
  /\ phase' = "closed"
  /\ UNCHANGED <<vars, sweeping, retrying>>

\* Stop has waited for all of them, and the deferred closeFences runs.
Stopped ==
  /\ phase = "stopping" /\ ~sweeping /\ retrying = {}
  /\ phase' = "closed"
  /\ UNCHANGED <<vars, sweeping, retrying>>

Running == phase \notin {"closed", "failed"}

\* Nothing happens in a process that is gone.
Ended == ~Running /\ UNCHANGED pvars

ProcessNext ==
  \/ Start \/ StartFails \/ Call \/ Signal \/ Drained \/ SweeperStops \/ Stopped
  \/ /\ Running
     /\ \/ \E h \in Handler : HandlerStep(h)
        \/ \E u \in UUID : Revoke(u)
        \/ \E o \in Obj :
             \/ TeardownStep(o) \/ RetryStops(o)
             \/ LeasePasses(o) /\ UNCHANGED process
             \/ \E r \in Resource : InvalidateStep(o, r) \/ InvalidateFailsStep(o, r)
        \/ Sweep
  \/ Ended

ProcessSpec == ProcessInit /\ [][ProcessNext]_pvars

\* What a handler does by itself: not give up a wait nobody cancelled.
HandlerGoes(h) ==
  /\ Running
  /\ \/ AcquireRetry(h) \/ AcquireQueue(h) \/ AcquireGrant(h) \/ stillActive(h)
     \/ Allocate(h) \/ AllocateFails(h) \/ recordGrant(h) \/ releaseOne(h)
     \/ handler[h].cancelled /\ AcquireAbandon(h)
  /\ UNCHANGED process

\* The Go scheduler runs every goroutine, time passes, the tickers tick, a lock
\* that stays free is granted to one who waits (WaiterServed of
\* LockManager.tla), a cancelled wait returns, and a fence store that is tried
\* again and again answers some day.  A select that finds stop closed and its
\* ticker due picks one at random, so it does not pick the ticker for ever.
ProcessFairSpec ==
  /\ ProcessSpec
  /\ \A h \in Handler : WF_pvars(HandlerGoes(h))
  /\ \A o \in Obj :
       /\ WF_pvars(LeasePasses(o) /\ Running /\ UNCHANGED process)
       /\ WF_pvars(Running /\ TeardownStep(o))
       /\ \A r \in Resource : SF_pvars(Running /\ InvalidateStep(o, r))
  /\ WF_pvars(Running /\ (Sweep \/ \E u \in UUID : Revoke(u)))
  /\ SF_pvars(SweeperStops \/ \E o \in Obj : RetryStops(o))
  /\ WF_pvars(Start \/ Drained \/ Stopped)
------------------------------------------------------------------------------
\* A worker that stops renewing loses its locks: once a transaction is never
\* again active under a running lease, none of its locks is held for ever,
\* as long as the process lives.
AbandonedLockReclaimed ==
  \A o \in Obj, r \in Resource :
    <>[](Running /\ ~(Active(o) /\ txn[o].lease = "running")) => []<>(held[o][r] = "none")

\* A signal leads to the end of the process: GracefulStop, which has no
\* timeout, does not wait for ever for an Acquire queued behind a transaction
\* whose worker cannot reach the coordinator any more.
GracefulStopReturns == phase = "draining" ~> phase = "closed"

\* The fence store is closed after its last user: when closeFences runs, no
\* handler, sweep or cleanup is in the middle of a teardown or of a grant.
FencesOutliveUsers ==
  phase = "closed" =>
    /\ \A h \in Handler : handler[h].pc = "idle"
    /\ sweeper = IdleSweeper
    /\ \A o \in Obj : teardown[o].pc \in {"none", "retry"}
==============================================================================
