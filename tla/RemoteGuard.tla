----------------------------- MODULE RemoteGuard -----------------------------
(****************************************************************************)
(* A worker's lock scope against the coordinator: remoteGuard of            *)
(* client/coordination/grpccoord/client.go, its heartbeat goroutine, and    *)
(* what the coordinator knows of the one transaction they belong to         *)
(* (transactions.go).                                                       *)
(*                                                                          *)
(* Time is counted in ticks and every duration is relative to now, so no    *)
(* clock variable grows.  The worker compares the coordinator's absolute    *)
(* deadline with its own clock, which is off by skew.  A call over the      *)
(* network is answered soon, fails soon, or hangs until its timeout.        *)
(****************************************************************************)
EXTENDS Integers, FiniteSetsExt

CONSTANTS
  LeaseDuration,       \* the coordinator's lease
  minRenewalInterval,  \* floor of the renewal pace
  Timeout,             \* Backend.timeout, of RenewLease and EndTransaction
  MaxLatency,          \* the longest a call that does not hang takes
  MaxPause,            \* the longest the heartbeat's timer fires late
  MaxSkew,             \* the largest difference between the two clocks
  MaxLosses,           \* renewals in a row a healthy worker may lose
  MaxAcquires,         \* bound on Acquire calls of the transaction
  MaxFaults            \* bound on hangs, stalls and coordinator restarts

ASSUME DurationAssumption ==
  /\ {LeaseDuration, minRenewalInterval, Timeout} \subseteq Nat \ {0}
  /\ {MaxLatency, MaxPause, MaxSkew, MaxLosses, MaxAcquires, MaxFaults} \subseteq Nat
  /\ MaxLatency <= Timeout

VARIABLES
  \* in the coordinator
  txn,      \* the transaction: its state, and what is left of its lease
  \* in the worker
  guard,    \* where the operation is, and the guard's flags
  view,     \* time.Until(leaseExpires) by the worker's clock
  beat,     \* the heartbeat goroutine
  \* in the network
  acquire,  \* the Acquire call
  call,     \* the RenewLease or EndTransaction call
  stray,    \* requests of given-up calls that may still reach the coordinator
  \* the environment
  skew,     \* coordinator's clock minus the worker's
  losses,   \* renewals lost since the coordinator last handled one
  faults    \* how many of the MaxFaults have happened

vars == <<txn, guard, view, beat, acquire, call, stray, skew, losses, faults>>

Unset == -1      \* leaseExpires.IsZero()
Passed == -1     \* the lease's deadline has passed
Never == LeaseDuration + MaxSkew  \* no duration in the model is longer

\* state: unknown to the coordinator, active, or a tombstone; held: it holds
\* locks; started: its lease has been; born: how many transactions have been
\* made of this id.
Transaction ==
  [state : {"unknown", "active", "ended", "revoked"}, held : BOOLEAN,
   started : BOOLEAN, left : Passed..LeaseDuration, born : 0..(MaxFaults + 1)]
Tombstone == txn.state \in {"ended", "revoked"}

\* pc of the operation that owns the guard: between calls, waiting for
\* Acquire, told that Acquire failed, in ReleaseAll waiting for the heartbeat
\* ("stopping") or for EndTransaction ("ending"), or through with it.
\* first: which transaction the first grant was of, 0 if there was none.
Guard ==
  [pc : {"working", "acquiring", "failed", "stopping", "ending", "done"},
   acquired : 0..MaxAcquires, first : 0..(MaxFaults + 1), lost : BOOLEAN]

Beat == [pc : {"none", "waiting", "calling", "stopped"}, timer : 0..(Never + MaxPause)]

\* heard: the worker still waits for the answer; left: what was left of the
\* lease in the answer, by now; age: ticks since the answer was sent.
AcquireCall ==
  [pc : {"none", "sent", "pending", "granted", "refused"}, heard : BOOLEAN,
   left : Passed..LeaseDuration, born : 0..(MaxFaults + 1), age : 0..MaxLatency]
NoAcquire == [pc |-> "none", heard |-> FALSE, left |-> Passed, born |-> 0, age |-> 0]

Call ==
  [rpc : {"none", "RenewLease", "EndTransaction"}, fate : {"answered", "fails", "hangs"},
   reply : {"none", "ok", "unstarted", "refused"}, left : Passed..LeaseDuration,
   age : 0..Timeout]
NoCall == [rpc |-> "none", fate |-> "answered", reply |-> "none", left |-> Passed, age |-> 0]

TypeOK ==
  /\ txn \in Transaction
  /\ guard \in Guard
  /\ view \in Unset..Never
  /\ beat \in Beat
  /\ acquire \in AcquireCall
  /\ call \in Call
  /\ stray \subseteq {"RenewLease", "EndTransaction"}
  /\ skew \in -MaxSkew..MaxSkew
  /\ losses \in 0..(MaxLosses + 1)
  /\ faults \in 0..MaxFaults

\* Begin: the id is made in the worker, the coordinator does not know it yet.
Init ==
  /\ txn = [state |-> "unknown", held |-> FALSE, started |-> FALSE, left |-> Passed, born |-> 0]
  /\ guard = [pc |-> "working", acquired |-> 0, first |-> 0, lost |-> FALSE]
  /\ view = Unset
  /\ beat = [pc |-> "none", timer |-> 0]
  /\ acquire = NoAcquire
  /\ call = NoCall
  /\ stray = {}
  /\ skew \in -MaxSkew..MaxSkew
  /\ losses = 0
  /\ faults = 0
------------------------------------------------------------------------------
Goto(l) == guard' = [guard EXCEPT !.pc = l]
Fault == faults < MaxFaults /\ faults' = faults + 1

\* Fault: the deadline is counted from when the answer arrives.
noteLeaseDeadlineLocal(left) == view' = LeaseDuration + skew

\* noteLeaseDeadline, of a deadline that is left ticks away.
noteLeaseDeadline(left) == view' = Max({0, left + skew})

\* Fault: half of what remains.
renewalDelayHalf(remaining) ==
  IF remaining = Unset THEN (LeaseDuration + 1) \div 2
  ELSE Max({minRenewalInterval, (remaining + 1) \div 2})

\* renewalDelay, as of the deadline just noted: a third of what remains,
\* rounded up to a tick.
renewalDelay(remaining) ==
  IF remaining = Unset THEN (LeaseDuration + 2) \div 3
  ELSE Max({minRenewalInterval, (remaining + 2) \div 3})

\* The heartbeat's timer is set, and will fire then or a little late.
SetTimer(delay) ==
  \E late \in 0..MaxPause : beat' = [pc |-> "waiting", timer |-> delay + late]
------------------------------------------------------------------------------
\* AcquireContext, up to the call.
AcquireSend ==
  /\ guard.pc = "working"
  /\ guard.acquired < MaxAcquires
  /\ guard' = [guard EXCEPT !.pc = "acquiring", !.acquired = @ + 1]
  /\ acquire' = [NoAcquire EXCEPT !.pc = "sent", !.heard = TRUE]
  /\ UNCHANGED <<txn, view, beat, call, stray, skew, losses, faults>>

\* The coordinator's ensure: an unknown id gets a new transaction.
AcquireEnsure ==
  /\ acquire.pc = "sent"
  /\ IF Tombstone
     THEN acquire' = [acquire EXCEPT !.pc = "refused"] /\ UNCHANGED txn
     ELSE /\ acquire' = [acquire EXCEPT !.pc = "pending"]
          /\ txn' = IF txn.state = "active" THEN txn
                    ELSE [txn EXCEPT !.state = "active", !.born = @ + 1]
  /\ UNCHANGED <<guard, view, beat, call, stray, skew, losses, faults>>

\* Fault: the lease is started by the worker's first renewal.
AcquireGrantUnleased ==
  /\ acquire.pc = "pending"
  /\ txn.state = "active"
  /\ txn' = [txn EXCEPT !.held = TRUE]
  /\ acquire' = IF acquire.heard
                THEN [acquire EXCEPT !.pc = "granted", !.left = LeaseDuration, !.born = txn.born]
                ELSE NoAcquire
  /\ UNCHANGED <<guard, view, beat, call, stray, skew, losses, faults>>

\* The lock is granted, whenever that is: startLeaseIfNeeded, and the answer,
\* if anyone waits for it.
AcquireGrant ==
  /\ acquire.pc = "pending"
  /\ txn.state = "active"
  /\ txn' = [txn EXCEPT !.held = TRUE, !.started = TRUE, !.left = LeaseDuration]
  /\ acquire' = IF acquire.heard
                THEN [acquire EXCEPT !.pc = "granted", !.left = LeaseDuration, !.born = txn.born]
                ELSE NoAcquire
  /\ UNCHANGED <<guard, view, beat, call, stray, skew, losses, faults>>

\* The grant reaches the worker: the deadline is noted and the first grant
\* starts the heartbeat.
AcquireReturn ==
  /\ acquire.pc = "granted" /\ acquire.heard
  /\ guard' = [guard EXCEPT !.pc = "working", !.first = IF @ = 0 THEN acquire.born ELSE @]
  /\ noteLeaseDeadline(acquire.left)
  /\ IF beat.pc = "none" THEN SetTimer(renewalDelay(view')) ELSE UNCHANGED beat
  /\ acquire' = NoAcquire
  /\ UNCHANGED <<txn, call, stray, skew, losses, faults>>

\* What becomes of a request when nobody waits for it any more: it goes on to
\* the coordinator, and out of its queue again by its context.
Unheard == IF acquire.pc \in {"sent", "pending"} /\ ~Tombstone
           THEN [acquire EXCEPT !.heard = FALSE] ELSE NoAcquire

\* The call fails: refused, torn down while it waited, cancelled by its
\* caller, or its answer is lost.
AcquireFail ==
  /\ guard.pc = "acquiring"
  /\ Goto("failed")
  /\ acquire' = Unheard
  /\ UNCHANGED <<txn, view, beat, call, stray, skew, losses, faults>>

AcquireDrop ==
  /\ acquire.pc # "none" /\ ~acquire.heard
  /\ acquire' = NoAcquire
  /\ UNCHANGED <<txn, guard, view, beat, call, stray, skew, losses, faults>>
------------------------------------------------------------------------------
\* The timer fires and RenewLease is called.  A healthy worker loses at most
\* MaxLosses renewals in a row, and none of them hangs.
BeatFire ==
  /\ beat.pc = "waiting" /\ beat.timer = 0
  /\ \E fate \in {"answered", "fails", "hangs"} :
       /\ call' = [NoCall EXCEPT !.rpc = "RenewLease", !.fate = fate]
       /\ IF fate = "hangs" \/ (fate = "fails" /\ losses >= MaxLosses)
          THEN Fault ELSE UNCHANGED faults
  /\ losses' = Min({losses + 1, MaxLosses + 1})
  /\ beat' = [beat EXCEPT !.pc = "calling"]
  /\ UNCHANGED <<txn, guard, view, acquire, stray, skew>>

\* suspendHeartbeats, or a process that does not get to run: no renewal.
BeatSkip ==
  /\ beat.pc = "waiting" /\ beat.timer = 0
  /\ Fault
  /\ SetTimer(minRenewalInterval)
  /\ UNCHANGED <<txn, guard, view, acquire, call, stray, skew, losses>>

\* registry.renew: moves the deadline of an active transaction whose lease
\* has started.
renew ==
  IF txn.state = "active" /\ txn.started
  THEN txn' = [txn EXCEPT !.left = LeaseDuration] /\ losses' = 0
  ELSE UNCHANGED <<txn, losses>>

RenewHandle ==
  /\ call.rpc = "RenewLease" /\ call.reply = "none"
  /\ renew
  /\ call' = [call EXCEPT
       !.reply = IF txn.state # "active" THEN "refused"
                 ELSE IF txn.started THEN "ok" ELSE "unstarted",
       !.left = IF call.fate = "answered" THEN txn'.left ELSE @]
  /\ UNCHANGED <<guard, view, beat, acquire, stray, skew, faults>>

\* A call returns an error: at once, or when its context times out.  A request
\* not handled yet may still be, or is lost.
CallFails ==
  /\ call.fate = "fails" \/ (call.fate = "hangs" /\ call.age = Timeout)
  /\ call' = NoCall
  /\ \/ UNCHANGED stray
     \/ call.reply = "none" /\ stray' = stray \cup {call.rpc}

\* The heartbeat hears from the coordinator ...
BeatRenewed ==
  /\ call.rpc = "RenewLease" /\ call.fate = "answered"
  /\ call.reply \in {"ok", "unstarted"}
  /\ IF call.reply = "ok" THEN noteLeaseDeadline(call.left) ELSE UNCHANGED view
  /\ SetTimer(renewalDelay(view'))
  /\ call' = NoCall
  /\ UNCHANGED <<txn, guard, acquire, stray, skew, losses, faults>>

\* Fault: a refused renewal is tried again like a failed one.
BeatLostRetrying ==
  /\ call.rpc = "RenewLease" /\ call.fate = "answered" /\ call.reply = "refused"
  /\ SetTimer(minRenewalInterval)
  /\ call' = NoCall
  /\ UNCHANGED <<txn, guard, view, acquire, stray, skew, losses, faults>>

\* ... is told that the transaction is not active, and ends for good ...
BeatLost ==
  /\ call.rpc = "RenewLease" /\ call.fate = "answered" /\ call.reply = "refused"
  /\ guard' = [guard EXCEPT !.lost = TRUE]
  /\ beat' = [pc |-> "stopped", timer |-> 0]
  /\ call' = NoCall
  /\ UNCHANGED <<txn, view, acquire, stray, skew, losses, faults>>

\* Fault: any failed renewal counts as a lost lease.
BeatRetryLost ==
  /\ call.rpc = "RenewLease"
  /\ CallFails
  /\ guard' = [guard EXCEPT !.lost = TRUE]
  /\ beat' = [pc |-> "stopped", timer |-> 0]
  /\ UNCHANGED <<txn, view, acquire, skew, losses, faults>>

\* Fault: the renewal has no timeout, and a call that hangs goes on hanging.
BeatRetryUntimed ==
  /\ call.rpc = "RenewLease"
  /\ IF call.fate = "hangs"
     THEN call.age = Timeout /\ call' = [call EXCEPT !.age = 0] /\ UNCHANGED <<beat, stray>>
     ELSE CallFails /\ SetTimer(minRenewalInterval)
  /\ UNCHANGED <<txn, guard, view, acquire, skew, losses, faults>>

\* ... or hears nothing, and tries again soon.
BeatRetry ==
  /\ call.rpc = "RenewLease"
  /\ CallFails
  /\ SetTimer(minRenewalInterval)
  /\ UNCHANGED <<txn, guard, view, acquire, skew, losses, faults>>

\* The heartbeat sees stopHeartbeat closed.
BeatStop ==
  /\ beat.pc = "waiting" /\ guard.pc = "stopping"
  /\ beat' = [pc |-> "stopped", timer |-> 0]
  /\ UNCHANGED <<txn, guard, view, acquire, call, stray, skew, losses, faults>>
------------------------------------------------------------------------------
\* ReleaseAll: stop the heartbeat ...
ReleaseAll ==
  /\ guard.pc \in {"working", "failed"}
  /\ Goto("stopping")
  /\ UNCHANGED <<txn, view, beat, acquire, call, stray, skew, losses, faults>>

\* ... wait for it, and end the transaction if it ever asked for a lock.
\* (leaseExpires is not read any more.)
ReleaseEnd ==
  /\ guard.pc = "stopping" /\ beat.pc \in {"none", "stopped"}
  /\ IF guard.acquired = 0
     THEN Goto("done") /\ UNCHANGED call
     ELSE /\ Goto("ending")
          /\ \E fate \in {"answered", "fails", "hangs"} :
               call' = [NoCall EXCEPT !.rpc = "EndTransaction", !.fate = fate]
  /\ view' = Unset
  /\ UNCHANGED <<txn, beat, acquire, stray, skew, losses, faults>>

\* EndTransaction, its teardown included, as Coordinator.tla has it in detail.
end ==
  txn' = IF txn.state = "active" THEN [txn EXCEPT !.state = "ended", !.held = FALSE, !.left = Passed]
         ELSE txn

EndHandle ==
  /\ call.rpc = "EndTransaction" /\ call.reply = "none"
  /\ end
  /\ call' = [call EXCEPT !.reply = "ok"]
  /\ UNCHANGED <<guard, view, beat, acquire, stray, skew, losses, faults>>

ReleaseReturn ==
  /\ call.rpc = "EndTransaction"
  /\ CallFails \/ (call.fate = "answered" /\ call.reply = "ok" /\ call' = NoCall /\ UNCHANGED stray)
  /\ Goto("done")
  /\ UNCHANGED <<txn, view, beat, acquire, skew, losses, faults>>

\* A request whose call was given up reaches the coordinator, or does not.
StrayArrives ==
  \/ /\ "RenewLease" \in stray /\ stray' = stray \ {"RenewLease"}
     /\ renew \/ UNCHANGED <<txn, losses>>
     /\ UNCHANGED <<guard, view, beat, acquire, call, skew, faults>>
  \/ /\ "EndTransaction" \in stray /\ stray' = stray \ {"EndTransaction"}
     /\ end \/ UNCHANGED txn
     /\ UNCHANGED <<guard, view, beat, acquire, call, skew, losses, faults>>
------------------------------------------------------------------------------
\* The sweeper finds the lease passed and revokes the transaction.
revoke ==
  /\ txn.state = "active" /\ txn.started /\ txn.left = Passed
  /\ txn' = [txn EXCEPT !.state = "revoked", !.held = FALSE]
  /\ UNCHANGED <<guard, view, beat, acquire, call, stray, skew, losses, faults>>

\* The coordinator restarts and has forgotten the transaction; a request it
\* was handling fails.
Restart ==
  /\ Fault
  /\ txn.state # "unknown"
  /\ txn' = [txn EXCEPT !.state = "unknown", !.held = FALSE, !.started = FALSE, !.left = Passed]
  /\ acquire' = IF acquire.pc = "pending" THEN [acquire EXCEPT !.pc = "refused"] ELSE acquire
  /\ UNCHANGED <<guard, view, beat, call, stray, skew, losses>>

\* The worker's process dies.
Crash ==
  /\ guard.pc # "done"
  /\ Goto("done")
  /\ beat' = [pc |-> "stopped", timer |-> 0]
  /\ view' = Unset
  /\ acquire' = Unheard
  /\ call' = NoCall
  /\ stray' = IF call.rpc # "none" /\ call.reply = "none" THEN stray \cup {call.rpc} ELSE stray
  /\ UNCHANGED <<txn, skew, losses, faults>>

\* What cannot be later than now: a timer that is due, a call whose time is
\* up, and a goroutine that can run.
Due ==
  \/ beat.pc = "waiting" /\ (beat.timer = 0 \/ guard.pc = "stopping")
  \/ guard.pc = "stopping" /\ beat.pc \in {"none", "stopped"}
  \/ call.rpc # "none" /\ call.age >= (IF call.fate = "hangs" THEN Timeout ELSE MaxLatency)
  \/ acquire.pc = "granted" /\ acquire.heard /\ acquire.age = MaxLatency

Less(d) == Max({d - 1, Passed})

Tick ==
  /\ ~Due
  /\ txn' = [txn EXCEPT !.left = Less(@)]
  /\ view' = IF view > 0 THEN view - 1 ELSE view
  /\ beat' = [beat EXCEPT !.timer = Max({@ - 1, 0})]
  /\ acquire' = [acquire EXCEPT !.left = Less(@), !.age =
       IF acquire.pc = "granted" THEN Min({@ + 1, MaxLatency}) ELSE @]
  /\ call' = [call EXCEPT !.left = Less(@), !.age = IF call.rpc = "none" THEN 0 ELSE @ + 1]
  /\ UNCHANGED <<guard, stray, skew, losses, faults>>
------------------------------------------------------------------------------
Acquire ==
  \/ AcquireSend \/ AcquireEnsure \/ AcquireGrant
  \/ AcquireReturn \/ AcquireFail \/ AcquireDrop
Heartbeat == BeatFire \/ BeatSkip \/ BeatRenewed \/ BeatLost \/ BeatRetry \/ BeatStop
Release == ReleaseEnd \/ ReleaseReturn
Handle == RenewHandle \/ EndHandle

Next ==
  \/ Acquire \/ Heartbeat \/ ReleaseAll \/ Release \/ Handle
  \/ StrayArrives \/ revoke \/ Restart \/ Crash \/ Tick

Spec == Init /\ [][Next]_vars

\* Time passes, the worker's goroutines and the sweeper run, a call that is to
\* be answered is handled, and a request in the network arrives or is lost.
FairSpec ==
  /\ Spec
  /\ WF_vars(Tick) /\ WF_vars(Heartbeat) /\ WF_vars(Release) /\ WF_vars(Handle)
  /\ WF_vars(revoke) /\ WF_vars(StrayArrives)
  /\ WF_vars(AcquireReturn) /\ WF_vars(AcquireDrop)
------------------------------------------------------------------------------
AtWork == guard.pc \in {"working", "acquiring"}

\* A healthy worker is never revoked: renewalDelay's pace keeps the lease
\* however the operation waits for further locks, as long as calls take
\* MaxLatency at most, timers are MaxPause late, the clocks MaxSkew apart and
\* no more than MaxLosses renewals in a row fail.  The faults it excepts are
\* restarts, crashes and calls that hang: a renewal may hang for Timeout, which
\* is longer than the lease.
HealthyKeepsLease == txn.state = "revoked" /\ AtWork => faults > 0

\* The worker never believes in more lease than there is: whatever order the
\* answers to Acquire and RenewLease arrive in, the deadline noteLeaseDeadline
\* keeps is not after the coordinator's.
ViewNotAhead ==
  txn.state = "active" /\ txn.started /\ view > 0 => view <= txn.left + skew

\* When lost is closed, the worker really has lost something: the transaction
\* that granted its first lock is not active any more.
LostIsTrue == guard.lost => ~(txn.state = "active" /\ txn.born = guard.first)

\* ReleaseAll, which every operation runs deferred, returns: neither a renewal
\* that hangs, nor the heartbeat's next one, nor EndTransaction holds it up
\* for ever.
ReleaseReturns == guard.pc = "stopping" ~> guard.pc = "done"

\* A worker whose transaction was revoked under it finds out, or is through,
\* as long as the coordinator keeps the tombstone.
LossNoticed ==
  txn.state = "revoked" /\ AtWork ~> guard.lost \/ ~AtWork \/ txn.state # "revoked"

\* Whatever becomes of the EndTransaction call, and even if an Acquire the
\* worker gave up is granted after it, nothing is held for a guard that is
\* done, or a worker that died: the lease passes.
ReleasedReclaimed ==
  <>[](guard.pc = "done" => ~txn.held)
==============================================================================
