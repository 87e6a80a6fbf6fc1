-------------------------- MODULE RemoteGuardProofs --------------------------
(****************************************************************************)
(* Proofs about RemoteGuard, for any lease, latency, clock skew and number  *)
(* of faults: the worker's view of its lease is never ahead of the          *)
(* coordinator's, a lease reported lost is lost, and the pace of renewals   *)
(* keeps a healthy worker's lease whenever the constants leave room for it. *)
(****************************************************************************)
EXTENDS RemoteGuard, TLAPS

\* The types the argument needs.
TxnType ==
  [state : {"unknown", "active", "ended", "revoked"}, held : BOOLEAN,
   started : BOOLEAN, left : Passed..LeaseDuration, born : Nat]
GuardType ==
  [pc : {"working", "acquiring", "failed", "stopping", "ending", "done"},
   acquired : Nat, first : Nat, lost : BOOLEAN]
BeatType == [pc : {"none", "waiting", "calling", "stopped"}, timer : Nat]
AcquireType ==
  [pc : {"none", "sent", "pending", "granted", "refused"}, heard : BOOLEAN,
   left : Passed..LeaseDuration, born : Nat, age : 0..MaxLatency]
CallType ==
  [rpc : {"none", "RenewLease", "EndTransaction"}, fate : {"answered", "fails", "hangs"},
   reply : {"none", "ok", "unstarted", "refused"}, left : Passed..LeaseDuration, age : Nat]

Types ==
  /\ txn \in TxnType
  /\ guard \in GuardType
  /\ view \in Int
  /\ beat \in BeatType
  /\ acquire \in AcquireType
  /\ call \in CallType
  /\ skew \in -MaxSkew..MaxSkew
  /\ losses \in Nat
  /\ faults \in Nat

Leased == txn.state = "active" /\ txn.started
Renewed == call.rpc = "RenewLease" /\ call.fate = "answered" /\ call.reply = "ok"

\* A deadline, noted or on its way to the worker, is not after the lease's.
\* A lease that starts again, after a restart, starts in full.
ViewInv ==
  /\ txn.state = "unknown" => ~txn.started
  /\ view > 0 => view <= LeaseDuration + skew
  /\ Leased => /\ view > 0 => view <= txn.left + skew
               /\ acquire.pc = "granted" => acquire.left <= txn.left
               /\ Renewed => call.left <= txn.left

\* The transaction of the first grant is not active any more, and never will be:
\* the next one of this id is another.
Gone == ~(txn.state = "active" /\ txn.born = guard.first)

\* The heartbeat runs for a grant, and is refused when its transaction is gone.
LostInv ==
  /\ txn.state = "active" => txn.born > 0
  /\ guard.first <= txn.born
  /\ acquire.pc = "granted" => acquire.born > 0 /\ acquire.born <= txn.born
  /\ beat.pc \in {"waiting", "calling"} => guard.first > 0
  /\ call.rpc = "RenewLease" => guard.first > 0
  /\ guard.lost => guard.first > 0 /\ Gone
  /\ call.rpc = "RenewLease" /\ call.reply = "refused" => Gone

GuardInv == Types /\ ViewInv /\ LostInv

\* A lost renewal, until the next is due; and how long k more of them and one
\* that is answered take.
Round == MaxLatency + minRenewalInterval + MaxPause
Rounds(k) == k * Round + MaxLatency

\* The lease is long enough: a worker that hears of its lease MaxLatency after
\* it was renewed, and waits as renewalDelay says, can still lose MaxLosses
\* renewals before one reaches the coordinator.
PaceLeavesRoom ==
  LET left == LeaseDuration - MaxLatency
      delay == renewalDelay(Max({0, left + MaxSkew}))
  IN  delay + MaxPause + Rounds(MaxLosses) <= left

\* The heartbeat waits, and there is time for the renewals that may be lost.
Waits ==
  /\ beat.pc = "waiting" /\ call.rpc = "none"
  /\ losses <= MaxLosses
  /\ beat.timer + Rounds(MaxLosses) <= LeaseDuration
  /\ beat.timer + Rounds(MaxLosses - losses) <= txn.left

\* It has sent a renewal, which will fail and leave time for the others, is on
\* its way to the coordinator, or is answered.
Calls ==
  /\ beat.pc = "calling" /\ call.rpc = "RenewLease" /\ call.age <= MaxLatency
  /\ \/ /\ call.fate = "fails" /\ losses <= MaxLosses
        /\ Rounds(MaxLosses - losses) + Round - call.age <= txn.left
     \/ /\ call.fate = "answered" /\ call.reply = "none"
        /\ MaxLatency - call.age <= txn.left
     \/ /\ call.fate = "answered" /\ call.reply = "ok" /\ losses = 0
        /\ LeaseDuration - call.age <= call.left

\* A worker at work that has met no fault.  Before the first grant there is no
\* heartbeat; the lease starts with the answer that will start it.
Healthy ==
  /\ txn.state \in {"unknown", "active"}
  /\ "EndTransaction" \notin stray
  /\ acquire.pc # "none" => acquire.heard
  /\ acquire.pc = "granted" => Leased /\ LeaseDuration - acquire.age <= acquire.left
  /\ guard.first = 0 => /\ beat.pc = "none" /\ call.rpc = "none" /\ losses = 0
                        /\ txn.started => acquire.pc = "granted"
  /\ guard.first > 0 => Leased /\ (Waits \/ Calls)

\* Which of the worker's calls belong to where it is.
Orderly ==
  /\ acquire.heard => guard.pc = "acquiring"
  /\ call.rpc = "EndTransaction" => guard.pc = "ending"

HealthyInv ==
  /\ Orderly
  /\ faults = 0 /\ AtWork => Healthy

\* The durations, one by one.
LEMMA Durations ==
  /\ LeaseDuration \in Nat /\ minRenewalInterval \in Nat /\ LeaseDuration > 0
  /\ MaxLatency \in Nat /\ MaxPause \in Nat /\ MaxSkew \in Nat /\ MaxLosses \in Nat
  /\ Passed = -1 /\ Unset = -1
BY DurationAssumption DEF Passed, Unset

\* No call is a call in no state.
LEMMA NoneTyped == NoAcquire \in AcquireType /\ NoCall \in CallType
BY Durations DEF NoAcquire, NoCall, AcquireType, CallType

\* Max and Min of two integers.
LEMMA MaxOfTwo ==
  ASSUME NEW a \in Int, NEW b \in Int
  PROVE  /\ a >= b => Max({a, b}) = a
         /\ a <= b => Max({a, b}) = b
         /\ a <= b => Min({a, b}) = a
         /\ a >= b => Min({a, b}) = b
<1>1. ASSUME a >= b PROVE Max({a, b}) = a /\ Min({a, b}) = b
  BY <1>1 DEF Max, Min
<1>2. ASSUME a <= b PROVE Max({a, b}) = b /\ Min({a, b}) = a
  BY <1>2 DEF Max, Min
<1> QED BY <1>1, <1>2

\* What is left of a duration a tick later.
LEMMA LessFacts ==
  ASSUME NEW d \in Passed..LeaseDuration
  PROVE  /\ Less(d) \in Passed..LeaseDuration
         /\ d >= 0 => Less(d) = d - 1
         /\ d - 1 <= Less(d) /\ Less(d) <= d
<1>1. PICK e : e = d - 1
  OBVIOUS
<1>2. e \in Int /\ Passed \in Int /\ Less(d) = Max({e, Passed})
  BY <1>1, Durations DEF Less
<1>3. /\ e >= Passed => Less(d) = e
      /\ e <= Passed => Less(d) = Passed
  BY <1>2, MaxOfTwo
<1> QED BY <1>1, <1>2, <1>3, Durations

\* renewalDelay's pace: a third of what remains, but not less than the floor.
LEMMA DelayFacts ==
  ASSUME NEW v \in Int
  PROVE  /\ renewalDelay(v) \in Nat
         /\ v # Unset => /\ minRenewalInterval <= renewalDelay(v)
                         /\ (v + 2) \div 3 <= renewalDelay(v)
                         /\ renewalDelay(v) \in {minRenewalInterval, (v + 2) \div 3}
<1>1. LeaseDuration \in Nat /\ minRenewalInterval \in Nat
  BY Durations
<1>2. PICK w : w = (v + 2) \div 3
  OBVIOUS
<1>3. w \in Int
  BY <1>2
<1>4. CASE v = Unset
  BY <1>1, <1>4 DEF renewalDelay
<1>5. CASE v # Unset
  <2>1. renewalDelay(v) = Max({minRenewalInterval, w})
    BY <1>2, <1>5 DEF renewalDelay
  <2>2. CASE w <= minRenewalInterval
    BY <1>1, <1>2, <1>3, <2>1, <2>2, MaxOfTwo
  <2>3. CASE w >= minRenewalInterval
    BY <1>1, <1>2, <1>3, <2>1, <2>3, MaxOfTwo
  <2> QED BY <1>1, <1>3, <2>2, <2>3
<1> QED BY <1>4, <1>5

\* The deadline noteLeaseDeadline keeps, by the worker's clock.
LEMMA NoteFacts ==
  ASSUME NEW l \in Passed..LeaseDuration, NEW s \in -MaxSkew..MaxSkew
  PROVE  /\ Max({0, l + s}) \in Nat
         /\ Max({0, l + s}) > 0 => Max({0, l + s}) = l + s
         /\ l + s <= Max({0, l + s})
<1>1. l + s \in Int
  BY Durations DEF Passed
<1>2. CASE l + s <= 0
  BY <1>1, <1>2, MaxOfTwo
<1>3. CASE l + s >= 0
  BY <1>1, <1>3, MaxOfTwo
<1> QED BY <1>1, <1>2, <1>3

\* A timer that is set.
LEMMA TimerFacts ==
  ASSUME NEW delay \in Nat, SetTimer(delay)
  PROVE  /\ beat' \in BeatType
         /\ beat'.pc = "waiting"
         /\ beat'.timer >= delay /\ beat'.timer <= delay + MaxPause
<1>1. PICK late \in 0..MaxPause : beat' = [pc |-> "waiting", timer |-> delay + late]
  BY DEF SetTimer
<1>2. delay + late \in Nat /\ delay + late >= delay /\ delay + late <= delay + MaxPause
  BY Durations
<1> QED BY <1>1, <1>2 DEF BeatType

\* The numbers in the state.
LEMMA Numbers ==
  ASSUME Types
  PROVE  /\ txn.left \in Passed..LeaseDuration /\ txn.born \in Nat /\ guard.first \in Nat
         /\ acquire.left \in Passed..LeaseDuration /\ acquire.born \in Nat
         /\ acquire.age \in 0..MaxLatency
         /\ call.left \in Passed..LeaseDuration /\ call.age \in Nat
         /\ view \in Int /\ beat.timer \in Nat /\ skew \in Int /\ losses \in Nat /\ faults \in Nat
<1>1. txn.left \in Passed..LeaseDuration /\ txn.born \in Nat
  BY DEF Types, TxnType
<1>2. guard.first \in Nat
  BY DEF Types, GuardType
<1>3. /\ acquire.left \in Passed..LeaseDuration /\ acquire.born \in Nat
      /\ acquire.age \in 0..MaxLatency
  BY DEF Types, AcquireType
<1>4. call.left \in Passed..LeaseDuration /\ call.age \in Nat
  BY DEF Types, CallType
<1>5. beat.timer \in Nat
  BY DEF Types, BeatType
<1>6. skew \in Int
  BY Durations DEF Types
<1> QED BY <1>1, <1>2, <1>3, <1>4, <1>5, <1>6 DEF Types

\* Steps of the worker and its calls that bring no news of a lease.
LEMMA QuietKeeps ==
  ASSUME GuardInv, Types', UNCHANGED <<txn, skew>>, view' = view \/ view' <= 0,
         acquire'.pc = "granted" =>
           acquire.pc = "granted" /\ acquire'.left = acquire.left /\ acquire'.born = acquire.born,
         Renewed' => Renewed /\ call'.left = call.left,
         guard'.first = guard.first, guard'.lost => guard.lost,
         beat'.pc \in {"waiting", "calling"} => guard.first > 0,
         call'.rpc = "RenewLease" => guard.first > 0,
         call'.rpc = "RenewLease" /\ call'.reply = "refused" =>
           call.rpc = "RenewLease" /\ call.reply = "refused"
  PROVE  GuardInv'
<1>1. ViewInv'
  BY Numbers DEF GuardInv, ViewInv, Leased, Types
<1>2. LostInv'
  BY DEF GuardInv, LostInv, Gone
<1> QED BY <1>1, <1>2 DEF GuardInv

\* An operation asks for a lock.
LEMMA AcquireSendKeeps == ASSUME GuardInv, AcquireSend PROVE GuardInv'
<1>1. /\ guard' = [guard EXCEPT !.pc = "acquiring", !.acquired = @ + 1]
      /\ acquire' = [NoAcquire EXCEPT !.pc = "sent", !.heard = TRUE]
      /\ UNCHANGED <<txn, view, beat, call, stray, skew, losses, faults>>
  BY DEF AcquireSend
<1>2. guard' \in GuardType /\ guard'.first = guard.first /\ guard'.lost = guard.lost
  <2>1. PICK n : n = guard.acquired + 1
    OBVIOUS
  <2>2. guard \in GuardType /\ n \in Nat
    BY <2>1 DEF GuardInv, Types, GuardType
  <2>3. guard' = [guard EXCEPT !.pc = "acquiring", !.acquired = n]
    BY <1>1, <2>1
  <2> QED BY <2>2, <2>3 DEF GuardType
<1>3. acquire' \in AcquireType /\ acquire'.pc = "sent"
  BY <1>1, NoneTyped DEF AcquireType
<1>4. Types'
  BY <1>1, <1>2, <1>3 DEF GuardInv, Types
<1> QED BY <1>1, <1>2, <1>3, <1>4, QuietKeeps DEF GuardInv, LostInv, Renewed

\* What becomes of a request nobody waits for.
LEMMA UnheardFacts ==
  ASSUME Types, acquire' = NoAcquire \/ acquire' = [acquire EXCEPT !.heard = FALSE]
  PROVE  /\ acquire' \in AcquireType
         /\ acquire'.pc = "granted" =>
              acquire.pc = "granted" /\ acquire'.left = acquire.left /\ acquire'.born = acquire.born
<1>1. CASE acquire' = NoAcquire
  <2>1. acquire'.pc = "none"
    BY <1>1 DEF NoAcquire
  <2> QED BY <1>1, <2>1, NoneTyped
<1>2. CASE acquire' = [acquire EXCEPT !.heard = FALSE]
  BY <1>2 DEF Types, AcquireType
<1> QED BY <1>1, <1>2

\* A request fails, or nobody waits for it any more.
LEMMA AcquireFailKeeps == ASSUME GuardInv, AcquireFail \/ AcquireDrop PROVE GuardInv'
<1>1. /\ guard' = guard \/ guard' = [guard EXCEPT !.pc = "failed"]
      /\ acquire' = NoAcquire \/ acquire' = [acquire EXCEPT !.heard = FALSE]
      /\ UNCHANGED <<txn, view, beat, call, stray, skew, losses, faults>>
  BY DEF AcquireFail, AcquireDrop, Goto, Unheard
<1>2. guard' \in GuardType /\ guard'.first = guard.first /\ guard'.lost = guard.lost
  BY <1>1 DEF GuardInv, Types, GuardType
<1>3. /\ acquire' \in AcquireType
      /\ acquire'.pc = "granted" =>
           acquire.pc = "granted" /\ acquire'.left = acquire.left /\ acquire'.born = acquire.born
  BY <1>1, UnheardFacts DEF GuardInv
<1>4. Types'
  BY <1>1, <1>2, <1>3 DEF GuardInv, Types
<1> QED BY <1>1, <1>2, <1>3, <1>4, QuietKeeps DEF GuardInv, LostInv, Renewed

\* The timer fires and a renewal is sent.
LEMMA BeatFireKeeps == ASSUME GuardInv, BeatFire PROVE GuardInv'
<1>1. PICK fate \in {"answered", "fails", "hangs"} :
        call' = [NoCall EXCEPT !.rpc = "RenewLease", !.fate = fate]
  BY DEF BeatFire
<1>2. /\ beat.pc = "waiting" /\ beat' = [beat EXCEPT !.pc = "calling"]
      /\ losses' = Min({losses + 1, MaxLosses + 1})
      /\ faults' = faults \/ faults' = faults + 1
      /\ UNCHANGED <<txn, guard, view, acquire, stray, skew>>
  BY DEF BeatFire, Fault
<1>3. losses' \in Nat
  <2>1. PICK a, b : a = losses + 1 /\ b = MaxLosses + 1
    OBVIOUS
  <2>2. a \in Nat /\ b \in Nat /\ losses' = Min({a, b})
    BY <1>2, <2>1, Numbers, Durations DEF GuardInv
  <2> QED BY <2>2, MaxOfTwo
<1>4. call' \in CallType /\ call'.rpc = "RenewLease" /\ call'.reply = "none"
  BY <1>1, NoneTyped DEF CallType, NoCall
<1>5. beat' \in BeatType /\ beat'.pc = "calling"
  BY <1>2 DEF GuardInv, Types, BeatType
<1>6. faults' \in Nat
  BY <1>2 DEF GuardInv, Types
<1>7. Types'
  BY <1>2, <1>3, <1>4, <1>5, <1>6 DEF GuardInv, Types
<1>8. guard.first > 0
  BY <1>2 DEF GuardInv, LostInv
<1> QED BY <1>2, <1>4, <1>5, <1>7, <1>8, QuietKeeps DEF Renewed

\* A renewal is left out or fails, and the next is due soon.
LEMMA BeatWaitKeeps == ASSUME GuardInv, BeatSkip \/ BeatRetry PROVE GuardInv'
<1>1. minRenewalInterval \in Nat
  BY Durations
<1>2. /\ guard.first > 0 /\ SetTimer(minRenewalInterval)
      /\ call' = call \/ call' = NoCall
      /\ faults' = faults \/ faults' = faults + 1
      /\ UNCHANGED <<txn, guard, view, acquire, skew, losses>>
  BY DEF BeatSkip, BeatRetry, CallFails, Fault, GuardInv, LostInv
<1>3. beat' \in BeatType /\ beat'.pc = "waiting"
  BY <1>1, <1>2, TimerFacts
<1>4. call' \in CallType /\ (call' = call \/ call'.rpc = "none")
  BY <1>2, NoneTyped DEF GuardInv, Types, NoCall
<1>5. faults' \in Nat
  BY <1>2 DEF GuardInv, Types
<1>6. Types'
  BY <1>2, <1>3, <1>4, <1>5 DEF GuardInv, Types
<1> QED BY <1>2, <1>4, <1>6, QuietKeeps DEF Renewed

\* The heartbeat is stopped.
LEMMA BeatStopKeeps == ASSUME GuardInv, BeatStop PROVE GuardInv'
<1>1. /\ beat' = [pc |-> "stopped", timer |-> 0]
      /\ UNCHANGED <<txn, guard, view, acquire, call, stray, skew, losses, faults>>
  BY DEF BeatStop
<1>2. beat' \in BeatType /\ beat'.pc = "stopped"
  BY <1>1 DEF BeatType
<1>3. Types'
  BY <1>1, <1>2 DEF GuardInv, Types
<1> QED BY <1>1, <1>2, <1>3, QuietKeeps DEF GuardInv, LostInv, Renewed

\* ReleaseAll.
LEMMA ReleaseKeeps ==
  ASSUME GuardInv, ReleaseAll \/ ReleaseEnd \/ ReleaseReturn PROVE GuardInv'
<1>1. /\ \E l \in {"stopping", "ending", "done"} : guard' = [guard EXCEPT !.pc = l]
      /\ \/ call' = call \/ call' = NoCall
         \/ \E fate \in {"answered", "fails", "hangs"} :
              call' = [NoCall EXCEPT !.rpc = "EndTransaction", !.fate = fate]
      /\ view' = view \/ view' = Unset
      /\ UNCHANGED <<txn, beat, acquire, skew, losses, faults>>
  BY DEF ReleaseAll, ReleaseEnd, ReleaseReturn, CallFails, Goto
<1>2. guard' \in GuardType /\ guard'.first = guard.first /\ guard'.lost = guard.lost
  BY <1>1 DEF GuardInv, Types, GuardType
<1>3. call' \in CallType /\ (call' = call \/ call'.rpc # "RenewLease")
  <2>1. CASE call' = call \/ call' = NoCall
    BY <2>1, NoneTyped DEF GuardInv, Types, NoCall
  <2>2. ASSUME NEW fate \in {"answered", "fails", "hangs"},
               call' = [NoCall EXCEPT !.rpc = "EndTransaction", !.fate = fate]
        PROVE  call' \in CallType /\ call'.rpc # "RenewLease"
    BY <2>2, NoneTyped DEF CallType
  <2> QED BY <1>1, <2>1, <2>2
<1>4. view' \in Int /\ (view' = view \/ view' <= 0)
  BY <1>1, Durations DEF GuardInv, Types
<1>5. Types'
  BY <1>1, <1>2, <1>3, <1>4 DEF GuardInv, Types
<1> QED BY <1>1, <1>2, <1>3, <1>4, <1>5, QuietKeeps DEF GuardInv, LostInv, Renewed

\* The worker dies.
LEMMA CrashKeeps == ASSUME GuardInv, Crash PROVE GuardInv'
<1>1. /\ guard' = [guard EXCEPT !.pc = "done"]
      /\ beat' = [pc |-> "stopped", timer |-> 0]
      /\ view' = Unset
      /\ acquire' = NoAcquire \/ acquire' = [acquire EXCEPT !.heard = FALSE]
      /\ call' = NoCall
      /\ UNCHANGED <<txn, skew, losses, faults>>
  BY DEF Crash, Goto, Unheard
<1>2. guard' \in GuardType /\ guard'.first = guard.first /\ guard'.lost = guard.lost
  BY <1>1 DEF GuardInv, Types, GuardType
<1>3. /\ acquire' \in AcquireType
      /\ acquire'.pc = "granted" =>
           acquire.pc = "granted" /\ acquire'.left = acquire.left /\ acquire'.born = acquire.born
  BY <1>1, UnheardFacts DEF GuardInv
<1>4. call' \in CallType /\ call'.rpc = "none"
  BY <1>1, NoneTyped DEF NoCall
<1>5. beat' \in BeatType /\ beat'.pc = "stopped"
  BY <1>1 DEF BeatType
<1>6. view' \in Int /\ view' <= 0
  BY <1>1, Durations
<1>7. Types'
  BY <1>1, <1>2, <1>3, <1>4, <1>5, <1>6 DEF GuardInv, Types
<1> QED BY <1>1, <1>2, <1>3, <1>4, <1>5, <1>6, <1>7, QuietKeeps DEF Renewed

\* The coordinator meets the transaction, or its tombstone.
LEMMA AcquireEnsureKeeps == ASSUME GuardInv, AcquireEnsure PROVE GuardInv'
<1>1. /\ \/ acquire' = [acquire EXCEPT !.pc = "refused"]
         \/ acquire' = [acquire EXCEPT !.pc = "pending"]
      /\ \/ txn' = txn
         \/ /\ txn.state = "unknown"
            /\ txn' = [txn EXCEPT !.state = "active", !.born = @ + 1]
      /\ UNCHANGED <<guard, view, beat, call, skew, losses, faults>>
  BY DEF AcquireEnsure, Tombstone, GuardInv, Types, TxnType
<1>2. acquire' \in AcquireType /\ acquire'.pc # "granted"
  BY <1>1 DEF GuardInv, Types, AcquireType
<1>3. CASE txn' = txn
  <2>1. Types'
    BY <1>1, <1>2, <1>3 DEF GuardInv, Types
  <2> QED BY <1>1, <1>2, <1>3, <2>1, QuietKeeps DEF GuardInv, LostInv, Renewed
<1>4. CASE txn.state = "unknown" /\ txn' = [txn EXCEPT !.state = "active", !.born = @ + 1]
  <2>1. PICK n : n = txn.born + 1
    OBVIOUS
  <2>2. n \in Nat /\ n > txn.born /\ txn.born \in Nat /\ guard.first \in Nat
    BY <2>1, Numbers DEF GuardInv
  <2>3. txn' = [txn EXCEPT !.state = "active", !.born = n]
    BY <1>4, <2>1
  <2>4. txn' \in TxnType /\ txn'.state = "active" /\ txn'.born = n /\ txn'.started = txn.started
    BY <2>2, <2>3 DEF GuardInv, Types, TxnType
  <2>5. Types'
    BY <1>1, <1>2, <2>4 DEF GuardInv, Types
  <2>6. ViewInv'
    BY <1>1, <1>4, <2>4 DEF GuardInv, ViewInv, Leased
  <2>7. LostInv'
    BY <1>1, <1>2, <2>2, <2>4 DEF GuardInv, LostInv, Gone
  <2> QED BY <2>5, <2>6, <2>7 DEF GuardInv
<1> QED BY <1>1, <1>3, <1>4

\* A lock is granted: the lease is started afresh.
LEMMA AcquireGrantKeeps == ASSUME GuardInv, AcquireGrant PROVE GuardInv'
<1>1. /\ txn.state = "active"
      /\ txn' = [txn EXCEPT !.held = TRUE, !.started = TRUE, !.left = LeaseDuration]
      /\ \/ acquire' = [acquire EXCEPT !.pc = "granted", !.left = LeaseDuration, !.born = txn.born]
         \/ acquire' = NoAcquire
      /\ UNCHANGED <<guard, view, beat, call, skew, losses, faults>>
  BY DEF AcquireGrant
<1>2. LeaseDuration \in Passed..LeaseDuration
  BY Durations
<1>3. /\ txn' \in TxnType /\ txn'.state = "active" /\ txn'.born = txn.born
      /\ txn'.left = LeaseDuration
  BY <1>1, <1>2 DEF GuardInv, Types, TxnType
<1>4. /\ acquire' \in AcquireType
      /\ acquire'.pc = "granted" => acquire'.left = LeaseDuration /\ acquire'.born = txn.born
  <2>1. CASE acquire' = NoAcquire
    <3>1. acquire'.pc = "none"
      BY <2>1 DEF NoAcquire
    <3> QED BY <2>1, <3>1, NoneTyped
  <2>2. CASE acquire' = [acquire EXCEPT !.pc = "granted", !.left = LeaseDuration, !.born = txn.born]
    <3>1. txn.born \in Nat
      BY Numbers DEF GuardInv
    <3> QED BY <1>2, <2>2, <3>1 DEF GuardInv, Types, AcquireType
  <2> QED BY <1>1, <2>1, <2>2
<1>5. Types'
  BY <1>1, <1>3, <1>4 DEF GuardInv, Types
<1>6. ViewInv'
  <2>1. call.left <= LeaseDuration
    BY Numbers, Durations DEF GuardInv
  <2> QED BY <1>1, <1>3, <1>4, <2>1, Durations DEF GuardInv, ViewInv, Leased, Renewed
<1>7. LostInv'
  BY <1>1, <1>3, <1>4, Numbers DEF GuardInv, LostInv, Gone
<1> QED BY <1>5, <1>6, <1>7 DEF GuardInv

\* The heartbeat's timer is set by a deadline that was just noted, or is left.
LEMMA PacedTimer ==
  ASSUME view' \in Int, SetTimer(renewalDelay(view'))
  PROVE  beat' \in BeatType /\ beat'.pc = "waiting"
<1>1. renewalDelay(view') \in Nat
  BY DelayFacts
<1> QED BY <1>1, TimerFacts

\* A deadline that is not after the lease's stays behind it when it is noted.
LEMMA NotedBehind ==
  ASSUME GuardInv, NEW l \in Passed..LeaseDuration, noteLeaseDeadline(l), skew' = skew
  PROVE  /\ view' \in Int
         /\ view' > 0 => view' <= LeaseDuration + skew'
         /\ view' > 0 /\ l <= txn.left => view' <= txn.left + skew'
<1>1. skew \in -MaxSkew..MaxSkew /\ skew \in Int /\ txn.left \in Int
  BY Numbers, Durations DEF GuardInv, Types
<1>2. view' = Max({0, l + skew})
  BY DEF noteLeaseDeadline
<1>3. view' \in Nat /\ (view' > 0 => view' = l + skew)
  BY <1>1, <1>2, NoteFacts
<1> QED BY <1>1, <1>3, Durations

\* The grant reaches the worker.
LEMMA AcquireReturnKeeps == ASSUME GuardInv, AcquireReturn PROVE GuardInv'
<1>1. /\ acquire.pc = "granted"
      /\ guard' = [guard EXCEPT !.pc = "working", !.first = IF @ = 0 THEN acquire.born ELSE @]
      /\ noteLeaseDeadline(acquire.left)
      /\ (beat.pc = "none" /\ SetTimer(renewalDelay(view'))) \/ beat' = beat
      /\ acquire' = NoAcquire
      /\ UNCHANGED <<txn, call, skew, losses, faults>>
  BY DEF AcquireReturn
<1>2. /\ acquire.born \in Nat /\ acquire.born > 0 /\ acquire.born <= txn.born
      /\ txn.born \in Nat /\ guard.first \in Nat
  BY <1>1, Numbers DEF GuardInv, LostInv
<1>3. /\ guard' \in GuardType /\ guard'.lost = guard.lost
      /\ guard.first = 0 => guard'.first = acquire.born
      /\ guard.first # 0 => guard'.first = guard.first
  <2>1. PICK f : f = IF guard.first = 0 THEN acquire.born ELSE guard.first
    OBVIOUS
  <2>2. f \in Nat
    BY <1>2, <2>1
  <2>3. guard' = [guard EXCEPT !.pc = "working", !.first = f]
    BY <1>1, <2>1
  <2> QED BY <2>1, <2>2, <2>3 DEF GuardInv, Types, GuardType
<1>4. acquire.left \in Passed..LeaseDuration
  BY Numbers DEF GuardInv
<1>5. /\ view' \in Int
      /\ view' > 0 => view' <= LeaseDuration + skew'
      /\ view' > 0 /\ acquire.left <= txn.left => view' <= txn.left + skew'
  BY <1>1, <1>4, NotedBehind
<1>6. beat' \in BeatType
  BY <1>1, <1>5, PacedTimer DEF GuardInv, Types
<1>7. acquire' \in AcquireType /\ acquire'.pc = "none"
  BY <1>1, NoneTyped DEF NoAcquire
<1>8. Types'
  BY <1>1, <1>3, <1>5, <1>6, <1>7 DEF GuardInv, Types
<1>9. ViewInv'
  BY <1>1, <1>5, <1>7 DEF GuardInv, ViewInv, Leased, Renewed
<1>10. /\ guard'.first > 0 /\ guard'.first <= txn'.born
       /\ guard.first > 0 => guard'.first = guard.first
  BY <1>1, <1>2, <1>3 DEF GuardInv, LostInv
<1>11. LostInv'
  BY <1>1, <1>3, <1>7, <1>10 DEF GuardInv, LostInv, Gone
<1> QED BY <1>8, <1>9, <1>11 DEF GuardInv

\* Steps of the coordinator, which extend a lease or end it.
LEMMA CoordinatorKeeps ==
  ASSUME GuardInv, Types', UNCHANGED <<guard, view, beat, skew>>,
         txn'.born = txn.born, txn'.state = "active" => txn.state = "active",
         txn'.state = "unknown" => ~txn'.started,
         Leased' => Leased /\ txn.left <= txn'.left,
         acquire'.pc = "granted" =>
           acquire.pc = "granted" /\ acquire'.left = acquire.left /\ acquire'.born = acquire.born,
         call'.rpc = "RenewLease" => call.rpc = "RenewLease",
         Renewed' => call'.left = txn'.left \/ (Renewed /\ call'.left = call.left),
         call'.rpc = "RenewLease" /\ call'.reply = "refused" =>
           txn'.state # "active" \/ call.reply = "refused"
  PROVE  GuardInv'
<1>1. ViewInv'
  <2>1. txn'.left \in Int /\ txn.left \in Int /\ call.left \in Int /\ acquire.left \in Int
    BY Numbers, Durations DEF Types, TxnType, GuardInv
  <2>2. skew \in Int /\ view \in Int
    BY Numbers DEF GuardInv
  <2>3. Leased' => /\ view' > 0 => view' <= txn'.left + skew'
                   /\ acquire'.pc = "granted" => acquire'.left <= txn'.left
                   /\ Renewed' => call'.left <= txn'.left
    BY <2>1, <2>2 DEF GuardInv, ViewInv
  <2> QED BY <2>3 DEF GuardInv, ViewInv
<1>2. LostInv'
  BY DEF GuardInv, LostInv, Gone
<1> QED BY <1>1, <1>2 DEF GuardInv

\* registry.renew: an active lease is extended in full, and nothing else happens.
LEMMA RenewFacts ==
  ASSUME Types, renew
  PROVE  /\ txn' \in TxnType /\ losses' \in Nat
         /\ txn'.state = txn.state /\ txn'.born = txn.born /\ txn'.started = txn.started
         /\ txn.left <= txn'.left
         /\ Leased => txn'.left = LeaseDuration /\ losses' = 0
         /\ ~Leased => txn' = txn /\ losses' = losses
<1>1. txn.left \in Int /\ txn.left <= LeaseDuration /\ LeaseDuration \in Passed..LeaseDuration
  BY Numbers, Durations
<1>2. CASE Leased
  <2>1. txn' = [txn EXCEPT !.left = LeaseDuration] /\ losses' = 0
    BY <1>2 DEF renew, Leased
  <2> QED BY <1>1, <1>2, <2>1 DEF Types, TxnType
<1>3. CASE ~Leased
  <2>1. txn' = txn /\ losses' = losses
    BY <1>3 DEF renew, Leased
  <2> QED BY <1>1, <1>3, <2>1 DEF Types
<1> QED BY <1>2, <1>3

\* What the coordinator answers a renewal.
LEMMA RenewReply ==
  ASSUME Types, RenewHandle
  PROVE  /\ call' \in CallType
         /\ call.rpc = "RenewLease" /\ call.reply = "none"
         /\ call'.rpc = "RenewLease" /\ call'.fate = call.fate /\ call'.age = call.age
         /\ call'.reply = "refused" => txn.state # "active"
         /\ call'.reply = "ok" <=> Leased
         /\ call'.reply # "none"
         /\ call.fate = "answered" => call'.left = txn'.left
<1>1. PICK rep : rep = IF txn.state # "active" THEN "refused"
                       ELSE IF txn.started THEN "ok" ELSE "unstarted"
  OBVIOUS
<1>2. PICK l : l = IF call.fate = "answered" THEN txn'.left ELSE call.left
  OBVIOUS
<1>3. call' = [call EXCEPT !.reply = rep, !.left = l]
  BY <1>1, <1>2 DEF RenewHandle
<1>4. txn'.left \in Passed..LeaseDuration
  BY RenewFacts DEF RenewHandle, TxnType
<1>5. l \in Passed..LeaseDuration /\ (call.fate = "answered" => l = txn'.left)
  BY <1>2, <1>4, Numbers
<1>6. /\ rep \in {"none", "ok", "unstarted", "refused"} /\ rep # "none"
      /\ rep = "refused" => txn.state # "active"
      /\ rep = "ok" <=> Leased
  <2>1. txn.started \in BOOLEAN
    BY DEF Types, TxnType
  <2> QED BY <1>1, <2>1 DEF Leased
<1>7. /\ call' \in CallType /\ call'.rpc = call.rpc /\ call'.fate = call.fate
      /\ call'.age = call.age /\ call'.reply = rep /\ call'.left = l
  BY <1>3, <1>5, <1>6 DEF Types, CallType
<1> QED BY <1>5, <1>6, <1>7 DEF RenewHandle

\* A renewal is handled.
LEMMA RenewHandleKeeps == ASSUME GuardInv, RenewHandle PROVE GuardInv'
<1>1. renew /\ UNCHANGED <<guard, view, beat, acquire, skew, faults>>
  BY DEF RenewHandle
<1>2. Types
  BY DEF GuardInv
<1>3. Types'
  BY <1>1, <1>2, RenewFacts, RenewReply DEF Types
<1>4. Leased' <=> Leased
  BY <1>1, <1>2, RenewFacts DEF Leased
<1>5. Renewed' => call'.left = txn'.left
  BY <1>2, RenewReply DEF Renewed
<1>6. txn'.state = "unknown" => ~txn'.started
  BY <1>1, <1>2, RenewFacts DEF GuardInv, ViewInv
<1>7. call.rpc = "RenewLease" /\ (call'.reply = "refused" => txn'.state # "active")
  BY <1>1, <1>2, RenewFacts, RenewReply
<1>8. txn'.born = txn.born /\ txn'.state = txn.state /\ txn.left <= txn'.left
  BY <1>1, <1>2, RenewFacts
<1> QED BY <1>1, <1>3, <1>4, <1>5, <1>6, <1>7, <1>8, CoordinatorKeeps

\* The heartbeat hears of its lease.
LEMMA BeatRenewedKeeps == ASSUME GuardInv, BeatRenewed PROVE GuardInv'
<1>1. /\ call.rpc = "RenewLease" /\ call.fate = "answered"
      /\ \/ call.reply = "ok" /\ noteLeaseDeadline(call.left)
         \/ call.reply = "unstarted" /\ view' = view
      /\ SetTimer(renewalDelay(view'))
      /\ call' = NoCall
      /\ UNCHANGED <<txn, guard, acquire, skew, losses, faults>>
  BY DEF BeatRenewed
<1>2. call' \in CallType /\ call'.rpc = "none"
  BY <1>1, NoneTyped DEF NoCall
<1>3. /\ view' \in Int
      /\ view' > 0 => view' <= LeaseDuration + skew'
      /\ view' > 0 /\ Leased => view' <= txn.left + skew'
  <2>1. CASE call.reply = "ok" /\ noteLeaseDeadline(call.left)
    <3>1. call.left \in Passed..LeaseDuration
      BY Numbers DEF GuardInv
    <3>2. Leased => call.left <= txn.left
      BY <1>1, <2>1 DEF GuardInv, ViewInv, Renewed
    <3> QED BY <1>1, <2>1, <3>1, <3>2, NotedBehind
  <2>2. CASE view' = view
    BY <1>1, <2>2 DEF GuardInv, ViewInv, Types
  <2> QED BY <1>1, <2>1, <2>2
<1>4. beat' \in BeatType
  BY <1>1, <1>3, PacedTimer
<1>5. Types'
  BY <1>1, <1>2, <1>3, <1>4 DEF GuardInv, Types
<1>6. ViewInv'
  BY <1>1, <1>2, <1>3 DEF GuardInv, ViewInv, Leased, Renewed
<1>7. LostInv'
  BY <1>1, <1>2 DEF GuardInv, LostInv, Gone
<1> QED BY <1>5, <1>6, <1>7 DEF GuardInv

\* The heartbeat is told that its transaction is gone.
LEMMA BeatLostKeeps == ASSUME GuardInv, BeatLost PROVE GuardInv'
<1>1. /\ call.rpc = "RenewLease" /\ call.reply = "refused"
      /\ guard' = [guard EXCEPT !.lost = TRUE]
      /\ beat' = [pc |-> "stopped", timer |-> 0]
      /\ call' = NoCall
      /\ UNCHANGED <<txn, view, acquire, skew, losses, faults>>
  BY DEF BeatLost
<1>2. guard' \in GuardType /\ guard'.first = guard.first
  BY <1>1 DEF GuardInv, Types, GuardType
<1>3. call' \in CallType /\ call'.rpc = "none"
  BY <1>1, NoneTyped DEF NoCall
<1>4. beat' \in BeatType /\ beat'.pc = "stopped"
  BY <1>1 DEF BeatType
<1>5. Types'
  BY <1>1, <1>2, <1>3, <1>4 DEF GuardInv, Types
<1>6. ViewInv'
  BY <1>1, <1>3 DEF GuardInv, ViewInv, Leased, Renewed
<1>7. LostInv'
  BY <1>1, <1>2, <1>3, <1>4 DEF GuardInv, LostInv, Gone
<1> QED BY <1>5, <1>6, <1>7 DEF GuardInv

\* EndTransaction ends an active transaction and leaves any other alone.
LEMMA EndFacts ==
  ASSUME Types, end
  PROVE  /\ txn' \in TxnType /\ txn'.born = txn.born
         /\ txn' = txn \/ txn'.state = "ended"
<1>1. Passed \in Passed..LeaseDuration
  BY Durations
<1>2. txn' = [txn EXCEPT !.state = "ended", !.held = FALSE, !.left = Passed] \/ txn' = txn
  BY DEF end
<1> QED BY <1>1, <1>2 DEF Types, TxnType

\* EndTransaction is handled.
LEMMA EndHandleKeeps == ASSUME GuardInv, EndHandle PROVE GuardInv'
<1>1. /\ call.rpc = "EndTransaction" /\ end
      /\ call' = [call EXCEPT !.reply = "ok"]
      /\ UNCHANGED <<guard, view, beat, acquire, skew, losses, faults>>
  BY DEF EndHandle
<1>2. call' \in CallType /\ call'.rpc = "EndTransaction"
  BY <1>1 DEF GuardInv, Types, CallType
<1>3. /\ txn' \in TxnType /\ txn'.born = txn.born
      /\ txn' = txn \/ txn'.state = "ended"
  BY <1>1, EndFacts DEF GuardInv
<1>4. Types'
  BY <1>1, <1>2, <1>3 DEF GuardInv, Types
<1>5. txn.left \in Int
  BY Numbers, Durations DEF GuardInv
<1>6. txn'.state = "unknown" => ~txn'.started
  BY <1>3 DEF GuardInv, ViewInv
<1>7. Leased' => Leased /\ txn.left <= txn'.left
  BY <1>3, <1>5 DEF Leased
<1> QED BY <1>1, <1>2, <1>3, <1>4, <1>6, <1>7, CoordinatorKeeps DEF Renewed

\* A request whose call was given up reaches the coordinator or is lost.
LEMMA StrayKeeps == ASSUME GuardInv, StrayArrives PROVE GuardInv'
<1>1. /\ renew \/ (txn' = txn /\ losses' = losses) \/ (end /\ losses' = losses)
      /\ UNCHANGED <<guard, view, beat, acquire, call, skew, faults>>
  BY DEF StrayArrives
<1>2. Types
  BY DEF GuardInv
<1>3. /\ txn' \in TxnType /\ losses' \in Nat /\ txn'.born = txn.born
      /\ txn'.state = "active" => txn.state = "active"
      /\ txn'.state = "unknown" => ~txn'.started
      /\ Leased' => Leased /\ txn.left <= txn'.left
  <2>1. CASE renew
    BY <1>2, <2>1, RenewFacts DEF Leased, GuardInv, ViewInv
  <2>2. CASE txn' = txn /\ losses' = losses
    BY <1>2, <2>2, Numbers, Durations DEF Leased, GuardInv, ViewInv, Types
  <2>3. CASE end /\ losses' = losses
    <3>1. txn.left \in Int
      BY <1>2, Numbers, Durations
    <3> QED BY <1>2, <2>3, <3>1, EndFacts DEF Leased, GuardInv, ViewInv, Types
  <2> QED BY <1>1, <2>1, <2>2, <2>3
<1>4. Types'
  BY <1>1, <1>2, <1>3 DEF Types
<1> QED BY <1>1, <1>3, <1>4, CoordinatorKeeps DEF Renewed

\* The sweeper revokes the transaction.
LEMMA RevokeKeeps == ASSUME GuardInv, revoke PROVE GuardInv'
<1>1. /\ txn' = [txn EXCEPT !.state = "revoked", !.held = FALSE]
      /\ UNCHANGED <<guard, view, beat, acquire, call, skew, losses, faults>>
  BY DEF revoke
<1>2. txn' \in TxnType /\ txn'.born = txn.born /\ txn'.state = "revoked"
  BY <1>1 DEF GuardInv, Types, TxnType
<1>3. Types'
  BY <1>1, <1>2 DEF GuardInv, Types
<1> QED BY <1>1, <1>2, <1>3, CoordinatorKeeps DEF Renewed, Leased

\* The coordinator restarts.
LEMMA RestartKeeps == ASSUME GuardInv, Restart PROVE GuardInv'
<1>1. /\ txn' = [txn EXCEPT !.state = "unknown", !.held = FALSE, !.started = FALSE,
                            !.left = Passed]
      /\ acquire' = [acquire EXCEPT !.pc = "refused"] \/ acquire' = acquire
      /\ faults' = faults + 1
      /\ UNCHANGED <<guard, view, beat, call, skew, losses>>
  BY DEF Restart, Fault
<1>2. Passed \in Passed..LeaseDuration
  BY Durations
<1>3. /\ txn' \in TxnType /\ txn'.born = txn.born
      /\ txn'.state = "unknown" /\ ~txn'.started
  BY <1>1, <1>2 DEF GuardInv, Types, TxnType
<1>4. acquire' \in AcquireType /\ (acquire' = acquire \/ acquire'.pc = "refused")
  BY <1>1 DEF GuardInv, Types, AcquireType
<1>5. Types'
  BY <1>1, <1>3, <1>4 DEF GuardInv, Types
<1> QED BY <1>1, <1>3, <1>4, <1>5, CoordinatorKeeps DEF Renewed, Leased

\* What a tick does to the state: every duration is one shorter.
LEMMA TickFacts ==
  ASSUME Types, Tick
  PROVE  /\ txn' \in TxnType /\ txn'.state = txn.state /\ txn'.started = txn.started
         /\ txn'.born = txn.born /\ txn'.left = Less(txn.left)
         /\ acquire' \in AcquireType /\ acquire'.pc = acquire.pc
         /\ acquire'.heard = acquire.heard /\ acquire'.born = acquire.born
         /\ acquire'.left = Less(acquire.left)
         /\ acquire.pc = "granted" /\ acquire.age # MaxLatency => acquire'.age = acquire.age + 1
         /\ call' \in CallType /\ call'.rpc = call.rpc /\ call'.fate = call.fate
         /\ call'.reply = call.reply /\ call'.left = Less(call.left)
         /\ call.rpc # "none" => call'.age = call.age + 1
         /\ beat' \in BeatType /\ beat'.pc = beat.pc
         /\ beat.timer > 0 => beat'.timer = beat.timer - 1
         /\ view' \in Int /\ (view' > 0 => view' = view - 1) /\ view' <= view
         /\ UNCHANGED <<guard, stray, skew, losses, faults>>
<1>1. /\ txn' \in TxnType /\ txn'.state = txn.state /\ txn'.started = txn.started
      /\ txn'.born = txn.born /\ txn'.left = Less(txn.left)
  <2>1. Less(txn.left) \in Passed..LeaseDuration
    BY Numbers, LessFacts
  <2>2. txn' = [txn EXCEPT !.left = Less(txn.left)]
    BY DEF Tick
  <2> QED BY <2>1, <2>2 DEF Types, TxnType
<1>2. /\ acquire' \in AcquireType /\ acquire'.pc = acquire.pc
      /\ acquire'.heard = acquire.heard /\ acquire'.born = acquire.born
      /\ acquire'.left = Less(acquire.left)
      /\ acquire.pc = "granted" /\ acquire.age # MaxLatency => acquire'.age = acquire.age + 1
  <2>1. Less(acquire.left) \in Passed..LeaseDuration
    BY Numbers, LessFacts
  <2>2. PICK a : a = IF acquire.pc = "granted" THEN Min({acquire.age + 1, MaxLatency})
                     ELSE acquire.age
    OBVIOUS
  <2>3. acquire' = [acquire EXCEPT !.left = Less(acquire.left), !.age = a]
    BY <2>2 DEF Tick
  <2>4. PICK b : b = acquire.age + 1
    OBVIOUS
  <2>5. b \in Nat /\ MaxLatency \in Nat /\ acquire.age \in 0..MaxLatency
    BY <2>4, Numbers, Durations
  <2>6. /\ acquire.pc = "granted" => a = Min({b, MaxLatency})
        /\ acquire.pc # "granted" => a = acquire.age
    BY <2>2, <2>4
  <2>7. /\ b <= MaxLatency => Min({b, MaxLatency}) = b
        /\ b >= MaxLatency => Min({b, MaxLatency}) = MaxLatency
    <3>1. b \in Int /\ MaxLatency \in Int
      BY <2>5
    <3> QED BY ONLY <3>1, MaxOfTwo
  <2>8. /\ a \in 0..MaxLatency
        /\ acquire.pc = "granted" /\ acquire.age # MaxLatency => a = acquire.age + 1
    BY <2>4, <2>5, <2>6, <2>7
  <2> QED BY <2>1, <2>3, <2>8 DEF Types, AcquireType
<1>3. /\ call' \in CallType /\ call'.rpc = call.rpc /\ call'.fate = call.fate
      /\ call'.reply = call.reply /\ call'.left = Less(call.left)
      /\ call.rpc # "none" => call'.age = call.age + 1
  <2>1. Less(call.left) \in Passed..LeaseDuration
    BY Numbers, LessFacts
  <2>2. PICK a : a = IF call.rpc = "none" THEN 0 ELSE call.age + 1
    OBVIOUS
  <2>3. call' = [call EXCEPT !.left = Less(call.left), !.age = a]
    BY <2>2 DEF Tick
  <2>4. a \in Nat /\ (call.rpc # "none" => a = call.age + 1)
    BY <2>2, Numbers
  <2> QED BY <2>1, <2>3, <2>4 DEF Types, CallType
<1>4. /\ beat' \in BeatType /\ beat'.pc = beat.pc
      /\ beat.timer > 0 => beat'.timer = beat.timer - 1
  <2>1. PICK a, b : a = beat.timer - 1 /\ b = Max({a, 0})
    OBVIOUS
  <2>2. a \in Int
    BY <2>1, Numbers
  <2>3. b \in Nat /\ (beat.timer > 0 => b = beat.timer - 1)
    BY <2>1, <2>2, Numbers, MaxOfTwo
  <2>4. beat' = [beat EXCEPT !.timer = b]
    BY <2>1 DEF Tick
  <2> QED BY <2>3, <2>4 DEF Types, BeatType
<1>5. view' \in Int /\ (view' > 0 => view' = view - 1) /\ view' <= view
  BY DEF Tick, Types
<1>6. UNCHANGED <<guard, stray, skew, losses, faults>>
  BY DEF Tick
<1> QED BY <1>1, <1>2, <1>3, <1>4, <1>5, <1>6

\* Time passes: what was behind stays behind.
LEMMA TickKeeps == ASSUME GuardInv, Tick PROVE GuardInv'
<1>1. Types
  BY DEF GuardInv
<1>2. Types'
  BY <1>1, TickFacts DEF Types
<1>3. ASSUME NEW c \in Passed..LeaseDuration, NEW d \in Passed..LeaseDuration, c <= d
      PROVE  Less(c) <= Less(d)
  <2>1. /\ Less(c) \in Int /\ Less(d) \in Int /\ Less(c) <= c /\ Less(d) >= -1
        /\ c >= 0 => Less(c) = c - 1
        /\ d >= 0 => Less(d) = d - 1
    BY LessFacts, Durations
  <2> QED BY <1>3, <2>1, Durations
<1>4. ViewInv'
  <2>1. Leased' <=> Leased
    BY <1>1, TickFacts DEF Leased
  <2>2. txn'.state = "unknown" => ~txn'.started
    BY <1>1, TickFacts DEF GuardInv, ViewInv
  <2>3. view \in Int /\ skew \in Int /\ skew' = skew /\ txn.left \in Passed..LeaseDuration
    BY <1>1, Numbers, TickFacts
  <2>4. view' > 0 => view' <= LeaseDuration + skew'
    BY <1>1, <2>3, TickFacts, Durations DEF GuardInv, ViewInv
  <2>5. Leased /\ view' > 0 => view' <= txn'.left + skew'
    <3>1. txn'.left = Less(txn.left) /\ Less(txn.left) \in Int /\ txn.left - 1 <= Less(txn.left)
      BY <1>1, <2>3, TickFacts, LessFacts, Durations
    <3>2. view' \in Int /\ (view' > 0 => view' = view - 1)
      BY <1>1, TickFacts
    <3> QED BY <2>3, <3>1, <3>2, Durations DEF GuardInv, ViewInv
  <2>6. Leased /\ acquire'.pc = "granted" => acquire'.left <= txn'.left
    BY <1>1, <1>3, Numbers, TickFacts DEF GuardInv, ViewInv
  <2>7. Leased /\ Renewed' => call'.left <= txn'.left
    BY <1>1, <1>3, Numbers, TickFacts DEF GuardInv, ViewInv, Renewed
  <2> QED BY <2>1, <2>2, <2>4, <2>5, <2>6, <2>7 DEF ViewInv
<1>5. LostInv'
  BY <1>1, TickFacts DEF GuardInv, LostInv, Gone
<1> QED BY <1>2, <1>4, <1>5 DEF GuardInv

\* Every step of the worker, the network and the coordinator keeps GuardInv.
LEMMA GuardStep == GuardInv /\ [Next]_vars => GuardInv'
<1> SUFFICES ASSUME GuardInv, [Next]_vars PROVE GuardInv'
  OBVIOUS
<1>1. CASE Acquire
  BY <1>1, AcquireSendKeeps, AcquireEnsureKeeps, AcquireGrantKeeps, AcquireReturnKeeps,
     AcquireFailKeeps DEF Acquire
<1>2. CASE Heartbeat
  BY <1>2, BeatFireKeeps, BeatWaitKeeps, BeatRenewedKeeps, BeatLostKeeps, BeatStopKeeps
     DEF Heartbeat
<1>3. CASE ReleaseAll \/ Release
  BY <1>3, ReleaseKeeps DEF Release
<1>4. CASE Handle \/ StrayArrives \/ revoke \/ Restart
  BY <1>4, RenewHandleKeeps, EndHandleKeeps, StrayKeeps, RevokeKeeps, RestartKeeps DEF Handle
<1>5. CASE Crash \/ Tick
  BY <1>5, CrashKeeps, TickKeeps
<1>6. CASE UNCHANGED vars
  BY <1>6 DEF vars, GuardInv, Types, ViewInv, LostInv, Leased, Renewed, Gone
<1> QED BY <1>1, <1>2, <1>3, <1>4, <1>5, <1>6 DEF Next

\* The states Begin makes.
LEMMA GuardInit == Init => GuardInv
<1> SUFFICES ASSUME Init PROVE GuardInv
  OBVIOUS
<1>1. txn \in TxnType /\ txn.state = "unknown" /\ ~txn.started /\ txn.born = 0
  BY Durations DEF Init, TxnType
<1>2. guard \in GuardType /\ guard.first = 0 /\ ~guard.lost
  BY DEF Init, GuardType
<1>3. beat \in BeatType /\ beat.pc = "none"
  BY DEF Init, BeatType
<1>4. acquire \in AcquireType /\ acquire.pc = "none"
  BY NoneTyped DEF Init, NoAcquire
<1>5. call \in CallType /\ call.rpc = "none"
  BY NoneTyped DEF Init, NoCall
<1>6. view = -1
  BY Durations DEF Init
<1>7. Types
  BY <1>1, <1>2, <1>3, <1>4, <1>5, <1>6 DEF Init, Types
<1>8. ViewInv
  BY <1>1, <1>6 DEF ViewInv, Leased
<1>9. LostInv
  BY <1>1, <1>2, <1>3, <1>4, <1>5 DEF LostInv, Gone
<1> QED BY <1>7, <1>8, <1>9 DEF GuardInv

\* The invariant that relates the worker's view, the answers on their way to it,
\* and the coordinator's transaction holds always.
THEOREM GuardInvariant == Spec => []GuardInv
BY GuardInit, GuardStep, PTL DEF Spec

\* The worker never believes in more lease than there is (noteLeaseDeadline), for
\* any lease, latency, skew and number of faults.
THEOREM ViewStaysBehind == Spec => []ViewNotAhead
<1>1. GuardInv => ViewNotAhead
  BY DEF GuardInv, ViewInv, Leased, ViewNotAhead
<1> QED BY <1>1, GuardInvariant, PTL

\* When the heartbeat closes lost, the transaction of the guard's first grant is
\* gone, and stays gone.
THEOREM LossIsReal == Spec => []LostIsTrue
<1>1. GuardInv => LostIsTrue
  BY DEF GuardInv, LostInv, Gone, LostIsTrue
<1> QED BY <1>1, GuardInvariant, PTL

\* How long renewals that are lost take, one more and one fewer.
LEMMA RoundsFacts ==
  /\ Round \in Nat /\ Round = MaxLatency + minRenewalInterval + MaxPause
  /\ \A k \in Nat : /\ Rounds(k) \in Nat /\ Rounds(k) >= MaxLatency
                    /\ Rounds(k + 1) = Rounds(k) + Round
<1>1. Round \in Nat /\ Round = MaxLatency + minRenewalInterval + MaxPause
  BY Durations DEF Round
<1>2. ASSUME NEW k \in Nat
      PROVE  /\ Rounds(k) \in Nat /\ Rounds(k) >= MaxLatency
             /\ Rounds(k + 1) = Rounds(k) + Round
  <2>1. PICK r : r = Round
    OBVIOUS
  <2>2. r \in Nat /\ MaxLatency \in Nat
    BY <1>1, <2>1, Durations
  <2>3. k * r \in Nat /\ (k + 1) * r = k * r + r
    BY <2>2
  <2>4. Rounds(k) = k * r + MaxLatency /\ Rounds(k + 1) = (k + 1) * r + MaxLatency
    BY <2>1 DEF Rounds
  <2> QED BY <2>1, <2>2, <2>3, <2>4
<1> QED BY <1>1, <1>2

\* Fewer of them take no longer.
LEMMA RoundsMonotone ==
  ASSUME NEW k \in Nat, NEW m \in Nat, k <= m
  PROVE  Rounds(k) <= Rounds(m)
<1>1. PICK r : r = Round
  OBVIOUS
<1>2. r \in Nat /\ MaxLatency \in Nat
  BY <1>1, RoundsFacts, Durations
<1>3. PICK d \in Nat : m = k + d
  <2>1. m - k \in Nat /\ m = k + (m - k)
    OBVIOUS
  <2> QED BY <2>1
<1>4. m * r = k * r + d * r /\ d * r \in Nat /\ k * r \in Nat
  BY <1>2, <1>3
<1>5. Rounds(k) = k * r + MaxLatency /\ Rounds(m) = m * r + MaxLatency
  BY <1>1 DEF Rounds
<1> QED BY <1>2, <1>4, <1>5

\* A deadline that is j ticks further away delays the next renewal by j at most.
LEMMA DelaySlope ==
  ASSUME NEW v \in Nat, NEW w \in Nat, NEW j \in Nat, w <= v + j
  PROVE  renewalDelay(w) <= renewalDelay(v) + j
<1>1. PICK a, b, m : a = (v + 2) \div 3 /\ b = (w + 2) \div 3 /\ m = minRenewalInterval
  OBVIOUS
<1>2. a \in Int /\ b \in Int /\ b <= a + j
  BY <1>1
<1>3. m \in Nat /\ v # Unset /\ w # Unset
  BY <1>1, Durations
<1>4. /\ m <= renewalDelay(v) /\ a <= renewalDelay(v) /\ renewalDelay(v) \in Nat
      /\ renewalDelay(w) \in {m, b}
  BY <1>1, <1>3, DelayFacts
<1> QED BY <1>2, <1>3, <1>4

\* The room the lease leaves, in the forms the steps need: after a renewal the
\* coordinator has just handled, and after a deadline the worker has just noted.
LEMMA RoomFacts ==
  ASSUME PaceLeavesRoom
  PROVE  /\ MaxLatency + minRenewalInterval + MaxPause + Rounds(MaxLosses) <= LeaseDuration
         /\ \A l \in Passed..LeaseDuration, s \in -MaxSkew..MaxSkew :
              LeaseDuration - MaxLatency <= l =>
                renewalDelay(Max({0, l + s})) + MaxPause + Rounds(MaxLosses) <= l
<1>1. PICK l0 : l0 = LeaseDuration - MaxLatency
  OBVIOUS
<1>2. PICK c : c = l0 + MaxSkew
  OBVIOUS
<1>3. PICK v : v = Max({0, c})
  OBVIOUS
<1>4. l0 \in Int /\ c \in Int
  BY <1>1, <1>2, Durations
<1>5. v \in Nat /\ v >= c
  <2>1. /\ 0 >= c => v = 0
        /\ 0 <= c => v = c
    BY <1>3, <1>4, MaxOfTwo
  <2> QED BY <1>4, <2>1
<1>6. /\ renewalDelay(v) \in Nat /\ minRenewalInterval <= renewalDelay(v)
      /\ Rounds(MaxLosses) \in Nat
  <2>1. v \in Int /\ v # Unset /\ MaxLosses \in Nat
    BY <1>5, Durations
  <2>2. renewalDelay(v) \in Nat /\ minRenewalInterval <= renewalDelay(v)
    BY ONLY <2>1, DelayFacts
  <2>3. Rounds(MaxLosses) \in Nat
    BY <2>1, RoundsFacts
  <2> QED BY <2>2, <2>3
<1>7. renewalDelay(v) + MaxPause + Rounds(MaxLosses) <= l0
  BY <1>1, <1>2, <1>3 DEF PaceLeavesRoom
<1>8. MaxLatency + minRenewalInterval + MaxPause + Rounds(MaxLosses) <= LeaseDuration
  BY <1>1, <1>6, <1>7, Durations
<1>9. ASSUME NEW l \in Passed..LeaseDuration, NEW s \in -MaxSkew..MaxSkew,
             LeaseDuration - MaxLatency <= l
      PROVE  renewalDelay(Max({0, l + s})) + MaxPause + Rounds(MaxLosses) <= l
  <2>1. PICK w, j : w = Max({0, l + s}) /\ j = l - l0
    OBVIOUS
  <2>2. l \in Int /\ s \in Int /\ s <= MaxSkew /\ j \in Nat /\ l = l0 + j
    BY <1>1, <1>4, <1>9, <2>1, Durations
  <2>3. w \in Nat /\ (w > 0 => w = l + s)
    BY <2>1, NoteFacts
  <2>4. w <= v + j
    BY <1>2, <1>4, <1>5, <2>2, <2>3, Durations
  <2>5. renewalDelay(w) <= renewalDelay(v) + j /\ renewalDelay(w) \in Nat
    <3>1. renewalDelay(w) <= renewalDelay(v) + j
      BY ONLY <1>5, <2>2, <2>3, <2>4, DelaySlope
    <3>2. w \in Int
      BY <2>3
    <3>3. renewalDelay(w) \in Nat
      BY ONLY <3>2, DelayFacts
    <3> QED BY <3>1, <3>3
  <2> QED BY <1>4, <1>6, <1>7, <2>1, <2>2, <2>5, Durations
<1> QED BY <1>8, <1>9

\* Acquire waits in its operation and EndTransaction in ReleaseAll.
LEMMA OrderlyStep == GuardInv /\ Orderly /\ [Next]_vars => Orderly'
<1> SUFFICES ASSUME GuardInv, Orderly, [Next]_vars PROVE Orderly'
  OBVIOUS
<1> USE DEF Orderly
<1>1. guard \in GuardType /\ acquire \in AcquireType /\ call \in CallType
  BY DEF GuardInv, Types
<1>2. ~NoAcquire.heard /\ NoCall.rpc = "none"
  BY DEF NoAcquire, NoCall
<1>3. CASE AcquireSend
  <2>1. PICK n : guard' = [guard EXCEPT !.pc = "acquiring", !.acquired = n]
    BY <1>3 DEF AcquireSend
  <2>2. guard'.pc = "acquiring" /\ guard.pc = "working" /\ call' = call
    BY <1>1, <1>3, <2>1 DEF AcquireSend, GuardType
  <2> QED BY <2>2
<1>4. CASE AcquireEnsure
  BY <1>1, <1>4 DEF AcquireEnsure, AcquireType
<1>5. CASE AcquireGrant
  <2>1. acquire'.heard => acquire.heard
    BY <1>1, <1>2, <1>5 DEF AcquireGrant, AcquireType
  <2> QED BY <1>5, <2>1 DEF AcquireGrant
<1>6. CASE AcquireReturn
  BY <1>2, <1>6 DEF AcquireReturn
<1>7. CASE AcquireFail \/ Crash
  <2>1. ~acquire'.heard
    BY <1>1, <1>2, <1>7 DEF AcquireFail, Crash, Unheard, AcquireType
  <2>2. call'.rpc # "EndTransaction"
    BY <1>2, <1>7 DEF AcquireFail, Crash
  <2> QED BY <2>1, <2>2
<1>8. CASE AcquireDrop
  BY <1>2, <1>8 DEF AcquireDrop
<1>9. CASE BeatFire
  BY <1>2, <1>9, BeatFireKeeps DEF BeatFire, NoCall
<1>10. CASE BeatSkip \/ BeatRenewed \/ BeatRetry \/ BeatStop
  BY <1>2, <1>10 DEF BeatSkip, BeatRenewed, BeatRetry, BeatStop, CallFails
<1>11. CASE BeatLost
  <2>1. guard'.pc = guard.pc
    BY <1>1, <1>11 DEF BeatLost, GuardType
  <2> QED BY <1>2, <1>11, <2>1 DEF BeatLost
<1>12. CASE ReleaseAll
  BY <1>1, <1>12 DEF ReleaseAll, Goto, GuardType
<1>13. CASE ReleaseEnd
  <2>1. guard.pc = "stopping" /\ acquire' = acquire
    BY <1>13 DEF ReleaseEnd
  <2>2. call' = call \/ guard'.pc = "ending"
    BY <1>1, <1>13 DEF ReleaseEnd, Goto, GuardType
  <2> QED BY <2>1, <2>2
<1>14. CASE ReleaseReturn
  BY <1>2, <1>14 DEF ReleaseReturn, CallFails
<1>15. CASE RenewHandle \/ EndHandle
  <2>1. call'.rpc = call.rpc
    BY <1>1, <1>15 DEF RenewHandle, EndHandle, CallType
  <2> QED BY <1>15, <2>1 DEF RenewHandle, EndHandle
<1>16. CASE StrayArrives \/ revoke
  BY <1>16 DEF StrayArrives, revoke
<1>17. CASE Restart
  <2>1. acquire'.heard = acquire.heard
    BY <1>1, <1>17 DEF Restart, AcquireType
  <2> QED BY <1>17, <2>1 DEF Restart
<1>18. CASE Tick
  BY <1>18, TickFacts DEF GuardInv
<1>19. CASE UNCHANGED vars
  BY <1>19 DEF vars
<1> QED BY <1>3, <1>4, <1>5, <1>6, <1>7, <1>8, <1>9, <1>10, <1>11, <1>12, <1>13, <1>14, <1>15,
           <1>16, <1>17, <1>18, <1>19
        DEF Next, Acquire, Heartbeat, Release, Handle

\* A heartbeat in good time stays so when the lease grows under it.
LEMMA RunsKeep ==
  ASSUME PaceLeavesRoom, Types, Waits \/ Calls, UNCHANGED <<beat, call>>,
         txn'.left \in Int, txn.left <= txn'.left,
         losses' = losses \/ (losses' = 0 /\ txn'.left = LeaseDuration)
  PROVE  (Waits \/ Calls)'
<1>1. /\ txn.left \in Int /\ beat.timer \in Nat /\ call.age \in Nat /\ losses \in Nat
      /\ LeaseDuration \in Nat /\ MaxLosses \in Nat /\ MaxLatency \in Nat
  BY Numbers, Durations
<1>2. /\ Rounds(MaxLosses) \in Nat /\ Round \in Nat
      /\ Round + Rounds(MaxLosses) <= LeaseDuration
      /\ MaxLatency <= LeaseDuration
  BY <1>1, RoundsFacts, RoomFacts, Durations
<1>3. ASSUME losses <= MaxLosses
      PROVE  Rounds(MaxLosses - losses) \in Nat
  <2>1. MaxLosses - losses \in Nat
    BY <1>1, <1>3
  <2> QED BY <2>1, RoundsFacts
<1>4. CASE losses' = losses
  BY <1>1, <1>2, <1>3, <1>4 DEF Waits, Calls
<1>5. CASE losses' = 0 /\ txn'.left = LeaseDuration
  <2>1. MaxLosses - losses' = MaxLosses
    BY <1>1, <1>5
  <2> QED BY <1>1, <1>2, <1>5, <2>1 DEF Waits, Calls
<1> QED BY <1>4, <1>5

\* A worker that goes on with its operation without a new fault was at work before,
\* without one.
LEMMA WasHealthy ==
  ASSUME GuardInv, HealthyInv, [Next]_vars, faults' = 0, AtWork'
  PROVE  faults = 0 /\ AtWork /\ Healthy
<1>1. guard \in GuardType /\ faults \in Nat
  BY DEF GuardInv, Types
<1>2. faults = 0
  BY <1>1 DEF vars, Next, Acquire, AcquireSend, AcquireEnsure, AcquireGrant, AcquireReturn,
     AcquireFail, AcquireDrop, Heartbeat, BeatFire, BeatSkip, BeatRenewed, BeatLost, BeatRetry,
     BeatStop, ReleaseAll, Release, ReleaseEnd, ReleaseReturn, Handle, RenewHandle, EndHandle,
     StrayArrives, revoke, Restart, Crash, Tick, Fault
<1>3. AtWork
  <2>1. CASE AcquireSend
    BY <2>1 DEF AcquireSend, AtWork
  <2>2. CASE AcquireReturn
    BY <2>2 DEF AcquireReturn, AtWork, HealthyInv, Orderly
  <2>3. CASE AcquireFail \/ ReleaseAll \/ ReleaseEnd \/ ReleaseReturn \/ Crash
    <3>1. \E l \in {"failed", "stopping", "ending", "done"} : guard' = [guard EXCEPT !.pc = l]
      BY <2>3 DEF AcquireFail, ReleaseAll, ReleaseEnd, ReleaseReturn, Crash, Goto
    <3>2. guard'.pc \in {"failed", "stopping", "ending", "done"}
      BY <1>1, <3>1 DEF GuardType
    <3> QED BY <3>2 DEF AtWork
  <2>4. CASE BeatLost
    <3>1. guard'.pc = guard.pc
      BY <1>1, <2>4 DEF BeatLost, GuardType
    <3> QED BY <3>1 DEF AtWork
  <2>5. CASE guard' = guard
    BY <2>5 DEF AtWork
  <2> QED BY <2>1, <2>2, <2>3, <2>4, <2>5
          DEF vars, Next, Acquire, AcquireEnsure, AcquireGrant, AcquireDrop, Heartbeat, BeatFire,
              BeatSkip, BeatRenewed, BeatRetry, BeatStop, Release, Handle, RenewHandle, EndHandle,
              StrayArrives, revoke, Restart, Tick
<1> QED BY <1>2, <1>3 DEF HealthyInv

\* The heartbeat's timer, set by a deadline the coordinator sent at most MaxLatency
\* ago, leaves time for every renewal that may be lost.
LEMMA NotedInTime ==
  ASSUME PaceLeavesRoom, GuardInv, NEW l \in Passed..LeaseDuration,
         LeaseDuration - MaxLatency <= l, l <= txn.left, noteLeaseDeadline(l),
         SetTimer(renewalDelay(view')), txn' = txn, losses' = 0, call'.rpc = "none"
  PROVE  Waits'
<1>1. skew \in -MaxSkew..MaxSkew
  BY DEF GuardInv, Types
<1>2. view' = Max({0, l + skew}) /\ view' \in Nat
  BY <1>1, NoteFacts DEF noteLeaseDeadline
<1>3. renewalDelay(view') + MaxPause + Rounds(MaxLosses) <= l
  BY <1>1, <1>2, RoomFacts
<1>4. PICK d \in Nat : d = renewalDelay(view')
  BY <1>2, DelayFacts
<1>5. beat'.pc = "waiting" /\ beat'.timer \in Nat /\ beat'.timer <= d + MaxPause
  BY <1>4, TimerFacts DEF BeatType
<1>6. Rounds(MaxLosses) \in Nat /\ MaxLosses - losses' = MaxLosses /\ MaxLosses \in Nat
  BY RoundsFacts, Durations
<1>7. /\ beat'.timer + Rounds(MaxLosses) <= l /\ l <= LeaseDuration
      /\ beat'.timer + Rounds(MaxLosses) <= txn.left
  BY <1>3, <1>4, <1>5, <1>6, Numbers, Durations DEF GuardInv
<1> QED BY <1>5, <1>6, <1>7, Durations DEF Waits

\* A healthy worker asks for a lock, and the coordinator meets its transaction.
LEMMA HealthyAsks ==
  ASSUME PaceLeavesRoom, GuardInv, Healthy, AtWork, Orderly, AcquireSend \/ AcquireEnsure
  PROVE  Healthy'
<1>1. Types
  BY DEF GuardInv
<1>2. txn \in TxnType /\ acquire \in AcquireType /\ guard \in GuardType
  BY <1>1 DEF Types
<1>3. /\ acquire.pc # "granted" /\ acquire'.pc # "granted" /\ acquire'.heard
      /\ guard'.first = guard.first /\ guard.first \in Nat
      /\ UNCHANGED <<beat, call, stray, losses>>
  <2>1. CASE AcquireSend
    <3>1. acquire.pc = "none" /\ guard.pc = "working"
      BY <2>1 DEF AcquireSend, Healthy, Orderly
    <3>2. PICK n : guard' = [guard EXCEPT !.pc = "acquiring", !.acquired = n]
      BY <2>1 DEF AcquireSend
    <3>3. acquire'.pc = "sent" /\ acquire'.heard
      BY <2>1 DEF AcquireSend, NoAcquire
    <3> QED BY <1>2, <2>1, <3>1, <3>2, <3>3 DEF AcquireSend, GuardType
  <2>2. CASE AcquireEnsure
    <3>1. acquire.pc = "sent" /\ acquire.heard
      BY <2>2 DEF AcquireEnsure, Healthy
    <3>2. acquire'.pc \in {"refused", "pending"} /\ acquire'.heard
      BY <1>2, <2>2, <3>1 DEF AcquireEnsure, AcquireType
    <3> QED BY <1>2, <2>2, <3>1, <3>2 DEF AcquireEnsure, GuardType
  <2> QED BY <2>1, <2>2
<1>4. /\ txn'.state \in {"unknown", "active"} /\ txn'.started = txn.started
      /\ txn'.left = txn.left
      /\ txn.state = "active" => txn' = txn
  <2>1. CASE txn' = txn
    BY <2>1 DEF Healthy
  <2>2. CASE txn' # txn
    <3>1. PICK n : txn' = [txn EXCEPT !.state = "active", !.born = n] /\ txn.state # "active"
      BY <2>2 DEF AcquireSend, AcquireEnsure
    <3> QED BY <1>2, <3>1 DEF TxnType
  <2> QED BY <2>1, <2>2
<1>5. guard.first = 0 => ~txn'.started /\ beat'.pc = "none" /\ call'.rpc = "none" /\ losses' = 0
  BY <1>3, <1>4 DEF Healthy
<1>6. guard.first > 0 => Leased' /\ (Waits \/ Calls)'
  <2> SUFFICES ASSUME guard.first > 0 PROVE Leased' /\ (Waits \/ Calls)'
    OBVIOUS
  <2>1. Leased /\ (Waits \/ Calls)
    BY DEF Healthy
  <2>2. txn' = txn
    BY <1>4, <2>1 DEF Leased
  <2>3. txn'.left \in Int /\ txn.left <= txn'.left
    BY <1>1, <2>2, Numbers, Durations
  <2>4. (Waits \/ Calls)'
    BY <1>1, <1>3, <2>1, <2>3, RunsKeep
  <2> QED BY <2>1, <2>2, <2>4 DEF Leased
<1> QED BY <1>3, <1>4, <1>5, <1>6 DEF Healthy

\* A healthy worker's lock is granted.
LEMMA HealthyGrant ==
  ASSUME PaceLeavesRoom, GuardInv, Healthy, AcquireGrant
  PROVE  Healthy'
<1>1. Types
  BY DEF GuardInv
<1>2. /\ acquire.pc = "pending" /\ acquire.heard /\ txn.state = "active"
      /\ txn' = [txn EXCEPT !.held = TRUE, !.started = TRUE, !.left = LeaseDuration]
      /\ acquire' = [acquire EXCEPT !.pc = "granted", !.left = LeaseDuration, !.born = txn.born]
      /\ UNCHANGED <<guard, beat, call, stray, losses>>
  BY DEF AcquireGrant, Healthy
<1>3. txn'.state = "active" /\ txn'.started /\ txn'.left = LeaseDuration
  BY <1>1, <1>2 DEF Types, TxnType
<1>4. /\ acquire'.pc = "granted" /\ acquire'.heard
      /\ acquire'.left = LeaseDuration /\ acquire'.age = acquire.age
  BY <1>1, <1>2 DEF Types, AcquireType
<1>5. LeaseDuration - acquire'.age <= acquire'.left
  BY <1>1, <1>4, Numbers, Durations
<1>6. txn'.left \in Int /\ txn.left <= txn'.left
  BY <1>1, <1>3, Numbers, Durations
<1>7. guard.first > 0 => (Waits \/ Calls)'
  BY <1>1, <1>2, <1>6, RunsKeep DEF Healthy
<1> QED BY <1>2, <1>3, <1>4, <1>5, <1>7 DEF Healthy, Leased

\* The grant reaches a healthy worker, in time to pace its renewals.
LEMMA HealthyReturn ==
  ASSUME PaceLeavesRoom, GuardInv, Healthy, AcquireReturn
  PROVE  Healthy'
<1>1. Types
  BY DEF GuardInv
<1>2. /\ acquire.pc = "granted"
      /\ noteLeaseDeadline(acquire.left)
      /\ beat.pc = "none" => SetTimer(renewalDelay(view'))
      /\ beat.pc # "none" => beat' = beat
      /\ acquire' = NoAcquire
      /\ UNCHANGED <<txn, call, stray, losses>>
  BY DEF AcquireReturn
<1>3. acquire'.pc = "none"
  BY <1>2 DEF NoAcquire
<1>4. Leased /\ LeaseDuration - acquire.age <= acquire.left /\ acquire.left <= txn.left
  BY <1>2 DEF Healthy, GuardInv, ViewInv
<1>5. guard'.first > 0
  <2>1. acquire.born > 0 /\ acquire.born \in Nat /\ guard.first \in Nat
    BY <1>1, <1>2, Numbers DEF GuardInv, LostInv
  <2>2. PICK f : f = IF guard.first = 0 THEN acquire.born ELSE guard.first
    OBVIOUS
  <2>3. guard' = [guard EXCEPT !.pc = "working", !.first = f]
    BY <2>2 DEF AcquireReturn
  <2>4. f > 0
    BY <2>1, <2>2
  <2> QED BY <1>1, <2>3, <2>4 DEF Types, GuardType
<1>6. (Waits \/ Calls)'
  <2>1. CASE guard.first = 0
    <3>1. beat.pc = "none" /\ call'.rpc = "none" /\ losses' = 0
      BY <1>2, <2>1 DEF Healthy
    <3>2. acquire.left \in Passed..LeaseDuration /\ LeaseDuration - MaxLatency <= acquire.left
      BY <1>1, <1>4, Numbers, Durations
    <3> QED BY <1>2, <1>4, <3>1, <3>2, NotedInTime
  <2>2. CASE guard.first # 0
    <3>1. guard.first > 0
      BY <1>1, <2>2, Numbers
    <3>2. Waits \/ Calls
      BY <3>1 DEF Healthy
    <3>3. beat' = beat
      BY <1>2, <3>2 DEF Waits, Calls
    <3>4. txn'.left \in Int /\ txn.left <= txn'.left
      BY <1>1, <1>2, Numbers, Durations
    <3> QED BY <1>1, <1>2, <3>2, <3>3, <3>4, RunsKeep
  <2> QED BY <2>1, <2>2
<1>7. Leased'
  BY <1>2, <1>4 DEF Leased
<1>8. guard'.first # 0
  BY <1>5
<1> QED BY <1>2, <1>3, <1>5, <1>6, <1>7, <1>8 DEF Healthy

\* A request that was given up reaches the coordinator after all.
LEMMA HealthyStray ==
  ASSUME PaceLeavesRoom, GuardInv, Healthy, StrayArrives
  PROVE  Healthy'
<1>1. Types
  BY DEF GuardInv
<1>2. /\ renew \/ (txn' = txn /\ losses' = losses)
      /\ "EndTransaction" \notin stray'
      /\ UNCHANGED <<guard, beat, acquire, call>>
  BY DEF StrayArrives, Healthy
<1>3. /\ txn'.state = txn.state /\ txn'.started = txn.started
      /\ txn'.left \in Int /\ txn.left <= txn'.left
      /\ losses' = losses \/ (losses' = 0 /\ txn'.left = LeaseDuration)
  <2>1. CASE renew
    <3>1. txn' \in TxnType
      BY <1>1, <2>1, RenewFacts
    <3>2. txn'.left \in Int
      BY <3>1, Durations DEF TxnType
    <3> QED BY <1>1, <2>1, <3>2, RenewFacts
  <2>2. CASE txn' = txn /\ losses' = losses
    BY <1>1, <2>2, Numbers, Durations
  <2> QED BY <1>2, <2>1, <2>2
<1>4. guard.first > 0 => (Waits \/ Calls)'
  BY <1>1, <1>2, <1>3, RunsKeep DEF Healthy
<1>5. Leased' <=> Leased
  BY <1>3 DEF Leased
<1>6. losses = 0 => losses' = 0
  BY <1>3
<1> QED BY <1>2, <1>3, <1>4, <1>5, <1>6 DEF Healthy

\* The sweeper finds nothing to revoke: a healthy worker's lease has not passed.
LEMMA HealthyNotPassed ==
  ASSUME PaceLeavesRoom, GuardInv, Healthy, Leased
  PROVE  txn.left # Passed
<1>1. Types
  BY DEF GuardInv
<1>2. /\ txn.left \in Int /\ beat.timer \in Nat /\ call.age \in Nat /\ losses \in Nat
      /\ acquire.age \in 0..MaxLatency /\ acquire.left \in Int /\ call.left \in Int
      /\ Passed = -1 /\ MaxLosses \in Nat /\ MaxLatency \in Nat /\ LeaseDuration \in Nat
  BY <1>1, Numbers, Durations
<1>3. Round \in Nat /\ MaxLatency <= Round /\ MaxLatency <= LeaseDuration
  <2>1. Rounds(MaxLosses) \in Nat
    BY <1>2, RoundsFacts
  <2> QED BY <1>2, <2>1, RoundsFacts, RoomFacts, Durations
<1>4. ASSUME losses <= MaxLosses
      PROVE  Rounds(MaxLosses - losses) \in Nat
  <2>1. MaxLosses - losses \in Nat
    BY <1>2, <1>4
  <2> QED BY <2>1, RoundsFacts
<1>5. CASE guard.first = 0
  <2>1. acquire.left <= txn.left /\ LeaseDuration - acquire.age <= acquire.left
    BY <1>5 DEF Healthy, Leased, GuardInv, ViewInv
  <2> QED BY <1>2, <1>3, <2>1
<1>6. CASE guard.first > 0
  <2>1. CASE Waits
    BY <1>2, <1>4, <2>1 DEF Waits
  <2>2. CASE Calls
    <3>1. call.reply = "ok" /\ call.fate = "answered" => call.left <= txn.left
      BY <2>2 DEF Calls, GuardInv, ViewInv, Renewed
    <3> QED BY <1>2, <1>3, <1>4, <2>2, <3>1 DEF Calls
  <2> QED BY <1>6, <2>1, <2>2 DEF Healthy
<1> QED BY <1>1, <1>5, <1>6, Numbers

\* A healthy worker's renewal is handled: the lease is whole again.
LEMMA HealthyRenewal ==
  ASSUME PaceLeavesRoom, GuardInv, Healthy, RenewHandle
  PROVE  Healthy'
<1>1. Types
  BY DEF GuardInv
<1>2. renew /\ call.rpc = "RenewLease" /\ UNCHANGED <<guard, beat, acquire, stray>>
  BY DEF RenewHandle
<1>3. guard.first > 0
  BY <1>2 DEF GuardInv, LostInv
<1>4. Leased /\ Calls
  BY <1>2, <1>3 DEF Healthy, Waits
<1>5. /\ txn'.state = txn.state /\ txn'.started = txn.started
      /\ txn'.left = LeaseDuration /\ losses' = 0
  BY <1>1, <1>2, <1>4, RenewFacts
<1>6. /\ call'.rpc = "RenewLease" /\ call'.fate = call.fate /\ call'.age = call.age
      /\ call'.reply = "ok" /\ call.reply = "none"
      /\ call.fate = "answered" => call'.left = LeaseDuration
  BY <1>1, <1>4, <1>5, RenewReply
<1>7. Calls'
  <2>1. /\ call.age \in Nat /\ LeaseDuration \in Nat /\ MaxLosses \in Nat
        /\ Rounds(MaxLosses) \in Nat /\ Round \in Nat
    BY <1>1, Numbers, Durations, RoundsFacts
  <2>2. Round + Rounds(MaxLosses) <= LeaseDuration
    BY <2>1, RoundsFacts, RoomFacts, Durations
  <2>3. MaxLosses - losses' = MaxLosses
    BY <1>5, <2>1
  <2> QED BY <1>2, <1>4, <1>5, <1>6, <2>1, <2>2, <2>3 DEF Calls
<1>8. Leased'
  BY <1>4, <1>5 DEF Leased
<1> QED BY <1>2, <1>3, <1>4, <1>5, <1>7, <1>8 DEF Healthy

\* The timer fires: one more renewal may be lost, and there is time for it.
LEMMA HealthyFire ==
  ASSUME PaceLeavesRoom, GuardInv, Healthy, BeatFire, faults' = 0, faults = 0
  PROVE  Healthy'
<1>1. Types
  BY DEF GuardInv
<1>2. /\ beat.pc = "waiting" /\ beat.timer = 0
      /\ losses' = Min({losses + 1, MaxLosses + 1})
      /\ beat' = [beat EXCEPT !.pc = "calling"]
      /\ UNCHANGED <<txn, guard, acquire, stray>>
  BY DEF BeatFire
<1>3. guard.first > 0
  BY <1>2 DEF GuardInv, LostInv
<1>4. Leased /\ Waits
  BY <1>2, <1>3 DEF Healthy, Calls
<1>5. PICK fate \in {"answered", "fails"} :
        /\ call' = [NoCall EXCEPT !.rpc = "RenewLease", !.fate = fate]
        /\ fate = "fails" => losses < MaxLosses
  <2>1. PICK f \in {"answered", "fails", "hangs"} :
          /\ call' = [NoCall EXCEPT !.rpc = "RenewLease", !.fate = f]
          /\ f = "hangs" \/ (f = "fails" /\ losses >= MaxLosses) => faults' = faults + 1
    BY DEF BeatFire, Fault
  <2>2. f # "hangs" /\ ~(f = "fails" /\ losses >= MaxLosses)
    BY <2>1
  <2>3. losses \in Nat /\ MaxLosses \in Nat
    BY <1>1, Numbers, Durations
  <2>4. f \in {"answered", "fails"}
    BY <2>1, <2>2
  <2>5. f = "fails" => losses < MaxLosses
    BY <2>2, <2>3
  <2> QED BY <2>1, <2>4, <2>5, Zenon
<1>6. /\ call'.rpc = "RenewLease" /\ call'.fate = fate /\ call'.age = 0 /\ call'.reply = "none"
  BY <1>5 DEF NoCall
<1>7. beat'.pc = "calling"
  BY <1>1, <1>2 DEF Types, BeatType
<1>8. /\ losses \in Nat /\ MaxLosses \in Nat /\ MaxLatency \in Nat /\ txn.left \in Int
      /\ losses <= MaxLosses
  BY <1>1, <1>4, Numbers, Durations DEF Waits
<1>9. losses' = losses + 1
  <2>1. PICK a, b : a = losses + 1 /\ b = MaxLosses + 1
    OBVIOUS
  <2>2. a \in Int /\ b \in Int /\ a <= b /\ losses' = Min({a, b})
    BY <1>2, <1>8, <2>1
  <2> QED BY <2>1, <2>2, MaxOfTwo
<1>10. PICK k \in Nat : k = MaxLosses - losses
  BY <1>8
<1>11. Rounds(k) <= txn.left
  BY <1>2, <1>4, <1>8, <1>10, RoundsFacts DEF Waits
<1>12. Calls'
  <2>1. CASE fate = "answered"
    <3>1. Rounds(k) \in Nat /\ Rounds(k) >= MaxLatency
      BY <1>10, RoundsFacts
    <3>2. MaxLatency <= txn.left
      BY <1>8, <1>11, <3>1
    <3> QED BY <1>2, <1>6, <1>7, <1>8, <2>1, <3>2 DEF Calls
  <2>2. CASE fate = "fails"
    <3>1. PICK j \in Nat : j = MaxLosses - losses' /\ k = j + 1
      <4>1. MaxLosses - losses' \in Nat /\ k = (MaxLosses - losses') + 1
        BY <1>5, <1>8, <1>9, <1>10, <2>2
      <4> QED BY <4>1
    <3>2. Rounds(k) = Rounds(j) + Round /\ Rounds(j) \in Nat /\ Round \in Nat
      BY <3>1, RoundsFacts
    <3>3. losses' <= MaxLosses
      BY <1>5, <1>8, <1>9, <2>2
    <3>4. Rounds(MaxLosses - losses') + Round - call'.age <= txn'.left
      BY <1>2, <1>6, <1>8, <1>11, <3>1, <3>2
    <3> QED BY <1>2, <1>6, <1>7, <1>8, <2>2, <3>3, <3>4 DEF Calls
  <2> QED BY <2>1, <2>2
<1>13. Leased' /\ guard.first # 0
  BY <1>2, <1>3, <1>4 DEF Leased
<1> QED BY <1>2, <1>3, <1>12, <1>13 DEF Healthy, Leased

\* A renewal failed: the next is in time.
LEMMA HealthyRetry ==
  ASSUME PaceLeavesRoom, GuardInv, Healthy, BeatRetry
  PROVE  Healthy'
<1>1. Types
  BY DEF GuardInv
<1>2. /\ call.rpc = "RenewLease" /\ call.fate # "answered"
      /\ SetTimer(minRenewalInterval)
      /\ call' = NoCall
      /\ stray' = stray \/ stray' = stray \cup {"RenewLease"}
      /\ UNCHANGED <<txn, guard, acquire, losses>>
  BY DEF BeatRetry, CallFails
<1>3. guard.first > 0
  BY <1>2 DEF GuardInv, LostInv
<1>4. /\ Leased /\ call.age <= MaxLatency /\ losses <= MaxLosses
      /\ Rounds(MaxLosses - losses) + Round - call.age <= txn.left
  BY <1>2, <1>3 DEF Healthy, Waits, Calls
<1>5. /\ losses \in Nat /\ call.age \in Nat /\ txn.left \in Int
      /\ MaxLosses \in Nat /\ MaxLatency \in Nat /\ MaxPause \in Nat
      /\ minRenewalInterval \in Nat /\ LeaseDuration \in Nat
  BY <1>1, Numbers, Durations
<1>6. /\ beat' \in BeatType /\ beat'.pc = "waiting"
      /\ beat'.timer <= minRenewalInterval + MaxPause
  BY <1>2, <1>5, TimerFacts
<1>7. beat'.timer \in Nat /\ call'.rpc = "none"
  BY <1>2, <1>6 DEF BeatType, NoCall
<1>8. /\ Rounds(MaxLosses - losses) \in Nat /\ Rounds(MaxLosses) \in Nat
      /\ Round = MaxLatency + minRenewalInterval + MaxPause
  <2>1. MaxLosses - losses \in Nat
    BY <1>4, <1>5
  <2> QED BY <1>5, <2>1, RoundsFacts
<1>9. beat'.timer + Rounds(MaxLosses - losses) <= txn.left
  BY <1>4, <1>5, <1>6, <1>7, <1>8
<1>10. beat'.timer + Rounds(MaxLosses) <= LeaseDuration
  BY <1>5, <1>6, <1>7, <1>8, RoomFacts
<1>11. Waits'
  BY <1>2, <1>4, <1>6, <1>7, <1>9, <1>10 DEF Waits
<1>12. Leased' /\ guard.first # 0 /\ "EndTransaction" \notin stray'
  BY <1>2, <1>3, <1>4 DEF Leased, Healthy
<1> QED BY <1>2, <1>3, <1>11, <1>12 DEF Healthy, Leased

\* A healthy worker hears of its lease.
LEMMA HealthyHears ==
  ASSUME PaceLeavesRoom, GuardInv, Healthy, BeatRenewed
  PROVE  Healthy'
<1>1. Types
  BY DEF GuardInv
<1>2. /\ call.rpc = "RenewLease" /\ call.fate = "answered"
      /\ call.reply # "none"
      /\ call.reply = "ok" => noteLeaseDeadline(call.left)
      /\ SetTimer(renewalDelay(view'))
      /\ call' = NoCall
      /\ UNCHANGED <<txn, guard, acquire, stray, losses>>
  BY DEF BeatRenewed
<1>3. guard.first > 0
  BY <1>2 DEF GuardInv, LostInv
<1>4. /\ Leased /\ call.age <= MaxLatency /\ losses = 0 /\ call.reply = "ok"
      /\ LeaseDuration - call.age <= call.left
  BY <1>2, <1>3 DEF Healthy, Waits, Calls
<1>5. call.left <= txn.left
  BY <1>2, <1>4 DEF GuardInv, ViewInv, Renewed
<1>6. call.left \in Passed..LeaseDuration /\ LeaseDuration - MaxLatency <= call.left
  BY <1>1, <1>4, Numbers, Durations
<1>7. call'.rpc = "none"
  BY <1>2 DEF NoCall
<1>8. Waits'
  BY <1>2, <1>4, <1>5, <1>6, <1>7, NotedInTime
<1>9. Leased' /\ guard.first # 0
  BY <1>2, <1>3, <1>4 DEF Leased
<1> QED BY <1>2, <1>3, <1>8, <1>9 DEF Healthy, Leased

\* Time passes, but not past a timer that is due or a call whose time is up.
LEMMA HealthyTick ==
  ASSUME GuardInv, Healthy, Tick
  PROVE  Healthy'
<1>1. Types
  BY DEF GuardInv
<1>2. /\ txn'.state = txn.state /\ txn'.started = txn.started /\ txn'.left = Less(txn.left)
      /\ acquire'.pc = acquire.pc /\ acquire'.heard = acquire.heard
      /\ acquire'.left = Less(acquire.left)
      /\ call'.rpc = call.rpc /\ call'.fate = call.fate /\ call'.reply = call.reply
      /\ call'.left = Less(call.left)
      /\ beat'.pc = beat.pc
      /\ UNCHANGED <<guard, stray, losses>>
  BY <1>1, TickFacts
<1>3. /\ txn.left \in Int /\ txn'.left \in Int /\ txn.left - 1 <= txn'.left
      /\ acquire.left \in Int /\ acquire'.left \in Int /\ acquire.left - 1 <= acquire'.left
      /\ call.left \in Int /\ call'.left \in Int /\ call.left - 1 <= call'.left
  BY <1>1, <1>2, Numbers, LessFacts, Durations
<1>4. Leased' <=> Leased
  BY <1>2 DEF Leased
<1>5. acquire'.pc = "granted" => LeaseDuration - acquire'.age <= acquire'.left
  <2> SUFFICES ASSUME acquire.pc = "granted"
               PROVE  LeaseDuration - acquire'.age <= acquire'.left
    BY <1>2
  <2>1. acquire.heard /\ LeaseDuration - acquire.age <= acquire.left
    BY DEF Healthy
  <2>2. acquire.age # MaxLatency
    BY <2>1 DEF Tick, Due
  <2>3. acquire'.age = acquire.age + 1 /\ acquire.age \in Int
    BY <1>1, <2>2, TickFacts, Numbers
  <2> QED BY <1>3, <2>1, <2>3, Durations
<1>6. Waits => Waits'
  <2> SUFFICES ASSUME Waits PROVE Waits'
    OBVIOUS
  <2>1. beat.timer # 0
    BY DEF Waits, Tick, Due
  <2>2. beat.timer \in Nat /\ beat'.timer = beat.timer - 1
    BY <1>1, <2>1, Numbers, TickFacts
  <2>3. Rounds(MaxLosses) \in Int /\ Rounds(MaxLosses - losses) \in Int
    <3>1. MaxLosses \in Nat /\ MaxLosses - losses \in Nat
      BY <1>1, Numbers, Durations DEF Waits
    <3> QED BY <3>1, RoundsFacts
  <2> QED BY <1>2, <1>3, <2>2, <2>3, Durations DEF Waits
<1>7. Calls => Calls'
  <2> SUFFICES ASSUME Calls PROVE Calls'
    OBVIOUS
  <2>1. call.age \in Nat /\ MaxLatency \in Nat /\ Round \in Int /\ LeaseDuration \in Nat
    BY <1>1, Numbers, Durations, RoundsFacts
  <2>2. ~(call.age >= MaxLatency)
    BY DEF Calls, Tick, Due
  <2>3. call'.age = call.age + 1 /\ call'.age <= MaxLatency
    BY <1>1, <2>1, <2>2, TickFacts DEF Calls
  <2>4. losses <= MaxLosses => Rounds(MaxLosses - losses) \in Int
    <3>1. losses <= MaxLosses => MaxLosses - losses \in Nat
      BY <1>1, Numbers, Durations
    <3> QED BY <3>1, RoundsFacts
  <2> QED BY <1>2, <1>3, <2>1, <2>3, <2>4 DEF Calls
<1> QED BY <1>2, <1>4, <1>5, <1>6, <1>7 DEF Healthy

\* Every step keeps a healthy worker healthy, its own last ones and faults apart.
LEMMA HealthyStep ==
  ASSUME PaceLeavesRoom
  PROVE  GuardInv /\ HealthyInv /\ [Next]_vars => HealthyInv'
<1> SUFFICES ASSUME GuardInv, HealthyInv, [Next]_vars PROVE HealthyInv'
  OBVIOUS
<1>1. Orderly'
  BY OrderlyStep DEF HealthyInv
<1>2. ASSUME faults' = 0, AtWork' PROVE Healthy'
  <2>1. faults = 0 /\ AtWork /\ Healthy /\ Orderly
    BY <1>2, WasHealthy DEF HealthyInv
  <2>2. call.rpc # "EndTransaction"
    BY <2>1 DEF Orderly, AtWork
  <2>3. CASE AcquireSend \/ AcquireEnsure
    BY <2>1, <2>3, HealthyAsks
  <2>4. CASE AcquireGrant \/ AcquireReturn
    BY <2>1, <2>4, HealthyGrant, HealthyReturn
  <2>5. ~(AcquireFail \/ ReleaseAll \/ Release \/ Crash)
    <3>1. ASSUME AcquireFail \/ ReleaseAll \/ Release \/ Crash PROVE FALSE
      <4>1. \E l \in {"failed", "stopping", "ending", "done"} : guard' = [guard EXCEPT !.pc = l]
        BY <3>1 DEF AcquireFail, ReleaseAll, Release, ReleaseEnd, ReleaseReturn, Crash, Goto
      <4>2. guard'.pc \in {"failed", "stopping", "ending", "done"}
        BY <4>1 DEF GuardInv, Types, GuardType
      <4> QED BY <1>2, <4>2 DEF AtWork
    <3> QED BY <3>1
  <2>6. ~AcquireDrop /\ ~BeatStop
    BY <2>1 DEF AcquireDrop, BeatStop, Healthy, AtWork
  <2>7. CASE BeatFire
    BY <1>2, <2>1, <2>7, HealthyFire
  <2>8. ~BeatSkip /\ ~Restart
    BY <1>2, <2>1 DEF BeatSkip, Restart, Fault
  <2>9. CASE BeatRenewed \/ BeatRetry
    BY <2>1, <2>9, HealthyHears, HealthyRetry
  <2>10. ~BeatLost
    BY <2>1 DEF BeatLost, Healthy, Waits, Calls, GuardInv, LostInv
  <2>11. CASE Handle
    BY <2>1, <2>2, <2>11, HealthyRenewal DEF Handle, EndHandle
  <2>12. CASE StrayArrives
    BY <2>1, <2>12, HealthyStray
  <2>13. ~revoke
    BY <2>1, HealthyNotPassed DEF revoke, Leased
  <2>14. CASE Tick
    BY <2>1, <2>14, HealthyTick
  <2>15. CASE UNCHANGED vars
    BY <2>1, <2>15 DEF vars, Healthy, Leased, Waits, Calls
  <2> QED BY <2>3, <2>4, <2>5, <2>6, <2>7, <2>8, <2>9, <2>10, <2>11, <2>12, <2>13, <2>14, <2>15
          DEF Next, Acquire, Heartbeat
<1> QED BY <1>1, <1>2 DEF HealthyInv

\* renewalDelay's pace keeps a healthy worker's lease: for every lease, latency,
\* skew, floor of the pace and number of renewals lost in a row between which
\* PaceLeavesRoom leaves room, a worker at work is revoked only after a fault.
THEOREM PaceKeepsLease ==
  ASSUME PaceLeavesRoom
  PROVE  Spec => []HealthyKeepsLease
<1>1. Init => HealthyInv
  <2> SUFFICES ASSUME Init PROVE HealthyInv
    OBVIOUS
  <2>1. Orderly
    BY DEF Init, NoAcquire, NoCall, Orderly
  <2>2. Healthy
    BY DEF Init, NoAcquire, NoCall, Healthy
  <2> QED BY <2>1, <2>2 DEF HealthyInv
<1>2. GuardInv /\ HealthyInv /\ [Next]_vars => HealthyInv'
  BY HealthyStep
<1>3. GuardInv /\ HealthyInv => HealthyKeepsLease
  BY DEF GuardInv, Types, HealthyInv, Healthy, HealthyKeepsLease
<1> QED BY <1>1, <1>2, <1>3, GuardInvariant, PTL DEF Spec
==============================================================================
