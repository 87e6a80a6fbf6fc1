-------------------------- MODULE LockManagerProofs --------------------------
(****************************************************************************)
(* Proofs about LockManager, for any set of transactions, resources and     *)
(* concurrent AcquireContext calls: first the books (who holds what), then  *)
(* the queues (who waits, who sleeps and which records exist).              *)
(****************************************************************************)
EXTENDS LockManager, SequenceTheorems, TLAPS

\* removeFromQueue returns a queue of calls.
LEMMA RemoveType ==
  ASSUME NEW q \in Seq(Call), NEW c
  PROVE  removeFromQueue(q, c) \in Seq(Call)
<1>1. CASE \E i \in 1..Len(q) : q[i] = c
  <2> DEFINE i == CHOOSE i \in 1..Len(q) : q[i] = c
             f(j) == IF j < i THEN q[j] ELSE q[j + 1]
  <2>1. i \in 1..Len(q)
    BY <1>1
  <2> HIDE DEF i
  <2>2. Len(q) - 1 \in Nat
    BY <2>1
  <2>3. \A j \in 1..(Len(q) - 1) : f(j) \in Call
    BY <2>1
  <2>4. [j \in 1..(Len(q) - 1) |-> f(j)] \in Seq(Call)
    BY <2>2, <2>3, IsASeq
  <2> QED BY <1>1, <2>4 DEF removeFromQueue, i
<1>2. CASE ~\E i \in 1..Len(q) : q[i] = c
  BY <1>2 DEF removeFromQueue
<1> QED BY <1>1, <1>2

\* A queued call has a request.
Requests == \A c \in Call : pc[c] # "idle" => req[c] \in Request

\* The readers/writer exclusion, as the lockState records have it.
NoMix == \A r \in Resource : exclusiveHolder[r] # NoTxn => sharedHolders[r] = {}

\* The inductive invariant.  NoMix alone is not inductive: a release decides
\* from held what to take out of the lockState, so the two have to agree.
LockInv == TypeOK /\ Requests /\ HoldersAgree /\ NoMix

\* NewLockManager: no record, no holder, no request.
LEMMA LockInit == Init => LockInv
BY NoTxnAssumption DEF Init, LockInv, TypeOK, Requests, HoldersAgree, NoMix, Mode

\* A Broadcast only ever turns "asleep" into "woken".
LEMMA BroadcastType ==
  ASSUME TypeOK, NEW R
  PROVE  /\ Broadcast(R) \in [Call -> {"idle", "asleep", "woken"}]
         /\ \A c \in Call : Broadcast(R)[c] # "idle" => pc[c] # "idle"
BY DEF TypeOK, Broadcast

\* A grant keeps the two books equal and the exclusion, and is a grant of the
\* abstract lock table.
LEMMA GrantKeeps ==
  ASSUME LockInv, NEW c \in Call, NEW rq \in Request, NEW q \in Seq(Call),
         canGrant(c, rq, q), Grant(c, rq, q)
  PROVE  /\ sharedHolders' \in [Resource -> SUBSET Txn]
         /\ exclusiveHolder' \in [Resource -> Txn \cup {NoTxn}]
         /\ queue' \in [Resource -> Seq(Call)]
         /\ held' \in [Txn -> [Resource -> Mode \cup {"none"}]]
         /\ pc' \in [Call -> {"idle", "asleep", "woken"}]
         /\ pc'[c] = "idle"
         /\ \A d \in Call : pc'[d] # "idle" => pc[d] # "idle"
         /\ HoldersAgree'
         /\ NoMix'
         /\ LT!Grant(rq.txn, rq.res, rq.mode)
<1> DEFINE t == rq.txn
           r == rq.res
<1> USE NoTxnAssumption DEF LockInv
<1>1. t \in Txn /\ r \in Resource /\ rq.mode \in Mode
  BY DEF Request
<1>2. exclusiveHolder[r] = NoTxn /\ (rq.mode = "X" => sharedHolders[r] = {})
  BY DEF canGrant
<1>3. /\ held' = [held EXCEPT ![t][r] = rq.mode]
      /\ queue' = [queue EXCEPT ![r] = removeFromQueue(q, c)]
      /\ pc' = [Broadcast({r}) EXCEPT ![c] = "idle"]
  BY DEF Grant
<1>4. /\ rq.mode = "X" => /\ exclusiveHolder' = [exclusiveHolder EXCEPT ![r] = t]
                          /\ sharedHolders' = sharedHolders
      /\ rq.mode = "S" => /\ sharedHolders' = [sharedHolders EXCEPT ![r] = @ \cup {t}]
                          /\ exclusiveHolder' = exclusiveHolder
  BY DEF Grant
<1>5. /\ sharedHolders' \in [Resource -> SUBSET Txn]
      /\ exclusiveHolder' \in [Resource -> Txn \cup {NoTxn}]
      /\ held' \in [Txn -> [Resource -> Mode \cup {"none"}]]
  <2>1. held' \in [Txn -> [Resource -> Mode \cup {"none"}]]
    BY <1>1, <1>3 DEF TypeOK
  <2>2. CASE rq.mode = "X"
    BY <2>1, <2>2, <1>1, <1>4 DEF TypeOK
  <2>3. CASE rq.mode = "S"
    <3>1. sharedHolders[r] \cup {t} \in SUBSET Txn
      BY <1>1 DEF TypeOK
    <3>2. sharedHolders' = [sharedHolders EXCEPT ![r] = sharedHolders[r] \cup {t}]
      BY <2>3, <1>4
    <3>3. sharedHolders' \in [Resource -> SUBSET Txn]
      BY <3>1, <3>2 DEF TypeOK
    <3> QED BY <2>1, <2>3, <3>3, <1>4 DEF TypeOK
  <2> QED BY <1>1, <2>2, <2>3 DEF Mode
<1>6. queue' \in [Resource -> Seq(Call)]
  BY <1>1, <1>3, RemoveType DEF TypeOK
<1>7. /\ pc' \in [Call -> {"idle", "asleep", "woken"}]
      /\ pc'[c] = "idle"
      /\ \A d \in Call : pc'[d] # "idle" => pc[d] # "idle"
  BY <1>3, BroadcastType
<1>8. LT!Grant(t, r, rq.mode)
  BY <1>1, <1>2, <1>3 DEF LT!Grant, LT!Compatible, HoldersAgree, TypeOK, Mode
<1>9. HoldersAgree'
  <2> SUFFICES ASSUME NEW u \in Txn, NEW s \in Resource
               PROVE  /\ held'[u][s] = "X" <=> exclusiveHolder'[s] = u
                      /\ held'[u][s] = "S" <=> u \in sharedHolders'[s]
    BY DEF HoldersAgree
  <2>1. CASE rq.mode = "X"
    BY <2>1, <1>1, <1>2, <1>3, <1>4 DEF HoldersAgree, TypeOK
  <2>2. CASE rq.mode = "S"
    BY <2>2, <1>1, <1>2, <1>3, <1>4 DEF HoldersAgree, TypeOK
  <2> QED BY <1>1, <2>1, <2>2 DEF Mode
<1>10. NoMix'
  BY <1>1, <1>2, <1>4 DEF NoMix, TypeOK, Mode
<1> QED BY <1>5, <1>6, <1>7, <1>8, <1>9, <1>10

\* So does a release, which is a drop of the abstract lock table.
LEMMA ReleaseKeeps ==
  ASSUME LockInv, NEW t \in Txn, NEW R \in SUBSET Resource, releaseLocked(t, R)
  PROVE  LockInv' /\ LT!Drop(t, R)
<1> USE NoTxnAssumption DEF LockInv
<1>1. /\ sharedHolders' = [r \in Resource |-> IF r \in R /\ held[t][r] = "S"
                             THEN sharedHolders[r] \ {t} ELSE sharedHolders[r]]
      /\ exclusiveHolder' = [r \in Resource |-> IF r \in R /\ held[t][r] = "X"
                               THEN NoTxn ELSE exclusiveHolder[r]]
      /\ held' = [held EXCEPT ![t] = [r \in Resource |-> IF r \in R THEN "none" ELSE @[r]]]
      /\ pc' = Broadcast(R)
      /\ UNCHANGED <<req, done, cancelled, watching>>
  BY DEF releaseLocked
<1>2. PICK idle \in SUBSET Resource :
        /\ resources' = resources \ idle
        /\ queue' = [r \in Resource |-> IF r \in idle THEN << >> ELSE queue[r]]
  BY DEF releaseLocked
<1>3. << >> \in Seq(Call)
  OBVIOUS
<1>4. TypeOK'
  <2>1. queue' \in [Resource -> Seq(Call)] /\ resources' \subseteq Resource
    BY <1>2, <1>3 DEF TypeOK
  <2>2. /\ sharedHolders' \in [Resource -> SUBSET Txn]
        /\ exclusiveHolder' \in [Resource -> Txn \cup {NoTxn}]
        /\ held' \in [Txn -> [Resource -> Mode \cup {"none"}]]
    BY <1>1 DEF TypeOK
  <2> QED BY <1>1, <2>1, <2>2, BroadcastType DEF TypeOK
<1>5. Requests'
  BY <1>1, BroadcastType DEF Requests
<1>6. HoldersAgree'
  <2> SUFFICES ASSUME NEW u \in Txn, NEW s \in Resource
               PROVE  /\ held'[u][s] = "X" <=> exclusiveHolder'[s] = u
                      /\ held'[u][s] = "S" <=> u \in sharedHolders'[s]
    BY DEF HoldersAgree
  <2>1. CASE s \in R /\ u = t
    BY <2>1, <1>1 DEF HoldersAgree, TypeOK, Mode
  <2>2. CASE ~(s \in R /\ u = t)
    BY <2>2, <1>1 DEF HoldersAgree, TypeOK
  <2> QED BY <2>1, <2>2
<1>7. NoMix'
  BY <1>1 DEF NoMix, TypeOK
<1>8. LT!Drop(t, R)
  BY <1>1 DEF LT!Drop
<1> QED BY <1>4, <1>5, <1>6, <1>7, <1>8

\* A step that leaves the books alone.
LEMMA BookkeepingKeeps ==
  ASSUME LockInv, UNCHANGED <<sharedHolders, exclusiveHolder, held>>, TypeOK', Requests'
  PROVE  LockInv'
BY DEF LockInv, HoldersAgree, NoMix

\* Every step keeps the invariant and is a step, or a stutter, of LockTable.
LEMMA LockStep ==
  ASSUME LockInv, [Next]_vars PROVE LockInv' /\ [LT!Next]_held
<1> USE DEF LockInv
<1>1. ASSUME NEW c \in Call, NEW rq \in Request, AcquireContext(c, rq)
      PROVE  LockInv' /\ [LT!Next]_held
  <2> DEFINE q == Append(queue[rq.res], c)
  <2>0. rq.txn \in Txn /\ rq.res \in Resource /\ rq.mode \in Mode
    BY DEF Request
  <2>1. q \in Seq(Call)
    BY <2>0 DEF TypeOK
  <2>2. /\ req' = [req EXCEPT ![c] = rq]
        /\ resources' = resources \cup {rq.res}
        /\ watching' = watching \cup {c}
        /\ UNCHANGED <<done, cancelled>>
    BY <1>1 DEF AcquireContext
  <2>3. CASE canGrant(c, rq, q) /\ Grant(c, rq, q)
    <3> HIDE DEF q
    <3>1. TypeOK'
      BY <2>0, <2>1, <2>2, <2>3, GrantKeeps DEF TypeOK
    <3>2. Requests'
      BY <2>1, <2>2, <2>3, GrantKeeps DEF Requests, TypeOK
    <3>3. HoldersAgree' /\ NoMix' /\ LT!Grant(rq.txn, rq.res, rq.mode)
      BY <2>1, <2>3, GrantKeeps
    <3> QED BY <3>1, <3>2, <3>3, <2>0 DEF LT!Next, Mode, LT!Mode
  <2>4. CASE /\ queue' = [queue EXCEPT ![rq.res] = q]
             /\ pc' = [pc EXCEPT ![c] = "asleep"]
             /\ UNCHANGED <<sharedHolders, exclusiveHolder, held>>
    <3> HIDE DEF q
    <3>1. TypeOK'
      BY <2>0, <2>1, <2>2, <2>4 DEF TypeOK
    <3>2. Requests'
      BY <2>2, <2>4 DEF Requests, TypeOK
    <3> QED BY <3>1, <3>2, <2>4, BookkeepingKeeps
  <2> QED BY <1>1, <2>3, <2>4 DEF AcquireContext
<1>2. ASSUME NEW c \in Call, WakeCancelled(c) PROVE LockInv' /\ [LT!Next]_held
  <2>1. req[c] \in Request /\ req[c].res \in Resource
    BY <1>2 DEF WakeCancelled, Requests, Request
  <2> DEFINE r == req[c].res
             q == removeFromQueue(queue[r], c)
  <2>2. q \in Seq(Call)
    BY <2>1, RemoveType DEF TypeOK
  <2>3. << >> \in Seq(Call)
    OBVIOUS
  <2>4. /\ \E b \in BOOLEAN :
             /\ queue' = [queue EXCEPT ![r] = IF b THEN << >> ELSE q]
             /\ resources' = IF b THEN resources \ {r} ELSE resources
        /\ pc' = [Broadcast({r}) EXCEPT ![c] = "idle"]
        /\ req' = [req EXCEPT ![c] = NoRequest]
        /\ done' = done \ {c} /\ cancelled' = cancelled \ {c}
        /\ UNCHANGED <<sharedHolders, exclusiveHolder, held, watching>>
    BY <1>2 DEF WakeCancelled, sweepIfIdle
  <2> HIDE DEF q
  <2>5. queue' \in [Resource -> Seq(Call)] /\ resources' \subseteq Resource
    BY <2>1, <2>2, <2>3, <2>4 DEF TypeOK
  <2>6. /\ pc' \in [Call -> {"idle", "asleep", "woken"}]
        /\ pc'[c] = "idle" /\ \A d \in Call : pc'[d] # "idle" => pc[d] # "idle"
    BY <2>4, BroadcastType
  <2>7. TypeOK'
    BY <2>4, <2>5, <2>6 DEF TypeOK
  <2>8. Requests'
    BY <2>4, <2>6 DEF Requests, TypeOK
  <2> QED BY <2>4, <2>7, <2>8, BookkeepingKeeps
<1>3. ASSUME NEW c \in Call, WakeGranted(c) PROVE LockInv' /\ [LT!Next]_held
  <2>1. req[c] \in Request /\ req[c].txn \in Txn /\ req[c].res \in Resource /\ req[c].mode \in Mode
    BY <1>3 DEF WakeGranted, Requests, Request
  <2>2. queue[req[c].res] \in Seq(Call)
    BY <2>1 DEF TypeOK
  <2>3. /\ canGrant(c, req[c], queue[req[c].res]) /\ Grant(c, req[c], queue[req[c].res])
        /\ UNCHANGED <<resources, req, done, cancelled, watching>>
    BY <1>3 DEF WakeGranted
  <2>4. TypeOK'
    BY <2>1, <2>2, <2>3, GrantKeeps DEF TypeOK
  <2>5. Requests'
    BY <2>1, <2>2, <2>3, GrantKeeps DEF Requests
  <2>6. HoldersAgree' /\ NoMix' /\ LT!Grant(req[c].txn, req[c].res, req[c].mode)
    BY <2>1, <2>2, <2>3, GrantKeeps
  <2> QED BY <2>1, <2>4, <2>5, <2>6 DEF LT!Next, Mode, LT!Mode
<1>4. ASSUME NEW c \in Call, WakeAgain(c) \/ ContextDone(c) \/ WatcherDone(c) \/ WatcherExit(c)
      PROVE  LockInv' /\ [LT!Next]_held
  <2>1. /\ UNCHANGED lockVars
        /\ done' \subseteq Call /\ cancelled' \subseteq Call /\ watching' \subseteq Call
    BY <1>4 DEF WakeAgain, ContextDone, WatcherDone, WatcherExit, TypeOK
  <2>2. /\ pc' \in [Call -> {"idle", "asleep", "woken"}]
        /\ \A d \in Call : pc'[d] # "idle" => pc[d] # "idle"
    BY <1>4, BroadcastType DEF WakeAgain, ContextDone, WatcherDone, WatcherExit, TypeOK
  <2>3. /\ req' \in [Call -> Request \cup {NoRequest}]
        /\ \A d \in Call : pc[d] # "idle" => req'[d] = req[d]
    BY <1>4 DEF WakeAgain, ContextDone, WatcherDone, WatcherExit, TypeOK, Waiting
  <2>4. TypeOK'
    BY <2>1, <2>2, <2>3 DEF TypeOK, lockVars
  <2>5. Requests'
    BY <2>2, <2>3 DEF Requests
  <2> QED BY <2>1, <2>4, <2>5, BookkeepingKeeps DEF lockVars
<1>5. ASSUME NEW t \in Txn, ReleaseAll(t) \/ \E r \in Resource : Release(t, r)
      PROVE  LockInv' /\ [LT!Next]_held
  <2>1. PICK R \in SUBSET Resource : releaseLocked(t, R)
    BY <1>5 DEF ReleaseAll, Release
  <2> QED BY <2>1, ReleaseKeeps DEF LT!Next
<1>6. CASE UNCHANGED vars
  <2>1. TypeOK' /\ Requests'
    BY <1>6 DEF TypeOK, Requests, vars
  <2> QED BY <1>6, <2>1, BookkeepingKeeps DEF vars
<1> QED BY <1>1, <1>2, <1>3, <1>4, <1>5, <1>6 DEF Next, Wake

\* The invariant holds of every behaviour of the lock manager: in particular
\* the state is always of the right type.
THEOREM LockInvariant == Spec => []LockInv
<1>1. LockInv /\ [Next]_vars => LockInv'
  BY LockStep
<1> QED BY <1>1, LockInit, PTL DEF Spec

\* Type correctness: queues hold calls, holders are transactions, and every call
\* is in a state AcquireContext can be in.
THEOREM TypeCorrect == Spec => []TypeOK
<1>1. LockInv => TypeOK
  BY DEF LockInv
<1> QED BY <1>1, LockInvariant, PTL

\* lm.held and the lockState records agree in every state, so releaseLocked
\* never meets the inconsistencies it reports as internal errors.
THEOREM BooksAgree == Spec => []HoldersAgree
<1>1. LockInv => HoldersAgree
  BY DEF LockInv
<1> QED BY <1>1, LockInvariant, PTL

\* At most one exclusive holder, and then no shared one.
THEOREM MutualExclusion == Spec => []SharedExclusive
<1>1. LockInv => SharedExclusive
  <2> SUFFICES ASSUME LockInv, NEW r \in Resource, NEW t \in Txn, held[t][r] = "X",
                      NEW u \in Txn \ {t}
               PROVE  held[u][r] = "none"
    BY DEF SharedExclusive, LT!SharedExclusive
  <2>1. exclusiveHolder[r] = t /\ sharedHolders[r] = {}
    BY NoTxnAssumption DEF LockInv, HoldersAgree, NoMix
  <2>2. held[u][r] \in {"S", "X", "none"}
    BY DEF LockInv, TypeOK, Mode
  <2> QED BY <2>1, <2>2 DEF LockInv, HoldersAgree
<1> QED BY <1>1, LockInvariant, PTL

\* The lock manager implements the abstract lock table Coordinator uses.
THEOREM RefinesLockTable == Spec => ImplementsLockTable
<1>1. Init => LT!Init
  BY DEF Init, LT!Init
<1>2. LockInv /\ [Next]_vars => [LT!Next]_held
  BY LockStep
<1> QED BY <1>1, <1>2, LockInvariant, PTL DEF Spec, ImplementsLockTable, LT!Spec
------------------------------------------------------------------------------
\* The wait queues: nobody sleeps through a wakeup, and a lockState record lives
\* exactly as long as it is in use.

In(q, c) == \E i \in 1..Len(q) : q[i] = c
Distinct(q) == \A i, j \in 1..Len(q) : q[i] = q[j] => i = j

\* removeFromQueue takes out its call and nothing else.
LEMMA RemoveElements ==
  ASSUME NEW q \in Seq(Call), Distinct(q), NEW c \in Call
  PROVE  /\ Distinct(removeFromQueue(q, c))
         /\ \A d \in Call : In(removeFromQueue(q, c), d) <=> In(q, d) /\ d # c
<1> DEFINE p == removeFromQueue(q, c)
<1>1. CASE In(q, c)
  <2> DEFINE k == CHOOSE i \in 1..Len(q) : q[i] = c
  <2>1. k \in 1..Len(q) /\ q[k] = c
    BY <1>1 DEF In
  <2>2. p = [j \in 1..(Len(q) - 1) |-> IF j < k THEN q[j] ELSE q[j + 1]]
    BY <1>1 DEF In, removeFromQueue
  <2> HIDE DEF k
  <2>3. p \in Seq(Call)
    BY RemoveType
  <2>4. Len(p) = Len(q) - 1
    BY <2>1, <2>2, <2>3
  <2> HIDE DEF p
  <2>5. Distinct(p)
    BY <2>1, <2>2, <2>4 DEF Distinct
  <2>6. ASSUME NEW d \in Call, In(p, d) PROVE In(q, d) /\ d # c
    <3>1. PICK j \in 1..(Len(q) - 1) : p[j] = d
      BY <2>4, <2>6 DEF In
    <3> QED BY <2>1, <2>2, <3>1 DEF In, Distinct
  <2>7. ASSUME NEW d \in Call, In(q, d), d # c PROVE In(p, d)
    <3>1. PICK i \in 1..Len(q) : q[i] = d
      BY <2>7 DEF In
    <3>2. CASE i < k
      BY <2>1, <2>2, <2>4, <3>1, <3>2 DEF In
    <3>3. CASE i > k
      <4>1. i - 1 \in 1..Len(p) /\ p[i - 1] = d
        BY <2>1, <2>2, <2>4, <3>1, <3>3
      <4> QED BY <4>1 DEF In
    <3> QED BY <2>1, <2>7, <3>1, <3>2, <3>3
  <2> QED BY <2>5, <2>6, <2>7 DEF p
<1>2. CASE ~In(q, c)
  <2>1. removeFromQueue(q, c) = q
    BY <1>2 DEF removeFromQueue, In
  <2> QED BY <1>2, <2>1
<1> QED BY <1>1, <1>2

\* So does an append, at the end.
LEMMA AppendElements ==
  ASSUME NEW q \in Seq(Call), Distinct(q), NEW c \in Call, ~In(q, c)
  PROVE  /\ Append(q, c) \in Seq(Call)
         /\ Distinct(Append(q, c))
         /\ \A d \in Call : In(Append(q, c), d) <=> In(q, d) \/ d = c
BY DEF In, Distinct

\* The queue of a resource is made of the calls that wait for it, once each.
QueueOf(r) ==
  /\ Distinct(queue[r])
  /\ \A c \in Call : In(queue[r], c) <=> pc[c] # "idle" /\ req[c].res = r

\* A call that sleeps cannot go on.
Stuck(c) == c \notin cancelled /\ ~canGrant(c, req[c], queue[req[c].res])

\* A record is there while the resource is held or waited for.
Record(r) ==
  r \in resources <=> exclusiveHolder[r] # NoTxn \/ sharedHolders[r] # {} \/ queue[r] # << >>

\* The inductive invariant.  NoLostWakeup alone is not inductive: that a sleeper
\* stays stuck when another call comes, goes or is forgotten depends on who is
\* in the queue with it.
QueueInv ==
  /\ LockInv
  /\ \A r \in Resource : QueueOf(r) /\ Record(r)
  /\ \A c \in Call : pc[c] = "asleep" => Stuck(c)
  /\ \A c \in cancelled : pc[c] # "idle"

\* No queue, and so nobody asleep in one.
LEMMA QueueInit == Init => QueueInv
<1> SUFFICES ASSUME Init PROVE QueueInv
  OBVIOUS
<1>1. LockInv
  BY LockInit
<1>2. \A r \in Resource : queue[r] = << >> /\ Distinct(queue[r]) /\ \A c : ~In(queue[r], c)
  BY DEF Init, Distinct, In
<1> QED BY <1>1, <1>2 DEF Init, QueueInv, QueueOf, Record

\* The step leaves the locks on r, and the queue for them, alone.
SameLocks(r) ==
  /\ queue'[r] = queue[r]
  /\ exclusiveHolder'[r] = exclusiveHolder[r]
  /\ sharedHolders'[r] = sharedHolders[r]

\* Who sleeps on a resource that a step leaves alone is as stuck as before.
LEMMA StuckStays ==
  ASSUME QueueInv, NEW d \in Call, pc[d] = "asleep", d \notin cancelled',
         SameLocks(req[d].res),
         \A e \in Call : pc[e] # "idle" /\ req[e].res = req[d].res => req'[e] = req[e]
  PROVE  Stuck(d)'
<1> DEFINE s == req[d].res
           q == queue[s]
<1>1. req[d] \in Request /\ s \in Resource /\ req'[d] = req[d]
  BY DEF QueueInv, LockInv, Requests, Request
<1>2. q \in Seq(Call) /\ queue'[s] = q
  BY <1>1 DEF QueueInv, LockInv, TypeOK, SameLocks
<1>3. \A i \in 1..Len(q) : req'[q[i]] = req[q[i]]
  <2> SUFFICES ASSUME NEW i \in 1..Len(q) PROVE req'[q[i]] = req[q[i]]
    OBVIOUS
  <2>1. q[i] \in Call /\ In(q, q[i])
    BY <1>2 DEF In
  <2>2. pc[q[i]] # "idle" /\ req[q[i]].res = s
    BY <1>1, <2>1 DEF QueueInv, QueueOf
  <2> QED BY <2>1, <2>2
<1>4. ~canGrant(d, req[d], q)
  BY DEF QueueInv, Stuck
<1>5. ~canGrant(d, req[d], q)'
  <2>1. exclusiveHolder'[s] = exclusiveHolder[s] /\ sharedHolders'[s] = sharedHolders[s]
    BY DEF SameLocks
  <2> HIDE DEF s, q
  <2>2. s = req[d].res /\ q' = q
    BY <1>1, <1>2 DEF s, q
  <2> QED BY <1>1, <1>3, <1>4, <2>1, <2>2, Zenon DEF canGrant
<1> QED BY <1>1, <1>2, <1>5 DEF Stuck

\* After a Broadcast on R nobody sleeps on a resource of R.
LEMMA BroadcastWakes ==
  ASSUME TypeOK, NEW R, NEW d \in Call
  PROVE  /\ Broadcast(R)[d] = "asleep" => pc[d] = "asleep" /\ req[d].res \notin R
         /\ Broadcast(R)[d] = "idle" <=> pc[d] = "idle"
BY DEF TypeOK, Broadcast

\* The queue of a resource that a call leaves alone as it returns and wakes others.
LEMMA QueueStays ==
  ASSUME TypeOK, NEW s \in Resource, QueueOf(s), queue'[s] = queue[s], NEW R, NEW c \in Call,
         pc[c] # "idle" => req[c].res # s, pc'[c] = "idle",
         \A d \in Call \ {c} : pc'[d] = Broadcast(R)[d] /\ req'[d] = req[d]
  PROVE  QueueOf(s)'
<1>1. ASSUME NEW d \in Call PROVE In(queue[s], d) <=> pc'[d] # "idle" /\ req'[d].res = s
  <2>1. In(queue[s], d) <=> pc[d] # "idle" /\ req[d].res = s
    BY DEF QueueOf
  <2>2. CASE d = c
    BY <2>1, <2>2
  <2>3. CASE d # c
    <3>1. Broadcast(R)[d] = "idle" <=> pc[d] = "idle"
      BY BroadcastWakes
    <3> QED BY <2>1, <2>3, <3>1
  <2> QED BY <2>2, <2>3
<1> QED BY <1>1 DEF QueueOf

\* A grant, of a call that has just come or of one that was woken: q is the
\* queue it is granted from.
LEMMA GrantQueue ==
  ASSUME QueueInv, LockInv', NEW c \in Call, NEW rq \in Request, NEW q \in Seq(Call),
         Grant(c, rq, q), Distinct(q), c \notin cancelled, UNCHANGED cancelled,
         pc[c] # "idle" => req[c].res = rq.res,
         \A d \in Call : In(q, d) <=> d = c \/ (pc[d] # "idle" /\ req[d].res = rq.res),
         \A d \in Call \ {c} : req'[d] = req[d], pc[c] # "idle" => req'[c] = req[c],
         resources' = resources \cup {rq.res}
  PROVE  QueueInv'
<1> DEFINE r == rq.res
<1> USE NoTxnAssumption
<1>0. TypeOK /\ TypeOK' /\ r \in Resource /\ rq.txn \in Txn /\ rq.mode \in Mode
  BY DEF QueueInv, LockInv, Request
<1>1. /\ queue' = [queue EXCEPT ![r] = removeFromQueue(q, c)]
      /\ pc' = [Broadcast({r}) EXCEPT ![c] = "idle"]
      /\ \A s \in Resource \ {r} :
           exclusiveHolder'[s] = exclusiveHolder[s] /\ sharedHolders'[s] = sharedHolders[s]
  <2>1. /\ queue' = [queue EXCEPT ![r] = removeFromQueue(q, c)]
        /\ pc' = [Broadcast({r}) EXCEPT ![c] = "idle"]
    BY DEF Grant
  <2>2. CASE rq.mode = "X"
    <3>1. /\ exclusiveHolder' = [exclusiveHolder EXCEPT ![r] = rq.txn]
          /\ sharedHolders' = sharedHolders
      BY <2>2 DEF Grant
    <3> QED BY <1>0, <2>1, <3>1 DEF TypeOK
  <2>3. CASE rq.mode = "S"
    <3>1. /\ exclusiveHolder' = exclusiveHolder
          /\ sharedHolders' = [sharedHolders EXCEPT ![r] = @ \cup {rq.txn}]
      BY <2>3 DEF Grant
    <3> QED BY <1>0, <2>1, <3>1 DEF TypeOK
  <2> QED BY <1>0, <2>2, <2>3 DEF Mode
<1>7. exclusiveHolder'[r] # NoTxn \/ sharedHolders'[r] # {}
  <2>1. CASE rq.mode = "X"
    BY <1>0, <2>1 DEF Grant, TypeOK
  <2>2. CASE rq.mode = "S"
    <3>1. sharedHolders' = [sharedHolders EXCEPT ![r] = sharedHolders[r] \cup {rq.txn}]
      BY <2>2 DEF Grant
    <3>2. rq.txn \in sharedHolders'[r]
      BY <1>0, <3>1 DEF TypeOK
    <3> QED BY <3>2
  <2> QED BY <1>0, <2>1, <2>2 DEF Mode
<1>2. pc'[c] = "idle" /\ \A d \in Call \ {c} : pc'[d] = Broadcast({r})[d]
  BY <1>1, BroadcastType, <1>0
<1>3. queue'[r] = removeFromQueue(q, c) /\ \A s \in Resource \ {r} : queue'[s] = queue[s]
  BY <1>0, <1>1 DEF TypeOK
<1>4. ASSUME NEW s \in Resource PROVE QueueOf(s)' /\ Record(s)'
  <2>1. CASE s = r
    <3>1. Distinct(queue'[r]) /\ \A d \in Call : In(queue'[r], d) <=> In(q, d) /\ d # c
      BY <1>3, RemoveElements
    <3>2. ASSUME NEW d \in Call PROVE In(queue'[r], d) <=> pc'[d] # "idle" /\ req'[d].res = r
      <4>1. CASE d = c
        BY <4>1, <3>1, <1>2
      <4>2. CASE d # c
        <5>1. pc'[d] = Broadcast({r})[d] /\ req'[d] = req[d]
          BY <4>2, <1>2
        <5>2. Broadcast({r})[d] = "idle" <=> pc[d] = "idle"
          BY <1>0, BroadcastWakes
        <5> QED BY <4>2, <3>1, <5>1, <5>2
      <4> QED BY <4>1, <4>2
    <3> QED BY <2>1, <3>1, <3>2, <1>7 DEF QueueOf, Record
  <2>2. CASE s # r
    <3>1. QueueOf(s) /\ Record(s) /\ queue'[s] = queue[s]
      BY <2>2, <1>3 DEF QueueInv
    <3>2. QueueOf(s)'
      BY <2>2, <3>1, <1>0, <1>2, QueueStays
    <3> QED BY <2>2, <3>1, <3>2, <1>1 DEF Record
  <2> QED BY <2>1, <2>2
<1>5. ASSUME NEW d \in Call, pc'[d] = "asleep" PROVE Stuck(d)'
  <2>1. d # c /\ pc[d] = "asleep" /\ req[d].res # r
    BY <1>0, <1>2, <1>5, BroadcastWakes
  <2>2. req[d].res \in Resource /\ d \notin cancelled
    BY <2>1 DEF QueueInv, LockInv, Requests, Request, Stuck
  <2>3. SameLocks(req[d].res)
    <3>1. req[d].res \in Resource \ {r}
      BY <2>1, <2>2
    <3>2. queue'[req[d].res] = queue[req[d].res]
      BY <1>3, <3>1
    <3>3. /\ exclusiveHolder'[req[d].res] = exclusiveHolder[req[d].res]
          /\ sharedHolders'[req[d].res] = sharedHolders[req[d].res]
      BY <1>1, <3>1, Zenon
    <3> QED BY <3>2, <3>3 DEF SameLocks
  <2>4. \A e \in Call : pc[e] # "idle" => req'[e] = req[e]
    OBVIOUS
  <2> QED BY <2>1, <2>2, <2>3, <2>4, StuckStays
<1>6. ASSUME NEW d \in cancelled' PROVE pc'[d] # "idle"
  <2>1. d \in Call /\ d # c /\ pc[d] # "idle"
    BY <1>0, <1>6 DEF QueueInv, TypeOK
  <2>2. Broadcast({r})[d] # "idle"
    BY <1>0, <2>1, BroadcastWakes
  <2> QED BY <1>2, <2>1, <2>2
<1> QED BY <1>4, <1>5, <1>6 DEF QueueInv

\* A release, which broadcasts on everything it changes.
LEMMA ReleaseQueue ==
  ASSUME QueueInv, LockInv', NEW t \in Txn, NEW R \in SUBSET Resource,
         \A r \in R : Releasable(t, r), releaseLocked(t, R)
  PROVE  QueueInv'
<1> USE NoTxnAssumption
<1>0. TypeOK /\ TypeOK'
  BY DEF QueueInv, LockInv
<1> DEFINE shared(r) == IF held[t][r] = "S" THEN sharedHolders[r] \ {t} ELSE sharedHolders[r]
           exclusive(r) == IF held[t][r] = "X" THEN NoTxn ELSE exclusiveHolder[r]
           idle == {r \in R : sweepIfIdle(shared(r), exclusive(r), queue[r])}
<1>1. /\ sharedHolders' = [r \in Resource |-> IF r \in R THEN shared(r) ELSE sharedHolders[r]]
      /\ exclusiveHolder' = [r \in Resource |-> IF r \in R THEN exclusive(r) ELSE exclusiveHolder[r]]
      /\ resources' = resources \ idle
      /\ queue' = [r \in Resource |-> IF r \in idle THEN << >> ELSE queue[r]]
  BY DEF releaseLocked
<1>6. ASSUME NEW r \in Resource PROVE queue'[r] = queue[r]
  BY <1>1 DEF sweepIfIdle
<1>7. ASSUME NEW r \in R
      PROVE  r \in resources' <=> exclusiveHolder'[r] # NoTxn \/ sharedHolders'[r] # {}
                                  \/ queue[r] # << >>
  <2>1. r \in resources /\ sharedHolders'[r] = shared(r) /\ exclusiveHolder'[r] = exclusive(r)
    BY <1>1 DEF Releasable
  <2>2. r \in idle <=> exclusive(r) = NoTxn /\ shared(r) = {} /\ queue[r] = << >>
    BY DEF sweepIfIdle
  <2> QED BY <1>1, <2>1, <2>2
<1>8. ASSUME NEW r \in Resource, r \notin R
      PROVE  /\ r \in resources' <=> r \in resources
             /\ exclusiveHolder'[r] = exclusiveHolder[r]
             /\ sharedHolders'[r] = sharedHolders[r]
  BY <1>1, <1>8
<1> HIDE DEF shared, exclusive, idle
<1>2. pc' = Broadcast(R) /\ UNCHANGED <<req, cancelled>>
  BY DEF releaseLocked
<1>3. ASSUME NEW s \in Resource PROVE QueueOf(s)' /\ Record(s)'
  <2>1. QueueOf(s) /\ Record(s) /\ queue'[s] = queue[s]
    BY <1>6 DEF QueueInv
  <2>2. \A d \in Call : In(queue[s], d) <=> pc'[d] # "idle" /\ req'[d].res = s
    BY <2>1, <1>0, <1>2, BroadcastWakes DEF QueueOf
  <2>3. Record(s)'
    <3>1. CASE s \in R
      BY <2>1, <3>1, <1>7 DEF Record
    <3>2. CASE s \notin R
      BY <2>1, <3>2, <1>8 DEF Record
    <3> QED BY <3>1, <3>2
  <2> QED BY <2>1, <2>2, <2>3 DEF QueueOf
<1>4. ASSUME NEW d \in Call, pc'[d] = "asleep" PROVE Stuck(d)'
  <2>1. pc[d] = "asleep" /\ req[d].res \notin R
    BY <1>0, <1>2, <1>4, BroadcastWakes
  <2>2. req[d].res \in Resource /\ d \notin cancelled
    BY <2>1 DEF QueueInv, LockInv, Requests, Request, Stuck
  <2>3. SameLocks(req[d].res)
    <3> DEFINE s == req[d].res
    <3>1. s \in Resource /\ s \notin R /\ req'[d].res = s
      BY <1>2, <2>1, <2>2
    <3> HIDE DEF s
    <3>2. queue'[s] = queue[s] /\ exclusiveHolder'[s] = exclusiveHolder[s]
                               /\ sharedHolders'[s] = sharedHolders[s]
      BY <1>6, <1>8, <3>1
    <3> QED BY <3>2 DEF s, SameLocks
  <2> QED BY <1>2, <2>1, <2>2, <2>3, StuckStays
<1>5. ASSUME NEW d \in cancelled' PROVE pc'[d] # "idle"
  BY <1>0, <1>2, <1>5, BroadcastWakes DEF QueueInv, TypeOK
<1> QED BY <1>3, <1>4, <1>5 DEF QueueInv

\* A call that can be granted neither when it comes nor when it is woken
\* sleeps; contexts end and watchers exit: the books and the records stay.
LEMMA WaitQueue ==
  ASSUME QueueInv, LockInv',
         UNCHANGED <<resources, sharedHolders, exclusiveHolder, queue>>,
         cancelled \subseteq cancelled', \A d \in cancelled' : pc'[d] # "idle",
         \A d \in Call : pc'[d] # "idle" <=> pc[d] # "idle",
         \A d \in Call : pc'[d] = "asleep" => Stuck(d)',
         \A d \in Call : pc[d] # "idle" => req'[d] = req[d]
  PROVE  QueueInv'
<1>1. ASSUME NEW s \in Resource PROVE QueueOf(s)' /\ Record(s)'
  <2>1. QueueOf(s) /\ Record(s)
    BY DEF QueueInv
  <2>2. \A d \in Call : In(queue[s], d) <=> pc'[d] # "idle" /\ req'[d].res = s
    BY <2>1 DEF QueueOf
  <2> QED BY <2>1, <2>2 DEF QueueOf, Record
<1> QED BY <1>1 DEF QueueInv

\* Every step keeps the invariant.
LEMMA QueueStep ==
  ASSUME QueueInv, [Next]_vars PROVE QueueInv'
<1>0. LockInv /\ LockInv' /\ TypeOK /\ TypeOK'
  BY LockStep DEF QueueInv, LockInv
<1>1. ASSUME NEW c \in Call, NEW rq \in Request, AcquireContext(c, rq) PROVE QueueInv'
  <2> DEFINE r == rq.res
  <2> PICK q : q = Append(queue[r], c)
    OBVIOUS
  <2>1. r \in Resource /\ pc[c] = "idle" /\ c \notin cancelled
    BY <1>0, <1>1, NoRequestAssumption
       DEF AcquireContext, QueueInv, LockInv, Requests, Request
  <2>2. /\ req' = [req EXCEPT ![c] = rq] /\ cancelled' = cancelled
        /\ resources' = resources \cup {r}
        /\ \A d \in Call \ {c} : req'[d] = req[d]
    BY <1>0, <1>1 DEF AcquireContext, TypeOK
  <2>3. /\ queue[r] \in Seq(Call) /\ Distinct(queue[r]) /\ ~In(queue[r], c)
        /\ \A d \in Call : In(queue[r], d) <=> pc[d] # "idle" /\ req[d].res = r
    BY <1>0, <2>1 DEF QueueInv, QueueOf, TypeOK
  <2>4. /\ q \in Seq(Call) /\ Distinct(q)
        /\ \A d \in Call : In(q, d) <=> d = c \/ (pc[d] # "idle" /\ req[d].res = r)
    BY <2>3, AppendElements
  <2>5. CASE Grant(c, rq, q)
    <3> QED BY <1>0, <2>1, <2>2, <2>4, <2>5, GrantQueue
  <2>6. CASE /\ ~canGrant(c, rq, q)
             /\ queue' = [queue EXCEPT ![r] = q]
             /\ pc' = [pc EXCEPT ![c] = "asleep"]
             /\ UNCHANGED <<sharedHolders, exclusiveHolder, held>>
    <3>1. ASSUME NEW s \in Resource PROVE QueueOf(s)' /\ Record(s)'
      <4>1. CASE s = r
        <5>1. queue'[r] = q
          BY <1>0, <2>1, <2>6 DEF TypeOK
        <5>2. \A d \in Call : In(q, d) <=> pc'[d] # "idle" /\ req'[d].res = r
          BY <1>0, <2>2, <2>4, <2>6 DEF TypeOK
        <5>3. q # << >>
          BY <2>3
        <5> QED BY <4>1, <5>1, <5>2, <5>3, <2>2, <2>4 DEF QueueOf, Record
      <4>2. CASE s # r
        <5>1. queue'[s] = queue[s] /\ QueueOf(s) /\ Record(s)
          BY <1>0, <4>2, <2>1, <2>6 DEF TypeOK, QueueInv
        <5>2. \A d \in Call : In(queue[s], d) <=> pc'[d] # "idle" /\ req'[d].res = s
          BY <1>0, <2>1, <2>2, <2>6, <4>2, <5>1 DEF TypeOK, QueueOf
        <5> QED BY <4>2, <5>1, <5>2, <2>2, <2>6 DEF QueueOf, Record
      <4> QED BY <4>1, <4>2
    <3>2. ASSUME NEW d \in Call, pc'[d] = "asleep" PROVE Stuck(d)'
      <4>1. CASE d = c
        <5>1. req'[c] = rq /\ queue'[r] = q
          BY <1>0, <2>1, <2>2, <2>6 DEF TypeOK
        <5>2. \A i \in 1..Len(q) : (\A j \in 1..i : q[j] # c) => req'[q[i]] = req[q[i]]
          BY <2>2, <2>4
        <5>3. ~canGrant(c, rq, q)'
          BY <2>6, <5>2, Zenon DEF canGrant
        <5> QED BY <4>1, <5>1, <5>3, <2>1, <2>2 DEF Stuck
      <4>2. CASE d # c
        <5>1. pc[d] = "asleep" /\ d \notin cancelled /\ req'[d] = req[d]
          BY <1>0, <2>2, <2>6, <3>2, <4>2 DEF TypeOK, QueueInv, Stuck
        <5>2. req[d].res \in Resource
          BY <5>1 DEF QueueInv, LockInv, Requests, Request
        <5>3. CASE req[d].res # r
          <6>1. SameLocks(req[d].res)
            BY <1>0, <2>1, <2>6, <5>2, <5>3 DEF TypeOK, SameLocks
          <6> QED BY <2>1, <2>2, <5>1, <6>1, StuckStays
        <5>4. CASE req[d].res = r
          <6>1. queue'[r] = q
            BY <1>0, <2>1, <2>6 DEF TypeOK
          <6>2. ~canGrant(d, req[d], queue[r])
            BY <5>1, <5>4 DEF QueueInv, Stuck
          <6>3. /\ Len(q) = Len(queue[r]) + 1
                /\ \A i \in 1..Len(queue[r]) : q[i] = queue[r][i] /\ req'[q[i]] = req[q[i]]
            BY <2>2, <2>3 DEF In
          <6>4. ~canGrant(d, req[d], q)'
            <7> SUFFICES ASSUME canGrant(d, req[d], q)' PROVE FALSE
              OBVIOUS
            <7>1. /\ exclusiveHolder[r] = NoTxn
                  /\ req[d].mode = "X" => sharedHolders[r] = {}
                  /\ \A i \in 1..Len(q) :
                       (\A j \in 1..i : q[j] # d) => req[d].mode = "S" /\ req'[q[i]].mode = "S"
              BY <2>6, <5>1, <5>4, Zenon DEF canGrant
            <7>2. ASSUME NEW i \in 1..Len(queue[r]), \A j \in 1..i : queue[r][j] # d
                  PROVE  req[d].mode = "S" /\ req[queue[r][i]].mode = "S"
              <8>0. Len(queue[r]) \in Nat
                BY <2>3
              <8>1. i \in 1..Len(q) /\ \A j \in 1..i : q[j] # d
                BY <8>0, <6>3, <7>2
              <8>2. req[d].mode = "S" /\ req'[q[i]].mode = "S"
                BY <7>1, <8>1
              <8>3. q[i] = queue[r][i] /\ req'[q[i]] = req[q[i]]
                BY <6>3
              <8> QED BY <8>2, <8>3
            <7> QED BY <5>4, <6>2, <7>1, <7>2 DEF canGrant
          <6>5. d \notin cancelled' /\ req'[d].res = r
            BY <2>2, <5>1, <5>4
          <6> QED BY <5>1, <6>1, <6>4, <6>5, Zenon DEF Stuck
        <5> QED BY <5>3, <5>4
      <4> QED BY <4>1, <4>2
    <3>3. ASSUME NEW d \in cancelled' PROVE pc'[d] # "idle"
      BY <1>0, <2>1, <2>2, <2>6, <3>3, SMTT(20) DEF QueueInv, TypeOK
    <3> QED BY <1>0, <3>1, <3>2, <3>3 DEF QueueInv
  <2> QED BY <1>1, <2>5, <2>6 DEF AcquireContext
<1>2. ASSUME NEW c \in Call, WakeCancelled(c) PROVE QueueInv'
  <2> DEFINE r == req[c].res
             q == removeFromQueue(queue[r], c)
  <2>1. r \in Resource /\ pc[c] # "idle"
    BY <1>2 DEF WakeCancelled, QueueInv, LockInv, Requests, Request
  <2>2. queue[r] \in Seq(Call) /\ QueueOf(r) /\ Record(r) /\ r \in resources
    <3>1. queue[r] \in Seq(Call) /\ QueueOf(r) /\ Record(r)
      BY <1>0, <2>1 DEF QueueInv, TypeOK
    <3>2. In(queue[r], c)
      BY <2>1, <3>1 DEF QueueOf
    <3>3. queue[r] # << >>
      BY <3>1, <3>2 DEF In
    <3> QED BY <3>1, <3>3 DEF Record
  <2>3. Distinct(q) /\ \A d \in Call : In(q, d) <=> In(queue[r], d) /\ d # c
    <3>1. Distinct(queue[r])
      BY <2>2 DEF QueueOf
    <3> QED BY <2>2, <3>1, RemoveElements
  <2>4. /\ UNCHANGED <<sharedHolders, exclusiveHolder>>
        /\ queue' = [queue EXCEPT ![r] = q]
        /\ resources' = IF exclusiveHolder[r] = NoTxn /\ sharedHolders[r] = {} /\ q = << >>
                        THEN resources \ {r} ELSE resources
        /\ pc' = [Broadcast({r}) EXCEPT ![c] = "idle"]
        /\ req' = [req EXCEPT ![c] = NoRequest] /\ cancelled' = cancelled \ {c}
    BY <1>2, Zenon DEF WakeCancelled, sweepIfIdle
  <2>5. pc'[c] = "idle" /\ \A d \in Call \ {c} : pc'[d] = Broadcast({r})[d] /\ req'[d] = req[d]
    BY <1>0, <2>4, BroadcastType DEF TypeOK
  <2>6. queue'[r] = q /\ \A s \in Resource \ {r} : queue'[s] = queue[s]
    BY <1>0, <2>1, <2>4 DEF TypeOK
  <2> HIDE DEF q
  <2>7. ASSUME NEW s \in Resource PROVE QueueOf(s)' /\ Record(s)'
    <3>1. CASE s = r
      <4>1. ASSUME NEW d \in Call PROVE In(q, d) <=> pc'[d] # "idle" /\ req'[d].res = r
        <5>1. In(queue[r], d) <=> pc[d] # "idle" /\ req[d].res = r
          BY <2>2 DEF QueueOf
        <5>2. CASE d = c
          BY <2>3, <2>5, <5>2
        <5>3. CASE d # c
          <6>1. Broadcast({r})[d] = "idle" <=> pc[d] = "idle"
            BY <1>0, BroadcastWakes
          <6> QED BY <2>3, <2>5, <5>1, <5>3, <6>1
        <5> QED BY <5>2, <5>3
      <4>2. QueueOf(s)'
        BY <3>1, <4>1, <2>3, <2>6 DEF QueueOf
      <4>3. r \in resources' <=> exclusiveHolder[r] # NoTxn \/ sharedHolders[r] # {} \/ q # << >>
        BY <2>2, <2>4
      <4>4. Record(s)'
        BY <3>1, <4>3, <2>4, <2>6 DEF Record
      <4> QED BY <4>2, <4>4
    <3>2. CASE s # r
      <4>1. QueueOf(s) /\ Record(s) /\ queue'[s] = queue[s]
        BY <3>2, <2>6 DEF QueueInv
      <4>2. QueueOf(s)'
        BY <1>0, <3>2, <4>1, <2>5, QueueStays
      <4>3. s \in resources' <=> s \in resources
        BY <2>4, <3>2
      <4> QED BY <4>1, <4>2, <4>3, <2>4 DEF Record
    <3> QED BY <3>1, <3>2
  <2>8. ASSUME NEW d \in Call, pc'[d] = "asleep" PROVE Stuck(d)'
    <3>1. d # c /\ pc[d] = "asleep" /\ req[d].res # r
      BY <1>0, <2>5, <2>8, BroadcastWakes
    <3>2. req[d].res \in Resource /\ d \notin cancelled /\ req'[d] = req[d]
      BY <3>1, <2>5 DEF QueueInv, LockInv, Requests, Request, Stuck
    <3>3. SameLocks(req[d].res)
      BY <2>4, <2>6, <3>1, <3>2 DEF SameLocks
    <3>4. \A e \in Call : pc[e] # "idle" /\ req[e].res = req[d].res => req'[e] = req[e]
      BY <2>5, <3>1
    <3>5. d \notin cancelled'
      BY <2>4, <3>2
    <3> QED BY <3>1, <3>3, <3>4, <3>5, StuckStays
  <2>9. ASSUME NEW d \in cancelled' PROVE pc'[d] # "idle"
    <3>1. d \in Call /\ d # c /\ pc[d] # "idle"
      BY <1>0, <2>4, <2>9 DEF QueueInv, TypeOK
    <3>2. Broadcast({r})[d] # "idle"
      BY <1>0, <3>1, BroadcastWakes
    <3> QED BY <2>5, <3>1, <3>2
  <2> QED BY <1>0, <2>7, <2>8, <2>9 DEF QueueInv
<1>3. ASSUME NEW c \in Call, WakeGranted(c) PROVE QueueInv'
  <2> PICK rq : rq = req[c]
    OBVIOUS
  <2> PICK q : q = queue[rq.res]
    OBVIOUS
  <2>1. rq \in Request /\ rq.res \in Resource /\ pc[c] # "idle" /\ c \notin cancelled
    BY <1>3 DEF WakeGranted, QueueInv, LockInv, Requests, Request
  <2>2. q \in Seq(Call) /\ QueueOf(rq.res) /\ Record(rq.res)
    BY <1>0, <2>1 DEF QueueInv, TypeOK
  <2>3. Distinct(q) /\ \A d \in Call : In(q, d) <=> d = c \/ (pc[d] # "idle" /\ req[d].res = rq.res)
    BY <2>1, <2>2 DEF QueueOf
  <2>4. rq.res \in resources
    BY <2>1, <2>2, <2>3 DEF In, Record
  <2>5. Grant(c, rq, q) /\ UNCHANGED <<resources, req, cancelled>>
    BY <1>3 DEF WakeGranted
  <2>6. resources' = resources \cup {rq.res}
    BY <2>4, <2>5
  <2> QED BY <1>0, <2>1, <2>2, <2>3, <2>5, <2>6, GrantQueue
<1>4. ASSUME NEW c \in Call, WakeAgain(c) PROVE QueueInv'
  <2>1. /\ pc[c] = "woken" /\ c \notin cancelled /\ ~canGrant(c, req[c], queue[req[c].res])
        /\ pc' = [pc EXCEPT ![c] = "asleep"]
        /\ UNCHANGED <<resources, sharedHolders, exclusiveHolder, queue, req, cancelled>>
    BY <1>4 DEF WakeAgain, lockVars
  <2>2. \A d \in Call : pc'[d] # "idle" <=> pc[d] # "idle"
    BY <1>0, <2>1 DEF TypeOK
  <2>3. ASSUME NEW d \in Call, pc'[d] = "asleep" PROVE Stuck(d)'
    <3>1. Stuck(d)
      BY <1>0, <2>1, <2>3 DEF TypeOK, QueueInv, Stuck
    <3> QED BY <2>1, <3>1, Zenon DEF Stuck, canGrant
  <2>4. \A d \in cancelled' : pc'[d] # "idle"
    BY <1>0, <2>1, <2>2, SMTT(20) DEF QueueInv, TypeOK
  <2> QED BY <1>0, <2>1, <2>2, <2>3, <2>4, WaitQueue
<1>5. ASSUME NEW c \in Call, ContextDone(c) PROVE QueueInv'
  <2>1. UNCHANGED <<resources, sharedHolders, exclusiveHolder, queue, pc, req, cancelled>>
    BY <1>5 DEF ContextDone, lockVars
  <2>2. ASSUME NEW d \in Call, pc'[d] = "asleep" PROVE Stuck(d)'
    <3>1. Stuck(d)
      BY <2>1, <2>2 DEF QueueInv
    <3> QED BY <2>1, <3>1, Zenon DEF Stuck, canGrant
  <2>3. \A d \in cancelled' : pc'[d] # "idle"
    BY <2>1 DEF QueueInv
  <2> QED BY <1>0, <2>1, <2>2, <2>3, WaitQueue
<1>6. ASSUME NEW c \in Call, WatcherDone(c) \/ WatcherExit(c) PROVE QueueInv'
  <2> DEFINE R == {req[c].res}
  <2>1. /\ UNCHANGED <<resources, sharedHolders, exclusiveHolder, queue>>
        /\ pc' = pc \/ pc' = Broadcast(R)
    BY <1>6 DEF WatcherDone, WatcherExit, lockVars
  <2>2. /\ \A d \in Call : pc'[d] # "idle" <=> pc[d] # "idle"
        /\ \A d \in Call : pc'[d] = "asleep" => pc[d] = "asleep"
    BY <1>0, <2>1, BroadcastWakes
  <2>3. \A d \in Call : pc[d] # "idle" => req'[d] = req[d]
    BY <1>0, <1>6 DEF WatcherDone, WatcherExit, Waiting, TypeOK
  <2>4. /\ cancelled \subseteq cancelled'
        /\ \A d \in cancelled' : pc[d] # "idle"
        /\ \A d \in Call : pc'[d] = "asleep" => d \notin cancelled'
    <3>1. \A d \in Call : pc'[d] = "asleep" => d \notin cancelled
      BY <2>2 DEF QueueInv, Stuck
    <3>2. CASE WatcherDone(c)
      <4>1. cancelled' = cancelled \cup {c} /\ pc[c] # "idle" /\ pc' = Broadcast(R)
        BY <3>2 DEF WatcherDone, Waiting
      <4>2. pc'[c] # "asleep"
        BY <1>0, <4>1, BroadcastWakes
      <4> QED BY <3>1, <4>1, <4>2 DEF QueueInv
    <3>3. CASE WatcherExit(c)
      <4>1. cancelled' = cancelled
        BY <3>3, SMTT(20) DEF WatcherExit
      <4> QED BY <3>1, <4>1 DEF QueueInv
    <3> QED BY <1>6, <3>2, <3>3
  <2>5. ASSUME NEW d \in Call, pc'[d] = "asleep" PROVE Stuck(d)'
    <3>1. pc[d] = "asleep" /\ d \notin cancelled' /\ req'[d] = req[d]
      BY <2>2, <2>3, <2>4, <2>5
    <3>2. SameLocks(req[d].res)
      BY <2>1 DEF SameLocks
    <3> QED BY <2>3, <3>1, <3>2, StuckStays
  <2>6. \A d \in cancelled' : pc'[d] # "idle"
    BY <1>0, <2>2, <2>4 DEF TypeOK
  <2> QED BY <1>0, <2>1, <2>2, <2>3, <2>4, <2>5, <2>6, WaitQueue
<1>7. ASSUME NEW t \in Txn, ReleaseAll(t) \/ \E r \in Resource : Release(t, r) PROVE QueueInv'
  <2>1. PICK R \in SUBSET Resource : (\A r \in R : Releasable(t, r)) /\ releaseLocked(t, R)
    BY <1>7 DEF ReleaseAll, Release
  <2> QED BY <1>0, <2>1, ReleaseQueue
<1>8. CASE UNCHANGED vars
  <2>1. UNCHANGED <<resources, sharedHolders, exclusiveHolder, queue, pc, req, cancelled>>
    BY <1>8 DEF vars
  <2>2. ASSUME NEW d \in Call, pc'[d] = "asleep" PROVE Stuck(d)'
    <3>1. Stuck(d)
      BY <2>1, <2>2 DEF QueueInv
    <3> QED BY <2>1, <3>1, Zenon DEF Stuck, canGrant
  <2>3. \A d \in cancelled' : pc'[d] # "idle"
    BY <2>1 DEF QueueInv
  <2> QED BY <1>0, <2>1, <2>2, <2>3, WaitQueue
<1> QED BY <1>1, <1>2, <1>3, <1>4, <1>5, <1>6, <1>7, <1>8 DEF Next, Wake

\* The invariant holds of every behaviour of the lock manager.
THEOREM QueueInvariant == Spec => []QueueInv
<1>1. QueueInv /\ [Next]_vars => QueueInv'
  BY QueueStep
<1> QED BY <1>1, QueueInit, PTL DEF Spec

\* No wakeup is lost: whatever mix of grants, releases, cancellations and exits
\* of watchers goes on, a call asleep in cond.Wait could not go on if woken.
THEOREM NoWakeupIsLost == Spec => []NoLostWakeup
<1>1. QueueInv => NoLostWakeup
  <2> SUFFICES ASSUME QueueInv, NEW c \in Call, pc[c] = "asleep"
               PROVE  /\ \E i \in 1..Len(queue[req[c].res]) : queue[req[c].res][i] = c
                      /\ c \notin cancelled
                      /\ ~canGrant(c, req[c], queue[req[c].res])
    BY DEF NoLostWakeup
  <2>1. req[c].res \in Resource
    BY DEF QueueInv, LockInv, Requests, Request
  <2>2. In(queue[req[c].res], c)
    BY <2>1 DEF QueueInv, QueueOf
  <2> QED BY <2>2 DEF QueueInv, Stuck, In
<1> QED BY <1>1, QueueInvariant, PTL

\* sweepIfIdle reclaims a lockState exactly when nobody holds or awaits its
\* resource: no waiter is stranded on a deleted record, and none is leaked.
THEOREM RecordsInUse == Spec => []RecordIffInUse
<1>1. QueueInv => RecordIffInUse
  <2> SUFFICES ASSUME QueueInv, NEW r \in Resource
               PROVE  r \in resources <=> \/ \E t \in Txn : held[t][r] # "none"
                                          \/ \E c \in Waiting : req[c].res = r
    BY DEF RecordIffInUse
  <2>1. TypeOK /\ HoldersAgree /\ QueueOf(r) /\ Record(r)
    BY DEF QueueInv, LockInv
  <2>2. exclusiveHolder[r] # NoTxn \/ sharedHolders[r] # {} <=> \E t \in Txn : held[t][r] # "none"
    BY <2>1, NoTxnAssumption DEF TypeOK, HoldersAgree, Mode
  <2>3. queue[r] # << >> <=> \E c \in Waiting : req[c].res = r
    <3>1. queue[r] \in Seq(Call)
      BY <2>1 DEF TypeOK
    <3>2. queue[r] # << >> <=> \E c \in Call : In(queue[r], c)
      BY <3>1 DEF In
    <3> QED BY <2>1, <3>2 DEF QueueOf, Waiting
  <2> QED BY <2>1, <2>2, <2>3 DEF Record
<1> QED BY <1>1, QueueInvariant, PTL
==============================================================================
