---------------------------- MODULE FencingProofs ----------------------------
(****************************************************************************)
(* Proofs about FencedStore and AtomicStore, for any number of transactions *)
(* and resources and any bounds: fencing alone rules out lost updates, and  *)
(* the MongoDB transaction of RunAtomic implements the fenced commit.       *)
(****************************************************************************)
EXTENDS AtomicStore, TLAPS

\* Tokens are handed out no higher than they were allocated, and a
\* transaction that was given no token has read nothing.  With these,
\* LiveReadCurrent is inductive.
TokensAllocated ==
  \A t \in Txn, r \in Resource : grant[t][r] <= fence[r].token

ReadsFenced ==
  \A t \in Txn, r \in Resource : grant[t][r] = 0 => seen[t][r] = Unread

FenceInv == TypeOK /\ TokensAllocated /\ ReadsFenced /\ LiveReadCurrent

\* Nothing has been allocated, granted or read.
LEMMA FenceInit == Init => FenceInv
BY BoundsAssumption
   DEF Init, FenceInv, TypeOK, TokensAllocated, ReadsFenced, LiveReadCurrent, Live, Unread

\* Every step of FencedStore keeps the fencing invariant.
LEMMA FenceStep == FenceInv /\ [Next]_vars => FenceInv'
<1> SUFFICES ASSUME FenceInv, [Next]_vars PROVE FenceInv'
  OBVIOUS
<1> USE BoundsAssumption, NoneAssumption
        DEF FenceInv, TypeOK, TokensAllocated, ReadsFenced, LiveReadCurrent, Live, Unread
<1>1. ASSUME NEW t \in Txn, NEW r \in Resource, Allocate(t, r) PROVE FenceInv'
  <2>1. fence[r].token + 1 \in 0..MaxToken
    BY <1>1 DEF Allocate
  <2>2. /\ fence' = [fence EXCEPT ![r] = [token |-> fence[r].token + 1, owner |-> t]]
        /\ UNCHANGED <<data, grant, seen>>
    BY <1>1 DEF Allocate
  <2>3. TypeOK'
    BY <2>1, <2>2
  <2>4. TokensAllocated' /\ ReadsFenced'
    BY <2>2
  <2>5. ASSUME NEW u \in Txn, NEW s \in Resource, Live(u, s)', seen'[u][s] # Unread
        PROVE seen'[u][s] = data'[s]
    <3>1. CASE s = r
      BY <3>1, <2>2, <2>5
    <3>2. CASE s # r
      BY <3>2, <2>2, <2>5
    <3> QED BY <3>1, <3>2
  <2> QED BY <2>3, <2>4, <2>5
<1>2. ASSUME NEW t \in Txn, NEW r \in Resource, Invalidate(t, r) PROVE FenceInv'
  BY <1>2 DEF Invalidate
<1>3. ASSUME NEW t \in Txn, NEW r \in Resource, Deliver(t, r) PROVE FenceInv'
  <2>1. PICK k \in 1..fence[r].token : grant' = [grant EXCEPT ![t][r] = k]
    BY <1>3 DEF Deliver
  <2>2. UNCHANGED <<fence, data, seen>> /\ grant[t][r] = 0
    BY <1>3 DEF Deliver
  <2>3. k \in 0..MaxToken /\ k <= fence[r].token /\ k # 0
    BY <2>1
  <2>4. TypeOK'
    BY <2>1, <2>2, <2>3
  <2>5. TokensAllocated' /\ ReadsFenced'
    BY <2>1, <2>2, <2>3
  <2>6. LiveReadCurrent'
    BY <2>1, <2>2, <2>3
  <2> QED BY <2>4, <2>5, <2>6
<1>4. ASSUME NEW t \in Txn, NEW r \in Resource, Read(t, r) PROVE FenceInv'
  BY <1>4 DEF Read
<1>5. ASSUME NEW t \in Txn, NEW R \in SUBSET Resource, Commit(t, R) PROVE FenceInv'
  <2>1. \A r \in R : Live(t, r) /\ data[r] < MaxVersion
    BY <1>5 DEF Commit
  <2>2. /\ data' = [r \in Resource |-> IF r \in R THEN data[r] + 1 ELSE data[r]]
        /\ seen' = [seen EXCEPT ![t] = [r \in Resource |-> Unread]]
        /\ UNCHANGED <<fence, grant>>
    BY <1>5 DEF Commit
  <2>3. TypeOK'
    BY <2>1, <2>2
  <2>4. TokensAllocated' /\ ReadsFenced'
    BY <2>2
  <2>5. ASSUME NEW u \in Txn, NEW s \in Resource, Live(u, s)', seen'[u][s] # Unread
        PROVE seen'[u][s] = data'[s]
    <3>1. u # t
      BY <2>2, <2>5
    <3>2. s \notin R
      BY <3>1, <2>1, <2>2, <2>5
    <3> QED BY <3>1, <3>2, <2>2, <2>5
  <2> QED BY <2>3, <2>4, <2>5
<1>6. CASE UNCHANGED vars
  BY <1>6 DEF vars
<1> QED BY <1>1, <1>2, <1>3, <1>4, <1>5, <1>6 DEF Next

\* Type correctness and LiveReadCurrent hold in every state FencedStore reaches.
THEOREM FenceInvariant == Spec => []FenceInv
BY FenceInit, FenceStep, PTL DEF Spec

\* A step that changes data is a commit by the live owner of every resource it
\* changes, who has read the version it replaces.
LEMMA FenceStepNoLostUpdate ==
  ASSUME FenceInv, [Next]_vars, NEW r \in Resource, data'[r] # data[r]
  PROVE  /\ data'[r] = data[r] + 1
         /\ \E t \in Txn : seen[t][r] = data[r] /\ fence[r].owner = t
<1>1. PICK t \in Txn, R \in SUBSET Resource : Commit(t, R)
  BY DEF Next, vars, Allocate, Invalidate, Deliver, Read
<1>2. r \in R /\ data'[r] = data[r] + 1
  BY <1>1 DEF Commit, FenceInv, TypeOK
<1>3. Live(t, r) /\ seen[t][r] # Unread
  BY <1>1, <1>2 DEF Commit
<1>4. fence[r].owner = t
  BY <1>3 DEF Live
<1>5. seen[t][r] = data[r]
  BY <1>3 DEF FenceInv, LiveReadCurrent
<1> QED BY <1>2, <1>4, <1>5

\* Fencing alone, whatever the coordinator does with the tokens, rules out lost
\* updates.
THEOREM FencedStoreNoLostUpdate == Spec => NoLostUpdate
<1>1. FenceInv /\ [Next]_vars =>
        [\A r \in Resource :
           data'[r] # data[r] =>
             /\ data'[r] = data[r] + 1
             /\ \E t \in Txn : seen[t][r] = data[r] /\ fence[r].owner = t]_vars
  BY FenceStepNoLostUpdate
<1> QED BY <1>1, FenceInvariant, PTL DEF Spec, NoLostUpdate
------------------------------------------------------------------------------
\* What a transaction has proved is live; what it has written is what it was
\* granted and has read, is written by nobody else, and is within the bound.
TxShape(t) ==
  /\ tx[t].pc # "validating" => tx[t].proved = {} /\ tx[t].wrote = {}
  /\ tx[t].pc = "validating" => tx[t].wrote = GrantsFromContext(t)
  /\ tx[t].pc \in {"started", "validating"} =>
       \A r \in GrantsFromContext(t) : seen[t][r] # Unread
  /\ \A r \in tx[t].wrote : data[r] < MaxVersion
  /\ \A u \in Txn : \A r \in tx[t].wrote : r \in tx[u].wrote => u = t

TxInv == StoreTypeOK /\ ProvedIsLive /\ \A t \in Txn : TxShape(t)

\* No transaction is open.
LEMMA TxInit == StoreInit => TxInv
<1> SUFFICES ASSUME StoreInit PROVE TxInv
  OBVIOUS
<1> USE BoundsAssumption DEF StoreInit, NoTx
<1>1. TypeOK
  BY DEF Init, TypeOK, Unread
<1>2. NoTx \in TxType
  BY DEF TxType, Snapshot
<1>3. StoreTypeOK
  BY <1>1, <1>2 DEF StoreTypeOK
<1>4. ProvedIsLive
  BY DEF ProvedIsLive
<1>5. \A t \in Txn : TxShape(t)
  BY DEF TxShape
<1> QED BY <1>3, <1>4, <1>5 DEF TxInv

\* A fresh attempt, and a finished one, have the right type and hold nothing.
LEMMA TxTypes ==
  ASSUME StoreTypeOK
  PROVE  /\ [NoTx EXCEPT !.pc = "done"] \in TxType
         /\ [NoTx EXCEPT !.pc = "started",
                         !.snapshot = [fence |-> fence, data |-> data]] \in TxType
<1>1. NoTx \in TxType
  BY BoundsAssumption DEF TxType, Snapshot, NoTx
<1>2. [fence |-> fence, data |-> data] \in Snapshot
  BY DEF StoreTypeOK, TypeOK, Snapshot
<1> QED BY <1>1, <1>2 DEF TxType

\* The coordinator's fence writes leave the open transactions' proofs alone.
LEMMA FenceWriteStep == TxInv /\ FenceWrite => TxInv'
<1> SUFFICES ASSUME TxInv, NEW t \in Txn, NEW r \in Resource, ~Fencing(r), UNCHANGED tx,
                    Allocate(t, r) \/ Invalidate(t, r)
             PROVE  TxInv'
  BY DEF FenceWrite
<1> USE BoundsAssumption DEF TxInv, StoreTypeOK
<1>1. UNCHANGED <<data, grant, seen>>
  BY DEF Allocate, Invalidate
<1>2. \A s \in Resource : s # r => fence'[s] = fence[s]
  BY DEF Allocate, Invalidate, TypeOK
<1>3. StoreTypeOK'
  <2>1. CASE Allocate(t, r)
    BY <2>1, <1>1 DEF Allocate, TypeOK
  <2>2. CASE Invalidate(t, r)
    BY <2>2, <1>1 DEF Invalidate, TypeOK
  <2> QED BY <2>1, <2>2
<1>4. ProvedIsLive'
  <2> SUFFICES ASSUME NEW u \in Txn, NEW s \in tx[u].proved PROVE Live(u, s)'
    BY DEF ProvedIsLive
  <2>1. s # r /\ s \in Resource
    BY DEF Fencing, TxType
  <2> QED BY <2>1, <1>1, <1>2 DEF ProvedIsLive, Live
<1>5. ASSUME NEW u \in Txn PROVE TxShape(u)'
  BY <1>1 DEF TxShape, GrantsFromContext
<1> QED BY <1>3, <1>4, <1>5

\* A transaction works only outside RunAtomic.
LEMMA WorkStep == TxInv /\ Work => TxInv'
<1> SUFFICES ASSUME TxInv, NEW t \in Txn, NEW r \in Resource, tx[t].pc = "none",
                    UNCHANGED tx, Deliver(t, r) \/ Read(t, r)
             PROVE  TxInv'
  BY DEF Work
<1> USE BoundsAssumption DEF TxInv, StoreTypeOK
<1>1. UNCHANGED <<fence, data>>
  BY DEF Deliver, Read
<1>2. \A u \in Txn : u # t => grant'[u] = grant[u] /\ seen'[u] = seen[u]
  BY DEF Deliver, Read, TypeOK
<1>3. StoreTypeOK'
  <2>1. CASE Deliver(t, r)
    <3>1. PICK k \in 1..fence[r].token : grant' = [grant EXCEPT ![t][r] = k]
      BY <2>1 DEF Deliver
    <3>2. k \in 0..MaxToken
      BY DEF TypeOK
    <3> QED BY <2>1, <3>1, <3>2 DEF Deliver, TypeOK
  <2>2. CASE Read(t, r)
    BY <2>2 DEF Read, TypeOK
  <2> QED BY <2>1, <2>2
<1>4. tx[t].proved = {} /\ tx[t].wrote = {}
  BY DEF TxShape
<1>5. ProvedIsLive'
  BY <1>1, <1>2, <1>4 DEF ProvedIsLive, Live
<1>6. ASSUME NEW u \in Txn PROVE TxShape(u)'
  <2>1. CASE u = t
    BY <2>1, <1>4 DEF TxShape
  <2>2. CASE u # t
    BY <2>2, <1>1, <1>2 DEF TxShape, GrantsFromContext
  <2> QED BY <2>1, <2>2
<1> QED BY <1>3, <1>5, <1>6

\* The steps of one RunAtomic short of the commit change only tx[t].
LEMMA AttemptStep ==
  ASSUME TxInv, UNCHANGED vars, NEW t \in Txn,
         \/ RunAtomic(t) \/ RunFn(t) \/ Retry(t) \/ Abort(t)
         \/ \E r \in Resource : validateFence(t, r) \/ StaleFence(t, r)
  PROVE  TxInv'
<1> USE DEF TxInv
<1> DEFINE fresh == [NoTx EXCEPT !.pc = "started",
                                 !.snapshot = [fence |-> fence, data |-> data]]
           over == [NoTx EXCEPT !.pc = "done"]
<1>0. UNCHANGED <<fence, data, grant, seen>>
  BY DEF vars
<1>1. fresh \in TxType /\ over \in TxType
  BY TxTypes
<1>2. /\ fresh.pc = "started" /\ fresh.wrote = {} /\ fresh.proved = {}
      /\ over.pc = "done" /\ over.wrote = {} /\ over.proved = {}
  BY DEF NoTx
<1>3. CASE RunAtomic(t) \/ Retry(t)
  <2>1. tx' = [tx EXCEPT ![t] = fresh]
    BY <1>3 DEF RunAtomic, Retry
  <2>2. \A r \in GrantsFromContext(t) : seen[t][r] # Unread
    BY <1>3 DEF RunAtomic, Retry, TxShape
  <2> HIDE DEF fresh
  <2>3. StoreTypeOK'
    BY <2>1, <1>0, <1>1 DEF StoreTypeOK, TypeOK
  <2>4. ProvedIsLive'
    BY <2>1, <1>0, <1>2 DEF ProvedIsLive, Live, StoreTypeOK
  <2>5. ASSUME NEW u \in Txn PROVE TxShape(u)'
    BY <2>1, <2>2, <1>0, <1>2 DEF TxShape, GrantsFromContext, StoreTypeOK
  <2> QED BY <2>3, <2>4, <2>5
<1>4. CASE Abort(t) \/ \E r \in Resource : StaleFence(t, r)
  <2>1. tx' = [tx EXCEPT ![t] = over]
    BY <1>4 DEF Abort, StaleFence
  <2> HIDE DEF over
  <2>3. StoreTypeOK'
    BY <2>1, <1>0, <1>1 DEF StoreTypeOK, TypeOK
  <2>4. ProvedIsLive'
    BY <2>1, <1>0, <1>2 DEF ProvedIsLive, Live, StoreTypeOK
  <2>5. ASSUME NEW u \in Txn PROVE TxShape(u)'
    BY <2>1, <1>0, <1>2 DEF TxShape, GrantsFromContext, StoreTypeOK
  <2> QED BY <2>3, <2>4, <2>5
<1>5. CASE RunFn(t)
  <2> DEFINE R == GrantsFromContext(t)
  <2>1. /\ tx' = [tx EXCEPT ![t].pc = "validating", ![t].wrote = R]
        /\ tx[t].pc = "started"
        /\ \A r \in R : data[r] < MaxVersion /\ \A u \in Txn : r \notin tx[u].wrote
    BY <1>5 DEF RunFn
  <2>2. R \in SUBSET Resource
    BY DEF GrantsFromContext
  <2>3. \A u \in Txn : GrantsFromContext(u)' = GrantsFromContext(u)
    BY <1>0 DEF GrantsFromContext
  <2>4. \A r \in R : seen[t][r] # Unread
    BY <2>1 DEF TxShape
  <2> HIDE DEF R
  <2>5. /\ tx \in [Txn -> TxType] /\ tx' \in [Txn -> TxType]
        /\ tx'[t].pc = "validating" /\ tx'[t].wrote = R /\ tx'[t].proved = tx[t].proved
        /\ \A u \in Txn : u # t => tx'[u] = tx[u]
    BY <2>1, <2>2 DEF StoreTypeOK, TxType
  <2>6. StoreTypeOK'
    BY <2>5, <1>0 DEF StoreTypeOK, TypeOK
  <2>7. ProvedIsLive'
    BY <2>5, <1>0 DEF ProvedIsLive, Live
  <2>8. ASSUME NEW u \in Txn PROVE TxShape(u)'
    <3>1. CASE u = t
      BY <3>1, <2>1, <2>3, <2>4, <2>5, <1>0 DEF TxShape, R
    <3>2. CASE u # t
      BY <3>2, <2>1, <2>3, <2>5, <1>0 DEF TxShape
    <3> QED BY <3>1, <3>2
  <2> QED BY <2>6, <2>7, <2>8
<1>6. ASSUME NEW r \in Resource, validateFence(t, r) PROVE TxInv'
  <2>1. /\ tx' = [tx EXCEPT ![t].proved = @ \cup {r}]
        /\ tx[t].pc = "validating"
        /\ Matches(t, r) /\ fence[r] = tx[t].snapshot.fence[r] /\ grant[t][r] > 0
    BY <1>6 DEF validateFence, GrantsFromContext
  <2>2. Live(t, r)
    BY <2>1 DEF Matches, Live
  <2>3. /\ tx \in [Txn -> TxType] /\ tx' \in [Txn -> TxType]
        /\ tx'[t].pc = "validating" /\ tx'[t].wrote = tx[t].wrote
        /\ tx'[t].proved = tx[t].proved \cup {r}
        /\ \A u \in Txn : u # t => tx'[u] = tx[u]
    BY <2>1 DEF StoreTypeOK, TxType
  <2>4. StoreTypeOK'
    BY <2>3, <1>0 DEF StoreTypeOK, TypeOK
  <2>5. ProvedIsLive'
    BY <2>2, <2>3, <1>0 DEF ProvedIsLive, Live
  <2>6. ASSUME NEW u \in Txn PROVE TxShape(u)'
    BY <2>1, <2>3, <1>0 DEF TxShape, GrantsFromContext
  <2> QED BY <2>4, <2>5, <2>6
<1> QED BY <1>3, <1>4, <1>5, <1>6

\* The commit of RunAtomic is a fenced commit of everything it has written.
LEMMA CommitIsFenced ==
  ASSUME TxInv, NEW t \in Txn, CommitTransaction(t)
  PROVE  Commit(t, tx[t].wrote) /\ tx[t].wrote \in SUBSET Resource
<1>1. tx[t].wrote = GrantsFromContext(t) /\ tx[t].proved = GrantsFromContext(t)
  BY DEF TxInv, TxShape, CommitTransaction
<1>2. \A r \in tx[t].wrote : Live(t, r) /\ seen[t][r] # Unread /\ data[r] < MaxVersion
  BY <1>1 DEF TxInv, TxShape, ProvedIsLive, CommitTransaction
<1> QED BY <1>1, <1>2 DEF Commit, CommitTransaction, GrantsFromContext

\* CommitTransaction keeps TxInv: what others proved and read is untouched.
LEMMA CommitStep ==
  ASSUME TxInv, NEW t \in Txn, CommitTransaction(t) PROVE TxInv'
<1> USE BoundsAssumption DEF TxInv
<1> DEFINE over == [NoTx EXCEPT !.pc = "done"]
<1>1. over \in TxType /\ over.pc = "done" /\ over.wrote = {} /\ over.proved = {}
  BY TxTypes DEF NoTx
<1>2. /\ data' = [r \in Resource |-> IF r \in tx[t].wrote THEN data[r] + 1 ELSE data[r]]
      /\ seen' = [seen EXCEPT ![t] = [r \in Resource |-> Unread]]
      /\ tx' = [tx EXCEPT ![t] = over]
      /\ UNCHANGED <<fence, grant>>
  BY DEF CommitTransaction
<1> HIDE DEF over
<1>3. \A r \in tx[t].wrote : data[r] < MaxVersion
  BY DEF TxShape
<1>4. /\ tx \in [Txn -> TxType] /\ tx' \in [Txn -> TxType]
      /\ tx'[t] = over /\ \A u \in Txn : u # t => tx'[u] = tx[u] /\ seen'[u] = seen[u]
  BY <1>1, <1>2 DEF StoreTypeOK, TypeOK
<1>5. TypeOK'
  BY <1>2, <1>3 DEF StoreTypeOK, TypeOK, Unread
<1>6. ProvedIsLive'
  BY <1>1, <1>2, <1>4 DEF ProvedIsLive, Live
<1>7. ASSUME NEW u \in Txn PROVE TxShape(u)'
  <2>1. CASE u = t
    BY <2>1, <1>1, <1>4 DEF TxShape
  <2>2. CASE u # t
    <3>1. \A r \in tx[u].wrote : r \in Resource /\ r \notin tx[t].wrote
      BY <2>2, <1>4 DEF TxShape, TxType
    <3> QED BY <2>2, <3>1, <1>1, <1>2, <1>4 DEF TxShape, GrantsFromContext
  <2> QED BY <2>1, <2>2
<1> QED BY <1>4, <1>5, <1>6, <1>7 DEF StoreTypeOK

\* Every statement of a transaction, and every step of the coordinator under it.
LEMMA TxStep == TxInv /\ [StoreNext]_storeVars => TxInv'
<1> SUFFICES ASSUME TxInv, [StoreNext]_storeVars PROVE TxInv'
  OBVIOUS
<1>1. CASE UNCHANGED storeVars
  BY <1>1 DEF TxInv, StoreTypeOK, TypeOK, ProvedIsLive, Live, TxShape, GrantsFromContext, storeVars
<1>2. CASE FenceWrite \/ Work
  BY <1>2, FenceWriteStep, WorkStep
<1>3. ASSUME NEW t \in Txn, CommitTransaction(t) PROVE TxInv'
  BY <1>3, CommitStep
<1>4. ASSUME NEW t \in Txn,
             \/ RunAtomic(t) \/ RunFn(t) \/ Retry(t) \/ Abort(t)
             \/ \E r \in Resource : validateFence(t, r) \/ StaleFence(t, r)
      PROVE TxInv'
  <2>1. UNCHANGED vars
    BY <1>4 DEF RunAtomic, RunFn, Retry, Abort, validateFence, StaleFence
  <2> QED BY <2>1, <1>4, AttemptStep
<1> QED BY <1>1, <1>2, <1>3, <1>4 DEF StoreNext

\* A fence an open transaction has proved stays live until it ends.
THEOREM ProvedStaysLive == StoreSpec => []ProvedIsLive
<1>1. TxInv => ProvedIsLive
  BY DEF TxInv
<1> QED BY <1>1, TxInit, TxStep, PTL DEF StoreSpec

\* RunAtomic implements the atomic fenced commit.
THEOREM AtomicStoreImplementsFencedStore == StoreSpec => ImplementsFencedStore
<1>1. StoreInit => Init
  BY DEF StoreInit
<1>2. TxInv /\ [StoreNext]_storeVars => [Next]_vars
  <2> SUFFICES ASSUME TxInv, StoreNext, ~UNCHANGED vars PROVE Next
    BY DEF storeVars, vars
  <2>1. CASE FenceWrite \/ Work
    BY <2>1 DEF FenceWrite, Work, Next
  <2>2. ASSUME NEW t \in Txn, CommitTransaction(t) PROVE Next
    BY <2>2, CommitIsFenced DEF Next
  <2> QED BY <2>1, <2>2 DEF StoreNext, RunAtomic, RunFn, Retry, Abort, validateFence, StaleFence
<1> QED BY <1>1, <1>2, TxInit, TxStep, PTL DEF StoreSpec, Spec, ImplementsFencedStore

\* Every change of a resource's data is made on top of the version its writer
\* had read, under a live token, when RunAtomic commits statement by statement.
THEOREM AtomicStoreNoLostUpdate == StoreSpec => NoLostUpdate
BY AtomicStoreImplementsFencedStore, FencedStoreNoLostUpdate, PTL DEF ImplementsFencedStore

\* A transaction whose token is live has read the current data, at every statement
\* of every RunAtomic in progress.
THEOREM AtomicStoreReadsCurrent == StoreSpec => []LiveReadCurrent
<1>1. FenceInv => LiveReadCurrent
  BY DEF FenceInv
<1>2. Spec => []LiveReadCurrent
  BY <1>1, FenceInvariant, PTL
<1> QED BY <1>2, AtomicStoreImplementsFencedStore, PTL DEF ImplementsFencedStore
==============================================================================
