---------------------------- MODULE CoordinatorInv ---------------------------
(****************************************************************************)
(* What the coordinator guarantees about locks and grants, for any number   *)
(* of transactions, resources and concurrent Acquire handlers.              *)
(*                                                                          *)
(* The four properties of Coordinator.tla are about recorded grants, but a  *)
(* grant is recorded long after its lock was taken: in between the handler  *)
(* carries it, and teardowns and other handlers of the same transaction run *)
(* meanwhile.  CoordInv says what holds of a lock while it is carried.  It  *)
(* distinguishes a transaction that is open (active), one that is not       *)
(* finished and may be in teardown, and one that is finished, because each  *)
(* step of a teardown takes something away from what the handlers may       *)
(* assume.                                                                  *)
(****************************************************************************)
EXTENDS Coordinator, TLAPS

\* A handler that carries a lock, and one that found the transaction active
\* and so will record a grant unless Allocate fails.
Carries(h) == handler[h].pc \in {"granted", "fencing", "recording", "undo"}
Commits(h) == handler[h].pc \in {"fencing", "recording"}
For(h, o, r) == handler[h].obj = o /\ handler[h].res = r

Open(o) == txn[o].state = "active" /\ ~txn[o].finished

\* The types the argument needs.  Which fences a teardown has left is not one.
Phases(Left) == [Obj -> [pc : {"none", "begun", "invalidating", "retry"}, left : Left]]
TeardownTyped == \E Left : teardown \in Phases(Left)

Types ==
  /\ byID \in [UUID -> Obj \cup {0}]
  /\ next \in 0..MaxTxnID
  /\ txn \in [Obj -> Transaction]
  /\ held \in [Obj -> [Resource -> {"S", "X", "none"}]]
  /\ handler \in [Handler -> HandlerState]
  /\ TeardownTyped

\* The registry: ids up to next are in use; an id's transaction is found under
\* its name until it is finished; only what is being ended is torn down.
Named(o) ==
  /\ o <= next => txn[o].external \in UUID
  /\ o <= next /\ ~txn[o].finished => byID[txn[o].external] = o
  /\ o > next => txn[o] = NoTransaction /\ \A r \in Resource : held[o][r] = "none"
  /\ teardown[o].pc # "none" => o <= next /\ ~txn[o].finished /\ ~Open(o)
Registered(u) == byID[u] # 0 => byID[u] <= next /\ txn[byID[u]].external = u

\* A busy handler has a transaction and a request; only an exclusive request is
\* fenced, so that a shared grant has token 0.
Request(h) ==
  handler[h].pc # "idle" =>
    /\ handler[h].obj \in 1..next
    /\ handler[h].res \in Resource
    /\ handler[h].mode \in {"S", "X"}
    /\ handler[h].pc = "fencing" => handler[h].mode = "X"
    /\ handler[h].mode = "S" => handler[h].token = 0

\* In an open transaction whatever is carried or recorded is held, in its mode,
\* and an exclusive lock is carried once and not recorded.
Holds(o) ==
  Open(o) =>
    /\ \A h \in Handler : Carries(h) /\ handler[h].obj = o =>
         /\ held[o][handler[h].res] = handler[h].mode
         /\ handler[h].pc = "undo" => handler[h].mode = "X"
         /\ \A k \in Handler \ {h} :
              Carries(k) /\ For(k, o, handler[h].res) => handler[h].mode = "S"
         /\ GrantsOn(o, handler[h].res) # {} => handler[h].mode = "S"
    /\ \A g \in Grants(o) : held[o][g.res] = g.mode

\* Until it is finished, no other handler can take an exclusive lock away.
Kept(o) ==
  ~txn[o].finished =>
    /\ \A h \in Handler : Commits(h) /\ handler[h].obj = o /\ handler[h].mode = "X" =>
         /\ held[o][handler[h].res] = "X"
         /\ \A k \in Handler \ {h} : Carries(k) => ~For(k, o, handler[h].res)
    /\ \A g \in Grants(o) : g.mode = "X" =>
         /\ held[o][g.res] = "X"
         /\ \A k \in Handler : Carries(k) => ~For(k, o, g.res)

\* Even when it is finished, what was and what may still be recorded agree.
Agree(o) ==
  /\ \A h, k \in Handler :
       Commits(h) /\ Commits(k) /\ h # k /\ handler[h].obj = o /\ For(k, o, handler[h].res) =>
         handler[h].mode = "S"
  /\ \A h \in Handler, g \in Grants(o) :
       Commits(h) /\ For(h, o, g.res) => handler[h].mode = "S" /\ g.mode = "S"
  /\ \A g \in Grants(o) : g.mode = "S" => g.token = 0
  /\ \A g, f \in Grants(o) : g.res = f.res => g = f

\* A lock of a finished transaction is carried by a handler that will find out;
\* any other is carried, or has a lease, or is being torn down.
Reclaimable(o) ==
  \A r \in Resource : held[o][r] # "none" =>
    /\ txn[o].finished =>
         \E h \in Handler : For(h, o, r) /\ handler[h].pc \in {"granted", "undo"}
    /\ ~txn[o].finished =>
         InFlight(o, r) \/ txn[o].lease # "none" \/ teardown[o].pc # "none"

CoordInv ==
  /\ Types
  /\ \A u \in UUID : Registered(u)
  /\ \A h \in Handler : Request(h)
  /\ \A o \in Obj : Named(o) /\ Holds(o) /\ Kept(o) /\ Agree(o) /\ Reclaimable(o)

\* TeardownTyped is kept folded, so that the provers need not look for a Left.
LEMMA TypedStays ==
  ASSUME TeardownTyped, UNCHANGED teardown
  PROVE  TeardownTyped'
BY Zenon DEF TeardownTyped, Phases

\* A coordinator that starts knows no transaction and holds no lock.
LEMMA CoordInit == MemoryInit => CoordInv
<1> SUFFICES ASSUME MemoryInit PROVE CoordInv
  OBVIOUS
<1> USE BoundsAssumption DEF MemoryInit
<1>1. Types
  <2>1. NoTransaction \in Transaction /\ IdleHandler \in HandlerState
    BY DEF NoTransaction, Transaction, IdleHandler, HandlerState
  <2>2. teardown \in Phases({<<>>})
    BY DEF NoTeardown, Phases
  <2>3. held \in [Obj -> [Resource -> {"S", "X", "none"}]]
    BY DEF LT!Init
  <2>4. byID \in [UUID -> Obj \cup {0}] /\ next \in 0..MaxTxnID
    OBVIOUS
  <2>5. txn \in [Obj -> Transaction] /\ handler \in [Handler -> HandlerState]
    BY <2>1
  <2> QED
    BY Zenon, <2>2, <2>3, <2>4, <2>5 DEF Types, TeardownTyped
<1>2. \A u \in UUID : Registered(u)
  BY DEF Registered
<1>3. ASSUME NEW h \in Handler PROVE handler[h].pc = "idle"
  BY DEF IdleHandler
<1>4. \A h \in Handler : Request(h) /\ ~Carries(h) /\ ~Commits(h)
  BY <1>3 DEF Request, Carries, Commits
<1>5. ASSUME NEW o \in Obj
      PROVE  Named(o) /\ Holds(o) /\ Kept(o) /\ Agree(o) /\ Reclaimable(o)
  <2>1. /\ txn[o] = NoTransaction /\ o > next /\ teardown[o].pc = "none"
        /\ \A r \in Resource : held[o][r] = "none"
    BY DEF Obj, LT!Init, NoTeardown
  <2>2. Grants(o) = {}
    BY <2>1 DEF Grants, NoTransaction
  <2>3. Named(o)
    BY <2>1 DEF Named, Obj
  <2>4. Holds(o) /\ Kept(o) /\ Agree(o)
    BY <1>4, <2>2 DEF Holds, Kept, Agree
  <2>5. Reclaimable(o)
    BY <2>1 DEF Reclaimable
  <2> QED
    BY <2>3, <2>4, <2>5
<1> QED
  BY <1>1, <1>2, <1>4, <1>5 DEF CoordInv

\* A step that leaves a transaction's locks alone: they are carried by the same
\* handlers and recorded as before.  It may close the transaction, give it a
\* lease or begin its teardown.
Spared(o) ==
  /\ held'[o] = held[o]
  /\ txn'[o].grants = txn[o].grants
  /\ txn'[o].finished = txn[o].finished
  /\ Open(o)' => Open(o)
  /\ txn'[o].lease = "none" => txn[o].lease = "none"
  /\ teardown[o].pc # "none" => teardown'[o].pc # "none"
  /\ \A h \in Handler :
       \/ Carries(h) /\ handler[h].obj = o
       \/ Carries(h)' /\ handler'[h].obj = o
       => handler'[h] = handler[h]

\* What is recorded and what may still be recorded go on agreeing, if no grant
\* is recorded and no handler newly commits itself.
LEMMA AgreeKeeps ==
  ASSUME NEW o \in Obj, Agree(o), Grants(o)' = Grants(o),
         \A h \in Handler :
           Commits(h)' /\ handler'[h].obj = o => Commits(h) /\ handler'[h] = handler[h]
  PROVE  Agree(o)'
<1>1. \A h \in Handler : \A r : Commits(h)' /\ For(h, o, r)' => Commits(h) /\ For(h, o, r)
  BY DEF For
<1>2. ASSUME NEW h \in Handler, NEW k \in Handler, Commits(h)', Commits(k)', h # k,
             handler'[h].obj = o, For(k, o, handler[h].res)'
      PROVE  handler'[h].mode = "S"
  <2>1. Commits(h) /\ handler'[h] = handler[h]
    BY <1>2
  <2>2. Commits(k) /\ For(k, o, handler[h].res)
    BY <1>1, <1>2, <2>1
  <2> QED
    BY <1>2, <2>1, <2>2 DEF Agree
<1>3. ASSUME NEW h \in Handler, NEW g \in Grants(o), Commits(h)', For(h, o, g.res)'
      PROVE  handler'[h].mode = "S" /\ g.mode = "S"
  <2>1. Commits(h) /\ For(h, o, g.res)
    BY <1>1, <1>3
  <2>2. handler'[h].mode = handler[h].mode
    BY <1>3 DEF For
  <2> QED
    BY <2>1, <2>2 DEF Agree
<1>4. /\ \A g \in Grants(o)' : g.mode = "S" => g.token = 0
      /\ \A g, f \in Grants(o)' : g.res = f.res => g = f
  BY DEF Agree
<1> QED
  BY <1>2, <1>3, <1>4 DEF Agree

\* Such a transaction keeps its part of the invariant.
LEMMA SparedKeeps ==
  ASSUME NEW o \in Obj, Spared(o), Holds(o), Kept(o), Agree(o), Reclaimable(o)
  PROVE  Holds(o)' /\ Kept(o)' /\ Agree(o)' /\ Reclaimable(o)'
<1>1. \A h \in Handler :
        Carries(h)' /\ handler'[h].obj = o => Carries(h) /\ handler'[h] = handler[h]
  BY DEF Spared, Carries
<1>2. \A h \in Handler :
        Commits(h)' /\ handler'[h].obj = o => Commits(h) /\ handler'[h] = handler[h]
  BY <1>1 DEF Commits, Carries
<1>3. Grants(o)' = Grants(o)
  BY DEF Spared, Grants
<1>4. \A r : GrantsOn(o, r)' = GrantsOn(o, r)
  BY <1>3 DEF GrantsOn
<1>5. held'[o] = held[o] /\ txn'[o].finished = txn[o].finished /\ (Open(o)' => Open(o))
  BY DEF Spared
<1>6. Holds(o)'
  <2> SUFFICES ASSUME Open(o)' PROVE Holds(o)'
    BY DEF Holds
  <2>1. \A g \in Grants(o) : held[o][g.res] = g.mode
    BY <1>5 DEF Holds
  <2>2. ASSUME NEW h \in Handler, Carries(h)', handler'[h].obj = o
        PROVE  /\ held[o][handler[h].res] = handler[h].mode
               /\ handler[h].pc = "undo" => handler[h].mode = "X"
               /\ \A k \in Handler \ {h} :
                    Carries(k)' /\ For(k, o, handler[h].res)' => handler[h].mode = "S"
               /\ GrantsOn(o, handler[h].res) # {} => handler[h].mode = "S"
    <3>1. Carries(h) /\ handler[h].obj = o
      BY <1>1, <2>2
    <3>2. ASSUME NEW k \in Handler \ {h}, Carries(k)', For(k, o, handler[h].res)'
          PROVE  handler[h].mode = "S"
      <4>1. Carries(k) /\ For(k, o, handler[h].res)
        BY <1>1, <2>2, <3>2 DEF For
      <4> QED
        BY <1>5, <3>1, <4>1 DEF Holds
    <3> QED
      BY <1>5, <3>1, <3>2 DEF Holds
  <2>3. ASSUME NEW h \in Handler, Carries(h)', handler'[h].obj = o PROVE handler'[h] = handler[h]
    BY <1>1, <2>3
  <2> QED
    BY <1>3, <1>4, <1>5, <2>1, <2>2, <2>3 DEF Holds
<1>7. Kept(o)'
  <2> SUFFICES ASSUME ~txn[o].finished PROVE Kept(o)'
    BY <1>5 DEF Kept
  <2>1. \A h \in Handler : \A r : Carries(h)' /\ For(h, o, r)' => Carries(h) /\ For(h, o, r)
    BY <1>1 DEF For
  <2> QED
    BY <1>2, <1>3, <1>5, <2>1 DEF Kept
<1>8. Agree(o)'
  BY <1>2, <1>3, AgreeKeeps
<1>9. Reclaimable(o)'
  <2>1. ASSUME NEW h \in Handler, NEW r, For(h, o, r), Carries(h)
        PROVE  For(h, o, r)' /\ handler'[h].pc = handler[h].pc
    BY <2>1 DEF Spared, For
  <2>2. \A r : InFlight(o, r) => InFlight(o, r)'
    BY <2>1 DEF InFlight, For, Carries
  <2> QED
    BY <1>5, <2>1, <2>2 DEF Reclaimable, Spared, Carries
<1> QED
  BY <1>6, <1>7, <1>8, <1>9

\* A step after which every lock is carried and recorded as before: it may
\* close transactions, move leases and teardowns on, and forget finished names.
QuietFor(o) ==
  /\ txn'[o].external = txn[o].external
  /\ txn'[o].grants = txn[o].grants
  /\ txn'[o].finished = txn[o].finished
  /\ Open(o)' => Open(o)
  /\ o > next => txn'[o] = txn[o]
  /\ txn'[o].lease = "none" => txn[o].lease = "none"
  /\ teardown[o].pc # "none" => teardown'[o].pc # "none"
  /\ teardown'[o].pc # "none" =>
       teardown[o].pc # "none" \/ (o <= next /\ ~txn[o].finished /\ ~Open(o)')
Quiet ==
  /\ Types' /\ \A h \in Handler : Request(h)'
  /\ UNCHANGED <<next, held>>
  /\ \A h \in Handler : Carries(h) \/ Carries(h)' => handler'[h] = handler[h]
  /\ \A o \in Obj : QuietFor(o)
  /\ \A u \in UUID : byID'[u] # byID[u] =>
       byID'[u] = 0 /\ byID[u] # 0 /\ txn[byID[u]].finished

\* Such a step keeps the invariant: Active and the leases are all it touches.
LEMMA QuietKeeps ==
  ASSUME CoordInv, Quiet
  PROVE  CoordInv'
<1>3. ASSUME NEW u \in UUID PROVE Registered(u)'
  <2>1. CASE byID'[u] = 0
    BY <2>1 DEF Registered
  <2>2. CASE byID'[u] # 0
    <3>1. byID'[u] = byID[u]
      BY <2>2 DEF Quiet
    <3>2. byID[u] \in Obj
      BY <2>2, <3>1 DEF CoordInv, Types
    <3> QED
      BY <3>1, <3>2 DEF CoordInv, Registered, Quiet, QuietFor
  <2> QED
    BY <2>1, <2>2
<1>4. ASSUME NEW o \in Obj
      PROVE  Named(o)' /\ Holds(o)' /\ Kept(o)' /\ Agree(o)' /\ Reclaimable(o)'
  <2>3. Named(o)'
    <3>1. o <= next /\ ~txn[o].finished => byID'[txn[o].external] = o
      <4> SUFFICES ASSUME o <= next, ~txn[o].finished PROVE byID'[txn[o].external] = o
        OBVIOUS
      <4>1. txn[o].external \in UUID /\ byID[txn[o].external] = o
        BY DEF CoordInv, Named
      <4> QED
        BY <4>1 DEF Quiet
    <3> QED
      BY <3>1 DEF CoordInv, Named, Quiet, QuietFor
  <2>4. Spared(o)
    BY DEF Quiet, QuietFor, Spared
  <2>5. Holds(o)' /\ Kept(o)' /\ Agree(o)' /\ Reclaimable(o)'
    BY <2>4, SparedKeeps DEF CoordInv
  <2> QED
    BY <2>3, <2>5
<1> QED
  BY <1>3, <1>4 DEF CoordInv, Quiet

\* A step that changes none of this.
LEMMA StutterKeeps ==
  ASSUME CoordInv, UNCHANGED <<byID, next, txn, held, handler, teardown>>
  PROVE  CoordInv'
<1>1. Types' /\ \A h \in Handler : Request(h)'
  BY TypedStays DEF CoordInv, Types, Request
<1>2. Quiet
  BY <1>1 DEF Quiet, QuietFor, Open, Carries
<1> QED
  BY <1>2, QuietKeeps

\* A handler that carries nothing before and after a step.
LEMMA IdleKeeps ==
  ASSUME CoordInv, NEW h \in Handler, handler[h].pc \in {"ensured", "queued"},
         Return(h) \/ Goto(h, "queued"),
         UNCHANGED <<byID, next, txn, held, teardown>>
  PROVE  CoordInv'
<1>1. /\ handler' \in [Handler -> HandlerState]
      /\ \A k \in Handler \ {h} : handler'[k] = handler[k]
      /\ handler'[h].pc \in {"idle", "queued"}
      /\ handler'[h].pc = "queued" => /\ handler'[h].obj = handler[h].obj
                                      /\ handler'[h].res = handler[h].res
                                      /\ handler'[h].mode = handler[h].mode
                                      /\ handler'[h].token = handler[h].token
  <2>1. IdleHandler \in HandlerState
    BY BoundsAssumption DEF IdleHandler, HandlerState
  <2>2. CASE Return(h)
    BY <2>1, <2>2 DEF CoordInv, Types, Return, IdleHandler
  <2>3. CASE Goto(h, "queued")
    BY ZenonT(30), <2>3 DEF CoordInv, Types, Goto, HandlerState
  <2> QED
    BY <2>2, <2>3
<1>2. Types'
  BY <1>1, TypedStays DEF CoordInv, Types
<1>3. ASSUME NEW k \in Handler PROVE Request(k)'
  BY <1>1 DEF CoordInv, Request
<1>4. \A k \in Handler : Carries(k) \/ Carries(k)' => handler'[k] = handler[k]
  BY <1>1 DEF Carries
<1>5. Quiet
  BY <1>2, <1>3, <1>4 DEF Quiet, QuietFor, Open
<1> QED
  BY <1>5, QuietKeeps

\* RenewLease, and a deadline that passes.
LEMMA LeaseKeeps ==
  ASSUME CoordInv, NEW o \in Obj, NEW l \in {"running", "passed"},
         txn[o].lease # "none", txn' = [txn EXCEPT ![o].lease = l],
         UNCHANGED <<byID, next, held, handler, teardown>>
  PROVE  CoordInv'
<1>1. /\ txn' \in [Obj -> Transaction]
      /\ \A p \in Obj \ {o} : txn'[p] = txn[p]
      /\ txn'[o] = [txn[o] EXCEPT !.lease = l]
  BY ZenonT(30) DEF CoordInv, Types, Transaction
<1>2. /\ txn'[o].external = txn[o].external /\ txn'[o].state = txn[o].state
      /\ txn'[o].finished = txn[o].finished /\ txn'[o].grants = txn[o].grants
      /\ txn'[o].lease = l
  BY <1>1 DEF CoordInv, Types, Transaction
<1>3. o <= next
  BY DEF CoordInv, Named, NoTransaction, Obj, Types
<1>4. Types' /\ \A h \in Handler : Request(h)'
  BY <1>1, TypedStays DEF CoordInv, Types, Request
<1>5. ASSUME NEW p \in Obj PROVE QuietFor(p)
  <2>1. CASE p = o
    BY <1>2, <1>3, <2>1 DEF QuietFor, Open, CoordInv, Types, Obj
  <2>2. CASE p # o
    BY <1>1, <2>2 DEF QuietFor, Open
  <2> QED
    BY <2>1, <2>2
<1>6. Quiet
  BY <1>4, <1>5 DEF Quiet, Carries
<1> QED
  BY <1>6, QuietKeeps

\* EndTransaction, and revoke of an active transaction: the requests that wait
\* are cancelled, none that carries a lock is.
LEMMA BeginKeeps ==
  ASSUME CoordInv, NEW o \in Obj, Active(o), NEW st \in {"ending", "revoking"},
         beginTeardown(o, st), UNCHANGED <<byID, next, held>>
  PROVE  CoordInv'
<1>1. /\ txn' \in [Obj -> Transaction]
      /\ \A p \in Obj \ {o} : txn'[p] = txn[p]
      /\ txn'[o] = [txn[o] EXCEPT !.state = st]
  <2>1. txn' = [txn EXCEPT ![o].state = st]
    BY DEF beginTeardown
  <2>2. txn \in [Obj -> Transaction]
    BY DEF CoordInv, Types
  <2>3. [txn[o] EXCEPT !.state = st] \in Transaction
    BY Zenon, <2>2 DEF Transaction
  <2> QED
    BY <2>1, <2>2, <2>3
<1>2. /\ txn'[o].external = txn[o].external /\ txn'[o].state = st
      /\ txn'[o].finished = txn[o].finished /\ txn'[o].grants = txn[o].grants
      /\ txn'[o].lease = txn[o].lease
  BY <1>1 DEF CoordInv, Types, Transaction
<1>3. o <= next
  BY DEF CoordInv, Named, NoTransaction, Obj, Types, Active
<1>4. /\ handler' \in [Handler -> HandlerState]
      /\ \A h \in Handler :
           /\ handler'[h].pc = handler[h].pc /\ handler'[h].obj = handler[h].obj
           /\ handler'[h].res = handler[h].res /\ handler'[h].mode = handler[h].mode
           /\ handler'[h].token = handler[h].token
           /\ handler[h].pc # "queued" => handler'[h] = handler[h]
  <2>1. ASSUME NEW h \in Handler
        PROVE  [handler[h] EXCEPT !.cancelled = TRUE] \in HandlerState
    BY ZenonT(30) DEF CoordInv, Types, HandlerState
  <2>2. handler' \in [Handler -> HandlerState]
    BY <2>1 DEF CoordInv, Types, beginTeardown
  <2>3. ASSUME NEW h \in Handler
        PROVE  handler'[h] = handler[h] \/
               (handler[h].pc = "queued" /\ handler'[h] = [handler[h] EXCEPT !.cancelled = TRUE])
    BY DEF beginTeardown
  <2>4. ASSUME NEW h \in Handler
        PROVE  /\ handler'[h].pc = handler[h].pc /\ handler'[h].obj = handler[h].obj
               /\ handler'[h].res = handler[h].res /\ handler'[h].mode = handler[h].mode
               /\ handler'[h].token = handler[h].token
               /\ handler[h].pc # "queued" => handler'[h] = handler[h]
    BY ZenonT(30), <2>3 DEF CoordInv, Types, HandlerState
  <2> QED
    BY <2>2, <2>4
<1>5. /\ TeardownTyped'
      /\ \A p \in Obj \ {o} : teardown'[p] = teardown[p]
      /\ teardown'[o].pc = "begun"
  <2>1. PICK Left : teardown \in Phases(Left)
    BY Zenon DEF CoordInv, Types, TeardownTyped
  <2>2. teardown' = [teardown EXCEPT ![o].pc = "begun"]
    BY DEF beginTeardown
  <2>3. teardown' \in Phases(Left)
    BY <2>1, <2>2 DEF Phases
  <2>4. TeardownTyped'
    BY Zenon, <2>3 DEF TeardownTyped, Phases
  <2> QED
    BY <2>1, <2>2, <2>4 DEF Phases
<1>6. Types'
  BY <1>1, <1>4, <1>5 DEF CoordInv, Types
<1>7. ASSUME NEW h \in Handler
      PROVE  Request(h)' /\ (Carries(h) \/ Carries(h)' => handler'[h] = handler[h])
  BY <1>4 DEF CoordInv, Request, Carries
<1>8. ASSUME NEW p \in Obj PROVE QuietFor(p)
  <2>1. CASE p = o
    BY <1>2, <1>3, <1>5, <2>1 DEF QuietFor, Open, CoordInv, Types, Active, Obj
  <2>2. CASE p # o
    BY <1>1, <1>5, <2>2 DEF QuietFor, Open
  <2> QED
    BY <2>1, <2>2
<1>9. Quiet
  BY <1>6, <1>7, <1>8 DEF Quiet
<1> QED
  BY <1>9, QuietKeeps

\* A teardown under way takes its snapshot, invalidates, fails or is retried.
LEMMA TeardownKeeps ==
  ASSUME CoordInv, NEW o \in Obj, teardown[o].pc # "none",
         NEW pc \in {"begun", "invalidating", "retry"}, NEW left,
         teardown' = [teardown EXCEPT ![o] = [pc |-> pc, left |-> left]],
         UNCHANGED <<byID, next, txn, held, handler>>
  PROVE  CoordInv'
<1>1. PICK Left : teardown \in Phases(Left)
  BY Zenon DEF CoordInv, Types, TeardownTyped
<1>2. teardown' \in Phases(Left \cup {left})
  BY <1>1 DEF Phases
<1>3. Types' /\ \A h \in Handler : Request(h)'
  <2>1. TeardownTyped'
    BY Zenon, <1>2 DEF TeardownTyped, Phases
  <2> QED
    BY <2>1 DEF CoordInv, Types, Request
<1>4. teardown'[o].pc = pc /\ \A p \in Obj \ {o} : teardown'[p] = teardown[p]
  BY <1>1 DEF Phases
<1>5. Quiet
  BY <1>3, <1>4 DEF Quiet, QuietFor, Open, Carries
<1> QED
  BY <1>5, QuietKeeps

\* A tick of the sweeper prunes only names of finished transactions.
LEMMA PruneKeeps ==
  ASSUME CoordInv, SweepPrune
  PROVE  CoordInv'
<1>1. PICK old \in SUBSET tombstones : byID' = [u \in UUID |-> IF u \in old THEN 0 ELSE byID[u]]
  BY DEF SweepPrune
<1>2. UNCHANGED <<next, txn, held, handler, teardown>>
  BY DEF SweepPrune
<1>3. byID' \in [UUID -> Obj \cup {0}]
  BY <1>1 DEF CoordInv, Types
<1>4. Types' /\ \A h \in Handler : Request(h)'
  BY <1>2, <1>3, TypedStays DEF CoordInv, Types, Request
<1>5. \A u \in UUID : byID'[u] # byID[u] => byID'[u] = 0 /\ byID[u] # 0 /\ txn[byID[u]].finished
  BY <1>1 DEF tombstones
<1>6. Quiet
  BY <1>2, <1>4, <1>5 DEF Quiet, QuietFor, Open, Carries
<1> QED
  BY <1>6, QuietKeeps

\* An unfinished transaction is registered, so that Open is what stillActive
\* tests.
LEMMA OpenIsActive ==
  ASSUME CoordInv, NEW o \in Obj, o <= next
  PROVE  Active(o) <=> Open(o)
<1>1. txn[o].external \in UUID /\ (~txn[o].finished => byID[txn[o].external] = o)
  BY DEF CoordInv, Named
<1> QED
  BY <1>1, NoneAssumption DEF Active, Open

\* Recorded grants are of requests.
LEMMA GrantTypes ==
  ASSUME CoordInv, NEW o \in Obj, NEW g \in Grants(o)
  PROVE  g \in GrantRecord /\ g.res \in Resource /\ g.mode \in {"S", "X"}
<1>1. txn[o].grants \in Seq(GrantRecord)
  BY DEF CoordInv, Types, Transaction
<1>2. g \in GrantRecord
  BY <1>1 DEF Grants
<1> QED
  BY <1>2 DEF GrantRecord, Mode, LT!Mode

\* What one handler does to its own activation.
OnlyHandler(h) ==
  /\ handler' \in [Handler -> HandlerState]
  /\ \A k \in Handler \ {h} : handler'[k] = handler[k]
SameRequest(h) ==
  /\ handler'[h].obj = handler[h].obj
  /\ handler'[h].res = handler[h].res
  /\ handler'[h].mode = handler[h].mode

\* A handler returns: it is idle, and no other handler is touched.
LEMMA ReturnIdles ==
  ASSUME Types, NEW h \in Handler, Return(h)
  PROVE  OnlyHandler(h) /\ handler'[h].pc = "idle"
<1>1. IdleHandler \in HandlerState /\ IdleHandler.pc = "idle"
  BY BoundsAssumption DEF IdleHandler, HandlerState
<1> QED
  BY <1>1 DEF Types, Return, OnlyHandler

\* A handler goes on to its next step with the request it has.
LEMMA GotoMoves ==
  ASSUME Types, NEW h \in Handler, NEW l \in {"queued", "fencing", "recording", "undo"}, Goto(h, l)
  PROVE  /\ OnlyHandler(h) /\ SameRequest(h)
         /\ handler'[h].pc = l /\ handler'[h].token = handler[h].token
<1>1. handler \in [Handler -> HandlerState] /\ handler' = [handler EXCEPT ![h].pc = l]
  BY DEF Types, Goto
<1>2. [handler[h] EXCEPT !.pc = l] \in HandlerState
  BY <1>1 DEF HandlerState
<1> QED
  BY <1>1, <1>2 DEF OnlyHandler, SameRequest, HandlerState

\* ReleaseAll and finish: nothing is held any more, and what handlers carry
\* after this they will give back.
LEMMA TeardownFinishKeeps ==
  ASSUME CoordInv, NEW o \in Obj, TeardownFinish(o)
  PROVE  CoordInv'
<1>1. teardown[o].pc # "none" /\ o <= next
  BY DEF TeardownFinish, CoordInv, Named
<1>2. UNCHANGED <<byID, next, handler>>
  BY DEF TeardownFinish
<1>3. /\ held' \in [Obj -> [Resource -> {"S", "X", "none"}]]
      /\ \A r \in Resource : held'[o][r] = "none"
      /\ \A p \in Obj \ {o} : held'[p] = held[p]
  <2>1. held \in [Obj -> [Resource -> {"S", "X", "none"}]]
    BY DEF CoordInv, Types
  <2>2. held' = [held EXCEPT ![o] = [r \in Resource |-> IF r \in Resource THEN "none" ELSE held[o][r]]]
    BY <2>1 DEF TeardownFinish, LT!Drop
  <2> QED
    BY <2>1, <2>2
<1>4. /\ txn' \in [Obj -> Transaction]
      /\ \A p \in Obj \ {o} : txn'[p] = txn[p]
      /\ txn'[o].external = txn[o].external /\ txn'[o].grants = txn[o].grants
      /\ txn'[o].finished = TRUE
  <2>1. txn \in [Obj -> Transaction] /\ txn' = [txn EXCEPT ![o].finished = TRUE]
    BY DEF CoordInv, Types, TeardownFinish
  <2>2. [txn[o] EXCEPT !.finished = TRUE] \in Transaction
    BY Zenon, <2>1 DEF Transaction
  <2> QED
    BY <2>1, <2>2 DEF Transaction
<1>5. /\ TeardownTyped'
      /\ \A p \in Obj \ {o} : teardown'[p] = teardown[p]
      /\ teardown'[o].pc = "none"
  <2>1. PICK Left : teardown \in Phases(Left)
    BY Zenon DEF CoordInv, Types, TeardownTyped
  <2>2. teardown' = [teardown EXCEPT ![o] = [pc |-> "none", left |-> <<>>]]
    BY DEF TeardownFinish, NoTeardown
  <2>3. teardown' \in Phases(Left \cup {<<>>})
    BY <2>1, <2>2 DEF Phases
  <2>4. TeardownTyped'
    BY Zenon, <2>3 DEF TeardownTyped, Phases
  <2> QED
    BY <2>1, <2>2, <2>4 DEF Phases
<1>6. Types' /\ \A h \in Handler : Request(h)'
  BY <1>2, <1>3, <1>4, <1>5 DEF CoordInv, Types, Request
<1>7. ASSUME NEW u \in UUID PROVE Registered(u)'
  <2>1. byID[u] # 0 => byID[u] \in Obj
    BY DEF CoordInv, Types
  <2>2. \A p \in Obj : txn'[p].external = txn[p].external
    BY <1>4
  <2> QED
    BY <1>2, <2>1, <2>2 DEF CoordInv, Registered
<1>8. \A h \in Handler : (Carries(h)' <=> Carries(h)) /\ (Commits(h)' <=> Commits(h))
  BY <1>2 DEF Carries, Commits
<1>9. ASSUME NEW p \in Obj
      PROVE  Named(p)' /\ Holds(p)' /\ Kept(p)' /\ Agree(p)' /\ Reclaimable(p)'
  <2>1. Grants(p)' = Grants(p) /\ \A r : GrantsOn(p, r)' = GrantsOn(p, r)
    BY <1>4 DEF Grants, GrantsOn
  <2>2. Holds(p) /\ Kept(p) /\ Agree(p) /\ Reclaimable(p) /\ Named(p)
    BY DEF CoordInv
  <2>3. Agree(p)'
    BY <1>2, <1>8, <2>1, <2>2, AgreeKeeps
  <2>4. CASE p = o
    <3>1. Named(o)'
      <4>1. o <= next /\ o \in Nat /\ next \in Nat
        BY <1>1, BoundsAssumption DEF CoordInv, Types, Obj
      <4>2. txn'[o].external = txn[o].external /\ txn'[o].finished /\ teardown'[o].pc = "none"
        BY <1>1, <1>4, <1>5
      <4> QED
        BY <1>2, <2>2, <2>4, <4>1, <4>2 DEF Named
    <3>2. Holds(o)' /\ Kept(o)'
      BY <1>4 DEF Holds, Kept, Open
    <3>3. Reclaimable(o)'
      BY <1>3 DEF Reclaimable
    <3> QED
      BY <2>3, <2>4, <3>1, <3>2, <3>3
  <2>5. CASE p # o
    <3>1. txn'[p] = txn[p] /\ held'[p] = held[p] /\ teardown'[p] = teardown[p] /\ (Open(p)' <=> Open(p))
      BY <1>3, <1>4, <1>5, <2>5 DEF Open
    <3>2. Named(p)'
      BY <1>2, <2>2, <3>1 DEF Named
    <3>3. Spared(p)
      BY <1>2, <3>1 DEF Spared
    <3> QED
      BY <2>2, <3>2, <3>3, SparedKeeps
  <2> QED
    BY <2>4, <2>5
<1> QED
  BY <1>6, <1>7, <1>9 DEF CoordInv

\* A handler passes the lock it carries on to its next step.  It may commit
\* itself only while the transaction is open.
LEMMA PassKeeps ==
  ASSUME CoordInv, NEW h \in Handler, Carries(h), Carries(h)',
         OnlyHandler(h), SameRequest(h), Request(h)',
         UNCHANGED <<byID, next, txn, held, teardown>>,
         Commits(h)' => Commits(h) \/ Open(handler[h].obj),
         handler'[h].pc = "undo" => handler[h].mode = "X" \/ ~Open(handler[h].obj),
         Commits(h)' => Commits(h) \/ ~txn[handler[h].obj].finished
  PROVE  CoordInv'
<1>1. \A k \in Handler : (Carries(k)' <=> Carries(k)) /\ SameRequest(k)
  BY DEF OnlyHandler, SameRequest, Carries
<1>2. \A k \in Handler \ {h} : (Commits(k)' <=> Commits(k)) /\ handler'[k].pc = handler[k].pc
  BY DEF OnlyHandler, Commits
<1>3. Types' /\ \A u \in UUID : Registered(u)'
  BY TypedStays DEF CoordInv, Types, OnlyHandler, Registered
<1>4. \A k \in Handler : Request(k)'
  BY DEF CoordInv, Request, OnlyHandler
<1>5. ASSUME NEW o \in Obj
      PROVE  Named(o)' /\ Holds(o)' /\ Kept(o)' /\ Agree(o)' /\ Reclaimable(o)'
  <2>1. Grants(o)' = Grants(o) /\ \A r : GrantsOn(o, r)' = GrantsOn(o, r)
    BY DEF Grants, GrantsOn
  <2>2. Open(o)' <=> Open(o)
    BY DEF Open
  <2>3. Holds(o) /\ Kept(o) /\ Agree(o) /\ Reclaimable(o)
    BY DEF CoordInv
  <2>4. Named(o)'
    BY <2>2 DEF CoordInv, Named
  <2>5. Holds(o)'
    <3> SUFFICES ASSUME Open(o) PROVE Holds(o)'
      BY <2>2 DEF Holds
    <3>1. ASSUME NEW k \in Handler, Carries(k)', handler'[k].obj = o
          PROVE  /\ held'[o][handler'[k].res] = handler'[k].mode
                 /\ handler'[k].pc = "undo" => handler'[k].mode = "X"
                 /\ \A j \in Handler \ {k} :
                      Carries(j)' /\ For(j, o, handler[k].res)' => handler'[k].mode = "S"
                 /\ GrantsOn(o, handler[k].res)' # {} => handler'[k].mode = "S"
      <4>1. /\ Carries(k) /\ handler[k].obj = o
            /\ handler'[k].res = handler[k].res /\ handler'[k].mode = handler[k].mode
        BY <1>1, <3>1 DEF SameRequest
      <4>2. \A j \in Handler : Carries(j)' /\ For(j, o, handler[k].res)' =>
                                 Carries(j) /\ For(j, o, handler[k].res)
        BY <1>1, <4>1 DEF For, SameRequest
      <4>3. /\ held[o][handler[k].res] = handler[k].mode
            /\ handler[k].pc = "undo" => handler[k].mode = "X"
            /\ \A j \in Handler \ {k} :
                 Carries(j) /\ For(j, o, handler[k].res) => handler[k].mode = "S"
            /\ GrantsOn(o, handler[k].res) # {} => handler[k].mode = "S"
        BY <2>3, <4>1 DEF Holds
      <4>4. handler'[k].pc = "undo" => handler[k].mode = "X"
        BY <1>2, <4>1, <4>3
      <4>5. GrantsOn(o, handler[k].res)' # {} => handler'[k].mode = "S"
        BY <2>1, <4>1, <4>3
      <4>6. held'[o][handler'[k].res] = handler'[k].mode
        BY <4>1, <4>3
      <4> QED
        BY <4>1, <4>2, <4>3, <4>4, <4>5, <4>6
    <3>2. \A g \in Grants(o)' : held'[o][g.res] = g.mode
      BY <2>1, <2>3 DEF Holds
    <3> QED
      BY <3>1, <3>2 DEF Holds
  <2>6. ASSUME NEW k \in Handler, Commits(k)', handler'[k].obj = o, ~Commits(k)
        PROVE  k = h /\ Open(o) /\ Carries(h) /\ handler[h].obj = o
    BY <1>1, <1>2, <2>6 DEF SameRequest
  <2>7. Kept(o)'
    <3> SUFFICES ASSUME ~txn[o].finished PROVE Kept(o)'
      BY DEF Kept
    <3>1. ASSUME NEW k \in Handler, Commits(k)', handler'[k].obj = o, handler'[k].mode = "X"
          PROVE  /\ held[o][handler'[k].res] = "X"
                 /\ \A j \in Handler \ {k} : Carries(j)' => ~For(j, o, handler[k].res)'
      <4>1. CASE Commits(k)
        <5>1. handler[k].obj = o /\ handler[k].mode = "X" /\ handler'[k].res = handler[k].res
          BY <1>1, <3>1 DEF SameRequest
        <5>2. /\ held[o][handler[k].res] = "X"
              /\ \A j \in Handler \ {k} : Carries(j) => ~For(j, o, handler[k].res)
          BY <2>3, <4>1, <5>1 DEF Kept
        <5>3. \A j \in Handler : Carries(j)' /\ For(j, o, handler[k].res)' =>
                                   Carries(j) /\ For(j, o, handler[k].res)
          BY <1>1, <5>1 DEF For, SameRequest
        <5> QED
          BY <5>1, <5>2, <5>3
      <4>2. CASE ~Commits(k)
        <5>1. k = h /\ Open(o) /\ Carries(h) /\ handler[h].obj = o /\ handler[h].mode = "X"
          BY <1>1, <2>6, <3>1, <4>2 DEF SameRequest
        <5> QED
          BY <1>1, <2>3, <5>1 DEF Holds, For, SameRequest
      <4> QED
        BY <4>1, <4>2
    <3>2. ASSUME NEW g \in Grants(o), g.mode = "X"
          PROVE  held[o][g.res] = "X" /\ \A k \in Handler : Carries(k)' => ~For(k, o, g.res)'
      <4>1. held[o][g.res] = "X" /\ \A k \in Handler : Carries(k) => ~For(k, o, g.res)
        BY <2>3, <3>2 DEF Kept
      <4>2. \A k \in Handler : Carries(k)' => Carries(k) /\ (For(k, o, g.res)' <=> For(k, o, g.res))
        BY <1>1 DEF For, SameRequest
      <4> QED
        BY <4>1, <4>2
    <3> QED
      BY <2>1, <3>1, <3>2 DEF Kept
  <2>8. Agree(o)'
    <3>1. ASSUME NEW k \in Handler, NEW j \in Handler, k # j, Commits(k)', Commits(j)',
                 handler'[k].obj = o, For(j, o, handler[k].res)'
          PROVE  handler'[k].mode = "S"
      <4>1. handler[k].obj = o /\ For(j, o, handler[k].res) /\ handler'[k].mode = handler[k].mode
        BY <1>1, <3>1 DEF For, SameRequest
      <4>2. CASE Commits(k) /\ Commits(j)
        BY <2>3, <3>1, <4>1, <4>2 DEF Agree
      <4>3. CASE ~(Commits(k) /\ Commits(j))
        <5>1. Open(o)
          BY <1>1, <2>6, <3>1, <4>1, <4>3 DEF For, SameRequest
        <5>2. Carries(k) /\ Carries(j)
          BY <1>1, <3>1 DEF Commits, Carries
        <5> QED
          BY <2>3, <3>1, <4>1, <5>1, <5>2 DEF Holds
      <4> QED
        BY <4>2, <4>3
    <3>2. ASSUME NEW k \in Handler, NEW g \in Grants(o), Commits(k)', For(k, o, g.res)'
          PROVE  handler'[k].mode = "S" /\ g.mode = "S"
      <4>1. For(k, o, g.res) /\ handler'[k].mode = handler[k].mode
        BY <1>1, <3>2 DEF For, SameRequest
      <4>2. CASE Commits(k)
        BY <2>3, <4>1, <4>2 DEF Agree
      <4>3. CASE ~Commits(k)
        <5>1. Open(o) /\ Carries(k)
          BY <1>1, <2>6, <3>2, <4>3 DEF For
        <5>2. GrantsOn(o, g.res) # {}
          BY DEF GrantsOn
        <5>3. handler[k].obj = o /\ handler[k].res = g.res
          BY <4>1 DEF For
        <5>4. handler[k].mode = "S" /\ held[o][handler[k].res] = handler[k].mode
          BY <2>3, <5>1, <5>2, <5>3 DEF Holds
        <5>5. held[o][g.res] = g.mode
          BY <2>3, <5>1 DEF Holds
        <5> QED
          BY <4>1, <5>3, <5>4, <5>5
      <4> QED
        BY <4>2, <4>3
    <3> QED
      BY <2>1, <2>3, <3>1, <3>2 DEF Agree
  <2>9. Reclaimable(o)'
    <3> SUFFICES ASSUME NEW r \in Resource, held[o][r] # "none"
                 PROVE  /\ txn[o].finished =>
                             (\E k \in Handler : For(k, o, r) /\ handler[k].pc \in {"granted", "undo"})'
                        /\ ~txn[o].finished =>
                             InFlight(o, r)' \/ txn[o].lease # "none" \/ teardown[o].pc # "none"
      BY DEF Reclaimable
    <3>1. CASE txn[o].finished
      <4>1. PICK k \in Handler : For(k, o, r) /\ handler[k].pc \in {"granted", "undo"}
        BY <2>3, <3>1 DEF Reclaimable
      <4>2. For(k, o, r)'
        BY <1>1, <4>1 DEF For, SameRequest
      <4>3. handler'[k].pc \in {"granted", "undo"}
        <5>1. CASE k = h
          BY <3>1, <4>1, <5>1 DEF For, Carries, Commits
        <5>2. CASE k # h
          BY <1>2, <4>1, <5>2
        <5> QED
          BY <5>1, <5>2
      <4> QED
        BY <3>1, <4>2, <4>3
    <3>2. CASE ~txn[o].finished
      <4>1. InFlight(o, r) => InFlight(o, r)'
        BY <1>1 DEF InFlight, Carries, SameRequest
      <4> QED
        BY <2>3, <3>2, <4>1 DEF Reclaimable
    <3> QED
      BY <3>1, <3>2
  <2> QED
    BY <2>4, <2>5, <2>7, <2>8, <2>9
<1> QED
  BY <1>3, <1>4, <1>5 DEF CoordInv

\* After the wait the handler goes on only if the transaction is active.
LEMMA StillActiveKeeps ==
  ASSUME CoordInv, NEW h \in Handler, stillActive(h)
  PROVE  CoordInv'
<1> DEFINE o == handler[h].obj
<1>1. /\ handler[h].pc = "granted" /\ o \in Obj /\ o <= next
      /\ handler[h].mode \in {"S", "X"}
  BY BoundsAssumption DEF stillActive, CoordInv, Request, Types, Obj
<1>2. Active(o) <=> Open(o)
  BY <1>1, OpenIsActive
<1>3. PICK l \in {"undo", "fencing", "recording"} :
        /\ Goto(h, l)
        /\ l = "undo" <=> ~Open(o)
        /\ l = "fencing" => handler[h].mode = "X"
  BY <1>2 DEF stillActive
<1>4. /\ OnlyHandler(h) /\ SameRequest(h)
      /\ handler'[h].pc = l /\ handler'[h].token = handler[h].token
  BY <1>3, GotoMoves DEF CoordInv
<1>5. UNCHANGED <<byID, next, txn, held, teardown>>
  BY DEF stillActive
<1>6. Carries(h) /\ Carries(h)'
  BY <1>1, <1>4 DEF Carries
<1>7. Request(h)'
  BY <1>1, <1>3, <1>4, <1>5 DEF Request, SameRequest, CoordInv
<1>8. Commits(h)' => Open(o) /\ ~txn[o].finished
  BY <1>3, <1>4 DEF Commits, Open
<1>9. handler'[h].pc = "undo" => ~Open(o)
  BY <1>3, <1>4
<1> QED
  BY <1>4, <1>5, <1>6, <1>7, <1>8, <1>9, PassKeeps

\* Allocate, with or without an answer, passes the lock on.
LEMMA AllocateKeeps ==
  ASSUME CoordInv, NEW h \in Handler, Allocate(h) \/ AllocateFails(h), MaxToken \in Nat,
         fence \in [Resource -> [token : 0..MaxToken, owner : UUID \cup {None}]]
  PROVE  CoordInv'
<1>1. /\ handler[h].pc = "fencing" /\ handler[h].mode = "X"
      /\ handler[h].obj \in 1..next /\ handler[h].res \in Resource
  BY DEF Allocate, AllocateFails, CoordInv, Request
<1>2. UNCHANGED <<byID, next, txn, held, teardown>>
  BY DEF Allocate, AllocateFails
<1>3. /\ OnlyHandler(h) /\ SameRequest(h)
      /\ handler'[h].pc \in {"recording", "undo"}
  <2>1. CASE Allocate(h)
    <3> DEFINE t == fence[handler[h].res].token + 1
    <3>1. t \in 0..MaxToken /\ handler' = [handler EXCEPT ![h].pc = "recording", ![h].token = t]
      BY <1>1, <2>1 DEF Allocate
    <3> HIDE DEF t
    <3>2. handler \in [Handler -> HandlerState]
      BY DEF CoordInv, Types
    <3>3. [handler[h] EXCEPT !.pc = "recording", !.token = t] \in HandlerState
      BY ZenonT(30), <3>1, <3>2 DEF HandlerState
    <3>4. handler'[h] = [handler[h] EXCEPT !.pc = "recording", !.token = t]
      BY <3>1, <3>2
    <3> QED
      BY <3>1, <3>2, <3>3, <3>4 DEF OnlyHandler, SameRequest, HandlerState
  <2>2. CASE AllocateFails(h)
    BY <2>2, GotoMoves DEF AllocateFails, CoordInv
  <2> QED
    BY <2>1, <2>2
<1>4. Carries(h) /\ Carries(h)' /\ Commits(h)
  BY <1>1, <1>3 DEF Carries, Commits
<1>5. Request(h)'
  BY <1>1, <1>2, <1>3 DEF Request, SameRequest
<1> QED
  BY <1>1, <1>2, <1>3, <1>4, <1>5, PassKeeps
==============================================================================
