-------------------------- MODULE CoordinatorProofs --------------------------
(****************************************************************************)
(* The steps that record a grant, give a lock back and register a           *)
(* transaction, the coordinator's inductive invariant, and the four         *)
(* properties of Coordinator.tla that follow from it.                       *)
(****************************************************************************)
EXTENDS CoordinatorInv

\* A queued request is granted: no lock its transaction carries or has recorded
\* is in its way, or it is shared and so are they.
LEMMA AcquireGrantKeeps ==
  ASSUME CoordInv, NEW h \in Handler, AcquireGrant(h)
  PROVE  CoordInv'
<1> DEFINE o == handler[h].obj
           r == handler[h].res
           m == handler[h].mode
<1>1. /\ handler[h].pc = "queued" /\ o \in Obj /\ o <= next /\ r \in Resource
      /\ m \in {"S", "X"} /\ (m = "S" => handler[h].token = 0)
  BY BoundsAssumption DEF AcquireGrant, CoordInv, Request, Types, Obj
<1>2. UNCHANGED <<byID, next, txn, teardown>>
  BY DEF AcquireGrant
<1>3. /\ held' = [held EXCEPT ![o][r] = m]
      /\ m = "X" => held[o][r] = "none"
      /\ m = "S" => held[o][r] # "X"
  BY <1>1 DEF AcquireGrant, LT!Grant, LT!Compatible
<1>4. /\ OnlyHandler(h) /\ SameRequest(h)
      /\ handler'[h].pc = "granted" /\ handler'[h].token = handler[h].token
  <2>1. handler \in [Handler -> HandlerState]
    BY DEF CoordInv, Types
  <2>2. handler' = [handler EXCEPT ![h].pc = "granted", ![h].cancelled = FALSE]
    BY DEF AcquireGrant
  <2>3. [handler[h] EXCEPT !.pc = "granted", !.cancelled = FALSE] \in HandlerState
    BY ZenonT(30), <2>1 DEF HandlerState
  <2>4. handler'[h] = [handler[h] EXCEPT !.pc = "granted", !.cancelled = FALSE]
    BY <2>1, <2>2
  <2> QED
    BY <2>1, <2>2, <2>3, <2>4 DEF OnlyHandler, SameRequest, HandlerState
<1>5. /\ held' \in [Obj -> [Resource -> {"S", "X", "none"}]]
      /\ held'[o][r] = m
      /\ \A p \in Obj, q \in Resource : p # o \/ q # r => held'[p][q] = held[p][q]
  <2>1. held \in [Obj -> [Resource -> {"S", "X", "none"}]]
    BY DEF CoordInv, Types
  <2> QED
    BY <1>1, <1>3, <2>1
<1>6. Types' /\ \A u \in UUID : Registered(u)'
  BY <1>2, <1>4, <1>5, TypedStays DEF CoordInv, Types, OnlyHandler, Registered
<1>7. \A k \in Handler : Request(k)'
  BY <1>1, <1>2, <1>4 DEF CoordInv, Request, OnlyHandler, SameRequest
<1>8. /\ Carries(h)' /\ ~Carries(h) /\ ~Commits(h)' /\ ~Commits(h)
      /\ \A k \in Handler \ {h} : (Carries(k)' <=> Carries(k)) /\ (Commits(k)' <=> Commits(k))
      /\ \A k \in Handler : SameRequest(k)
  BY <1>1, <1>4 DEF Carries, Commits, OnlyHandler, SameRequest
<1>9. ASSUME NEW p \in Obj
      PROVE  Named(p)' /\ Holds(p)' /\ Kept(p)' /\ Agree(p)' /\ Reclaimable(p)'
  <2>1. Grants(p)' = Grants(p) /\ \A q : GrantsOn(p, q)' = GrantsOn(p, q)
    BY <1>2 DEF Grants, GrantsOn
  <2>2. Open(p)' <=> Open(p)
    BY <1>2 DEF Open
  <2>3. Holds(p) /\ Kept(p) /\ Agree(p) /\ Reclaimable(p) /\ Named(p)
    BY DEF CoordInv
  <2>4. \A g \in Grants(p) : g.res \in Resource /\ g.mode \in {"S", "X"}
    BY GrantTypes
  <2>5. \A k \in Handler : Carries(k) => handler[k].res \in Resource /\ handler[k].mode \in {"S", "X"}
    BY DEF CoordInv, Request, Carries
  <2>6. Named(p)'
    <3>1. ASSUME p > next, NEW q \in Resource PROVE held'[p][q] = "none"
      <4>1. p # o
        BY <1>1, <3>1 DEF CoordInv, Types, Obj
      <4> QED
        BY <1>5, <2>3, <3>1, <4>1 DEF Named
    <3> QED
      BY <1>2, <2>2, <2>3, <3>1 DEF Named
  <2>7. Holds(p)'
    <3> SUFFICES ASSUME Open(p) PROVE Holds(p)'
      BY <2>2 DEF Holds
    <3>1. ASSUME NEW k \in Handler, Carries(k)', handler'[k].obj = p
          PROVE  /\ held'[p][handler'[k].res] = handler'[k].mode
                 /\ handler'[k].pc = "undo" => handler'[k].mode = "X"
                 /\ \A j \in Handler \ {k} :
                      Carries(j)' /\ For(j, p, handler[k].res)' => handler'[k].mode = "S"
                 /\ GrantsOn(p, handler'[k].res) # {} => handler'[k].mode = "S"
      <4>1. CASE k = h
        <5>1. p = o /\ handler'[k].res = r /\ handler'[k].mode = m
          BY <1>4, <3>1, <4>1 DEF SameRequest
        <5>2. ASSUME m = "X", NEW j \in Handler \ {h}, Carries(j), For(j, o, r) PROVE FALSE
          BY <1>3, <2>3, <2>5, <5>1, <5>2 DEF Holds, For
        <5>3. ASSUME m = "X", NEW g \in Grants(o), g.res = r PROVE FALSE
          BY <1>3, <2>3, <2>4, <5>1, <5>3 DEF Holds
        <5>4. \A j \in Handler \ {k} :
                Carries(j)' /\ For(j, p, handler[k].res)' => handler'[k].mode = "S"
          BY <1>1, <1>8, <4>1, <5>1, <5>2 DEF For, SameRequest
        <5>5. GrantsOn(p, handler'[k].res) # {} => handler'[k].mode = "S"
          BY <1>1, <5>1, <5>3 DEF GrantsOn
        <5> QED
          BY <1>4, <1>5, <4>1, <5>1, <5>4, <5>5
      <4>2. CASE k # h
        <5>1. Carries(k) /\ handler'[k] = handler[k] /\ handler[k].obj = p /\ handler[k].res \in Resource
          BY <1>4, <1>8, <2>5, <3>1, <4>2 DEF OnlyHandler
        <5>2. held[p][handler[k].res] = handler[k].mode
          BY <2>3, <5>1 DEF Holds
        <5>3. p = o /\ handler[k].res = r => m = "S" /\ handler[k].mode = "S"
          BY <1>1, <1>3, <2>5, <5>1, <5>2
        <5>4. held'[p][handler[k].res] = handler[k].mode
          BY <1>5, <5>1, <5>2, <5>3
        <5>5. ASSUME NEW j \in Handler \ {k}, Carries(j)', For(j, p, handler[k].res)'
              PROVE  handler[k].mode = "S"
          <6>1. CASE j = h
            BY <1>4, <5>1, <5>3, <5>5, <6>1 DEF For, SameRequest
          <6>2. CASE j # h
            <7>1. Carries(j) /\ For(j, p, handler[k].res)
              BY <1>4, <1>8, <5>1, <5>5, <6>2 DEF For, OnlyHandler
            <7> QED
              BY <2>3, <5>1, <7>1 DEF Holds
          <6> QED
            BY <6>1, <6>2
        <5> QED
          BY <2>3, <5>1, <5>4, <5>5 DEF Holds
      <4> QED
        BY <4>1, <4>2
    <3>2. ASSUME NEW g \in Grants(p) PROVE held'[p][g.res] = g.mode
      <4>1. held[p][g.res] = g.mode
        BY <2>3 DEF Holds
      <4> QED
        BY <1>1, <1>3, <1>5, <2>4, <4>1
    <3> QED
      BY <2>1, <3>1, <3>2 DEF Holds
  <2>8. Kept(p)'
    <3> SUFFICES ASSUME ~txn[p].finished PROVE Kept(p)'
      BY <1>2 DEF Kept
    <3>1. ASSUME NEW q \in Resource, held[p][q] = "X"
          PROVE  held'[p][q] = "X" /\ ~For(h, p, q)'
      <4>1. p # o \/ q # r
        BY <1>1, <1>3, <3>1
      <4> QED
        BY <1>4, <1>5, <3>1, <4>1 DEF For, SameRequest
    <3>2. ASSUME NEW k \in Handler, Commits(k)', handler'[k].obj = p, handler'[k].mode = "X"
          PROVE  /\ held'[p][handler'[k].res] = "X"
                 /\ \A j \in Handler \ {k} : Carries(j)' => ~For(j, p, handler[k].res)'
      <4>1. k # h /\ Commits(k) /\ handler'[k] = handler[k] /\ Carries(k)
        BY <1>4, <1>8, <3>2 DEF OnlyHandler, Commits, Carries
      <4>2. handler[k].res \in Resource /\ held[p][handler[k].res] = "X"
        BY <2>3, <2>5, <3>2, <4>1 DEF Kept
      <4>3. \A j \in Handler \ {k, h} : Carries(j)' => ~For(j, p, handler[k].res)'
        <5>1. \A j \in Handler \ {k} : Carries(j) => ~For(j, p, handler[k].res)
          BY <2>3, <3>2, <4>1 DEF Kept
        <5>2. \A j \in Handler \ {h} : For(j, p, handler[k].res)' => For(j, p, handler[k].res)
          BY <1>4, <4>1 DEF For, OnlyHandler
        <5> QED
          BY <1>8, <5>1, <5>2
      <4> QED
        BY <3>1, <4>1, <4>2, <4>3
    <3>3. ASSUME NEW g \in Grants(p), g.mode = "X"
          PROVE  held'[p][g.res] = "X" /\ \A k \in Handler : Carries(k)' => ~For(k, p, g.res)'
      <4>1. g.res \in Resource /\ held[p][g.res] = "X"
        BY <2>3, <2>4, <3>3 DEF Kept
      <4>2. \A k \in Handler \ {h} : Carries(k)' => ~For(k, p, g.res)'
        <5>1. \A k \in Handler : Carries(k) => ~For(k, p, g.res)
          BY <2>3, <3>3 DEF Kept
        <5>2. \A k \in Handler \ {h} : For(k, p, g.res)' => For(k, p, g.res)
          BY <1>4 DEF For, OnlyHandler
        <5> QED
          BY <1>8, <5>1, <5>2
      <4> QED
        BY <3>1, <4>1, <4>2
    <3> QED
      BY <2>1, <3>2, <3>3 DEF Kept
  <2>9. Agree(p)'
    <3>1. \A k \in Handler : Commits(k)' => Commits(k) /\ handler'[k] = handler[k]
      BY <1>4, <1>8 DEF OnlyHandler
    <3> QED
      BY <2>1, <2>3, <3>1, AgreeKeeps
  <2>10. Reclaimable(p)'
    <3> SUFFICES ASSUME NEW q \in Resource, held'[p][q] # "none"
                 PROVE  /\ txn'[p].finished =>
                             (\E k \in Handler : For(k, p, q) /\ handler[k].pc \in {"granted", "undo"})'
                        /\ ~txn'[p].finished =>
                             InFlight(p, q)' \/ txn'[p].lease # "none" \/ teardown'[p].pc # "none"
      BY DEF Reclaimable
    <3>1. CASE p = o /\ q = r
      <4>1. For(h, p, q)' /\ handler'[h].pc = "granted"
        BY <1>4, <3>1 DEF For, SameRequest
      <4> QED
        BY <4>1 DEF InFlight, For
    <3>2. CASE ~(p = o /\ q = r)
      <4>1. held[p][q] # "none"
        BY <1>5, <3>2
      <4>2. \A k \in Handler : Carries(k) => handler'[k] = handler[k]
        BY <1>4, <1>8 DEF OnlyHandler
      <4>3. InFlight(p, q) => InFlight(p, q)'
        BY <4>2 DEF InFlight, Carries
      <4>4. txn[p].finished =>
              (\E k \in Handler : For(k, p, q) /\ handler[k].pc \in {"granted", "undo"})'
        BY <2>3, <4>1, <4>2 DEF Reclaimable, For, Carries
      <4> QED
        BY <1>2, <2>3, <4>1, <4>3, <4>4 DEF Reclaimable
    <3> QED
      BY <3>1, <3>2
  <2> QED
    BY <2>6, <2>7, <2>8, <2>9, <2>10
<1> QED
  BY <1>6, <1>7, <1>9 DEF CoordInv

\* A grant is recorded: the lock passes from the handler to the transaction,
\* which then has a lease.
LEMMA RecordGrantKeeps ==
  ASSUME CoordInv, NEW h \in Handler, recordGrant(h)
  PROVE  CoordInv'
<1>0. /\ handler[h].pc = "recording" /\ handler[h].obj \in Obj /\ handler[h].obj <= next
      /\ handler[h].res \in Resource /\ handler[h].mode \in {"S", "X"}
      /\ handler[h].mode = "S" => handler[h].token = 0
  BY BoundsAssumption DEF recordGrant, CoordInv, Request, Types, Obj
<1>1. PICK o \in Obj, g \in GrantRecord :
        /\ o = handler[h].obj /\ o <= next
        /\ g = [res |-> handler[h].res, mode |-> handler[h].mode, token |-> handler[h].token]
        /\ g.res = handler[h].res /\ g.mode = handler[h].mode /\ g.token = handler[h].token
        /\ g.mode \in {"S", "X"} /\ (g.mode = "S" => g.token = 0)
  <2>1. handler[h].token \in 0..MaxToken
    BY DEF CoordInv, Types, HandlerState
  <2>2. [res |-> handler[h].res, mode |-> handler[h].mode, token |-> handler[h].token] \in GrantRecord
    BY <1>0, <2>1 DEF GrantRecord, Mode, LT!Mode
  <2> QED
    BY <1>0, <2>2
<1>2. UNCHANGED <<byID, next, held, teardown>>
  BY DEF recordGrant
<1>3. OnlyHandler(h) /\ handler'[h].pc = "idle"
  BY ReturnIdles DEF recordGrant, CoordInv
<1>4. /\ txn' \in [Obj -> Transaction]
      /\ \A p \in Obj \ {o} : txn'[p] = txn[p]
      /\ txn'[o].external = txn[o].external /\ txn'[o].state = txn[o].state
      /\ txn'[o].finished = txn[o].finished /\ txn'[o].lease = "running"
      /\ txn'[o].grants = Append(txn[o].grants, g)
  <2>1. txn \in [Obj -> Transaction] /\ txn[o].grants \in Seq(GrantRecord)
    BY <1>1 DEF CoordInv, Types, Transaction
  <2>2. Append(txn[o].grants, g) \in Seq(GrantRecord)
    BY <2>1
  <2>3. PICK gs \in Seq(GrantRecord) : gs = Append(txn[o].grants, g)
    BY ZenonT(30), <2>2
  <2>4. txn' = [txn EXCEPT ![o].grants = Append(@, g), ![o].lease = "running"]
    BY <1>1 DEF recordGrant
  <2>5. txn'[o] = [txn[o] EXCEPT !.grants = gs, !.lease = "running"]
    BY <2>1, <2>3, <2>4
  <2>6. [txn[o] EXCEPT !.grants = gs, !.lease = "running"] \in Transaction
    BY Zenon, <2>1 DEF Transaction
  <2>7. txn' \in [Obj -> Transaction] /\ \A p \in Obj \ {o} : txn'[p] = txn[p]
    BY <2>1, <2>4, <2>5, <2>6
  <2>8. /\ txn'[o].external = txn[o].external /\ txn'[o].state = txn[o].state
        /\ txn'[o].finished = txn[o].finished /\ txn'[o].lease = "running"
        /\ txn'[o].grants = gs
    BY <2>1, <2>5 DEF Transaction
  <2> QED
    BY <2>3, <2>7, <2>8
<1>5. Grants(o)' = Grants(o) \cup {g} /\ \A p \in Obj \ {o} : Grants(p)' = Grants(p)
  <2>1. txn[o].grants \in Seq(GrantRecord)
    BY <1>1 DEF CoordInv, Types, Transaction
  <2>2. {Append(txn[o].grants, g)[i] : i \in DOMAIN Append(txn[o].grants, g)}
          = {txn[o].grants[i] : i \in DOMAIN txn[o].grants} \cup {g}
    <3>1. /\ Len(Append(txn[o].grants, g)) = Len(txn[o].grants) + 1
          /\ Append(txn[o].grants, g)[Len(txn[o].grants) + 1] = g
          /\ \A i \in 1..Len(txn[o].grants) : Append(txn[o].grants, g)[i] = txn[o].grants[i]
      BY <2>1
    <3> QED
      BY <2>1, <3>1
  <2>3. Grants(o)' = Grants(o) \cup {g}
    BY <1>4, <2>2 DEF Grants
  <2>4. \A p \in Obj \ {o} : Grants(p)' = Grants(p)
    BY <1>4 DEF Grants
  <2> QED
    BY <2>3, <2>4
<1>6. Types'
  BY <1>2, <1>3, <1>4, TypedStays DEF CoordInv, Types, OnlyHandler
<1>7. ASSUME NEW u \in UUID PROVE Registered(u)'
  <2>1. byID[u] # 0 => byID[u] \in Obj
    BY DEF CoordInv, Types
  <2>2. \A p \in Obj : txn'[p].external = txn[p].external
    BY <1>4
  <2> QED
    BY <1>2, <2>1, <2>2 DEF CoordInv, Registered
<1>8. \A k \in Handler : Request(k)'
  BY <1>2, <1>3 DEF CoordInv, Request, OnlyHandler
<1>9. \A k \in Handler : Carries(k)' => k # h /\ Carries(k) /\ handler'[k] = handler[k]
  BY <1>3 DEF Carries, OnlyHandler
<1>10. \A k \in Handler : Commits(k)' => k # h /\ Commits(k) /\ Carries(k) /\ handler'[k] = handler[k]
  BY <1>3 DEF Carries, Commits, OnlyHandler
<1>11. Carries(h) /\ Commits(h) /\ For(h, o, g.res)
  BY <1>0, <1>1 DEF Carries, Commits, For
<1>12. ASSUME NEW p \in Obj
       PROVE  Named(p)' /\ Holds(p)' /\ Kept(p)' /\ Agree(p)' /\ Reclaimable(p)'
  <2>1. Holds(p) /\ Kept(p) /\ Agree(p) /\ Reclaimable(p) /\ Named(p)
    BY DEF CoordInv
  <2>2. /\ txn'[p].external = txn[p].external /\ txn'[p].finished = txn[p].finished
        /\ Open(p)' <=> Open(p)
    BY <1>4 DEF Open
  <2>3. Named(p)'
    <3>1. p > next => p # o
      BY <1>1 DEF CoordInv, Types, Obj
    <3> QED
      BY <1>2, <1>4, <2>1, <2>2, <3>1 DEF Named
  <2>4. CASE p # o
    <3>1. \A k \in Handler : handler[k].obj = p => handler'[k] = handler[k]
      BY <1>1, <1>3, <2>4 DEF OnlyHandler
    <3>2. txn'[p] = txn[p]
      BY <1>4, <2>4
    <3>3. Spared(p)
      BY <1>2, <1>9, <2>2, <3>1, <3>2 DEF Spared
    <3> QED
      BY <2>1, <2>3, <3>3, SparedKeeps
  <2>5. CASE p = o
    <3>1. Grants(o)' = Grants(o) \cup {g}
      BY <1>5
    <3>2. \A r : GrantsOn(o, r)' # {} => GrantsOn(o, r) # {} \/ r = g.res
      BY <3>1 DEF GrantsOn
    <3>3. Holds(o)'
      <4> SUFFICES ASSUME Open(o) PROVE Holds(o)'
        BY <2>2, <2>5 DEF Holds
      <4>1. held[o][g.res] = g.mode
        BY <1>1, <1>11, <2>1, <2>5 DEF Holds
      <4>2. ASSUME NEW k \in Handler, Carries(k)', handler'[k].obj = o, GrantsOn(o, handler[k].res)' # {}
            PROVE  handler'[k].mode = "S"
        <5>1. k # h /\ Carries(k) /\ handler'[k] = handler[k]
          BY <1>9, <4>2
        <5>2. CASE GrantsOn(o, handler[k].res) # {}
          BY <2>1, <2>5, <4>2, <5>1, <5>2 DEF Holds
        <5>3. CASE handler[k].res = g.res
          BY <1>11, <2>1, <2>5, <4>2, <5>1, <5>3 DEF Holds, For
        <5> QED
          BY <3>2, <4>2, <5>1, <5>2, <5>3
      <4>3. ASSUME NEW k \in Handler, Carries(k)', handler'[k].obj = o
            PROVE  /\ held'[o][handler'[k].res] = handler'[k].mode
                   /\ handler'[k].pc = "undo" => handler'[k].mode = "X"
                   /\ \A j \in Handler \ {k} :
                        Carries(j)' /\ For(j, o, handler[k].res)' => handler'[k].mode = "S"
        <5>1. Carries(k) /\ handler[k].obj = o /\ handler'[k] = handler[k]
          BY <1>9, <4>3
        <5>2. /\ held[o][handler[k].res] = handler[k].mode
              /\ handler[k].pc = "undo" => handler[k].mode = "X"
              /\ \A j \in Handler \ {k} :
                   Carries(j) /\ For(j, o, handler[k].res) => handler[k].mode = "S"
          BY <2>1, <2>5, <5>1 DEF Holds
        <5>3. \A j \in Handler : Carries(j)' /\ For(j, o, handler[k].res)' =>
                                   Carries(j) /\ For(j, o, handler[k].res)
          BY <1>9, <5>1 DEF For
        <5> QED
          BY <1>2, <5>1, <5>2, <5>3
      <4>4. \A f \in Grants(o)' : held'[o][f.res] = f.mode
        BY <1>2, <2>1, <2>5, <3>1, <4>1 DEF Holds
      <4> QED
        BY <4>2, <4>3, <4>4 DEF Holds
    <3>4. Kept(o)'
      <4> SUFFICES ASSUME ~txn[o].finished PROVE Kept(o)'
        BY <2>2, <2>5 DEF Kept
      <4>1. ASSUME NEW k \in Handler, Commits(k)', handler'[k].obj = o, handler'[k].mode = "X"
            PROVE  /\ held'[o][handler'[k].res] = "X"
                   /\ \A j \in Handler \ {k} : Carries(j)' => ~For(j, o, handler[k].res)'
        <5>1. Commits(k) /\ handler[k].obj = o /\ handler[k].mode = "X" /\ handler'[k] = handler[k]
          BY <1>10, <4>1
        <5>2. /\ held[o][handler[k].res] = "X"
              /\ \A j \in Handler \ {k} : Carries(j) => ~For(j, o, handler[k].res)
          BY <2>1, <2>5, <5>1 DEF Kept
        <5>3. \A j \in Handler : Carries(j)' /\ For(j, o, handler[k].res)' =>
                                   Carries(j) /\ For(j, o, handler[k].res)
          BY <1>9, <5>1 DEF For
        <5> QED
          BY <1>2, <5>1, <5>2, <5>3
      <4>2. ASSUME NEW f \in Grants(o)', f.mode = "X"
            PROVE  held'[o][f.res] = "X" /\ \A k \in Handler : Carries(k)' => ~For(k, o, f.res)'
        <5>1. CASE f \in Grants(o)
          BY <1>2, <1>9, <2>1, <2>5, <4>2, <5>1 DEF Kept, For
        <5>2. CASE f = g
          <6>1. Commits(h) /\ handler[h].obj = o /\ handler[h].res = g.res /\ handler[h].mode = "X"
            BY <1>1, <1>11, <4>2, <5>2
          <6>2. /\ held[o][g.res] = "X"
                /\ \A k \in Handler \ {h} : Carries(k) => ~For(k, o, g.res)
            BY <2>1, <2>5, <6>1 DEF Kept
          <6>3. \A k \in Handler : Carries(k)' => k # h /\ Carries(k) /\ handler'[k] = handler[k]
            BY <1>9
          <6> QED
            BY <1>2, <5>2, <6>2, <6>3 DEF For
        <5> QED
          BY <3>1, <5>1, <5>2
      <4> QED
        BY <4>1, <4>2 DEF Kept
    <3>5. Agree(o)'
      <4>1. Agree(o)
        BY <2>1, <2>5
      <4>2. ASSUME NEW k \in Handler, NEW j \in Handler, Commits(k)', Commits(j)', k # j,
                   handler'[k].obj = o, For(j, o, handler[k].res)'
            PROVE  handler'[k].mode = "S"
        BY <1>10, <4>1, <4>2 DEF Agree, For
      <4>3. ASSUME NEW k \in Handler, NEW f \in Grants(o)', Commits(k)', For(k, o, f.res)'
            PROVE  handler'[k].mode = "S" /\ f.mode = "S"
        <5>1. k # h /\ Commits(k) /\ handler'[k] = handler[k] /\ For(k, o, f.res)
          BY <1>10, <4>3 DEF For
        <5>2. CASE f \in Grants(o)
          BY <4>1, <5>1, <5>2 DEF Agree
        <5>3. CASE f = g
          <6>1. handler[k].mode = "S" /\ handler[h].mode = "S"
            BY <1>11, <4>1, <5>1, <5>3 DEF Agree, For
          <6> QED
            BY <1>1, <5>1, <5>3, <6>1
        <5> QED
          BY <3>1, <5>2, <5>3
      <4>4. ASSUME NEW f \in Grants(o), f.res = g.res PROVE f = g
        <5>1. handler[h].mode = "S" /\ f.mode = "S" /\ f.token = 0
          BY <1>11, <4>1, <4>4 DEF Agree, For
        <5>2. f \in GrantRecord
          BY <1>1, GrantTypes
        <5> QED
          BY <1>1, <4>4, <5>1, <5>2 DEF GrantRecord
      <4>5. \A f \in Grants(o)' : f.mode = "S" => f.token = 0
        BY <1>1, <3>1, <4>1 DEF Agree
      <4>6. \A f, e \in Grants(o)' : f.res = e.res => f = e
        BY <3>1, <4>1, <4>4 DEF Agree
      <4> QED
        BY <4>2, <4>3, <4>5, <4>6 DEF Agree
    <3>6. Reclaimable(o)'
      <4>1. ASSUME NEW r \in Resource, held'[o][r] # "none", txn'[o].finished
            PROVE  (\E k \in Handler : For(k, o, r) /\ handler[k].pc \in {"granted", "undo"})'
        <5>1. PICK k \in Handler : For(k, o, r) /\ handler[k].pc \in {"granted", "undo"}
          BY <1>2, <2>1, <2>2, <2>5, <4>1 DEF Reclaimable
        <5>2. handler'[k] = handler[k]
          BY <1>0, <1>3, <5>1 DEF OnlyHandler
        <5> QED
          BY <5>1, <5>2 DEF For
      <4>2. txn'[o].lease # "none"
        BY <1>4
      <4> QED
        BY <4>1, <4>2 DEF Reclaimable
    <3> QED
      BY <2>3, <2>5, <3>3, <3>4, <3>5, <3>6
  <2> QED
    BY <2>4, <2>5
<1> QED
  BY <1>6, <1>7, <1>8, <1>12 DEF CoordInv

\* The lock is given back: the handler is the only one to carry it, or the
\* transaction is closed and no exclusive grant depends on it.
LEMMA ReleaseOneKeeps ==
  ASSUME CoordInv, NEW h \in Handler, releaseOne(h)
  PROVE  CoordInv'
<1>1. /\ handler[h].pc = "undo" /\ handler[h].res \in Resource
      /\ handler[h].obj \in Obj /\ handler[h].obj <= next
  BY BoundsAssumption DEF releaseOne, CoordInv, Request, Types, Obj
<1>2. PICK o \in Obj, r \in Resource : For(h, o, r) /\ o <= next
  BY <1>1 DEF For
<1>3. UNCHANGED <<byID, next, txn, teardown>>
  BY DEF releaseOne
<1>4. OnlyHandler(h) /\ handler'[h].pc = "idle"
  BY ReturnIdles DEF releaseOne, CoordInv
<1>5. /\ held' \in [Obj -> [Resource -> {"S", "X", "none"}]]
      /\ held'[o][r] = "none"
      /\ \A p \in Obj, q \in Resource : p # o \/ q # r => held'[p][q] = held[p][q]
  <2>1. held \in [Obj -> [Resource -> {"S", "X", "none"}]]
    BY DEF CoordInv, Types
  <2>2. held' = [held EXCEPT ![o] = [q \in Resource |-> IF q \in {r} THEN "none" ELSE held[o][q]]]
    BY <1>2, <2>1 DEF releaseOne, LT!Drop, For
  <2> QED
    BY <2>1, <2>2
<1>6. Types' /\ \A u \in UUID : Registered(u)'
  BY <1>3, <1>4, <1>5, TypedStays DEF CoordInv, Types, OnlyHandler, Registered
<1>7. \A k \in Handler : Request(k)'
  BY <1>3, <1>4 DEF CoordInv, Request, OnlyHandler
<1>8. \A k \in Handler : Carries(k)' => k # h /\ Carries(k) /\ handler'[k] = handler[k]
  BY <1>4 DEF Carries, OnlyHandler
<1>9. \A k \in Handler : Commits(k)' => k # h /\ Commits(k) /\ Carries(k) /\ handler'[k] = handler[k]
  BY <1>4 DEF Carries, Commits, OnlyHandler
<1>10. Carries(h)
  BY <1>1 DEF Carries
<1>11. \A k \in Handler : Carries(k) => handler[k].res \in Resource
  BY DEF CoordInv, Request, Carries
<1>12. ASSUME NEW p \in Obj
       PROVE  Named(p)' /\ Holds(p)' /\ Kept(p)' /\ Agree(p)' /\ Reclaimable(p)'
  <2>1. Grants(p)' = Grants(p) /\ \A q : GrantsOn(p, q)' = GrantsOn(p, q)
    BY <1>3 DEF Grants, GrantsOn
  <2>2. Open(p)' <=> Open(p)
    BY <1>3 DEF Open
  <2>3. Holds(p) /\ Kept(p) /\ Agree(p) /\ Reclaimable(p) /\ Named(p)
    BY DEF CoordInv
  <2>4. \A q \in Resource : held'[p][q] # "none" => held[p][q] # "none" /\ ~For(h, p, q)
    BY <1>2, <1>5 DEF For
  <2>5. Named(p)'
    BY <1>3, <2>2, <2>3, <2>4 DEF Named
  <2>6. Holds(p)'
    <3> SUFFICES ASSUME Open(p) PROVE Holds(p)'
      BY <2>2 DEF Holds
    <3>1. p = o => handler[h].mode = "X"
      BY <1>1, <1>2, <1>10, <2>3 DEF Holds, For
    <3>2. ASSUME NEW k \in Handler, Carries(k)', handler'[k].obj = p
          PROVE  held'[p][handler[k].res] = held[p][handler[k].res]
      <4>1. k # h /\ Carries(k) /\ handler[k].obj = p
        BY <1>8, <3>2
      <4>2. p = o => handler[k].res # r
        BY <1>2, <1>10, <2>3, <3>1, <4>1 DEF Holds, For
      <4> QED
        BY <1>5, <1>11, <4>1, <4>2
    <3>3. ASSUME NEW g \in Grants(p) PROVE held'[p][g.res] = held[p][g.res]
      <4>1. p = o => GrantsOn(p, r) = {}
        BY <1>2, <1>10, <2>3, <3>1 DEF Holds, For
      <4>2. p = o => g.res # r
        BY <4>1 DEF GrantsOn
      <4>3. g.res \in Resource
        BY GrantTypes
      <4> QED
        BY <1>5, <4>2, <4>3
    <3> QED
      <4>1. ASSUME NEW k \in Handler, Carries(k)', handler'[k].obj = p
            PROVE  /\ held'[p][handler[k].res] = handler[k].mode
                   /\ handler[k].pc = "undo" => handler[k].mode = "X"
                   /\ \A j \in Handler \ {k} :
                        Carries(j)' /\ For(j, p, handler[k].res)' => handler[k].mode = "S"
                   /\ GrantsOn(p, handler[k].res) # {} => handler[k].mode = "S"
        <5>1. Carries(k) /\ handler[k].obj = p /\ handler'[k] = handler[k]
          BY <1>8, <4>1
        <5>2. \A j \in Handler : Carries(j)' /\ For(j, p, handler[k].res)' =>
                                   Carries(j) /\ For(j, p, handler[k].res)
          BY <1>8, <5>1 DEF For
        <5> QED
          BY <2>3, <3>2, <4>1, <5>1, <5>2 DEF Holds
      <4>2. \A k \in Handler : Carries(k)' => handler'[k] = handler[k]
        BY <1>8
      <4>3. \A g \in Grants(p) : held'[p][g.res] = g.mode
        BY <2>3, <3>3 DEF Holds
      <4> QED
        BY <2>1, <4>1, <4>2, <4>3 DEF Holds
  <2>7. Kept(p)'
    <3> SUFFICES ASSUME ~txn[p].finished PROVE Kept(p)'
      BY <1>3 DEF Kept
    <3>1. ASSUME NEW k \in Handler, Commits(k)', handler'[k].obj = p, handler'[k].mode = "X"
          PROVE  held'[p][handler[k].res] = "X"
      <4>1. k # h /\ Commits(k) /\ Carries(k) /\ handler'[k] = handler[k]
        BY <1>9, <3>1
      <4>2. held[p][handler[k].res] = "X" /\ (p = o => handler[k].res # r)
        BY <1>2, <1>10, <2>3, <3>1, <4>1 DEF Kept, For
      <4> QED
        BY <1>5, <1>11, <4>1, <4>2
    <3>2. ASSUME NEW g \in Grants(p), g.mode = "X" PROVE held'[p][g.res] = "X"
      <4>1. held[p][g.res] = "X" /\ (p = o => g.res # r)
        BY <1>2, <1>10, <2>3, <3>2 DEF Kept, For
      <4>2. g.res \in Resource
        BY GrantTypes
      <4> QED
        BY <1>5, <4>1, <4>2
    <3> QED
      <4>1. \A k \in Handler : \A q : Carries(k)' /\ For(k, p, q)' => Carries(k) /\ For(k, p, q)
        BY <1>8 DEF For
      <4>2. ASSUME NEW k \in Handler, Commits(k)', handler'[k].obj = p, handler'[k].mode = "X"
            PROVE  \A j \in Handler \ {k} : Carries(j)' => ~For(j, p, handler[k].res)'
        <5>1. Commits(k) /\ handler'[k] = handler[k]
          BY <1>9, <4>2
        <5> QED
          BY <2>3, <4>1, <4>2, <5>1 DEF Kept
      <4>3. ASSUME NEW g \in Grants(p), g.mode = "X"
            PROVE  \A k \in Handler : Carries(k)' => ~For(k, p, g.res)'
        BY <2>3, <4>1, <4>3 DEF Kept
      <4>4. \A k \in Handler : Commits(k)' => handler'[k] = handler[k]
        BY <1>9
      <4> QED
        BY <2>1, <3>1, <3>2, <4>2, <4>3, <4>4 DEF Kept
  <2>8. Agree(p)'
    BY <1>9, <2>1, <2>3, AgreeKeeps
  <2>9. Reclaimable(p)'
    <3> SUFFICES ASSUME NEW q \in Resource, held'[p][q] # "none"
                 PROVE  /\ txn'[p].finished =>
                             (\E k \in Handler : For(k, p, q) /\ handler[k].pc \in {"granted", "undo"})'
                        /\ ~txn'[p].finished =>
                             InFlight(p, q)' \/ txn'[p].lease # "none" \/ teardown'[p].pc # "none"
      BY DEF Reclaimable
    <3>1. held[p][q] # "none" /\ ~For(h, p, q)
      BY <2>4
    <3>2. \A k \in Handler : For(k, p, q) => handler'[k] = handler[k]
      BY <1>4, <3>1 DEF OnlyHandler
    <3>3. InFlight(p, q) => InFlight(p, q)'
      BY <3>2 DEF InFlight, For
    <3>4. txn[p].finished =>
            (\E k \in Handler : For(k, p, q) /\ handler[k].pc \in {"granted", "undo"})'
      BY <2>3, <3>1, <3>2 DEF Reclaimable, For
    <3> QED
      BY <1>3, <2>3, <3>1, <3>3, <3>4 DEF Reclaimable
  <2> QED
    BY <2>5, <2>6, <2>7, <2>8, <2>9
<1> QED
  BY <1>6, <1>7, <1>12 DEF CoordInv

\* ensure finds an active transaction, or creates one under a fresh id, of which
\* no handler and no lock knows.
LEMMA EnsureKeeps ==
  ASSUME CoordInv, NEW h \in Handler, NEW u \in UUID, NEW r \in Resource, NEW m \in Mode,
         ensure(h, u, r, m)
  PROVE  CoordInv'
<1>1. handler[h].pc = "idle" /\ m \in {"S", "X"} /\ UNCHANGED <<held, teardown>>
  BY DEF ensure, Mode, LT!Mode
<1>2. ASSUME NEW n \in Obj, n <= next',
             handler' = [handler EXCEPT ![h] =
               [IdleHandler EXCEPT !.pc = "ensured", !.obj = n, !.res = r, !.mode = m]]
      PROVE  /\ OnlyHandler(h) /\ ~Carries(h) /\ ~Carries(h)' /\ ~Commits(h)'
             /\ handler'[h].pc = "ensured" /\ handler'[h].obj = n /\ handler'[h].res = r
             /\ handler'[h].mode = m /\ handler'[h].token = 0
  <2>1. handler \in [Handler -> HandlerState]
    BY DEF CoordInv, Types
  <2>2. IdleHandler \in HandlerState /\ IdleHandler.token = 0
    BY BoundsAssumption DEF IdleHandler, HandlerState
  <2>3. PICK e : e = [IdleHandler EXCEPT !.pc = "ensured", !.obj = n, !.res = r, !.mode = m]
    OBVIOUS
  <2>4. e \in HandlerState
    BY Zenon, <1>1, <2>2, <2>3 DEF HandlerState, Mode, LT!Mode
  <2>5. e.pc = "ensured" /\ e.obj = n /\ e.res = r /\ e.mode = m /\ e.token = 0
    BY <2>2, <2>3 DEF HandlerState
  <2>6. handler' = [handler EXCEPT ![h] = e]
    BY <1>2, <2>3
  <2>7. OnlyHandler(h) /\ handler'[h] = e
    BY <2>1, <2>4, <2>6 DEF OnlyHandler
  <2> QED
    BY <1>1, <2>5, <2>7 DEF Carries, Commits
<1>3. CASE byID[u] # 0 /\ UNCHANGED <<byID, next, txn>>
  <2>1. byID[u] \in Obj /\ byID[u] <= next
    BY <1>3 DEF CoordInv, Types, Registered
  <2>2. /\ OnlyHandler(h) /\ ~Carries(h) /\ ~Carries(h)'
        /\ handler'[h].pc = "ensured" /\ handler'[h].obj = byID[u] /\ handler'[h].res = r
        /\ handler'[h].mode = m /\ handler'[h].token = 0
    BY Zenon, <1>2, <1>3, <2>1 DEF ensure
  <2>3. Types'
    BY <1>1, <1>3, <2>2, TypedStays DEF CoordInv, Types, OnlyHandler
  <2>4. ASSUME NEW k \in Handler PROVE Request(k)'
    BY <1>1, <1>3, <2>1, <2>2 DEF CoordInv, Request, OnlyHandler, Types, Obj
  <2>5. Quiet
    BY <1>1, <1>3, <2>2, <2>3, <2>4 DEF Quiet, QuietFor, Open, OnlyHandler
  <2> QED
    BY <2>5, QuietKeeps
<1>4. CASE byID[u] = 0 /\ next < MaxTxnID /\ next' = next + 1
  <2>1. PICK n \in Obj : n = next + 1
    BY <1>4, BoundsAssumption DEF CoordInv, Types, Obj
  <2>2. /\ byID' = [byID EXCEPT ![u] = n]
        /\ txn' = [txn EXCEPT ![n] = [NoTransaction EXCEPT !.external = u]]
        /\ next' = n /\ byID'[u] = n
    BY <1>4, <2>1 DEF ensure, CoordInv, Types
  <2>3. /\ OnlyHandler(h) /\ ~Carries(h) /\ ~Carries(h)' /\ ~Commits(h)'
        /\ handler'[h].pc = "ensured" /\ handler'[h].obj = n /\ handler'[h].res = r
        /\ handler'[h].mode = m /\ handler'[h].token = 0
    <3>1. n <= next'
      BY <2>1, <2>2 DEF Obj
    <3>2. handler' = [handler EXCEPT ![h] =
            [IdleHandler EXCEPT !.pc = "ensured", !.obj = n, !.res = r, !.mode = m]]
      BY ZenonT(30), <2>2 DEF ensure
    <3> QED
      BY Zenon, <1>2, <3>1, <3>2
  <2>4. /\ txn' \in [Obj -> Transaction]
        /\ \A p \in Obj \ {n} : txn'[p] = txn[p]
        /\ txn'[n].external = u /\ txn'[n].grants = <<>>
        /\ txn'[n].finished = FALSE /\ txn'[n].state = "active"
    <3>1. /\ NoTransaction \in Transaction /\ NoTransaction.grants = <<>>
          /\ NoTransaction.finished = FALSE /\ NoTransaction.state = "active"
      <4>1. <<>> \in Seq(GrantRecord)
        OBVIOUS
      <4> QED
        BY <4>1 DEF NoTransaction, Transaction
    <3>2. PICK t : t = [NoTransaction EXCEPT !.external = u]
      BY Zenon
    <3>3. t \in Transaction
      BY <3>1, <3>2 DEF Transaction
    <3>4. t.external = u /\ t.grants = <<>> /\ t.finished = FALSE /\ t.state = "active"
      BY <3>1, <3>2 DEF Transaction
    <3>5. txn' = [txn EXCEPT ![n] = t] /\ txn \in [Obj -> Transaction]
      BY <2>2, <3>2 DEF CoordInv, Types
    <3> QED
      BY <3>3, <3>4, <3>5
  <2>5. Types'
    <3>1. byID' \in [UUID -> Obj \cup {0}] /\ next' \in 0..MaxTxnID
      BY <2>2 DEF CoordInv, Types, Obj
    <3>2. handler' \in [Handler -> HandlerState]
      BY <2>3 DEF OnlyHandler
    <3> QED
      BY <1>1, <2>4, <3>1, <3>2, TypedStays DEF CoordInv, Types
  <2>6. ASSUME NEW v \in UUID PROVE Registered(v)'
    <3>1. CASE v = u
      BY <2>1, <2>2, <2>4, <3>1 DEF Registered, Obj
    <3>2. CASE v # u
      <4>1. byID'[v] = byID[v]
        BY <2>2, <3>2 DEF CoordInv, Types
      <4>2. byID[v] # 0 => byID[v] \in Obj \ {n} /\ byID[v] <= next /\ txn[byID[v]].external = v
        BY <2>1 DEF CoordInv, Types, Registered, Obj
      <4> QED
        BY <2>1, <2>2, <2>4, <4>1, <4>2 DEF Registered, CoordInv, Types, Obj
    <3> QED
      BY <3>1, <3>2
  <2>7. ASSUME NEW k \in Handler PROVE Request(k)'
    <3>1. CASE k = h
      BY <1>1, <2>1, <2>2, <2>3, <3>1 DEF Request, Obj
    <3>2. CASE k # h
      BY <2>1, <2>2, <2>3, <3>2 DEF CoordInv, Types, Request, OnlyHandler, Obj
    <3> QED
      BY <3>1, <3>2
  <2>8. \A k \in Handler : Carries(k)' => k # h /\ Carries(k) /\ handler'[k] = handler[k] /\ handler[k].obj # n
    BY <2>1, <2>3 DEF Carries, OnlyHandler, CoordInv, Request, Types
  <2>9. \A k \in Handler : Commits(k)' => Commits(k) /\ Carries(k) /\ handler'[k] = handler[k] /\ handler[k].obj # n
    BY <2>3, <2>8 DEF Carries, Commits, OnlyHandler
  <2>10. \A k \in Handler : Carries(k) => handler'[k] = handler[k]
    BY <2>3 DEF OnlyHandler
  <2>11. ASSUME NEW p \in Obj
         PROVE  Named(p)' /\ Holds(p)' /\ Kept(p)' /\ Agree(p)' /\ Reclaimable(p)'
    <3>1. Holds(p) /\ Kept(p) /\ Agree(p) /\ Reclaimable(p) /\ Named(p)
      BY DEF CoordInv
    <3>2. CASE p = n
      <4>1. n > next
        BY <2>1 DEF CoordInv, Types
      <4>2. teardown'[n].pc = "none" /\ \A q \in Resource : held'[n][q] = "none"
        <5>1. n \in Nat /\ next \in Nat /\ ~(n <= next)
          BY <4>1, BoundsAssumption DEF CoordInv, Types, Obj
        <5>2. teardown[n].pc = "none" /\ \A q \in Resource : held[n][q] = "none"
          BY <3>1, <3>2, <4>1, <5>1 DEF Named
        <5> QED
          BY <1>1, <5>2
      <4>3. Grants(n)' = {}
        BY <2>4 DEF Grants
      <4>4. Named(n)'
        BY <2>1, <2>2, <2>4, <4>2 DEF Named, Obj
      <4>5. Holds(n)' /\ Kept(n)' /\ Agree(n)'
        BY <2>8, <2>9, <4>3 DEF Holds, Kept, Agree
      <4>6. Reclaimable(n)'
        BY <4>2 DEF Reclaimable
      <4> QED
        BY <3>2, <4>4, <4>5, <4>6
    <3>3. CASE p # n
      <4>1. txn'[p] = txn[p] /\ held'[p] = held[p] /\ teardown'[p] = teardown[p]
        BY <1>1, <2>4, <3>3
      <4>2. Open(p)' <=> Open(p)
        BY <4>1 DEF Open
      <4>3. (p <= next' <=> p <= next) /\ (p > next' => p > next)
        BY <2>1, <2>2, <3>3 DEF CoordInv, Types, Obj
      <4>4. p <= next /\ ~txn[p].finished => byID'[txn[p].external] = p
        <5> SUFFICES ASSUME p <= next, ~txn[p].finished PROVE byID'[txn[p].external] = p
          OBVIOUS
        <5>1. txn[p].external \in UUID /\ byID[txn[p].external] = p /\ p # 0
          BY <3>1 DEF Named, Obj
        <5>2. txn[p].external # u
          BY <1>4, <5>1
        <5> QED
          BY <2>2, <5>1, <5>2 DEF CoordInv, Types
      <4>5. Named(p)'
        BY <3>1, <4>1, <4>2, <4>3, <4>4 DEF Named
      <4>6. Spared(p)
        BY <2>8, <2>10, <4>1, <4>2 DEF Spared
      <4> QED
        BY <3>1, <4>5, <4>6, SparedKeeps
    <3> QED
      BY <3>2, <3>3
  <2> QED
    BY <2>5, <2>6, <2>7, <2>11 DEF CoordInv
<1> QED
  BY <1>3, <1>4 DEF ensure
------------------------------------------------------------------------------
\* The fence documents: a token within its bound and an owner.
FenceTypes == fence \in [Resource -> [token : 0..MaxToken, owner : UUID \cup {None}]]

\* Allocate sets the owner to the transaction's name, Invalidate clears it.
LEMMA FenceTypesKept ==
  ASSUME CoordInv, FenceTypes, [Next]_vars
  PROVE  FenceTypes'
<1>1. ASSUME NEW h \in Handler, Allocate(h) \/ AllocateFails(h) PROVE FenceTypes'
  <2>1. handler[h].res \in Resource /\ txn[handler[h].obj].external \in UUID \cup {None}
    BY <1>1, BoundsAssumption
       DEF Allocate, AllocateFails, CoordInv, Request, Types, Transaction, Obj
  <2>2. \/ UNCHANGED fence
        \/ /\ fence[handler[h].res].token + 1 <= MaxToken
           /\ fence' = [fence EXCEPT ![handler[h].res] =
                [token |-> fence[handler[h].res].token + 1, owner |-> txn[handler[h].obj].external]]
    BY <1>1 DEF Allocate, AllocateFails
  <2> QED
    BY <2>1, <2>2, BoundsAssumption DEF FenceTypes
<1>2. ASSUME NEW o \in Obj, NEW r \in Resource, Invalidate(o, r) \/ InvalidateFails(o, r)
      PROVE  FenceTypes'
  <2>1. UNCHANGED fence \/ fence' = [fence EXCEPT ![r].owner = None]
    BY <1>2 DEF Invalidate, InvalidateFails
  <2> QED
    BY <2>1 DEF FenceTypes
<1>3. CASE UNCHANGED fence
  BY <1>3 DEF FenceTypes
<1>4. UNCHANGED vars => UNCHANGED fence
  BY DEF vars
<1>5. ASSUME Next
      PROVE  \/ UNCHANGED fence
             \/ \E h \in Handler : Allocate(h) \/ AllocateFails(h)
             \/ \E o \in Obj, r \in Resource : Invalidate(o, r) \/ InvalidateFails(o, r)
  BY ZenonT(30), <1>5 DEF Next, Acquire, ensure, AcquireRetry, AcquireQueue, AcquireGrant, AcquireAbandon,
       stillActive, recordGrant, releaseOne, RenewLease, EndTransaction, revoke, LeasePasses,
       TeardownSnapshot, TeardownRetry, TeardownFinish, SweepTick, SweepPrune
<1> QED
  BY <1>1, <1>2, <1>3, <1>4, <1>5

\* Every step of the coordinator keeps the invariant.
LEMMA CoordStep ==
  ASSUME CoordInv, FenceTypes, Next
  PROVE  CoordInv'
<1>1. ASSUME NEW h \in Handler, Acquire(h) PROVE CoordInv'
  <2>1. CASE AcquireRetry(h) \/ AcquireQueue(h) \/ AcquireAbandon(h)
    BY <2>1, IdleKeeps DEF AcquireRetry, AcquireQueue, AcquireAbandon
  <2>2. CASE Allocate(h) \/ AllocateFails(h)
    BY <2>2, AllocateKeeps, BoundsAssumption DEF FenceTypes
  <2> QED
    BY <1>1, <2>1, <2>2, AcquireGrantKeeps, StillActiveKeeps, RecordGrantKeeps, ReleaseOneKeeps
       DEF Acquire
<1>2. ASSUME NEW u \in UUID, RenewLease(u) \/ EndTransaction(u) \/ revoke(u) PROVE CoordInv'
  <2>1. byID[u] # 0 => byID[u] \in Obj
    BY DEF CoordInv, Types
  <2>2. CASE RenewLease(u)
    BY Zenon, <2>1, <2>2, LeaseKeeps DEF RenewLease
  <2>3. CASE EndTransaction(u)
    BY <2>1, <2>3, BeginKeeps DEF EndTransaction
  <2>4. CASE revoke(u)
    <3>1. CASE byID[u] # 0 /\ Active(byID[u])
      BY <2>1, <2>4, <3>1, BeginKeeps DEF revoke
    <3>2. CASE ~(byID[u] # 0 /\ Active(byID[u]))
      BY <2>4, <3>2, StutterKeeps DEF revoke
    <3> QED
      BY <3>1, <3>2
  <2> QED
    BY <1>2, <2>2, <2>3, <2>4
<1>3. ASSUME NEW o \in Obj, LeasePasses(o) PROVE CoordInv'
  BY Zenon, <1>3, LeaseKeeps DEF LeasePasses
<1>4. ASSUME NEW o \in Obj, NEW r,
             \/ TeardownSnapshot(o) \/ TeardownRetry(o)
             \/ Invalidate(o, r) \/ InvalidateFails(o, r)
      PROVE  CoordInv'
  <2>1. PICK Left : teardown \in Phases(Left)
    BY Zenon DEF CoordInv, Types, TeardownTyped
  <2>2. teardown[o].pc # "none" /\ UNCHANGED <<byID, next, txn, held, handler>>
    BY <1>4 DEF TeardownSnapshot, TeardownRetry, Invalidate, InvalidateFails
  <2>3. \E pc \in {"begun", "invalidating", "retry"} : \E left :
          teardown' = [teardown EXCEPT ![o] = [pc |-> pc, left |-> left]]
    <3>1. CASE TeardownSnapshot(o)
      BY Zenon, <3>1 DEF TeardownSnapshot
    <3>2. CASE TeardownRetry(o)
      <4>1. teardown' = [teardown EXCEPT ![o].pc = "begun"]
        BY <3>2 DEF TeardownRetry
      <4>2. [teardown[o] EXCEPT !.pc = "begun"] = [pc |-> "begun", left |-> teardown[o].left]
        BY <2>1 DEF Phases
      <4>3. teardown' = [teardown EXCEPT ![o] = [teardown[o] EXCEPT !.pc = "begun"]]
        BY <4>1
      <4> QED
        BY Zenon, <4>2, <4>3
    <3>3. CASE Invalidate(o, r)
      <4>1. teardown' = [teardown EXCEPT ![o].left = Tail(@)] /\ teardown[o].pc = "invalidating"
        BY <3>3 DEF Invalidate
      <4>2. PICK rest : rest = Tail(teardown[o].left)
        BY Zenon
      <4>3. [teardown[o] EXCEPT !.left = rest] = [pc |-> "invalidating", left |-> rest]
        BY <2>1, <4>1 DEF Phases
      <4>4. teardown' = [teardown EXCEPT ![o] = [teardown[o] EXCEPT !.left = rest]]
        BY <4>1, <4>2
      <4> QED
        BY Zenon, <4>3, <4>4
    <3>4. CASE InvalidateFails(o, r)
      BY Zenon, <3>4 DEF InvalidateFails
    <3> QED
      BY <1>4, <3>1, <3>2, <3>3, <3>4
  <2> QED
    BY Zenon, <2>2, <2>3, TeardownKeeps
<1>5. ASSUME SweepTick PROVE CoordInv'
  BY <1>5, StutterKeeps DEF SweepTick
<1>6. ASSUME NEW h \in Handler, NEW u \in UUID, NEW r \in Resource, NEW m \in Mode, ensure(h, u, r, m)
      PROVE  CoordInv'
  BY <1>6, EnsureKeeps
<1>7. ASSUME NEW o \in Obj, TeardownFinish(o) PROVE CoordInv'
  BY <1>7, TeardownFinishKeeps
<1>8. SweepPrune => CoordInv'
  BY PruneKeeps
<1> QED
  BY <1>1, <1>2, <1>3, <1>4, <1>5, <1>6, <1>7, <1>8 DEF Next

\* The invariant holds in every state the coordinator reaches.
THEOREM CoordinatorInvariant == Spec => [](CoordInv /\ FenceTypes)
<1>1. Init => CoordInv /\ FenceTypes
  BY BoundsAssumption, CoordInit DEF Init, FenceTypes
<1>2. CoordInv /\ FenceTypes /\ [Next]_vars => (CoordInv /\ FenceTypes)'
  <2> SUFFICES ASSUME CoordInv, FenceTypes, [Next]_vars
               PROVE  CoordInv' /\ FenceTypes'
    OBVIOUS
  <2>1. CASE UNCHANGED vars
    <3>1. UNCHANGED <<byID, next, txn, held, handler, teardown>>
      BY <2>1 DEF vars
    <3> QED
      BY <3>1, StutterKeeps, FenceTypesKept
  <2> QED
    BY <2>1, CoordStep, FenceTypesKept
<1> QED
  BY <1>1, <1>2, PTL DEF Spec

\* NoOrphanLock: no interleaving of Acquire, EndTransaction, revocation and
\* failing teardowns leaves a lock that nothing will ever give back.
THEOREM EveryLockReclaimable == Spec => []NoOrphanLock
<1>1. CoordInv => NoOrphanLock
  <2> SUFFICES ASSUME CoordInv, NEW o \in Obj, NEW r \in Resource,
                      held[o][r] # "none", ~InFlight(o, r)
               PROVE  /\ txn[o].external # None
                      /\ byID[txn[o].external] = o
                      /\ ~txn[o].finished
                      /\ txn[o].lease # "none" \/ teardown[o].pc # "none"
    BY DEF NoOrphanLock
  <2>1. Named(o) /\ Reclaimable(o)
    BY DEF CoordInv
  <2>2. ~txn[o].finished /\ (txn[o].lease # "none" \/ teardown[o].pc # "none")
    <3>1. \A h \in Handler : For(h, o, r) => handler[h].pc \notin {"granted", "undo"}
      BY DEF InFlight, For
    <3> QED
      BY <2>1, <3>1 DEF Reclaimable
  <2>3. o <= next
    <3>1. ~(o > next)
      BY <2>1 DEF Named
    <3>2. o \in Nat /\ next \in Nat
      BY BoundsAssumption DEF CoordInv, Types, Obj
    <3> QED
      BY <3>1, <3>2
  <2> QED
    BY <2>1, <2>2, <2>3, NoneAssumption DEF Named
<1> QED
  BY <1>1, CoordinatorInvariant, PTL

\* GrantBacked: what an active transaction was told it holds, the lock manager
\* still holds for it.
THEOREM GrantsAreHeld == Spec => []GrantBacked
<1>1. CoordInv => GrantBacked
  BY DEF CoordInv, Holds, Open, Active, GrantBacked
<1> QED
  BY <1>1, CoordinatorInvariant, PTL

\* OneGrantPerResource: overlapping and repeated requests of one transaction
\* for one resource are granted in one mode and with one token.
THEOREM GrantsAgree == Spec => []OneGrantPerResource
<1>1. CoordInv => OneGrantPerResource
  BY DEF CoordInv, Agree, OneGrantPerResource
<1> QED
  BY <1>1, CoordinatorInvariant, PTL

\* KeepsLocksUntilFenced: a teardown keeps every exclusive lock it was granted
\* until the last of its tokens is invalid.
THEOREM WriterKeptUntilFenced == Spec => []KeepsLocksUntilFenced
<1>1. CoordInv => KeepsLocksUntilFenced
  BY DEF CoordInv, Named, Kept, KeepsLocksUntilFenced
<1> QED
  BY <1>1, CoordinatorInvariant, PTL
==============================================================================
