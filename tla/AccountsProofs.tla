--------------------------- MODULE AccountsProofs ---------------------------
(****************************************************************************)
(* A name has one identity, whole or absent, for any number of users and of *)
(* concurrent InitUser and GetUser calls.                                   *)
(*                                                                          *)
(* OneIdentity is not inductive: what keeps a later claim away from a name  *)
(* is what every call between its first insert and its end knows (Claimed), *)
(* and over MongoDB that there is one such call (Alone).  GetUser needs     *)
(* that an account is only ever there beside the keys it belongs to         *)
(* (Backed).                                                                *)
(****************************************************************************)
EXTENDS Accounts, TLAPS

Types ==
  /\ pke \in [User -> Call \cup {None}]
  /\ verify \in [User -> Call \cup {None}]
  /\ account \in [User -> Call \cup {None}]
  /\ call \in [Call -> Activation]
  /\ \A c \in Call : /\ call[c].pc \in Reading \cup Writing => call[c].user \in User
                     /\ call[c].got # None => call[c].pc = "done"

\* Calls that have inserted their first key and not ended.
Claiming(c) == call[c].pc \in {"put verify", "put account"}

\* What a claiming call knows: in a transaction, that the name is still free
\* for all others to see; outside, that the keys it has inserted are there.
ClaimKnows(c) ==
  LET u == call[c].user
  IN  /\ atomic => pke[u] = None /\ verify[u] = None /\ account[u] = None
      /\ ~atomic => pke[u] = c /\ (call[c].pc = "put account" => verify[u] = c)
Claimed == \A c \in Call : Claiming(c) => ClaimKnows(c)

\* A transaction that claims a name is the only one: the others conflict.
Alone ==
  atomic => \A c, d \in Call :
              Claiming(c) /\ Claiming(d) /\ call[c].user = call[d].user => c = d

\* An account stands beside the keys of the same call.
Backed ==
  \A u \in User : account[u] # None => pke[u] = account[u] /\ verify[u] = account[u]

\* OneIdentity, register by register.
Owns(c, got) ==
  LET u == call[c].user
  IN  u \in User /\ pke[u] = got /\ verify[u] = got /\ account[u] = got
Owned == \A c \in Call : call[c].got # None => Owns(c, call[c].got)

AccountInv == Types /\ Claimed /\ Alone /\ Backed /\ Owned /\ NoHalfAccount

\* No account and no call exist at first.
LEMMA AccountInit == Init => AccountInv
<1> SUFFICES ASSUME Init PROVE AccountInv
  OBVIOUS
<1>0. \A c \in Call : call[c] = [pc |-> "new", user |-> None, got |-> None]
  BY DEF Init
<1>1. Types
  BY <1>0 DEF Init, Types, Activation, Reading, Writing
<1>2. ASSUME NEW c \in Call PROVE ~Claiming(c)
  <2>1. call[c].pc = "new"
    BY <1>0
  <2> QED
    BY <2>1 DEF Claiming
<1>3. Claimed /\ Alone
  BY <1>2 DEF Claimed, Alone
<1>4. Backed /\ NoHalfAccount
  BY DEF Init, Backed, NoHalfAccount, atomic
<1>5. Owned
  BY <1>0 DEF Owned
<1> QED
  BY <1>1, <1>3, <1>4, <1>5 DEF AccountInv

\* What one call does to its own activation.
OnlyCall(c) == /\ call' \in [Call -> Activation]
               /\ \A d \in Call \ {c} : call'[d] = call[d]

\* A step of c that leaves the stores alone and c outside its writes, with an
\* identity only if the stores agree with it.
LEMMA QuietKeeps ==
  ASSUME AccountInv, NEW c \in Call, UNCHANGED <<pke, verify, account, backend>>, OnlyCall(c),
         ~Claiming(c)',
         call'[c].pc \in Reading \cup Writing => call'[c].user \in User /\ call'[c].got = None,
         call'[c].got # None =>
           LET u == call'[c].user
           IN  /\ u \in User /\ call'[c].pc = "done"
               /\ pke[u] = call'[c].got /\ verify[u] = call'[c].got /\ account[u] = call'[c].got
  PROVE  AccountInv'
<1>1. \A d \in Call : Claiming(d)' => d # c /\ Claiming(d) /\ call'[d] = call[d]
  BY DEF Claiming, OnlyCall
<1>2. Types'
  BY DEF AccountInv, Types, OnlyCall
<1>3. Claimed'
  <2> SUFFICES ASSUME NEW d \in Call, Claiming(d)'
               PROVE  ClaimKnows(d)'
    BY DEF Claimed
  <2>1. ClaimKnows(d) /\ call'[d] = call[d]
    BY <1>1 DEF AccountInv, Claimed
  <2> QED
    BY <2>1 DEF ClaimKnows, atomic
<1>4. Alone'
  BY <1>1 DEF AccountInv, Alone, atomic
<1>5. Backed' /\ NoHalfAccount'
  BY DEF AccountInv, Backed, NoHalfAccount, atomic
<1>6. Owned'
  BY DEF AccountInv, Owned, Owns, OnlyCall
<1> QED
  BY <1>2, <1>3, <1>4, <1>5, <1>6 DEF AccountInv

\* Goto moves one activation and leaves what it knows.
LEMMA GotoMoves ==
  ASSUME Types, NEW c \in Call, NEW l \in Reading \cup Writing, Goto(c, l)
  PROVE  /\ OnlyCall(c) /\ call'[c].pc = l
         /\ call'[c].user = call[c].user /\ call'[c].got = call[c].got
BY DEF Types, OnlyCall, Goto, Activation

\* Return ends one activation with the identity it returns.
LEMMA ReturnEnds ==
  ASSUME Types, NEW c \in Call, NEW got \in Call \cup {None}, Return(c, got)
  PROVE  /\ OnlyCall(c) /\ call'[c].pc = "done"
         /\ call'[c].user = call[c].user /\ call'[c].got = got
BY DEF Types, OnlyCall, Return, Activation

\* c ends without an identity: refused, failed, or aborted.
LEMMA EndKeeps ==
  ASSUME AccountInv, NEW c \in Call, UNCHANGED <<pke, verify, account, backend>>, Return(c, None)
  PROVE  AccountInv'
<1>1. OnlyCall(c) /\ call'[c].pc = "done" /\ call'[c].got = None
  BY ReturnEnds DEF AccountInv
<1> QED
  BY <1>1, QuietKeeps DEF Claiming, Reading, Writing

\* An InitUser begins: nothing it may claim is touched.
LEMMA InitUserKeeps ==
  ASSUME AccountInv, NEW c \in Call, NEW u \in User, InitUser(c, u), UNCHANGED backend
  PROVE  AccountInv'
<1>1. /\ OnlyCall(c) /\ UNCHANGED stored
      /\ call'[c].pc = "read account" /\ call'[c].user = u /\ call'[c].got = None
  BY DEF AccountInv, Types, OnlyCall, InitUser, Activation, Reading
<1> QED
  BY <1>1, QuietKeeps DEF Claiming, stored

\* A read of isUsernameTaken goes on to the next, or the call returns.
LEMMA TakenKeeps ==
  ASSUME AccountInv, NEW c \in Call, isUsernameTaken(c), UNCHANGED backend
  PROVE  AccountInv'
<1>1. UNCHANGED <<pke, verify, account>> /\ call[c].pc \in Reading
  BY DEF isUsernameTaken, Absent, Reading, stored
<1>2. \/ \E l \in {"read pke", "read verify", "put pke"} : Goto(c, l)
      \/ Return(c, None)
  BY DEF isUsernameTaken, Absent
<1>3. CASE Return(c, None)
  BY <1>1, <1>3, EndKeeps
<1>4. ASSUME NEW l \in {"read pke", "read verify", "put pke"}, Goto(c, l)
      PROVE  AccountInv'
  <2>1. call[c].user \in User /\ call[c].got = None
    BY <1>1 DEF AccountInv, Types, Reading
  <2>2. OnlyCall(c) /\ call'[c].pc = l /\ call'[c].user = call[c].user /\ call'[c].got = call[c].got
    BY <1>4, GotoMoves DEF AccountInv, Reading, Writing
  <2>3. ~Claiming(c)'
    BY <2>2 DEF Claiming
  <2> QED
    BY <1>1, <2>1, <2>2, <2>3, QuietKeeps
<1> QED
  BY <1>2, <1>3, <1>4

\* The first key is inserted: the name was free, and over MongoDB no other
\* transaction is claiming it.
LEMMA PutPKEKeeps ==
  ASSUME AccountInv, NEW c \in Call, PutPKE(c), UNCHANGED backend
  PROVE  AccountInv'
<1> DEFINE u == call[c].user
<1>1. u \in User /\ call[c].got = None
  BY DEF AccountInv, Types, PutPKE, Writing
<1>2. CASE pke[u] # None
  BY <1>2, EndKeeps DEF PutPKE, Insert
<1>3. CASE pke[u] = None
  <2>1. /\ OnlyCall(c) /\ call'[c].pc = "put verify"
        /\ call'[c].user = u /\ call'[c].got = None
    <3>1. Goto(c, "put verify")
      BY <1>3 DEF PutPKE, Insert
    <3> QED
      BY <1>1, <3>1, GotoMoves DEF AccountInv, Writing
  <2>2. /\ atomic => UNCHANGED pke
        /\ ~atomic => pke' = [pke EXCEPT ![u] = c]
        /\ UNCHANGED <<verify, account>>
    BY <1>3 DEF PutPKE, Insert, atomic
  <2>3. account[u] = None /\ (atomic => verify[u] = None)
    BY <1>1, <1>3 DEF AccountInv, NoHalfAccount, Backed, atomic
  <2>4. ASSUME NEW d \in Call \ {c}, Claiming(d) PROVE call[d].user # u
    <3>1. CASE atomic
      BY <1>3, <2>4, <3>1 DEF PutPKE, Insert, Conflict, Claiming
    <3>2. CASE ~atomic
      BY <1>3, <2>4, <3>2, CallAssumption DEF AccountInv, Claimed, ClaimKnows
    <3> QED
      BY <3>1, <3>2
  <2>5. \A d \in Call \ {c} : Claiming(d)' => Claiming(d) /\ call'[d] = call[d]
    BY <2>1 DEF Claiming, OnlyCall
  <2>6. Types'
    BY <1>1, <2>1, <2>2 DEF AccountInv, Types, OnlyCall, atomic
  <2>7. Claimed'
    <3> SUFFICES ASSUME NEW d \in Call, Claiming(d)'
                 PROVE  ClaimKnows(d)'
      BY DEF Claimed
    <3>1. CASE d = c
      BY <1>1, <1>3, <2>1, <2>2, <2>3, <3>1 DEF AccountInv, Types, ClaimKnows, atomic
    <3>2. CASE d # c
      <4>1. ClaimKnows(d) /\ call'[d] = call[d] /\ call[d].user # u
        BY <2>4, <2>5, <3>2 DEF AccountInv, Claimed
      <4>2. call[d].user \in User
        BY <2>5, <3>2 DEF AccountInv, Types, Claiming, Writing
      <4> QED
        BY <1>1, <2>2, <4>1, <4>2 DEF AccountInv, Types, ClaimKnows, atomic
    <3> QED
      BY <3>1, <3>2
  <2>8. Alone'
    BY <2>1, <2>4, <2>5 DEF AccountInv, Alone, atomic
  <2>9. Backed' /\ NoHalfAccount'
    BY <1>1, <2>2, <2>3 DEF AccountInv, Types, Backed, NoHalfAccount, atomic
  <2>10. Owned'
    <3> SUFFICES ASSUME NEW d \in Call, call'[d].got # None
                 PROVE  Owns(d, call[d].got)'
      BY DEF Owned
    <3>1. d # c /\ call'[d] = call[d] /\ Owns(d, call[d].got)
      BY <2>1 DEF AccountInv, Owned, OnlyCall
    <3>2. call[d].user # u
      BY <1>3, <3>1 DEF Owns
    <3> QED
      BY <1>1, <2>2, <3>1, <3>2 DEF AccountInv, Types, Owns, atomic
  <2> QED
    BY <2>6, <2>7, <2>8, <2>9, <2>10 DEF AccountInv
<1> QED
  BY <1>2, <1>3

\* The second key is inserted, or was there: then the call ends.
LEMMA PutVerifyKeeps ==
  ASSUME AccountInv, NEW c \in Call, PutVerify(c), UNCHANGED backend
  PROVE  AccountInv'
<1> DEFINE u == call[c].user
<1>1. u \in User /\ call[c].got = None /\ Claiming(c)
  BY DEF AccountInv, Types, PutVerify, Writing, Claiming
<1>2. CASE verify[u] # None
  BY <1>2, EndKeeps DEF PutVerify, Insert
<1>3. CASE verify[u] = None
  <2>1. /\ OnlyCall(c) /\ call'[c].pc = "put account"
        /\ call'[c].user = u /\ call'[c].got = None
    <3>1. Goto(c, "put account")
      BY <1>3 DEF PutVerify, Insert
    <3> QED
      BY <1>1, <3>1, GotoMoves DEF AccountInv, Writing
  <2>2. /\ atomic => UNCHANGED verify
        /\ ~atomic => verify' = [verify EXCEPT ![u] = c]
        /\ UNCHANGED <<pke, account>>
    BY <1>3 DEF PutVerify, Insert, atomic
  <2>3. account[u] = None
    BY <1>1, <1>3 DEF AccountInv, Backed
  <2>4. \A d \in Call : Claiming(d)' => Claiming(d) /\ call'[d].user = call[d].user
    BY <1>1, <2>1 DEF Claiming, OnlyCall
  <2>5. \A d \in Call \ {c} : call'[d] = call[d]
    BY <2>1 DEF OnlyCall
  <2>6. Types'
    BY <1>1, <2>1, <2>2 DEF AccountInv, Types, OnlyCall, atomic
  <2>7. ASSUME ~atomic, NEW d \in Call \ {c}, Claiming(d) PROVE call[d].user # u
    BY <1>1, <2>7 DEF AccountInv, Claimed, ClaimKnows
  <2>8. Claimed'
    <3> SUFFICES ASSUME NEW d \in Call, Claiming(d)'
                 PROVE  ClaimKnows(d)'
      BY DEF Claimed
    <3>1. ClaimKnows(d) /\ Claiming(d)
      BY <2>4 DEF AccountInv, Claimed
    <3>2. CASE d = c
      BY <1>1, <2>1, <2>2, <3>1, <3>2 DEF AccountInv, Types, ClaimKnows, atomic
    <3>3. CASE d # c
      <4>1. call'[d] = call[d] /\ (~atomic => call[d].user # u)
        BY <2>5, <2>7, <3>1, <3>3
      <4>2. call[d].user \in User
        BY <3>1 DEF AccountInv, Types, Claiming, Writing
      <4>3. verify'[call[d].user] = verify[call[d].user]
        BY <1>1, <2>2, <4>1, <4>2 DEF AccountInv, Types
      <4> QED
        BY <2>2, <3>1, <4>1, <4>3 DEF ClaimKnows, atomic
    <3> QED
      BY <3>2, <3>3
  <2>9. Alone'
    BY <2>4 DEF AccountInv, Alone, atomic
  <2>10. Backed' /\ NoHalfAccount'
    BY <1>1, <2>2, <2>3 DEF AccountInv, Types, Backed, NoHalfAccount, atomic
  <2>11. Owned'
    <3> SUFFICES ASSUME NEW d \in Call, call'[d].got # None
                 PROVE  Owns(d, call[d].got)'
      BY DEF Owned
    <3>1. d # c /\ call'[d] = call[d] /\ Owns(d, call[d].got)
      BY <2>1 DEF AccountInv, Owned, OnlyCall
    <3>2. call[d].user # u
      BY <1>3, <3>1 DEF Owns
    <3> QED
      BY <1>1, <2>2, <3>1, <3>2 DEF AccountInv, Types, Owns, atomic
  <2> QED
    BY <2>6, <2>8, <2>9, <2>10, <2>11 DEF AccountInv
<1> QED
  BY <1>2, <1>3

\* The account is stored, and the transaction commits: afterwards all three
\* registers name the call, and nobody was told otherwise before.
LEMMA PutAccountKeeps ==
  ASSUME AccountInv, NEW c \in Call, PutAccount(c), UNCHANGED backend
  PROVE  AccountInv'
<1> DEFINE u == call[c].user
<1>1. u \in User /\ Claiming(c) /\ call[c].pc = "put account"
  BY DEF AccountInv, Types, PutAccount, Writing, Claiming
<1>2. /\ OnlyCall(c) /\ call'[c].pc = "done"
      /\ call'[c].user = u /\ call'[c].got \in {c, None}
  <2>1. Return(c, c) \/ Return(c, None)
    BY DEF PutAccount
  <2> QED
    BY <2>1, ReturnEnds DEF AccountInv
<1>3. ~atomic => pke[u] = c /\ verify[u] = c
  BY <1>1 DEF AccountInv, Claimed, ClaimKnows
<1>4. /\ pke' = [pke EXCEPT ![u] = c]
      /\ verify' = [verify EXCEPT ![u] = c]
      /\ account' = [account EXCEPT ![u] = c]
  <2>1. CASE atomic
    BY <2>1 DEF PutAccount
  <2>2. CASE ~atomic
    <3>1. UNCHANGED <<pke, verify>> /\ account' = [account EXCEPT ![u] = c]
      BY <2>2 DEF PutAccount
    <3> QED
      BY <2>2, <3>1, <1>1, <1>3 DEF AccountInv, Types
  <2> QED
    BY <2>1, <2>2
<1>5. \A d \in Call : call[d].got # None /\ call[d].user = u => call[d].got = c
  BY <1>1, <1>3 DEF AccountInv, Claimed, ClaimKnows, Owned, Owns
<1>6. ASSUME NEW d \in Call \ {c}, Claiming(d) PROVE call[d].user # u
  <2>1. CASE atomic
    BY <1>1, <1>6, <2>1 DEF AccountInv, Alone
  <2>2. CASE ~atomic
    BY <1>3, <1>6, <2>2 DEF AccountInv, Claimed, ClaimKnows
  <2> QED
    BY <2>1, <2>2
<1>7. \A d \in Call : Claiming(d)' => d # c /\ Claiming(d) /\ call'[d] = call[d]
  BY <1>2 DEF Claiming, OnlyCall
<1>8. Types'
  BY <1>1, <1>2, <1>4 DEF AccountInv, Types, OnlyCall, Reading, Writing
<1>9. \A d \in Call : Claiming(d)' => call[d].user \in User \ {u}
  BY <1>6, <1>7 DEF AccountInv, Types, Claiming, Writing
<1>10. Claimed'
  <2> SUFFICES ASSUME NEW d \in Call, Claiming(d)'
               PROVE  ClaimKnows(d)'
    BY DEF Claimed
  <2>1. ClaimKnows(d) /\ call'[d] = call[d] /\ call[d].user \in User \ {u}
    BY <1>7, <1>9 DEF AccountInv, Claimed
  <2> QED
    BY <1>4, <2>1 DEF AccountInv, Types, ClaimKnows, atomic
<1>11. Alone'
  BY <1>7 DEF AccountInv, Alone, atomic
<1>12. Backed' /\ NoHalfAccount'
  BY <1>1, <1>4 DEF AccountInv, Types, Backed, NoHalfAccount, atomic
<1>13. Owned'
  <2> SUFFICES ASSUME NEW d \in Call, call'[d].got # None
               PROVE  Owns(d, call[d].got)'
    BY DEF Owned
  <2>1. CASE d = c
    BY <1>1, <1>2, <1>4, <2>1 DEF AccountInv, Types, Owns
  <2>2. CASE d # c
    <3>1. call'[d] = call[d] /\ Owns(d, call[d].got)
      BY <1>2, <2>2 DEF AccountInv, Owned, OnlyCall
    <3> QED
      BY <1>1, <1>4, <1>5, <3>1 DEF AccountInv, Types, Owns
  <2> QED
    BY <2>1, <2>2
<1> QED
  BY <1>8, <1>10, <1>11, <1>12, <1>13 DEF AccountInv

\* A call that fails leaves no trace of its transaction.
LEMMA FailKeeps ==
  ASSUME AccountInv, NEW c \in Call, Fail(c), UNCHANGED backend
  PROVE  AccountInv'
BY EndKeeps DEF Fail, stored

\* An opened account is one whose keys are registered.
LEMMA GetUserKeeps ==
  ASSUME AccountInv, NEW c \in Call, NEW u \in User, GetUser(c, u), UNCHANGED backend
  PROVE  AccountInv'
<1>1. PICK got \in {account[u], None} :
        call' = [call EXCEPT ![c] = [pc |-> "done", user |-> u, got |-> got]]
  BY DEF GetUser
<1>2. UNCHANGED <<pke, verify, account>> /\ got \in Call \cup {None}
  BY DEF GetUser, stored, AccountInv, Types
<1>3. /\ OnlyCall(c)
      /\ call'[c].pc = "done" /\ call'[c].user = u /\ call'[c].got = got
  BY <1>1, <1>2 DEF AccountInv, Types, OnlyCall, Activation
<1>4. got # None => pke[u] = got /\ verify[u] = got /\ account[u] = got
  BY DEF AccountInv, Backed
<1>5. ~Claiming(c)' /\ call'[c].pc \notin Reading \cup Writing
  BY <1>3 DEF Claiming, Reading, Writing
<1> QED
  BY <1>2, <1>3, <1>4, <1>5, QuietKeeps

\* The invariant is inductive: every step of InitUserContext and of
\* GetUserContext keeps it.
THEOREM AccountInvariant == Spec => []AccountInv
<1>1. AccountInv /\ [Next]_vars => AccountInv'
  <2> SUFFICES ASSUME AccountInv, [Next]_vars
               PROVE  AccountInv'
    OBVIOUS
  <2>1. CASE Next
    <3>1. UNCHANGED backend
      BY <2>1 DEF Next
    <3>2. PICK c \in Call :
            \/ \E u \in User : InitUser(c, u) \/ GetUser(c, u)
            \/ isUsernameTaken(c) \/ PutPKE(c) \/ PutVerify(c) \/ PutAccount(c) \/ Fail(c)
      BY <2>1 DEF Next
    <3> QED
      BY <3>1, <3>2, InitUserKeeps, GetUserKeeps, TakenKeeps, PutPKEKeeps, PutVerifyKeeps,
         PutAccountKeeps, FailKeeps
  <2>2. CASE UNCHANGED vars
    BY <2>2
       DEF vars, stored, AccountInv, Types, Claimed, ClaimKnows, Claiming, Alone, Backed, Owned, Owns, NoHalfAccount, atomic
  <2> QED
    BY <2>1, <2>2
<1> QED
  BY AccountInit, <1>1, PTL DEF Spec

\* Two InitUsers of one name never both succeed, and whoever opens the account
\* gets the identity whose public keys are registered: KeyStore.Put's insert is
\* enough, whatever isUsernameTaken saw.
THEOREM NameHasOneIdentity == Spec => []OneIdentity
<1>1. AccountInv => OneIdentity
  BY DEF AccountInv, Owned, Owns, OneIdentity
<1> QED
  BY <1>1, AccountInvariant, PTL

\* Over MongoDB a name is claimed as a whole or not at all, at every step of
\* every InitUser.
THEOREM NameIsWhole == Spec => []NoHalfAccount
<1>1. AccountInv => NoHalfAccount
  BY DEF AccountInv
<1> QED
  BY <1>1, AccountInvariant, PTL
==============================================================================
