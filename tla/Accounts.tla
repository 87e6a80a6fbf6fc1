------------------------------ MODULE Accounts ------------------------------
(****************************************************************************)
(* Account creation and opening: InitUserContext and GetUserContext of      *)
(* client/client.go over the write-once key store and the object store.     *)
(*                                                                          *)
(* No lock protects a username.  Concurrent InitUsers of one name, in any   *)
(* number of workers, are kept apart by KeyStore.Put alone, which refuses a *)
(* name that is taken.  Where atomic, the three writes are one MongoDB      *)
(* transaction; else they are the separate writes of the userlib            *)
(* backend, whose RunAtomic just runs fn.                                   *)
(****************************************************************************)
CONSTANTS User,    \* usernames
          Call,    \* activations of InitUser and GetUser
          None     \* absent

ASSUME CallAssumption == None \notin Call

\* Everything an InitUser generates (keys, namespace root, account) is named
\* after its call.
VARIABLES pke,      \* pke[u]: the registered encryption key
          verify,   \* verify[u]: the registered verification key
          account,  \* account[u]: the account object
          backend,  \* the storage bundle in use
          call      \* call[c]: [pc, user, got]; got: the identity returned

stored == <<pke, verify, account>>
vars == <<stored, backend, call>>

\* Only the bundle over MongoDB has an AtomicStore.
atomic == backend = "mongostore"

\* Where an InitUser is: reading the three objects, then writing them.
Reading == {"read account", "read pke", "read verify"}
Writing == {"put pke", "put verify", "put account"}
Activation ==
  [pc : {"new", "done"} \cup Reading \cup Writing,
   user : User \cup {None}, got : Call \cup {None}]

TypeOK ==
  /\ backend \in {"mongostore", "userlib"}
  /\ pke \in [User -> Call \cup {None}]
  /\ verify \in [User -> Call \cup {None}]
  /\ account \in [User -> Call \cup {None}]
  /\ call \in [Call -> Activation]
  /\ \A c \in Call : /\ call[c].user = None <=> call[c].pc = "new"
                     /\ call[c].got # None => call[c].pc = "done"

Init ==
  /\ backend \in {"mongostore", "userlib"}
  /\ pke = [u \in User |-> None]
  /\ verify = [u \in User |-> None]
  /\ account = [u \in User |-> None]
  /\ call = [c \in Call |-> [pc |-> "new", user |-> None, got |-> None]]

Goto(c, l) == call' = [call EXCEPT ![c].pc = l]
Return(c, got) == call' = [call EXCEPT ![c].pc = "done", ![c].got = got]

InitUser(c, u) ==
  /\ call[c].pc = "new"
  /\ call' = [call EXCEPT ![c].pc = "read account", ![c].user = u]
  /\ UNCHANGED stored

\* isUsernameTaken: three reads in no transaction.  The code reads all three
\* before it decides; refusing at the first one found returns the same error.
Absent(c, reg, at, next) ==
  /\ call[c].pc = at
  /\ IF reg[call[c].user] = None THEN Goto(c, next) ELSE Return(c, None)
  /\ UNCHANGED stored

isUsernameTaken(c) ==
  \/ Absent(c, account, "read account", "read pke")
  \/ Absent(c, pke, "read pke", "read verify")
  \/ Absent(c, verify, "read verify", "put pke")

\* Another open transaction has inserted a key of u: inserting it too is a write
\* conflict, and WithTransaction runs fn again until that transaction has ended.
Conflict(c, u) ==
  atomic /\ \E d \in Call \ {c} :
              call[d].user = u /\ call[d].pc \in {"put verify", "put account"}

\* Fault: the key is upserted as objects are, over one that is there.
InsertOver(c, reg, next) ==
  /\ reg' = IF atomic THEN reg ELSE [reg EXCEPT ![call[c].user] = c]
  /\ Goto(c, next)

\* KeyStore.Put, an insert: a name that is taken is an error, which ends fn.
\* In a transaction the key is not visible before the commit.
Insert(c, reg, next) ==
  LET u == call[c].user
  IN  IF reg[u] # None
      THEN Return(c, None) /\ UNCHANGED reg
      ELSE /\ ~Conflict(c, u)
           /\ reg' = IF atomic THEN reg ELSE [reg EXCEPT ![u] = c]
           /\ Goto(c, next)

PutPKE(c) ==
  /\ call[c].pc = "put pke"
  /\ Insert(c, pke, "put verify")
  /\ UNCHANGED <<verify, account>>

PutVerify(c) ==
  /\ call[c].pc = "put verify"
  /\ Insert(c, verify, "put account")
  /\ UNCHANGED <<pke, account>>

\* Fault: the keys are not part of the transaction that stores the account.
PutAccountAlone(c) ==
  /\ call[c].pc = "put account"
  /\ account' = [account EXCEPT ![call[c].user] = c]
  /\ UNCHANGED <<pke, verify>>
  /\ Return(c, c)

\* The account, an upsert, then the commit of the transaction.  A commit that
\* took effect may still be reported to the caller as an error.
PutAccount(c) ==
  LET u == call[c].user
      Committed(reg) == IF atomic THEN [reg EXCEPT ![u] = c] ELSE reg
  IN  /\ call[c].pc = "put account"
      /\ account' = [account EXCEPT ![u] = c]
      /\ pke' = Committed(pke)
      /\ verify' = Committed(verify)
      /\ Return(c, c) \/ (atomic /\ Return(c, None))

\* The worker dies, its context ends or MongoDB fails: an open transaction is
\* aborted.  The userlib maps neither fail nor consult the context, and do not
\* outlive the process.
Fail(c) ==
  /\ atomic
  /\ call[c].pc \in Reading \cup Writing
  /\ Return(c, None)
  /\ UNCHANGED stored

\* GetUserContext: one read of the account.  None: absent, the read failed, or
\* the password does not open it.
GetUser(c, u) ==
  /\ call[c].pc = "new"
  /\ \E got \in {account[u], None} :
       call' = [call EXCEPT ![c] = [pc |-> "done", user |-> u, got |-> got]]
  /\ UNCHANGED stored

Next ==
  /\ \E c \in Call :
       \/ \E u \in User : InitUser(c, u) \/ GetUser(c, u)
       \/ isUsernameTaken(c) \/ PutPKE(c) \/ PutVerify(c) \/ PutAccount(c) \/ Fail(c)
  /\ UNCHANGED backend

Spec == Init /\ [][Next]_vars
------------------------------------------------------------------------------
\* Whoever was given an identity, by InitUser or by GetUser, holds the private
\* keys of the public keys registered under the name: two InitUsers that both
\* found the name free never both succeed, nor mix their keys.
OneIdentity ==
  \A c \in Call :
    call[c].got # None =>
      \A reg \in {pke, verify, account} : reg[call[c].user] = call[c].got

\* A name is claimed as a whole or not at all, at every step of every InitUser:
\* one that ends between its writes leaves no key, which nobody could replace.
\* This is what runAtomicStorage adds to account creation.
NoHalfAccount ==
  atomic => \A u \in User : pke[u] = verify[u] /\ verify[u] = account[u]
==============================================================================
