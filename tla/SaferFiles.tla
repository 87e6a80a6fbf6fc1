----------------------------- MODULE SaferFiles -----------------------------
(****************************************************************************)
(* The file operations of client/client.go and client/diagnostics.go:       *)
(* StoreFile, AppendToFile, LoadFile, ReadFileMetadata, CreateInvitation,   *)
(* AcceptInvitation and RevokeAccess, as concurrent two-phase-locking       *)
(* transactions over the object store.                                      *)
(*                                                                          *)
(* An operation locks a namespace name, reads the entry it finds there,     *)
(* locks the file the entry names, validates the access box against the     *)
(* file's status, reads what it needs, and writes everything it changes in  *)
(* one atomic commit that proves the fences of its exclusive locks.  The    *)
(* locks are LockTable's (LockManager.tla implements it); an operation may  *)
(* lose them to a lease revocation or to a coordinator restart and not know *)
(* (Coordinator.tla), and what then stops it is the fence check             *)
(* (AtomicStore.tla).                                                       *)
(*                                                                          *)
(* Encryption, MACs and signatures are not modelled: an object that can be  *)
(* read is the object that was written there.  Operation k mints at most    *)
(* one id of each kind with uuid.New; all of them are written k, and 0 is   *)
(* uuid.Nil.  The bytes operation k stores are likewise <<k>>.              *)
(****************************************************************************)
EXTENDS Naturals, Sequences, FiniteSets

CONSTANTS User,           \* usernames
          Name,           \* (username, filename) pairs
          UserOf,         \* whose name it is
          None,           \* an absent object
          MaxOps,         \* bound on the operations started
          MaxConcurrent,  \* bound on the operations running at a time
          MaxVersion,     \* the largest metadata version, ^uint64(0) in the code
          MaxFaults       \* bound on leases revoked under a running worker and
                          \* coordinator restarts together

ASSUME NamesAssumption == UserOf \in [Name -> User] /\ None \notin Name \cup User
ASSUME BoundsAssumption ==
  {MaxOps, MaxConcurrent, MaxVersion, MaxFaults} \subseteq Nat

VARIABLES
  \* the object store
  entry,       \* NamespaceEntry of a name
  box,         \* AccessBox by AccessBoxUUID
  status,      \* FileStatus by file: the current epoch, 0 if there is no file
  structure,   \* AccessBoxStructure by file
  metadata,    \* Metadata by epoch (a new epoch has a new MetadataUUID)
  chunk,       \* Chunk by ChunkUUID
  invitation,  \* invitations not yet consumed
  \* locks and fences
  held,        \* held[k][r]: the mode operation k holds
  fence,       \* fence[r]: the operation whose token is live
  \* the operations
  op,
  revocations,
  restarts,
  \* for the properties only
  hist         \* hist[f][v]: what version v of file f contains

store == <<entry, box, status, structure, metadata, chunk, invitation, hist>>
locks == <<held, fence, revocations, restarts>>
vars == <<store, locks, op>>

Op == 1..MaxOps
Id == 0..MaxOps
Resource == Name \cup Op

LT == INSTANCE LockTable WITH Txn <- Op

Kind == {"Store", "Append", "Load", "ReadMetadata", "Invite", "Accept", "Revoke"}

\* Fault: CreateInvitation locks its file shared.
FileModeShared(kind) == IF kind \in {"Load", "ReadMetadata", "Accept", "Invite"} THEN "S" ELSE "X"

\* Which mode each operation asks for on its name and on its file.
NamespaceMode(kind) == IF kind \in {"Store", "Accept"} THEN "X" ELSE "S"
FileMode(kind) == IF kind \in {"Load", "ReadMetadata", "Accept"} THEN "S" ELSE "X"

\* via (for the properties only) is the invitation an entry came from.
NamespaceEntry == [owner : BOOLEAN, file : Op, box : Op, via : Id]
AccessBox == [file : Op, epoch : Op]
AccessBoxStructure == [epoch : Id, boxes : [User -> Id]]
Metadata == [version : 0..MaxVersion, tail : Op, count : Nat]
Chunk == [file : Op, epoch : Op, index : Nat, prev : Id, content : Seq(Op)]
Invitation == [to : User, file : Op, box : Op]
NoStructure == [epoch |-> 0, boxes |-> [u \in User |-> 0]]

\* The local variables of an operation: where it is, its arguments, and what
\* it has read so far.  fresh: it is storing a new file.  since: the version
\* its file had when it locked it.
PC == {"new", "namespace", "named", "file", "locked", "valid", "listed",
       "described", "commit", "return", "done"}
Operation ==
  [pc : PC, kind : Kind \cup {None}, name : Name \cup {None}, to : User \cup {None},
   inv : Id, fresh : BOOLEAN, entry : NamespaceEntry \cup {None}, epoch : Id,
   boxes : [User -> Id], meta : Metadata \cup {None}, chunks : SUBSET Op,
   content : Seq(Op), since : Nat, revoked : BOOLEAN]
NewOperation ==
  [pc |-> "new", kind |-> None, name |-> None, to |-> None, inv |-> 0,
   fresh |-> FALSE, entry |-> None, epoch |-> 0, boxes |-> NoStructure.boxes,
   meta |-> None, chunks |-> {}, content |-> <<>>, since |-> 0, revoked |-> FALSE]

TypeOK ==
  /\ entry \in [Name -> NamespaceEntry \cup {None}]
  /\ box \in [Op -> AccessBox \cup {None}]
  /\ status \in [Op -> Id]
  /\ structure \in [Op -> AccessBoxStructure]
  /\ metadata \in [Op -> Metadata \cup {None}]
  /\ chunk \in [Op -> Chunk \cup {None}]
  /\ invitation \in [Op -> Invitation \cup {None}]
  /\ LT!TypeOK
  /\ fence \in [Resource -> Id]
  /\ op \in [Op -> Operation]
  /\ revocations \in 0..MaxFaults /\ restarts \in 0..MaxFaults
  /\ hist \in [Op -> Seq(Seq(Op))]

Init ==
  /\ entry = [n \in Name |-> None]
  /\ box = [b \in Op |-> None]
  /\ status = [f \in Op |-> 0]
  /\ structure = [f \in Op |-> NoStructure]
  /\ metadata = [e \in Op |-> None]
  /\ chunk = [c \in Op |-> None]
  /\ invitation = [i \in Op |-> None]
  /\ LT!Init
  /\ fence = [r \in Resource |-> 0]
  /\ op = [k \in Op |-> NewOperation]
  /\ revocations = 0 /\ restarts = 0
  /\ hist = [f \in Op |-> <<>>]
------------------------------------------------------------------------------
Running(k) == op[k].pc \notin {"new", "done"}
Goto(k, l) == op' = [op EXCEPT ![k].pc = l]
\* The operation returns, with an error or with nothing but its effect: what
\* it had read is gone.  Its deferred ReleaseAll is still to come.
Return(k) ==
  op' = [op EXCEPT ![k] = [NewOperation EXCEPT !.pc = "return", !.revoked = op[k].revoked]]
Fail(k) == Return(k)

\* allocateTxnID and newOperationGuard: operations get their ids in order.  The
\* arguments are a name, and a recipient or an invitation.
Begin(k) ==
  /\ op[k].pc = "new"
  /\ k > 1 => op[k - 1].pc # "new"
  /\ Cardinality({j \in Op : Running(j)}) < MaxConcurrent
  /\ \E kind \in Kind, n \in Name :
       \E u \in IF kind \in {"Invite", "Revoke"} THEN User ELSE {None},
          i \in IF kind = "Accept" THEN 1..(k - 1) ELSE {0} :
         op' = [op EXCEPT ![k] = [NewOperation EXCEPT !.pc = "namespace", !.kind = kind,
                                    !.name = n, !.to = u, !.inv = i]]
  /\ UNCHANGED <<store, locks>>

\* guard.AcquireContext: the lock, and for an exclusive one a fencing token,
\* unless the transaction has been revoked.
AcquireContext(k, r, m, next) ==
  /\ ~op[k].revoked
  /\ LT!Grant(k, r, m)
  /\ fence' = IF m = "X" THEN [fence EXCEPT ![r] = k] ELSE fence
  /\ op' = [op EXCEPT ![k].pc = next,
                      ![k].since = IF r \in Op THEN Len(hist[r]) ELSE 0]
  /\ UNCHANGED <<store, revocations, restarts>>

LockNamespace(k) ==
  /\ op[k].pc = "namespace"
  /\ AcquireContext(k, op[k].name, NamespaceMode(op[k].kind), "named")

\* Fault: AcceptInvitation validates the invitation without locking the file.
LockFileUnlessAccept(k) ==
  /\ op[k].pc = "file"
  /\ IF op[k].kind = "Accept" THEN Goto(k, "locked") /\ UNCHANGED <<store, locks>>
     ELSE AcquireContext(k, op[k].entry.file, FileMode(op[k].kind),
                         IF op[k].fresh THEN "commit" ELSE "locked")

LockFile(k) ==
  /\ op[k].pc = "file"
  /\ AcquireContext(k, op[k].entry.file, FileMode(op[k].kind),
                    IF op[k].fresh THEN "commit" ELSE "locked")

\* It returns an error: the caller's context is done, the coordinator cannot be
\* reached, or the transaction was revoked.
AcquireFails(k) ==
  /\ op[k].pc \in {"namespace", "file"}
  /\ Fail(k)
  /\ UNCHANGED <<store, locks>>

\* openInvitation: the invitation exists and is for this user.
openInvitation(o) ==
  invitation[o.inv] # None /\ invitation[o.inv].to = UserOf[o.name]

\* loadNamespaceEntry, or for AcceptInvitation the test that the name is free
\* and openInvitation; RevokeAccess is refused to a non-owner already here.
ReadNamespace(k) ==
  LET o == op[k]
      e == entry[o.name]
      i == invitation[o.inv]
      found(x, new) == op' = [op EXCEPT ![k].pc = "file", ![k].entry = x, ![k].fresh = new]
  IN  /\ o.pc = "named"
      /\ CASE o.kind = "Accept" /\ e = None /\ openInvitation(o) ->
                found([owner |-> FALSE, file |-> i.file, box |-> i.box, via |-> o.inv], FALSE)
           [] o.kind = "Store" /\ e = None ->
                found([owner |-> TRUE, file |-> k, box |-> k, via |-> 0], TRUE)
           [] o.kind # "Accept" /\ e # None /\ (o.kind = "Revoke" => e.owner) ->
                found(e, FALSE)
           [] OTHER -> Fail(k)
      /\ UNCHANGED <<store, locks>>
------------------------------------------------------------------------------
\* createFileStatus: what a file's status commits to, the hash of an access box
\* of the current epoch; all boxes of an epoch have the same content.
createFileStatus(b) == b.epoch

\* verifyFileStatus: the status commits to this very box.
verifyFileStatus(b) == status[b.file] = createFileStatus(b)

Accessible(e) ==
  /\ box[e.box] # None
  /\ box[e.box].file = e.file
  /\ verifyFileStatus(box[e.box])

\* validateFileAccessUnderLock and validateInvitationAccessUnderLock.
ValidateAccess(k) ==
  LET e == op[k].entry
  IN  /\ op[k].pc = "locked"
      /\ IF Accessible(e)
         THEN op' = [op EXCEPT ![k].pc = IF op[k].kind = "Accept" THEN "commit" ELSE "valid",
                               ![k].epoch = box[e.box].epoch]
         ELSE Fail(k)
      /\ UNCHANGED <<store, locks>>

\* loadOwnerAccessBoxStructure, which only an owner has the keys for, and
\* RevokeAccess's test that the recipient is a direct share.
LoadStructure(k) ==
  LET o == op[k]
      s == structure[o.entry.file]
  IN  /\ o.pc = "valid"
      /\ o.kind \in {"Invite", "Revoke"}
      /\ IF o.entry.owner => s.epoch = o.epoch /\ (o.kind = "Revoke" => s.boxes[o.to] # 0)
         THEN op' = [op EXCEPT ![k].pc = IF o.kind = "Invite" THEN "commit" ELSE "listed",
                               ![k].boxes = IF o.entry.owner THEN s.boxes ELSE @]
         ELSE Fail(k)
      /\ UNCHANGED <<store, locks>>

\* loadMetadata finds metadata it accepts.
Described(e) == metadata[e] # None /\ metadata[e].version # 0

\* An append needs no more than the metadata, and one of no bytes returns.
LoadMetadata(k) ==
  LET o == op[k]
      next == IF o.kind = "Append" THEN "commit" ELSE "described"
  IN  /\ \/ o.pc = "valid" /\ o.kind \in {"Store", "Append", "Load"}
         \/ o.pc = "listed"
      /\ \/ Described(o.epoch) /\ op' = [op EXCEPT ![k].pc = next, ![k].meta = metadata[o.epoch]]
         \/ (~Described(o.epoch) \/ o.kind = "Append") /\ Fail(k)
      /\ UNCHANGED <<store, locks>>

\* ReadFileMetadata, which authorizes as LoadFile does and returns the metadata.
ReadFileMetadata(k) ==
  LET o == op[k]
  IN  /\ o.pc = "valid" /\ o.kind = "ReadMetadata"
      /\ IF Described(o.epoch)
         THEN op' = [op EXCEPT ![k].pc = "return", ![k].meta = metadata[o.epoch]]
         ELSE Fail(k)
      /\ UNCHANGED <<store, locks>>

\* The chunk UUIDs loadFileContentAndChunkUUIDs visits from the tail m names:
\* Chain(m)[i] is the one it expects to have index i.
Chain(m) ==
  LET at[j \in 0..(m.count - 1)] ==
        IF j = 0 THEN m.tail
        ELSE LET next == at[j - 1]
             IN  IF next = 0 \/ chunk[next] = None THEN 0 ELSE chunk[next].prev
  IN  [i \in 0..(m.count - 1) |-> at[m.count - 1 - i]]

\* Its checks on each of them.
ChainOK(f, e, m) ==
  LET at == Chain(m)
  IN  \A i \in DOMAIN at :
        /\ at[i] # 0
        /\ chunk[at[i]] # None
        /\ chunk[at[i]].file = f /\ chunk[at[i]].epoch = e /\ chunk[at[i]].index = i
        /\ (chunk[at[i]].prev = 0) <=> (i = 0)
        /\ \A j \in DOMAIN at \ {i} : at[j] # at[i]

\* Fault: the chunks are joined in the order they are visited, tail first.
ContentReversed(m) ==
  LET at == Chain(m)
      upto[i \in 0..(m.count - 1)] ==
        IF i = 0 THEN chunk[m.tail].content ELSE upto[i - 1] \o chunk[at[m.count - 1 - i]].content
  IN  upto[m.count - 1]

ContentOf(m) ==
  LET at == Chain(m)
      upto[i \in 0..(m.count - 1)] ==
        IF i = 0 THEN chunk[at[0]].content ELSE upto[i - 1] \o chunk[at[i]].content
  IN  upto[m.count - 1]

ChunksOf(m) == LET at == Chain(m) IN {at[i] : i \in DOMAIN at}

\* loadFileContentAndChunkUUIDs.
LoadContent(k) ==
  LET o == op[k]
  IN  /\ o.pc = "described"
      /\ IF ChainOK(o.entry.file, o.epoch, o.meta)
         THEN op' = [op EXCEPT ![k].pc = IF o.kind = "Load" THEN "return" ELSE "commit",
                               ![k].content = ContentOf(o.meta),
                               ![k].chunks = ChunksOf(o.meta)]
         ELSE Fail(k)
      /\ UNCHANGED <<store, locks>>
------------------------------------------------------------------------------
\* Fault: the grants do not reach the commit's context.
FencedNothing(k) == TRUE

\* withFenceGrants and validateFences: the commit proves the token of every
\* exclusive lock the operation was granted.
Fenced(k) ==
  /\ NamespaceMode(op[k].kind) = "X" => fence[op[k].name] = k
  /\ FileMode(op[k].kind) = "X" => fence[op[k].entry.file] = k

Committing(k, kind) == op[k].pc = "commit" /\ op[k].kind = kind /\ Fenced(k) /\ Return(k)

NewChunk(k, e, index, prev, content) ==
  [file |-> op[k].entry.file, epoch |-> e, index |-> index, prev |-> prev, content |-> content]

Without(f, S) == [x \in DOMAIN f |-> IF x \in S THEN None ELSE f[x]]

\* Fault: the version is incremented without a look at its limit.
ExhaustedNever(v) == FALSE

\* nextMetadataVersion is refused the largest version, whose successor would
\* wrap around.
Exhausted(v) == v = MaxVersion
nextMetadataVersion(v) == (v + 1) % (MaxVersion + 1)

\* The first metadata of an epoch, over a single base chunk.
BaseMetadata(v, c) == [version |-> v, tail |-> c, count |-> 1]

\* storeNewFileLocked: the six objects of a new file.
storeNewFileLocked(k) ==
  /\ Committing(k, "Store")
  /\ op[k].fresh
  /\ chunk' = [chunk EXCEPT ![k] = NewChunk(k, k, 0, 0, <<k>>)]
  /\ metadata' = [metadata EXCEPT ![k] = BaseMetadata(1, k)]
  /\ box' = [box EXCEPT ![k] = [file |-> k, epoch |-> k]]
  /\ status' = [status EXCEPT ![k] = createFileStatus(box'[k])]
  /\ structure' = [structure EXCEPT ![k] = [NoStructure EXCEPT !.epoch = k]]
  /\ entry' = [entry EXCEPT ![op[k].name] = op[k].entry]
  /\ hist' = [hist EXCEPT ![k] = <<<<k>>>>]
  /\ UNCHANGED <<invitation, locks>>

\* overwriteExistingFileLocked: one new chunk replaces the chain.
overwriteExistingFileLocked(k) ==
  LET o == op[k]
  IN  /\ Committing(k, "Store")
      /\ ~o.fresh
      /\ ~Exhausted(o.meta.version)
      /\ chunk' = [Without(chunk, o.chunks) EXCEPT ![k] = NewChunk(k, o.epoch, 0, 0, <<k>>)]
      /\ metadata' = [metadata EXCEPT ![o.epoch] =
           BaseMetadata(nextMetadataVersion(o.meta.version), k)]
      /\ hist' = [hist EXCEPT ![o.entry.file] = Append(@, <<k>>)]
      /\ UNCHANGED <<entry, box, status, structure, invitation, locks>>

\* AppendToFile's commit: one chunk more, behind the tail that was read.
AppendToFile(k) ==
  LET o == op[k]
  IN  /\ Committing(k, "Append")
      /\ ~Exhausted(o.meta.version)
      /\ chunk' = [chunk EXCEPT ![k] = NewChunk(k, o.epoch, o.meta.count, o.meta.tail, <<k>>)]
      /\ metadata' = [metadata EXCEPT ![o.epoch] =
           [version |-> nextMetadataVersion(o.meta.version), tail |-> k, count |-> o.meta.count + 1]]
      /\ hist' = [hist EXCEPT ![o.entry.file] = Append(@, @[Len(@)] \o <<k>>)]
      /\ UNCHANGED <<entry, box, status, structure, invitation, locks>>

\* buildInvitation: encrypted for the recipient and signed by the sender.
buildInvitation(o, b) == [to |-> o.to, file |-> o.entry.file, box |-> b]

\* CreateInvitation's commit.  An owner writes the recipient's branch box, and
\* the structure if the branch is new; another user passes on the own box.
CreateInvitation(k) ==
  LET o == op[k]
      f == o.entry.file
      b == IF ~o.entry.owner THEN o.entry.box ELSE IF o.boxes[o.to] # 0 THEN o.boxes[o.to] ELSE k
  IN  /\ Committing(k, "Invite")
      /\ IF o.entry.owner
         THEN /\ box' = [box EXCEPT ![b] = [file |-> f, epoch |-> o.epoch]]
              /\ structure' = [structure EXCEPT ![f] =
                   [epoch |-> o.epoch, boxes |-> [o.boxes EXCEPT ![o.to] = b]]]
         ELSE UNCHANGED <<box, structure>>
      /\ invitation' = [invitation EXCEPT ![k] = buildInvitation(o, b)]
      /\ UNCHANGED <<entry, status, metadata, chunk, hist, locks>>

\* AcceptInvitation's commit: the entry, and the invitation is deleted
\* (deleting an object that is already gone is no error).
AcceptInvitation(k) ==
  /\ Committing(k, "Accept")
  /\ entry' = [entry EXCEPT ![op[k].name] = op[k].entry]
  /\ invitation' = Without(invitation, {op[k].inv})
  /\ UNCHANGED <<box, status, structure, metadata, chunk, hist, locks>>

\* Fault: the surviving branches are not moved to the new epoch.
RevokeEveryone(k) ==
  LET o == op[k]
      f == o.entry.file
  IN  /\ Committing(k, "Revoke")
      /\ chunk' = [Without(chunk, o.chunks) EXCEPT ![k] = NewChunk(k, k, 0, 0, o.content)]
      /\ metadata' = [Without(metadata, {o.epoch}) EXCEPT ![k] = BaseMetadata(o.meta.version, k)]
      /\ box' = [box EXCEPT ![o.entry.box] = [file |-> f, epoch |-> k], ![o.boxes[o.to]] = None]
      /\ structure' = [structure EXCEPT ![f] =
                         [epoch |-> k, boxes |-> [o.boxes EXCEPT ![o.to] = 0]]]
      /\ status' = [status EXCEPT ![f] = createFileStatus(box'[o.entry.box])]
      /\ UNCHANGED <<entry, invitation, hist, locks>>

\* survivingWrites, with the owner's box: the boxes that follow the file into
\* its new epoch, as against the branch that is deleted.
survivingBoxes(o) ==
  {o.entry.box} \cup {o.boxes[u] : u \in {u \in User \ {o.to} : o.boxes[u] # 0}}

\* RevokeAccess's commit: the content moves to a new epoch, the owner's and the
\* surviving branch boxes follow it, the revoked branch and the old epoch go.
RevokeAccess(k) ==
  LET o == op[k]
      f == o.entry.file
  IN  /\ Committing(k, "Revoke")
      /\ chunk' = [Without(chunk, o.chunks) EXCEPT ![k] = NewChunk(k, k, 0, 0, o.content)]
      /\ metadata' = [Without(metadata, {o.epoch}) EXCEPT ![k] = BaseMetadata(o.meta.version, k)]
      /\ box' = [b \in Op |-> IF b \in survivingBoxes(o) THEN [file |-> f, epoch |-> k]
                              ELSE IF b = o.boxes[o.to] THEN None ELSE box[b]]
      /\ structure' = [structure EXCEPT ![f] =
                         [epoch |-> k, boxes |-> [o.boxes EXCEPT ![o.to] = 0]]]
      /\ status' = [status EXCEPT ![f] = createFileStatus(box'[o.entry.box])]
      /\ UNCHANGED <<entry, invitation, hist, locks>>

\* Fault: a refused commit returns without ReleaseAll.
CommitFailsHolding(k) ==
  /\ op[k].pc = "commit"
  /\ op' = [op EXCEPT ![k] = [NewOperation EXCEPT !.pc = "done"]]
  /\ UNCHANGED <<store, locks>>

\* The commit is refused (storage.ErrStaleFence), fails, or is not reached, as
\* when the file's version is exhausted: nothing is written.
CommitFails(k) ==
  /\ op[k].pc = "commit"
  /\ Fail(k)
  /\ UNCHANGED <<store, locks>>

\* The deferred guard.ReleaseAll: EndTransaction for what the coordinator still
\* knows the operation to hold.
ReleaseAll(k) ==
  /\ op[k].pc = "return"
  /\ fence' = [r \in Resource |-> IF held[k][r] = "X" /\ fence[r] = k THEN 0 ELSE fence[r]]
  /\ LT!Drop(k, Resource)
  /\ op' = [op EXCEPT ![k] = [NewOperation EXCEPT !.pc = "done"]]
  /\ UNCHANGED <<store, revocations, restarts>>
------------------------------------------------------------------------------
\* The coordinator revokes the lease of a running operation: its fences are
\* invalidated and its locks released; the operation does not notice.
LeaseRevoked(k) ==
  /\ revocations + restarts < MaxFaults
  /\ Running(k)
  /\ \E r \in Resource : held[k][r] # "none"
  /\ revocations' = revocations + 1
  /\ fence' = [r \in Resource |-> IF held[k][r] = "X" /\ fence[r] = k THEN 0 ELSE fence[r]]
  /\ LT!Drop(k, Resource)
  /\ op' = [op EXCEPT ![k].revoked = TRUE]
  /\ UNCHANGED <<store, restarts>>

\* The coordinator restarts: every lock is forgotten, the fences last.  (When no
\* lock is held a restart changes nothing.)
CoordinatorRestart ==
  /\ revocations + restarts < MaxFaults
  /\ \E k \in Op, r \in Resource : held[k][r] # "none"
  /\ restarts' = restarts + 1
  /\ held' = [k \in Op |-> [r \in Resource |-> "none"]]
  /\ UNCHANGED <<store, fence, revocations, op>>
------------------------------------------------------------------------------
Step(k) ==
  \/ LockNamespace(k) \/ ReadNamespace(k) \/ LockFile(k)
  \/ ValidateAccess(k) \/ LoadStructure(k) \/ LoadMetadata(k) \/ ReadFileMetadata(k)
  \/ LoadContent(k) \/ storeNewFileLocked(k) \/ overwriteExistingFileLocked(k) \/ AppendToFile(k)
  \/ CreateInvitation(k) \/ AcceptInvitation(k) \/ RevokeAccess(k)
  \/ CommitFails(k) \/ ReleaseAll(k)

Next ==
  \/ \E k \in Op :
       Begin(k) \/ Step(k) \/ AcquireFails(k) \/ LeaseRevoked(k)
  \/ CoordinatorRestart

Spec == Init /\ [][Next]_vars
------------------------------------------------------------------------------
\* Every file is readable and is what its updates made it, one after the
\* other: its status names an epoch with metadata, whose version counts the
\* updates and whose chunk chain passes every check of a reader.
ContentIntact ==
  \A f \in Op :
    status[f] # 0 =>
      LET m == metadata[status[f]]
      IN  /\ m # None
          /\ m.version = Len(hist[f])
          /\ ChainOK(f, status[f], m)
          /\ ContentOf(m) = hist[f][m.version]

\* Nothing a file no longer uses is left in the store: overwriting and revoking
\* delete exactly the chunks and the metadata they replace.
NoGarbage ==
  LET live == {status[f] : f \in Op} \ {0}
  IN  /\ {e \in Op : metadata[e] # None} = live
      /\ {c \in Op : chunk[c] # None} = UNION {ChunksOf(metadata[e]) : e \in live}

\* Revocation cuts off exactly the revoked branch: whoever holds a name or an
\* invitation for a file can open it just when they are its owner or their
\* branch is still in the owner's structure, whatever was shared onwards.
AccessExact ==
  LET capabilities == {entry[n] : n \in {n \in Name : entry[n] # None}}
        \cup {[owner |-> FALSE, file |-> invitation[i].file, box |-> invitation[i].box, via |-> i] :
                i \in {i \in Op : invitation[i] # None}}
  IN  \A e \in capabilities :
        Accessible(e) <=> (e.owner \/ \E u \in User : structure[e.file].boxes[u] = e.box)

\* The owner's books are in order (CheckAuthorizationInvariantsForBenchmark):
\* the structure is of the current epoch, and every branch it lists opens it.
BranchesCurrent ==
  \A f \in Op :
    status[f] # 0 =>
      /\ structure[f].epoch = status[f]
      /\ \A u \in User : structure[f].boxes[u] # 0 => box[structure[f].boxes[u]] =
                                                       [file |-> f, epoch |-> status[f]]

\* A load returns one version of the file, whole, the one whose metadata it
\* read, and ReadFileMetadata that version's number; neither is older than what
\* the file had when the reader locked it, even if it lost its locks meanwhile.
LoadSerial ==
  \A k \in Op :
    op[k].pc = "return" /\ op[k].kind \in {"Load", "ReadMetadata"} /\ op[k].meta # None =>
      LET versions == hist[op[k].entry.file]
          v == op[k].meta.version
      IN  /\ v \in op[k].since..Len(versions)
          /\ op[k].content # <<>> => op[k].content = versions[v]

\* An accepted share works: RevokeAccess cannot commit between the validation
\* of an invitation and the installation of its entry (client.go 3481-3483),
\* not even when one of the two loses its lease.  A coordinator restart lets it:
\* the acceptance's lock of the file is a shared one, which no fence guards.
Works(n) == entry[n] # None /\ Accessible(entry[n])

AcceptInstallsAccess ==
  [][\A n \in Name : restarts = 0 /\ entry[n] = None /\ entry'[n] # None => Works(n)']_vars

\* Operations never all wait: as long as some run, one of them can go on, since
\* all lock a name before a file, hold at most one of each, and give back on
\* every path what they hold.  An operation has finitely many steps.
Blocked(k) ==
  /\ ~op[k].revoked
  /\ \/ op[k].pc = "namespace" /\ ~LT!Compatible(op[k].name, NamespaceMode(op[k].kind))
     \/ op[k].pc = "file" /\ ~LT!Compatible(op[k].entry.file, FileMode(op[k].kind))

NoCircularWait ==
  (\E k \in Op : Running(k)) => \E k \in Op : Running(k) /\ ~Blocked(k)
==============================================================================
