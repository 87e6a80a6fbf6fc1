---------------------------- MODULE WorkerService ----------------------------
(****************************************************************************)
(* One worker replica, cmd/worker: the RPC handlers of service.go and the   *)
(* admission limiter of authlimit.go in front of their key derivation, the  *)
(* readiness loop of health.go, and the shutdown of main.go.                *)
(*                                                                          *)
(* What a SAFER operation does is SaferFiles' and Coordinator's subject;    *)
(* here it is a step that may wait for ever for a lock unless its context   *)
(* is cancelled.                                                            *)
(****************************************************************************)
EXTENDS Integers, FiniteSets

CONSTANTS Rpc,              \* incoming calls
          AuthConcurrency   \* cfg.AuthConcurrency, any integer

ASSUME ConcurrencyAssumption == AuthConcurrency \in Int

VARIABLES
  phase,      \* of the process: "serving", "signalled", "draining", "forced",
              \* "stopped" (GracefulStop has returned), "exited"
  rpc,        \* rpc[c]: [pc, kind]
  cancelled,  \* the calls whose context is done
  sem,        \* slots of the authLimiter that are taken
  healthy,    \* MongoDB and the coordinator are both reachable
  loop,       \* the readiness goroutine: between checks, or about to publish one
  ready       \* the readiness status is SERVING

vars == <<phase, rpc, cancelled, sem, healthy, loop, ready>>
service == <<rpc, cancelled, sem>>
readiness == <<healthy, loop, ready>>

\* A call is handled by InitUser, or by StoreFile, AppendToFile or LoadFile.
Kind == {"init", "file"}

TypeOK ==
  /\ phase \in {"serving", "signalled", "draining", "forced", "stopped", "exited"}
  /\ rpc \in [Rpc -> [pc : {"new", "queued", "auth", "op", "done"}, kind : Kind]]
  /\ cancelled \subseteq Rpc
  /\ sem \in Nat
  /\ healthy \in BOOLEAN
  /\ loop \in {"idle", "up", "down", "exited"}
  /\ ready \in BOOLEAN

\* Both dependencies answered before the listener opened; health.NewServer
\* reports SERVING until it is told otherwise.
Init ==
  /\ phase = "serving"
  /\ rpc \in [Rpc -> [pc : {"new"}, kind : Kind]]
  /\ cancelled = {} /\ sem = 0
  /\ healthy = TRUE /\ loop = "idle" /\ ready = TRUE
------------------------------------------------------------------------------
\* Fault: a limiter for no calls at all.
newAuthLimiterExact(n) == n

newAuthLimiter(n) == IF n <= 0 THEN 1 ELSE n

Goto(c, l) == rpc' = [rpc EXCEPT ![c].pc = l]

\* A call reaches its handler, which rejects one without credentials at once.
Arrive(c) ==
  /\ phase \in {"serving", "signalled"}
  /\ rpc[c].pc = "new"
  /\ Goto(c, "queued") \/ Goto(c, "done")
  /\ UNCHANGED <<phase, cancelled, sem, readiness>>

\* authLimiter.acquire: a slot, or the end of the call's context.
acquire(c) ==
  /\ rpc[c].pc = "queued"
  /\ \/ /\ sem < newAuthLimiter(AuthConcurrency)
        /\ sem' = sem + 1
        /\ Goto(c, "auth")
     \/ /\ c \in cancelled
        /\ Goto(c, "done")
        /\ UNCHANGED sem
  /\ UNCHANGED <<phase, cancelled, readiness>>

\* Fault: a failed authentication keeps its slot.
AuthenticateLeaking(c) ==
  /\ rpc[c].pc = "auth"
  /\ \/ Goto(c, "op") /\ sem' = sem - 1
     \/ Goto(c, "done") /\ UNCHANGED sem
  /\ UNCHANGED <<phase, cancelled, readiness>>

\* The section the slot is for ends and gives the slot back: InitUser with its
\* whole operation, the others with GetUserContext, before theirs.
Authenticate(c) ==
  /\ rpc[c].pc = "auth"
  /\ sem' = sem - 1
  /\ \/ rpc[c].kind = "file" /\ Goto(c, "op")
     \/ Goto(c, "done")
  /\ UNCHANGED <<phase, cancelled, readiness>>

\* The SAFER operation returns.
Operate(c) ==
  /\ rpc[c].pc = "op"
  /\ Goto(c, "done")
  /\ UNCHANGED <<phase, cancelled, sem, readiness>>

\* The caller cancels or its deadline passes.
CallerGone(c) ==
  /\ rpc[c].pc \in {"queued", "auth", "op"}
  /\ c \notin cancelled
  /\ cancelled' = cancelled \cup {c}
  /\ UNCHANGED <<phase, rpc, sem, readiness>>
------------------------------------------------------------------------------
\* A dependency goes away or comes back.
DependencyChanges ==
  /\ healthy' = ~healthy
  /\ UNCHANGED <<phase, service, loop, ready>>

\* startReadinessLoop's check: Ping and Health ...
Check ==
  /\ loop = "idle"
  /\ phase # "exited"
  /\ loop' = IF healthy THEN "up" ELSE "down"
  /\ UNCHANGED <<phase, service, healthy, ready>>

\* Fault: a failed check is only logged.
PublishUp ==
  /\ loop \in {"up", "down"}
  /\ ready' = (ready \/ loop = "up")
  /\ loop' = "idle"
  /\ UNCHANGED <<phase, service, healthy>>

\* ... and SetServingStatus with what they said.
Publish ==
  /\ loop \in {"up", "down"}
  /\ ready' = (loop = "up")
  /\ loop' = "idle"
  /\ UNCHANGED <<phase, service, healthy>>
------------------------------------------------------------------------------
\* SIGTERM: shutdown marks the replica unready first ...
Signal ==
  /\ phase = "serving"
  /\ phase' = "signalled"
  /\ ready' = FALSE
  /\ UNCHANGED <<service, healthy, loop>>

\* ... then GracefulStop accepts no more calls ...
GracefulStop ==
  /\ phase = "signalled"
  /\ phase' = "draining"
  /\ UNCHANGED <<service, readiness>>

\* Fault: the forced stop does not reach the calls in flight.
StopQuietly ==
  /\ phase = "draining"
  /\ phase' = "forced"
  /\ UNCHANGED <<service, readiness>>

\* ... and after ShutdownTimeout grpcServer.Stop cancels those in flight.
Stop ==
  /\ phase = "draining"
  /\ phase' = "forced"
  /\ cancelled' = Rpc
  /\ UNCHANGED <<rpc, sem, readiness>>

\* GracefulStop returns when the handlers have; a failed Serve ends run too.
Stopped ==
  /\ \/ /\ phase \in {"draining", "forced"}
        /\ \A c \in Rpc : rpc[c].pc \in {"new", "done"}
     \/ phase = "serving"
  /\ phase' = "stopped"
  /\ UNCHANGED <<service, readiness>>

\* run's deferred stopReadiness waits for the loop to exit.
stopReadiness ==
  /\ phase = "stopped"
  /\ loop = "idle"
  /\ loop' = "exited"
  /\ phase' = "exited"
  /\ UNCHANGED <<service, healthy, ready>>
------------------------------------------------------------------------------
\* The process's end ends its handlers.
Handle(c) == phase # "exited" /\ (acquire(c) \/ Authenticate(c) \/ Operate(c))

Next ==
  \/ \E c \in Rpc : Arrive(c) \/ Handle(c) \/ CallerGone(c)
  \/ DependencyChanges \/ Check \/ Publish
  \/ Signal \/ GracefulStop \/ Stop \/ Stopped \/ stopReadiness

\* Key derivation takes finite time, a slot that stays free is taken (a channel
\* serves its senders in order, hence SF), a cancelled operation returns, the
\* ticker ticks and timers fire.  An operation that is not cancelled may never
\* return.
Fairness ==
  /\ \A c \in Rpc : /\ SF_vars(phase # "exited" /\ acquire(c))
                    /\ WF_vars(phase # "exited" /\ Authenticate(c))
                    /\ WF_vars(phase # "exited" /\ c \in cancelled /\ Operate(c))
  /\ WF_vars(Check) /\ WF_vars(Publish)
  /\ WF_vars(GracefulStop) /\ WF_vars(Stop) /\ WF_vars(phase # "serving" /\ Stopped)
  /\ SF_vars(stopReadiness)

Spec == Init /\ [][Next]_vars /\ Fairness
------------------------------------------------------------------------------
\* Every slot is accounted for: it is held by a call in its key derivation, on
\* every path out of it the slot comes back, and no more are held than
\* configured.
SlotsAccounted ==
  /\ sem = Cardinality({c \in Rpc : rpc[c].pc = "auth"})
  /\ sem <= IF AuthConcurrency < 1 THEN 1 ELSE AuthConcurrency

\* Every queued call gets a slot or gives up, whatever AuthConcurrency is set
\* to and however earlier calls failed (newAuthLimiter, authLimiter.acquire).
CallAdmitted ==
  \A c \in Rpc : rpc[c].pc = "queued" ~> rpc[c].pc # "queued" \/ phase = "exited"

\* Shutting down ends, even if an operation in flight waits for a lock that is
\* never released (main.go, shutdown).
ShutdownCompletes == phase = "signalled" ~> phase = "exited"

\* A replica whose dependency stays away stops being ready.
OutageNoticed == <>[](~healthy) => <>[](~ready \/ phase = "exited")

\* main.go 178-182: readiness is withdrawn before anything else, so that no new
\* requests are sent to a replica as soon as its termination begins.
UnreadyWhileDraining == phase \in {"signalled", "draining", "forced"} => ~ready
==============================================================================
