---------------------------- MODULE LoadGenerator ----------------------------
(****************************************************************************)
(* The load generator and its correctness oracle: runWorkloadClient,        *)
(* runOne and checkOracles of cmd/loadgen/workload.go, and the exit status  *)
(* of main.go.                                                              *)
(*                                                                          *)
(* The worker service appears as what a caller can see of it: a file grows  *)
(* by one chunk per append, a call may fail or time out whether or not it   *)
(* took effect, and a call given up on may still take effect later.  It may *)
(* also be the broken service the oracle is there for: an append that       *)
(* reports success and leaves no bytes, a read that returns other content.  *)
(****************************************************************************)
EXTENDS Integers

CONSTANTS Concurrency,  \* callers
          Users,        \* users of a run that does not share one
          Count,        \* operations to perform, when the run is not timed
          MaxCalls,     \* bound on the calls of a timed run
          MaxWrongs     \* bound on what a broken service does wrong

ASSUME SizeAssumption ==
  {Concurrency, Users, Count} \subseteq Nat \ {0} /\ {MaxCalls, MaxWrongs} \subseteq Nat

VARIABLES
  workload,    \* cfg.Workload
  timed,       \* cfg.Duration > 0
  phase,       \* of runWorkloadClient, and how main exits
  expired,     \* the deadline of a timed run has passed
  remaining,   \* the shared counter of operations left
  caller,      \* the caller goroutines
  attempted, succeeded, failed,
  latencies,   \* how many samples have been merged
  appends,     \* appends[u]: successfulAppends
  ready,       \* users setup is through with
  oracle,      \* users whose file checkOracles found wrong
  unverified,  \* users whose file it could not read
  checked,     \* users it is through with
  \* the service
  file,        \* file[u]: length in chunks
  late,        \* late[u]: appends given up on that may still land
  ghosts,      \* ghosts[u]: appends that landed and were reported as failed
  lost,        \* lost[u]: appends reported as done that left no bytes
  misread,     \* a read returned other content than the file's
  wrongs       \* how often the service has done wrong

counters == <<attempted, succeeded, failed, latencies, appends>>
verdicts == <<oracle, unverified, checked>>
service == <<file, late, ghosts, lost, misread, wrongs>>
config == <<workload, timed>>
vars == <<config, phase, expired, remaining, caller, counters, ready, verdicts, service>>

Workload == {"independent-writes", "same-file-writes", "reads", "mixed"}
Phase == {"setup", "running", "checking", "exit 0", "exit 1"}

\* parseConfig: same-file-writes and reads share one user.
users == IF workload \in {"same-file-writes", "reads"} THEN 1 ELSE Users
AnyUser == 0..(Users - 1)
User == 0..(users - 1)
Caller == 0..(Concurrency - 1)
callerUser(c) == c % users

\* A caller: at the head of its loop, in runOne's call, accounting for its
\* result, merging its samples, or after wg.Done.  effect: what its call has
\* done so far; ok: it returned no error; local: its samples.
CallerState ==
  [pc : {"loop", "calling", "accounting", "merging", "done"},
   op : {"none", "append", "load"}, effect : {"none", "right", "wrong"},
   ok : BOOLEAN, local : Nat]
Idle == [pc |-> "loop", op |-> "none", effect |-> "none", ok |-> FALSE, local |-> 0]

TypeOK ==
  /\ workload \in Workload /\ timed \in BOOLEAN /\ expired \in BOOLEAN
  /\ phase \in Phase
  /\ remaining \in -Concurrency..Count
  /\ caller \in [Caller -> CallerState]
  /\ {attempted, succeeded, failed, latencies, wrongs} \subseteq Nat
  /\ \A f \in {appends, file, late, ghosts, lost} : f \in [AnyUser -> Nat]
  /\ misread \in BOOLEAN
  /\ ready \cup oracle \cup unverified \cup checked \subseteq User

Zero == [u \in AnyUser |-> 0]

Init ==
  /\ workload \in Workload /\ timed \in BOOLEAN
  /\ phase = "setup" /\ expired = FALSE
  /\ remaining = IF timed THEN 0 ELSE Count
  /\ caller = [c \in Caller |-> Idle]
  /\ attempted = 0 /\ succeeded = 0 /\ failed = 0 /\ latencies = 0
  /\ appends = Zero /\ file = Zero /\ late = Zero /\ ghosts = Zero /\ lost = Zero
  /\ ready = {} /\ oracle = {} /\ unverified = {} /\ checked = {}
  /\ misread = FALSE /\ wrongs = 0

Plus(f, u) == [f EXCEPT ![u] = @ + 1]
Set(c, s) == caller' = [caller EXCEPT ![c] = s]
------------------------------------------------------------------------------
\* setup: InitUser and StoreFile for one user after the other ...
setup ==
  /\ phase = "setup"
  /\ IF ready = User
     THEN phase' = "running" /\ UNCHANGED <<ready, file>>
     ELSE LET u == CHOOSE v \in User : v \notin ready /\ \A w \in User : w < v => w \in ready
          IN  ready' = ready \cup {u} /\ file' = Plus(file, u) /\ UNCHANGED phase
  /\ UNCHANGED <<config, expired, remaining, caller, counters, verdicts,
                 late, ghosts, lost, misread, wrongs>>

\* ... any of which may fail, and ends the run.
SetupFails ==
  /\ phase = "setup" /\ ready # User
  /\ phase' = "exit 1"
  /\ UNCHANGED <<config, expired, remaining, caller, counters, ready, verdicts, service>>

\* A timed run's deadline.
Expire ==
  /\ phase = "running" /\ timed /\ ~expired
  /\ expired' = TRUE
  /\ UNCHANGED <<config, phase, remaining, caller, counters, ready, verdicts, service>>

\* The head of the caller's loop: return when the deadline has passed or the
\* counter is used up, else call what the workload says.
NextOperation(c) ==
  /\ phase = "running" /\ caller[c].pc = "loop"
  /\ remaining' = IF timed THEN remaining ELSE remaining - 1
  /\ IF IF timed THEN expired ELSE remaining' < 0
     THEN Set(c, [caller[c] EXCEPT !.pc = "merging"])
     ELSE \E op \in {"append", "load"} :
            /\ workload = "reads" => op = "load"
            /\ workload \in {"independent-writes", "same-file-writes"} => op = "append"
            /\ timed => attempted < MaxCalls
            /\ Set(c, [caller[c] EXCEPT !.pc = "calling", !.op = op])
  /\ UNCHANGED <<config, phase, expired, counters, ready, verdicts, service>>

\* The service does what the call asks, or something else.
Serve(c) ==
  /\ caller[c].pc = "calling" /\ caller[c].effect = "none"
  /\ \/ /\ Set(c, [caller[c] EXCEPT !.effect = "right"])
        /\ file' = IF caller[c].op = "append" THEN Plus(file, callerUser(c)) ELSE file
        /\ UNCHANGED wrongs
     \/ /\ wrongs < MaxWrongs /\ wrongs' = wrongs + 1
        /\ Set(c, [caller[c] EXCEPT !.effect = "wrong"])
        /\ UNCHANGED file
  /\ UNCHANGED <<config, phase, expired, remaining, counters, ready, verdicts,
                 late, ghosts, lost, misread>>

\* Fault: an append is counted whatever the call returned.
ReturnFailedCounting(c) ==
  LET u == callerUser(c)
  IN  /\ caller[c].pc = "calling"
      /\ appends' = IF caller[c].op = "append" THEN Plus(appends, u) ELSE appends
      /\ Set(c, [caller[c] EXCEPT !.pc = "accounting", !.ok = FALSE])
      /\ UNCHANGED <<config, phase, expired, remaining, attempted, succeeded, failed,
                     latencies, ready, verdicts, service>>

\* runOne returns without an error.  A read that is compared with the file's
\* only content is an error when it differs; a mixed run does not look at it.
ReturnOk(c) ==
  LET u == callerUser(c)
      wrong == caller[c].effect = "wrong"
  IN  /\ caller[c].pc = "calling" /\ caller[c].effect # "none"
      /\ IF caller[c].op = "append"
         THEN /\ appends' = Plus(appends, u)
              /\ lost' = IF wrong THEN Plus(lost, u) ELSE lost
              /\ UNCHANGED misread
         ELSE misread' = (misread \/ wrong) /\ UNCHANGED <<appends, lost>>
      /\ Set(c, [caller[c] EXCEPT !.pc = "accounting", !.ok = ~(workload = "reads" /\ wrong)])
      /\ UNCHANGED <<config, phase, expired, remaining, attempted, succeeded, failed,
                     latencies, ready, verdicts, file, late, ghosts, wrongs>>

\* The call fails or times out.  An append that has landed is one nobody
\* counts; one that has not may still land.
ReturnFailed(c) ==
  LET u == callerUser(c)
  IN  /\ caller[c].pc = "calling"
      /\ IF caller[c].op = "append" /\ caller[c].effect = "right"
         THEN ghosts' = Plus(ghosts, u) /\ UNCHANGED late
         ELSE /\ UNCHANGED ghosts
              /\ \/ UNCHANGED late
                 \/ /\ caller[c].op = "append" /\ caller[c].effect = "none"
                    /\ late' = Plus(late, u)
      /\ Set(c, [caller[c] EXCEPT !.pc = "accounting", !.ok = FALSE])
      /\ UNCHANGED <<config, phase, expired, remaining, counters, ready, verdicts,
                     file, lost, misread, wrongs>>

\* attempted, succeeded or failed, and the sample of a success.
Account(c) ==
  LET ok == caller[c].ok
  IN  /\ caller[c].pc = "accounting"
      /\ attempted' = attempted + 1
      /\ succeeded' = succeeded + IF ok THEN 1 ELSE 0
      /\ failed' = failed + IF ok THEN 0 ELSE 1
      /\ Set(c, [Idle EXCEPT !.local = caller[c].local + IF ok THEN 1 ELSE 0])
      /\ UNCHANGED <<config, phase, expired, remaining, latencies, appends, ready, verdicts, service>>

\* The deferred merge, and then wg.Done.
Merge(c) ==
  /\ caller[c].pc = "merging"
  /\ latencies' = latencies + caller[c].local
  /\ Set(c, [caller[c] EXCEPT !.pc = "done"])
  /\ UNCHANGED <<config, phase, expired, remaining, attempted, succeeded, failed, appends,
                 ready, verdicts, service>>

\* An append that was given up on lands after all.
LateAppend(u) ==
  /\ late[u] > 0
  /\ late' = [late EXCEPT ![u] = @ - 1]
  /\ file' = Plus(file, u) /\ ghosts' = Plus(ghosts, u)
  /\ UNCHANGED <<config, phase, expired, remaining, caller, counters, ready, verdicts,
                 lost, misread, wrongs>>
------------------------------------------------------------------------------
\* Fault: the samples are read when every caller has left its loop.
WaitUnmerged ==
  /\ phase = "running" /\ \A c \in Caller : caller[c].pc \in {"merging", "done"}
  /\ phase' = "checking"
  /\ checked' = IF workload = "reads" THEN User ELSE {}
  /\ UNCHANGED <<config, expired, remaining, caller, counters, ready, oracle, unverified, service>>

\* wg.Wait returns and checkOracles begins, which has nothing to do for reads.
Wait ==
  /\ phase = "running" /\ \A c \in Caller : caller[c].pc = "done"
  /\ phase' = "checking"
  /\ checked' = IF workload = "reads" THEN User ELSE {}
  /\ UNCHANGED <<config, expired, remaining, caller, counters, ready, oracle, unverified, service>>

\* checkOracles, for one user: the file is read and its length compared with
\* the initial chunk and one for each successful append, or cannot be read.
checkOracles(u) ==
  /\ phase = "checking" /\ u \notin checked
  /\ checked' = checked \cup {u}
  /\ \/ /\ oracle' = IF file[u] # 1 + appends[u] THEN oracle \cup {u} ELSE oracle
        /\ UNCHANGED unverified
     \/ unverified' = unverified \cup {u} /\ UNCHANGED oracle
  /\ UNCHANGED <<config, phase, expired, remaining, caller, counters, ready, service>>

\* Fault: only wrong data makes the exit status one.
ExitOnData ==
  /\ phase = "checking" /\ checked = User
  /\ phase' = IF oracle # {} THEN "exit 1" ELSE "exit 0"
  /\ UNCHANGED <<config, expired, remaining, caller, counters, ready, verdicts, service>>

\* main's exit status.
Exit ==
  /\ phase = "checking" /\ checked = User
  /\ phase' = IF failed > 0 \/ oracle # {} \/ unverified # {} THEN "exit 1" ELSE "exit 0"
  /\ UNCHANGED <<config, expired, remaining, caller, counters, ready, verdicts, service>>

\* The run is over.
Over == phase \in {"exit 0", "exit 1"} /\ UNCHANGED vars

CallReturns(c) == ReturnOk(c) \/ ReturnFailed(c)
Step(c) == NextOperation(c) \/ Account(c) \/ Merge(c)

Next ==
  \/ setup \/ SetupFails \/ Expire
  \/ \E c \in Caller : Step(c) \/ Serve(c) \/ CallReturns(c)
  \/ \E u \in User : LateAppend(u) \/ checkOracles(u)
  \/ Wait \/ Exit \/ Over

Spec == Init /\ [][Next]_vars
------------------------------------------------------------------------------
\* When the callers are through, the report's numbers are exact, although
\* they share every counter: the operations asked for were attempted, each
\* succeeded or failed, and every success left its one latency sample.
ReportExact ==
  phase \in {"checking", "exit 0"} =>
    /\ ~timed => attempted = Count
    /\ attempted = succeeded + failed
    /\ latencies = succeeded

\* An exit status of zero is a promise about the data: no append that was
\* reported as done is missing, whoever else wrote the file, and the reads of
\* a read-only run returned what was written.
CleanExitMeansIntact ==
  phase = "exit 0" =>
    /\ \A u \in User : lost[u] = 0
    /\ workload = "reads" => ~misread

\* A service that loses nothing is accused only over an append that landed
\* although its call failed: the oracle knows of no others.
AccusedOverGhosts ==
  \A u \in oracle : lost[u] = 0 => ghosts[u] > 0 /\ failed > 0

==============================================================================
