------------------------------ MODULE TaskLock ------------------------------
(***************************************************************************)
(* The lock every periodic task of the service takes before it works       *)
(* (utils/tasks.py, only_one_running_task), the timeout that bounds the    *)
(* task (utils/celery.py, task_timeout) and the forced release of the      *)
(* locks when a worker is told to stop.                                    *)
(*                                                                         *)
(* A run is one execution of a task in one worker.  Workers are processes  *)
(* of greenlets: a step below is the code between two Redis round trips.   *)
(* Time is counted in ticks; the clock is kept as the age of every run and *)
(* the remaining life of every key, so that the state space is finite.     *)
(***************************************************************************)
EXTENDS Naturals, FiniteSets

CONSTANTS
  Worker,        \* the celery worker processes
  Run,           \* task executions (a slot is reused by later executions)
  Name,          \* lock names, get_task_lock_name(task.name, suffix)
  NoRun,         \* no run holds the key
  WorkerOf,      \* the worker a run executes in
  NameOf,        \* the lock name a run asks for
  LockTimeout,   \* ticks a key lives in Redis (lock_timeout)
  HardTimeout,   \* ticks a run may last (timeout_seconds of task_timeout)
  MaxShutdowns,  \* bound on the workers told to stop
  MaxCrashes     \* bound on the workers killed

ASSUME WorkerOfType == WorkerOf \in [Run -> Worker]
ASSUME NameOfType == NameOf \in [Run -> Name]
ASSUME NoRunType == NoRun \notin Run
ASSUME TimeoutsType ==
  LockTimeout \in Nat \ {0} /\ HardTimeout \in Nat \ {0}
ASSUME BoundsType == MaxShutdowns \in Nat /\ MaxCrashes \in Nat

VARIABLES
  key,         \* Redis: the run whose token is stored under a name
  ttl,         \* Redis: ticks the key still lives
  phase,       \* where a run is in only_one_running_task
  age,         \* ticks since the run entered task_timeout
  activeLocks, \* ACTIVE_LOCKS of every worker
  stopped,     \* WORKER_STOPPED of every worker
  doomed,      \* names a stopping worker has put in its DELETE command
  evicted,     \* runs whose key a forced release removed while they worked
  shutdowns,   \* workers told to stop so far
  crashes      \* workers killed so far

lockVars == <<key, ttl, phase, age, activeLocks, stopped, doomed, evicted,
          shutdowns, crashes>>

(* A run acquires, works and releases; "unwinding" is a release after the  *)
(* timer of the run has fired.                                             *)
Phases == {"idle", "acquiring", "granted", "running", "leaving", "unwinding"}

(* The timer of task_timeout is armed.                                     *)
Timed(r) == phase[r] \in {"acquiring", "granted", "running", "leaving"}

(* The run executes the body of the with statement.                        *)
Working(r) == phase[r] = "running"

RunsOf(w) == {r \in Run : WorkerOf[r] = w}

LockTypeOK ==
  /\ key \in [Name -> Run \cup {NoRun}]
  /\ ttl \in [Name -> 0 .. LockTimeout]
  /\ phase \in [Run -> Phases]
  /\ age \in [Run -> 0 .. HardTimeout]
  /\ activeLocks \in [Worker -> SUBSET Name]
  /\ stopped \in [Worker -> BOOLEAN]
  /\ doomed \in [Worker -> SUBSET Name]
  /\ evicted \in SUBSET Run
  /\ shutdowns \in 0 .. MaxShutdowns
  /\ crashes \in 0 .. MaxCrashes

LockInit ==
  /\ key = [n \in Name |-> NoRun]
  /\ ttl = [n \in Name |-> 0]
  /\ phase = [r \in Run |-> "idle"]
  /\ age = [r \in Run |-> 0]
  /\ activeLocks = [w \in Worker |-> {}]
  /\ stopped = [w \in Worker |-> FALSE]
  /\ doomed = [w \in Worker |-> {}]
  /\ evicted = {}
  /\ shutdowns = 0
  /\ crashes = 0

-----------------------------------------------------------------------------
(* The task is delivered: task_timeout starts its timer, the stop flag is  *)
(* read and the SET NX command is sent.  A stopping worker raises.         *)
Enter(r) ==
  /\ phase[r] = "idle"
  /\ ~stopped[WorkerOf[r]]
  /\ phase' = [phase EXCEPT ![r] = "acquiring"]
  /\ UNCHANGED <<key, ttl, age, activeLocks, stopped, doomed, evicted, shutdowns,
                 crashes>>

(* Redis executes SET NX PX for a free name.                               *)
Grant(r) ==
  LET n == NameOf[r] IN
  /\ phase[r] = "acquiring"
  /\ key[n] = NoRun
  /\ key' = [key EXCEPT ![n] = r]
  /\ ttl' = [ttl EXCEPT ![n] = LockTimeout]
  /\ phase' = [phase EXCEPT ![r] = "granted"]
  /\ UNCHANGED <<age, activeLocks, stopped, doomed, evicted, shutdowns,
                 crashes>>

(* The name is taken: LockError, which every task suppresses.              *)
Deny(r) ==
  /\ phase[r] = "acquiring"
  /\ key[NameOf[r]] # NoRun
  /\ phase' = [phase EXCEPT ![r] = "idle"]
  /\ age' = [age EXCEPT ![r] = 0]
  /\ UNCHANGED <<key, ttl, activeLocks, stopped, doomed, evicted, shutdowns,
                 crashes>>

(* The greenlet resumes with the lock and yields to the body of the task.  *)
Begin(r) ==
  LET w == WorkerOf[r] IN
  /\ phase[r] = "granted"
  /\ phase' = [phase EXCEPT ![r] = "running"]
  /\ activeLocks' = [activeLocks EXCEPT ![w] = @ \cup {NameOf[r]}]
  /\ UNCHANGED <<key, ttl, age, stopped, doomed, evicted, shutdowns, crashes>>

(* The body returns: the name leaves ACTIVE_LOCKS (a KeyError when another *)
(* run of the worker took it out leads to the same release).               *)
Return(r) ==
  LET w == WorkerOf[r] IN
  /\ phase[r] = "running"
  /\ phase' = [phase EXCEPT ![r] = "leaving"]
  /\ activeLocks' = [activeLocks EXCEPT ![w] = @ \ {NameOf[r]}]
  /\ evicted' = evicted \ {r}
  /\ UNCHANGED <<key, ttl, age, stopped, doomed, shutdowns, crashes>>

(* The body raises: there is no try/finally around the yield, so the name  *)
(* stays in ACTIVE_LOCKS.                                                  *)
Fail(r) ==
  /\ phase[r] = "running"
  /\ phase' = [phase EXCEPT ![r] = "leaving"]
  /\ evicted' = evicted \ {r}
  /\ UNCHANGED <<key, ttl, age, activeLocks, stopped, doomed, shutdowns,
                 crashes>>

(* The timer fires in the body: gevent raises Timeout there.               *)
Interrupt(r) ==
  /\ phase[r] = "running"
  /\ age[r] = HardTimeout
  /\ phase' = [phase EXCEPT ![r] = "unwinding"]
  /\ age' = [age EXCEPT ![r] = 0]
  /\ evicted' = evicted \ {r}
  /\ UNCHANGED <<key, ttl, activeLocks, stopped, doomed, shutdowns, crashes>>

(* The timer fires while the run waits for Redis: a key that Redis has set *)
(* is left to expire.                                                      *)
InterruptOnRedis(r) ==
  /\ phase[r] \in {"acquiring", "granted", "leaving"}
  /\ age[r] = HardTimeout
  /\ phase' = [phase EXCEPT ![r] = "idle"]
  /\ age' = [age EXCEPT ![r] = 0]
  /\ evicted' = evicted \ {r}
  /\ UNCHANGED <<key, ttl, activeLocks, stopped, doomed, shutdowns, crashes>>

(* Mutation of Release: the name leaves ACTIVE_LOCKS with the release, as a *)
(* finally clause around the lock would do it.                             *)
ReleaseForgettingName(r) ==
  LET n == NameOf[r] IN
  /\ phase[r] \in {"leaving", "unwinding"}
  /\ key' = [key EXCEPT ![n] = IF @ = r THEN NoRun ELSE @]
  /\ ttl' = [ttl EXCEPT ![n] = IF key[n] = r THEN 0 ELSE @]
  /\ phase' = [phase EXCEPT ![r] = "idle"]
  /\ age' = [age EXCEPT ![r] = 0]
  /\ activeLocks' = [activeLocks EXCEPT ![WorkerOf[r]] = @ \ {n}]
  /\ UNCHANGED <<stopped, doomed, evicted, shutdowns, crashes>>

(* Mutation of Release: the key is deleted whoever holds it.               *)
ReleaseByName(r) ==
  LET n == NameOf[r] IN
  /\ phase[r] \in {"leaving", "unwinding"}
  /\ key' = [key EXCEPT ![n] = NoRun]
  /\ ttl' = [ttl EXCEPT ![n] = 0]
  /\ phase' = [phase EXCEPT ![r] = "idle"]
  /\ age' = [age EXCEPT ![r] = 0]
  /\ UNCHANGED <<activeLocks, stopped, doomed, evicted, shutdowns, crashes>>

(* Lock.__exit__: the script deletes the key only under the run's token.   *)
Release(r) ==
  LET n == NameOf[r] IN
  /\ phase[r] \in {"leaving", "unwinding"}
  /\ key' = [key EXCEPT ![n] = IF @ = r THEN NoRun ELSE @]
  /\ ttl' = [ttl EXCEPT ![n] = IF key[n] = r THEN 0 ELSE @]
  /\ phase' = [phase EXCEPT ![r] = "idle"]
  /\ age' = [age EXCEPT ![r] = 0]
  /\ UNCHANGED <<activeLocks, stopped, doomed, evicted, shutdowns, crashes>>

-----------------------------------------------------------------------------
(* worker_shutting_down: the greenlet it spawns sets the flag and sends    *)
(* one DELETE with every name of ACTIVE_LOCKS.                             *)
ShutDown(w) ==
  /\ ~stopped[w]
  /\ shutdowns < MaxShutdowns
  /\ shutdowns' = shutdowns + 1
  /\ stopped' = [stopped EXCEPT ![w] = TRUE]
  /\ doomed' = [doomed EXCEPT ![w] = activeLocks[w]]
  /\ UNCHANGED <<key, ttl, phase, age, activeLocks, evicted, crashes>>

(* Redis executes the DELETE: by name, whoever holds the key by now.       *)
ForceRelease(w) ==
  /\ doomed[w] # {}
  /\ key' = [n \in Name |-> IF n \in doomed[w] THEN NoRun ELSE key[n]]
  /\ ttl' = [n \in Name |-> IF n \in doomed[w] THEN 0 ELSE ttl[n]]
  /\ evicted' = evicted \cup
       {r \in Run : phase[r] \in {"granted", "running"}
                      /\ NameOf[r] \in doomed[w] /\ key[NameOf[r]] = r}
  /\ doomed' = [doomed EXCEPT ![w] = {}]
  /\ UNCHANGED <<phase, age, activeLocks, stopped, shutdowns, crashes>>

(* A stopped worker ends once its runs have ended; a new one takes over.   *)
Restart(w) ==
  /\ stopped[w]
  /\ doomed[w] = {}
  /\ \A r \in RunsOf(w) : phase[r] = "idle"
  /\ stopped' = [stopped EXCEPT ![w] = FALSE]
  /\ activeLocks' = [activeLocks EXCEPT ![w] = {}]
  /\ UNCHANGED <<key, ttl, phase, age, doomed, evicted, shutdowns, crashes>>

(* The process is killed: its runs and its memory are gone, its keys stay. *)
Crash(w) ==
  /\ crashes < MaxCrashes
  /\ crashes' = crashes + 1
  /\ phase' = [r \in Run |-> IF r \in RunsOf(w) THEN "idle" ELSE phase[r]]
  /\ age' = [r \in Run |-> IF r \in RunsOf(w) THEN 0 ELSE age[r]]
  /\ evicted' = evicted \ RunsOf(w)
  /\ stopped' = [stopped EXCEPT ![w] = FALSE]
  /\ activeLocks' = [activeLocks EXCEPT ![w] = {}]
  /\ doomed' = [doomed EXCEPT ![w] = {}]
  /\ UNCHANGED <<key, ttl, shutdowns>>

(* Mutation of Tick: the timer of a run never fires in time.               *)
TickPastTimer ==
  /\ \/ \E r \in Run : Timed(r)
     \/ \E n \in Name : key[n] # NoRun
  /\ age' = [r \in Run |-> IF Timed(r) THEN age[r] + 1 ELSE age[r]]
  /\ key' = [n \in Name |-> IF ttl[n] = 0 THEN NoRun ELSE key[n]]
  /\ ttl' = [n \in Name |-> IF ttl[n] = 0 THEN 0 ELSE ttl[n] - 1]
  /\ UNCHANGED <<phase, activeLocks, stopped, doomed, evicted, shutdowns,
                 crashes>>

(* Mutation of Tick: the lock is taken without a life time.                *)
TickWithoutExpiry ==
  /\ \A r \in Run : Timed(r) => age[r] < HardTimeout
  /\ \E r \in Run : Timed(r)
  /\ age' = [r \in Run |-> IF Timed(r) THEN age[r] + 1 ELSE age[r]]
  /\ UNCHANGED <<key, ttl, phase, activeLocks, stopped, doomed, evicted,
                 shutdowns, crashes>>

(* Time passes.  The timer of a run interrupts it at its hard limit, so    *)
(* the clock does not go past it; a key with no life left is dropped.      *)
Tick ==
  /\ \A r \in Run : Timed(r) => age[r] < HardTimeout
  /\ \/ \E r \in Run : Timed(r)
     \/ \E n \in Name : key[n] # NoRun
  /\ age' = [r \in Run |-> IF Timed(r) THEN age[r] + 1 ELSE age[r]]
  /\ key' = [n \in Name |-> IF ttl[n] = 0 THEN NoRun ELSE key[n]]
  /\ ttl' = [n \in Name |-> IF ttl[n] = 0 THEN 0 ELSE ttl[n] - 1]
  /\ UNCHANGED <<phase, activeLocks, stopped, doomed, evicted, shutdowns,
                 crashes>>

LockNext ==
  \/ \E r \in Run :
       \/ Enter(r) \/ Grant(r) \/ Deny(r) \/ Begin(r) \/ Return(r)
       \/ Fail(r) \/ Interrupt(r) \/ InterruptOnRedis(r) \/ Release(r)
  \/ \E w \in Worker :
       ShutDown(w) \/ ForceRelease(w) \/ Restart(w) \/ Crash(w)
  \/ Tick

LockSpec == LockInit /\ [][LockNext]_lockVars

(* Redis answers, greenlets resume, timers fire and time passes; nothing   *)
(* obliges a task to be delivered, a body to return or a worker to stop.   *)
LockFairness ==
  /\ WF_lockVars(Tick)
  /\ \A r \in Run : /\ WF_lockVars(Grant(r) \/ Deny(r))
                    /\ WF_lockVars(Begin(r))
                    /\ WF_lockVars(Release(r))
                    /\ WF_lockVars(Interrupt(r))
                    /\ WF_lockVars(InterruptOnRedis(r))

LockFairSpec == LockSpec /\ LockFairness

-----------------------------------------------------------------------------
(* only_one_running_task, "Ensures one running task at the same": no two   *)
(* runs that ask for the same name execute their bodies together.          *)
OneRunningTask ==
  \A r, s \in Run :
    Working(r) /\ Working(s) /\ NameOf[r] = NameOf[s] => r = s

(* The same, leaving aside the runs a forced release has taken the lock    *)
(* from: expiry, exceptions, late releases and kills never let two bodies  *)
(* overlap.  It takes a hard limit no longer than the life of the key.     *)
OverlapNeedsEviction ==
  \A r, s \in Run :
    /\ Working(r) /\ Working(s) /\ NameOf[r] = NameOf[s] /\ r # s
    => r \in evicted \/ s \in evicted

(* The first worker to stop has every task it runs in ACTIVE_LOCKS, so     *)
(* that stopping it frees them (release_locks_on_worker_shutdown): runs    *)
(* that come after a failed, expired or killed one take no name away.      *)
ShutdownSeesRunningTasks ==
  shutdowns = 0 =>
    \A r \in Run : Working(r) => NameOf[r] \in activeLocks[WorkerOf[r]]

(* ACTIVE_LOCKS, "Active redis locks, release them when worker stops": the *)
(* forced release of a worker takes no lock from a task another one runs.  *)
ForceReleaseOwnLocksOnly ==
  [][\A w \in Worker, r \in Run :
       doomed[w] # {} /\ doomed'[w] = {} /\ Working(r) /\ r \in evicted' \ evicted
       => WorkerOf[r] = w]_lockVars

(* No key outlives its purpose: whoever a key was stored for, finished,    *)
(* failed, interrupted or killed, the name is given up in the end.         *)
KeysAreGivenUp ==
  \A r \in Run : (key[NameOf[r]] = r) ~> (key[NameOf[r]] # r)
=============================================================================
