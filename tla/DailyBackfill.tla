---------------------------- MODULE DailyBackfill ----------------------------
(***************************************************************************)
(* The backfill of daily metrics over Celery (analytics/tasks_shards.py)   *)
(* and the stage of the bootstrap that drives it (bootstrap/daily.py).     *)
(*                                                                         *)
(* A run is a manifest in Redis, a list of chunks of days.  A chunk is a   *)
(* chord, one shard per day, whose callback records the chunk in the       *)
(* manifest and dispatches the next one.  A cursor names the newest run.   *)
(* The tick of the bootstrap supersedes a run that looks stalled and       *)
(* starts another over the days still missing; the management command      *)
(* starts a run of its own at any time.  Nothing locks the manifest: each  *)
(* writer loads it, changes its copy and stores it.                        *)
(***************************************************************************)
EXTENDS Integers, Sequences, Functions, FiniteSetsExt

CONSTANTS
  Days,       \* the days of the window
  ChunkDays,  \* days in a chunk
  Ranges,     \* the ranges the management command may be given
  MaxRuns,    \* bound on the manifests
  MaxFaults,  \* bound on the steps that fail and the tasks that are killed
  MaxDelays   \* bound on the grace periods that pass over live work

ASSUME BackfillType ==
  /\ Days \subseteq Nat /\ IsFiniteSet(Days) /\ ChunkDays \in Nat \ {0}
  /\ Ranges \subseteq (SUBSET Days) \ {{}}
  /\ MaxRuns \in Nat /\ MaxFaults \in Nat /\ MaxDelays \in Nat

VARIABLES
  completed,  \* days whose DailyMetric has completed_at
  runs,       \* the manifests, by run
  cursor,     \* BACKFILL_CURSOR_KEY, the newest run (0: none)
  chord,      \* the last chord dispatched for a run
  lease,      \* the days a run holds leases for
  clock,      \* a heartbeat exists; the newest activity is within the grace
  callback,   \* the chord callback of a run, with its copy of the manifest
  starter,    \* start_or_resume of the tick, and the command
  faults, delays, \* counters for the bounds
  late        \* chunks a run handed off while the cursor named another one

workVars == <<chord, lease, clock>>
boundVars == <<faults, delays>>
vars == <<completed, runs, cursor, workVars, callback, starter, boundVars,
          late>>

Run == 1 .. MaxRuns
NoChord == [chunk |-> 0, shard |-> [d \in {} |-> "queued"]]
NoCallback == [at |-> "idle"]
Ended == [at |-> "ended"]
NoStarter == [at |-> "idle"]

(* Mutation of ChunkCount: the range goes one step too far.                *)
ChunkCountPlusOne(n) == n \div ChunkDays + 1

ChunkCount(n) == (n + ChunkDays - 1) \div ChunkDays

(* build_backfill_run: the days in order, in chunks of ChunkDays.          *)
Before(days, d) == Cardinality({e \in days : e < d})
BuildRun(days) ==
  LET chunks == ChunkCount(Cardinality(days))
  IN [days |-> [i \in 1 .. chunks |->
         {d \in days : Before(days, d) \in
                         (i - 1) * ChunkDays .. i * ChunkDays - 1}],
      state |-> [i \in 1 .. chunks |-> "pending"],
      finished |-> FALSE, superseded |-> FALSE]

OwnDays(m) == UNION Range(m.days)

TypeOK ==
  /\ completed \subseteq Days
  /\ Len(runs) <= MaxRuns /\ cursor \in 0 .. Len(runs)
  /\ \A r \in DOMAIN runs :
       /\ OwnDays(runs[r]) \subseteq Days /\ {} \notin Range(runs[r].days)
       /\ Range(runs[r].state) \subseteq
            {"pending", "running", "done", "dispatch_failed"}
       /\ chord[r].chunk \in 0 .. Len(runs[r].days)
       /\ Range(chord[r].shard) \subseteq
            {"queued", "running", "returned", "lost"}
       /\ lease[r] \subseteq Days
  /\ \A r \in Run : callback[r].at \in {"idle", "loaded", "read", "ended"}
  /\ \A p \in {"tick", "command"} : starter[p].at \in
       {"idle", "stalled", "loaded", "select", "point", "dispatch"}
  /\ faults \in 0 .. MaxFaults /\ delays \in 0 .. MaxDelays

Init ==
  /\ completed = {} /\ runs = <<>> /\ cursor = 0
  /\ chord = [r \in Run |-> NoChord]
  /\ lease = [r \in Run |-> {}]
  /\ clock = [r \in Run |-> [beat |-> FALSE, fresh |-> FALSE]]
  /\ callback = [r \in Run |-> NoCallback]
  /\ starter = [p \in {"tick", "command"} |-> NoStarter]
  /\ faults = 0 /\ delays = 0 /\ late = [r \in Run |-> 0]

Fault == faults < MaxFaults /\ faults' = faults + 1

-----------------------------------------------------------------------------
(***************************************************************************)
(* The shards.                                                             *)
(***************************************************************************)
Shard(r, d) == IF d \in DOMAIN chord[r].shard THEN chord[r].shard[d]
               ELSE "none"

(* Both the start and the end of a shard write the heartbeat.              *)
Beat(r) == [clock EXCEPT ![r] = [beat |-> TRUE, fresh |-> TRUE]]

(* The lease is taken; compute_day withdraws the marks of the day, unless  *)
(* its gate defers it.                                                     *)
StartShard(r, d) ==
  /\ Shard(r, d) = "queued"
  /\ chord' = [chord EXCEPT ![r].shard[d] = "running"]
  /\ lease' = [lease EXCEPT ![r] = @ \cup {d}]
  /\ clock' = Beat(r)
  /\ completed' = completed \ {d}
  /\ UNCHANGED <<runs, cursor, callback, starter, boundVars, late>>

ShardSucceeds(r, d) ==
  /\ Shard(r, d) = "running"
  /\ chord' = [chord EXCEPT ![r].shard[d] = "returned"]
  /\ lease' = [lease EXCEPT ![r] = @ \ {d}]
  /\ clock' = Beat(r)
  /\ completed' = completed \cup {d}
  /\ UNCHANGED <<runs, cursor, callback, starter, boundVars, late>>

(* It defers the day, fails or runs into the time limit: its finally       *)
(* releases the lease and the chord gets a result all the same.            *)
ShardFails(r, d) ==
  /\ Shard(r, d) = "running" /\ Fault
  /\ chord' = [chord EXCEPT ![r].shard[d] = "returned"]
  /\ lease' = [lease EXCEPT ![r] = @ \ {d}]
  /\ clock' = Beat(r)
  /\ UNCHANGED <<completed, runs, cursor, callback, starter, delays, late>>

(* The worker is killed with it: the lease stays, and the chord waits for  *)
(* a result that never comes.                                              *)
ShardKilled(r, d) ==
  /\ Shard(r, d) = "running" /\ Fault
  /\ chord' = [chord EXCEPT ![r].shard[d] = "lost"]
  /\ UNCHANGED <<completed, runs, cursor, lease, clock, callback, starter,
                 delays, late>>

(* The score of a lease lies after the hard time limit of its shard.       *)
LeaseExpires(r, d) ==
  /\ d \in lease[r] /\ Shard(r, d) # "running"
  /\ lease' = [lease EXCEPT ![r] = @ \ {d}]
  /\ UNCHANGED <<completed, runs, cursor, chord, clock, callback, starter,
                 boundVars, late>>

(* Nothing of the run is queued, runs or is about to be dispatched.        *)
Dead(r) ==
  /\ "queued" \notin Range(chord[r].shard)
  /\ "running" \notin Range(chord[r].shard)
  /\ callback[r].at = "ended" \/ chord[r].chunk = 0
       \/ "lost" \in Range(chord[r].shard)
  /\ \A p \in {"tick", "command"} :
       starter[p].at \in {"point", "dispatch"} => starter[p].id # r

(* DAILY_BACKFILL_STALE_SECONDS go by without a heartbeat.                 *)
GracePasses(r) ==
  /\ clock[r].fresh
  /\ clock' = [clock EXCEPT ![r].fresh = FALSE]
  /\ IF Dead(r) THEN UNCHANGED delays
     ELSE delays < MaxDelays /\ delays' = delays + 1
  /\ UNCHANGED <<completed, runs, cursor, chord, lease, callback, starter,
                 faults, late>>

-----------------------------------------------------------------------------
(***************************************************************************)
(* _dispatch_backfill_chunk and backfill_done.                             *)
(***************************************************************************)
Running(m, i) == [m EXCEPT !.state[i] = "running"]

NewChord(m, i) == [chunk |-> i, shard |-> [d \in m.days[i] |-> "queued"]]

(* _run_reference_age_seconds: once there is a heartbeat, the time of a    *)
(* dispatch does not count.                                                *)
Dispatched(r) ==
  [clock EXCEPT ![r].fresh = IF clock[r].beat THEN @ ELSE TRUE]

(* backfill_done once every shard has returned: the copy of the manifest   *)
(* with this chunk done.                                                   *)
LoadManifest(r) ==
  /\ callback[r].at = "idle" /\ chord[r].chunk > 0
  /\ \A d \in DOMAIN chord[r].shard : chord[r].shard[d] = "returned"
  /\ callback' = [callback EXCEPT ![r] =
       [at |-> "loaded",
        run |-> [runs[r] EXCEPT !.state[chord[r].chunk] = "done"]]]
  /\ UNCHANGED <<completed, runs, cursor, workVars, starter, boundVars,
                 late>>

(* The last chunk closes the run.                                          *)
FinishRun(r) ==
  /\ callback[r].at = "loaded" /\ chord[r].chunk = Len(runs[r].days)
  /\ runs' = [runs EXCEPT ![r] = [callback[r].run EXCEPT !.finished = TRUE]]
  /\ callback' = [callback EXCEPT ![r] = Ended]
  /\ UNCHANGED <<completed, cursor, workVars, starter, boundVars, late>>

ReadPointer(r) ==
  /\ callback[r].at = "loaded" /\ chord[r].chunk < Len(runs[r].days)
  /\ callback' = [callback EXCEPT ![r] =
       [at |-> "read", run |-> @.run, latest |-> cursor]]
  /\ UNCHANGED <<completed, runs, cursor, workVars, starter, boundVars,
                 late>>

(* Mutation of MayHandOff: the cursor is not compared.                     *)
NotSuperseded(r, c) == ~c.run.superseded

MayHandOff(r, c) == ~c.run.superseded /\ c.latest \in {0, r}

(* The next chunk is dispatched.                                           *)
HandOff(r) ==
  /\ callback[r].at = "read" /\ MayHandOff(r, callback[r])
  /\ LET next == chord[r].chunk + 1  m == callback[r].run IN
       /\ runs' = [runs EXCEPT ![r] = Running(m, next)]
       /\ chord' = [chord EXCEPT ![r] = NewChord(m, next)]
  /\ clock' = Dispatched(r)
  /\ callback' = [callback EXCEPT ![r] = NoCallback]
  /\ late' = [late EXCEPT ![r] = IF cursor # r THEN Min({2, @ + 1}) ELSE @]
  /\ UNCHANGED <<completed, cursor, lease, starter, boundVars>>

(* The run is no longer the current one.                                   *)
Refuse(r) ==
  /\ callback[r].at = "read" /\ ~MayHandOff(r, callback[r])
  /\ runs' = [runs EXCEPT ![r] = [callback[r].run EXCEPT !.finished = TRUE]]
  /\ callback' = [callback EXCEPT ![r] = Ended]
  /\ UNCHANGED <<completed, cursor, workVars, starter, boundVars, late>>

(* The broker refuses the chord.                                           *)
HandOffFails(r) ==
  /\ callback[r].at = "read" /\ MayHandOff(r, callback[r]) /\ Fault
  /\ runs' = [runs EXCEPT ![r] =
       [callback[r].run EXCEPT !.state[chord[r].chunk + 1] =
                                   "dispatch_failed",
                               !.finished = TRUE]]
  /\ callback' = [callback EXCEPT ![r] = Ended]
  /\ UNCHANGED <<completed, cursor, workVars, starter, delays, late>>

CallbackKilled(r) ==
  /\ callback[r].at \in {"loaded", "read"} /\ Fault
  /\ callback' = [callback EXCEPT ![r] = Ended]
  /\ UNCHANGED <<completed, runs, cursor, workVars, starter, delays, late>>

Callback(r) ==
  LoadManifest(r) \/ FinishRun(r) \/ ReadPointer(r) \/ HandOff(r) \/ Refuse(r)

-----------------------------------------------------------------------------
(***************************************************************************)
(* DailyStage and the management command.                                  *)
(***************************************************************************)
Missing == Days \ completed

(* Mutation of DailyStatus: the age of the heartbeat alone decides.        *)
StatusByHeartbeat ==
  IF Missing = {} THEN "done"
  ELSE IF cursor = 0 THEN "pending"
  ELSE IF runs[cursor].finished THEN "failed"
  ELSE IF clock[cursor].fresh THEN "running" ELSE "stalled"

(* DailyStage.status(): as long as a lease is held the run is alive.       *)
DailyStatus ==
  IF Missing = {} THEN "done"
  ELSE IF cursor = 0 THEN "pending"
  ELSE LET m == runs[cursor] IN
    IF m.finished
      THEN IF ~m.superseded /\ ("dispatch_failed" \in Range(m.state)
                                  \/ OwnDays(m) \cap Missing # {})
             THEN "failed" ELSE "pending"
    ELSE IF lease[cursor] # {} \/ clock[cursor].fresh THEN "running"
    ELSE "stalled"

(* Mutation of Decide: a stalled run is left to somebody else.             *)
DecideUnlessStalled ==
  /\ starter["tick"].at = "idle"
  /\ DailyStatus \notin {"done", "running", "stalled"}
  /\ starter' = [starter EXCEPT !["tick"] = [at |-> "select"]]
  /\ UNCHANGED <<completed, runs, cursor, workVars, callback, boundVars,
                 late>>

(* start_or_resume, as often as the tick gets to it.                       *)
Decide ==
  /\ starter["tick"].at = "idle"
  /\ DailyStatus \notin {"done", "running"}
  /\ starter' = [starter EXCEPT !["tick"] =
       [at |-> IF DailyStatus = "stalled" THEN "stalled" ELSE "select"]]
  /\ UNCHANGED <<completed, runs, cursor, workVars, callback, boundVars,
                 late>>

(* The run to supersede is read from the cursor again.                     *)
LoadStalled ==
  /\ starter["tick"].at = "stalled"
  /\ starter' = [starter EXCEPT !["tick"] =
       [at |-> "loaded", id |-> cursor, run |-> runs[cursor]]]
  /\ UNCHANGED <<completed, runs, cursor, workVars, callback, boundVars,
                 late>>

(* supersede_backfill_run.                                                 *)
Supersede ==
  /\ starter["tick"].at = "loaded"
  /\ LET s == starter["tick"] IN
       runs' = [runs EXCEPT ![s.id] =
         [s.run EXCEPT !.superseded = TRUE, !.finished = TRUE]]
  /\ starter' = [starter EXCEPT !["tick"] = [at |-> "select"]]
  /\ UNCHANGED <<completed, cursor, workVars, callback, boundVars, late>>

(* start_backfill_run stores a manifest for the days ...                   *)
StartRun(p, days) ==
  LET m == BuildRun(days) IN
    /\ Len(runs) < MaxRuns
    /\ runs' = Append(runs, m)
    /\ starter' = [starter EXCEPT ![p] =
         [at |-> "point", id |-> Len(runs) + 1, run |-> m]]
    /\ clock' = [clock EXCEPT ![Len(runs) + 1].fresh = TRUE]

(* ... those that are missing (select_failed_days) ...                     *)
Select ==
  /\ starter["tick"].at = "select"
  /\ IF Missing = {}
       THEN /\ starter' = [starter EXCEPT !["tick"] = NoStarter]
            /\ UNCHANGED <<runs, clock>>
       ELSE StartRun("tick", Missing)
  /\ UNCHANGED <<completed, cursor, chord, lease, callback, boundVars, late>>

(* ... or, for the command, the range given by hand (counted as a delay).  *)
Command ==
  /\ starter["command"].at = "idle"
  /\ delays < MaxDelays /\ delays' = delays + 1
  /\ \E days \in Ranges : StartRun("command", days)
  /\ UNCHANGED <<completed, cursor, chord, lease, callback, faults, late>>

(* ... points the cursor at it ...                                         *)
PointCursor(p) ==
  /\ starter[p].at = "point"
  /\ cursor' = starter[p].id
  /\ starter' = [starter EXCEPT ![p].at = "dispatch"]
  /\ UNCHANGED <<completed, runs, workVars, callback, boundVars, late>>

(* ... and dispatches the first chunk.                                     *)
DispatchFirst(p) ==
  /\ starter[p].at = "dispatch"
  /\ LET s == starter[p] IN
       /\ runs' = [runs EXCEPT ![s.id] = Running(s.run, 1)]
       /\ chord' = [chord EXCEPT ![s.id] = NewChord(s.run, 1)]
       /\ clock' = Dispatched(s.id)
  /\ starter' = [starter EXCEPT ![p] = NoStarter]
  /\ UNCHANGED <<completed, cursor, lease, callback, boundVars, late>>

(* The process dies, or the broker refuses the first chunk.                *)
StarterFails(p) ==
  /\ starter[p].at # "idle" /\ Fault
  /\ starter' = [starter EXCEPT ![p] = NoStarter]
  /\ UNCHANGED <<completed, runs, cursor, workVars, callback, delays, late>>

Start(p) == PointCursor(p) \/ DispatchFirst(p)
TickStep == Decide \/ LoadStalled \/ Supersede \/ Select \/ Start("tick")

Work(r, d) == StartShard(r, d) \/ ShardSucceeds(r, d) \/ LeaseExpires(r, d)

Next ==
  \/ \E r \in Run :
       \/ \E d \in Days :
            Work(r, d) \/ ShardFails(r, d) \/ ShardKilled(r, d)
       \/ GracePasses(r)
       \/ Callback(r) \/ HandOffFails(r) \/ CallbackKilled(r)
  \/ TickStep \/ Command \/ Start("command")
  \/ \E p \in {"tick", "command"} : StarterFails(p)

(* The workers run what is queued, beat repeats the tick, and time passes. *)
(* A run has finitely many steps, so what is fair to the runs as a whole   *)
(* is fair to each of them.                                                *)
Fairness ==
  /\ WF_vars(TickStep) /\ WF_vars(Start("command"))
  /\ WF_vars(\E r \in Run : Callback(r))
  /\ WF_vars(\E r \in Run, d \in Days : Work(r, d))
  /\ WF_vars(\E r \in Run : Dead(r) /\ GracePasses(r))

Spec == Init /\ [][Next]_vars
FairSpec == Spec /\ Fairness

-----------------------------------------------------------------------------
(* A chain of chunks that is no longer the newest run hands off at most    *)
(* one more chunk, the one whose callback had read the cursor before it    *)
(* moved: whoever starts a run, old chains die out (tasks_shards.py:1024). *)
LateHandOffOnce == \A r \in Run : late[r] <= 1

(* daily.py:42: a run is never taken for stalled while one of its shards   *)
(* runs, however long that takes and whatever the other shards do.         *)
LiveShardKeepsRunning ==
  DailyStatus = "stalled" => "running" \notin Range(chord[cursor].shard)

(* Whatever fails, dies or is superseded, in the end no day of the window  *)
(* is missing and none is taken back (with runs enough for the faults and  *)
(* the delays of the instance).                                            *)
EventuallyBackfilled == <>[](Missing = {})

(* daily.py:210: once a run is superseded its next hand-off refuses to     *)
(* dispatch, however the race between the two is resolved.                 *)
SupersededNeverHandsOff ==
  [][\A r \in DOMAIN runs :
       runs[r].superseded /\ chord[r].chunk > 0
         => chord'[r].chunk = chord[r].chunk]_vars
=============================================================================
