---------------------------- MODULE DailyMetrics ----------------------------
(***************************************************************************)
(* The daily metrics and their catch-up (analytics/catchup and             *)
(* analytics/tasks.py): the nightly task, the hourly sweeper and the       *)
(* shards of a backfill compute a day through compute_day, populator by    *)
(* populator and then the core, and each step may fail or be the last one  *)
(* of a killed run.  The nightly task and the sweeper share one lock, the  *)
(* shards take none.                                                       *)
(*                                                                         *)
(* What a day's rows hold is abstracted to the parts of it that have been  *)
(* computed in full.  Time is counted in hours from the start of day 1.    *)
(***************************************************************************)
EXTENDS Integers, Functions, FiniteSetsExt

CONSTANTS
  Days,           \* the days followed, 1 .. n (later days are not modelled)
  Populators,     \* POPULATORS, the sequence of the populators of a day
  CoreInputs,     \* CORE_INPUTS, those whose rollups the core counts
  TxVolume,       \* the populator that writes columns of DailyMetric
  HoursPerDay,    \* hours of a day
  WindowDays,     \* WINDOW_DAYS, how far back the sweeper looks
  MaxDaysPerRun,  \* MAX_DAYS_PER_RUN, the days one sweep computes
  MaxAttempts,    \* MAX_ATTEMPTS, after which the sweeper gives a day up
  MaxOutage,      \* days that may pass without a finished sweep
  MaxHour,        \* bound on the clock
  MaxFaults,      \* bound on the steps that fail and the runs that die
  MaxShards       \* bound on the days backfills compute

ASSUME PopulatorsType ==
  /\ CoreInputs \subseteq Range(Populators)
  /\ TxVolume \in Range(Populators) \ CoreInputs
  /\ "core" \notin Range(Populators) /\ "counts" \notin Range(Populators)
ASSUME BoundsType ==
  /\ Days \subseteq Nat \ {0} /\ HoursPerDay \in 1 .. MaxHour
  /\ WindowDays \in Nat /\ MaxDaysPerRun \in Nat /\ MaxAttempts \in Nat
  /\ MaxOutage \in Nat /\ MaxHour \in Nat /\ MaxFaults \in Nat
  /\ MaxShards \in Nat

VARIABLES
  hour,       \* the clock
  settled,    \* the indexers' position: days up to this one are settled
  metric,     \* DailyMetric: the row of a day and its two completion marks
  rollup,     \* the rows of a core input: none, some of them or all
  good,       \* the parts of a day computed in full
  state,      \* AnalyticsCatchupState of kind "day"
  job,        \* the compute_day of the beat tasks and of the shard
  beat,       \* the nightly task or sweep that holds the shared lock
  sweeps,     \* a sweep began this hour; the day the last one finished
  backfill,   \* a backfill is live (its manifest is open and fresh)
  faults, shards, \* counters for the bounds
  tries,      \* computations the sweeper began for the present state row
  seen,       \* days the sweeper has had a row for, without success yet
  wasDone,    \* days that were complete at some time
  reports     \* "expired" errors logged for a day

dayVars == <<metric, rollup, good>>
boundVars == <<faults, shards>>
ghostVars == <<tries, seen, wasDone, reports>>
vars == <<hour, settled, dayVars, state, job, beat, sweeps, backfill,
          boundVars, ghostVars>>

Part == Range(Populators) \cup {"core", "counts"}
Today == hour \div HoursPerDay + 1
(* The days after the window in which a day is reported, _check_expired.   *)
GraceDays == 3

NoState == [known |-> FALSE, attempts |-> 0, next |-> 0,
            coreOk |-> FALSE, failed |-> {}, logged |-> FALSE]
NewState == [NoState EXCEPT !.known = TRUE]
NoRow == [exists |-> FALSE, coreDone |-> FALSE, done |-> FALSE]
NoJob == [at |-> "idle"]
NoBeat == [task |-> "none"]

(* compute_day for a day; only = {} is a full run.  todo holds the places  *)
(* in POPULATORS that are left.                                            *)
NewJob(d, only) ==
  [at |-> "clear", day |-> d, only |-> only,
   todo |-> {i \in DOMAIN Populators : only = {} \/ Populators[i] \in only},
   failed |-> {}, coreOk |-> FALSE, partial |-> FALSE]

(* The next one to do, none if nothing is left.                            *)
Least(S) == {i \in S : \A k \in S : i <= k}

(* Mutation of RunsCore: a retry never repeats the core.                   *)
RetryWithoutCore(j) == j.only = {}

RunsCore(j) == j.only = {} \/ j.only \cap CoreInputs # {}
Done(j) == j.coreOk /\ j.failed = {}

TypeOK ==
  /\ hour \in 0 .. MaxHour /\ settled \in {0} \cup Days
  /\ metric \in [Days -> [exists : BOOLEAN, coreDone : BOOLEAN,
                          done : BOOLEAN]]
  /\ rollup \in [Days -> [CoreInputs -> {"none", "some", "all"}]]
  /\ good \in [Days -> SUBSET Part]
  /\ state \in [Days -> [known : BOOLEAN, attempts : 0 .. MaxAttempts,
                         next : Int, coreOk : BOOLEAN,
                         failed : SUBSET Range(Populators),
                         logged : BOOLEAN]]
  /\ \A p \in {"beat", "shard"} : job[p].at \in
       {"idle", "clear", "reset", "populate", "count", "core", "merge",
        "mark", "record", "end"}
  /\ beat.task \in {"none", "nightly", "sweep"}
  /\ backfill \in BOOLEAN
  /\ faults \in 0 .. MaxFaults /\ shards \in 0 .. MaxShards
  /\ reports \in [Days -> 0 .. 2] /\ seen \subseteq Days

Init ==
  /\ hour = HoursPerDay /\ settled = 0
  /\ metric = [d \in Days |-> NoRow]
  /\ rollup = [d \in Days |-> [i \in CoreInputs |-> "none"]]
  /\ good = [d \in Days |-> {}]
  /\ state = [d \in Days |-> NoState]
  /\ job = [p \in {"beat", "shard"} |-> NoJob]
  /\ beat = NoBeat /\ sweeps = [begun |-> FALSE, finished |-> Today]
  /\ backfill = FALSE /\ faults = 0 /\ shards = 0
  /\ tries = [d \in Days |-> 0] /\ seen = {} /\ wasDone = {}
  /\ reports = [d \in Days |-> 0]

-----------------------------------------------------------------------------
(***************************************************************************)
(* The steps of compute_day, the same in every caller p.                   *)
(***************************************************************************)

(* Both marks are cleared before a run that recomputes the core; a retry   *)
(* of some populators needs the row (ValueError otherwise).                *)
Clear(p) ==
  /\ job[p].at = "clear"
  /\ LET j == job[p] IN
       IF j.only # {} /\ ~metric[j.day].exists
         THEN /\ job' = [job EXCEPT ![p].at = "end"]
              /\ UNCHANGED metric
         ELSE /\ job' = [job EXCEPT ![p].at =
                           IF RunsCore(j) THEN "reset" ELSE "populate"]
              /\ metric' = IF RunsCore(j)
                  THEN [metric EXCEPT ![j.day].coreDone = FALSE,
                                      ![j.day].done = FALSE]
                  ELSE metric
  /\ UNCHANGED <<hour, settled, rollup, good, state, beat, sweeps,
                 backfill, boundVars, ghostVars>>

(* reset_core_ok, an UPDATE of its own.                                    *)
Reset(p) ==
  /\ job[p].at = "reset"
  /\ state' = [state EXCEPT ![job[p].day].coreOk = FALSE]
  /\ job' = [job EXCEPT ![p].at = "populate"]
  /\ UNCHANGED <<hour, settled, dayVars, beat, sweeps, backfill,
                 boundVars, ghostVars>>

AfterPopulators(j, i) ==
  [j EXCEPT !.todo = @ \ {i},
            !.at = IF j.todo # {i} THEN "populate"
                   ELSE IF RunsCore(j) THEN "count" ELSE "merge"]

(* A populator is idempotent: it inserts what is missing.                  *)
Populate(p) ==
  /\ job[p].at = "populate"
  /\ \E i \in Least(job[p].todo) :
       LET j == job[p]  n == Populators[i] IN
       /\ good' = [good EXCEPT ![j.day] = @ \cup {n}]
       /\ rollup' = IF n \in CoreInputs
                      THEN [rollup EXCEPT ![j.day][n] = "all"] ELSE rollup
       /\ metric' = IF n = TxVolume
                      THEN [metric EXCEPT ![j.day].exists = TRUE] ELSE metric
       /\ job' = [job EXCEPT ![p] = AfterPopulators(j, i)]
  /\ UNCHANGED <<hour, settled, state, beat, sweeps, backfill, boundVars,
                 ghostVars>>

(* It fails: the next one runs all the same.  The membership rows are      *)
(* inserted in batches, so some of them may be there.                      *)
PopulateFails(p) ==
  /\ job[p].at = "populate"
  /\ faults < MaxFaults /\ faults' = faults + 1
  /\ \E i \in Least(job[p].todo) :
       LET j == job[p]  n == Populators[i] IN
       /\ job' = [job EXCEPT ![p] = [AfterPopulators(j, i) EXCEPT !.failed = @ \cup {n}]]
       /\ \/ UNCHANGED rollup
          \/ /\ n \in CoreInputs /\ rollup[j.day][n] = "none"
             /\ rollup' = [rollup EXCEPT ![j.day][n] = "some"]
  /\ UNCHANGED <<hour, settled, metric, good, state, beat, sweeps,
                 backfill, shards, ghostVars>>

(* The core counts the rows of its inputs; it computes the counts itself   *)
(* only when there are none.                                               *)
CountInputs(p) ==
  /\ job[p].at = "count"
  /\ job' = [job EXCEPT ![p].at = "core",
       ![p].partial = \E i \in CoreInputs : rollup[job[p].day][i] = "some"]
  /\ UNCHANGED <<hour, settled, dayVars, state, beat, sweeps, backfill,
                 boundVars, ghostVars>>

ComputeCore(p) ==
  /\ job[p].at = "core"
  /\ LET j == job[p] IN
       /\ metric' = [metric EXCEPT ![j.day].exists = TRUE]
       /\ good' = [good EXCEPT ![j.day] =
            IF j.partial THEN (@ \cup {"core"}) \ {"counts"}
            ELSE @ \cup {"core", "counts"}]
  /\ job' = [job EXCEPT ![p].at = "merge", ![p].coreOk = TRUE]
  /\ UNCHANGED <<hour, settled, rollup, state, beat, sweeps, backfill,
                 boundVars, ghostVars>>

CoreFails(p) ==
  /\ job[p].at = "core"
  /\ faults < MaxFaults /\ faults' = faults + 1
  /\ job' = [job EXCEPT ![p].at = "merge"]
  /\ UNCHANGED <<hour, settled, dayVars, state, beat, sweeps, backfill,
                 shards, ghostVars>>

(* What a retry did not touch carries forward from the row of the day.     *)
Merge(p) ==
  /\ job[p].at = "merge"
  /\ LET j == job[p]  prior == state[j.day] IN
       job' = [job EXCEPT ![p] =
         IF j.only = {} THEN [j EXCEPT !.at = "mark"]
         ELSE [j EXCEPT !.at = "mark",
                 !.coreOk = IF RunsCore(j) THEN @ ELSE prior.coreOk,
                 !.failed = (prior.failed \ j.only) \cup @]]
  /\ UNCHANGED <<hour, settled, dayVars, state, beat, sweeps, backfill,
                 boundVars, ghostVars>>

Mark(p) ==
  /\ job[p].at = "mark"
  /\ LET j == job[p] IN
       /\ metric' = IF metric[j.day].exists
            THEN [metric EXCEPT
                    ![j.day].coreDone =
                       @ \/ (j.coreOk /\ TxVolume \notin j.failed),
                    ![j.day].done = @ \/ Done(j)]
            ELSE metric
       /\ wasDone' = IF metric'[j.day].done
                       THEN wasDone \cup {j.day} ELSE wasDone
  /\ job' = [job EXCEPT ![p].at = "record"]
  /\ UNCHANGED <<hour, settled, rollup, good, state, beat, sweeps,
                 backfill, boundVars, tries, seen, reports>>

(* record_day_result updates the row of the day if there is one.           *)
Record(p) ==
  /\ job[p].at = "record"
  /\ LET j == job[p] IN
       state' = IF state[j.day].known
         THEN [state EXCEPT ![j.day].coreOk = j.coreOk,
                            ![j.day].failed = j.failed]
         ELSE state
  /\ job' = [job EXCEPT ![p].at = "end"]
  /\ UNCHANGED <<hour, settled, dayVars, beat, sweeps, backfill,
                 boundVars, ghostVars>>

ComputeDay(p) ==
  \/ Clear(p) \/ Reset(p) \/ Populate(p) \/ PopulateFails(p)
  \/ CountInputs(p) \/ ComputeCore(p) \/ CoreFails(p) \/ Merge(p)
  \/ Mark(p) \/ Record(p)

-----------------------------------------------------------------------------
(***************************************************************************)
(* The two tasks of the shared lock.  A status read at the start of a run  *)
(* decides for all its days; "unavailable" is a position before every day. *)
(***************************************************************************)
Status == {settled, 0}

(* compute_daily_metrics_task for the day before, if it is not complete.   *)
StartNightly ==
  /\ beat.task = "none"
  /\ \E status \in Status :
       LET d == Today - 1 IN
         /\ d \in Days /\ ~metric[d].done /\ d <= status
         /\ job' = [job EXCEPT !["beat"] = NewJob(d, {})]
         /\ beat' = [task |-> "nightly"]
  /\ UNCHANGED <<hour, settled, dayVars, state, sweeps, backfill,
                 boundVars, ghostVars>>

EndNightly ==
  /\ beat.task = "nightly" /\ job["beat"].at = "end"
  /\ beat' = NoBeat /\ job' = [job EXCEPT !["beat"] = NoJob]
  /\ UNCHANGED <<hour, settled, dayVars, state, sweeps, backfill,
                 boundVars, ghostVars>>

(* The days of the window that are not complete, from the first row on.    *)
Candidates ==
  LET rows == {d \in Days : metric[d].exists} IN
    {d \in Days : /\ rows # {} /\ d >= Min(rows)
                  /\ d \in Today - WindowDays .. Today - 1
                  /\ ~metric[d].done}

(* Mutation of Due: one attempt more.                                      *)
DueOnceMore(d) == state[d].attempts <= MaxAttempts /\ state[d].next <= hour

Due(d) == state[d].attempts < MaxAttempts /\ state[d].next <= hour

(* A retry repeats the failed populators only, if the core is right.       *)
OnlyOf(d) == IF state[d].coreOk THEN state[d].failed ELSE {}

(* _catch_up_days up to the first attempt: nothing while a backfill is     *)
(* live, else a row for every candidate, and the oldest settled ones that  *)
(* are due and have not been given up.                                     *)
StartSweep ==
  /\ beat.task = "none" /\ ~sweeps.begun
  /\ sweeps' = [sweeps EXCEPT !.begun = TRUE]
  /\ \E status \in Status :
       LET candidates == IF backfill THEN {} ELSE Candidates
           ready == {d \in candidates : Due(d) /\ d <= status}
           selected == {d \in ready :
             Cardinality({e \in ready : e < d}) < MaxDaysPerRun}
       IN /\ state' = [d \in Days |->
               IF d \in candidates /\ ~state[d].known THEN NewState
               ELSE state[d]]
          /\ seen' = seen \cup candidates
          /\ beat' = [task |-> "sweep", days |-> selected,
                      only |-> [d \in Days |-> OnlyOf(d)]]
  /\ UNCHANGED <<hour, settled, dayVars, job, backfill, boundVars, tries,
                 wasDone, reports>>

(* record_attempt, committed before the day is computed.                   *)
Attempt ==
  /\ beat.task = "sweep" /\ job["beat"].at = "idle"
  /\ \E d \in Least(beat.days) : LET n == state[d].attempts + 1 IN
       /\ state' = IF state[d].known
            THEN [state EXCEPT ![d].attempts = n,
                               ![d].next = hour + 2 ^ (n - 1)]
            ELSE state
       /\ job' = [job EXCEPT !["beat"] = NewJob(d, beat.only[d])]
       /\ tries' = [tries EXCEPT ![d] = @ + 1]
       /\ beat' = [beat EXCEPT !.days = @ \ {d}]
  /\ UNCHANGED <<hour, settled, dayVars, sweeps, backfill, boundVars,
                 seen, wasDone, reports>>

(* mark_day_succeeded deletes the row of a day that is done.               *)
EndDay ==
  /\ beat.task = "sweep" /\ job["beat"].at = "end"
  /\ LET j == job["beat"] IN
       IF Done(j)
         THEN /\ state' = [state EXCEPT ![j.day] = NoState]
              /\ tries' = [tries EXCEPT ![j.day] = 0]
              /\ seen' = seen \ {j.day}
         ELSE UNCHANGED <<state, tries, seen>>
  /\ job' = [job EXCEPT !["beat"] = NoJob]
  /\ UNCHANGED <<hour, settled, dayVars, beat, sweeps, backfill,
                 boundVars, wasDone, reports>>

(* Mutation of Expired: the day that has just left the window is skipped.  *)
ExpiredLater ==
  {d \in Days : /\ d \in Today - WindowDays - GraceDays ..
                         Today - WindowDays - 2
                /\ state[d].known /\ ~metric[d].done /\ ~state[d].logged}

(* The days of the grace window with a row that are not complete.          *)
Expired ==
  {d \in Days : /\ d \in Today - WindowDays - GraceDays ..
                         Today - WindowDays - 1
                /\ state[d].known /\ ~metric[d].done /\ ~state[d].logged}

(* _check_expired reports a day once; prune_day_states_before deletes the  *)
(* rows older than two windows.                                            *)
EndSweep ==
  /\ beat.task = "sweep" /\ job["beat"].at = "idle" /\ beat.days = {}
  /\ state' = [d \in Days |->
       IF d < Today - 2 * WindowDays THEN NoState
       ELSE [state[d] EXCEPT !.logged = @ \/ d \in Expired]]
  /\ reports' = [d \in Days |->
       IF d \in Expired THEN Min({2, reports[d] + 1}) ELSE reports[d]]
  /\ sweeps' = [sweeps EXCEPT !.finished = Today]
  /\ beat' = NoBeat
  /\ UNCHANGED <<hour, settled, dayVars, job, backfill, boundVars, tries,
                 seen, wasDone>>

-----------------------------------------------------------------------------
(***************************************************************************)
(* A backfill: one shard at a time computes a day, with a status of its    *)
(* own and no lock.  A killed run leaves what it has committed; the lock   *)
(* of a killed task expires within the hour.                               *)
(***************************************************************************)
StartBackfill ==
  /\ ~backfill /\ shards < MaxShards
  /\ backfill' = TRUE
  /\ UNCHANGED <<hour, settled, dayVars, state, job, beat, sweeps,
                 boundVars, ghostVars>>

StartShard ==
  /\ backfill /\ job["shard"].at = "idle"
  /\ shards < MaxShards /\ shards' = shards + 1
  /\ \E d \in Days, status \in Status :
       /\ d <= status
       /\ job' = [job EXCEPT !["shard"] = NewJob(d, {})]
  /\ UNCHANGED <<hour, settled, dayVars, state, beat, sweeps, backfill,
                 faults, ghostVars>>

EndShard ==
  /\ job["shard"].at = "end"
  /\ job' = [job EXCEPT !["shard"] = NoJob]
  /\ UNCHANGED <<hour, settled, dayVars, state, beat, sweeps, backfill,
                 boundVars, ghostVars>>

EndBackfill ==
  /\ backfill /\ job["shard"].at = "idle"
  /\ backfill' = FALSE
  /\ UNCHANGED <<hour, settled, dayVars, state, job, beat, sweeps,
                 boundVars, ghostVars>>

Crash(p) ==
  /\ faults < MaxFaults /\ faults' = faults + 1
  /\ job[p].at # "idle" \/ (p = "beat" /\ beat.task # "none")
  /\ job' = [job EXCEPT ![p] = NoJob]
  /\ beat' = IF p = "beat" THEN NoBeat ELSE beat
  /\ UNCHANGED <<hour, settled, dayVars, state, sweeps, backfill,
                 shards, ghostVars>>

(* The indexers pass the end of a day and its calls are processed.         *)
Settle ==
  /\ settled + 1 \in Days /\ settled + 1 < Today
  /\ settled' = settled + 1
  /\ UNCHANGED <<hour, dayVars, state, job, beat, sweeps, backfill,
                 boundVars, ghostVars>>

(* No beat task lasts an hour; no more than MaxOutage days pass without a  *)
(* finished sweep.                                                         *)
Tick ==
  /\ hour < MaxHour /\ beat.task = "none"
  /\ hour' = hour + 1 /\ Today' - sweeps.finished <= MaxOutage
  /\ sweeps' = [sweeps EXCEPT !.begun = FALSE]
  /\ UNCHANGED <<settled, dayVars, state, job, beat, backfill, boundVars,
                 ghostVars>>

Next ==
  \/ \E p \in {"beat", "shard"} : ComputeDay(p) \/ Crash(p)
  \/ StartNightly \/ EndNightly
  \/ StartSweep \/ Attempt \/ EndDay \/ EndSweep
  \/ StartBackfill \/ StartShard \/ EndShard \/ EndBackfill
  \/ Settle \/ Tick

Spec == Init /\ [][Next]_vars

-----------------------------------------------------------------------------
(* A day bears a mark only if everything the mark stands for has been      *)
(* computed since the day was settled, whatever failed, died or ran twice  *)
(* before: core_completed_at for the core and the columns of tx_volume,    *)
(* completed_at for every populator and, without shards beside the beat    *)
(* tasks, for the counts the core takes from the rollups (models.py).      *)
MarksAreEarned ==
  \A d \in Days :
    /\ metric[d].coreDone => {"core", TxVolume} \subseteq good[d]
    /\ metric[d].done => Range(Populators) \cup {"core"} \subseteq good[d]
    /\ metric[d].done /\ shards = 0 => "counts" \in good[d]

(* The setting of the next property: the sweeper finishes often enough for *)
(* each day to be looked at in its days of grace.                          *)
Setting == MaxOutage <= GraceDays

(* A day the sweeper has taken up is not lost: once it has left the window *)
(* and the days of grace it was complete at some time or has been reported *)
(* as expired, and it is never reported twice (_check_expired).  It begins *)
(* to compute the day at most MaxAttempts times before it gives it up,     *)
(* also when every run is killed before it can say how it went.            *)
SeenDaysAreAccountedFor ==
  \A d \in Days :
    /\ d \in seen /\ Today - d > WindowDays + GraceDays
         => d \in wasDone \/ reports[d] > 0
    /\ reports[d] <= 1
    /\ tries[d] <= MaxAttempts

(* models.py:56 and tasks.py:4582 say that a day marked complete is never  *)
(* a rewritten one: the counts of its row are those of its rollups.        *)
CompletedCountsAreCurrent ==
  \A d \in Days : metric[d].done => "counts" \in good[d]
=============================================================================
