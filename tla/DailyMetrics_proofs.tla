-------------------------- MODULE DailyMetrics_proofs --------------------------
(***************************************************************************)
(* Proofs about DailyMetrics for any days, populators, window and number   *)
(* of attempts, and any number of faults and shards.                       *)
(***************************************************************************)
EXTENDS DailyMetrics, TLAPS

-----------------------------------------------------------------------------
(***************************************************************************)
(* The inductive invariant: types first.                                   *)
(***************************************************************************)
Callers == {"beat", "shard"}
Names == Range(Populators)

Jobs ==
  [at : {"clear", "reset", "populate", "count", "core", "merge", "mark",
         "record", "end"},
   day : Days, only : SUBSET Names, todo : SUBSET DOMAIN Populators,
   failed : SUBSET Names, coreOk : BOOLEAN, partial : BOOLEAN]

Sweep == [task : {"sweep"}, days : SUBSET Days, only : [Days -> SUBSET Names]]

Rows == [exists : BOOLEAN, coreDone : BOOLEAN, done : BOOLEAN]

StateRows ==
  [known : BOOLEAN, attempts : 0 .. MaxAttempts, next : Int, coreOk : BOOLEAN,
   failed : SUBSET Names, logged : BOOLEAN]

DaysTyped ==
  /\ metric \in [Days -> Rows]
  /\ rollup \in [Days -> [CoreInputs -> {"none", "some", "all"}]]
  /\ good \in [Days -> SUBSET Part]

ClockTyped ==
  /\ hour \in 0 .. MaxHour /\ settled \in {0} \cup Days
  /\ sweeps \in [begun : BOOLEAN, finished : Int]
  /\ backfill \in BOOLEAN
  /\ faults \in 0 .. MaxFaults /\ shards \in 0 .. MaxShards
  /\ tries \in [Days -> Int] /\ reports \in [Days -> 0 .. 2]
  /\ seen \subseteq Days /\ wasDone \subseteq Days

(* A day that waits in the sweep has an attempt left, and is not computed  *)
(* by the sweep already.                                                   *)
BeatTyped ==
  /\ beat \in {NoBeat, [task |-> "nightly"]} \cup Sweep
  /\ beat.task = "none" => job["beat"] = NoJob
  /\ beat.task = "sweep" => \A d \in beat.days :
       /\ state[d].attempts < MaxAttempts
       /\ job["beat"] # NoJob => job["beat"].day # d

Types ==
  /\ ClockTyped /\ DaysTyped /\ BeatTyped
  /\ state \in [Days -> StateRows]
  /\ job \in [Callers -> {NoJob} \cup Jobs]

-----------------------------------------------------------------------------
(***************************************************************************)
(* What the marks and the counts stand for, and which days are accounted   *)
(* for.                                                                    *)
(***************************************************************************)
TodoNames(j) == {Populators[i] : i \in j.todo}

(* Every populator of a job is left, has failed or has computed the day.   *)
JobIsRight(j) ==
  /\ j.coreOk => "core" \in good[j.day]
  /\ j.only # {} => Names \ state[j.day].failed \subseteq good[j.day]
  /\ j.at \in {"clear", "reset", "populate", "count", "core", "merge"} =>
       \A n \in IF j.only = {} THEN Names ELSE j.only :
         n \in TodoNames(j) \cup j.failed \cup good[j.day]
  /\ j.at \in {"count", "core", "merge"} => j.todo = {}
  /\ j.at \in {"mark", "record"} => Names \ j.failed \subseteq good[j.day]

DayIsRight(d) ==
  /\ metric[d].coreDone => {"core", TxVolume} \subseteq good[d]
  /\ metric[d].done => Names \cup {"core"} \subseteq good[d]
  /\ state[d].coreOk =>
       /\ state[d].known /\ "core" \in good[d]
       /\ Names \ state[d].failed \subseteq good[d]
  /\ \A i \in CoreInputs : i \in good[d] => rollup[d][i] = "all"

(* What a row of the state says has failed is all that is missing, from    *)
(* the moment a retry of some populators is decided on.                    *)
Marks ==
  /\ \A d \in Days : DayIsRight(d)
  /\ \A p \in Callers : job[p] # NoJob => JobIsRight(job[p])
  /\ job["shard"] # NoJob => job["shard"].only = {}
  /\ beat.task = "sweep" => \A d \in beat.days :
       beat.only[d] # {} => Names \ state[d].failed \subseteq good[d]

CountsOfDay(d) ==
  \/ state[d].coreOk /\ CoreInputs \subseteq good[d]
  \/ metric[d].done
  => "counts" \in good[d]

CountsOfJob(j) ==
  /\ j.coreOk /\ CoreInputs \subseteq good[j.day] => "counts" \in good[j.day]
  /\ j.at \in {"clear", "reset", "populate", "count", "core"} => ~j.coreOk
  /\ RunsCore(j) /\ j.at \in {"populate", "count", "core"} => ~state[j.day].coreOk
  /\ ~RunsCore(j) =>
       TodoNames(j) \cap CoreInputs = {} /\ j.at \notin {"reset", "count", "core"}
  /\ j.at = "core" /\ j.partial => \E i \in CoreInputs : rollup[j.day][i] = "some"

(* Without shards beside them the counts of the beat tasks are those of    *)
(* rollups that are complete, or some rollup is missing.                   *)
Counts ==
  shards = 0 =>
    /\ job["shard"] = NoJob
    /\ \A d \in Days : CountsOfDay(d)
    /\ job["beat"] # NoJob => CountsOfJob(job["beat"])

InWindow(d) == d >= Today - WindowDays

DayIsSeen(d) ==
  /\ metric[d].done => d \in wasDone
  /\ state[d].logged => reports[d] > 0
  /\ reports[d] <= 1
  /\ reports[d] > 0 => ~InWindow(d) /\ (state[d].known => state[d].logged)
  /\ IF state[d].known THEN tries[d] = state[d].attempts
     ELSE state[d].attempts = 0 /\ (tries[d] = 0 \/ ~InWindow(d))
  /\ tries[d] <= MaxAttempts
  /\ d \in seen => \/ d \in wasDone \/ reports[d] > 0
                   \/ state[d].known /\ sweeps.finished <= d + WindowDays

(* A day the sweeper has a row for was not out of the window yet when the  *)
(* last sweep ended, or it has been reported.                              *)
Seen ==
  /\ sweeps.finished <= Today /\ Today - sweeps.finished <= MaxOutage
  /\ \A d \in Days : DayIsSeen(d)
  /\ beat.task = "sweep" =>
       \A d \in beat.days : state[d].known /\ InWindow(d)

-----------------------------------------------------------------------------
LEMMA TypesImplyTypeOK == Types => TypeOK
<1> SUFFICES ASSUME Types PROVE TypeOK
  OBVIOUS
<1>1. \A p \in Callers : job[p].at \in
        {"idle", "clear", "reset", "populate", "count", "core", "merge",
         "mark", "record", "end"}
  BY DEF Types, Jobs, NoJob
<1>2. beat.task \in {"none", "nightly", "sweep"}
  BY DEF Types, BeatTyped, Sweep, NoBeat
<1> QED
  BY <1>1, <1>2
     DEF Types, ClockTyped, DaysTyped, TypeOK, Callers, Names, Rows, StateRows

LEMMA JobTyped ==
  ASSUME Types, NEW p \in Callers, job[p].at # "idle"
  PROVE  /\ job[p] \in Jobs /\ job[p] # NoJob /\ job[p].day \in Days
         /\ state[job[p].day] \in StateRows /\ metric[job[p].day] \in Rows
BY DEF Types, DaysTyped, Jobs, NoJob

LEMMA InitTypes == Init => Types
<1> SUFFICES ASSUME Init PROVE Types
  OBVIOUS
<1> USE BoundsType
<1>1. Today \in Int
  BY DEF Init, Today
<1>2. ClockTyped
  <2>1. sweeps \in [begun : BOOLEAN, finished : Int]
    BY <1>1 DEF Init
  <2>2. hour \in 0 .. MaxHour
    BY DEF Init
  <2>3. faults \in 0 .. MaxFaults /\ shards \in 0 .. MaxShards
    BY DEF Init
  <2>4. tries \in [Days -> Int] /\ reports \in [Days -> 0 .. 2]
    BY DEF Init
  <2>5. settled \in {0} \cup Days /\ backfill \in BOOLEAN
        /\ seen \subseteq Days /\ wasDone \subseteq Days
    BY DEF Init
  <2> QED
    BY <2>1, <2>2, <2>3, <2>4, <2>5 DEF ClockTyped
<1>3. DaysTyped
  BY DEF Init, DaysTyped, NoRow, Rows
<1>4. job = [p \in Callers |-> NoJob] /\ beat = NoBeat
  BY DEF Init, Callers
<1>5. BeatTyped
  BY <1>4 DEF BeatTyped, NoBeat, Callers
<1>6. state \in [Days -> StateRows]
  BY DEF Init, NoState, StateRows
<1> QED
  BY <1>2, <1>3, <1>4, <1>5, <1>6 DEF Types

(* What a step of a computation of a day has to keep.                      *)
LEMMA JobStepTypes ==
  ASSUME Types, NEW p \in Callers, job[p] \in Jobs,
         NEW r \in Jobs, r.day = job[p].day,
         job' = [job EXCEPT ![p] = r],
         UNCHANGED <<hour, settled, beat, sweeps, backfill, shards, tries, seen,
                     reports>>,
         DaysTyped', state' \in [Days -> StateRows],
         \A d \in Days : state'[d].attempts = state[d].attempts,
         faults' \in 0 .. MaxFaults, wasDone' \subseteq Days
  PROVE  Types'
<1>1. ClockTyped'
  BY DEF Types, ClockTyped
<1>2. /\ job' \in [Callers -> {NoJob} \cup Jobs] /\ job'[p] = r
      /\ \A q \in Callers \ {p} : job'[q] = job[q]
  BY DEF Types
<1>3. job[p] # NoJob /\ "beat" \in Callers
  BY DEF Jobs, NoJob, Callers
<1>4. beat.task = "none" => p # "beat"
  BY <1>3 DEF Types, BeatTyped
<1>5. \A d \in Days : beat.task = "sweep" /\ d \in beat.days /\ job'["beat"] # NoJob
                        => job'["beat"].day # d
  BY <1>2, <1>3 DEF Types, BeatTyped
<1>6. beat.task = "sweep" => beat.days \subseteq Days
  BY DEF Types, BeatTyped, NoBeat, Sweep
<1>7. BeatTyped'
  BY <1>2, <1>3, <1>4, <1>5, <1>6 DEF Types, BeatTyped
<1> QED
  BY <1>1, <1>2, <1>7 DEF Types

LEMMA JobStepMarks ==
  ASSUME Types, Marks, NEW p \in Callers, job[p] \in Jobs,
         NEW r \in Jobs, r.only = job[p].only,
         job' = [job EXCEPT ![p] = r], UNCHANGED beat,
         \A d \in Days : good[d] \cap (Names \cup {"core"}) \subseteq good'[d],
         \A d \in Days : \/ state'[d].failed = state[d].failed
                         \/ Names \ state'[d].failed \subseteq good'[d],
         \A d \in Days : DayIsRight(d)', JobIsRight(r)'
  PROVE  Marks'
<1>1. /\ job'[p] = r /\ \A q \in Callers \ {p} : job'[q] = job[q]
      /\ job[p] # NoJob /\ r # NoJob /\ "shard" \in Callers
  BY DEF Types, Jobs, NoJob, Callers
<1>2. ASSUME NEW q \in Callers \ {p}, job'[q] # NoJob
      PROVE  JobIsRight(job[q])'
  <2> DEFINE j == job[q]
  <2>1. j \in Jobs /\ j.day \in Days /\ JobIsRight(j) /\ j' = j
    BY <1>1, <1>2 DEF Types, Marks, Jobs
  <2>2. good[j.day] \cap (Names \cup {"core"}) \subseteq good'[j.day]
    BY <2>1
  <2>3. j.only \subseteq Names
    BY <2>1 DEF Jobs
  <2>4. j.coreOk => "core" \in good'[j.day]
    BY <2>1, <2>2 DEF JobIsRight
  <2>5. j.only # {} => Names \ state'[j.day].failed \subseteq good'[j.day]
    BY <2>1, <2>2 DEF JobIsRight
  <2>6. j.at \in {"clear", "reset", "populate", "count", "core", "merge"} =>
          \A n \in IF j.only = {} THEN Names ELSE j.only :
            n \in TodoNames(j) \cup j.failed \cup good'[j.day]
    BY <2>1, <2>2, <2>3 DEF JobIsRight
  <2>7. j.at \in {"mark", "record"} => Names \ j.failed \subseteq good'[j.day]
    BY <2>1, <2>2 DEF JobIsRight
  <2>8. j.at \in {"count", "core", "merge"} => j.todo = {}
    BY <2>1 DEF JobIsRight
  <2> QED
    BY <2>1, <2>4, <2>5, <2>6, <2>7, <2>8 DEF JobIsRight, TodoNames
<1>3. job'["shard"] # NoJob => job'["shard"].only = {}
  BY <1>1 DEF Marks
<1>4. ASSUME beat'.task = "sweep", NEW d \in beat'.days, beat'.only[d] # {}
      PROVE  Names \ state'[d].failed \subseteq good'[d]
  <2>1. d \in Days
    BY <1>4 DEF Types, BeatTyped, NoBeat, Sweep
  <2>2. Names \ state[d].failed \subseteq good[d]
    BY <1>4 DEF Marks
  <2> QED
    BY <2>1, <2>2
<1> QED
  BY <1>1, <1>2, <1>3, <1>4 DEF Marks

LEMMA JobStepCounts ==
  ASSUME Types, Counts, NEW p \in Callers, job[p] \in Jobs, NEW r \in Jobs,
         job' = [job EXCEPT ![p] = r], UNCHANGED shards,
         shards = 0 /\ p = "beat" =>
           CountsOfJob(r)' /\ \A d \in Days : CountsOfDay(d)'
  PROVE  Counts'
<1>1. SUFFICES ASSUME shards = 0 PROVE
        /\ job'["shard"] = NoJob
        /\ \A d \in Days : CountsOfDay(d)'
        /\ job'["beat"] # NoJob => CountsOfJob(job["beat"])'
  BY DEF Counts
<1>2. job["shard"] = NoJob /\ job[p] # NoJob
  BY <1>1 DEF Counts, Jobs, NoJob
<1>3. p = "beat"
  BY <1>2 DEF Callers
<1>4. job'["beat"] = r /\ job'["shard"] = job["shard"]
  BY <1>3 DEF Types, Callers
<1> QED
  BY <1>1, <1>2, <1>3, <1>4

(* What a step of a computation starts from.                               *)
LEMMA BusyJob ==
  ASSUME Types, Marks, Counts, NEW p \in Callers, job[p].at # "idle"
  PROVE  /\ job[p] \in Jobs /\ job[p] # NoJob /\ job[p].day \in Days
         /\ job[p].only \subseteq Names
         /\ JobIsRight(job[p]) /\ \A d \in Days : DayIsRight(d)
         /\ shards = 0 /\ p = "beat" =>
              CountsOfJob(job[p]) /\ \A d \in Days : CountsOfDay(d)
BY JobTyped DEF Marks, Counts, Jobs

-----------------------------------------------------------------------------
(***************************************************************************)
(* The steps of compute_day.                                               *)
(***************************************************************************)
LEMMA ClearKeeps ==
  ASSUME Types, Marks, Counts, NEW p \in Callers, Clear(p)
  PROVE  Types' /\ Marks' /\ Counts'
<1> DEFINE j == job[p]
           d == j.day
<1>1. /\ j.at = "clear"
      /\ UNCHANGED <<hour, settled, rollup, good, state, beat, sweeps, backfill,
                     faults, shards, tries, seen, wasDone, reports>>
  BY DEF Clear, boundVars, ghostVars
<1>2. /\ j \in Jobs /\ d \in Days /\ j.only \subseteq Names
      /\ JobIsRight(j) /\ \A e \in Days : DayIsRight(e)
      /\ shards = 0 /\ p = "beat" =>
           CountsOfJob(j) /\ \A e \in Days : CountsOfDay(e)
  BY <1>1, BusyJob
<1>3. PICK r : r = [j EXCEPT !.at =
                      IF j.only # {} /\ ~metric[d].exists THEN "end"
                      ELSE IF RunsCore(j) THEN "reset" ELSE "populate"]
  OBVIOUS
<1>4. /\ r \in Jobs /\ r.day = d /\ r.only = j.only /\ r.todo = j.todo
      /\ r.failed = j.failed /\ r.coreOk = j.coreOk
      /\ r.at \in {"reset", "populate", "end"}
      /\ r.at = "reset" => RunsCore(j)
      /\ r.at = "populate" => ~RunsCore(j)
      /\ RunsCore(r) = RunsCore(j) /\ TodoNames(r) = TodoNames(j)
  BY <1>2, <1>3 DEF Jobs, RunsCore, TodoNames
<1>5. job' = [job EXCEPT ![p] = r]
  BY <1>3 DEF Clear
<1>6. /\ metric' \in [Days -> Rows]
      /\ \A e \in Days : /\ metric'[e].coreDone => metric[e].coreDone
                         /\ metric'[e].done => metric[e].done
  <2>1. metric \in [Days -> Rows]
    BY DEF Types, DaysTyped
  <2>2. PICK row : row = [metric[d] EXCEPT !.coreDone = FALSE, !.done = FALSE]
    OBVIOUS
  <2>3. \/ metric' = metric
        \/ metric' = [metric EXCEPT ![d] = row]
    BY <1>2, <2>1, <2>2 DEF Clear
  <2>4. row \in Rows /\ ~row.coreDone /\ ~row.done
    BY <1>2, <2>1, <2>2 DEF Rows
  <2> QED
    BY <1>2, <2>1, <2>3, <2>4
<1>7. Types'
  BY <1>1, <1>2, <1>4, <1>5, <1>6, JobStepTypes DEF Types, DaysTyped, ClockTyped
<1>8. JobIsRight(r)'
  BY <1>1, <1>2, <1>4 DEF JobIsRight, TodoNames
<1>9. \A e \in Days : DayIsRight(e)'
  BY <1>1, <1>2, <1>6 DEF DayIsRight
<1>10. Marks'
  BY <1>1, <1>2, <1>4, <1>5, <1>8, <1>9, JobStepMarks
<1>11. shards = 0 /\ p = "beat" =>
         CountsOfJob(r)' /\ \A e \in Days : CountsOfDay(e)'
  BY <1>1, <1>2, <1>4, <1>6 DEF CountsOfJob, CountsOfDay, TodoNames, RunsCore
<1>12. Counts'
  BY <1>1, <1>2, <1>4, <1>5, <1>11, JobStepCounts
<1> QED
  BY <1>7, <1>10, <1>12

LEMMA ResetKeeps ==
  ASSUME Types, Marks, Counts, NEW p \in Callers, Reset(p)
  PROVE  Types' /\ Marks' /\ Counts'
<1> DEFINE j == job[p]
           d == j.day
<1>1. /\ j.at = "reset" /\ state' = [state EXCEPT ![d].coreOk = FALSE]
      /\ UNCHANGED <<hour, settled, metric, rollup, good, beat, sweeps,
                     backfill, faults, shards, tries, seen, wasDone, reports>>
  BY DEF Reset, dayVars, boundVars, ghostVars
<1>2. /\ j \in Jobs /\ d \in Days /\ j.only \subseteq Names
      /\ JobIsRight(j) /\ \A e \in Days : DayIsRight(e)
      /\ shards = 0 /\ p = "beat" =>
           CountsOfJob(j) /\ \A e \in Days : CountsOfDay(e)
  BY <1>1, BusyJob
<1>3. PICK r : r = [j EXCEPT !.at = "populate"]
  OBVIOUS
<1>4. /\ r \in Jobs /\ r.day = d /\ r.only = j.only /\ r.todo = j.todo
      /\ r.failed = j.failed /\ r.coreOk = j.coreOk /\ r.at = "populate"
  BY <1>2, <1>3 DEF Jobs
<1>5. job' = [job EXCEPT ![p] = r]
  BY <1>3 DEF Reset
<1>6. /\ state' \in [Days -> StateRows] /\ ~state'[d].coreOk
      /\ \A e \in Days : /\ state'[e].failed = state[e].failed
                         /\ state'[e].attempts = state[e].attempts
                         /\ state'[e].coreOk => state[e].coreOk
  <2>1. state \in [Days -> StateRows]
    BY DEF Types
  <2> QED
    BY <1>1, <1>2, <2>1 DEF StateRows
<1>7. Types'
  BY <1>1, <1>2, <1>4, <1>5, <1>6, JobStepTypes DEF Types, DaysTyped, ClockTyped
<1>8. JobIsRight(r)'
  BY <1>1, <1>2, <1>4, <1>6 DEF JobIsRight, TodoNames
<1>9. \A e \in Days : DayIsRight(e)'
  BY <1>1, <1>2, <1>6 DEF DayIsRight
<1>10. Marks'
  BY <1>1, <1>2, <1>4, <1>5, <1>6, <1>8, <1>9, JobStepMarks
<1>11. shards = 0 /\ p = "beat" =>
         CountsOfJob(r)' /\ \A e \in Days : CountsOfDay(e)'
  BY <1>1, <1>2, <1>4, <1>6 DEF CountsOfJob, CountsOfDay, TodoNames, RunsCore
<1>12. Counts'
  BY <1>1, <1>2, <1>4, <1>5, <1>11, JobStepCounts
<1> QED
  BY <1>7, <1>10, <1>12

LEMMA AfterOne ==
  ASSUME NEW j \in Jobs, NEW i \in Least(j.todo), NEW r,
         r = AfterPopulators(j, i)
  PROVE  /\ r \in Jobs /\ r.day = j.day /\ r.only = j.only
         /\ r.failed = j.failed /\ r.coreOk = j.coreOk
         /\ r.at \in {"populate", "count", "merge"}
         /\ r.at # "populate" => r.todo = {}
         /\ r.at = "count" => RunsCore(j)
         /\ TodoNames(r) \subseteq TodoNames(j)
         /\ TodoNames(j) \subseteq TodoNames(r) \cup {Populators[i]}
         /\ Populators[i] \in TodoNames(j) /\ Populators[i] \in Names
<1>1. i \in j.todo /\ j.todo \subseteq DOMAIN Populators
  BY DEF Least, Jobs
<1>2. r = [j EXCEPT !.todo = j.todo \ {i},
                    !.at = IF j.todo # {i} THEN "populate"
                           ELSE IF RunsCore(j) THEN "count" ELSE "merge"]
  BY DEF AfterPopulators
<1>3. j.todo \ {i} \in SUBSET DOMAIN Populators
  BY <1>1
<1>4. /\ r \in Jobs /\ r.day = j.day /\ r.only = j.only
      /\ r.failed = j.failed /\ r.coreOk = j.coreOk
      /\ r.todo = j.todo \ {i}
      /\ r.at = IF j.todo # {i} THEN "populate"
                ELSE IF RunsCore(j) THEN "count" ELSE "merge"
  BY <1>2, <1>3 DEF Jobs
<1>5. Populators[i] \in Names
  BY <1>1 DEF Names, Range
<1> QED
  BY <1>1, <1>4, <1>5 DEF TodoNames

LEMMA PopulateKeeps ==
  ASSUME Types, Marks, Counts, NEW p \in Callers, Populate(p)
  PROVE  Types' /\ Marks' /\ Counts'
<1> DEFINE j == job[p]
           d == j.day
<1>1. /\ j.at = "populate"
      /\ UNCHANGED <<hour, settled, state, beat, sweeps, backfill, faults,
                     shards, tries, seen, wasDone, reports>>
  BY DEF Populate, boundVars, ghostVars
<1>2. /\ j \in Jobs /\ d \in Days /\ j.only \subseteq Names
      /\ JobIsRight(j) /\ \A e \in Days : DayIsRight(e)
      /\ shards = 0 /\ p = "beat" =>
           CountsOfJob(j) /\ \A e \in Days : CountsOfDay(e)
  BY <1>1, BusyJob
<1>3. PICK i \in Least(j.todo) :
        /\ good' = [good EXCEPT ![d] = @ \cup {Populators[i]}]
        /\ rollup' = IF Populators[i] \in CoreInputs
             THEN [rollup EXCEPT ![d][Populators[i]] = "all"] ELSE rollup
        /\ metric' = IF Populators[i] = TxVolume
             THEN [metric EXCEPT ![d].exists = TRUE] ELSE metric
        /\ job' = [job EXCEPT ![p] = AfterPopulators(j, i)]
  BY DEF Populate
<1>4. PICK r : r = AfterPopulators(j, i)
  OBVIOUS
<1> DEFINE n == Populators[i]
<1>5. /\ r \in Jobs /\ r.day = d /\ r.only = j.only
      /\ r.failed = j.failed /\ r.coreOk = j.coreOk
      /\ r.at \in {"populate", "count", "merge"}
      /\ r.at # "populate" => r.todo = {}
      /\ r.at = "count" => RunsCore(j)
      /\ TodoNames(r) \subseteq TodoNames(j)
      /\ TodoNames(j) \subseteq TodoNames(r) \cup {n}
      /\ n \in TodoNames(j) /\ n \in Names
  BY <1>2, <1>4, AfterOne
<1> HIDE DEF n
<1>6. job' = [job EXCEPT ![p] = r]
  BY <1>3, <1>4
<1>7. /\ good' \in [Days -> SUBSET Part]
      /\ \A e \in Days : good'[e] = IF e = d THEN good[e] \cup {n} ELSE good[e]
  <2>1. good \in [Days -> SUBSET Part]
    BY DEF Types, DaysTyped
  <2>2. n \in Part
    BY <1>5 DEF Part, Names
  <2>3. good' = [good EXCEPT ![d] = good[d] \cup {n}]
    BY <1>3 DEF n
  <2> QED
    BY <1>2, <2>1, <2>2, <2>3
<1>8. /\ rollup' \in [Days -> [CoreInputs -> {"none", "some", "all"}]]
      /\ \A e \in Days, c \in CoreInputs :
           rollup'[e][c] = IF e = d /\ c = n THEN "all" ELSE rollup[e][c]
  <2>1. rollup \in [Days -> [CoreInputs -> {"none", "some", "all"}]]
    BY DEF Types, DaysTyped
  <2>2. CASE n \in CoreInputs
    <3>1. PICK row : row = [rollup[d] EXCEPT ![n] = "all"]
      OBVIOUS
    <3>2. row \in [CoreInputs -> {"none", "some", "all"}]
      BY <1>2, <2>1, <3>1
    <3>3. rollup' = [rollup EXCEPT ![d] = row]
      BY <1>3, <2>2, <3>1 DEF n
    <3> QED
      BY <1>2, <2>1, <2>2, <3>1, <3>2, <3>3
  <2>3. CASE n \notin CoreInputs
    BY <1>3, <2>1, <2>3 DEF n
  <2> QED
    BY <2>2, <2>3
<1>9. /\ metric' \in [Days -> Rows]
      /\ \A e \in Days : /\ metric'[e].coreDone = metric[e].coreDone
                         /\ metric'[e].done = metric[e].done
  <2>1. metric \in [Days -> Rows]
    BY DEF Types, DaysTyped
  <2> QED
    BY <1>2, <1>3, <2>1 DEF Rows
<1>10. DaysTyped'
  BY <1>7, <1>8, <1>9 DEF DaysTyped
<1>11. Types'
  BY <1>1, <1>2, <1>5, <1>6, <1>10, JobStepTypes DEF Types, ClockTyped
<1>12. JobIsRight(r)'
  <2>1. Names \cup {"core"} # {} /\ good[d] \subseteq good'[d] /\ n \in good'[d]
    BY <1>2, <1>7
  <2>2. \A m \in IF j.only = {} THEN Names ELSE j.only :
          m \in TodoNames(r) \cup j.failed \cup good'[d]
    BY <1>1, <1>2, <1>5, <2>1 DEF JobIsRight
  <2>3. TodoNames(r)' = TodoNames(r)
    BY DEF TodoNames
  <2> QED
    BY <1>1, <1>2, <1>5, <2>1, <2>2, <2>3 DEF JobIsRight
<1>13. \A e \in Days : DayIsRight(e)'
  BY <1>1, <1>2, <1>7, <1>8, <1>9 DEF DayIsRight
<1>14. Marks'
  BY <1>1, <1>2, <1>5, <1>6, <1>7, <1>12, <1>13, JobStepMarks
<1>15. shards = 0 /\ p = "beat" =>
         CountsOfJob(r)' /\ \A e \in Days : CountsOfDay(e)'
  <2>1. SUFFICES ASSUME shards = 0, p = "beat"
                 PROVE  CountsOfJob(r)' /\ \A e \in Days : CountsOfDay(e)'
    OBVIOUS
  <2>2. RunsCore(r) = RunsCore(j)
    BY <1>5 DEF RunsCore
  <2>3. CountsOfJob(j) /\ \A e \in Days : CountsOfDay(e)
    BY <1>2, <2>1
  <2>4. RunsCore(j) => ~state[d].coreOk
    BY <1>1, <2>3 DEF CountsOfJob
  <2>5. ~RunsCore(j) => n \notin CoreInputs
    BY <1>5, <2>3 DEF CountsOfJob
  <2>6. \A e \in Days : CountsOfDay(e)'
    BY <1>1, <1>2, <1>7, <1>9, <2>3, <2>4, <2>5 DEF CountsOfDay, DayIsRight
  <2>7. CountsOfJob(r)'
    BY <1>1, <1>5, <2>2, <2>3, <2>4 DEF CountsOfJob, TodoNames, RunsCore
  <2> QED
    BY <2>6, <2>7
<1>16. Counts'
  BY <1>1, <1>2, <1>5, <1>6, <1>15, JobStepCounts
<1> QED
  BY <1>11, <1>14, <1>16

LEMMA PopulateFailsKeeps ==
  ASSUME Types, Marks, Counts, NEW p \in Callers, PopulateFails(p)
  PROVE  Types' /\ Marks' /\ Counts'
<1> DEFINE j == job[p]
           d == j.day
<1>1. /\ j.at = "populate" /\ faults < MaxFaults /\ faults' = faults + 1
      /\ UNCHANGED <<hour, settled, metric, good, state, beat, sweeps, backfill,
                     shards, tries, seen, wasDone, reports>>
  BY DEF PopulateFails, ghostVars
<1>2. /\ j \in Jobs /\ d \in Days /\ j.only \subseteq Names
      /\ JobIsRight(j) /\ \A e \in Days : DayIsRight(e)
      /\ shards = 0 /\ p = "beat" =>
           CountsOfJob(j) /\ \A e \in Days : CountsOfDay(e)
  BY <1>1, BusyJob
<1>3. PICK i \in Least(j.todo) :
        /\ job' = [job EXCEPT ![p] = [AfterPopulators(j, i) EXCEPT
                                        !.failed = @ \cup {Populators[i]}]]
        /\ \/ UNCHANGED rollup
           \/ /\ Populators[i] \in CoreInputs /\ rollup[d][Populators[i]] = "none"
              /\ rollup' = [rollup EXCEPT ![d][Populators[i]] = "some"]
  BY DEF PopulateFails
<1>4. PICK a : a = AfterPopulators(j, i)
  OBVIOUS
<1>5. PICK r : r = [a EXCEPT !.failed = a.failed \cup {Populators[i]}]
  OBVIOUS
<1> DEFINE n == Populators[i]
<1>6. /\ r \in Jobs /\ r.day = d /\ r.only = j.only
      /\ r.failed = j.failed \cup {n} /\ r.coreOk = j.coreOk
      /\ r.at \in {"populate", "count", "merge"}
      /\ r.at # "populate" => r.todo = {}
      /\ r.at = "count" => RunsCore(j)
      /\ TodoNames(r) \subseteq TodoNames(j)
      /\ TodoNames(j) \subseteq TodoNames(r) \cup {n}
  <2>1. /\ a \in Jobs /\ a.day = d /\ a.only = j.only
        /\ a.failed = j.failed /\ a.coreOk = j.coreOk
        /\ a.at \in {"populate", "count", "merge"}
        /\ a.at # "populate" => a.todo = {}
        /\ a.at = "count" => RunsCore(j)
        /\ TodoNames(a) \subseteq TodoNames(j)
        /\ TodoNames(j) \subseteq TodoNames(a) \cup {n}
        /\ n \in Names
    BY <1>2, <1>4, AfterOne
  <2> HIDE DEF n
  <2>2. /\ r.day = a.day /\ r.only = a.only /\ r.coreOk = a.coreOk
        /\ r.at = a.at /\ r.todo = a.todo /\ r.failed = j.failed \cup {n}
    BY <1>5, <2>1 DEF Jobs, n
  <2>3. r \in Jobs
    <3>1. a.failed \cup {n} \in SUBSET Names
      BY <2>1 DEF Jobs
    <3> QED
      BY <1>5, <2>1, <3>1 DEF Jobs, n
  <2> QED
    BY <2>1, <2>2, <2>3 DEF TodoNames
<1> HIDE DEF n
<1>7. job' = [job EXCEPT ![p] = r]
  BY <1>3, <1>4, <1>5
<1>8. /\ rollup' \in [Days -> [CoreInputs -> {"none", "some", "all"}]]
      /\ \A e \in Days, c \in CoreInputs :
           \/ rollup'[e][c] = rollup[e][c]
           \/ rollup[e][c] = "none" /\ e = d
  <2>1. rollup \in [Days -> [CoreInputs -> {"none", "some", "all"}]]
    BY DEF Types, DaysTyped
  <2>2. CASE n \in CoreInputs /\ rollup[d][n] = "none"
             /\ rollup' = [rollup EXCEPT ![d][n] = "some"]
    <3>1. PICK row : row = [rollup[d] EXCEPT ![n] = "some"]
      OBVIOUS
    <3>2. row \in [CoreInputs -> {"none", "some", "all"}]
      BY <1>2, <2>1, <3>1
    <3>3. rollup' = [rollup EXCEPT ![d] = row]
      BY <2>2, <3>1
    <3> QED
      BY <1>2, <2>1, <2>2, <3>1, <3>2, <3>3
  <2>3. CASE UNCHANGED rollup
    BY <2>1, <2>3
  <2> QED
    BY <1>3, <2>2, <2>3 DEF n
<1>9. DaysTyped' /\ faults' \in 0 .. MaxFaults
  BY <1>1, <1>8, BoundsType DEF Types, DaysTyped, ClockTyped
<1>10. Types'
  BY <1>1, <1>2, <1>6, <1>7, <1>9, JobStepTypes DEF Types, ClockTyped
<1>11. JobIsRight(r)'
  <2>1. \A m \in IF j.only = {} THEN Names ELSE j.only :
          m \in TodoNames(r) \cup r.failed \cup good[d]
    BY <1>1, <1>2, <1>6 DEF JobIsRight
  <2>2. TodoNames(r)' = TodoNames(r)
    BY DEF TodoNames
  <2> QED
    BY <1>1, <1>2, <1>6, <2>1, <2>2 DEF JobIsRight
<1>12. \A e \in Days : DayIsRight(e)'
  BY <1>1, <1>2, <1>8 DEF DayIsRight
<1>13. Marks'
  BY <1>1, <1>2, <1>6, <1>7, <1>11, <1>12, JobStepMarks
<1>14. shards = 0 /\ p = "beat" =>
         CountsOfJob(r)' /\ \A e \in Days : CountsOfDay(e)'
  <2>1. SUFFICES ASSUME shards = 0, p = "beat"
                 PROVE  CountsOfJob(r)' /\ \A e \in Days : CountsOfDay(e)'
    OBVIOUS
  <2>2. RunsCore(r) = RunsCore(j)
    BY <1>6 DEF RunsCore
  <2>3. CountsOfJob(j) /\ \A e \in Days : CountsOfDay(e)
    BY <1>2, <2>1
  <2>4. \A e \in Days : CountsOfDay(e)'
    BY <1>1, <2>3 DEF CountsOfDay
  <2>5. CountsOfJob(r)'
    BY <1>1, <1>6, <2>2, <2>3 DEF CountsOfJob, TodoNames, RunsCore
  <2> QED
    BY <2>4, <2>5
<1>15. Counts'
  BY <1>1, <1>2, <1>6, <1>7, <1>14, JobStepCounts
<1> QED
  BY <1>10, <1>13, <1>15

LEMMA CountInputsKeeps ==
  ASSUME Types, Marks, Counts, NEW p \in Callers, CountInputs(p)
  PROVE  Types' /\ Marks' /\ Counts'
<1> DEFINE j == job[p]
           d == j.day
<1>1. /\ j.at = "count"
      /\ UNCHANGED <<hour, settled, metric, rollup, good, state, beat, sweeps,
                     backfill, faults, shards, tries, seen, wasDone, reports>>
  BY DEF CountInputs, dayVars, boundVars, ghostVars
<1>2. /\ j \in Jobs /\ d \in Days /\ j.only \subseteq Names
      /\ JobIsRight(j) /\ \A e \in Days : DayIsRight(e)
      /\ shards = 0 /\ p = "beat" =>
           CountsOfJob(j) /\ \A e \in Days : CountsOfDay(e)
  BY <1>1, BusyJob
<1>3. PICK r : r = [j EXCEPT !.at = "core",
                      !.partial = \E i \in CoreInputs : rollup[d][i] = "some"]
  OBVIOUS
<1>4. /\ r \in Jobs /\ r.day = d /\ r.only = j.only /\ r.todo = j.todo
      /\ r.failed = j.failed /\ r.coreOk = j.coreOk /\ r.at = "core"
      /\ r.partial => \E i \in CoreInputs : rollup[d][i] = "some"
  BY <1>2, <1>3 DEF Jobs
<1>5. job' = [job EXCEPT ![p] = r]
  BY <1>3 DEF CountInputs
<1>6. Types'
  BY <1>1, <1>2, <1>4, <1>5, JobStepTypes DEF Types, DaysTyped, ClockTyped
<1>7. JobIsRight(r)'
  BY <1>1, <1>2, <1>4 DEF JobIsRight, TodoNames
<1>8. \A e \in Days : DayIsRight(e)'
  BY <1>1, <1>2 DEF DayIsRight
<1>9. Marks'
  BY <1>1, <1>2, <1>4, <1>5, <1>7, <1>8, JobStepMarks
<1>10. shards = 0 /\ p = "beat" =>
         CountsOfJob(r)' /\ \A e \in Days : CountsOfDay(e)'
  BY <1>1, <1>2, <1>4 DEF CountsOfJob, CountsOfDay, TodoNames, RunsCore
<1>11. Counts'
  BY <1>1, <1>2, <1>4, <1>5, <1>10, JobStepCounts
<1> QED
  BY <1>6, <1>9, <1>11

(* The counts of a row are taken back only while some rollup is missing,   *)
(* which no completed day can be.                                          *)
LEMMA ComputeCoreKeeps ==
  ASSUME Types, Marks, Counts, NEW p \in Callers, ComputeCore(p)
  PROVE  Types' /\ Marks' /\ Counts'
<1> DEFINE j == job[p]
           d == j.day
<1>1. /\ j.at = "core"
      /\ UNCHANGED <<hour, settled, rollup, state, beat, sweeps, backfill,
                     faults, shards, tries, seen, wasDone, reports>>
  BY DEF ComputeCore, boundVars, ghostVars
<1>2. /\ j \in Jobs /\ d \in Days /\ j.only \subseteq Names
      /\ JobIsRight(j) /\ \A e \in Days : DayIsRight(e)
      /\ shards = 0 /\ p = "beat" =>
           CountsOfJob(j) /\ \A e \in Days : CountsOfDay(e)
  BY <1>1, BusyJob
<1>3. PICK r : r = [j EXCEPT !.at = "merge", !.coreOk = TRUE]
  OBVIOUS
<1>4. /\ r \in Jobs /\ r.day = d /\ r.only = j.only /\ r.todo = j.todo
      /\ r.failed = j.failed /\ r.coreOk /\ r.at = "merge"
  BY <1>2, <1>3 DEF Jobs
<1>5. job' = [job EXCEPT ![p] = r]
  <2>1. job' = [job EXCEPT ![p].at = "merge", ![p].coreOk = TRUE]
    BY DEF ComputeCore
  <2>2. job \in [Callers -> {NoJob} \cup Jobs]
    BY DEF Types
  <2> QED
    BY <1>3, <2>1, <2>2
<1>6. /\ metric' \in [Days -> Rows]
      /\ \A e \in Days : /\ metric'[e].coreDone = metric[e].coreDone
                         /\ metric'[e].done = metric[e].done
  <2>1. metric \in [Days -> Rows] /\ metric' = [metric EXCEPT ![d].exists = TRUE]
    BY DEF Types, DaysTyped, ComputeCore
  <2> QED
    BY <1>2, <2>1 DEF Rows
<1>7. /\ good' \in [Days -> SUBSET Part]
      /\ \A e \in Days : good[e] \ {"counts"} \subseteq good'[e]
      /\ \A e \in Days \ {d} : good'[e] = good[e]
      /\ "core" \in good'[d] /\ good'[d] \subseteq good[d] \cup {"core", "counts"}
      /\ ~j.partial => "counts" \in good'[d]
  <2>1. good \in [Days -> SUBSET Part] /\ {"core", "counts"} \subseteq Part
    BY DEF Types, DaysTyped, Part
  <2>2. PICK g : g = IF j.partial THEN (good[d] \cup {"core"}) \ {"counts"}
                     ELSE good[d] \cup {"core", "counts"}
    OBVIOUS
  <2>3. good' = [good EXCEPT ![d] = g]
    BY <2>2 DEF ComputeCore
  <2>4. g \in SUBSET Part
    BY <1>2, <2>1, <2>2
  <2> QED
    BY <1>2, <2>1, <2>2, <2>3, <2>4
<1>8. "counts" \notin Names /\ CoreInputs \subseteq Names /\ TxVolume \in Names
      /\ "core" \notin Names
  BY PopulatorsType DEF Names
<1>9. Types'
  <2>1. DaysTyped'
    BY <1>1, <1>6, <1>7 DEF Types, DaysTyped
  <2> QED
    BY <1>1, <1>2, <1>4, <1>5, <2>1, JobStepTypes DEF Types, ClockTyped
<1>10. JobIsRight(r)'
  <2>1. good[d] \cap Names \subseteq good'[d]
    BY <1>2, <1>7, <1>8
  <2>2. TodoNames(r)' = TodoNames(j)
    BY <1>4 DEF TodoNames
  <2>3. j.todo = {} /\ j.only \subseteq Names
    BY <1>1, <1>2 DEF JobIsRight
  <2>4. \A n \in IF j.only = {} THEN Names ELSE j.only :
          n \in TodoNames(j) \cup j.failed \cup good'[d]
    BY <1>1, <1>2, <2>1 DEF JobIsRight
  <2>5. j.only # {} => Names \ state[d].failed \subseteq good'[d]
    BY <1>2, <2>1 DEF JobIsRight
  <2> QED
    BY <1>1, <1>4, <1>7, <2>2, <2>3, <2>4, <2>5 DEF JobIsRight
<1>11. ASSUME NEW e \in Days PROVE DayIsRight(e)'
  <2>1. /\ good[e] \cap (Names \cup {"core"}) \subseteq good'[e]
        /\ \A i \in CoreInputs : i \in good'[e] => i \in good[e]
    <3>1. CASE e = d
      BY <1>2, <1>7, <1>8, <3>1
    <3>2. CASE e # d
      BY <1>7, <1>8, <3>2
    <3> QED
      BY <3>1, <3>2
  <2> QED
    BY <1>1, <1>2, <1>6, <1>8, <2>1 DEF DayIsRight
<1>12. Marks'
  <2>1. \A e \in Days : good[e] \cap (Names \cup {"core"}) \subseteq good'[e]
    BY <1>7, <1>8
  <2> QED
    BY <1>1, <1>2, <1>4, <1>5, <1>10, <1>11, <2>1, JobStepMarks
<1>13. shards = 0 /\ p = "beat" =>
         CountsOfJob(r)' /\ \A e \in Days : CountsOfDay(e)'
  <2>1. SUFFICES ASSUME shards = 0, p = "beat"
                 PROVE  CountsOfJob(r)' /\ \A e \in Days : CountsOfDay(e)'
    OBVIOUS
  <2>2. CountsOfJob(j) /\ \A e \in Days : CountsOfDay(e)
    BY <1>2, <2>1
  <2>3. "counts" \in good'[d] \/ ~(CoreInputs \subseteq good'[d])
    <3>1. CASE j.partial
      <4>1. PICK i \in CoreInputs : rollup[d][i] = "some"
        BY <1>1, <2>2, <3>1 DEF CountsOfJob
      <4>2. i \notin good[d]
        BY <1>2, <4>1 DEF DayIsRight
      <4> QED
        BY <1>7, <1>8, <4>1, <4>2
    <3>2. CASE ~j.partial
      BY <1>7, <3>2
    <3> QED
      BY <3>1, <3>2
  <2>4. metric[d].done => CoreInputs \subseteq good'[d]
    BY <1>2, <1>7, <1>8 DEF DayIsRight
  <2>5. \A e \in Days : CountsOfDay(e)'
    BY <1>1, <1>2, <1>6, <1>7, <2>2, <2>3, <2>4 DEF CountsOfDay
  <2>6. RunsCore(j) /\ RunsCore(r)
    BY <1>1, <1>4, <2>2 DEF CountsOfJob, RunsCore
  <2>7. CountsOfJob(r)'
    BY <1>4, <2>3, <2>6 DEF CountsOfJob, RunsCore
  <2> QED
    BY <2>5, <2>7
<1>14. Counts'
  BY <1>1, <1>2, <1>4, <1>5, <1>13, JobStepCounts
<1> QED
  BY <1>9, <1>12, <1>14

LEMMA CoreFailsKeeps ==
  ASSUME Types, Marks, Counts, NEW p \in Callers, CoreFails(p)
  PROVE  Types' /\ Marks' /\ Counts'
<1> DEFINE j == job[p]
           d == j.day
<1>1. /\ j.at = "core" /\ faults < MaxFaults /\ faults' = faults + 1
      /\ UNCHANGED <<hour, settled, metric, rollup, good, state, beat, sweeps,
                     backfill, shards, tries, seen, wasDone, reports>>
  BY DEF CoreFails, dayVars, ghostVars
<1>2. /\ j \in Jobs /\ d \in Days /\ j.only \subseteq Names
      /\ JobIsRight(j) /\ \A e \in Days : DayIsRight(e)
      /\ shards = 0 /\ p = "beat" =>
           CountsOfJob(j) /\ \A e \in Days : CountsOfDay(e)
  BY <1>1, BusyJob
<1>3. PICK r : r = [j EXCEPT !.at = "merge"]
  OBVIOUS
<1>4. /\ r \in Jobs /\ r.day = d /\ r.only = j.only /\ r.todo = j.todo
      /\ r.failed = j.failed /\ r.coreOk = j.coreOk /\ r.at = "merge"
  BY <1>2, <1>3 DEF Jobs
<1>5. job' = [job EXCEPT ![p] = r]
  BY <1>3 DEF CoreFails
<1>6. Types'
  <2>1. faults' \in 0 .. MaxFaults
    BY <1>1, BoundsType DEF Types, ClockTyped
  <2> QED
    BY <1>1, <1>2, <1>4, <1>5, <2>1, JobStepTypes DEF Types, DaysTyped, ClockTyped
<1>7. JobIsRight(r)'
  BY <1>1, <1>2, <1>4 DEF JobIsRight, TodoNames
<1>8. \A e \in Days : DayIsRight(e)'
  BY <1>1, <1>2 DEF DayIsRight
<1>9. Marks'
  BY <1>1, <1>2, <1>4, <1>5, <1>7, <1>8, JobStepMarks
<1>10. shards = 0 /\ p = "beat" =>
         CountsOfJob(r)' /\ \A e \in Days : CountsOfDay(e)'
  BY <1>1, <1>2, <1>4 DEF CountsOfJob, CountsOfDay, TodoNames, RunsCore
<1>11. Counts'
  BY <1>1, <1>2, <1>4, <1>5, <1>10, JobStepCounts
<1> QED
  BY <1>6, <1>9, <1>11

(* What a retry left alone has failed by the row of the day, or is there.  *)
LEMMA MergeKeeps ==
  ASSUME Types, Marks, Counts, NEW p \in Callers, Merge(p)
  PROVE  Types' /\ Marks' /\ Counts'
<1> DEFINE j == job[p]
           d == j.day
           prior == state[d]
<1>1. /\ j.at = "merge"
      /\ UNCHANGED <<hour, settled, metric, rollup, good, state, beat, sweeps,
                     backfill, faults, shards, tries, seen, wasDone, reports>>
  BY DEF Merge, dayVars, boundVars, ghostVars
<1>2. /\ j \in Jobs /\ d \in Days /\ j.only \subseteq Names
      /\ JobIsRight(j) /\ \A e \in Days : DayIsRight(e)
      /\ shards = 0 /\ p = "beat" =>
           CountsOfJob(j) /\ \A e \in Days : CountsOfDay(e)
  BY <1>1, BusyJob
<1>3. PICK r : r = IF j.only = {} THEN [j EXCEPT !.at = "mark"]
                   ELSE [j EXCEPT !.at = "mark",
                           !.coreOk = IF RunsCore(j) THEN j.coreOk ELSE prior.coreOk,
                           !.failed = (prior.failed \ j.only) \cup j.failed]
  OBVIOUS
<1>4. /\ r \in Jobs /\ r.day = d /\ r.only = j.only /\ r.todo = j.todo
      /\ r.at = "mark"
      /\ j.only = {} => r.failed = j.failed /\ r.coreOk = j.coreOk
      /\ j.only # {} =>
           /\ r.failed = (prior.failed \ j.only) \cup j.failed
           /\ r.coreOk = IF RunsCore(j) THEN j.coreOk ELSE prior.coreOk
  <2>1. prior \in StateRows /\ prior.coreOk \in BOOLEAN /\ prior.failed \subseteq Names
    BY <1>2 DEF Types, StateRows
  <2>2. (prior.failed \ j.only) \cup j.failed \in SUBSET Names
    BY <1>2, <2>1 DEF Jobs
  <2> HIDE DEF prior
  <2>3. CASE j.only = {}
    BY <1>2, <1>3, <2>3 DEF Jobs
  <2>4. CASE j.only # {}
    <3>1. PICK c \in BOOLEAN : c = IF RunsCore(j) THEN j.coreOk ELSE prior.coreOk
      BY <1>2, <2>1 DEF Jobs
    <3>2. PICK f \in SUBSET Names : f = (prior.failed \ j.only) \cup j.failed
      BY <2>2
    <3>3. r = [j EXCEPT !.at = "mark", !.coreOk = c, !.failed = f]
      BY <1>3, <2>4, <3>1, <3>2
    <3>4. /\ r \in Jobs /\ r.day = d /\ r.only = j.only /\ r.todo = j.todo
          /\ r.at = "mark" /\ r.failed = f /\ r.coreOk = c
      BY <1>2, <3>3 DEF Jobs
    <3> QED
      BY <2>4, <3>1, <3>2, <3>4
  <2> QED
    BY <2>3, <2>4
<1>5. job' = [job EXCEPT ![p] = r]
  BY <1>3 DEF Merge
<1>6. Types'
  BY <1>1, <1>2, <1>4, <1>5, JobStepTypes DEF Types, DaysTyped, ClockTyped
<1>7. Names \ r.failed \subseteq good[d]
  <2>1. /\ TodoNames(j) = {}
        /\ \A n \in IF j.only = {} THEN Names ELSE j.only : n \in j.failed \cup good[d]
        /\ j.only # {} => Names \ prior.failed \subseteq good[d]
    BY <1>1, <1>2 DEF JobIsRight, TodoNames
  <2> HIDE DEF prior, d
  <2> QED
    BY <1>4, <2>1
<1>8. r.coreOk => "core" \in good[d]
  BY <1>2, <1>4 DEF JobIsRight, DayIsRight, RunsCore
<1>9. JobIsRight(r)'
  <2>1. j.only # {} => Names \ prior.failed \subseteq good[d]
    BY <1>2 DEF JobIsRight
  <2> QED
    BY <1>1, <1>4, <1>7, <1>8, <2>1 DEF JobIsRight
<1>10. \A e \in Days : DayIsRight(e)'
  BY <1>1, <1>2 DEF DayIsRight
<1>11. Marks'
  BY <1>1, <1>2, <1>4, <1>5, <1>9, <1>10, JobStepMarks
<1>12. shards = 0 /\ p = "beat" =>
         CountsOfJob(r)' /\ \A e \in Days : CountsOfDay(e)'
  <2>1. SUFFICES ASSUME shards = 0, p = "beat"
                 PROVE  CountsOfJob(r)' /\ \A e \in Days : CountsOfDay(e)'
    OBVIOUS
  <2>2. CountsOfJob(j) /\ \A e \in Days : CountsOfDay(e)
    BY <1>2, <2>1
  <2>3. \A e \in Days : CountsOfDay(e)'
    BY <1>1, <2>2 DEF CountsOfDay
  <2>4. r.coreOk /\ CoreInputs \subseteq good[d] => "counts" \in good[d]
    BY <1>2, <1>4, <2>2 DEF CountsOfJob, CountsOfDay, RunsCore
  <2>5. ~RunsCore(r) => TodoNames(r) \cap CoreInputs = {}
    BY <1>4, <2>2 DEF CountsOfJob, RunsCore, TodoNames
  <2>6. CountsOfJob(r)'
    BY <1>1, <1>4, <2>4, <2>5 DEF CountsOfJob, RunsCore, TodoNames
  <2> QED
    BY <2>3, <2>6
<1>13. Counts'
  BY <1>1, <1>2, <1>4, <1>5, <1>12, JobStepCounts
<1> QED
  BY <1>6, <1>11, <1>13

LEMMA MarkKeeps ==
  ASSUME Types, Marks, Counts, NEW p \in Callers, Mark(p)
  PROVE  Types' /\ Marks' /\ Counts'
<1> DEFINE j == job[p]
           d == j.day
<1>1. /\ j.at = "mark"
      /\ UNCHANGED <<hour, settled, rollup, good, state, beat, sweeps,
                     backfill, faults, shards, tries, seen, reports>>
  BY DEF Mark, boundVars
<1>2. /\ j \in Jobs /\ d \in Days /\ j.only \subseteq Names
      /\ JobIsRight(j) /\ \A e \in Days : DayIsRight(e)
      /\ shards = 0 /\ p = "beat" =>
           CountsOfJob(j) /\ \A e \in Days : CountsOfDay(e)
  BY <1>1, BusyJob
<1>3. PICK r : r = [j EXCEPT !.at = "record"]
  OBVIOUS
<1>4. /\ r \in Jobs /\ r.day = d /\ r.only = j.only /\ r.todo = j.todo
      /\ r.failed = j.failed /\ r.coreOk = j.coreOk /\ r.at = "record"
  BY <1>2, <1>3 DEF Jobs
<1>5. job' = [job EXCEPT ![p] = r]
  BY <1>3 DEF Mark
<1>6. /\ metric' \in [Days -> Rows]
      /\ \A e \in Days \ {d} : metric'[e] = metric[e]
      /\ metric'[d].coreDone => metric[d].coreDone \/ (j.coreOk /\ TxVolume \notin j.failed)
      /\ metric'[d].done => metric[d].done \/ Done(j)
  <2>1. metric \in [Days -> Rows]
    BY DEF Types, DaysTyped
  <2>2. PICK row : row = [metric[d] EXCEPT
          !.coreDone = metric[d].coreDone \/ (j.coreOk /\ TxVolume \notin j.failed),
          !.done = metric[d].done \/ Done(j)]
    OBVIOUS
  <2>3. \/ metric' = metric
        \/ metric' = [metric EXCEPT ![d] = row]
    BY <1>2, <2>1, <2>2 DEF Mark
  <2>4. /\ row \in Rows
        /\ row.coreDone => metric[d].coreDone \/ (j.coreOk /\ TxVolume \notin j.failed)
        /\ row.done => metric[d].done \/ Done(j)
    BY <1>2, <2>1, <2>2 DEF Rows
  <2> QED
    BY <1>2, <2>1, <2>3, <2>4
<1>7. wasDone' \subseteq Days
  BY <1>2 DEF Mark, Types, ClockTyped
<1>8. Types'
  BY <1>1, <1>2, <1>4, <1>5, <1>6, <1>7, JobStepTypes DEF Types, DaysTyped, ClockTyped
<1>9. JobIsRight(r)'
  BY <1>1, <1>2, <1>4 DEF JobIsRight
<1>10. /\ j.coreOk => "core" \in good[d]
       /\ Names \ j.failed \subseteq good[d] /\ TxVolume \in Names
  BY <1>1, <1>2, PopulatorsType DEF JobIsRight, Names
<1>11. ASSUME NEW e \in Days PROVE DayIsRight(e)'
  <2>1. metric'[e].coreDone => {"core", TxVolume} \subseteq good[e]
    BY <1>2, <1>6, <1>10 DEF DayIsRight
  <2>2. metric'[e].done => Names \cup {"core"} \subseteq good[e]
    BY <1>2, <1>6, <1>10 DEF DayIsRight, Done
  <2> QED
    BY <1>1, <1>2, <2>1, <2>2 DEF DayIsRight
<1>12. Marks'
  BY <1>1, <1>2, <1>4, <1>5, <1>9, <1>11, JobStepMarks
<1>13. shards = 0 /\ p = "beat" =>
         CountsOfJob(r)' /\ \A e \in Days : CountsOfDay(e)'
  <2>1. SUFFICES ASSUME shards = 0, p = "beat"
                 PROVE  CountsOfJob(r)' /\ \A e \in Days : CountsOfDay(e)'
    OBVIOUS
  <2>2. CountsOfJob(j) /\ \A e \in Days : CountsOfDay(e)
    BY <1>2, <2>1
  <2>3. Done(j) => CoreInputs \subseteq good[d]
    BY <1>10, PopulatorsType DEF Done, Names
  <2>4. \A e \in Days : CountsOfDay(e)'
    BY <1>1, <1>2, <1>6, <2>2, <2>3 DEF CountsOfDay, CountsOfJob, Done
  <2>5. CountsOfJob(r)'
    BY <1>1, <1>4, <2>2 DEF CountsOfJob, RunsCore, TodoNames
  <2> QED
    BY <2>4, <2>5
<1>14. Counts'
  BY <1>1, <1>2, <1>4, <1>5, <1>13, JobStepCounts
<1> QED
  BY <1>8, <1>12, <1>14

LEMMA RecordKeeps ==
  ASSUME Types, Marks, Counts, NEW p \in Callers, Record(p)
  PROVE  Types' /\ Marks' /\ Counts'
<1> DEFINE j == job[p]
           d == j.day
<1>1. /\ j.at = "record"
      /\ UNCHANGED <<hour, settled, metric, rollup, good, beat, sweeps,
                     backfill, faults, shards, tries, seen, wasDone, reports>>
  BY DEF Record, dayVars, boundVars, ghostVars
<1>2. /\ j \in Jobs /\ d \in Days /\ j.only \subseteq Names
      /\ JobIsRight(j) /\ \A e \in Days : DayIsRight(e)
      /\ shards = 0 /\ p = "beat" =>
           CountsOfJob(j) /\ \A e \in Days : CountsOfDay(e)
  BY <1>1, BusyJob
<1>3. PICK r : r = [j EXCEPT !.at = "end"]
  OBVIOUS
<1>4. /\ r \in Jobs /\ r.day = d /\ r.only = j.only /\ r.todo = j.todo
      /\ r.failed = j.failed /\ r.coreOk = j.coreOk /\ r.at = "end"
  BY <1>2, <1>3 DEF Jobs
<1>5. job' = [job EXCEPT ![p] = r]
  BY <1>3 DEF Record
<1>6. /\ state' \in [Days -> StateRows]
      /\ \A e \in Days \ {d} : state'[e] = state[e]
      /\ state'[d].attempts = state[d].attempts
      /\ state'[d].known = state[d].known
      /\ \/ state'[d] = state[d]
         \/ /\ state'[d].known
            /\ state'[d].coreOk = j.coreOk /\ state'[d].failed = j.failed
  <2>1. state \in [Days -> StateRows]
    BY DEF Types
  <2>2. PICK row : row = [state[d] EXCEPT !.coreOk = j.coreOk, !.failed = j.failed]
    OBVIOUS
  <2>3. \/ state' = state
        \/ state[d].known /\ state' = [state EXCEPT ![d] = row]
    BY <1>2, <2>1, <2>2 DEF Record
  <2>4. j.coreOk \in BOOLEAN /\ j.failed \in SUBSET Names
    BY <1>2 DEF Jobs
  <2>5. /\ row \in StateRows /\ row.coreOk = j.coreOk /\ row.failed = j.failed
        /\ row.attempts = state[d].attempts /\ row.known = state[d].known
    BY <1>2, <2>1, <2>2, <2>4 DEF StateRows
  <2> QED
    BY <1>2, <2>1, <2>3, <2>5
<1>7. \A e \in Days : state'[e].attempts = state[e].attempts
  BY <1>6
<1>8. Types'
  BY <1>1, <1>2, <1>4, <1>5, <1>6, <1>7, JobStepTypes DEF Types, DaysTyped, ClockTyped
<1>9. /\ j.coreOk => "core" \in good[d]
      /\ Names \ j.failed \subseteq good[d]
      /\ j.only # {} => Names \ state[d].failed \subseteq good[d]
  BY <1>1, <1>2 DEF JobIsRight
<1>10. JobIsRight(r)'
  BY <1>1, <1>4, <1>6, <1>9 DEF JobIsRight
<1>11. \A e \in Days : DayIsRight(e)'
  BY <1>1, <1>2, <1>6, <1>9 DEF DayIsRight
<1>12. \A e \in Days : \/ state'[e].failed = state[e].failed
                       \/ Names \ state'[e].failed \subseteq good'[e]
  BY <1>1, <1>6, <1>9
<1>13. Marks'
  BY <1>1, <1>2, <1>4, <1>5, <1>10, <1>11, <1>12, JobStepMarks
<1>14. shards = 0 /\ p = "beat" =>
         CountsOfJob(r)' /\ \A e \in Days : CountsOfDay(e)'
  <2>1. SUFFICES ASSUME shards = 0, p = "beat"
                 PROVE  CountsOfJob(r)' /\ \A e \in Days : CountsOfDay(e)'
    OBVIOUS
  <2>2. CountsOfJob(j) /\ \A e \in Days : CountsOfDay(e)
    BY <1>2, <2>1
  <2>3. \A e \in Days : CountsOfDay(e)'
    BY <1>1, <1>6, <2>2 DEF CountsOfDay, CountsOfJob
  <2>4. CountsOfJob(r)'
    BY <1>1, <1>4, <2>2 DEF CountsOfJob, RunsCore, TodoNames
  <2> QED
    BY <2>3, <2>4
<1>15. Counts'
  BY <1>1, <1>2, <1>4, <1>5, <1>14, JobStepCounts
<1> QED
  BY <1>8, <1>13, <1>15

-----------------------------------------------------------------------------
(***************************************************************************)
(* The tasks that have days computed.                                      *)
(***************************************************************************)
LEMMA NewJobIsRight ==
  ASSUME NEW d \in Days, NEW only \in SUBSET Names,
         only # {} => Names \ state[d].failed \subseteq good[d],
         NEW r, r = NewJob(d, only)
  PROVE  /\ r \in Jobs /\ r # NoJob /\ r.day = d /\ r.only = only
         /\ JobIsRight(r) /\ CountsOfJob(r)
<1>1. /\ r \in Jobs /\ r.at = "clear" /\ r.day = d /\ r.only = only
      /\ r.todo = {i \in DOMAIN Populators : only = {} \/ Populators[i] \in only}
      /\ ~r.coreOk
  BY DEF NewJob, Jobs
<1>2. r # NoJob
  BY <1>1 DEF NoJob
<1>3. TodoNames(r) = IF only = {} THEN Names ELSE only
  BY <1>1 DEF TodoNames, Names, Range
<1>4. JobIsRight(r)
  BY <1>1, <1>3 DEF JobIsRight
<1>5. CountsOfJob(r)
  BY <1>1, <1>3 DEF CountsOfJob, RunsCore
<1> QED
  BY <1>1, <1>2, <1>4, <1>5

LEMMA SameJob ==
  ASSUME NEW j \in Jobs, JobIsRight(j), UNCHANGED good,
         j.only = {} \/ state'[j.day].failed = state[j.day].failed
  PROVE  JobIsRight(j)'
BY DEF JobIsRight, TodoNames

LEMMA SameCounts ==
  ASSUME NEW j \in Jobs, CountsOfJob(j), UNCHANGED <<good, rollup>>,
         state'[j.day].coreOk => state[j.day].coreOk
  PROVE  CountsOfJob(j)'
BY DEF CountsOfJob, TodoNames, RunsCore

(* What a step that computes nothing has to keep.                          *)
LEMMA ControlKeeps ==
  ASSUME Types, Marks, Counts, UNCHANGED dayVars, ClockTyped', BeatTyped',
         shards \in Nat, shards' \in {shards, shards + 1},
         state' \in [Days -> StateRows],
         \A d \in Days : state'[d].coreOk =>
           /\ state[d].coreOk /\ state'[d].failed = state[d].failed
           /\ state'[d].known,
         job' \in [Callers -> {NoJob} \cup Jobs],
         \A p \in Callers : job'[p] # NoJob => JobIsRight(job[p])',
         job'["shard"] # NoJob => job'["shard"].only = {},
         beat'.task = "sweep" => \A d \in beat'.days :
           beat'.only[d] # {} => Names \ state'[d].failed \subseteq good[d],
         shards' = 0 =>
           /\ job'["shard"] \in {job["shard"], NoJob}
           /\ job'["beat"] # NoJob => CountsOfJob(job["beat"])'
  PROVE  Types' /\ Marks' /\ Counts'
<1>1. UNCHANGED <<metric, rollup, good>>
  BY DEF dayVars
<1>2. Types'
  BY <1>1 DEF Types, DaysTyped
<1>3. \A d \in Days : DayIsRight(d)'
  BY <1>1 DEF Marks, DayIsRight
<1>4. Marks'
  BY <1>1, <1>3 DEF Marks
<1>5. shards' = 0 => shards = 0
  OBVIOUS
<1>6. Counts'
  BY <1>1, <1>5 DEF Counts, CountsOfDay
<1> QED
  BY <1>2, <1>4, <1>6

LEMMA QuietKeeps ==
  ASSUME Types, Marks, Counts, UNCHANGED <<dayVars, state, job, beat, shards>>,
         ClockTyped'
  PROVE  Types' /\ Marks' /\ Counts'
<1>1. UNCHANGED <<metric, rollup, good>>
  BY DEF dayVars
<1>2. Types'
  BY <1>1 DEF Types, DaysTyped, BeatTyped
<1>3. Marks'
  BY <1>1 DEF Marks, DayIsRight, JobIsRight, TodoNames
<1>4. Counts'
  BY <1>1 DEF Counts, CountsOfDay, CountsOfJob, TodoNames, RunsCore
<1> QED
  BY <1>2, <1>3, <1>4

(* Both jobs, as they are before a step.                                   *)
LEMMA BothJobs ==
  ASSUME Types, Marks, Counts
  PROVE  /\ shards \in Nat /\ Callers = {"beat", "shard"}
         /\ job \in [Callers -> {NoJob} \cup Jobs]
         /\ \A p \in Callers : job[p] # NoJob =>
              job[p] \in Jobs /\ job[p].day \in Days /\ JobIsRight(job[p])
         /\ job["shard"] # NoJob => job["shard"].only = {}
         /\ shards = 0 => job["shard"] = NoJob
         /\ shards = 0 /\ job["beat"] # NoJob => CountsOfJob(job["beat"])
<1>1. shards \in Nat
  BY BoundsType DEF Types, ClockTyped
<1>2. job \in [Callers -> {NoJob} \cup Jobs]
  BY DEF Types
<1>3. \A p \in Callers : job[p] # NoJob => job[p] \in Jobs /\ job[p].day \in Days
  BY <1>2 DEF Jobs
<1> QED
  BY <1>1, <1>2, <1>3 DEF Marks, Counts, Callers

LEMMA StartNightlyKeeps ==
  ASSUME Types, Marks, Counts, StartNightly
  PROVE  Types' /\ Marks' /\ Counts'
<1>1. /\ beat.task = "none" /\ beat' = [task |-> "nightly"]
      /\ UNCHANGED <<hour, settled, dayVars, state, sweeps, backfill, faults,
                     shards, tries, seen, wasDone, reports, good, rollup>>
  BY DEF StartNightly, boundVars, ghostVars, dayVars
<1>2. PICK d \in Days : job' = [job EXCEPT !["beat"] = NewJob(d, {})]
  BY DEF StartNightly
<1>3. PICK r : r = NewJob(d, {})
  OBVIOUS
<1>4. /\ r \in Jobs /\ r # NoJob /\ r.only = {} /\ JobIsRight(r) /\ CountsOfJob(r)
  BY <1>3, NewJobIsRight
<1>5. JobIsRight(r)' /\ CountsOfJob(r)'
  BY <1>1, <1>4, SameJob, SameCounts
<1>6. /\ job' \in [Callers -> {NoJob} \cup Jobs]
      /\ job'["beat"] = r /\ job'["shard"] = job["shard"]
  BY <1>2, <1>3, <1>4, BothJobs
<1>7. job'["shard"] # NoJob => JobIsRight(job["shard"])'
  BY <1>1, <1>6, BothJobs, SameJob
<1>8. BeatTyped' /\ ClockTyped'
  BY <1>1 DEF Types, BeatTyped, ClockTyped
<1>10. \A e \in Days : state'[e].coreOk =>
         /\ state[e].coreOk /\ state'[e].failed = state[e].failed
         /\ state'[e].known
  BY <1>1 DEF Marks, DayIsRight
<1>9. /\ state' \in [Days -> StateRows]
      /\ shards \in Nat /\ shards' \in {shards, shards + 1}
      /\ \A p \in Callers : job'[p] # NoJob => JobIsRight(job[p])'
      /\ job'["shard"] # NoJob => job'["shard"].only = {}
      /\ beat'.task # "sweep"
  BY <1>1, <1>5, <1>6, <1>7, BothJobs DEF Types
<1> QED
  BY <1>1, <1>5, <1>6, <1>8, <1>9, <1>10, ControlKeeps

(* A job is dropped: at the end, by a crash, or with the whole task.       *)
LEMMA JobEndsKeeps ==
  ASSUME Types, Marks, Counts, NEW p \in Callers,
         job' = [job EXCEPT ![p] = NoJob],
         beat' = beat \/ (p = "beat" /\ beat' = NoBeat),
         state' \in [Days -> StateRows],
         \A d \in Days : state'[d] # state[d] =>
           /\ p = "beat" /\ ~state'[d].coreOk /\ state'[d].attempts = 0
           /\ beat'.task = "sweep" => d \notin beat'.days,
         UNCHANGED <<dayVars, shards>>, ClockTyped'
  PROVE  Types' /\ Marks' /\ Counts'
<1>1. UNCHANGED <<metric, rollup, good>>
  BY DEF dayVars
<1>2. /\ job' \in [Callers -> {NoJob} \cup Jobs]
      /\ job'[p] = NoJob /\ \A q \in Callers \ {p} : job'[q] = job[q]
  BY BothJobs
<1>3. ASSUME NEW q \in Callers, job'[q] # NoJob
      PROVE  JobIsRight(job[q])' /\ (CountsOfJob(job[q]) => CountsOfJob(job[q])')
  <2>1. /\ q # p /\ job'[q] = job[q] /\ job[q] \in Jobs /\ job[q].day \in Days
        /\ JobIsRight(job[q])
    BY <1>2, <1>3, BothJobs
  <2>2. CASE state'[job[q].day] = state[job[q].day]
    <3>1. PICK j : j = job[q]
      OBVIOUS
    <3>2. JobIsRight(j)'
      BY <1>1, <2>1, <2>2, <3>1, SameJob
    <3>3. CountsOfJob(j) => CountsOfJob(j)'
      BY <1>1, <2>1, <2>2, <3>1, SameCounts
    <3> QED
      BY <2>1, <3>1, <3>2, <3>3
  <2>3. CASE state'[job[q].day] # state[job[q].day]
    <3>1. p = "beat" /\ q # "beat"
      BY <2>1, <2>3
    <3>2. q = "shard"
      BY <3>1 DEF Callers
    <3>3. job[q].only = {}
      BY <1>2, <1>3, <2>1, <3>2, BothJobs
    <3>4. PICK j : j = job[q]
      OBVIOUS
    <3>5. JobIsRight(j)'
      BY <1>1, <2>1, <3>3, <3>4, SameJob
    <3>6. CountsOfJob(j) => CountsOfJob(j)'
      BY <1>1, <2>1, <2>3, <3>4, SameCounts
    <3> QED
      BY <2>1, <3>4, <3>5, <3>6
  <2> QED
    BY <2>2, <2>3
<1>4. BeatTyped'
  <2>1. beat' \in {NoBeat, [task |-> "nightly"]} \cup Sweep
    BY DEF Types, BeatTyped
  <2>2. beat'.task = "none" => job'["beat"] = NoJob
    BY <1>2 DEF Types, BeatTyped, NoBeat, Callers
  <2>3. ASSUME beat'.task = "sweep", NEW d \in beat'.days
        PROVE  /\ state'[d].attempts < MaxAttempts
               /\ job'["beat"] # NoJob => job'["beat"].day # d
    <3>1. beat' = beat /\ d \in Days
      BY <2>3 DEF NoBeat, Types, BeatTyped, Sweep
    <3>2. state'[d] = state[d]
      BY <2>3, <3>1
    <3>3. job'["beat"] # NoJob => job'["beat"] = job["beat"]
      BY <1>2 DEF Callers
    <3> QED
      BY <2>3, <3>1, <3>2, <3>3 DEF Types, BeatTyped
  <2> QED
    BY <2>1, <2>2, <2>3 DEF BeatTyped
<1>5. ASSUME beat'.task = "sweep", NEW d \in beat'.days, beat'.only[d] # {}
      PROVE  Names \ state'[d].failed \subseteq good[d]
  <2>1. beat' = beat /\ d \in Days
    BY <1>5 DEF NoBeat, Types, BeatTyped, Sweep
  <2>2. state'[d] = state[d]
    BY <1>5, <2>1
  <2> QED
    BY <1>5, <2>1, <2>2 DEF Marks
<1>6. /\ shards \in Nat /\ shards' \in {shards, shards + 1}
      /\ job'["shard"] # NoJob => job'["shard"].only = {}
      /\ shards' = 0 =>
           /\ job'["shard"] \in {job["shard"], NoJob}
           /\ job'["beat"] # NoJob => CountsOfJob(job["beat"])'
  <2>1. \A q \in Callers : job'[q] \in {job[q], NoJob}
    BY <1>2
  <2> QED
    BY <1>3, <2>1, BothJobs
<1>7. \A d \in Days : state'[d].coreOk =>
        /\ state[d].coreOk /\ state'[d].failed = state[d].failed
        /\ state'[d].known
  BY DEF Marks, DayIsRight
<1> QED
  BY <1>2, <1>3, <1>4, <1>5, <1>6, <1>7, ControlKeeps

LEMMA EndNightlyKeeps ==
  ASSUME Types, Marks, Counts, EndNightly
  PROVE  Types' /\ Marks' /\ Counts'
<1>1. /\ beat' = NoBeat /\ job' = [job EXCEPT !["beat"] = NoJob]
      /\ UNCHANGED <<dayVars, state, shards>> /\ ClockTyped' /\ "beat" \in Callers
  BY DEF EndNightly, boundVars, ghostVars, Types, ClockTyped, Callers
<1>2. state' \in [Days -> StateRows]
  BY <1>1 DEF Types
<1> QED
  BY <1>1, <1>2, JobEndsKeeps

LEMMA CrashKeeps ==
  ASSUME Types, Marks, Counts, NEW p \in Callers, Crash(p)
  PROVE  Types' /\ Marks' /\ Counts'
<1>1. /\ job' = [job EXCEPT ![p] = NoJob]
      /\ beat' = beat \/ (p = "beat" /\ beat' = NoBeat)
      /\ UNCHANGED <<dayVars, state, shards>>
  BY DEF Crash
<1>2. ClockTyped'
  BY BoundsType DEF Crash, ghostVars, Types, ClockTyped
<1>3. state' \in [Days -> StateRows]
  BY <1>1 DEF Types
<1> QED
  BY <1>1, <1>2, <1>3, JobEndsKeeps

LEMMA EndDayKeeps ==
  ASSUME Types, Marks, Counts, EndDay
  PROVE  Types' /\ Marks' /\ Counts'
<1> DEFINE d == job["beat"].day
<1>1. /\ beat.task = "sweep" /\ job["beat"].at = "end"
      /\ job' = [job EXCEPT !["beat"] = NoJob]
      /\ UNCHANGED <<hour, settled, dayVars, beat, sweeps, backfill, faults,
                     shards, wasDone, reports>>
      /\ "beat" \in Callers
  BY DEF EndDay, boundVars, Callers
<1>2. job["beat"] \in Jobs /\ job["beat"] # NoJob /\ d \in Days
  BY <1>1, JobTyped
<1>3. /\ state' \in [Days -> StateRows]
      /\ \A e \in Days : state'[e] # state[e] =>
           e = d /\ ~state'[e].coreOk /\ state'[e].attempts = 0
      /\ seen' \subseteq Days /\ tries' \in [Days -> Int]
  <2>1. NoState \in StateRows /\ ~NoState.coreOk /\ NoState.attempts = 0
    BY BoundsType DEF NoState, StateRows
  <2>2. state \in [Days -> StateRows] /\ tries \in [Days -> Int] /\ seen \subseteq Days
    BY DEF Types, ClockTyped
  <2>3. CASE Done(job["beat"])
    <3>1. /\ state' = [state EXCEPT ![d] = NoState]
          /\ tries' = [tries EXCEPT ![d] = 0] /\ seen' = seen \ {d}
      BY <2>3 DEF EndDay
    <3> QED
      BY <1>2, <2>1, <2>2, <3>1
  <2>4. CASE ~Done(job["beat"])
    <3>1. UNCHANGED <<state, tries, seen>>
      BY <2>4 DEF EndDay
    <3> QED
      BY <2>2, <3>1
  <2> QED
    BY <2>3, <2>4
<1>4. ClockTyped'
  BY <1>1, <1>3 DEF Types, ClockTyped
<1>5. d \notin beat'.days
  BY <1>1, <1>2 DEF Types, BeatTyped
<1>6. \A e \in Days : state'[e] # state[e] =>
        /\ "beat" = "beat" /\ ~state'[e].coreOk /\ state'[e].attempts = 0
        /\ beat'.task = "sweep" => e \notin beat'.days
  BY <1>3, <1>5
<1> QED
  BY <1>1, <1>3, <1>4, <1>6, JobEndsKeeps

LEMMA MinOfTwo ==
  ASSUME NEW m \in Int, NEW n \in Int
  PROVE  Min({m, n}) = IF m <= n THEN m ELSE n
<1> DEFINE S == {m, n}
           k == IF m <= n THEN m ELSE n
<1>1. k \in S /\ \A x \in S : k <= x
  OBVIOUS
<1>2. \A y \in S : (\A x \in S : y <= x) => y = k
  OBVIOUS
<1> QED
  BY <1>1, <1>2 DEF Min

LEMMA StartSweepKeeps ==
  ASSUME Types, Marks, Counts, StartSweep
  PROVE  Types' /\ Marks' /\ Counts'
<1>1. /\ beat.task = "none" /\ job["beat"] = NoJob
      /\ UNCHANGED <<hour, settled, dayVars, metric, good, rollup, job, backfill,
                     faults, shards, tries, wasDone, reports>>
      /\ sweeps' = [sweeps EXCEPT !.begun = TRUE]
  BY DEF StartSweep, boundVars, dayVars, Types, BeatTyped
<1>2. PICK status \in Status :
        LET candidates == IF backfill THEN {} ELSE Candidates
            ready == {d \in candidates : Due(d) /\ d <= status}
            selected == {d \in ready :
              Cardinality({e \in ready : e < d}) < MaxDaysPerRun}
        IN /\ state' = [d \in Days |->
                IF d \in candidates /\ ~state[d].known THEN NewState
                ELSE state[d]]
           /\ seen' = seen \cup candidates
           /\ beat' = [task |-> "sweep", days |-> selected,
                       only |-> [d \in Days |-> OnlyOf(d)]]
  BY DEF StartSweep
<1>3. PICK candidates \in SUBSET Days :
        /\ state' = [d \in Days |->
             IF d \in candidates /\ ~state[d].known THEN NewState ELSE state[d]]
        /\ seen' = seen \cup candidates
  BY <1>2 DEF Candidates
<1>4. PICK days \in SUBSET Days :
        /\ \A d \in days : Due(d)
        /\ beat' = [task |-> "sweep", days |-> days, only |-> [d \in Days |-> OnlyOf(d)]]
  <2> DEFINE candidates1 == IF backfill THEN {} ELSE Candidates
             ready == {d \in candidates1 : Due(d) /\ d <= status}
             selected == {d \in ready :
               Cardinality({e \in ready : e < d}) < MaxDaysPerRun}
  <2>1. beat' = [task |-> "sweep", days |-> selected,
                 only |-> [d \in Days |-> OnlyOf(d)]]
    BY <1>2
  <2>2. candidates1 \subseteq Days
    BY DEF Candidates
  <2>3. selected \subseteq Days /\ \A d \in selected : Due(d)
    BY <2>2
  <2> QED
    BY <2>1, <2>3
<1>5. /\ NewState \in StateRows /\ ~NewState.coreOk /\ NewState.attempts = 0
      /\ NewState.known
  <2>1. NoState \in StateRows /\ ~NoState.coreOk /\ NoState.attempts = 0
    BY BoundsType DEF NoState, StateRows
  <2>2. PICK row \in StateRows : row = NoState
    BY <2>1
  <2>3. NewState = [row EXCEPT !.known = TRUE]
    BY <2>2 DEF NewState
  <2> QED
    BY <2>1, <2>2, <2>3 DEF StateRows
<1>6. /\ state' \in [Days -> StateRows]
      /\ \A d \in Days : \/ state'[d] = state[d]
                         \/ ~state[d].known /\ state'[d] = NewState
  BY <1>3, <1>5 DEF Types
<1>7. \A d \in Days : state'[d].coreOk =>
        /\ state[d].coreOk /\ state'[d].failed = state[d].failed
        /\ state'[d].known
  BY <1>5, <1>6 DEF Marks, DayIsRight
<1>8. \A d \in Days : OnlyOf(d) # {} =>
        /\ state'[d] = state[d] /\ state[d].coreOk
        /\ Names \ state[d].failed \subseteq good[d]
  BY <1>6 DEF OnlyOf, Marks, DayIsRight
<1>9. BeatTyped'
  <2>1. [d \in Days |-> OnlyOf(d)] \in [Days -> SUBSET Names]
    BY DEF OnlyOf, Types, StateRows
  <2>2. beat' \in Sweep
    BY <1>4, <2>1 DEF Sweep
  <2>3. \A d \in days : state'[d].attempts < MaxAttempts
    <3>1. \A d \in days : state[d].attempts \in Nat /\ state[d].attempts < MaxAttempts
      BY <1>4, BoundsType DEF Due, Types, StateRows
    <3>2. \A d \in days : state'[d].attempts \in {0, state[d].attempts}
      BY <1>5, <1>6
    <3> QED
      BY <3>1, <3>2, BoundsType
  <2>4. beat'.task = "sweep" /\ beat'.days = days
    BY <1>4
  <2> QED
    BY <1>1, <2>2, <2>3, <2>4 DEF BeatTyped
<1>10. ClockTyped'
  BY <1>1, <1>3 DEF Types, ClockTyped
<1>11. \A p \in Callers : job'[p] # NoJob => JobIsRight(job[p])'
  <2>1. ASSUME NEW p \in Callers, job[p] # NoJob
        PROVE  p = "shard" /\ job[p].only = {} /\ job[p] \in Jobs /\ JobIsRight(job[p])
    <3>1. p = "shard"
      BY <1>1, <2>1 DEF Callers
    <3> QED
      BY <2>1, <3>1, BothJobs
  <2>2. ASSUME NEW p \in Callers, job'[p] # NoJob PROVE JobIsRight(job[p])'
    <3>1. PICK j : j = job[p]
      OBVIOUS
    <3>2. j.only = {} /\ j \in Jobs /\ JobIsRight(j)
      BY <1>1, <2>1, <2>2, <3>1
    <3>3. JobIsRight(j)'
      BY <1>1, <3>2, SameJob
    <3> QED
      BY <1>1, <3>1, <3>3
  <2> QED
    BY <2>2
<1>12. ASSUME beat'.task = "sweep", NEW d \in beat'.days, beat'.only[d] # {}
       PROVE  Names \ state'[d].failed \subseteq good[d]
  <2>1. d \in Days /\ beat'.only[d] = OnlyOf(d)
    BY <1>4, <1>12
  <2> QED
    BY <1>8, <1>12, <2>1
<1>13. /\ job' \in [Callers -> {NoJob} \cup Jobs] /\ shards \in Nat
       /\ job'["shard"] # NoJob => job'["shard"].only = {}
       /\ job'["shard"] = job["shard"] /\ job'["beat"] = NoJob /\ shards' = shards
  BY <1>1, BothJobs
<1> QED
  BY <1>1, <1>6, <1>7, <1>9, <1>10, <1>11, <1>12, <1>13, ControlKeeps

LEMMA AttemptKeeps ==
  ASSUME Types, Marks, Counts, Attempt
  PROVE  Types' /\ Marks' /\ Counts'
<1>1. /\ beat.task = "sweep" /\ beat \in Sweep /\ beat.days \subseteq Days
      /\ beat.only \in [Days -> SUBSET Names] /\ "beat" \in Callers
      /\ UNCHANGED <<hour, settled, dayVars, metric, good, rollup, sweeps, backfill,
                     faults, shards, seen, wasDone, reports>>
  BY DEF Attempt, boundVars, dayVars, Types, BeatTyped, NoBeat, Sweep, Callers
<1>2. PICK d \in Least(beat.days) : LET n == state[d].attempts + 1 IN
        /\ state' = IF state[d].known
             THEN [state EXCEPT ![d].attempts = n,
                                ![d].next = hour + 2 ^ (n - 1)]
             ELSE state
        /\ job' = [job EXCEPT !["beat"] = NewJob(d, beat.only[d])]
        /\ tries' = [tries EXCEPT ![d] = @ + 1]
        /\ beat' = [beat EXCEPT !.days = @ \ {d}]
  BY DEF Attempt
<1>3. d \in beat.days /\ d \in Days /\ beat.only[d] \in SUBSET Names
  BY <1>1 DEF Least
<1>4. PICK row : LET n == state[d].attempts + 1 IN
        row = [state[d] EXCEPT !.attempts = n, !.next = hour + 2 ^ (n - 1)]
  OBVIOUS
<1>5. /\ state \in [Days -> StateRows]
      /\ state[d] \in StateRows /\ state[d].attempts < MaxAttempts
  BY <1>1, <1>3 DEF Types, BeatTyped
<1>6. /\ row \in StateRows /\ row.coreOk = state[d].coreOk
      /\ row.failed = state[d].failed /\ row.known = state[d].known
  <2>1. state[d].attempts \in Nat /\ state[d].attempts + 1 \in 0 .. MaxAttempts
    BY <1>5, BoundsType DEF StateRows
  <2>2. PICK n \in Nat : n = state[d].attempts + 1
    BY <2>1
  <2>3. PICK m \in Int : m = hour + 2 ^ (n - 1)
    <3>1. PICK h \in Int : h = hour
      BY BoundsType DEF Types, ClockTyped
    <3>2. PICK k \in Int : k = n - 1
      OBVIOUS
    <3>3. h + 2 ^ k \in Int
      OBVIOUS
    <3> QED
      BY <3>1, <3>2, <3>3
  <2>4. row = [state[d] EXCEPT !.attempts = n, !.next = m]
    BY <1>4, <2>2, <2>3, Zenon
  <2> QED
    BY <1>5, <2>1, <2>2, <2>4 DEF StateRows
<1>7. state' = [state EXCEPT ![d] = row] \/ state' = state
  <2>1. PICK n : n = state[d].attempts + 1
    OBVIOUS
  <2>2. PICK m : m = hour + 2 ^ (n - 1)
    OBVIOUS
  <2>3. row = [state[d] EXCEPT !.attempts = n, !.next = m]
    BY <1>4, <2>1, <2>2, Zenon
  <2>4. \/ state' = [state EXCEPT ![d].attempts = n, ![d].next = m]
        \/ state' = state
    <3>1. state' = IF state[d].known
                     THEN [state EXCEPT ![d].attempts = n,
                                        ![d].next = hour + 2 ^ (n - 1)]
                     ELSE state
      BY <1>2, <2>1, Zenon
    <3> QED
      BY <2>2, <3>1, Zenon
  <2> QED
    BY <1>3, <1>5, <2>3, <2>4
<1>8. /\ state' \in [Days -> StateRows]
      /\ \A e \in Days : /\ state'[e].coreOk = state[e].coreOk
                         /\ state'[e].failed = state[e].failed
                         /\ state'[e].known = state[e].known
                         /\ e # d => state'[e] = state[e]
  BY <1>3, <1>5, <1>6, <1>7
<1>9. PICK r : r = NewJob(d, beat.only[d])
  OBVIOUS
<1>10. beat.only[d] # {} => Names \ state[d].failed \subseteq good[d]
  BY <1>1, <1>3 DEF Marks
<1>11. /\ r \in Jobs /\ r # NoJob /\ r.day = d /\ JobIsRight(r) /\ CountsOfJob(r)
  BY <1>3, <1>9, <1>10, NewJobIsRight
<1>12. JobIsRight(r)' /\ CountsOfJob(r)'
  BY <1>1, <1>3, <1>8, <1>11, SameJob, SameCounts
<1>13. /\ job' \in [Callers -> {NoJob} \cup Jobs]
       /\ job'["beat"] = r /\ job'["shard"] = job["shard"]
  BY <1>2, <1>9, <1>11, BothJobs
<1>14. job'["shard"] # NoJob => JobIsRight(job["shard"])'
  BY <1>1, <1>13, BothJobs, SameJob
<1>15. /\ beat' \in Sweep /\ beat'.task = "sweep" /\ beat'.only = beat.only
       /\ beat'.days = beat.days \ {d}
  BY <1>1, <1>2 DEF Sweep
<1>16. BeatTyped'
  <2>1. \A e \in beat'.days : state'[e].attempts < MaxAttempts
    BY <1>1, <1>8, <1>15 DEF Types, BeatTyped
  <2> QED
    BY <1>11, <1>13, <1>15, <2>1 DEF BeatTyped
<1>17. ClockTyped'
  <2>1. tries' \in [Days -> Int]
    BY <1>2, <1>3 DEF Types, ClockTyped
  <2> QED
    BY <1>1, <2>1 DEF Types, ClockTyped
<1>18. /\ \A e \in Days : state'[e].coreOk =>
            /\ state[e].coreOk /\ state'[e].failed = state[e].failed
            /\ state'[e].known
       /\ shards \in Nat /\ shards' \in {shards, shards + 1}
  BY <1>1, <1>8, BothJobs DEF Marks, DayIsRight
<1>19. ASSUME beat'.task = "sweep", NEW e \in beat'.days, beat'.only[e] # {}
       PROVE  Names \ state'[e].failed \subseteq good[e]
  BY <1>1, <1>8, <1>15, <1>19 DEF Marks
<1>20. /\ \A p \in Callers : job'[p] # NoJob => JobIsRight(job[p])'
       /\ job'["shard"] # NoJob => job'["shard"].only = {}
  BY <1>12, <1>13, <1>14, BothJobs
<1> QED
  BY <1>1, <1>8, <1>12, <1>13, <1>16, <1>17, <1>18, <1>19, <1>20, ControlKeeps

LEMMA EndSweepKeeps ==
  ASSUME Types, Marks, Counts, EndSweep
  PROVE  Types' /\ Marks' /\ Counts'
<1>1. /\ beat.task = "sweep" /\ beat' = NoBeat /\ job["beat"] = NoJob
      /\ UNCHANGED <<hour, settled, dayVars, metric, good, rollup, job, backfill,
                     faults, shards, tries, seen, wasDone>>
      /\ sweeps' = [sweeps EXCEPT !.finished = Today]
      /\ reports' = [d \in Days |->
           IF d \in Expired THEN Min({2, reports[d] + 1}) ELSE reports[d]]
      /\ state' = [d \in Days |->
           IF d < Today - 2 * WindowDays THEN NoState
           ELSE [state[d] EXCEPT !.logged = @ \/ d \in Expired]]
  BY JobTyped DEF EndSweep, boundVars, dayVars, Types, Callers, Jobs
<1>2. /\ state' \in [Days -> StateRows]
      /\ \A d \in Days : state'[d].coreOk =>
           /\ state[d].coreOk /\ state'[d].failed = state[d].failed
           /\ state'[d].known
  <2>1. /\ NoState \in StateRows /\ ~NoState.coreOk
        /\ state \in [Days -> StateRows]
    BY BoundsType DEF NoState, StateRows, Types
  <2>2. ASSUME NEW d \in Days
        PROVE  /\ state'[d] \in StateRows
               /\ state'[d].coreOk =>
                    /\ state[d].coreOk /\ state'[d].failed = state[d].failed
                    /\ state'[d].known = state[d].known
    <3>1. PICK row : row = [state[d] EXCEPT !.logged = @ \/ d \in Expired]
      OBVIOUS
    <3>2. /\ row \in StateRows /\ row.coreOk = state[d].coreOk
          /\ row.failed = state[d].failed /\ row.known = state[d].known
      BY <2>1, <3>1 DEF StateRows
    <3>3. state'[d] = row \/ state'[d] = NoState
      BY <1>1, <3>1
    <3> QED
      BY <2>1, <3>2, <3>3
  <2>3. state' = [d \in Days |-> state'[d]]
    BY <1>1
  <2> QED
    BY <2>2, <2>3 DEF Marks, DayIsRight
<1>3. \A d \in Days : reports'[d] \in 0 .. 2
  <2>1. ASSUME NEW d \in Days PROVE reports'[d] \in 0 .. 2
    <3>1. PICK n \in 0 .. 2 : n = reports[d]
      BY DEF Types, ClockTyped
    <3>2. Min({2, n + 1}) \in 0 .. 2
      BY <3>1, MinOfTwo
    <3> QED
      BY <1>1, <3>1, <3>2
  <2> QED
    BY <2>1
<1>4. ClockTyped'
  <2>1. Today \in Int
    BY BoundsType DEF Today, Types, ClockTyped
  <2>2. reports' \in [Days -> 0 .. 2]
    BY <1>1, <1>3
  <2> QED
    BY <1>1, <2>1, <2>2 DEF Types, ClockTyped
<1>5. BeatTyped'
  BY <1>1 DEF BeatTyped, NoBeat
<1>6. \A p \in Callers : job'[p] # NoJob => JobIsRight(job[p])'
  <2>1. ASSUME NEW p \in Callers, job'[p] # NoJob PROVE JobIsRight(job[p])'
    <3>1. p = "shard"
      BY <1>1, <2>1 DEF Callers
    <3>2. PICK j : j = job[p]
      OBVIOUS
    <3>3. j.only = {} /\ j \in Jobs /\ JobIsRight(j)
      BY <1>1, <2>1, <3>1, <3>2, BothJobs
    <3>4. JobIsRight(j)'
      BY <1>1, <3>3, SameJob
    <3> QED
      BY <1>1, <3>2, <3>4
  <2> QED
    BY <2>1
<1>7. /\ job' \in [Callers -> {NoJob} \cup Jobs] /\ shards \in Nat
      /\ job'["shard"] # NoJob => job'["shard"].only = {}
      /\ job'["shard"] = job["shard"] /\ job'["beat"] = NoJob /\ shards' = shards
      /\ beat'.task # "sweep"
  BY <1>1, BothJobs DEF NoBeat
<1> QED
  BY <1>1, <1>2, <1>4, <1>5, <1>6, <1>7, ControlKeeps

LEMMA StartShardKeeps ==
  ASSUME Types, Marks, Counts, StartShard
  PROVE  Types' /\ Marks' /\ Counts'
<1>1. /\ shards < MaxShards /\ shards' = shards + 1 /\ "shard" \in Callers
      /\ UNCHANGED <<hour, settled, dayVars, metric, good, rollup, state, beat,
                     sweeps, backfill, faults, tries, seen, wasDone, reports>>
  BY DEF StartShard, dayVars, ghostVars, Callers
<1>2. PICK d \in Days : job' = [job EXCEPT !["shard"] = NewJob(d, {})]
  BY DEF StartShard
<1>3. PICK r : r = NewJob(d, {})
  OBVIOUS
<1>4. r \in Jobs /\ r # NoJob /\ r.only = {} /\ JobIsRight(r)
  BY <1>3, NewJobIsRight
<1>5. JobIsRight(r)'
  BY <1>1, <1>4, SameJob
<1>6. /\ job' \in [Callers -> {NoJob} \cup Jobs]
      /\ job'["shard"] = r /\ job'["beat"] = job["beat"]
  BY <1>2, <1>3, <1>4, BothJobs
<1>7. job'["beat"] # NoJob => JobIsRight(job["beat"])'
  <2>1. SUFFICES ASSUME job["beat"] # NoJob PROVE JobIsRight(job["beat"])'
    BY <1>6
  <2>2. PICK j : j = job["beat"]
    OBVIOUS
  <2>3. j \in Jobs /\ JobIsRight(j)
    BY <2>1, <2>2, BothJobs DEF Callers
  <2>4. JobIsRight(j)'
    BY <1>1, <2>3, SameJob
  <2> QED
    BY <1>6, <2>2, <2>4
<1>8. BeatTyped'
  BY <1>1, <1>6 DEF Types, BeatTyped
<1>9. shards \in Nat /\ shards' # 0
  BY <1>1, BothJobs
<1>10. ClockTyped'
  BY <1>1, <1>9, BoundsType DEF Types, ClockTyped
<1>11. \A e \in Days : state'[e].coreOk =>
         /\ state[e].coreOk /\ state'[e].failed = state[e].failed
         /\ state'[e].known
  BY <1>1 DEF Marks, DayIsRight
<1>12. beat'.task = "sweep" => \A e \in beat'.days :
         beat'.only[e] # {} => Names \ state'[e].failed \subseteq good[e]
  BY <1>1 DEF Marks
<1>13. /\ \A p \in Callers : job'[p] # NoJob => JobIsRight(job[p])'
       /\ job'["shard"] # NoJob => job'["shard"].only = {}
       /\ state' \in [Days -> StateRows]
  BY <1>1, <1>4, <1>5, <1>6, <1>7 DEF Callers, Types
<1> QED
  BY <1>1, <1>6, <1>8, <1>9, <1>10, <1>11, <1>12, <1>13, ControlKeeps

LEMMA EndShardKeeps ==
  ASSUME Types, Marks, Counts, EndShard
  PROVE  Types' /\ Marks' /\ Counts'
<1>1. /\ job' = [job EXCEPT !["shard"] = NoJob] /\ "shard" \in Callers
      /\ UNCHANGED <<dayVars, state, beat, shards>> /\ ClockTyped'
  BY DEF EndShard, boundVars, ghostVars, Types, ClockTyped, Callers
<1>2. state' \in [Days -> StateRows]
  BY <1>1 DEF Types
<1> QED
  BY <1>1, <1>2, JobEndsKeeps

LEMMA ComputeDayKeeps ==
  ASSUME Types, Marks, Counts, NEW p \in Callers, ComputeDay(p)
  PROVE  Types' /\ Marks' /\ Counts'
<1>1. CASE Clear(p)
  BY <1>1, ClearKeeps
<1>2. CASE Reset(p)
  BY <1>2, ResetKeeps
<1>3. CASE Populate(p)
  BY <1>3, PopulateKeeps
<1>4. CASE PopulateFails(p)
  BY <1>4, PopulateFailsKeeps
<1>5. CASE CountInputs(p)
  BY <1>5, CountInputsKeeps
<1>6. CASE ComputeCore(p)
  BY <1>6, ComputeCoreKeeps
<1>7. CASE CoreFails(p)
  BY <1>7, CoreFailsKeeps
<1>8. CASE Merge(p)
  BY <1>8, MergeKeeps
<1>9. CASE Mark(p)
  BY <1>9, MarkKeeps
<1>10. CASE Record(p)
  BY <1>10, RecordKeeps
<1> QED
  BY <1>1, <1>2, <1>3, <1>4, <1>5, <1>6, <1>7, <1>8, <1>9, <1>10 DEF ComputeDay

LEMMA StartBackfillKeeps ==
  ASSUME Types, Marks, Counts, StartBackfill
  PROVE  Types' /\ Marks' /\ Counts'
<1>1. UNCHANGED <<dayVars, state, job, beat, shards>> /\ ClockTyped'
  BY DEF StartBackfill, boundVars, ghostVars, Types, ClockTyped
<1> QED
  BY <1>1, QuietKeeps

LEMMA EndBackfillKeeps ==
  ASSUME Types, Marks, Counts, EndBackfill
  PROVE  Types' /\ Marks' /\ Counts'
<1>1. UNCHANGED <<dayVars, state, job, beat, shards>> /\ ClockTyped'
  BY DEF EndBackfill, boundVars, ghostVars, Types, ClockTyped
<1> QED
  BY <1>1, QuietKeeps

LEMMA SettleKeeps ==
  ASSUME Types, Marks, Counts, Settle
  PROVE  Types' /\ Marks' /\ Counts'
<1>1. UNCHANGED <<dayVars, state, job, beat, shards>> /\ ClockTyped'
  BY DEF Settle, boundVars, ghostVars, Types, ClockTyped
<1> QED
  BY <1>1, QuietKeeps

LEMMA TickKeeps ==
  ASSUME Types, Marks, Counts, Tick
  PROVE  Types' /\ Marks' /\ Counts'
<1>1. /\ hour < MaxHour /\ hour' = hour + 1
      /\ sweeps' = [sweeps EXCEPT !.begun = FALSE]
      /\ UNCHANGED <<settled, dayVars, state, job, beat, backfill, faults, shards,
                     tries, seen, wasDone, reports>>
  BY DEF Tick, boundVars, ghostVars
<1>2. hour' \in 0 .. MaxHour
  BY <1>1, BoundsType DEF Types, ClockTyped
<1>3. sweeps' \in [begun : BOOLEAN, finished : Int]
  BY <1>1 DEF Types, ClockTyped
<1>4. ClockTyped'
  BY <1>1, <1>2, <1>3 DEF Types, ClockTyped
<1> QED
  BY <1>1, <1>4, QuietKeeps

LEMMA StutterKeeps ==
  ASSUME Types, Marks, Counts, UNCHANGED vars
  PROVE  Types' /\ Marks' /\ Counts'
<1>1. UNCHANGED <<dayVars, state, job, beat, shards>> /\ ClockTyped'
  BY DEF vars, boundVars, ghostVars, Types, ClockTyped
<1> QED
  BY <1>1, QuietKeeps

LEMMA NextKeeps ==
  ASSUME Types, Marks, Counts, [Next]_vars
  PROVE  Types' /\ Marks' /\ Counts'
<1>1. CASE \E p \in Callers : ComputeDay(p)
  BY <1>1, ComputeDayKeeps
<1>2. CASE \E p \in Callers : Crash(p)
  BY <1>2, CrashKeeps
<1>3. CASE StartNightly
  BY <1>3, StartNightlyKeeps
<1>4. CASE EndNightly
  BY <1>4, EndNightlyKeeps
<1>5. CASE StartSweep
  BY <1>5, StartSweepKeeps
<1>6. CASE Attempt
  BY <1>6, AttemptKeeps
<1>7. CASE EndDay
  BY <1>7, EndDayKeeps
<1>8. CASE EndSweep
  BY <1>8, EndSweepKeeps
<1>9. CASE StartBackfill
  BY <1>9, StartBackfillKeeps
<1>10. CASE StartShard
  BY <1>10, StartShardKeeps
<1>11. CASE EndShard
  BY <1>11, EndShardKeeps
<1>12. CASE EndBackfill
  BY <1>12, EndBackfillKeeps
<1>13. CASE Settle
  BY <1>13, SettleKeeps
<1>14. CASE Tick
  BY <1>14, TickKeeps
<1>15. CASE UNCHANGED vars
  BY <1>15, StutterKeeps
<1> QED
  BY <1>1, <1>2, <1>3, <1>4, <1>5, <1>6, <1>7, <1>8, <1>9, <1>10, <1>11, <1>12,
     <1>13, <1>14, <1>15 DEF Next, Callers

LEMMA InitMarks == Init => Marks /\ Counts
<1> SUFFICES ASSUME Init PROVE Marks /\ Counts
  OBVIOUS
<1>1. \A d \in Days : /\ ~metric[d].coreDone /\ ~metric[d].done
                      /\ ~state[d].coreOk /\ good[d] = {}
  BY DEF Init, NoRow, NoState
<1>2. \A p \in Callers : job[p] = NoJob
  BY DEF Init, Callers
<1>3. beat.task # "sweep"
  BY DEF Init, NoBeat
<1>4. Marks
  BY <1>1, <1>2, <1>3 DEF Marks, DayIsRight, Callers
<1>5. Counts
  BY <1>1, <1>2 DEF Counts, CountsOfDay, Callers
<1> QED
  BY <1>4, <1>5

LEMMA RightIsInvariant == Spec => [](Types /\ Marks /\ Counts)
<1>1. Init => Types /\ Marks /\ Counts
  BY InitTypes, InitMarks
<1>2. (Types /\ Marks /\ Counts) /\ [Next]_vars => (Types /\ Marks /\ Counts)'
  BY NextKeeps
<1> QED
  BY <1>1, <1>2, PTL DEF Spec

(* Whatever is interleaved, killed or fails, the rows of the days, of the  *)
(* state of the catch-up and of its reports keep their types and bounds.   *)
THEOREM TypeCorrect == Spec => []TypeOK
<1>1. Types => TypeOK
  BY TypesImplyTypeOK
<1> QED
  BY <1>1, RightIsInvariant, PTL

(* A completion mark on a day is earned, for any populators, any number of *)
(* failures and of killed runs, and any overlap of the beat tasks with the *)
(* shards of a backfill.                                                   *)
THEOREM MarksAlwaysEarned == Spec => []MarksAreEarned
<1>1. Types /\ Marks /\ Counts => MarksAreEarned
  BY DEF Marks, Counts, DayIsRight, CountsOfDay, MarksAreEarned, Names
<1> QED
  BY <1>1, RightIsInvariant, PTL

-----------------------------------------------------------------------------
(***************************************************************************)
(* The days the sweeper has taken up.                                      *)
(***************************************************************************)
LEMMA ClockIsInteger ==
  ASSUME Types
  PROVE  /\ Today \in Int /\ sweeps.finished \in Int /\ WindowDays \in Nat
         /\ Days \subseteq Int /\ MaxAttempts \in Nat /\ MaxOutage \in Nat
         /\ \A d \in Days : /\ state[d] \in StateRows /\ state[d].attempts \in Nat
                            /\ tries[d] \in Int /\ reports[d] \in 0 .. 2
BY BoundsType DEF Types, ClockTyped, StateRows, Today

(* What a step that takes no day up and gives none up has to keep.         *)
LEMMA ComputationKeepsSeen ==
  ASSUME Types, Seen, UNCHANGED <<hour, sweeps, beat, seen, reports, tries>>,
         \A d \in Days : /\ state'[d].known = state[d].known
                         /\ state'[d].attempts = state[d].attempts
                         /\ state'[d].logged = state[d].logged,
         wasDone \subseteq wasDone',
         \A d \in Days : metric'[d].done => metric[d].done \/ d \in wasDone'
  PROVE  Seen'
<1>1. \A d \in Days : DayIsSeen(d)'
  BY DEF Seen, DayIsSeen, InWindow, Today
<1>2. beat'.task = "sweep" => \A d \in beat'.days : state'[d].known /\ InWindow(d)'
  BY DEF Seen, InWindow, Today, Types, BeatTyped, NoBeat, Sweep
<1> QED
  BY <1>1, <1>2 DEF Seen, Today

LEMMA ComputeDayKeepsSeen ==
  ASSUME Types, Seen, NEW p \in Callers, ComputeDay(p)
  PROVE  Seen'
<1> DEFINE j == job[p]
           d == j.day
<1>1. /\ j \in Jobs /\ d \in Days
  BY JobTyped DEF ComputeDay, Clear, Reset, Populate, PopulateFails, CountInputs,
     ComputeCore, CoreFails, Merge, Mark, Record
<1>2. UNCHANGED <<hour, sweeps, beat, seen, reports, tries>>
  BY DEF ComputeDay, Clear, Reset, Populate, PopulateFails, CountInputs,
     ComputeCore, CoreFails, Merge, Mark, Record, boundVars, ghostVars
<1>3. \A e \in Days : /\ state'[e].known = state[e].known
                      /\ state'[e].attempts = state[e].attempts
                      /\ state'[e].logged = state[e].logged
  <2>1. state \in [Days -> StateRows]
    BY DEF Types
  <2>2. CASE Reset(p)
    <3>1. PICK row : row = [state[d] EXCEPT !.coreOk = FALSE]
      OBVIOUS
    <3>2. state' = [state EXCEPT ![d] = row]
      BY <1>1, <2>1, <2>2, <3>1 DEF Reset
    <3> QED
      BY <1>1, <2>1, <3>1, <3>2 DEF StateRows
  <2>3. CASE Record(p)
    <3>1. PICK row : row = [state[d] EXCEPT !.coreOk = j.coreOk, !.failed = j.failed]
      OBVIOUS
    <3>2. state' = state \/ state' = [state EXCEPT ![d] = row]
      BY <1>1, <2>1, <2>3, <3>1 DEF Record
    <3>3. /\ row.known = state[d].known /\ row.attempts = state[d].attempts
          /\ row.logged = state[d].logged
      BY <1>1, <2>1, <3>1 DEF StateRows
    <3> QED
      BY <1>1, <2>1, <3>2, <3>3
  <2>4. CASE ~Reset(p) /\ ~Record(p)
    <3>1. UNCHANGED state
      BY <2>4 DEF ComputeDay, Clear, Populate, PopulateFails, CountInputs,
         ComputeCore, CoreFails, Merge, Mark
    <3> QED
      BY <3>1
  <2> QED
    BY <2>2, <2>3, <2>4
<1>4. /\ wasDone \subseteq wasDone'
      /\ \A e \in Days : metric'[e].done => metric[e].done \/ e \in wasDone'
  <2>1. metric \in [Days -> Rows]
    BY DEF Types, DaysTyped
  <2>2. CASE Clear(p)
    <3>1. UNCHANGED wasDone
      BY <2>2 DEF Clear, ghostVars
    <3>2. PICK row : row = [metric[d] EXCEPT !.coreDone = FALSE, !.done = FALSE]
      OBVIOUS
    <3>3. metric' = metric \/ metric' = [metric EXCEPT ![d] = row]
      BY <1>1, <2>1, <2>2, <3>2 DEF Clear
    <3>4. ~row.done
      BY <1>1, <2>1, <3>2 DEF Rows
    <3> QED
      BY <1>1, <2>1, <3>1, <3>3, <3>4
  <2>3. CASE Populate(p) \/ ComputeCore(p)
    <3>1. UNCHANGED wasDone
      BY <2>3 DEF Populate, ComputeCore, ghostVars
    <3>2. PICK row : row = [metric[d] EXCEPT !.exists = TRUE]
      OBVIOUS
    <3>3. metric' = metric \/ metric' = [metric EXCEPT ![d] = row]
      BY <1>1, <2>1, <2>3, <3>2 DEF Populate, ComputeCore
    <3>4. row.done = metric[d].done
      BY <1>1, <2>1, <3>2 DEF Rows
    <3> QED
      BY <1>1, <2>1, <3>1, <3>3, <3>4
  <2>4. CASE Mark(p)
    <3>1. wasDone' = IF metric'[d].done THEN wasDone \cup {d} ELSE wasDone
      BY <2>4 DEF Mark
    <3>2. \A e \in Days \ {d} : metric'[e] = metric[e]
      BY <1>1, <2>1, <2>4 DEF Mark
    <3> QED
      BY <3>1, <3>2
  <2>5. CASE ~Clear(p) /\ ~Populate(p) /\ ~ComputeCore(p) /\ ~Mark(p)
    <3>1. UNCHANGED <<metric, wasDone>>
      BY <2>5 DEF ComputeDay, Reset, PopulateFails, CountInputs, CoreFails, Merge,
         Record, dayVars, ghostVars
    <3> QED
      BY <3>1
  <2> QED
    BY <2>2, <2>3, <2>4, <2>5
<1> QED
  BY <1>2, <1>3, <1>4, ComputationKeepsSeen

LEMMA QuietKeepsSeen ==
  ASSUME Types, Seen,
         UNCHANGED <<hour, sweeps, metric, state, seen, reports, tries, wasDone>>,
         beat' = beat \/ beat'.task # "sweep"
  PROVE  Seen'
<1>1. \A d \in Days : DayIsSeen(d)'
  BY DEF Seen, DayIsSeen, InWindow, Today
<1>2. beat'.task = "sweep" => \A d \in beat'.days : state'[d].known /\ InWindow(d)'
  BY DEF Seen, InWindow, Today
<1> QED
  BY <1>1, <1>2 DEF Seen, Today

LEMMA EndDayKeepsSeen ==
  ASSUME Types, Seen, EndDay
  PROVE  Seen'
<1>1. /\ beat.task = "sweep" /\ job["beat"].at = "end" /\ "beat" \in Callers
      /\ UNCHANGED <<hour, sweeps, metric, beat, reports, wasDone>>
  BY DEF EndDay, dayVars, Callers
<1>2. PICK d \in Days : d = job["beat"].day /\ d \notin beat.days
  <2>1. job["beat"] # NoJob /\ job["beat"].day \in Days
    BY <1>1, JobTyped
  <2> QED
    BY <1>1, <2>1 DEF Types, BeatTyped
<1>3. beat.days \subseteq Days
  BY <1>1 DEF Types, BeatTyped, NoBeat, Sweep
<1>4. CASE Done(job["beat"])
  <2>1. /\ state' = [state EXCEPT ![d] = NoState]
        /\ tries' = [tries EXCEPT ![d] = 0] /\ seen' = seen \ {d}
    BY <1>2, <1>4 DEF EndDay
  <2>2. /\ state'[d] = NoState /\ tries'[d] = 0
        /\ \A e \in Days \ {d} : state'[e] = state[e] /\ tries'[e] = tries[e]
    BY <1>2, <2>1 DEF Types, ClockTyped
  <2>3. ~NoState.known /\ NoState.attempts = 0 /\ ~NoState.logged
    BY DEF NoState
  <2>4. DayIsSeen(d)'
    <3>1. /\ ~state'[d].known /\ state'[d].attempts = 0 /\ ~state'[d].logged
          /\ d \notin seen'
      BY <2>1, <2>2, <2>3
    <3>2. /\ metric[d].done => d \in wasDone
          /\ reports[d] <= 1
          /\ reports[d] > 0 => ~InWindow(d)
      BY <1>2 DEF Seen, DayIsSeen
    <3>3. tries'[d] <= MaxAttempts
      BY <2>2, ClockIsInteger
    <3> QED
      BY <1>1, <2>2, <3>1, <3>2, <3>3 DEF DayIsSeen, InWindow, Today
  <2>5. \A e \in Days \ {d} : DayIsSeen(e)'
    BY <1>1, <2>1, <2>2 DEF Seen, DayIsSeen, InWindow, Today
  <2>6. \A e \in beat'.days : state'[e].known /\ InWindow(e)'
    BY <1>1, <1>2, <1>3, <2>2 DEF Seen, InWindow, Today
  <2>7. \A e \in Days : DayIsSeen(e)'
    BY <2>4, <2>5
  <2>8. sweeps'.finished <= Today' /\ Today' - sweeps'.finished <= MaxOutage
    BY <1>1 DEF Seen, Today
  <2> QED
    BY <2>6, <2>7, <2>8 DEF Seen
<1>5. CASE ~Done(job["beat"])
  <2>1. UNCHANGED <<state, tries, seen>>
    BY <1>5 DEF EndDay
  <2> QED
    BY <1>1, <2>1, QuietKeepsSeen
<1> QED
  BY <1>4, <1>5

LEMMA AttemptKeepsSeen ==
  ASSUME Types, Seen, Attempt
  PROVE  Seen'
<1>1. /\ beat.task = "sweep" /\ beat \in Sweep /\ beat.days \subseteq Days
      /\ UNCHANGED <<hour, sweeps, metric, seen, reports, wasDone>>
  BY DEF Attempt, dayVars, Types, BeatTyped, NoBeat, Sweep
<1>2. PICK d \in Least(beat.days) : LET n == state[d].attempts + 1 IN
        /\ state' = IF state[d].known
             THEN [state EXCEPT ![d].attempts = n,
                                ![d].next = hour + 2 ^ (n - 1)]
             ELSE state
        /\ job' = [job EXCEPT !["beat"] = NewJob(d, beat.only[d])]
        /\ tries' = [tries EXCEPT ![d] = @ + 1]
        /\ beat' = [beat EXCEPT !.days = @ \ {d}]
  BY DEF Attempt
<1>3. d \in beat.days /\ d \in Days
  BY <1>1 DEF Least
<1>4. /\ state \in [Days -> StateRows] /\ state[d].known
      /\ state[d].attempts < MaxAttempts /\ tries \in [Days -> Int]
  BY <1>1, <1>3 DEF Types, BeatTyped, Seen, ClockTyped
<1>5. PICK n : n = state[d].attempts + 1
  OBVIOUS
<1>6. PICK m : m = hour + 2 ^ (n - 1)
  OBVIOUS
<1>7. PICK row : row = [state[d] EXCEPT !.attempts = n, !.next = m]
  OBVIOUS
<1>8. state' = [state EXCEPT ![d] = row]
  <2>1. state' = IF state[d].known
                   THEN [state EXCEPT ![d].attempts = n,
                                      ![d].next = hour + 2 ^ (n - 1)]
                   ELSE state
    BY <1>2, <1>5, Zenon
  <2>2. state' = [state EXCEPT ![d].attempts = n, ![d].next = m]
    BY <1>4, <1>6, <2>1, Zenon
  <2> QED
    BY <1>3, <1>4, <1>7, <2>2
<1>9. /\ state'[d].known = state[d].known /\ state'[d].attempts = n
      /\ state'[d].logged = state[d].logged
      /\ \A e \in Days \ {d} : state'[e] = state[e] /\ tries'[e] = tries[e]
      /\ tries'[d] = tries[d] + 1
  <2>1. /\ row.known = state[d].known /\ row.attempts = n
        /\ row.logged = state[d].logged
    BY <1>3, <1>4, <1>7 DEF StateRows
  <2> QED
    BY <1>2, <1>3, <1>4, <1>8, <2>1
<1>10. /\ DayIsSeen(d) /\ tries[d] = state[d].attempts /\ state[d].attempts \in Nat
      /\ tries[d] + 1 <= MaxAttempts /\ MaxAttempts \in Nat
  BY <1>3, <1>4, ClockIsInteger DEF Seen, DayIsSeen
<1>11. DayIsSeen(d)'
  BY <1>1, <1>4, <1>5, <1>9, <1>10 DEF DayIsSeen, InWindow, Today
<1>12. \A e \in Days \ {d} : DayIsSeen(e)'
  BY <1>1, <1>9 DEF Seen, DayIsSeen, InWindow, Today
<1>13. beat'.days \subseteq beat.days
  BY <1>1, <1>2 DEF Sweep
<1>14. \A e \in beat'.days : state'[e].known /\ InWindow(e)'
  BY <1>1, <1>9, <1>13 DEF Seen, InWindow, Today
<1> QED
  BY <1>1, <1>11, <1>12, <1>14 DEF Seen, Today

LEMMA StartSweepKeepsSeen ==
  ASSUME Types, Seen, StartSweep
  PROVE  Seen'
<1>1. /\ sweeps' = [sweeps EXCEPT !.begun = TRUE]
      /\ UNCHANGED <<hour, metric, tries, wasDone, reports>>
  BY DEF StartSweep, dayVars
<1>2. PICK status \in Status :
        LET candidates == IF backfill THEN {} ELSE Candidates
            ready == {d \in candidates : Due(d) /\ d <= status}
            selected == {d \in ready :
              Cardinality({e \in ready : e < d}) < MaxDaysPerRun}
        IN /\ state' = [d \in Days |->
                IF d \in candidates /\ ~state[d].known THEN NewState
                ELSE state[d]]
           /\ seen' = seen \cup candidates
           /\ beat' = [task |-> "sweep", days |-> selected,
                       only |-> [d \in Days |-> OnlyOf(d)]]
  BY DEF StartSweep
<1>3. PICK candidates \in SUBSET Days :
        /\ \A d \in candidates : InWindow(d)
        /\ state' = [d \in Days |->
             IF d \in candidates /\ ~state[d].known THEN NewState ELSE state[d]]
        /\ seen' = seen \cup candidates
        /\ beat'.task = "sweep" /\ beat'.days \subseteq candidates
  <2> DEFINE picked == IF backfill THEN {} ELSE Candidates
             ready == {d \in picked : Due(d) /\ d <= status}
             selected == {d \in ready :
               Cardinality({e \in ready : e < d}) < MaxDaysPerRun}
  <2>1. /\ beat' = [task |-> "sweep", days |-> selected,
                    only |-> [d \in Days |-> OnlyOf(d)]]
        /\ seen' = seen \cup picked
        /\ state' = [d \in Days |->
             IF d \in picked /\ ~state[d].known THEN NewState ELSE state[d]]
    BY <1>2
  <2>2. picked \subseteq Days /\ \A d \in picked : InWindow(d)
    BY ClockIsInteger DEF Candidates, InWindow
  <2>3. selected \subseteq picked
    OBVIOUS
  <2>4. beat'.task = "sweep" /\ beat'.days \subseteq picked
    BY <2>1, <2>3
  <2> QED
    BY <2>1, <2>2, <2>4
<1>4. NewState.known /\ NewState.attempts = 0 /\ ~NewState.logged
  <2>1. NoState \in StateRows /\ NoState.attempts = 0 /\ ~NoState.logged
    BY BoundsType DEF NoState, StateRows
  <2>2. PICK row \in StateRows : row = NoState
    BY <2>1
  <2>3. NewState = [row EXCEPT !.known = TRUE]
    BY <2>2 DEF NewState
  <2> QED
    BY <2>1, <2>2, <2>3 DEF StateRows
<1>5. sweeps'.finished = sweeps.finished
  BY <1>1 DEF Types, ClockTyped
<1>6. ASSUME NEW d \in Days PROVE DayIsSeen(d)'
  <2>1. DayIsSeen(d) /\ tries[d] \in Int /\ MaxAttempts \in Nat /\ reports[d] \in 0 .. 2
    BY ClockIsInteger DEF Seen
  <2>2. Today' = Today /\ InWindow(d)' = InWindow(d)
    BY <1>1 DEF Today, InWindow
  <2>3. CASE d \in candidates /\ ~state[d].known
    <3>1. state'[d] = NewState /\ InWindow(d)
      BY <1>3, <2>3
    <3>2. sweeps.finished <= d + WindowDays
      BY <3>1, ClockIsInteger DEF Seen, InWindow
    <3>3. tries[d] = 0 /\ reports[d] = 0
      BY <2>1, <2>3, <3>1 DEF DayIsSeen
    <3> QED
      BY <1>1, <1>4, <1>5, <2>1, <2>2, <3>1, <3>2, <3>3 DEF DayIsSeen
  <2>4. CASE ~(d \in candidates /\ ~state[d].known)
    <3>1. state'[d] = state[d]
      BY <1>3, <2>4
    <3>2. d \in seen' => d \in seen \/ d \in candidates
      BY <1>3
    <3>3. d \in candidates => state[d].known /\ sweeps.finished <= d + WindowDays
      <4>1. d \in candidates => InWindow(d) /\ state[d].known
        BY <1>3, <2>4
      <4> QED
        BY <4>1, ClockIsInteger DEF Seen, InWindow
    <3> QED
      BY <1>1, <1>5, <2>1, <2>2, <3>1, <3>2, <3>3 DEF DayIsSeen
  <2> QED
    BY <2>3, <2>4
<1>7. ASSUME NEW d \in beat'.days PROVE state'[d].known /\ InWindow(d)'
  <2>1. d \in candidates /\ d \in Days
    BY <1>3
  <2>2. InWindow(d)'
    BY <1>1, <1>3, <2>1 DEF InWindow, Today
  <2> QED
    BY <1>3, <1>4, <2>1, <2>2
<1>8. sweeps'.finished <= Today' /\ Today' - sweeps'.finished <= MaxOutage
  BY <1>1, <1>5 DEF Seen, Today
<1> QED
  BY <1>6, <1>7, <1>8 DEF Seen

LEMMA EndSweepKeepsSeen ==
  ASSUME Setting, Types, Seen, EndSweep
  PROVE  Seen'
<1>1. /\ beat' = NoBeat
      /\ UNCHANGED <<hour, metric, tries, seen, wasDone>>
      /\ sweeps' = [sweeps EXCEPT !.finished = Today]
      /\ reports' = [d \in Days |->
           IF d \in Expired THEN Min({2, reports[d] + 1}) ELSE reports[d]]
      /\ state' = [d \in Days |->
           IF d < Today - 2 * WindowDays THEN NoState
           ELSE [state[d] EXCEPT !.logged = @ \/ d \in Expired]]
  BY DEF EndSweep, dayVars
<1>2. sweeps'.finished = Today /\ Today' = Today
  BY <1>1 DEF Types, ClockTyped, Today
<1>3. ASSUME NEW d \in Days PROVE DayIsSeen(d)'
  <2>1. /\ DayIsSeen(d) /\ tries[d] \in Int /\ MaxAttempts \in Nat
        /\ reports[d] \in 0 .. 2 /\ Today \in Int /\ WindowDays \in Nat /\ d \in Int
        /\ sweeps.finished \in Int /\ Today - sweeps.finished <= 3
    BY BoundsType, ClockIsInteger DEF Seen, Setting, GraceDays
  <2>2. InWindow(d)' = InWindow(d)
    BY <1>1 DEF Today, InWindow
  <2>3. d \in Expired =>
          ~InWindow(d) /\ state[d].known /\ ~state[d].logged /\ reports[d] = 0
    BY <2>1 DEF Expired, InWindow, DayIsSeen
  <2>4. reports'[d] = IF d \in Expired THEN 1 ELSE reports[d]
    <3>1. reports'[d] = IF d \in Expired THEN Min({2, reports[d] + 1}) ELSE reports[d]
      BY <1>1
    <3>2. reports[d] = 0 => Min({2, reports[d] + 1}) = 1
      <4>1. PICK n \in Int : n = reports[d]
        BY <2>1
      <4>2. Min({2, n + 1}) = IF 2 <= n + 1 THEN 2 ELSE n + 1
        BY MinOfTwo
      <4> QED
        BY <4>1, <4>2
    <3> QED
      BY <2>3, <3>1, <3>2
  <2>5. CASE d < Today - 2 * WindowDays
    <3>1. ~state'[d].known /\ state'[d].attempts = 0 /\ ~state'[d].logged
      BY <1>1, <2>5 DEF NoState
    <3>2. ~InWindow(d)
      BY <2>1, <2>5 DEF InWindow
    <3>3. d \in seen => d \in wasDone \/ reports'[d] > 0
      <4>1. SUFFICES ASSUME d \in seen, d \notin wasDone, ~(reports[d] > 0)
                     PROVE  d \in Expired
        BY <2>1, <2>4
      <4>2. state[d].known /\ sweeps.finished <= d + WindowDays
            /\ ~metric[d].done /\ ~state[d].logged
        BY <2>1, <4>1 DEF DayIsSeen
      <4>3. d \in Today - WindowDays - 3 .. Today - WindowDays - 1
        BY <2>1, <3>2, <4>2 DEF InWindow
      <4> QED
        BY <4>2, <4>3 DEF Expired, GraceDays
    <3>4. tries[d] <= MaxAttempts /\ (metric[d].done => d \in wasDone) /\ reports[d] <= 1
      BY <2>1 DEF DayIsSeen
    <3> QED
      BY <1>1, <2>1, <2>2, <2>4, <3>1, <3>2, <3>3, <3>4 DEF DayIsSeen
  <2>6. CASE ~(d < Today - 2 * WindowDays)
    <3>1. PICK row : row = [state[d] EXCEPT !.logged = @ \/ d \in Expired]
      OBVIOUS
    <3>2. /\ row.known = state[d].known /\ row.attempts = state[d].attempts
          /\ row.logged <=> state[d].logged \/ d \in Expired
      BY <3>1, ClockIsInteger DEF StateRows
    <3>3. state'[d] = row
      BY <1>1, <2>6, <3>1
    <3>4. d \in seen => \/ d \in wasDone \/ reports'[d] > 0
                        \/ state'[d].known /\ sweeps'.finished <= d + WindowDays
      <4>1. SUFFICES ASSUME d \in seen, d \notin wasDone, ~(reports[d] > 0),
                            ~(Today <= d + WindowDays)
                     PROVE  d \in Expired
        <5>1. d \in seen /\ d \notin wasDone /\ ~(reports[d] > 0) => state[d].known
          BY <2>1 DEF DayIsSeen
        <5> QED
          BY <1>2, <2>1, <2>4, <3>2, <3>3, <5>1
      <4>2. state[d].known /\ sweeps.finished <= d + WindowDays
            /\ ~metric[d].done /\ ~state[d].logged
        BY <2>1, <4>1 DEF DayIsSeen
      <4>3. d \in Today - WindowDays - 3 .. Today - WindowDays - 1
        BY <2>1, <4>1, <4>2 DEF InWindow
      <4> QED
        BY <4>2, <4>3 DEF Expired, GraceDays
    <3>5. /\ tries[d] <= MaxAttempts /\ (metric[d].done => d \in wasDone)
          /\ reports[d] <= 1 /\ (state[d].logged => reports[d] > 0)
          /\ reports[d] > 0 => ~InWindow(d) /\ (state[d].known => state[d].logged)
          /\ IF state[d].known THEN tries[d] = state[d].attempts
             ELSE state[d].attempts = 0 /\ (tries[d] = 0 \/ ~InWindow(d))
      BY <2>1 DEF DayIsSeen
    <3>6. /\ state'[d].logged => reports'[d] > 0
          /\ reports'[d] <= 1
          /\ reports'[d] > 0 => ~InWindow(d) /\ (state'[d].known => state'[d].logged)
      BY <2>1, <2>3, <2>4, <3>2, <3>3, <3>5
    <3> QED
      BY <1>1, <2>2, <3>2, <3>3, <3>4, <3>5, <3>6 DEF DayIsSeen
  <2> QED
    BY <2>5, <2>6
<1>4. sweeps'.finished <= Today' /\ Today' - sweeps'.finished <= MaxOutage
  BY <1>2, ClockIsInteger
<1> QED
  BY <1>1, <1>3, <1>4 DEF Seen, NoBeat

LEMMA TickKeepsSeen ==
  ASSUME Types, Seen, Tick
  PROVE  Seen'
<1>1. /\ hour' = hour + 1 /\ Today' - sweeps.finished <= MaxOutage
      /\ sweeps' = [sweeps EXCEPT !.begun = FALSE] /\ beat.task = "none"
      /\ UNCHANGED <<metric, state, beat, tries, seen, wasDone, reports>>
  BY DEF Tick, dayVars, ghostVars
<1>2. sweeps'.finished = sweeps.finished
  BY <1>1 DEF Types, ClockTyped
<1>3. Today' \in Int /\ Today <= Today'
  <2>1. hour \in Nat /\ HoursPerDay \in Nat \ {0}
    BY BoundsType DEF Types, ClockTyped
  <2>2. /\ (hour + 1) \div HoursPerDay \in Int
        /\ hour \div HoursPerDay \in Int
        /\ hour \div HoursPerDay <= (hour + 1) \div HoursPerDay
    BY <2>1
  <2> QED
    BY <1>1, <2>2 DEF Today
<1>4. ASSUME NEW d \in Days PROVE DayIsSeen(d)'
  <2>1. InWindow(d)' => InWindow(d)
    BY <1>3, ClockIsInteger DEF InWindow
  <2> QED
    BY <1>1, <1>2, <2>1 DEF Seen, DayIsSeen
<1>5. sweeps'.finished <= Today' /\ Today' - sweeps'.finished <= MaxOutage
  BY <1>1, <1>2, <1>3, ClockIsInteger DEF Seen
<1> QED
  BY <1>1, <1>4, <1>5 DEF Seen

LEMMA NextKeepsSeen ==
  ASSUME Setting, Types, Seen, [Next]_vars
  PROVE  Seen'
<1>1. CASE \E p \in Callers : ComputeDay(p)
  BY <1>1, ComputeDayKeepsSeen
<1>2. CASE StartSweep
  BY <1>2, StartSweepKeepsSeen
<1>3. CASE Attempt
  BY <1>3, AttemptKeepsSeen
<1>4. CASE EndDay
  BY <1>4, EndDayKeepsSeen
<1>5. CASE EndSweep
  BY <1>5, EndSweepKeepsSeen
<1>6. CASE Tick
  BY <1>6, TickKeepsSeen
<1>7. CASE \/ \E p \in Callers : Crash(p)
           \/ StartNightly \/ EndNightly \/ StartBackfill \/ StartShard
           \/ EndShard \/ EndBackfill \/ Settle \/ UNCHANGED vars
  <2>1. UNCHANGED <<hour, sweeps, metric, state, seen, reports, tries, wasDone>>
    BY <1>7 DEF Crash, StartNightly, EndNightly, StartBackfill, StartShard, EndShard,
       EndBackfill, Settle, vars, dayVars, ghostVars
  <2>2. beat' = beat \/ beat'.task # "sweep"
    BY <1>7 DEF Crash, StartNightly, EndNightly, StartBackfill, StartShard, EndShard,
       EndBackfill, Settle, vars, NoBeat
  <2> QED
    BY <2>1, <2>2, QuietKeepsSeen
<1> QED
  BY <1>1, <1>2, <1>3, <1>4, <1>5, <1>6, <1>7 DEF Next, Callers

LEMMA InitSeen == Init => Seen
<1> SUFFICES ASSUME Init PROVE Seen
  OBVIOUS
<1>1. Types
  BY InitTypes
<1>2. /\ sweeps.finished = Today /\ seen = {} /\ beat.task # "sweep"
      /\ \A d \in Days : /\ ~metric[d].done /\ reports[d] = 0 /\ tries[d] = 0
                         /\ ~state[d].known /\ ~state[d].logged
                         /\ state[d].attempts = 0
  BY DEF Init, NoRow, NoState, NoBeat
<1>3. \A d \in Days : DayIsSeen(d)
  BY <1>1, <1>2, ClockIsInteger DEF DayIsSeen
<1> QED
  BY <1>1, <1>2, <1>3, ClockIsInteger DEF Seen

(* A day the sweeper has taken up is complete at some time or reported     *)
(* once, and it is tried at most MaxAttempts times, for any window and any *)
(* number of failures, when the sweeper is never away for longer than the  *)
(* days of grace.                                                          *)
THEOREM NoSeenDayIsLost ==
  ASSUME Setting PROVE Spec => []SeenDaysAreAccountedFor
<1>1. Init => Seen
  BY InitSeen
<1>2. Types /\ Seen /\ [Next]_vars => Seen'
  BY NextKeepsSeen
<1>3. Types /\ Seen => SeenDaysAreAccountedFor
  <2> SUFFICES ASSUME Types, Seen, NEW d \in Days
               PROVE  /\ d \in seen /\ Today - d > WindowDays + GraceDays
                           => d \in wasDone \/ reports[d] > 0
                      /\ reports[d] <= 1 /\ tries[d] <= MaxAttempts
    BY DEF SeenDaysAreAccountedFor
  <2>1. DayIsSeen(d) /\ Today - sweeps.finished <= MaxOutage /\ MaxOutage <= 3
    BY DEF Seen, Setting, GraceDays
  <2>2. Today - d > WindowDays + GraceDays => ~(sweeps.finished <= d + WindowDays)
    BY <2>1, ClockIsInteger DEF GraceDays
  <2> QED
    BY <2>1, <2>2 DEF DayIsSeen
<1> QED
  BY <1>1, <1>2, <1>3, RightIsInvariant, PTL DEF Spec

=============================================================================
