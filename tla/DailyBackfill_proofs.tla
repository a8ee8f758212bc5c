------------------------- MODULE DailyBackfill_proofs --------------------------
(***************************************************************************)
(* Proofs about DailyBackfill for any days, chunks and ranges, any number  *)
(* of runs, faults and delays.                                             *)
(***************************************************************************)
EXTENDS DailyBackfill, FiniteSetTheorems, SequenceTheorems, TLAPS

-----------------------------------------------------------------------------
(***************************************************************************)
(* The inductive invariant.                                                *)
(***************************************************************************)
Starters == {"tick", "command"}
States == {"pending", "running", "done", "dispatch_failed"}
ShardStates == {"queued", "running", "returned", "lost"}

Manifests ==
  {m \in [days : Seq((SUBSET Days) \ {{}}), state : Seq(States),
          finished : BOOLEAN, superseded : BOOLEAN] :
     Len(m.days) # 0 /\ Len(m.state) = Len(m.days)}

Chords ==
  [chunk : Nat, shard : UNION {[S -> ShardStates] : S \in SUBSET Days}]

Callbacks ==
  {NoCallback, Ended} \cup [at : {"loaded"}, run : Manifests]
     \cup [at : {"read"}, run : Manifests, latest : Nat]

StarterRecords ==
  {NoStarter, [at |-> "stalled"], [at |-> "select"]}
     \cup [at : {"loaded", "point", "dispatch"}, id : Run, run : Manifests]

Types ==
  /\ completed \subseteq Days
  /\ runs \in Seq(Manifests) /\ Len(runs) <= MaxRuns /\ cursor \in 0 .. Len(runs)
  /\ chord \in [Run -> Chords] /\ lease \in [Run -> SUBSET Days]
  /\ clock \in [Run -> [beat : BOOLEAN, fresh : BOOLEAN]]
  /\ callback \in [Run -> Callbacks] /\ starter \in [Starters -> StarterRecords]
  /\ faults \in 0 .. MaxFaults /\ delays \in 0 .. MaxDelays
  /\ late \in [Run -> 0 .. 2]

(* Every copy of a manifest divides the days as the stored one does, and a *)
(* run is at one of its chunks.                                            *)
Plans ==
  /\ \A r \in Run : chord[r].chunk > 0 =>
       r \in DOMAIN runs /\ chord[r].chunk <= Len(runs[r].days)
  /\ \A r \in Run : callback[r].at \in {"loaded", "read"} =>
       /\ chord[r].chunk > 0 /\ callback[r].run.days = runs[r].days
       /\ callback[r].at = "read" => chord[r].chunk < Len(runs[r].days)
  /\ \A p \in Starters :
       /\ starter[p].at = "stalled" => cursor # 0
       /\ starter[p].at \in {"loaded", "point", "dispatch"} =>
            /\ starter[p].id \in DOMAIN runs
            /\ starter[p].run.days = runs[starter[p].id].days

(* A shard that runs has its lease.                                        *)
Leases ==
  \A r \in Run : \A d \in DOMAIN chord[r].shard :
    chord[r].shard[d] = "running" => d \in lease[r]

(* The cursor never comes back to a run that has begun.                    *)
Newest ==
  /\ \A p \in Starters : starter[p].at \in {"point", "dispatch"} =>
       /\ chord[starter[p].id].chunk = 0
       /\ \A q \in Starters \ {p} : starter[q].at \in {"point", "dispatch"} =>
            starter[q].id # starter[p].id
       /\ starter[p].at = "dispatch" => cursor # 0
  /\ \A r \in Run : chord[r].chunk > 0 => cursor # 0
  /\ \A r \in Run : late[r] > 0 =>
       /\ chord[r].chunk > 0 /\ cursor # r
       /\ callback[r].at = "read" => callback[r].latest \notin {0, r}
  /\ \A r \in Run : callback[r].at = "read" => callback[r].latest # 0
  /\ \A r \in Run : late[r] <= 1

Inv == Types /\ Plans /\ Leases /\ Newest

-----------------------------------------------------------------------------
(***************************************************************************)
(* The chunks of a run.                                                    *)
(***************************************************************************)

(* Each place in a finite set of days is taken, as the days before tell    *)
(* them apart.                                                             *)
LEMMA EveryPlaceIsTaken ==
  ASSUME NEW days \in SUBSET Nat, IsFiniteSet(days),
         NEW k \in 0 .. Cardinality(days) - 1
  PROVE  \E d \in days : Before(days, d) = k
<1> DEFINE n == Cardinality(days)
           S(d) == {e \in days : e < d}
           places == 0 .. n - 1
           f == [d \in days |-> Cardinality(S(d))]
<1>1. n \in Nat
  BY FS_CardinalityType
<1>2. ASSUME NEW d \in days
      PROVE  IsFiniteSet(S(d)) /\ Cardinality(S(d)) \in Nat /\ Cardinality(S(d)) < n
  <2>1. S(d) \subseteq days /\ S(d) # days
    OBVIOUS
  <2> HIDE DEF S
  <2> QED
    BY <2>1, FS_Subset, FS_CardinalityType
<1>3. ASSUME NEW d \in days, NEW e \in days, d < e
      PROVE  Cardinality(S(d)) < Cardinality(S(e))
  <2>1. S(d) \subseteq S(e) /\ S(d) # S(e)
    <3>1. d \in S(e) /\ d \notin S(d)
      BY <1>3
    <3>2. \A x \in S(d) : x \in S(e)
      BY <1>3
    <3> QED
      BY <3>1, <3>2
  <2>2. IsFiniteSet(S(e))
    BY <1>2
  <2> HIDE DEF S
  <2> QED
    BY <2>1, <2>2, FS_Subset, FS_CardinalityType
<1>4. f \in Injection(days, places)
  <2>1. f \in [days -> places]
    <3>1. \A d \in days : Cardinality(S(d)) \in places
      BY <1>1, <1>2
    <3> HIDE DEF S
    <3> QED
      BY <3>1
  <2>2. ASSUME NEW d \in days, NEW e \in days, d # e PROVE f[d] # f[e]
    <3>1. d < e \/ e < d
      BY <2>2
    <3>2. Cardinality(S(d)) # Cardinality(S(e))
      BY <1>2, <1>3, <3>1
    <3> HIDE DEF S
    <3> QED
      BY <3>2
  <2> HIDE DEF f
  <2>3. IsInjective(f)
    BY <2>1, <2>2 DEF IsInjective
  <2> QED
    BY <2>1, <2>3 DEF Injection
<1>5. IsFiniteSet(places) /\ Cardinality(places) = n
  BY <1>1, FS_Interval
<1>6. f \in Surjection(days, places)
  <2> HIDE DEF f, places
  <2> QED
    BY <1>4, <1>5, FS_Injection
<1>7. PICK d \in days : f[d] = k
  <2> HIDE DEF f
  <2> QED
    BY <1>1, <1>6 DEF Surjection
<1> QED
  BY <1>7 DEF Before

LEMMA RunIsManifest ==
  ASSUME NEW days \in SUBSET Days, days # {}
  PROVE  BuildRun(days) \in Manifests
<1> DEFINE n == Cardinality(days)
           chunks == ChunkCount(n)
           chunk(i) == {d \in days : Before(days, d) \in
                                       (i - 1) * ChunkDays .. i * ChunkDays - 1}
<1>1. IsFiniteSet(days) /\ days \subseteq Nat
  BY BackfillType, FS_Subset
<1>2. n \in Nat /\ n # 0
  BY <1>1, FS_CardinalityType, FS_EmptySet
<1>3. ChunkDays \in Nat /\ ChunkDays > 0
  BY BackfillType
<1>4. chunks \in Nat /\ chunks >= 1
  BY <1>2, <1>3 DEF ChunkCount
<1>5. ASSUME NEW i \in 1 .. chunks PROVE chunk(i) \in (SUBSET Days) \ {{}}
  <2>1. chunks * ChunkDays <= n + ChunkDays - 1
    BY <1>2, <1>3 DEF ChunkCount
  <2>2. i * ChunkDays <= chunks * ChunkDays
    BY <1>3, <1>4
  <2>3. PICK k \in Int : k = (i - 1) * ChunkDays
    BY <1>3
  <2>4. k \in 0 .. n - 1 /\ k <= i * ChunkDays - 1 /\ i * ChunkDays - 1 \in Int
    BY <1>2, <1>3, <1>4, <2>1, <2>2, <2>3
  <2>5. PICK d \in days : Before(days, d) = k
    BY <1>1, <2>4, EveryPlaceIsTaken
  <2>6. d \in chunk(i)
    BY <2>3, <2>4, <2>5
  <2>7. chunk(i) \subseteq Days
    OBVIOUS
  <2>8. PICK c : c = chunk(i)
    OBVIOUS
  <2> HIDE DEF chunk
  <2> QED
    BY <2>6, <2>7, <2>8
<1>6. PICK plan : plan = [i \in 1 .. chunks |-> chunk(i)]
  OBVIOUS
<1>7. PICK all : all = [i \in 1 .. chunks |-> "pending"]
  OBVIOUS
<1>8. plan \in Seq((SUBSET Days) \ {{}}) /\ Len(plan) = chunks
  <2>1. plan \in [1 .. chunks -> (SUBSET Days) \ {{}}] /\ DOMAIN plan = 1 .. chunks
    <3> HIDE DEF chunk, chunks
    <3> QED
      BY <1>5, <1>6
  <2> HIDE DEF chunks
  <2>2. plan \in Seq((SUBSET Days) \ {{}})
    BY <1>4, <2>1, SeqDef
  <2> QED
    BY <1>4, <2>1, <2>2, LenProperties
<1>9. all \in Seq(States) /\ Len(all) = chunks
  <2>1. all \in [1 .. chunks -> States] /\ DOMAIN all = 1 .. chunks
    BY <1>7 DEF States
  <2> HIDE DEF chunks
  <2>2. all \in Seq(States)
    BY <1>4, <2>1, SeqDef
  <2> QED
    BY <1>4, <2>1, <2>2, LenProperties
<1>10. BuildRun(days) = [days |-> plan, state |-> all,
                         finished |-> FALSE, superseded |-> FALSE]
  BY <1>6, <1>7 DEF BuildRun
<1> QED
  BY <1>4, <1>8, <1>9, <1>10 DEF Manifests

(* What the writers do to a copy of a manifest.                            *)
LEMMA CopyChanges ==
  ASSUME NEW m \in Manifests
  PROVE  /\ Len(m.days) \in Nat \ {0}
         /\ \A i \in 1 .. Len(m.days) : m.days[i] \in SUBSET Days
         /\ \A i \in 1 .. Len(m.days), s \in States :
              /\ [m EXCEPT !.state[i] = s] \in Manifests
              /\ [m EXCEPT !.state[i] = s].days = m.days
         /\ \A b \in BOOLEAN :
              /\ [m EXCEPT !.finished = b] \in Manifests
              /\ [m EXCEPT !.finished = b].days = m.days
              /\ [m EXCEPT !.superseded = b] \in Manifests
              /\ [m EXCEPT !.superseded = b].days = m.days
<1>1. /\ m \in [days : Seq((SUBSET Days) \ {{}}), state : Seq(States),
                finished : BOOLEAN, superseded : BOOLEAN]
      /\ m.days \in Seq((SUBSET Days) \ {{}}) /\ m.state \in Seq(States)
      /\ Len(m.days) # 0 /\ Len(m.state) = Len(m.days)
  BY DEF Manifests
<1>2. Len(m.days) \in Nat /\ DOMAIN m.days = 1 .. Len(m.days)
  BY <1>1, LenProperties
<1>3. \A i \in 1 .. Len(m.days) : m.days[i] \in SUBSET Days
  BY <1>1, ElementOfSeq
<1>4. ASSUME NEW i \in 1 .. Len(m.days), NEW s \in States
      PROVE  /\ [m EXCEPT !.state[i] = s] \in Manifests
             /\ [m EXCEPT !.state[i] = s].days = m.days
  <2>1. PICK state : state = [m.state EXCEPT ![i] = s]
    OBVIOUS
  <2>2. state \in Seq(States) /\ Len(state) = Len(m.state)
    BY <1>1, <2>1, ExceptSeq
  <2>3. [m EXCEPT !.state[i] = s] = [m EXCEPT !.state = state]
    BY <2>1
  <2>4. PICK k : k = [m EXCEPT !.state = state]
    OBVIOUS
  <2>5. k \in Manifests /\ k.days = m.days
    BY <1>1, <2>2, <2>4 DEF Manifests
  <2> QED
    BY <2>3, <2>4, <2>5
<1>5. ASSUME NEW b \in BOOLEAN
      PROVE  /\ [m EXCEPT !.finished = b] \in Manifests
             /\ [m EXCEPT !.finished = b].days = m.days
             /\ [m EXCEPT !.superseded = b] \in Manifests
             /\ [m EXCEPT !.superseded = b].days = m.days
  <2>1. PICK k : k = [m EXCEPT !.finished = b]
    OBVIOUS
  <2>2. PICK l : l = [m EXCEPT !.superseded = b]
    OBVIOUS
  <2>3. k \in Manifests /\ k.days = m.days
    BY <1>1, <2>1 DEF Manifests
  <2>4. l \in Manifests /\ l.days = m.days
    BY <1>1, <2>2 DEF Manifests
  <2> QED
    BY <2>1, <2>2, <2>3, <2>4
<1> QED
  BY <1>1, <1>2, <1>3, <1>4, <1>5

(* A copy is stored.                                                       *)
LEMMA CopyIsStored ==
  ASSUME Types, NEW r \in DOMAIN runs, NEW m \in Manifests,
         m.days = runs[r].days, runs' = [runs EXCEPT ![r] = m]
  PROVE  /\ runs' \in Seq(Manifests) /\ Len(runs') = Len(runs)
         /\ DOMAIN runs' = DOMAIN runs
         /\ \A q \in DOMAIN runs : runs'[q].days = runs[q].days
<1>1. runs \in Seq(Manifests)
  BY DEF Types
<1>2. DOMAIN runs = 1 .. Len(runs)
  BY <1>1, LenProperties
<1>3. /\ runs' \in Seq(Manifests) /\ Len(runs') = Len(runs)
      /\ \A q \in 1 .. Len(runs) : runs'[q] = IF q = r THEN m ELSE runs[q]
  BY <1>1, <1>2, ExceptSeq
<1>4. DOMAIN runs' = DOMAIN runs
  OBVIOUS
<1> QED
  BY <1>2, <1>3, <1>4

LEMMA RunsTyped ==
  ASSUME Types
  PROVE  /\ DOMAIN runs = 1 .. Len(runs) /\ Len(runs) \in Nat
         /\ DOMAIN runs \subseteq Run
         /\ \A r \in DOMAIN runs : runs[r] \in Manifests
         /\ MaxRuns \in Nat
<1>1. runs \in Seq(Manifests) /\ Len(runs) <= MaxRuns
  BY DEF Types
<1>2. DOMAIN runs = 1 .. Len(runs) /\ Len(runs) \in Nat
  BY <1>1, LenProperties
<1>3. \A r \in DOMAIN runs : runs[r] \in Manifests
  BY <1>1, <1>2, ElementOfSeq
<1> QED
  BY <1>1, <1>2, <1>3, BackfillType DEF Run

(* A step that begins no chunk and moves no cursor.                        *)
LEMMA QuietKeeps ==
  ASSUME Types, Plans, Newest,
         DOMAIN runs \subseteq DOMAIN runs',
         \A q \in DOMAIN runs : runs'[q].days = runs[q].days,
         UNCHANGED <<cursor, late>>,
         \A r \in Run : chord'[r].chunk = chord[r].chunk,
         \A r \in Run : \/ callback'[r] = callback[r]
                        \/ callback'[r].at \notin {"loaded", "read"},
         \A p \in Starters : \/ starter'[p] = starter[p]
                             \/ starter'[p].at \in {"idle", "select"}
  PROVE  Plans' /\ Newest'
<1>1. \A p \in Starters : starter[p].at \in {"loaded", "point", "dispatch"} =>
        starter[p].id \in Run
  BY RunsTyped DEF Plans
<1>2. Plans'
  <2>1. \A r \in Run : chord'[r].chunk > 0 =>
          r \in DOMAIN runs' /\ chord'[r].chunk <= Len(runs'[r].days)
    BY DEF Plans
  <2>2. \A r \in Run : callback'[r].at \in {"loaded", "read"} =>
          /\ chord'[r].chunk > 0 /\ callback'[r].run.days = runs'[r].days
          /\ callback'[r].at = "read" => chord'[r].chunk < Len(runs'[r].days)
    BY DEF Plans
  <2>3. \A p \in Starters :
          /\ starter'[p].at = "stalled" => cursor' # 0
          /\ starter'[p].at \in {"loaded", "point", "dispatch"} =>
               /\ starter'[p].id \in DOMAIN runs'
               /\ starter'[p].run.days = runs'[starter'[p].id].days
    BY DEF Plans
  <2> QED
    BY <2>1, <2>2, <2>3 DEF Plans
<1>3. Newest'
  <2>1. \A p \in Starters : starter'[p].at \in {"point", "dispatch"} =>
          /\ chord'[starter'[p].id].chunk = 0
          /\ \A q \in Starters \ {p} : starter'[q].at \in {"point", "dispatch"} =>
               starter'[q].id # starter'[p].id
          /\ starter'[p].at = "dispatch" => cursor' # 0
    BY <1>1 DEF Newest
  <2>2. \A r \in Run : /\ chord'[r].chunk > 0 => cursor' # 0
                       /\ late'[r] > 0 =>
                            /\ chord'[r].chunk > 0 /\ cursor' # r
                            /\ callback'[r].at = "read" =>
                                 callback'[r].latest \notin {0, r}
                       /\ callback'[r].at = "read" => callback'[r].latest # 0
                       /\ late'[r] <= 1
    BY DEF Newest
  <2> QED
    BY <2>1, <2>2 DEF Newest
<1> QED
  BY <1>2, <1>3

-----------------------------------------------------------------------------
(***************************************************************************)
(* The shards.                                                             *)
(***************************************************************************)
LEMMA ShardMoves ==
  ASSUME Inv, NEW r \in Run, NEW d \in DOMAIN chord[r].shard, NEW s \in ShardStates,
         chord' = [chord EXCEPT ![r].shard[d] = s],
         lease' \in [Run -> SUBSET Days], \A q \in Run \ {r} : lease'[q] = lease[q],
         \A e \in lease[r] : e = d \/ e \in lease'[r], s = "running" => d \in lease'[r],
         clock' \in [Run -> [beat : BOOLEAN, fresh : BOOLEAN]],
         completed' \subseteq Days, faults' \in 0 .. MaxFaults,
         UNCHANGED <<runs, cursor, callback, starter, delays, late>>
  PROVE  Inv'
<1>1. /\ chord \in [Run -> Chords] /\ chord[r] \in Chords
      /\ lease \in [Run -> SUBSET Days]
  BY DEF Inv, Types
<1>2. PICK S \in SUBSET Days : chord[r].shard \in [S -> ShardStates]
  BY <1>1 DEF Chords
<1>3. PICK f : f = [chord[r].shard EXCEPT ![d] = s]
  OBVIOUS
<1>4. f \in [S -> ShardStates] /\ f[d] = s
      /\ \A e \in S \ {d} : f[e] = chord[r].shard[e]
  BY <1>2, <1>3
<1>5. PICK c : c = [chord[r] EXCEPT !.shard = f]
  OBVIOUS
<1>6. c \in Chords /\ c.chunk = chord[r].chunk /\ c.shard = f
  BY <1>1, <1>4, <1>5 DEF Chords
<1>7. chord' = [chord EXCEPT ![r] = c]
  BY <1>1, <1>3, <1>5
<1>8. /\ chord' \in [Run -> Chords]
      /\ \A q \in Run : chord'[q].chunk = chord[q].chunk
  BY <1>1, <1>6, <1>7
<1>9. Types'
  BY <1>8 DEF Inv, Types
<1>10. Plans' /\ Newest'
  BY <1>8, QuietKeeps DEF Inv
<1>11. Leases'
  <2>1. ASSUME NEW q \in Run, NEW e \in DOMAIN chord'[q].shard,
               chord'[q].shard[e] = "running"
        PROVE  e \in lease'[q]
    <3>1. CASE q = r
      BY <1>1, <1>2, <1>4, <1>6, <1>7, <2>1, <3>1 DEF Inv, Leases
    <3>2. CASE q # r
      BY <1>1, <1>7, <2>1, <3>2 DEF Inv, Leases
    <3> QED
      BY <3>1, <3>2
  <2> QED
    BY <2>1 DEF Leases
<1> QED
  BY <1>9, <1>10, <1>11 DEF Inv

LEMMA BeatTyped ==
  ASSUME Types, NEW r \in Run, clock' = Beat(r)
  PROVE  clock' \in [Run -> [beat : BOOLEAN, fresh : BOOLEAN]]
BY DEF Types, Beat

LEMMA FaultTyped ==
  ASSUME Types, Fault
  PROVE  faults' \in 0 .. MaxFaults
BY BackfillType DEF Types, Fault

LEMMA StartShardKeeps ==
  ASSUME Inv, NEW r \in Run, NEW d \in Days, StartShard(r, d)
  PROVE  Inv'
<1>1. d \in DOMAIN chord[r].shard
  BY DEF StartShard, Shard
<1>2. /\ chord' = [chord EXCEPT ![r].shard[d] = "running"]
      /\ completed' \subseteq Days /\ faults' \in 0 .. MaxFaults
      /\ "running" \in ShardStates
      /\ UNCHANGED <<runs, cursor, callback, starter, delays, late>>
  BY DEF StartShard, boundVars, Inv, Types, ShardStates
<1>3. clock' \in [Run -> [beat : BOOLEAN, fresh : BOOLEAN]]
  BY BeatTyped DEF StartShard, Inv
<1>5. /\ lease' \in [Run -> SUBSET Days] /\ \A q \in Run \ {r} : lease'[q] = lease[q]
      /\ lease'[r] = lease[r] \cup {d}
  BY DEF StartShard, Inv, Types
<1>6. (\A e \in lease[r] : e = d \/ e \in lease'[r]) /\ ("running" = "running" => d \in lease'[r])
  BY <1>5
<1> QED
  BY <1>1, <1>2, <1>3, <1>5, <1>6, ShardMoves

LEMMA ShardSucceedsKeeps ==
  ASSUME Inv, NEW r \in Run, NEW d \in Days, ShardSucceeds(r, d)
  PROVE  Inv'
<1>1. d \in DOMAIN chord[r].shard
  BY DEF ShardSucceeds, Shard
<1>2. /\ chord' = [chord EXCEPT ![r].shard[d] = "returned"]
      /\ completed' \subseteq Days /\ faults' \in 0 .. MaxFaults
      /\ "returned" \in ShardStates
      /\ UNCHANGED <<runs, cursor, callback, starter, delays, late>>
  BY DEF ShardSucceeds, boundVars, Inv, Types, ShardStates
<1>3. clock' \in [Run -> [beat : BOOLEAN, fresh : BOOLEAN]]
  BY BeatTyped DEF ShardSucceeds, Inv
<1>5. /\ lease' \in [Run -> SUBSET Days] /\ \A q \in Run \ {r} : lease'[q] = lease[q]
      /\ lease'[r] = lease[r] \ {d}
  BY DEF ShardSucceeds, Inv, Types
<1>6. (\A e \in lease[r] : e = d \/ e \in lease'[r]) /\ ("returned" = "running" => d \in lease'[r])
  BY <1>5
<1> QED
  BY <1>1, <1>2, <1>3, <1>5, <1>6, ShardMoves

LEMMA ShardFailsKeeps ==
  ASSUME Inv, NEW r \in Run, NEW d \in Days, ShardFails(r, d)
  PROVE  Inv'
<1>1. d \in DOMAIN chord[r].shard
  BY DEF ShardFails, Shard
<1>2. /\ chord' = [chord EXCEPT ![r].shard[d] = "returned"]
      /\ completed' \subseteq Days
      /\ "returned" \in ShardStates
      /\ UNCHANGED <<runs, cursor, callback, starter, delays, late>>
  BY DEF ShardFails, Inv, Types, ShardStates
<1>3. clock' \in [Run -> [beat : BOOLEAN, fresh : BOOLEAN]]
  BY BeatTyped DEF ShardFails, Inv
<1>4. faults' \in 0 .. MaxFaults
  BY FaultTyped DEF ShardFails, Inv
<1>5. /\ lease' \in [Run -> SUBSET Days] /\ \A q \in Run \ {r} : lease'[q] = lease[q]
      /\ lease'[r] = lease[r] \ {d}
  BY DEF ShardFails, Inv, Types
<1>6. (\A e \in lease[r] : e = d \/ e \in lease'[r]) /\ ("returned" = "running" => d \in lease'[r])
  BY <1>5
<1> QED
  BY <1>1, <1>2, <1>3, <1>4, <1>5, <1>6, ShardMoves

LEMMA ShardKilledKeeps ==
  ASSUME Inv, NEW r \in Run, NEW d \in Days, ShardKilled(r, d)
  PROVE  Inv'
<1>1. d \in DOMAIN chord[r].shard
  BY DEF ShardKilled, Shard
<1>2. /\ chord' = [chord EXCEPT ![r].shard[d] = "lost"]
      /\ completed' \subseteq Days
      /\ "lost" \in ShardStates
      /\ clock' \in [Run -> [beat : BOOLEAN, fresh : BOOLEAN]]
      /\ UNCHANGED <<runs, cursor, callback, starter, delays, late>>
  BY DEF ShardKilled, Inv, Types, ShardStates
<1>3. faults' \in 0 .. MaxFaults
  BY FaultTyped DEF ShardKilled, Inv
<1>5. /\ lease' \in [Run -> SUBSET Days] /\ \A q \in Run \ {r} : lease'[q] = lease[q]
      /\ lease'[r] = lease[r]
  BY DEF ShardKilled, Inv, Types
<1>6. (\A e \in lease[r] : e = d \/ e \in lease'[r]) /\ ("lost" = "running" => d \in lease'[r])
  BY <1>5
<1> QED
  BY <1>1, <1>2, <1>3, <1>5, <1>6, ShardMoves

LEMMA LeaseExpiresKeeps ==
  ASSUME Inv, NEW r \in Run, NEW d \in Days, LeaseExpires(r, d)
  PROVE  Inv'
<1>1. /\ Shard(r, d) # "running" /\ lease' = [lease EXCEPT ![r] = lease[r] \ {d}]
      /\ UNCHANGED <<completed, runs, cursor, chord, clock, callback, starter,
                     faults, delays, late>>
  BY DEF LeaseExpires, boundVars
<1>2. Types' /\ lease \in [Run -> SUBSET Days]
  BY <1>1 DEF Inv, Types
<1>3. Plans' /\ Newest'
  BY <1>1, QuietKeeps DEF Inv
<1>4. Leases'
  BY <1>1, <1>2 DEF Inv, Leases, Shard
<1> QED
  BY <1>2, <1>3, <1>4 DEF Inv

LEMMA GracePassesKeeps ==
  ASSUME Inv, NEW r \in Run, GracePasses(r)
  PROVE  Inv'
<1>1. /\ clock' = [clock EXCEPT ![r].fresh = FALSE]
      /\ UNCHANGED <<completed, runs, cursor, chord, lease, callback, starter,
                     faults, late>>
  BY DEF GracePasses
<1>2. delays' \in 0 .. MaxDelays
  BY BackfillType DEF GracePasses, Inv, Types
<1>3. clock' \in [Run -> [beat : BOOLEAN, fresh : BOOLEAN]]
  BY <1>1 DEF Inv, Types
<1>4. Types'
  BY <1>1, <1>2, <1>3 DEF Inv, Types
<1>5. Plans' /\ Newest'
  BY <1>1, QuietKeeps DEF Inv
<1>6. Leases'
  BY <1>1 DEF Inv, Leases
<1> QED
  BY <1>4, <1>5, <1>6 DEF Inv

-----------------------------------------------------------------------------
(***************************************************************************)
(* The callbacks.                                                          *)
(***************************************************************************)
LEMMA WorkingCallback ==
  ASSUME Inv, NEW r \in Run, callback[r].at \in {"loaded", "read"}
  PROVE  /\ r \in DOMAIN runs /\ runs[r] \in Manifests
         /\ callback[r].run \in Manifests /\ callback[r].run.days = runs[r].days
         /\ chord[r] \in Chords /\ chord[r].chunk \in 1 .. Len(runs[r].days)
         /\ callback[r].at = "read" =>
              /\ callback[r].latest \in Nat
              /\ chord[r].chunk + 1 \in 1 .. Len(runs[r].days)
<1>1. /\ callback[r] \in Callbacks /\ chord[r] \in Chords
  BY DEF Inv, Types
<1>2. /\ callback[r].run \in Manifests
      /\ callback[r].at = "read" => callback[r].latest \in Nat
  BY <1>1 DEF Callbacks, NoCallback, Ended
<1>3. /\ chord[r].chunk > 0 /\ callback[r].run.days = runs[r].days
      /\ r \in DOMAIN runs /\ chord[r].chunk <= Len(runs[r].days)
      /\ callback[r].at = "read" => chord[r].chunk < Len(runs[r].days)
  BY DEF Inv, Plans
<1>4. runs[r] \in Manifests
  BY <1>3, RunsTyped DEF Inv
<1>5. Len(runs[r].days) \in Nat /\ chord[r].chunk \in Nat
  BY <1>1, <1>4, CopyChanges DEF Chords
<1>6. /\ chord[r].chunk \in 1 .. Len(runs[r].days)
      /\ callback[r].at = "read" => chord[r].chunk + 1 \in 1 .. Len(runs[r].days)
  <2>1. PICK n \in Nat, k \in Nat : n = Len(runs[r].days) /\ k = chord[r].chunk
    BY <1>5
  <2>2. k > 0 /\ k <= n /\ (callback[r].at = "read" => k < n)
    BY <1>3, <2>1
  <2> QED
    BY <2>1, <2>2
<1> QED
  BY <1>1, <1>2, <1>3, <1>4, <1>6

(* A callback ends, having stored its copy or nothing.                     *)
LEMMA CallbackEnds ==
  ASSUME Inv, NEW r \in Run, callback' = [callback EXCEPT ![r] = Ended],
         \/ UNCHANGED runs
         \/ /\ callback[r].at \in {"loaded", "read"}
            /\ \E m \in Manifests : /\ m.days = callback[r].run.days
                                    /\ runs' = [runs EXCEPT ![r] = m],
         faults' \in 0 .. MaxFaults,
         UNCHANGED <<completed, cursor, chord, lease, clock, starter, delays, late>>
  PROVE  Inv'
<1>1. /\ runs' \in Seq(Manifests) /\ Len(runs') = Len(runs)
      /\ DOMAIN runs' = DOMAIN runs
      /\ \A q \in DOMAIN runs : runs'[q].days = runs[q].days
  <2>1. CASE UNCHANGED runs
    BY <2>1 DEF Inv, Types
  <2>2. CASE /\ callback[r].at \in {"loaded", "read"}
             /\ \E m \in Manifests : /\ m.days = callback[r].run.days
                                     /\ runs' = [runs EXCEPT ![r] = m]
    <3>1. PICK m \in Manifests : /\ m.days = callback[r].run.days
                                 /\ runs' = [runs EXCEPT ![r] = m]
      BY <2>2
    <3>2. r \in DOMAIN runs /\ m.days = runs[r].days
      BY <2>2, <3>1, WorkingCallback
    <3> QED
      BY <3>1, <3>2, CopyIsStored DEF Inv
  <2> QED
    BY <2>1, <2>2
<1>2. callback' \in [Run -> Callbacks]
  BY DEF Inv, Types, Callbacks
<1>3. Types'
  BY <1>1, <1>2 DEF Inv, Types
<1>4. \A q \in Run : \/ callback'[q] = callback[q]
                     \/ callback'[q].at \notin {"loaded", "read"}
  BY DEF Inv, Types, Ended
<1>5. Plans' /\ Newest'
  BY <1>1, <1>4, QuietKeeps DEF Inv
<1>6. Leases'
  BY DEF Inv, Leases
<1> QED
  BY <1>3, <1>5, <1>6 DEF Inv

LEMMA FinishRunKeeps ==
  ASSUME Inv, NEW r \in Run, FinishRun(r)
  PROVE  Inv'
<1>1. PICK m : m = [callback[r].run EXCEPT !.finished = TRUE]
  OBVIOUS
<1>2. callback[r].at = "loaded" /\ runs' = [runs EXCEPT ![r] = m]
  BY <1>1 DEF FinishRun
<1>3. m \in Manifests /\ m.days = callback[r].run.days
  BY <1>1, <1>2, WorkingCallback, CopyChanges
<1>4. /\ callback' = [callback EXCEPT ![r] = Ended] /\ faults' \in 0 .. MaxFaults
      /\ UNCHANGED <<completed, cursor, chord, lease, clock, starter, delays, late>>
  BY DEF FinishRun, workVars, boundVars, Inv, Types
<1> QED
  BY <1>2, <1>3, <1>4, CallbackEnds

LEMMA RefuseKeeps ==
  ASSUME Inv, NEW r \in Run, Refuse(r)
  PROVE  Inv'
<1>1. PICK m : m = [callback[r].run EXCEPT !.finished = TRUE]
  OBVIOUS
<1>2. callback[r].at = "read" /\ runs' = [runs EXCEPT ![r] = m]
  BY <1>1 DEF Refuse
<1>3. m \in Manifests /\ m.days = callback[r].run.days
  BY <1>1, <1>2, WorkingCallback, CopyChanges
<1>4. /\ callback' = [callback EXCEPT ![r] = Ended] /\ faults' \in 0 .. MaxFaults
      /\ UNCHANGED <<completed, cursor, chord, lease, clock, starter, delays, late>>
  BY DEF Refuse, workVars, boundVars, Inv, Types
<1> QED
  BY <1>2, <1>3, <1>4, CallbackEnds

LEMMA HandOffFailsKeeps ==
  ASSUME Inv, NEW r \in Run, HandOffFails(r)
  PROVE  Inv'
<1>1. PICK i : i = chord[r].chunk + 1
  OBVIOUS
<1>2. PICK m : m = [callback[r].run EXCEPT !.state[i] = "dispatch_failed"]
  OBVIOUS
<1>3. PICK k : k = [m EXCEPT !.finished = TRUE]
  OBVIOUS
<1>4. /\ callback[r].at = "read" /\ Fault
      /\ callback' = [callback EXCEPT ![r] = Ended]
      /\ UNCHANGED <<completed, cursor, chord, lease, clock, starter, delays, late>>
  BY DEF HandOffFails, workVars
<1>5. callback[r].run \in Manifests /\ i \in 1 .. Len(callback[r].run.days)
      /\ "dispatch_failed" \in States
  BY <1>1, <1>4, WorkingCallback DEF States
<1>6. m \in Manifests /\ m.days = callback[r].run.days
  BY <1>2, <1>5, CopyChanges
<1>7. k \in Manifests /\ k.days = callback[r].run.days
  BY <1>3, <1>6, CopyChanges
<1>8. runs' = [runs EXCEPT ![r] = k]
  <2>1. k = [callback[r].run EXCEPT !.state[chord[r].chunk + 1] = "dispatch_failed",
                                    !.finished = TRUE]
    BY <1>1, <1>2, <1>3
  <2> QED
    BY <2>1 DEF HandOffFails
<1>9. faults' \in 0 .. MaxFaults
  BY <1>4, FaultTyped DEF Inv
<1> QED
  BY <1>4, <1>7, <1>8, <1>9, CallbackEnds

LEMMA CallbackKilledKeeps ==
  ASSUME Inv, NEW r \in Run, CallbackKilled(r)
  PROVE  Inv'
<1>1. /\ callback' = [callback EXCEPT ![r] = Ended] /\ Fault
      /\ UNCHANGED <<completed, runs, cursor, chord, lease, clock, starter, delays,
                     late>>
  BY DEF CallbackKilled, workVars
<1>2. faults' \in 0 .. MaxFaults
  BY <1>1, FaultTyped DEF Inv
<1> QED
  BY <1>1, <1>2, CallbackEnds

LEMMA LoadManifestKeeps ==
  ASSUME Inv, NEW r \in Run, LoadManifest(r)
  PROVE  Inv'
<1>1. /\ callback[r].at = "idle" /\ chord[r].chunk > 0
      /\ UNCHANGED <<completed, runs, cursor, chord, lease, clock, starter, faults,
                     delays, late>>
  BY DEF LoadManifest, workVars, boundVars
<1>2. PICK m : m = [runs[r] EXCEPT !.state[chord[r].chunk] = "done"]
  OBVIOUS
<1>3. m \in Manifests /\ m.days = runs[r].days
  <2>1. r \in DOMAIN runs /\ chord[r].chunk <= Len(runs[r].days)
    BY <1>1 DEF Inv, Plans
  <2>2. runs[r] \in Manifests /\ chord[r].chunk \in Nat
    BY <2>1, RunsTyped DEF Inv, Types, Chords
  <2>3. Len(runs[r].days) \in Nat
    BY <2>2, CopyChanges
  <2>4. chord[r].chunk \in 1 .. Len(runs[r].days) /\ "done" \in States
    BY <1>1, <2>1, <2>2, <2>3 DEF States
  <2> QED
    BY <1>2, <2>2, <2>4, CopyChanges
<1>4. PICK c : c = [at |-> "loaded", run |-> m]
  OBVIOUS
<1>5. /\ c \in Callbacks /\ c.at = "loaded" /\ c.run = m
      /\ callback' = [callback EXCEPT ![r] = c]
  BY <1>2, <1>3, <1>4 DEF Callbacks, LoadManifest
<1>6. /\ callback \in [Run -> Callbacks] /\ callback' \in [Run -> Callbacks]
      /\ callback'[r] = c /\ \A q \in Run \ {r} : callback'[q] = callback[q]
  BY <1>5 DEF Inv, Types
<1>7. Types'
  BY <1>1, <1>6 DEF Inv, Types
<1>8. Plans'
  BY <1>1, <1>3, <1>5, <1>6 DEF Inv, Plans
<1>9. Newest'
  BY <1>1, <1>5, <1>6 DEF Inv, Newest
<1>10. Leases'
  BY <1>1 DEF Inv, Leases
<1> QED
  BY <1>7, <1>8, <1>9, <1>10 DEF Inv

LEMMA ReadPointerKeeps ==
  ASSUME Inv, NEW r \in Run, ReadPointer(r)
  PROVE  Inv'
<1>1. /\ callback[r].at = "loaded" /\ chord[r].chunk < Len(runs[r].days)
      /\ UNCHANGED <<completed, runs, cursor, chord, lease, clock, starter, faults,
                     delays, late>>
  BY DEF ReadPointer, workVars, boundVars
<1>2. PICK c : c = [at |-> "read", run |-> callback[r].run, latest |-> cursor]
  OBVIOUS
<1>3. /\ callback[r].run \in Manifests /\ callback[r].run.days = runs[r].days
      /\ chord[r].chunk > 0 /\ cursor \in Nat
  BY <1>1, WorkingCallback, RunsTyped DEF Inv, Types
<1>4. /\ c \in Callbacks /\ c.at = "read" /\ c.run = callback[r].run
      /\ c.latest = cursor /\ callback' = [callback EXCEPT ![r] = c]
  BY <1>2, <1>3 DEF Callbacks, ReadPointer
<1>5. /\ callback \in [Run -> Callbacks] /\ callback' \in [Run -> Callbacks]
      /\ callback'[r] = c /\ \A q \in Run \ {r} : callback'[q] = callback[q]
  BY <1>4 DEF Inv, Types
<1>6. Types'
  BY <1>1, <1>5 DEF Inv, Types
<1>7. Plans'
  BY <1>1, <1>3, <1>4, <1>5 DEF Inv, Plans
<1>8. cursor # 0
  BY <1>3 DEF Inv, Newest
<1>9. Newest'
  BY <1>1, <1>4, <1>5, <1>8 DEF Inv, Newest
<1>10. Leases'
  BY <1>1 DEF Inv, Leases
<1> QED
  BY <1>6, <1>7, <1>9, <1>10 DEF Inv

(* A chunk is dispatched, the first one or the next.                       *)
LEMMA NewChordTyped ==
  ASSUME NEW m \in Manifests, NEW i \in 1 .. Len(m.days), NEW c, c = NewChord(m, i)
  PROVE  /\ c \in Chords /\ c.chunk = i
         /\ \A d \in DOMAIN c.shard : c.shard[d] = "queued"
         /\ Running(m, i) \in Manifests /\ Running(m, i).days = m.days
<1>1. m.days[i] \in SUBSET Days /\ Len(m.days) \in Nat /\ "running" \in States
  BY CopyChanges DEF States
<1>2. PICK f : f = [d \in m.days[i] |-> "queued"]
  OBVIOUS
<1>3. f \in [m.days[i] -> ShardStates] /\ \A d \in DOMAIN f : f[d] = "queued"
  BY <1>2 DEF ShardStates
<1>4. c = [chunk |-> i, shard |-> f]
  BY <1>2 DEF NewChord
<1> QED
  BY <1>1, <1>3, <1>4, CopyChanges DEF Chords, Running

LEMMA DispatchedTyped ==
  ASSUME Types, NEW r \in Run, clock' = Dispatched(r)
  PROVE  clock' \in [Run -> [beat : BOOLEAN, fresh : BOOLEAN]]
<1>1. PICK b : b = IF clock[r].beat THEN clock[r].fresh ELSE TRUE
  OBVIOUS
<1>2. clock' = [clock EXCEPT ![r].fresh = b] /\ b \in BOOLEAN
  BY <1>1 DEF Types, Dispatched
<1> QED
  BY <1>2 DEF Types

LEMMA HandOffKeeps ==
  ASSUME Inv, NEW r \in Run, HandOff(r)
  PROVE  Inv'
<1>1. /\ callback[r].at = "read" /\ callback[r].latest \in {0, r}
      /\ callback' = [callback EXCEPT ![r] = NoCallback]
      /\ late' = [late EXCEPT ![r] = IF cursor # r THEN Min({2, late[r] + 1})
                                     ELSE late[r]]
      /\ UNCHANGED <<completed, cursor, lease, starter, faults, delays>>
  BY DEF HandOff, boundVars, MayHandOff
<1>2. PICK m : m = callback[r].run
  OBVIOUS
<1>3. PICK i : i = chord[r].chunk + 1
  OBVIOUS
<1>4. PICK c : c = NewChord(m, i)
  OBVIOUS
<1>5. /\ runs' = [runs EXCEPT ![r] = Running(m, i)]
      /\ chord' = [chord EXCEPT ![r] = c]
      /\ clock' = Dispatched(r)
  BY <1>2, <1>3, <1>4 DEF HandOff
<1>6. /\ m \in Manifests /\ r \in DOMAIN runs /\ m.days = runs[r].days
      /\ i \in 1 .. Len(m.days) /\ chord[r].chunk > 0 /\ i > 0
  BY <1>1, <1>2, <1>3, WorkingCallback
<1>7. /\ c \in Chords /\ c.chunk = i
      /\ \A d \in DOMAIN c.shard : c.shard[d] = "queued"
      /\ Running(m, i) \in Manifests /\ Running(m, i).days = m.days
  BY <1>4, <1>6, NewChordTyped
<1>8. /\ runs' \in Seq(Manifests) /\ Len(runs') = Len(runs)
      /\ DOMAIN runs' = DOMAIN runs
      /\ \A q \in DOMAIN runs : runs'[q].days = runs[q].days
  BY <1>5, <1>6, <1>7, CopyIsStored DEF Inv
<1>9. clock' \in [Run -> [beat : BOOLEAN, fresh : BOOLEAN]]
  BY <1>5, DispatchedTyped DEF Inv
<1>10. /\ chord \in [Run -> Chords] /\ chord' \in [Run -> Chords] /\ chord'[r] = c
       /\ \A q \in Run \ {r} : chord'[q] = chord[q]
  BY <1>5, <1>7 DEF Inv, Types
<1>11. /\ callback \in [Run -> Callbacks] /\ callback' \in [Run -> Callbacks]
       /\ callback'[r].at = "idle"
       /\ \A q \in Run \ {r} : callback'[q] = callback[q]
  BY <1>1 DEF Inv, Types, Callbacks, NoCallback
<1>12. cursor # 0
  BY <1>6 DEF Inv, Newest
<1>13. /\ late' \in [Run -> 0 .. 2] /\ late'[r] <= 1
       /\ late'[r] > 0 => cursor # r
       /\ \A q \in Run \ {r} : late'[q] = late[q]
  <2>1. late \in [Run -> 0 .. 2] /\ late[r] = 0
    <3>1. late \in [Run -> 0 .. 2]
      BY DEF Inv, Types
    <3>2. ~(late[r] > 0)
      BY <1>1 DEF Inv, Newest
    <3> QED
      BY <3>1, <3>2
  <2>2. Min({2, 0 + 1}) = 1
    <3>1. \A x \in {2, 1} : 1 <= x
      OBVIOUS
    <3>2. \A y \in {2, 1} : (\A x \in {2, 1} : y <= x) => y = 1
      OBVIOUS
    <3> QED
      BY <3>1, <3>2 DEF Min
  <2>3. late'[r] = IF cursor # r THEN 1 ELSE 0
    BY <1>1, <2>1, <2>2
  <2>4. late' = [late EXCEPT ![r] = late'[r]]
    BY <1>1, <2>1
  <2> QED
    BY <2>1, <2>3, <2>4
<1>14. Types'
  BY <1>1, <1>8, <1>9, <1>10, <1>11, <1>13 DEF Inv, Types
<1>15. Plans'
  <2>1. \A q \in Run : chord'[q].chunk > 0 =>
          q \in DOMAIN runs' /\ chord'[q].chunk <= Len(runs'[q].days)
    BY <1>6, <1>7, <1>8, <1>10 DEF Inv, Plans
  <2>2. \A q \in Run : callback'[q].at \in {"loaded", "read"} =>
          /\ chord'[q].chunk > 0 /\ callback'[q].run.days = runs'[q].days
          /\ callback'[q].at = "read" => chord'[q].chunk < Len(runs'[q].days)
    BY <1>8, <1>10, <1>11 DEF Inv, Plans
  <2>3. \A p \in Starters :
          /\ starter'[p].at = "stalled" => cursor' # 0
          /\ starter'[p].at \in {"loaded", "point", "dispatch"} =>
               /\ starter'[p].id \in DOMAIN runs'
               /\ starter'[p].run.days = runs'[starter'[p].id].days
    BY <1>1, <1>8 DEF Inv, Plans
  <2> QED
    BY <2>1, <2>2, <2>3 DEF Plans
<1>16. Newest'
  <2>1. \A p \in Starters : starter[p].at \in {"point", "dispatch"} =>
          starter[p].id # r /\ starter[p].id \in Run
    BY <1>6, RunsTyped DEF Inv, Newest, Plans
  <2>2. \A p \in Starters : starter'[p].at \in {"point", "dispatch"} =>
          /\ chord'[starter'[p].id].chunk = 0
          /\ \A q \in Starters \ {p} : starter'[q].at \in {"point", "dispatch"} =>
               starter'[q].id # starter'[p].id
          /\ starter'[p].at = "dispatch" => cursor' # 0
    BY <1>1, <1>10, <2>1 DEF Inv, Newest
  <2>3. \A q \in Run \ {r} :
          /\ chord'[q].chunk > 0 => cursor' # 0
          /\ late'[q] > 0 => /\ chord'[q].chunk > 0 /\ cursor' # q
                             /\ callback'[q].at = "read" =>
                                  callback'[q].latest \notin {0, q}
          /\ callback'[q].at = "read" => callback'[q].latest # 0
          /\ late'[q] <= 1
    BY <1>1, <1>10, <1>11, <1>13 DEF Inv, Newest
  <2>4. /\ chord'[r].chunk > 0 /\ cursor' # 0 /\ callback'[r].at # "read"
        /\ late'[r] > 0 => cursor' # r
        /\ late'[r] <= 1
    BY <1>1, <1>6, <1>7, <1>10, <1>11, <1>12, <1>13
  <2> QED
    BY <2>2, <2>3, <2>4 DEF Newest
<1>17. Leases'
  BY <1>1, <1>7, <1>10 DEF Inv, Leases
<1> QED
  BY <1>14, <1>15, <1>16, <1>17 DEF Inv

-----------------------------------------------------------------------------
(***************************************************************************)
(* The tick and the command.                                               *)
(***************************************************************************)
LEMMA WorkingStarter ==
  ASSUME Inv, NEW p \in Starters, starter[p].at \in {"loaded", "point", "dispatch"}
  PROVE  /\ starter[p] \in StarterRecords /\ starter[p].id \in DOMAIN runs
         /\ starter[p].id \in Run
         /\ starter[p].run \in Manifests
         /\ starter[p].run.days = runs[starter[p].id].days
<1>1. /\ starter[p].id \in DOMAIN runs
      /\ starter[p].run.days = runs[starter[p].id].days
  BY DEF Inv, Plans
<1>2. starter[p] \in StarterRecords /\ starter[p].run \in Manifests
  BY DEF Inv, Types, StarterRecords, NoStarter
<1> QED
  BY <1>1, <1>2, RunsTyped DEF Inv

(* A starter goes on to a record that holds no manifest.                   *)
LEMMA StarterRests ==
  ASSUME Inv, NEW p \in Starters, NEW s \in StarterRecords,
         s.at \in {"idle", "select"}, starter' = [starter EXCEPT ![p] = s],
         runs' \in Seq(Manifests), Len(runs') = Len(runs), DOMAIN runs' = DOMAIN runs,
         \A q \in DOMAIN runs : runs'[q].days = runs[q].days,
         faults' \in 0 .. MaxFaults,
         UNCHANGED <<completed, cursor, chord, lease, clock, callback, delays, late>>
  PROVE  Inv'
<1>1. Types'
  BY DEF Inv, Types
<1>2. \A q \in Starters : \/ starter'[q] = starter[q]
                          \/ starter'[q].at \in {"idle", "select"}
  BY DEF Inv, Types
<1>3. Plans' /\ Newest'
  BY <1>2, QuietKeeps DEF Inv
<1>4. Leases'
  BY DEF Inv, Leases
<1> QED
  BY <1>1, <1>3, <1>4 DEF Inv

LEMMA DecideKeeps ==
  ASSUME Inv, Decide
  PROVE  Inv'
<1>1. /\ starter["tick"].at = "idle"
      /\ UNCHANGED <<completed, runs, cursor, chord, lease, clock, callback, faults,
                     delays, late>>
      /\ "tick" \in Starters
  BY DEF Decide, workVars, boundVars, Starters
<1>2. CASE DailyStatus # "stalled"
  <2>1. PICK s : s = [at |-> "select"]
    OBVIOUS
  <2>2. /\ s \in StarterRecords /\ s.at = "select"
        /\ starter' = [starter EXCEPT !["tick"] = s]
    BY <1>2, <2>1 DEF StarterRecords, Decide
  <2>3. /\ runs' \in Seq(Manifests) /\ faults' \in 0 .. MaxFaults
    BY <1>1 DEF Inv, Types
  <2> QED
    BY <1>1, <2>2, <2>3, StarterRests
<1>3. CASE DailyStatus = "stalled"
  <2>1. PICK s : s = [at |-> "stalled"]
    OBVIOUS
  <2>2. /\ s \in StarterRecords /\ s.at = "stalled"
        /\ starter' = [starter EXCEPT !["tick"] = s]
    BY <1>3, <2>1 DEF StarterRecords, Decide
  <2>3. /\ starter' \in [Starters -> StarterRecords] /\ starter'["tick"] = s
        /\ \A q \in Starters \ {"tick"} : starter'[q] = starter[q]
    BY <1>1, <2>2 DEF Inv, Types
  <2>4. cursor # 0
    BY <1>3 DEF DailyStatus
  <2>5. Types'
    BY <1>1, <2>3 DEF Inv, Types
  <2>6. Plans'
    BY <1>1, <2>2, <2>3, <2>4 DEF Inv, Plans
  <2>7. Newest'
    BY <1>1, <2>2, <2>3 DEF Inv, Newest
  <2>8. Leases'
    BY <1>1 DEF Inv, Leases
  <2> QED
    BY <2>5, <2>6, <2>7, <2>8 DEF Inv
<1> QED
  BY <1>2, <1>3

LEMMA LoadStalledKeeps ==
  ASSUME Inv, LoadStalled
  PROVE  Inv'
<1>1. /\ starter["tick"].at = "stalled" /\ "tick" \in Starters
      /\ UNCHANGED <<completed, runs, cursor, chord, lease, clock, callback, faults,
                     delays, late>>
  BY DEF LoadStalled, workVars, boundVars, Starters
<1>2. cursor \in DOMAIN runs /\ cursor \in Run /\ runs[cursor] \in Manifests
  <2>1. cursor # 0
    BY <1>1 DEF Inv, Plans
  <2> QED
    BY <2>1, RunsTyped DEF Inv, Types
<1>3. PICK s : s = [at |-> "loaded", id |-> cursor, run |-> runs[cursor]]
  OBVIOUS
<1>4. /\ s \in StarterRecords /\ s.at = "loaded" /\ s.id = cursor
      /\ s.run = runs[cursor] /\ starter' = [starter EXCEPT !["tick"] = s]
  BY <1>2, <1>3 DEF StarterRecords, LoadStalled
<1>5. /\ starter' \in [Starters -> StarterRecords] /\ starter'["tick"] = s
      /\ \A q \in Starters \ {"tick"} : starter'[q] = starter[q]
  BY <1>1, <1>4 DEF Inv, Types
<1>6. Types'
  BY <1>1, <1>5 DEF Inv, Types
<1>7. Plans'
  BY <1>1, <1>2, <1>4, <1>5 DEF Inv, Plans
<1>8. Newest'
  BY <1>1, <1>4, <1>5 DEF Inv, Newest
<1>9. Leases'
  BY <1>1 DEF Inv, Leases
<1> QED
  BY <1>6, <1>7, <1>8, <1>9 DEF Inv

LEMMA SupersedeKeeps ==
  ASSUME Inv, Supersede
  PROVE  Inv'
<1>1. /\ starter["tick"].at = "loaded" /\ "tick" \in Starters
      /\ UNCHANGED <<completed, cursor, chord, lease, clock, callback, faults,
                     delays, late>>
  BY DEF Supersede, workVars, boundVars, Starters
<1>2. PICK m : m = [starter["tick"].run EXCEPT !.superseded = TRUE]
  OBVIOUS
<1>3. PICK k : k = [m EXCEPT !.finished = TRUE]
  OBVIOUS
<1>4. PICK id : id = starter["tick"].id
  OBVIOUS
<1>5. /\ id \in DOMAIN runs /\ starter["tick"].run \in Manifests
      /\ starter["tick"].run.days = runs[id].days
  BY <1>1, <1>4, WorkingStarter
<1>6. m \in Manifests /\ m.days = runs[id].days
  BY <1>2, <1>5, CopyChanges
<1>7. k \in Manifests /\ k.days = runs[id].days
  BY <1>3, <1>6, CopyChanges
<1>8. runs' = [runs EXCEPT ![id] = k]
  <2>1. k = [starter["tick"].run EXCEPT !.superseded = TRUE, !.finished = TRUE]
    BY <1>2, <1>3
  <2> QED
    BY <1>4, <2>1 DEF Supersede
<1>9. /\ runs' \in Seq(Manifests) /\ Len(runs') = Len(runs)
      /\ DOMAIN runs' = DOMAIN runs
      /\ \A q \in DOMAIN runs : runs'[q].days = runs[q].days
  BY <1>5, <1>7, <1>8, CopyIsStored DEF Inv
<1>10. PICK s : s = [at |-> "select"]
  OBVIOUS
<1>11. /\ s \in StarterRecords /\ s.at = "select" /\ faults' \in 0 .. MaxFaults
       /\ starter' = [starter EXCEPT !["tick"] = s]
  BY <1>1, <1>10 DEF StarterRecords, Supersede, Inv, Types
<1> QED
  BY <1>1, <1>9, <1>11, StarterRests

LEMMA StarterFailsKeeps ==
  ASSUME Inv, NEW p \in Starters, StarterFails(p)
  PROVE  Inv'
<1>1. /\ starter' = [starter EXCEPT ![p] = NoStarter]
      /\ UNCHANGED <<completed, runs, cursor, chord, lease, clock, callback, delays,
                     late>>
  BY DEF StarterFails, workVars
<1>2. NoStarter \in StarterRecords /\ NoStarter.at = "idle"
  BY DEF StarterRecords, NoStarter
<1>3. runs' \in Seq(Manifests) /\ faults' \in 0 .. MaxFaults
  BY <1>1, FaultTyped DEF StarterFails, Inv, Types
<1> QED
  BY <1>1, <1>2, <1>3, StarterRests

(* A manifest is stored for a new run, which no step knows of yet.         *)
LEMMA StartRunKeeps ==
  ASSUME Inv, NEW p \in Starters, NEW days \in SUBSET Days, days # {},
         starter[p].at \notin {"point", "dispatch"},
         StartRun(p, days), delays' \in 0 .. MaxDelays,
         UNCHANGED <<completed, cursor, chord, lease, callback, faults, late>>
  PROVE  Inv'
<1>1. PICK m : m = BuildRun(days)
  OBVIOUS
<1>2. m \in Manifests
  BY <1>1, RunIsManifest
<1>3. PICK n : n = Len(runs) + 1
  OBVIOUS
<1>4. /\ Len(runs) < MaxRuns /\ runs' = Append(runs, m)
      /\ starter' = [starter EXCEPT ![p] = [at |-> "point", id |-> n, run |-> m]]
      /\ clock' = [clock EXCEPT ![n].fresh = TRUE]
  BY <1>1, <1>3 DEF StartRun
<1>5. /\ runs \in Seq(Manifests) /\ DOMAIN runs = 1 .. Len(runs) /\ Len(runs) \in Nat
      /\ DOMAIN runs \subseteq Run /\ n \in Run /\ n \notin DOMAIN runs /\ n \in Nat
  BY <1>3, <1>4, RunsTyped DEF Inv, Types, Run
<1>6. /\ runs' \in Seq(Manifests) /\ Len(runs') = n /\ DOMAIN runs' = 1 .. n
      /\ \A q \in DOMAIN runs : runs'[q] = runs[q]
      /\ runs'[n] = m
  BY <1>2, <1>3, <1>4, <1>5
<1>7. DOMAIN runs \subseteq DOMAIN runs' /\ n \in DOMAIN runs' /\ Len(runs') <= MaxRuns
  BY <1>3, <1>4, <1>5, <1>6, RunsTyped DEF Inv
<1>8. PICK s : s = [at |-> "point", id |-> n, run |-> m]
  OBVIOUS
<1>9. s \in StarterRecords /\ s.at = "point" /\ s.id = n /\ s.run = m
  BY <1>2, <1>5, <1>8 DEF StarterRecords
<1>10. /\ starter' \in [Starters -> StarterRecords] /\ starter'[p] = s
       /\ \A q \in Starters \ {p} : starter'[q] = starter[q]
  BY <1>4, <1>8, <1>9 DEF Inv, Types
<1>11. clock' \in [Run -> [beat : BOOLEAN, fresh : BOOLEAN]]
  BY <1>4, <1>5 DEF Inv, Types
<1>12. cursor' \in 0 .. Len(runs')
  BY <1>3, <1>5, <1>6 DEF Inv, Types
<1>13. Types'
  BY <1>6, <1>7, <1>10, <1>11, <1>12 DEF Inv, Types
<1>14. chord[n].chunk = 0
  <2>1. ~(chord[n].chunk > 0) /\ chord[n].chunk \in Nat
    BY <1>5 DEF Inv, Plans, Types, Chords
  <2> QED
    BY <2>1
<1>15. Plans'
  <2>1. \A r \in Run : chord'[r].chunk > 0 =>
          r \in DOMAIN runs' /\ chord'[r].chunk <= Len(runs'[r].days)
    BY <1>6, <1>7 DEF Inv, Plans
  <2>2. \A r \in Run : callback'[r].at \in {"loaded", "read"} =>
          /\ chord'[r].chunk > 0 /\ callback'[r].run.days = runs'[r].days
          /\ callback'[r].at = "read" => chord'[r].chunk < Len(runs'[r].days)
    BY <1>6, <1>7 DEF Inv, Plans
  <2>3. \A q \in Starters \ {p} :
          /\ starter'[q].at = "stalled" => cursor' # 0
          /\ starter'[q].at \in {"loaded", "point", "dispatch"} =>
               /\ starter'[q].id \in DOMAIN runs'
               /\ starter'[q].run.days = runs'[starter'[q].id].days
    BY <1>6, <1>7, <1>10 DEF Inv, Plans
  <2>4. /\ starter'[p].at = "point" /\ starter'[p].id \in DOMAIN runs'
        /\ starter'[p].run.days = runs'[starter'[p].id].days
    BY <1>6, <1>7, <1>9, <1>10
  <2> QED
    BY <2>1, <2>2, <2>3, <2>4 DEF Plans
<1>16. Newest'
  <2>1. \A q \in Starters : starter[q].at \in {"point", "dispatch"} =>
          starter[q].id # n
    BY <1>5 DEF Inv, Plans
  <2>2. \A q \in Starters : starter'[q].at \in {"point", "dispatch"} =>
          /\ chord'[starter'[q].id].chunk = 0
          /\ \A o \in Starters \ {q} : starter'[o].at \in {"point", "dispatch"} =>
               starter'[o].id # starter'[q].id
          /\ starter'[q].at = "dispatch" => cursor' # 0
    BY <1>9, <1>10, <1>14, <2>1 DEF Inv, Newest
  <2>3. \A r \in Run : /\ chord'[r].chunk > 0 => cursor' # 0
                       /\ late'[r] > 0 =>
                            /\ chord'[r].chunk > 0 /\ cursor' # r
                            /\ callback'[r].at = "read" =>
                                 callback'[r].latest \notin {0, r}
                       /\ callback'[r].at = "read" => callback'[r].latest # 0
                       /\ late'[r] <= 1
    BY DEF Inv, Newest
  <2> QED
    BY <2>2, <2>3 DEF Newest
<1>17. Leases'
  BY DEF Inv, Leases
<1> QED
  BY <1>13, <1>15, <1>16, <1>17 DEF Inv

LEMMA SelectKeeps ==
  ASSUME Inv, Select
  PROVE  Inv'
<1>1. /\ starter["tick"].at = "select" /\ "tick" \in Starters
      /\ UNCHANGED <<completed, cursor, chord, lease, callback, faults, delays, late>>
  BY DEF Select, boundVars, Starters
<1>2. CASE Missing = {}
  <2>1. starter' = [starter EXCEPT !["tick"] = NoStarter] /\ UNCHANGED <<runs, clock>>
    BY <1>2 DEF Select
  <2>2. NoStarter \in StarterRecords /\ NoStarter.at = "idle"
    BY DEF StarterRecords, NoStarter
  <2>3. runs' \in Seq(Manifests) /\ faults' \in 0 .. MaxFaults
    BY <1>1, <2>1 DEF Inv, Types
  <2> QED
    BY <1>1, <2>1, <2>2, <2>3, StarterRests
<1>3. CASE Missing # {}
  <2>1. StartRun("tick", Missing)
    BY <1>3 DEF Select
  <2>2. Missing \in SUBSET Days /\ delays' \in 0 .. MaxDelays
    BY <1>1 DEF Missing, Inv, Types
  <2>3. PICK days \in SUBSET Days : days = Missing
    BY <2>2
  <2>4. days # {} /\ StartRun("tick", days)
    BY <1>3, <2>1, <2>3
  <2>5. starter["tick"].at \notin {"point", "dispatch"}
    BY <1>1
  <2> QED
    BY <1>1, <2>2, <2>4, <2>5, StartRunKeeps
<1> QED
  BY <1>2, <1>3

LEMMA CommandKeeps ==
  ASSUME Inv, Command
  PROVE  Inv'
<1>1. /\ starter["command"].at \notin {"point", "dispatch"} /\ "command" \in Starters
      /\ UNCHANGED <<completed, cursor, chord, lease, callback, faults, late>>
  BY DEF Command, Starters
<1>2. delays' \in 0 .. MaxDelays
  BY BackfillType DEF Command, Inv, Types
<1>3. PICK days \in Ranges : StartRun("command", days)
  BY DEF Command
<1>4. days \in SUBSET Days /\ days # {}
  BY BackfillType
<1> QED
  BY <1>1, <1>2, <1>3, <1>4, StartRunKeeps

LEMMA PointCursorKeeps ==
  ASSUME Inv, NEW p \in Starters, PointCursor(p)
  PROVE  Inv'
<1>1. /\ starter[p].at = "point" /\ cursor' = starter[p].id
      /\ UNCHANGED <<completed, runs, chord, lease, clock, callback, faults, delays,
                     late>>
  BY DEF PointCursor, workVars, boundVars
<1>2. PICK s : s = [starter[p] EXCEPT !.at = "dispatch"]
  OBVIOUS
<1>3. /\ starter[p] \in StarterRecords /\ starter[p].id \in DOMAIN runs
      /\ starter[p].run \in Manifests /\ starter[p].id \in Run
      /\ starter[p].run.days = runs[starter[p].id].days
  BY <1>1, WorkingStarter
<1>4. starter[p] \in [at : {"loaded", "point", "dispatch"}, id : Run, run : Manifests]
  BY <1>1, <1>3 DEF StarterRecords, NoStarter
<1>5. /\ s \in StarterRecords /\ s.at = "dispatch"
      /\ s.id = starter[p].id /\ s.run = starter[p].run
  <2>1. /\ s \in [at : {"loaded", "point", "dispatch"}, id : Run, run : Manifests]
        /\ s.at = "dispatch" /\ s.id = starter[p].id /\ s.run = starter[p].run
    BY <1>2, <1>4
  <2> QED
    BY <2>1 DEF StarterRecords
<1>6. /\ starter' \in [Starters -> StarterRecords] /\ starter'[p] = s
      /\ \A q \in Starters \ {p} : starter'[q] = starter[q]
  <2>1. starter' = [starter EXCEPT ![p] = s]
    BY <1>2 DEF PointCursor, Inv, Types
  <2> QED
    BY <1>5, <2>1 DEF Inv, Types
<1>7. cursor' \in 0 .. Len(runs) /\ cursor' # 0 /\ cursor' \in Run
  BY <1>1, <1>3, RunsTyped DEF Inv
<1>8. Types'
  BY <1>1, <1>6, <1>7 DEF Inv, Types
<1>9. Plans'
  BY <1>1, <1>3, <1>5, <1>6, <1>7 DEF Inv, Plans
<1>10. \A r \in Run : late[r] > 0 => cursor' # r
  BY <1>1 DEF Inv, Newest
<1>11. Newest'
  <2>1. \A q \in Starters : starter'[q].at \in {"point", "dispatch"} =>
          /\ chord'[starter'[q].id].chunk = 0
          /\ \A o \in Starters \ {q} : starter'[o].at \in {"point", "dispatch"} =>
               starter'[o].id # starter'[q].id
          /\ starter'[q].at = "dispatch" => cursor' # 0
    BY <1>1, <1>5, <1>6, <1>7 DEF Inv, Newest
  <2>2. \A r \in Run : /\ chord'[r].chunk > 0 => cursor' # 0
                       /\ late'[r] > 0 =>
                            /\ chord'[r].chunk > 0 /\ cursor' # r
                            /\ callback'[r].at = "read" =>
                                 callback'[r].latest \notin {0, r}
                       /\ callback'[r].at = "read" => callback'[r].latest # 0
                       /\ late'[r] <= 1
    BY <1>1, <1>7, <1>10 DEF Inv, Newest
  <2> QED
    BY <2>1, <2>2 DEF Newest
<1>12. Leases'
  BY <1>1 DEF Inv, Leases
<1> QED
  BY <1>8, <1>9, <1>11, <1>12 DEF Inv

LEMMA DispatchFirstKeeps ==
  ASSUME Inv, NEW p \in Starters, DispatchFirst(p)
  PROVE  Inv'
<1>1. /\ starter[p].at = "dispatch"
      /\ starter' = [starter EXCEPT ![p] = NoStarter]
      /\ UNCHANGED <<completed, cursor, lease, callback, faults, delays, late>>
  BY DEF DispatchFirst, boundVars
<1>2. PICK r : r = starter[p].id
  OBVIOUS
<1>3. PICK m : m = starter[p].run
  OBVIOUS
<1>4. r \in DOMAIN runs /\ r \in Run /\ m \in Manifests /\ m.days = runs[r].days
  BY <1>1, <1>2, <1>3, WorkingStarter
<1>5. PICK c : c = NewChord(m, 1)
  OBVIOUS
<1>6. /\ runs' = [runs EXCEPT ![r] = Running(m, 1)]
      /\ chord' = [chord EXCEPT ![r] = c] /\ clock' = Dispatched(r)
  BY <1>2, <1>3, <1>5 DEF DispatchFirst
<1>7. 1 \in 1 .. Len(m.days) /\ 1 <= Len(m.days)
  BY <1>4, CopyChanges
<1>8. /\ c \in Chords /\ c.chunk = 1
      /\ \A d \in DOMAIN c.shard : c.shard[d] = "queued"
      /\ Running(m, 1) \in Manifests /\ Running(m, 1).days = m.days
  BY <1>4, <1>5, <1>7, NewChordTyped
<1>9. /\ runs' \in Seq(Manifests) /\ Len(runs') = Len(runs)
      /\ DOMAIN runs' = DOMAIN runs
      /\ \A q \in DOMAIN runs : runs'[q].days = runs[q].days
  BY <1>4, <1>6, <1>8, CopyIsStored DEF Inv
<1>10. clock' \in [Run -> [beat : BOOLEAN, fresh : BOOLEAN]]
  BY <1>4, <1>6, DispatchedTyped DEF Inv
<1>11. /\ chord \in [Run -> Chords] /\ chord' \in [Run -> Chords] /\ chord'[r] = c
       /\ \A q \in Run \ {r} : chord'[q] = chord[q]
  BY <1>4, <1>6, <1>8 DEF Inv, Types
<1>12. /\ starter' \in [Starters -> StarterRecords] /\ starter'[p].at = "idle"
       /\ \A q \in Starters \ {p} : starter'[q] = starter[q]
  BY <1>1 DEF Inv, Types, StarterRecords, NoStarter
<1>13. Types'
  BY <1>1, <1>9, <1>10, <1>11, <1>12 DEF Inv, Types
<1>14. Plans'
  <2>1. \A q \in Run : chord'[q].chunk > 0 =>
          q \in DOMAIN runs' /\ chord'[q].chunk <= Len(runs'[q].days)
    BY <1>4, <1>7, <1>8, <1>9, <1>11 DEF Inv, Plans
  <2>2. chord[r].chunk = 0
    BY <1>1, <1>2 DEF Inv, Newest
  <2>3. \A q \in Run : callback'[q].at \in {"loaded", "read"} =>
          /\ chord'[q].chunk > 0 /\ callback'[q].run.days = runs'[q].days
          /\ callback'[q].at = "read" => chord'[q].chunk < Len(runs'[q].days)
    BY <1>1, <1>4, <1>9, <1>11, <2>2 DEF Inv, Plans
  <2>4. \A q \in Starters :
          /\ starter'[q].at = "stalled" => cursor' # 0
          /\ starter'[q].at \in {"loaded", "point", "dispatch"} =>
               /\ starter'[q].id \in DOMAIN runs'
               /\ starter'[q].run.days = runs'[starter'[q].id].days
    BY <1>1, <1>9, <1>12 DEF Inv, Plans
  <2> QED
    BY <2>1, <2>3, <2>4 DEF Plans
<1>15. Newest'
  <2>1. \A q \in Starters \ {p} : starter[q].at \in {"point", "dispatch"} =>
          starter[q].id # r /\ starter[q].id \in Run
    BY <1>1, <1>2, WorkingStarter DEF Inv, Newest
  <2>2. \A q \in Starters : starter'[q].at \in {"point", "dispatch"} =>
          /\ chord'[starter'[q].id].chunk = 0
          /\ \A o \in Starters \ {q} : starter'[o].at \in {"point", "dispatch"} =>
               starter'[o].id # starter'[q].id
          /\ starter'[q].at = "dispatch" => cursor' # 0
    BY <1>1, <1>11, <1>12, <2>1 DEF Inv, Newest
  <2>3. cursor # 0
    BY <1>1 DEF Inv, Newest
  <2>4. \A q \in Run : /\ chord'[q].chunk > 0 => cursor' # 0
                       /\ late'[q] > 0 =>
                            /\ chord'[q].chunk > 0 /\ cursor' # q
                            /\ callback'[q].at = "read" =>
                                 callback'[q].latest \notin {0, q}
                       /\ callback'[q].at = "read" => callback'[q].latest # 0
                       /\ late'[q] <= 1
    BY <1>1, <1>8, <1>11, <2>3 DEF Inv, Newest
  <2> QED
    BY <2>2, <2>4 DEF Newest
<1>16. Leases'
  BY <1>1, <1>8, <1>11 DEF Inv, Leases
<1> QED
  BY <1>13, <1>14, <1>15, <1>16 DEF Inv

-----------------------------------------------------------------------------
(***************************************************************************)
(* The invariant and what it implies.                                      *)
(***************************************************************************)
LEMMA InitInv == Init => Inv
<1> SUFFICES ASSUME Init PROVE Inv
  OBVIOUS
<1>1. /\ \A r \in Run : chord[r].chunk = 0 /\ DOMAIN chord[r].shard = {}
      /\ \A r \in Run : callback[r].at = "idle" /\ late[r] = 0
      /\ \A p \in Starters : starter[p].at = "idle"
  BY DEF Init, NoChord, NoCallback, NoStarter, Starters
<1>2. runs \in Seq(Manifests) /\ Len(runs) = 0
  BY EmptySeq DEF Init
<1>3. NoChord \in Chords
  <2>1. [d \in {} |-> "queued"] \in [{} -> ShardStates]
    BY DEF ShardStates
  <2> QED
    BY <2>1 DEF NoChord, Chords
<1>4. NoCallback \in Callbacks /\ NoStarter \in StarterRecords
  BY DEF Callbacks, StarterRecords
<1>5. Types
  BY <1>2, <1>3, <1>4, BackfillType DEF Init, Types, Starters
<1>6. Plans /\ Leases /\ Newest
  BY <1>1 DEF Plans, Leases, Newest
<1> QED
  BY <1>5, <1>6 DEF Inv

LEMMA NextInv ==
  ASSUME Inv, [Next]_vars
  PROVE  Inv'
<1>1. CASE \E r \in Run, d \in Days : Work(r, d)
  BY <1>1, StartShardKeeps, ShardSucceedsKeeps, LeaseExpiresKeeps DEF Work
<1>2. CASE \E r \in Run, d \in Days : ShardFails(r, d) \/ ShardKilled(r, d)
  BY <1>2, ShardFailsKeeps, ShardKilledKeeps
<1>3. CASE \E r \in Run : GracePasses(r)
  BY <1>3, GracePassesKeeps
<1>4. CASE \E r \in Run : Callback(r)
  BY <1>4, LoadManifestKeeps, FinishRunKeeps, ReadPointerKeeps, HandOffKeeps,
     RefuseKeeps DEF Callback
<1>5. CASE \E r \in Run : HandOffFails(r) \/ CallbackKilled(r)
  BY <1>5, HandOffFailsKeeps, CallbackKilledKeeps
<1>6. CASE \E p \in Starters : Start(p)
  BY <1>6, PointCursorKeeps, DispatchFirstKeeps DEF Start
<1>7. CASE Decide \/ LoadStalled \/ Supersede \/ Select \/ Command
  BY <1>7, DecideKeeps, LoadStalledKeeps, SupersedeKeeps, SelectKeeps, CommandKeeps
<1>8. CASE \E p \in Starters : StarterFails(p)
  BY <1>8, StarterFailsKeeps
<1>9. CASE UNCHANGED vars
  <2>1. UNCHANGED <<completed, runs, cursor, chord, lease, clock, callback, starter,
                    faults, delays, late>>
    BY <1>9 DEF vars, workVars, boundVars
  <2>2. Types'
    BY <2>1 DEF Inv, Types
  <2>3. Plans' /\ Newest'
    BY <2>1, QuietKeeps DEF Inv
  <2>4. Leases'
    BY <2>1 DEF Inv, Leases
  <2> QED
    BY <2>2, <2>3, <2>4 DEF Inv
<1> QED
  BY <1>1, <1>2, <1>3, <1>4, <1>5, <1>6, <1>7, <1>8, <1>9 DEF Next, TickStep, Starters

LEMMA InvIsInvariant == Spec => []Inv
BY InitInv, NextInv, PTL DEF Spec

(* Manifests divide days of the window into chunks none of which is empty, *)
(* and every chord is of a chunk its manifest has, for any window, chunk   *)
(* size, number of runs, failures and delays.                              *)
THEOREM TypeCorrect == Spec => []TypeOK
<1>1. Inv => TypeOK
  <2> SUFFICES ASSUME Inv PROVE TypeOK
    OBVIOUS
  <2>1. ASSUME NEW r \in DOMAIN runs
        PROVE  /\ OwnDays(runs[r]) \subseteq Days /\ {} \notin Range(runs[r].days)
               /\ Range(runs[r].state) \subseteq States
               /\ chord[r].chunk \in 0 .. Len(runs[r].days)
               /\ Range(chord[r].shard) \subseteq ShardStates
               /\ lease[r] \subseteq Days
    <3>1. runs[r] \in Manifests /\ r \in Run
      BY <2>1, RunsTyped DEF Inv
    <3>2. /\ runs[r].days \in Seq((SUBSET Days) \ {{}}) /\ runs[r].state \in Seq(States)
      BY <3>1 DEF Manifests
    <3>3. \A i \in DOMAIN runs[r].days : runs[r].days[i] \in (SUBSET Days) \ {{}}
      BY <3>2, LenProperties, ElementOfSeq
    <3>4. \A i \in DOMAIN runs[r].state : runs[r].state[i] \in States
      BY <3>2, LenProperties, ElementOfSeq
    <3>5. Range(runs[r].days) \subseteq (SUBSET Days) \ {{}}
      BY <3>3 DEF Range
    <3>6. OwnDays(runs[r]) \subseteq Days
      BY <3>5 DEF OwnDays
    <3>7. Range(runs[r].state) \subseteq States
      BY <3>4 DEF Range
    <3>8. chord[r] \in Chords /\ lease[r] \subseteq Days
      BY <3>1 DEF Inv, Types
    <3>9. Range(chord[r].shard) \subseteq ShardStates
      BY <3>8 DEF Chords, Range
    <3>10. Len(runs[r].days) \in Nat /\ chord[r].chunk \in Nat
      BY <3>2, <3>8, LenProperties DEF Chords
    <3>11. chord[r].chunk \in 0 .. Len(runs[r].days)
      BY <3>1, <3>10 DEF Inv, Plans
    <3> QED
      BY <3>5, <3>6, <3>7, <3>8, <3>9, <3>11
  <2>2. \A r \in Run : callback[r].at \in {"idle", "loaded", "read", "ended"}
    BY DEF Inv, Types, Callbacks, NoCallback, Ended
  <2>3. \A p \in {"tick", "command"} : starter[p].at \in
          {"idle", "stalled", "loaded", "select", "point", "dispatch"}
    BY DEF Inv, Types, Starters, StarterRecords, NoStarter
  <2> QED
    BY <2>1, <2>2, <2>3 DEF Inv, Types, TypeOK, States, ShardStates
<1> QED
  BY <1>1, InvIsInvariant, PTL

(* However many runs are started beside each other, a chain of chunks that *)
(* is no longer the newest hands off at most once more.                    *)
THEOREM OldChainsDieOut == Spec => []LateHandOffOnce
<1>1. Inv => LateHandOffOnce
  BY DEF Inv, Newest, LateHandOffOnce
<1> QED
  BY <1>1, InvIsInvariant, PTL

(* A run is not taken for stalled while one of its shards is at work,      *)
(* whatever the heartbeats say and however many grace periods pass.         *)
THEOREM LiveShardsAreSeen == Spec => []LiveShardKeepsRunning
<1>1. Inv => LiveShardKeepsRunning
  <2> SUFFICES ASSUME Inv, DailyStatus = "stalled"
               PROVE  "running" \notin Range(chord[cursor].shard)
    BY DEF LiveShardKeepsRunning
  <2>1. cursor # 0 /\ lease[cursor] = {}
    BY DEF DailyStatus
  <2>2. cursor \in Run
    BY <2>1, RunsTyped DEF Inv, Types
  <2> QED
    BY <2>1, <2>2 DEF Inv, Leases, Range
<1> QED
  BY <1>1, InvIsInvariant, PTL

=============================================================================
