---------------------------- MODULE NativeBalance ----------------------------
(***************************************************************************)
(* The rollup of native balances (analytics/tasks.py, tasks_shards.py and  *)
(* bootstrap/native.py).  A row holds the balance of a Safe as of a block; *)
(* the watermark says up to which block every row is complete.  Rows are   *)
(* first made by a backfill, a chain of Celery chunks that the bootstrap   *)
(* starts and resumes, or by the nightly task itself when there are few    *)
(* Safes; then the nightly task advances them by the flows of the blocks   *)
(* after the watermark.  Chunks and nightly task take the same lock.       *)
(*                                                                         *)
(* A balance is abstracted to how often the flows of each block are in it. *)
(* Safes are numbered in the order of their addresses.                     *)
(***************************************************************************)
EXTENDS Integers, Sequences, Bags, FiniteSetsExt

CONSTANTS
  AllSafes,   \* the Safes there will be
  OldSafes,   \* the sets of Safes there may be at the start
  Workers,    \* Celery workers of the contracts queue
  MaxSeed,    \* NATIVE_BALANCE_MAX_SEED_PER_RUN
  ChunkSize,  \* Safes in a chunk of a new run
  Floor,      \* BACKFILL_CHUNK_SIZE_FLOOR
  MaxBlock,   \* bound on the blocks
  MaxRuns,    \* bound on the manifests
  Mishaps     \* bounds on the steps that fail or are killed, and on the
              \* grace periods that pass over live work, in one behaviour

ASSUME NativeType ==
  /\ AllSafes \subseteq Nat \ {0} /\ OldSafes \subseteq SUBSET AllSafes
  /\ OldSafes # {} /\ Workers \cap {"free", "dead", "nightly"} = {}
  /\ MaxSeed \in Nat /\ ChunkSize \in Nat /\ Floor \in 1 .. ChunkSize
  /\ MaxBlock \in Nat /\ MaxRuns \in Nat
  /\ Mishaps \subseteq Nat \X Nat

(* Either steps fail or live work is taken for dead, not both in one       *)
(* behaviour: with both, a run that was resumed while it was alive can     *)
(* fail, and the tick starts another over it.                              *)
Setting == \A b \in Mishaps : b[1] = 0 \/ b[2] = 0

VARIABLES
  head,       \* native_balance_head_block: no reorg reaches it (0: none)
  safes,      \* SafeContract
  row,        \* SafeNativeBalance
  watermark,  \* AnalyticsWatermark of the rollup (0: none)
  lock,       \* who holds the lock of the nightly task
  runs,       \* the manifests; the cursor key names the last one
  queue,      \* messages that dispatch a chunk
  chunk,      \* the chunk a worker executes, with its copy of the manifest
  nightly,    \* compute_native_balance_rollup_task
  starter,    \* NativeStage of the tick
  due,        \* whether the interval of the tick has passed
  faults, delays, \* counters for the bounds
  stray       \* rows a chunk made at another block than the watermark's

world == <<due, head, safes>>
dbVars == <<row, watermark>>
runVars == <<runs, queue>>
boundVars == <<faults, delays>>
vars == <<head, safes, dbVars, lock, runVars, chunk, nightly, starter, due,
          boundVars, stray>>

Block == 1 .. MaxBlock
NoRow == [b \in {} |-> 0]
Upto(n) == [b \in Block |-> IF b <= n THEN 1 ELSE 0]
Rows == {s \in AllSafes : row[s] # NoRow}
Unseeded == safes \ Rows
Idle == [at |-> "idle"]
Within(f, d) == \E b \in Mishaps : f <= b[1] /\ d <= b[2]
Fault == Within(faults + 1, delays) /\ faults' = faults + 1
Delay == Within(faults, delays + 1) /\ delays' = delays + 1

TypeOK ==
  /\ head \in 0 .. MaxBlock /\ watermark \in 0 .. MaxBlock
  /\ Rows \subseteq safes /\ safes \subseteq AllSafes
  /\ \A s \in Rows : row[s] \in [Block -> 0 .. 2]
  /\ lock \in {"free", "dead", "nightly"} \cup Workers
  /\ \A w \in Workers :
       chunk[w].at \in {"idle", "loaded", "locked", "advance", "close",
                         "shrink", "fail"}
  /\ nightly.at \in {"idle", "cold", "fill", "seed", "delta"}
  /\ starter.at \in {"idle", "resume", "start"} /\ due \in BOOLEAN
  /\ lock = "nightly" <=> nightly.at # "idle"
  /\ \A w \in Workers : lock = w <=> chunk[w].at = "locked"
  /\ \A r \in DOMAIN runs :
       /\ runs[r].head \in Block /\ runs[r].size \in Floor .. ChunkSize
       /\ runs[r].state \in {"running", "failed", "finished"}

Init ==
  /\ head = 0 /\ safes \in OldSafes
  /\ row = [s \in AllSafes |-> NoRow] /\ watermark = 0
  /\ lock = "free" /\ runs = <<>> /\ queue = EmptyBag
  /\ chunk = [w \in Workers |-> Idle] /\ nightly = Idle
  /\ starter = Idle /\ due = TRUE
  /\ faults = 0 /\ delays = 0 /\ stray = {}

-----------------------------------------------------------------------------
(***************************************************************************)
(* Manifests and messages.                                                 *)
(***************************************************************************)
Message(r, n) == SetToBag({[run |-> r, seq |-> n]})

(* Storing a manifest refreshes its heartbeat.                             *)
Save(r, m) == runs' = [runs EXCEPT ![r] = [m EXCEPT !.fresh = TRUE]]

(* bump_dispatch_seq on a copy, stored and then dispatched.                *)
Redispatch(r, m) ==
  /\ Save(r, [m EXCEPT !.seq = @ + 1])
  /\ queue' = queue (+) Message(r, m.seq + 1)

(* start_native_balance_backfill_run.                                      *)
StartRun(h) ==
  /\ Len(runs) < MaxRuns
  /\ runs' = Append(runs, [head |-> h, size |-> ChunkSize, cursor |-> 0,
                           state |-> "running", seq |-> 1, fresh |-> TRUE])
  /\ queue' = queue (+) Message(Len(runs) + 1, 1)

(* The rows of Safes that have none; the INSERT leaves the others alone.   *)
Seeded(new, n) ==
  [s \in AllSafes |-> IF s \in new \ Rows THEN Upto(n) ELSE row[s]]

-----------------------------------------------------------------------------
(***************************************************************************)
(* backfill_native_balance_chunk.                                          *)
(***************************************************************************)

(* A message whose run is over, or has been dispatched anew, is dropped.   *)
Receive(w) ==
  /\ chunk[w] = Idle
  /\ \E msg \in BagToSet(queue) :
       LET m == runs[msg.run] IN
         /\ queue' = queue (-) SetToBag({msg})
         /\ chunk' = IF m.state = "running" /\ m.seq = msg.seq
              THEN [chunk EXCEPT ![w] =
                      [at |-> "loaded", run |-> msg.run, m |-> m]]
              ELSE chunk
  /\ UNCHANGED <<world, dbVars, lock, runs, nightly, starter, boundVars,
                 stray>>

(* The heartbeat, and the lock; without it the same message goes back.     *)
TakeLock(w) ==
  /\ chunk[w].at = "loaded"
  /\ LET c == chunk[w] IN
       /\ Save(c.run, c.m)
       /\ IF lock = "free"
            THEN /\ lock' = w /\ chunk' = [chunk EXCEPT ![w].at = "locked"]
                 /\ UNCHANGED queue
            ELSE /\ queue' = queue (+) Message(c.run, c.m.seq)
                 /\ chunk' = [chunk EXCEPT ![w] = Idle]
                 /\ UNCHANGED lock
  /\ UNCHANGED <<world, dbVars, nightly, starter, boundVars, stray>>

(* safe_addresses_after: the first Safes after the cursor.                 *)
Page(m) ==
  LET after == {s \in safes : s > m.cursor}
  IN {s \in after : Cardinality({t \in after : t <= s}) <= m.size}

Strays(new, n) == IF watermark \in {0, n} THEN stray
                  ELSE stray \cup (new \ Rows)

SeedPage(w) ==
  /\ chunk[w].at = "locked" /\ Page(chunk[w].m) # {}
  /\ LET m == chunk[w].m  page == Page(m) IN
       /\ row' = Seeded(page, m.head) /\ stray' = Strays(page, m.head)
       /\ chunk' = [chunk EXCEPT ![w].at = "advance",
                                 ![w].m.cursor = Max(page)]
  /\ lock' = "free"
  /\ UNCHANGED <<world, watermark, runVars, nightly, starter, boundVars>>

(* Past the last Safe: write_native_balance_watermark, if there is none.   *)
HandOver(w) ==
  /\ chunk[w].at = "locked" /\ Page(chunk[w].m) = {}
  /\ watermark' = IF watermark = 0 THEN chunk[w].m.head ELSE watermark
  /\ chunk' = [chunk EXCEPT ![w].at = "close"] /\ lock' = "free"
  /\ UNCHANGED <<world, row, runVars, nightly, starter, boundVars, stray>>

(* The cursor is stored, and the next chunk dispatched.                    *)
Advance(w) ==
  /\ chunk[w].at = "advance"
  /\ Redispatch(chunk[w].run, chunk[w].m)
  /\ chunk' = [chunk EXCEPT ![w] = Idle]
  /\ UNCHANGED <<world, dbVars, lock, nightly, starter, boundVars, stray>>

Close(w) ==
  /\ chunk[w].at \in {"close", "fail"}
  /\ LET c == chunk[w] IN
       Save(c.run, [c.m EXCEPT !.state =
                      IF c.at = "fail" THEN "failed" ELSE "finished"])
  /\ chunk' = [chunk EXCEPT ![w] = Idle]
  /\ UNCHANGED <<world, dbVars, lock, queue, nightly, starter, boundVars,
                 stray>>

(* The work raises or outlasts the hard limit, with some batches stored.   *)
Breaks(w) ==
  /\ chunk[w].at = "locked" /\ Fault
  /\ LET m == chunk[w].m IN
       \E new \in SUBSET Page(m) :
         row' = Seeded(new, m.head) /\ stray' = Strays(new, m.head)
  /\ \E step \in {"shrink", "fail"} : chunk' = [chunk EXCEPT ![w].at = step]
  /\ lock' = "free"
  /\ UNCHANGED <<world, watermark, runVars, nightly, starter, delays>>

(* The chunk is repeated at half its size, or fails at the floor.          *)
Shrink(w) ==
  /\ chunk[w].at = "shrink"
  /\ LET c == chunk[w] IN
       IF c.m.size > Floor
         THEN Redispatch(c.run, [c.m EXCEPT !.size = Max({Floor, @ \div 2})])
         ELSE Save(c.run, [c.m EXCEPT !.state = "failed"]) /\ UNCHANGED queue
  /\ chunk' = [chunk EXCEPT ![w] = Idle]
  /\ UNCHANGED <<world, dbVars, lock, nightly, starter, boundVars, stray>>

(* The worker dies: nobody dispatches the next chunk, and a lock it holds  *)
(* stays until it expires.                                                 *)
Killed(w) ==
  /\ chunk[w] # Idle /\ Fault
  /\ chunk' = [chunk EXCEPT ![w] = Idle]
  /\ lock' = IF lock = w THEN "dead" ELSE lock
  /\ UNCHANGED <<world, dbVars, runVars, nightly, starter, delays, stray>>

(* A dispatch is lost, or its sender dies after the save before it.        *)
LoseMessage ==
  /\ Fault
  /\ \E msg \in BagToSet(queue) : queue' = queue (-) SetToBag({msg})
  /\ UNCHANGED <<world, dbVars, lock, runs, chunk, nightly, starter, delays,
                 stray>>

LockExpires ==
  /\ lock = "dead" /\ lock' = "free"
  /\ UNCHANGED <<world, dbVars, runVars, chunk, nightly, starter, boundVars,
                 stray>>

-----------------------------------------------------------------------------
(***************************************************************************)
(* run_native_balance_rollup, under the lock.                              *)
(***************************************************************************)
StartNightly ==
  /\ nightly = Idle /\ lock = "free" /\ head > 0
  /\ watermark < head \/ Unseeded # {}
  /\ lock' = "nightly"
  /\ nightly' = [at |-> IF watermark = 0 THEN "cold" ELSE "seed",
                 head |-> head, from |-> watermark]
  /\ UNCHANGED <<world, dbVars, runVars, chunk, starter, boundVars, stray>>

(* Mutation of EndNightly: the lock is kept until it expires.              *)
EndLocked == nightly' = Idle /\ UNCHANGED lock

EndNightly == nightly' = Idle /\ lock' = "free"

Stamps == {Max({0} \cup {b \in Block : row[s][b] > 0}) : s \in Rows}

(* Mutation of InProgress: only the manifest is looked at.                 *)
ManifestInProgress == runs # <<>> /\ runs[Len(runs)].state = "running"

(* _native_balance_backfill_in_progress: a live manifest or stamped rows.  *)
InProgress ==
  \/ runs # <<>> /\ runs[Len(runs)].state = "running"
  \/ Rows # {}

(* The cold start declines while a backfill is under way ...               *)
ColdCheck ==
  /\ nightly.at = "cold"
  /\ IF InProgress THEN EndNightly
     ELSE nightly' = [nightly EXCEPT !.at = "fill"] /\ UNCHANGED lock
  /\ UNCHANGED <<world, dbVars, runVars, chunk, starter, boundVars, stray>>

(* ... or when there are many Safes; rows and watermark in one commit.     *)
ColdStart ==
  /\ nightly.at = "fill"
  /\ IF Cardinality(Unseeded) > MaxSeed
       THEN EndNightly /\ UNCHANGED dbVars
       ELSE /\ row' = Seeded(Unseeded, nightly.head)
            /\ IF watermark = 0
                 THEN /\ watermark' = nightly.head
                      /\ nightly' = [nightly EXCEPT !.at = "seed",
                                                    !.from = nightly.head]
                      /\ UNCHANGED lock
                 ELSE EndNightly /\ UNCHANGED watermark
  /\ UNCHANGED <<world, runVars, chunk, starter, boundVars, stray>>

(* New Safes are seeded at the old watermark, the delta covers the rest.   *)
SeedBlock(n) == n.from

SeedMissing ==
  /\ nightly.at = "seed"
  /\ IF Cardinality(Unseeded) > MaxSeed THEN EndNightly /\ UNCHANGED row
     ELSE /\ row' = Seeded(Unseeded, SeedBlock(nightly))
          /\ nightly' = [nightly EXCEPT !.at = "delta"] /\ UNCHANGED lock
  /\ UNCHANGED <<world, watermark, runVars, chunk, starter, boundVars, stray>>

(* The flows after the watermark, and the watermark, in one transaction.   *)
ApplyDelta ==
  /\ nightly.at = "delta"
  /\ row' = [s \in AllSafes |->
       IF s \in Rows
         THEN [b \in Block |->
                 IF b \in nightly.from + 1 .. nightly.head
                   THEN Min({2, row[s][b] + 1}) ELSE row[s][b]]
         ELSE NoRow]
  /\ watermark' = nightly.head /\ EndNightly
  /\ UNCHANGED <<world, runVars, chunk, starter, boundVars, stray>>

(* Batches of new rows may be stored already; the rest is one transaction. *)
NightlyFails ==
  /\ nightly # Idle /\ Fault
  /\ \E new \in IF nightly.at = "seed" THEN SUBSET Unseeded ELSE {{}} :
       row' = Seeded(new, nightly.from)
  /\ nightly' = Idle /\ lock' \in {"free", "dead"}
  /\ UNCHANGED <<world, watermark, runVars, chunk, starter, delays, stray>>

-----------------------------------------------------------------------------
(***************************************************************************)
(* NativeStage.start_or_resume.                                            *)
(***************************************************************************)
Latest == runs[Len(runs)]

(* native_balance_backfill_looks_stalled.                                  *)
Stalled ==
  /\ watermark = 0 /\ runs # <<>> /\ Latest.state = "running"
  /\ lock = "free" /\ ~Latest.fresh

SeeStalled ==
  /\ due /\ starter = Idle /\ Stalled
  /\ due' = FALSE
  /\ starter' = [at |-> "resume", run |-> Len(runs), m |-> Latest]
  /\ UNCHANGED <<head, safes, dbVars, lock, runVars, chunk, nightly,
                 boundVars, stray>>

Resume ==
  /\ starter.at = "resume"
  /\ IF lock = "free" THEN Redispatch(starter.run, starter.m)
     ELSE UNCHANGED runVars
  /\ starter' = Idle
  /\ UNCHANGED <<world, dbVars, lock, chunk, nightly, boundVars, stray>>

(* Mutations of Targets: rows that are there are not adopted; nothing is   *)
(* started over them.                                                      *)
HeadTargets == IF watermark # 0 THEN {} ELSE {head} \ {0}
EmptyTargets == IF Stamps # {} THEN {} ELSE HeadTargets

(* native_balance_backfill_auto_start_target: adopt the block of the rows  *)
(* there are, or start at the head; rows of two blocks are left alone.     *)
Targets ==
  IF watermark # 0 \/ Cardinality(Stamps) > 1 THEN {}
  ELSE IF Stamps # {} THEN Stamps ELSE {head} \ {0}

ChooseTarget ==
  /\ due /\ starter = Idle /\ lock = "free"
  /\ ~Stalled /\ ~ManifestInProgress
  /\ due' = FALSE
  /\ \E h \in Targets :
       starter' = [at |-> "start", head |-> h]
  /\ UNCHANGED <<head, safes, dbVars, lock, runVars, chunk, nightly,
                 boundVars, stray>>

Start ==
  /\ starter.at = "start"
  /\ StartRun(starter.head)
  /\ starter' = Idle
  /\ UNCHANGED <<world, dbVars, lock, chunk, nightly, boundVars, stray>>

StarterFails ==
  /\ starter # Idle /\ Fault
  /\ starter' = Idle
  /\ UNCHANGED <<world, dbVars, lock, runVars, chunk, nightly, delays, stray>>

-----------------------------------------------------------------------------
(***************************************************************************)
(* The environment: blocks, Safes and time.                                *)
(***************************************************************************)
HeadMoves ==
  /\ head < MaxBlock /\ head' = head + 1
  /\ UNCHANGED <<due, safes, dbVars, lock, runVars, chunk, nightly, starter,
                 boundVars, stray>>

NewSafe ==
  /\ \E s \in AllSafes \ safes : safes' = safes \cup {s}
  /\ UNCHANGED <<due, head, dbVars, lock, runVars, chunk, nightly, starter,
                 boundVars, stray>>

(* A chunk is between two saves of its manifest: no time passes there.     *)
Brisk(w) == chunk[w].at \notin {"idle", "locked"}

(* The interval of the tick goes by.                                       *)
TickDue ==
  /\ ~due /\ starter = Idle /\ \A w \in Workers : ~Brisk(w)
  /\ due' = TRUE
  /\ UNCHANGED <<head, safes, dbVars, lock, runVars, chunk, nightly, starter,
                 boundVars, stray>>

Live(r) ==
  \/ \E msg \in BagToSet(queue) : msg.run = r
  \/ \E w \in Workers : chunk[w] # Idle /\ chunk[w].run = r

(* NATIVE_BALANCE_BACKFILL_STALE_SECONDS go by without a heartbeat: while  *)
(* a message waits or a page is being seeded, not between two saves.       *)
GracePasses(r) ==
  /\ r \in DOMAIN runs /\ runs[r].state = "running" /\ runs[r].fresh
  /\ \A w \in Workers : ~Brisk(w)
  /\ runs' = [runs EXCEPT ![r].fresh = FALSE]
  /\ IF Live(r) THEN Delay ELSE UNCHANGED delays
  /\ UNCHANGED <<world, dbVars, lock, queue, chunk, nightly, starter, faults,
                 stray>>

Chunk(w) == \/ TakeLock(w) \/ SeedPage(w) \/ HandOver(w)
            \/ Advance(w) \/ Close(w) \/ Shrink(w)
NightlyStep == ColdCheck \/ ColdStart \/ SeedMissing \/ ApplyDelta
TickStep == SeeStalled \/ Resume \/ ChooseTarget \/ Start

Next ==
  \/ \E w \in Workers : Receive(w) \/ Chunk(w) \/ Breaks(w) \/ Killed(w)
  \/ LoseMessage \/ LockExpires
  \/ StartNightly \/ NightlyStep \/ NightlyFails
  \/ TickStep \/ StarterFails
  \/ HeadMoves \/ NewSafe \/ TickDue \/ \E r \in 1 .. MaxRuns : GracePasses(r)

(* Workers and beat go on, and time passes over what is dead.  A chunk is  *)
(* retried every 15 seconds, the tick comes every 5 minutes and the        *)
(* nightly task once a day: some retry and some tick find the lock free.   *)
Fairness ==
  /\ WF_vars(\E w \in Workers : Receive(w))
  /\ SF_vars(\E w \in Workers : lock = "free" /\ Receive(w))
  /\ SF_vars(\E w \in Workers : lock = "free" /\ TakeLock(w))
  /\ \A w \in Workers : WF_vars(Chunk(w))
  /\ WF_vars(LockExpires) /\ SF_vars(StartNightly) /\ WF_vars(NightlyStep)
  /\ WF_vars(HeadMoves) /\ WF_vars(TickDue) /\ WF_vars(TickStep)
  /\ SF_vars(SeeStalled) /\ SF_vars(ChooseTarget)
  /\ SF_vars(lock = "free" /\ Resume)
  /\ WF_vars(\E r \in 1 .. MaxRuns : ~Live(r) /\ GracePasses(r))

Spec == Init /\ [][Next]_vars
FairSpec == Spec /\ Fairness

-----------------------------------------------------------------------------
Exact(s) == row[s] = Upto(watermark)

(* As long as there is no watermark all rows are of one block, so that a   *)
(* backfill can always be adopted (_resolve_head refuses two blocks).      *)
StampsAgree == watermark = 0 => Cardinality(Stamps) <= 1

(* Once there is one, every row holds each flow up to it exactly once,     *)
(* whichever of backfill and nightly task made the row and whatever was    *)
(* killed or dispatched twice; but for rows that a chunk makes after       *)
(* another writer has set the watermark at a different block.              *)
RowsAreExact ==
  /\ StampsAgree
  /\ watermark # 0 => \A s \in Rows \ stray : Exact(s)

(* The bootstrap hands the rollup over in the end.                         *)
EventuallyHandedOver == <>(watermark # 0)

(* The comment at tasks.py:1645 says that a resume of a run that was alive *)
(* does no harm, since the chunk it replaces exits without work.           *)
SpuriousResumeIsHarmless == StampsAgree
=============================================================================
