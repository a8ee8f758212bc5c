---------------------------- MODULE Erc20Balance ----------------------------
(***************************************************************************)
(* The rollup of ERC-20 balances (analytics/tasks.py, the command          *)
(* backfill_erc20_balances and bootstrap/erc20.py).  A backfill seeds the  *)
(* Safes chunk by chunk as of one block, then adds up the Safes with very  *)
(* many transfers (whales) range by range, then hands the table over to    *)
(* the nightly task by writing its watermark.  It is a chain of Celery     *)
(* messages, each a slice of work under the lock of the nightly task.      *)
(* Where it stands is kept in rows of the database that are written with   *)
(* the work itself; the manifest of a run is only about the chain.         *)
(*                                                                         *)
(* Safes are numbered in the order of (created, address).  A Safe has one  *)
(* pair, and the transfers of a block change it by a number.               *)
(***************************************************************************)
EXTENDS Integers, Sequences, Bags, FiniteSetsExt

CONSTANTS
  MaxSafe,     \* the last of the Safes there will be
  OldCounts,   \* how many of them there may be at the start
  MaxBlock,    \* bound on the blocks
  BalanceAfter, \* for each Safe, the balance of its pair after each block
  Heavy,       \* Safes whose seed never ends in time
  PgWhales,    \* Safes that pg_stats may name as whales
  Workers,     \* Celery workers of the contracts queue
  FirstHead,   \* the head at the start
  ChunkSize, ChunkFloor,   \* chunk_size of a new run, its lower bound
  RangeSize, RangeFloor,   \* whale_block_range, its lower bound
  TaskChunks,  \* task_chunks, chunks or ranges of a slice
  MaxSeed,     \* NATIVE_BALANCE_MAX_SEED_PER_RUN
  Overlap,     \* the operator may start over while a run is going on
  TornStart,   \* a worker may die between the two rows of resolve_run
  Slow,        \* whether calls that follow at once may be divided
  MaxRuns,     \* bound on the manifests
  Mishaps      \* bounds on the steps that fail or are killed, on the
               \* delays and duplicates, and on the commands

AllSafes == 1 .. MaxSafe
Block == 1 .. MaxBlock

ASSUME Erc20BalanceType ==
  /\ MaxSafe \in Nat /\ MaxBlock \in Nat /\ FirstHead \in Block
  /\ BalanceAfter \in [AllSafes -> [Block -> Int]]
  /\ Heavy \subseteq AllSafes /\ PgWhales \subseteq AllSafes
  /\ OldCounts \subseteq 0 .. MaxSafe
  /\ Workers \cap {"free", "dead", "nightly"} = {}
  /\ ChunkSize \in Nat /\ ChunkFloor \in 1 .. ChunkSize
  /\ RangeSize \in Nat /\ RangeFloor \in 1 .. RangeSize
  /\ TaskChunks \in Nat \ {0} /\ MaxSeed \in Nat \ {0} /\ MaxRuns \in Nat
  /\ {Overlap, TornStart, Slow} \subseteq BOOLEAN
  /\ Mishaps \subseteq Nat \X Nat \X Nat

(* Either steps fail, and operators start over, or messages are late or    *)
(* twice and live work is taken for dead, not both in one behaviour.       *)
Steady ==
  /\ ~Overlap /\ ~TornStart /\ ~Slow
  /\ \A m \in Mishaps : m[2] = 0 \/ (m[1] = 0 /\ m[3] = 0)

VARIABLES
  headBlock,       \* erc20_balance_head_block
  safes,      \* SafeContract, what is committed of it
  settled,    \* Safes up to this one are older than the settle margin
  pair,       \* SafeTokenBalance: a balance for each Safe that has a row
  watermark,  \* erc20_balance (0: no row)
  marker,     \* erc20_balance_safes, the last Safe the rollup covers
  holders,    \* TokenHolding, the Safes it counts
  progress,   \* erc20_balance_backfill: head (0: no row) and last Safe
  boundary,   \* erc20_balance_backfill_boundary (-1: no row)
  walked,     \* erc20_balance_backfill_whales (0: no row)
  whales,     \* Erc20BalanceWhale
  lock,       \* who holds the lock of the nightly task
  runs,       \* the manifests; the cursor key names the last one
  queue,      \* messages of the three tasks
  slice,      \* the task a worker executes, with its copy of the manifest
  nightly,    \* compute_erc20_balance_rollup_task
  watchdog,   \* erc20_balance_backfill_watchdog_task
  faults, delays, commands   \* counters for the bounds

world == <<headBlock, safes, settled>>
rollupVars == <<pair, watermark, marker, holders>>
progressVars == <<progress, boundary, walked, whales>>
runVars == <<runs, queue>>
beatVars == <<nightly, watchdog>>
boundVars == <<faults, delays, commands>>
allVars == <<world, rollupVars, progressVars, lock, runVars, slice, beatVars,
             boundVars>>

AtRest == [at |-> "idle"]
NoProgress == [head |-> 0, cursor |-> 0]
NoBoundary == -1

NoPairs == [s \in {} |-> 0]

Balance(s, n) == IF n = 0 THEN 0 ELSE BalanceAfter[s][n]

Within(f, d, c) == \E m \in Mishaps : f <= m[1] /\ d <= m[2] /\ c <= m[3]
Fault == /\ Within(faults + 1, delays, commands) /\ faults' = faults + 1
         /\ UNCHANGED <<delays, commands>>
Delay == /\ Within(faults, delays + 1, commands) /\ delays' = delays + 1
         /\ UNCHANGED <<faults, commands>>

RollupTypeOK ==
  /\ headBlock \in Block /\ safes \subseteq AllSafes
  /\ settled \in 0 .. MaxSafe /\ 1 .. settled \subseteq safes
  /\ DOMAIN pair \subseteq safes /\ \A s \in DOMAIN pair : pair[s] \in Int
  /\ watermark \in {0} \cup Block /\ marker \in 0 .. settled
  /\ progress.head \in {0} \cup Block /\ progress.cursor \in 0 .. settled
  /\ boundary \in {NoBoundary} \cup 0 .. settled
  /\ walked \in 0 .. headBlock /\ whales \subseteq safes
  /\ lock \in {"free", "dead", "nightly"} \cup Workers
  /\ \A w \in Workers :
       /\ slice[w].at \in {"idle", "chunks", "whales", "finish", "advance",
                           "shrink", "failed", "finished"}
       /\ lock = w <=> slice[w].at \in {"chunks", "whales", "finish"}
  /\ nightly.at \in {"idle", "seed", "delta"}
  /\ lock = "nightly" <=> nightly # AtRest
  /\ watchdog.at \in {"idle", "seen"}
  /\ \A r \in DOMAIN runs :
       /\ runs[r].state \in {"running", "failed", "finished"}
       /\ runs[r].phase \in {"chunks", "whales", "finish", "done"}
       /\ runs[r].size \in ChunkFloor .. ChunkSize
       /\ runs[r].range \in RangeFloor .. RangeSize

RollupInit ==
  /\ headBlock = FirstHead
  /\ \E n \in OldCounts : safes = 1 .. n /\ settled = n
  /\ pair = NoPairs /\ watermark = 0 /\ marker = 0 /\ holders = {}
  /\ progress = NoProgress /\ boundary = NoBoundary /\ walked = 0
  /\ whales = {}
  /\ lock = "free" /\ runs = <<>> /\ queue = EmptyBag
  /\ slice = [w \in Workers |-> AtRest]
  /\ nightly = AtRest /\ watchdog = AtRest
  /\ faults = 0 /\ delays = 0 /\ commands = 0

-----------------------------------------------------------------------------
(***************************************************************************)
(* The statements on the table of pairs.                                   *)
(***************************************************************************)

(* seed_missing_erc20_balances: pairs that are not zero, and only where    *)
(* there is no row.                                                        *)
Seeded(new, n) ==
  [s \in DOMAIN pair \cup {t \in new : Balance(t, n) # 0} |->
     IF s \in DOMAIN pair THEN pair[s] ELSE Balance(s, n)]

(* Safes with a flow in the blocks after one and up to another.            *)
Touched(some, from, to) ==
  {s \in some : \E b \in from + 1 .. to : Balance(s, b) # Balance(s, b - 1)}

(* The UPSERT of these flows.                                              *)
WithFlows(some, from, to) ==
  LET touched == Touched(some, from, to) IN
  [s \in DOMAIN pair \cup touched |->
     (IF s \in DOMAIN pair THEN pair[s] ELSE 0)
     + (IF s \in touched THEN Balance(s, to) - Balance(s, from) ELSE 0)]

(* Rows of some Safes that are zero are deleted.                           *)
WithoutZeros(p, some) ==
  [s \in {t \in DOMAIN p : t \in some => p[t] # 0} |-> p[s]]

(* rebuild_token_holdings.                                                 *)
Holders(p) == {s \in DOMAIN p : p[s] > 0}

-----------------------------------------------------------------------------
(***************************************************************************)
(* Manifests and messages.  A message names the task, that is, the phase.  *)
(***************************************************************************)
Message(r, phase, n) == SetToBag({[run |-> r, phase |-> phase, seq |-> n]})

(* Storing a manifest refreshes its heartbeat.                             *)
Save(r, m) == runs' = [runs EXCEPT ![r] = [m EXCEPT !.fresh = TRUE]]

(* bump_erc20_balance_dispatch_seq and _erc20_backfill_dispatch_phase.     *)
Redispatch(r, m) ==
  /\ Save(r, [m EXCEPT !.seq = @ + 1])
  /\ queue' = queue (+) Message(r, m.phase, m.seq + 1)

(* build and dispatch_erc20_balance_backfill_run.                          *)
StartRun(phase) ==
  /\ Len(runs) < MaxRuns
  /\ runs' = Append(runs, [state |-> "running", phase |-> phase, seq |-> 1,
                           size |-> ChunkSize, range |-> RangeSize,
                           fresh |-> TRUE])
  /\ queue' = queue (+) Message(Len(runs) + 1, phase, 1)

Latest == runs[Len(runs)]
Running == runs # <<>> /\ Latest.state = "running"

-----------------------------------------------------------------------------
(***************************************************************************)
(* The three tasks of the chain.                                           *)
(***************************************************************************)

(* A slice has released the lock and has not yet stored its manifest.      *)
Brisk(w) == slice[w].at \in {"advance", "shrink", "failed", "finished"}

(* The calls between two readings of the watchdog, or between a release    *)
(* and the manifest, are not divided by the start of a slice or a run.     *)
Undivided == Slow \/ (watchdog = AtRest /\ \A w \in Workers : ~Brisk(w))

(* A message of a run that is over, or that has been dispatched anew, is   *)
(* dropped; without the lock it comes back later.  No time passes between  *)
(* the two.                                                                *)
Receive(w) ==
  /\ slice[w] = AtRest
  /\ \E msg \in BagToSet(queue) :
       LET m == runs[msg.run] IN
       IF m.state # "running" \/ m.seq # msg.seq
         THEN /\ queue' = queue (-) SetToBag({msg})
              /\ UNCHANGED <<slice, lock>>
         ELSE /\ lock = "free" /\ lock' = w
              /\ Undivided
              /\ queue' = queue (-) SetToBag({msg})
              /\ slice' = [slice EXCEPT ![w] =
                   [at |-> msg.phase, run |-> msg.run, m |-> m, msg |-> msg,
                    done |-> 0]]
  /\ UNCHANGED <<world, rollupVars, progressVars, runs, beatVars, boundVars>>

(* The lock is released, and the next step is about the manifest.          *)
Release(w, step, phase) ==
  /\ lock' = "free"
  /\ slice' = [slice EXCEPT ![w].at = step, ![w].m.phase = phase]

(* Only a slice that finds no progress starts afresh.                      *)
MayRefresh == progress = NoProgress

(* Mutation of RunBoundary: whatever Safe is there is covered.             *)
NoMargin == IF safes = {} THEN 0 ELSE Max(safes)

(* erc20_balance_run_boundary: now, less the settle margin.                *)
RunBoundary == settled

(* refresh_whale_list and resolve_run.                                     *)
ResolveRun(w) ==
  /\ slice[w].at = "chunks" /\ MayRefresh
  /\ \E found \in SUBSET (PgWhales \cap safes) : whales' = whales \cup found
  /\ IF progress = NoProgress
       THEN /\ progress' = [head |-> headBlock, cursor |-> 0]
            /\ boundary' = RunBoundary
       ELSE UNCHANGED <<progress, boundary>>
  /\ UNCHANGED <<world, rollupVars, walked, lock, runVars, slice, beatVars,
                 boundVars>>

Candidates == {s \in safes : progress.cursor < s /\ s <= boundary}

(* erc20_balance_seed_candidates.                                          *)
FirstOf(some, n) == {s \in some : Cardinality({t \in some : t <= s}) <= n}

Page(m) == FirstOf(Candidates, m.size)

InPhase(w, phase) ==
  /\ slice[w].at = phase
  /\ progress # NoProgress /\ boundary # NoBoundary

More(w) == slice[w].done < TaskChunks

(* The work of a step is in, and the copy of the manifest is stored.       *)
StepDone(w) ==
  /\ Save(slice[w].run, slice[w].m)
  /\ slice' = [slice EXCEPT ![w].done = @ + 1]
  /\ UNCHANGED <<lock, queue>>

(* Rows and progress are one transaction.  Whales are left for the walk.   *)
SeedChunk(w) ==
  /\ InPhase(w, "chunks") /\ More(w)
  /\ LET page == Page(slice[w].m) IN
       /\ page # {} /\ page \cap Heavy \subseteq whales
       /\ pair' = Seeded(page \ whales, progress.head)
       /\ progress' = [progress EXCEPT !.cursor = Max(page)]
  /\ StepDone(w)
  /\ UNCHANGED <<world, watermark, marker, holders, boundary, walked, whales,
                 beatVars, boundVars>>

(* The seed runs into the statement timeout: detect_runtime_whales, before *)
(* it is tried again.                                                      *)
DetectWhales(w) ==
  /\ InPhase(w, "chunks") /\ More(w)
  /\ LET found == Page(slice[w].m) \cap Heavy IN
       /\ ~(found \subseteq whales) /\ whales' = whales \cup found
  /\ UNCHANGED <<world, rollupVars, progress, boundary, walked, lock, runVars,
                 slice, beatVars, boundVars>>

(* No Safe is left, or the slice has had its time.                         *)
EndChunks(w) ==
  /\ InPhase(w, "chunks")
  /\ \/ More(w) /\ Candidates = {} /\ Release(w, "advance", "whales")
     \/ slice[w].done > 0 /\ Release(w, "advance", "chunks")
  /\ UNCHANGED <<world, rollupVars, progressVars, runVars, beatVars, boundVars>>

(* whale_addresses_upto_boundary.                                          *)
Walkers == {s \in whales \cap safes : s <= boundary}

(* Rows and progress of a range are one transaction.                       *)
WalkRange(w) ==
  /\ InPhase(w, "whales") /\ More(w)
  /\ Walkers # {} /\ walked < progress.head
  /\ walked' = Min({walked + slice[w].m.range, progress.head})
  /\ pair' = WithFlows(Walkers, walked, walked')
  /\ StepDone(w)
  /\ UNCHANGED <<world, watermark, marker, holders, progress, boundary,
                 whales, beatVars, boundVars>>

EndWalk(w) ==
  /\ InPhase(w, "whales")
  /\ \/ /\ Walkers = {} /\ walked' = 0 /\ UNCHANGED pair
        /\ Release(w, "advance", "finish")
     \/ /\ Walkers # {} /\ walked >= progress.head
        /\ pair' = WithoutZeros(pair, Walkers) /\ UNCHANGED walked
        /\ Release(w, "advance", "finish")
     \/ /\ Walkers # {} /\ walked < progress.head /\ slice[w].done > 0
        /\ Release(w, "advance", "whales") /\ UNCHANGED <<pair, walked>>
  /\ UNCHANGED <<world, watermark, marker, holders, progress, boundary,
                 whales, runVars, beatVars, boundVars>>

(* finish_run: one transaction.                                            *)
FinishRun(w) ==
  /\ InPhase(w, "finish")
  /\ watermark' = progress.head /\ marker' = boundary
  /\ holders' = Holders(pair)
  /\ progress' = NoProgress /\ boundary' = NoBoundary /\ walked' = 0
  /\ Release(w, "finished", "done")
  /\ UNCHANGED <<world, pair, whales, runVars, beatVars, boundVars>>

(* read_head and read_boundary raise, and resolve_run without a boundary.  *)
RowsAreGone(w) ==
  /\ \/ slice[w].at \in {"whales", "finish"} /\ progress = NoProgress
     \/ /\ slice[w].at \in {"chunks", "whales", "finish"}
        /\ progress # NoProgress /\ boundary = NoBoundary
  /\ Release(w, "failed", slice[w].m.phase)
  /\ UNCHANGED <<world, rollupVars, progressVars, runVars, beatVars, boundVars>>

(* The next slice is dispatched.                                           *)
Advance(w) ==
  /\ slice[w].at = "advance"
  /\ Redispatch(slice[w].run, slice[w].m)
  /\ slice' = [slice EXCEPT ![w] = AtRest]
  /\ UNCHANGED <<world, rollupVars, progressVars, lock, beatVars, boundVars>>

Close(w) ==
  /\ slice[w].at \in {"failed", "finished"}
  /\ Save(slice[w].run, [slice[w].m EXCEPT !.state = slice[w].at])
  /\ slice' = [slice EXCEPT ![w] = AtRest]
  /\ UNCHANGED <<world, rollupVars, progressVars, lock, queue, beatVars,
                 boundVars>>

(* Some statement raises, or the hard limit fires: it rolls back.  The     *)
(* last task does not catch the limit.                                     *)
Breaks(w) ==
  /\ slice[w].at \in {"chunks", "whales", "finish"} /\ Fault
  /\ \/ Release(w, "failed", slice[w].m.phase)
     \/ slice[w].at # "finish" /\ Release(w, "shrink", slice[w].m.phase)
     \/ /\ slice[w].at = "finish" /\ lock' = "free"
        /\ slice' = [slice EXCEPT ![w] = AtRest]
  /\ UNCHANGED <<world, rollupVars, progressVars, runVars, beatVars>>

Halved(n, floor) == Max({floor, n \div 2})

(* _erc20_backfill_shrink_or_fail.                                         *)
Shrink(w) ==
  /\ slice[w].at = "shrink"
  /\ LET r == slice[w].run  m == slice[w].m IN
       \/ /\ m.phase = "chunks" /\ m.size > ChunkFloor
          /\ Redispatch(r, [m EXCEPT !.size = Halved(@, ChunkFloor)])
       \/ /\ m.phase = "whales" /\ m.range > RangeFloor
          /\ Redispatch(r, [m EXCEPT !.range = Halved(@, RangeFloor)])
       \/ /\ m.phase = "chunks" => m.size = ChunkFloor
          /\ m.phase = "whales" => m.range = RangeFloor
          /\ Save(r, [m EXCEPT !.state = "failed"]) /\ UNCHANGED queue
  /\ slice' = [slice EXCEPT ![w] = AtRest]
  /\ UNCHANGED <<world, rollupVars, progressVars, lock, beatVars, boundVars>>

(* A worker dies.  Its message comes back, as the tasks are acknowledged   *)
(* late, unless the broker dies too; its lock stays until it expires.      *)
Killed(w) ==
  /\ slice[w] # AtRest /\ Fault
  /\ slice' = [slice EXCEPT ![w] = AtRest]
  /\ lock' = IF lock = w THEN "dead" ELSE lock
  /\ \/ queue' = queue (+) SetToBag({slice[w].msg})
     \/ UNCHANGED queue
  /\ \/ UNCHANGED <<progress, whales>>
     \/ /\ TornStart /\ slice[w].at = "chunks" /\ progress = NoProgress
        /\ progress' = [head |-> headBlock, cursor |-> 0] /\ UNCHANGED whales
  /\ UNCHANGED <<world, rollupVars, boundary, walked, runs, beatVars>>

(* The connection of a worker that goes on is lost: so is its message      *)
(* delivered a second time.                                                *)
Redeliver(w) ==
  /\ slice[w] # AtRest /\ Delay
  /\ queue' = queue (+) SetToBag({slice[w].msg})
  /\ UNCHANGED <<world, rollupVars, progressVars, lock, runs, slice, beatVars>>

LoseMessage ==
  /\ Fault
  /\ \E msg \in BagToSet(queue) : queue' = queue (-) SetToBag({msg})
  /\ UNCHANGED <<world, rollupVars, progressVars, lock, runs, slice, beatVars>>

LockExpires ==
  /\ lock = "dead" /\ lock' = "free"
  /\ UNCHANGED <<world, rollupVars, progressVars, runVars, slice, beatVars,
                 boundVars>>

-----------------------------------------------------------------------------
(***************************************************************************)
(* run_erc20_balance_rollup, under the lock.                               *)
(***************************************************************************)

(* Nothing without a watermark.  When there are too many new Safes, the    *)
(* boundary is lowered to the last one that is taken.                      *)
StartNightly ==
  /\ nightly = AtRest /\ lock = "free" /\ watermark # 0
  /\ watermark < headBlock \/ marker < RunBoundary
  /\ LET all == {s \in safes : marker < s /\ s <= RunBoundary}
         new == FirstOf(all, MaxSeed) IN
       nightly' = [at |-> "seed", head |-> headBlock, from |-> watermark,
                   new |-> new,
                   bound |-> IF new = all THEN RunBoundary ELSE Max(new)]
  /\ lock' = "nightly"
  /\ UNCHANGED <<world, rollupVars, progressVars, runVars, slice, watchdog,
                 boundVars>>

(* New Safes are seeded at the old watermark, the delta covers the rest.   *)
SeedMissing ==
  /\ nightly.at = "seed"
  /\ pair' = Seeded(nightly.new, nightly.from)
  /\ nightly' = [nightly EXCEPT !.at = "delta"]
  /\ UNCHANGED <<world, watermark, marker, holders, progressVars, lock,
                 runVars, slice, watchdog, boundVars>>

(* The Safes whose flows are applied: those up to the boundary.            *)
Covered(n) == {s \in safes : s <= n.bound}

(* The flows, both watermarks and the read model in one transaction; rows  *)
(* the flows have made zero are deleted.                                   *)
ApplyDelta ==
  /\ nightly.at = "delta"
  /\ LET n == nightly IN
       pair' = WithoutZeros(WithFlows(Covered(n), n.from, n.head),
                            Touched(Covered(n), n.from, n.head))
  /\ watermark' = nightly.head /\ marker' = nightly.bound
  /\ holders' = Holders(pair')
  /\ nightly' = AtRest /\ lock' = "free"
  /\ UNCHANGED <<world, progressVars, runVars, slice, watchdog,
                 boundVars>>

NightlyFails ==
  /\ nightly # AtRest /\ Fault
  /\ nightly' = AtRest /\ lock' \in {"free", "dead"}
  /\ UNCHANGED <<world, rollupVars, progressVars, runVars, slice, watchdog>>

-----------------------------------------------------------------------------
(***************************************************************************)
(* The watchdog, which alone resumes a run, and Erc20Stage, which starts   *)
(* one or adopts what a run has left.                                      *)
(***************************************************************************)

(* erc20_balance_backfill_looks_stalled.                                   *)
SeeStalled ==
  /\ watchdog = AtRest
  /\ watermark = 0 /\ Running /\ lock = "free" /\ ~Latest.fresh
  /\ watchdog' = [at |-> "seen", run |-> Len(runs), m |-> Latest]
  /\ UNCHANGED <<world, rollupVars, progressVars, lock, runVars, slice,
                 nightly, boundVars>>

(* The lock is looked at again before the manifest, as read, is stored.    *)
Resume ==
  /\ watchdog # AtRest /\ watchdog' = AtRest
  /\ IF lock = "free" THEN Redispatch(watchdog.run, watchdog.m)
     ELSE UNCHANGED runVars
  /\ UNCHANGED <<world, rollupVars, progressVars, lock, slice, nightly,
                 boundVars>>

(* Mutation of OrphanPhase: what the progress rows say is not looked at.   *)
WalkIsDone ==
  IF boundary = NoBoundary \/ Candidates # {} THEN "chunks" ELSE "finish"

(* _erc20_balance_backfill_derive_orphan_phase.                            *)
OrphanPhase ==
  IF boundary = NoBoundary \/ Candidates # {} THEN "chunks"
  ELSE IF walked < progress.head THEN "whales" ELSE "finish"

(* Mutation of MayStart: only a first run is started.                      *)
MayStartFirst == watermark = 0 /\ runs = <<>>

(* status() is neither done, running nor stalled.                          *)
MayStart == watermark = 0 /\ ~Running

(* Erc20Stage.start_or_resume: no command comes between the look and the   *)
(* start.                                                                  *)
StartBackfill ==
  /\ MayStart /\ lock = "free" /\ Undivided
  /\ StartRun(IF progress = NoProgress THEN "chunks" ELSE OrphanPhase)
  /\ UNCHANGED <<world, rollupVars, progressVars, lock, slice, beatVars,
                 boundVars>>

WatchdogFails ==
  /\ watchdog # AtRest /\ Fault /\ watchdog' = AtRest
  /\ UNCHANGED <<world, rollupVars, progressVars, lock, runVars, slice,
                 nightly>>

-----------------------------------------------------------------------------
(***************************************************************************)
(* The command with --celery, by an operator who looks at --status first   *)
(* unless Overlap.                                                         *)
(***************************************************************************)
MayCommand ==
  /\ Overlap \/ ~Running
  /\ Within(faults, delays, commands + 1) /\ commands' = commands + 1
  /\ UNCHANGED <<faults, delays>>

BackfillCommand ==
  /\ MayCommand /\ watermark = 0 /\ (progress = NoProgress \/ ~Running)
  /\ StartRun("chunks")
  /\ UNCHANGED <<world, rollupVars, progressVars, lock, slice, beatVars>>

(* --restart: everything goes but the list of whales.                      *)
Restart ==
  /\ MayCommand /\ lock = "free"
  /\ pair' = NoPairs /\ watermark' = 0 /\ marker' = 0 /\ holders' = {}
  /\ progress' = NoProgress /\ boundary' = NoBoundary /\ walked' = 0
  /\ StartRun("chunks")
  /\ UNCHANGED <<world, whales, lock, slice, beatVars>>

-----------------------------------------------------------------------------
(***************************************************************************)
(* The environment: blocks, Safes and time.                                *)
(***************************************************************************)
HeadMoves ==
  /\ headBlock < MaxBlock /\ headBlock' = headBlock + 1
  /\ UNCHANGED <<safes, settled, rollupVars, progressVars, lock, runVars,
                 slice, beatVars, boundVars>>

(* Rows become visible in another order than they were created in ...      *)
SafeCommits ==
  /\ \E s \in AllSafes \ safes : safes' = safes \cup {s}
  /\ UNCHANGED <<headBlock, settled, rollupVars, progressVars, lock, runVars,
                 slice, beatVars, boundVars>>

(* ... but not by more than ERC20_BALANCE_SAFE_SETTLE.                     *)
Settle ==
  /\ settled + 1 \in safes /\ settled' = settled + 1
  /\ UNCHANGED <<headBlock, safes, rollupVars, progressVars, lock, runVars,
                 slice, beatVars, boundVars>>

Live(r) ==
  \/ \E msg \in BagToSet(queue) : msg.run = r
  \/ \E w \in Workers : slice[w] # AtRest /\ slice[w].run = r

(* ERC20_BALANCE_BACKFILL_STALE_SECONDS go by without a heartbeat, not     *)
(* between two saves of a slice.                                           *)
GracePasses(r) ==
  /\ r \in DOMAIN runs /\ runs[r].state = "running" /\ runs[r].fresh
  /\ \A w \in Workers : ~Brisk(w)
  /\ runs' = [runs EXCEPT ![r].fresh = FALSE]
  /\ IF Live(r) THEN Delay ELSE UNCHANGED boundVars
  /\ UNCHANGED <<world, rollupVars, progressVars, lock, queue, slice,
                 beatVars>>

Work(w) ==
  \/ ResolveRun(w) \/ SeedChunk(w) \/ DetectWhales(w) \/ EndChunks(w)
  \/ WalkRange(w) \/ EndWalk(w) \/ FinishRun(w) \/ RowsAreGone(w)
  \/ Advance(w) \/ Close(w) \/ Shrink(w)

RollupNext ==
  \/ \E w \in Workers : \/ Receive(w) \/ Work(w)
                        \/ Breaks(w) \/ Killed(w) \/ Redeliver(w)
  \/ LoseMessage \/ LockExpires
  \/ StartNightly \/ SeedMissing \/ ApplyDelta \/ NightlyFails
  \/ SeeStalled \/ Resume \/ StartBackfill \/ WatchdogFails
  \/ BackfillCommand \/ Restart
  \/ HeadMoves \/ SafeCommits \/ Settle
  \/ \E r \in 1 .. MaxRuns : GracePasses(r)

(* Workers, beat and time go on.  A message comes back every 15 seconds    *)
(* and the two beat tasks every 5 minutes: some time the lock is free.     *)
RollupFairness ==
  /\ SF_allVars(\E w \in Workers : Receive(w))
  /\ \A w \in Workers : WF_allVars(Work(w))
  /\ WF_allVars(LockExpires) /\ WF_allVars(SeedMissing \/ ApplyDelta)
  /\ SF_allVars(SeeStalled) /\ WF_allVars(Resume)
  /\ SF_allVars(StartBackfill)
  /\ WF_allVars(\E r \in 1 .. MaxRuns : ~Live(r) /\ GracePasses(r))

RollupSpec == RollupInit /\ [][RollupNext]_allVars
FairRollupSpec == RollupSpec /\ RollupFairness

-----------------------------------------------------------------------------
Value(s) == IF s \in DOMAIN pair THEN pair[s] ELSE 0

(* Once there is a watermark, each Safe up to the marker has the balance   *)
(* of that block, whichever of chunk, walk and nightly delta made it and   *)
(* whatever was killed, repeated or adopted on the way; a row of a Safe    *)
(* after it is one the next nightly task agrees with; and the read model   *)
(* counts the holders as of the same block and marker.                     *)
RollupIsExact ==
  watermark # 0 =>
    /\ \A s \in safes : s <= marker \/ s \in DOMAIN pair =>
         Value(s) = Balance(s, watermark)
    /\ holders = {s \in safes : s <= marker /\ Balance(s, watermark) > 0}

(* The rollup is handed over in the end, and for good.                     *)
EventuallyHandedOver == <>[](watermark # 0)

(* Of each of Overlap, Slow and TornStart the sources say that it does no  *)
(* harm: backfill_erc20_balances.py:1408 offers --restart while a run goes *)
(* on, tasks.py:2658 says that a message delivered twice cannot apply a    *)
(* range again, and tasks.py:3460 that one can always go back to chunks.   *)
NothingHarms == RollupIsExact
ReentryIsSafe ==
  \A w \in Workers :
    slice[w].at = "chunks" => (progress = NoProgress <=> boundary = NoBoundary)
=============================================================================
