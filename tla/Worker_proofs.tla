---------------------------- MODULE Worker_proofs ----------------------------
(***************************************************************************)
(* What the workers share: proofs about TaskLock for every number of       *)
(* workers, runs and names, and about EventQueue for any number of events, *)
(* connections, outages and timeouts, and any limit of the pool.           *)
(*                                                                         *)
(* What makes the lock safe is that the key of a run lives at least as     *)
(* long as its timer has left: LockedWhileTimed, an invariant once the     *)
(* hard limit of the tasks is no longer than the life of the key.          *)
(***************************************************************************)
EXTENDS TaskLock, EventQueue, FiniteSetTheorems, TLAPS

-----------------------------------------------------------------------------
(***************************************************************************)
(* The task lock.                                                          *)
(***************************************************************************)
(* A run that has been granted the lock, and from which no forced release  *)
(* took it, holds the key, and the key outlives the timer of the run.      *)
LockedWhileTimed ==
  \A r \in Run :
    phase[r] \in {"granted", "running"} /\ r \notin evicted
    => /\ key[NameOf[r]] = r
       /\ ttl[NameOf[r]] + age[r] >= HardTimeout

(* Until some worker is told to stop nothing is doomed or evicted.         *)
QuietBeforeShutdown ==
  shutdowns = 0 =>
    /\ evicted = {}
    /\ \A w \in Worker : doomed[w] = {} /\ ~stopped[w]

LockInv ==
  /\ LockTypeOK
  /\ LockedWhileTimed
  /\ QuietBeforeShutdown
  /\ ShutdownSeesRunningTasks

(* The variables have their types, whatever the timeouts are.              *)
THEOREM LockTypeCorrect == LockSpec => []LockTypeOK
<1>1. LockInit => LockTypeOK
  BY TimeoutsType, BoundsType DEF LockInit, LockTypeOK, Phases
<1>2. LockTypeOK /\ [LockNext]_lockVars => LockTypeOK'
  <2> SUFFICES ASSUME LockTypeOK, [LockNext]_lockVars PROVE LockTypeOK'
    OBVIOUS
  <2> USE WorkerOfType, NameOfType, NoRunType, TimeoutsType, BoundsType
      DEF LockTypeOK, Phases
  <2>1. ASSUME NEW r \in Run, Enter(r) PROVE LockTypeOK'
    BY <2>1 DEF Enter
  <2>2. ASSUME NEW r \in Run, Grant(r) PROVE LockTypeOK'
    BY <2>2 DEF Grant
  <2>3. ASSUME NEW r \in Run, Deny(r) PROVE LockTypeOK'
    BY <2>3 DEF Deny
  <2>4. ASSUME NEW r \in Run, Begin(r) PROVE LockTypeOK'
    BY <2>4 DEF Begin
  <2>5. ASSUME NEW r \in Run, Return(r) PROVE LockTypeOK'
    BY <2>5 DEF Return
  <2>6. ASSUME NEW r \in Run, Fail(r) PROVE LockTypeOK'
    BY <2>6 DEF Fail
  <2>7. ASSUME NEW r \in Run, Interrupt(r) PROVE LockTypeOK'
    BY <2>7 DEF Interrupt
  <2>8. ASSUME NEW r \in Run, InterruptOnRedis(r) PROVE LockTypeOK'
    BY <2>8 DEF InterruptOnRedis
  <2>9. ASSUME NEW r \in Run, Release(r) PROVE LockTypeOK'
    BY <2>9 DEF Release
  <2>10. ASSUME NEW w \in Worker, ShutDown(w) PROVE LockTypeOK'
    BY <2>10 DEF ShutDown
  <2>11. ASSUME NEW w \in Worker, ForceRelease(w) PROVE LockTypeOK'
    BY <2>11 DEF ForceRelease
  <2>12. ASSUME NEW w \in Worker, Restart(w) PROVE LockTypeOK'
    BY <2>12 DEF Restart
  <2>13. ASSUME NEW w \in Worker, Crash(w) PROVE LockTypeOK'
    BY <2>13 DEF Crash, RunsOf
  <2>14. ASSUME Tick PROVE LockTypeOK'
    BY <2>14 DEF Tick, Timed
  <2>15. CASE UNCHANGED lockVars
    BY <2>15 DEF lockVars
  <2> QED
    BY <2>1, <2>2, <2>3, <2>4, <2>5, <2>6, <2>7, <2>8, <2>9, <2>10, <2>11,
       <2>12, <2>13, <2>14, <2>15 DEF LockNext
<1> QED
  BY <1>1, <1>2, PTL DEF LockSpec

-----------------------------------------------------------------------------
(* The steps of a run preserve LockedWhileTimed.                           *)
LEMMA LockedByRuns ==
  ASSUME LockTypeOK, LockedWhileTimed, HardTimeout <= LockTimeout,
         NEW s \in Run,
         \/ Enter(s) \/ Grant(s) \/ Deny(s) \/ Begin(s) \/ Return(s)
         \/ Fail(s) \/ Interrupt(s) \/ InterruptOnRedis(s) \/ Release(s)
  PROVE  LockedWhileTimed'
<1> SUFFICES ASSUME NEW r \in Run,
                    phase'[r] \in {"granted", "running"}, r \notin evicted'
             PROVE  /\ key'[NameOf[r]] = r
                    /\ ttl'[NameOf[r]] + age'[r] >= HardTimeout
  BY DEF LockedWhileTimed
<1> USE WorkerOfType, NameOfType, NoRunType, TimeoutsType
    DEF LockTypeOK, Phases
<1>1. CASE Grant(s)
  <2>1. CASE r = s
    BY <1>1, <2>1 DEF Grant
  <2>2. CASE r # s
    BY <1>1, <2>2 DEF Grant, LockedWhileTimed
  <2> QED BY <2>1, <2>2
<1>2. CASE Release(s)
  BY <1>2 DEF Release, LockedWhileTimed
<1>3. CASE Enter(s) \/ Deny(s) \/ Begin(s)
  BY <1>3 DEF Enter, Deny, Begin, LockedWhileTimed
<1>4. CASE Return(s) \/ Fail(s) \/ Interrupt(s) \/ InterruptOnRedis(s)
  BY <1>4 DEF Return, Fail, Interrupt, InterruptOnRedis, LockedWhileTimed
<1> QED BY <1>1, <1>2, <1>3, <1>4

(* So do the steps of a worker: what a forced release takes is evicted.    *)
LEMMA LockedByWorkers ==
  ASSUME LockTypeOK, LockedWhileTimed, NEW w \in Worker,
         ShutDown(w) \/ ForceRelease(w) \/ Restart(w) \/ Crash(w)
  PROVE  LockedWhileTimed'
<1> USE WorkerOfType, NameOfType, NoRunType DEF LockTypeOK, Phases
<1>1. CASE ForceRelease(w)
  BY <1>1 DEF ForceRelease, LockedWhileTimed
<1>2. CASE Crash(w)
  BY <1>2 DEF Crash, RunsOf, LockedWhileTimed
<1>3. CASE ShutDown(w) \/ Restart(w)
  BY <1>3 DEF ShutDown, Restart, LockedWhileTimed
<1> QED BY <1>1, <1>2, <1>3

(* And the clock, which ages the run as much as its key.                   *)
LEMMA LockedByTick ==
  ASSUME LockTypeOK, LockedWhileTimed, Tick
  PROVE  LockedWhileTimed'
<1> USE NameOfType, NoRunType, TimeoutsType DEF LockTypeOK, Phases
<1> SUFFICES ASSUME NEW r \in Run,
                    phase'[r] \in {"granted", "running"}, r \notin evicted'
             PROVE  /\ key'[NameOf[r]] = r
                    /\ ttl'[NameOf[r]] + age'[r] >= HardTimeout
  BY DEF LockedWhileTimed
<1>1. Timed(r) /\ age[r] < HardTimeout /\ age'[r] = age[r] + 1
  BY DEF Tick, Timed
<1>2. key[NameOf[r]] = r /\ ttl[NameOf[r]] + age[r] >= HardTimeout
  BY DEF Tick, LockedWhileTimed
<1>3. NameOf[r] \in Name /\ ttl[NameOf[r]] > 0
  BY <1>1, <1>2
<1> QED BY <1>1, <1>2, <1>3 DEF Tick

-----------------------------------------------------------------------------
(* Two bodies that run under one name hold one key.                        *)
LEMMA LockedRunsDoNotOverlap == LockedWhileTimed => OverlapNeedsEviction
  BY DEF LockedWhileTimed, OverlapNeedsEviction, Working

(* A step taken before any shutdown leaves ACTIVE_LOCKS with the names of  *)
(* all the running tasks: the run that returns has no other under its name.*)
LEMMA ShutdownSeesRunningTasksStep ==
  ASSUME LockTypeOK, LockTypeOK', LockedWhileTimed, QuietBeforeShutdown,
         ShutdownSeesRunningTasks, [LockNext]_lockVars
  PROVE  ShutdownSeesRunningTasks'
<1> SUFFICES ASSUME shutdowns' = 0, NEW r \in Run, Working(r)'
             PROVE  NameOf[r] \in activeLocks'[WorkerOf[r]]
  BY DEF ShutdownSeesRunningTasks
<1> USE WorkerOfType, NameOfType, BoundsType DEF LockTypeOK, Phases, Working
<1>1. ASSUME shutdowns = 0, NEW s \in Run, Begin(s)
      PROVE  NameOf[r] \in activeLocks'[WorkerOf[r]]
  BY <1>1 DEF Begin, ShutdownSeesRunningTasks
<1>2. ASSUME shutdowns = 0, NEW s \in Run, Return(s)
      PROVE  NameOf[r] \in activeLocks'[WorkerOf[r]]
  <2>1. Working(r) /\ Working(s) /\ r # s /\ evicted = {}
    BY <1>2 DEF Return, QuietBeforeShutdown
  <2>2. NameOf[r] # NameOf[s]
    BY <2>1, LockedRunsDoNotOverlap DEF OverlapNeedsEviction
  <2> QED BY <1>2, <2>1, <2>2 DEF Return, ShutdownSeesRunningTasks
<1>3. ASSUME shutdowns = 0, NEW s \in Run,
             \/ Enter(s) \/ Grant(s) \/ Deny(s) \/ Fail(s) \/ Interrupt(s)
             \/ InterruptOnRedis(s) \/ Release(s)
      PROVE  NameOf[r] \in activeLocks'[WorkerOf[r]]
  BY <1>3 DEF Enter, Grant, Deny, Fail, Interrupt, InterruptOnRedis, Release,
              ShutdownSeesRunningTasks
<1>4. ASSUME shutdowns = 0, NEW w \in Worker, Crash(w)
      PROVE  NameOf[r] \in activeLocks'[WorkerOf[r]]
  BY <1>4 DEF Crash, RunsOf, ShutdownSeesRunningTasks
<1>5. ASSUME shutdowns = 0, NEW w \in Worker, ShutDown(w) \/ Restart(w)
      PROVE  FALSE
  BY <1>5 DEF ShutDown, Restart, QuietBeforeShutdown
<1>6. ASSUME shutdowns = 0, NEW w \in Worker, ForceRelease(w)
      PROVE  FALSE
  BY <1>6 DEF ForceRelease, QuietBeforeShutdown
<1>7. ASSUME shutdowns = 0, Tick \/ UNCHANGED lockVars
      PROVE  NameOf[r] \in activeLocks'[WorkerOf[r]]
  BY <1>7 DEF Tick, lockVars, ShutdownSeesRunningTasks
<1>8. shutdowns = 0
  BY DEF LockNext, Enter, Grant, Deny, Begin, Return, Fail, Interrupt,
         InterruptOnRedis, Release, ShutDown, ForceRelease, Restart, Crash,
         Tick, lockVars
<1> QED
  BY <1>1, <1>2, <1>3, <1>4, <1>5, <1>6, <1>7, <1>8 DEF LockNext

LEMMA QuietKept ==
  ASSUME LockTypeOK, QuietBeforeShutdown, [LockNext]_lockVars
  PROVE  QuietBeforeShutdown'
  BY BoundsType
     DEF LockTypeOK, QuietBeforeShutdown, LockNext, Enter, Grant, Deny, Begin,
         Return, Fail, Interrupt, InterruptOnRedis, Release, ShutDown,
         ForceRelease, Restart, Crash, Tick, lockVars

-----------------------------------------------------------------------------
THEOREM LockInvariance ==
  ASSUME HardTimeout <= LockTimeout
  PROVE  LockSpec => []LockInv
<1>1. LockInit => LockInv
  BY TimeoutsType, BoundsType
     DEF LockInit, LockInv, LockTypeOK, Phases, LockedWhileTimed,
         QuietBeforeShutdown, ShutdownSeesRunningTasks, Working
<1>2. LockTypeOK /\ LockedWhileTimed /\ [LockNext]_lockVars
      => LockedWhileTimed'
  BY LockedByRuns, LockedByWorkers, LockedByTick
     DEF LockNext, lockVars, LockedWhileTimed
<1>3. LockInv /\ LockTypeOK' /\ [LockNext]_lockVars => LockInv'
  BY <1>2, ShutdownSeesRunningTasksStep, QuietKept DEF LockInv
<1>4. LockSpec => []LockTypeOK
  BY LockTypeCorrect
<1> QED
  BY <1>1, <1>3, <1>4, PTL DEF LockSpec

(* With a hard limit no longer than the life of the key, two bodies never  *)
(* run together under one name unless a stopping worker took the lock from *)
(* one of them.                                                            *)
THEOREM MutualExclusion ==
  ASSUME HardTimeout <= LockTimeout
  PROVE  LockSpec => []OverlapNeedsEviction
<1>1. LockInv => OverlapNeedsEviction
  BY LockedRunsDoNotOverlap DEF LockInv
<1> QED BY <1>1, LockInvariance, PTL

(* Under the same condition the first worker to stop knows the names of    *)
(* all the tasks it runs.                                                  *)
THEOREM ShutdownIsInformed ==
  ASSUME HardTimeout <= LockTimeout
  PROVE  LockSpec => []ShutdownSeesRunningTasks
<1>1. LockInv => ShutdownSeesRunningTasks
  BY DEF LockInv
<1> QED BY <1>1, LockInvariance, PTL

-----------------------------------------------------------------------------
(***************************************************************************)
(* The event queue.                                                        *)
(***************************************************************************)
(* What a greenlet is, besides its type.                                   *)
Formed(s) ==
  /\ s.conn = NoConn <=> s.pc \in {"idle", "connect", "done", "killed"}
  /\ s.flushing => s.conn # NoConn

(* TypeOK, without the sign of the counter.                                *)
Types ==
  /\ sender \in [Event -> Senders]
  /\ \A e \in Event : Formed(sender[e])
  /\ pool \in SUBSET Conn
  /\ total \in Int
  /\ unsentEvents \in SUBSET Event
  /\ open \in SUBSET Conn
  /\ brokerUp \in BOOLEAN
  /\ delivered \in SUBSET Event
  /\ outages \in 0 .. MaxOutages
  /\ timeouts \in 0 .. MaxTimeouts

(* An event is stored, or published by another greenlet, only after the    *)
(* call of its own greenlet has returned.                                  *)
StoredAreDone ==
  \A e \in Event :
    /\ e \in unsentEvents => sender[e].pc = "done"
    /\ \A f \in Event : e \in InHands(f) => sender[e].pc = "done"

IInv ==
  /\ Types
  /\ ConnectionIsExclusive
  /\ CounterIsRight
  /\ StoredAreDone
  /\ OutagesLoseNothing
  /\ UnsentIsOnce

(* The step of a greenlet changes its own record only, to a formed one.    *)
RecordMoves(e) ==
  /\ sender[e].pc \notin {"done", "killed"}
  /\ sender' = [sender EXCEPT ![e] = sender'[e]]
  /\ sender'[e] \in Senders
  /\ Formed(sender'[e])

(* It takes a connection nobody has, keeps its own or gives it back.       *)
ConnectionMoves(e) ==
  LET old == sender[e].conn
      new == sender'[e].conn IN
  /\ pool' \subseteq pool \cup ({old} \ {NoConn})
  /\ new # NoConn => /\ new \notin pool'
                     /\ new = old \/ new \in pool \/ new \notin pool \cup Held

(* It counts what it takes and what it gives back.                         *)
CounterMoves(e) ==
  LET old == sender[e].conn
      new == sender'[e].conn IN
  /\ total' = IF old = NoConn /\ new # NoConn THEN total + 1
              ELSE IF old # NoConn /\ new = NoConn THEN total - 1
              ELSE total
  /\ timeouts' = timeouts

(* It moves events between the list, its hands and the broker, and stores  *)
(* its own event only when it returns without having published it.         *)
EventsMove(e) ==
  /\ delivered \subseteq delivered'
  /\ unsentEvents \cup InHands(e) \subseteq unsentEvents' \cup InHands(e)' \cup delivered'
  /\ unsentEvents' \cup InHands(e)' \subseteq unsentEvents \cup InHands(e) \cup {e}
  /\ e \in unsentEvents' \cup InHands(e)' =>
       sender'[e].pc = "done" \/ e \in unsentEvents \cup InHands(e)
  /\ unsentEvents' \cap InHands(e)' \subseteq unsentEvents \cap InHands(e)
  /\ sender'[e].pc = "done" \/ sender'[e].flushing =>
       sender[e].flushing \/ e \in delivered' \cup unsentEvents'

(* All of it.                                                              *)
Moves(e) ==
  RecordMoves(e) /\ ConnectionMoves(e) /\ CounterMoves(e) /\ EventsMove(e)

-----------------------------------------------------------------------------
(* The records an action leaves for its greenlet are of the right type.    *)
LEMMA DoneTyped ==
  ASSUME NEW e \in Event
  PROVE  Done(e) \in Senders /\ Formed(Done(e)) /\ ~Done(e).flushing
         /\ Done(e).pc = "done" /\ Done(e).conn = NoConn
BY DEF Done, Idle, Senders, Formed

(* So is the record a timer leaves.                                        *)
LEMMA KilledTyped ==
  ASSUME NEW e \in Event
  PROVE  LET k == [Idle(e) EXCEPT !.pc = "killed"] IN
         k \in Senders /\ Formed(k) /\ ~k.flushing /\ k.conn = NoConn
BY DEF Idle, Senders, Formed

-----------------------------------------------------------------------------
(* What each action does, in those terms.                                  *)

(* send_event up to get_connection: stored, connecting or with a connection *)
(* of the pool.                                                            *)
LEMMA SendEventMoves ==
  ASSUME IInv, NEW e \in Event, SendEvent(e)
  PROVE  Moves(e)
<1>1. /\ sender \in [Event -> Senders] /\ sender[e] \in Senders /\ Formed(sender[e])
      /\ sender[e].msg \in Event /\ sender[e].todo \subseteq Event
      /\ pool \subseteq Conn /\ unsentEvents \subseteq Event /\ NoConn \notin Conn
      /\ sender[e].conn # NoConn => sender[e].conn \in Conn \ pool
  BY QueueType DEF IInv, Types, Senders, ConnectionIsExclusive
<1>2. /\ sender[e].pc = "idle"
      /\ UNCHANGED <<open, delivered, timeouts>>
  BY DEF SendEvent
<1>3. CASE /\ sender' = [sender EXCEPT ![e] = Done(e)]
           /\ unsentEvents' = unsentEvents \cup {e}
           /\ UNCHANGED <<pool, total>>
  <2>1. /\ sender'[e] = [pc |-> "done", conn |-> NoConn, msg |-> e,
                         flushing |-> FALSE, todo |-> {}]
        /\ sender'[e] = Done(e)
        /\ sender' = [sender EXCEPT ![e] = sender'[e]]
    BY <1>1, <1>2, <1>3 DEF Senders, Done, Idle
  <2>2. RecordMoves(e)
    BY <1>1, <1>2, <1>3, <2>1, DoneTyped DEF RecordMoves
  <2>3. ConnectionMoves(e)
    BY <1>1, <1>2, <1>3, <2>1 DEF ConnectionMoves, Formed, Held
  <2>4. CounterMoves(e)
    BY <1>1, <1>2, <1>3, <2>1 DEF CounterMoves, Formed
  <2>5. EventsMove(e)
    BY <1>1, <1>2, <1>3, <2>1 DEF EventsMove, Formed, InHands
  <2> QED  BY <2>2, <2>3, <2>4, <2>5 DEF Moves
<1>4. CASE /\ sender' = [sender EXCEPT ![e].pc = "connect"]
           /\ UNCHANGED <<pool, total, unsentEvents>>
  <2>1. /\ sender'[e] = [pc |-> "connect", conn |-> sender[e].conn, msg |-> sender[e].msg,
                         flushing |-> sender[e].flushing, todo |-> sender[e].todo]
        /\ sender' = [sender EXCEPT ![e] = sender'[e]]
    BY <1>1, <1>2, <1>4 DEF Senders, Done, Idle
  <2>2. RecordMoves(e)
    BY <1>1, <1>2, <1>4, <2>1 DEF RecordMoves, Formed, Senders
  <2>3. ConnectionMoves(e)
    BY <1>1, <1>2, <1>4, <2>1 DEF ConnectionMoves, Formed, Held
  <2>4. CounterMoves(e)
    BY <1>1, <1>2, <1>4, <2>1 DEF CounterMoves, Formed
  <2>5. EventsMove(e)
    BY <1>1, <1>2, <1>4, <2>1 DEF EventsMove, Formed, InHands
  <2> QED  BY <2>2, <2>3, <2>4, <2>5 DEF Moves
<1>5. CASE /\ UNCHANGED unsentEvents
           /\ total' = total + 1
           /\ \E c \in pool :
                /\ sender' = [sender EXCEPT ![e].pc = "publish", ![e].conn = c]
                /\ pool' = pool \ {c}
  <2>1. PICK c \in pool :
             /\ sender' = [sender EXCEPT ![e].pc = "publish", ![e].conn = c]
             /\ pool' = pool \ {c}
    BY <1>5
  <2>2. /\ sender'[e] = [pc |-> "publish", conn |-> c, msg |-> sender[e].msg,
                         flushing |-> sender[e].flushing, todo |-> sender[e].todo]
        /\ sender' = [sender EXCEPT ![e] = sender'[e]]
    BY <1>1, <1>2, <1>5, <2>1 DEF Senders, Done, Idle
  <2>3. RecordMoves(e)
    BY <1>1, <1>2, <1>5, <2>1, <2>2 DEF RecordMoves, Formed, Senders
  <2>4. ConnectionMoves(e)
    BY <1>1, <1>2, <1>5, <2>1, <2>2 DEF ConnectionMoves, Formed, Held
  <2>5. CounterMoves(e)
    BY <1>1, <1>2, <1>5, <2>1, <2>2 DEF CounterMoves, Formed
  <2>6. EventsMove(e)
    BY <1>1, <1>2, <1>5, <2>1, <2>2 DEF EventsMove, Formed, InHands
  <2> QED  BY <2>3, <2>4, <2>5, <2>6 DEF Moves
<1> QED  BY <1>3, <1>4, <1>5 DEF SendEvent

(* BrokerConnection(): a connection of its own, or the event is stored.     *)
LEMMA ConnectMoves ==
  ASSUME IInv, NEW e \in Event, Connect(e)
  PROVE  Moves(e)
<1>1. /\ sender \in [Event -> Senders] /\ sender[e] \in Senders /\ Formed(sender[e])
      /\ sender[e].msg \in Event /\ sender[e].todo \subseteq Event
      /\ pool \subseteq Conn /\ unsentEvents \subseteq Event /\ NoConn \notin Conn
      /\ sender[e].conn # NoConn => sender[e].conn \in Conn \ pool
  BY QueueType DEF IInv, Types, Senders, ConnectionIsExclusive
<1>2. /\ sender[e].pc = "connect"
      /\ UNCHANGED <<pool, delivered, timeouts>>
  BY DEF Connect
<1>3. CASE /\ UNCHANGED unsentEvents
           /\ total' = total + 1
           /\ \E c \in Conn \ (pool \cup Held) :
                sender' = [sender EXCEPT ![e].pc = "publish", ![e].conn = c]
  <2>1. PICK c \in Conn \ (pool \cup Held) :
             sender' = [sender EXCEPT ![e].pc = "publish", ![e].conn = c]
    BY <1>3
  <2>2. /\ sender'[e] = [pc |-> "publish", conn |-> c, msg |-> sender[e].msg,
                         flushing |-> sender[e].flushing, todo |-> sender[e].todo]
        /\ sender' = [sender EXCEPT ![e] = sender'[e]]
    BY <1>1, <1>2, <1>3, <2>1 DEF Senders, Done, Idle
  <2>3. RecordMoves(e)
    BY <1>1, <1>2, <1>3, <2>1, <2>2 DEF RecordMoves, Formed, Senders
  <2>4. ConnectionMoves(e)
    BY <1>1, <1>2, <1>3, <2>1, <2>2 DEF ConnectionMoves, Formed, Held
  <2>5. CounterMoves(e)
    BY <1>1, <1>2, <1>3, <2>1, <2>2 DEF CounterMoves, Formed
  <2>6. EventsMove(e)
    BY <1>1, <1>2, <1>3, <2>1, <2>2 DEF EventsMove, Formed, InHands
  <2> QED  BY <2>3, <2>4, <2>5, <2>6 DEF Moves
<1>4. CASE /\ sender' = [sender EXCEPT ![e] = Done(e)]
           /\ unsentEvents' = unsentEvents \cup {e}
           /\ UNCHANGED total
  <2>1. /\ sender'[e] = [pc |-> "done", conn |-> NoConn, msg |-> e,
                         flushing |-> FALSE, todo |-> {}]
        /\ sender'[e] = Done(e)
        /\ sender' = [sender EXCEPT ![e] = sender'[e]]
    BY <1>1, <1>2, <1>4 DEF Senders, Done, Idle
  <2>2. RecordMoves(e)
    BY <1>1, <1>2, <1>4, <2>1, DoneTyped DEF RecordMoves
  <2>3. ConnectionMoves(e)
    BY <1>1, <1>2, <1>4, <2>1 DEF ConnectionMoves, Formed, Held
  <2>4. CounterMoves(e)
    BY <1>1, <1>2, <1>4, <2>1 DEF CounterMoves, Formed
  <2>5. EventsMove(e)
    BY <1>1, <1>2, <1>4, <2>1 DEF EventsMove, Formed, InHands
  <2> QED  BY <2>2, <2>3, <2>4, <2>5 DEF Moves
<1> QED  BY <1>3, <1>4 DEF Connect

(* send_event after its publish: the end, or all unsent events are taken.   *)
LEMMA EventPublishedMoves ==
  ASSUME IInv, NEW e \in Event, EventPublished(e)
  PROVE  Moves(e)
<1>1. /\ sender \in [Event -> Senders] /\ sender[e] \in Senders /\ Formed(sender[e])
      /\ sender[e].msg \in Event /\ sender[e].todo \subseteq Event
      /\ pool \subseteq Conn /\ unsentEvents \subseteq Event /\ NoConn \notin Conn
      /\ sender[e].conn # NoConn => sender[e].conn \in Conn \ pool
  BY QueueType DEF IInv, Types, Senders, ConnectionIsExclusive
<1>2. /\ sender[e].pc \in {"publish", "republish"}
      /\ ~sender[e].flushing
      /\ delivered' = delivered \cup {e}
      /\ timeouts' = timeouts
  BY DEF EventPublished, Publishing
<1>3. CASE /\ sender' = [sender EXCEPT ![e] = Done(e)]
           /\ pool' = pool \cup {sender[e].conn}
           /\ total' = total - 1
           /\ UNCHANGED unsentEvents
  <2>1. /\ sender'[e] = [pc |-> "done", conn |-> NoConn, msg |-> e,
                         flushing |-> FALSE, todo |-> {}]
        /\ sender'[e] = Done(e)
        /\ sender' = [sender EXCEPT ![e] = sender'[e]]
    BY <1>1, <1>2, <1>3 DEF Senders, Done, Idle
  <2>2. RecordMoves(e)
    BY <1>1, <1>2, <1>3, <2>1, DoneTyped DEF RecordMoves
  <2>3. ConnectionMoves(e)
    BY <1>1, <1>2, <1>3, <2>1 DEF ConnectionMoves, Formed, Held
  <2>4. CounterMoves(e)
    BY <1>1, <1>2, <1>3, <2>1 DEF CounterMoves, Formed
  <2>5. EventsMove(e)
    BY <1>1, <1>2, <1>3, <2>1 DEF EventsMove, Formed, InHands
  <2> QED  BY <2>2, <2>3, <2>4, <2>5 DEF Moves
<1>4. CASE /\ unsentEvents' = {}
           /\ UNCHANGED total
           /\ \E c \in pool \cup {sender[e].conn}, m \in unsentEvents :
                /\ sender' = [sender EXCEPT ![e] =
                     [pc |-> "publish", conn |-> c, msg |-> m, flushing |-> TRUE,
                      todo |-> unsentEvents \ {m}]]
                /\ pool' = (pool \cup {sender[e].conn}) \ {c}
  <2>1. PICK c \in pool \cup {sender[e].conn}, m \in unsentEvents :
             /\ sender' = [sender EXCEPT ![e] =
                  [pc |-> "publish", conn |-> c, msg |-> m, flushing |-> TRUE,
                   todo |-> unsentEvents \ {m}]]
             /\ pool' = (pool \cup {sender[e].conn}) \ {c}
    BY <1>4
  <2>2. /\ sender'[e] = [pc |-> "publish", conn |-> c, msg |-> m,
                         flushing |-> TRUE, todo |-> unsentEvents \ {m}]
        /\ sender' = [sender EXCEPT ![e] = sender'[e]]
    BY <1>1, <1>2, <1>4, <2>1 DEF Senders, Done, Idle
  <2>3. RecordMoves(e)
    BY <1>1, <1>2, <1>4, <2>1, <2>2 DEF RecordMoves, Formed, Senders
  <2>4. ConnectionMoves(e)
    BY <1>1, <1>2, <1>4, <2>1, <2>2 DEF ConnectionMoves, Formed, Held
  <2>5. CounterMoves(e)
    BY <1>1, <1>2, <1>4, <2>1, <2>2 DEF CounterMoves, Formed
  <2>6. EventsMove(e)
    BY <1>1, <1>2, <1>4, <2>1, <2>2 DEF EventsMove, Formed, InHands
  <2> QED  BY <2>3, <2>4, <2>5, <2>6 DEF Moves
<1> QED  BY <1>3, <1>4 DEF EventPublished, Publishing

(* An AMQPError changes where the greenlet is.                             *)
LEMMA PublishFailsMoves ==
  ASSUME IInv, NEW e \in Event, PublishFails(e)
  PROVE  Moves(e)
<1>1. /\ sender \in [Event -> Senders] /\ sender[e] \in Senders /\ Formed(sender[e])
      /\ sender[e].msg \in Event /\ sender[e].todo \subseteq Event
      /\ pool \subseteq Conn /\ unsentEvents \subseteq Event /\ NoConn \notin Conn
      /\ sender[e].conn # NoConn => sender[e].conn \in Conn \ pool
  BY QueueType DEF IInv, Types, Senders, ConnectionIsExclusive
<1>2. /\ sender[e].pc = "publish"
      /\ sender' = [sender EXCEPT ![e].pc = "reconnect"]
      /\ UNCHANGED <<pool, total, unsentEvents, delivered, timeouts>>
  BY DEF PublishFails
<1>3. /\ sender'[e] = [pc |-> "reconnect", conn |-> sender[e].conn, msg |-> sender[e].msg,
                       flushing |-> sender[e].flushing, todo |-> sender[e].todo]
      /\ sender' = [sender EXCEPT ![e] = sender'[e]]
  BY <1>1, <1>2 DEF Senders, Done, Idle
<1>4. RecordMoves(e)
  BY <1>1, <1>2, <1>3 DEF RecordMoves, Formed, Senders
<1>5. ConnectionMoves(e)
  BY <1>1, <1>2, <1>3 DEF ConnectionMoves, Formed, Held
<1>6. CounterMoves(e)
  BY <1>1, <1>2, <1>3 DEF CounterMoves, Formed
<1>7. EventsMove(e)
  BY <1>1, <1>2, <1>3 DEF EventsMove, Formed, InHands
<1> QED  BY <1>4, <1>5, <1>6, <1>7 DEF Moves

(* So does connecting again.                                               *)
LEMMA ReconnectMoves ==
  ASSUME IInv, NEW e \in Event, Reconnect(e)
  PROVE  Moves(e)
<1>1. /\ sender \in [Event -> Senders] /\ sender[e] \in Senders /\ Formed(sender[e])
      /\ sender[e].msg \in Event /\ sender[e].todo \subseteq Event
      /\ pool \subseteq Conn /\ unsentEvents \subseteq Event /\ NoConn \notin Conn
      /\ sender[e].conn # NoConn => sender[e].conn \in Conn \ pool
  BY QueueType DEF IInv, Types, Senders, ConnectionIsExclusive
<1>2. /\ sender[e].pc = "reconnect"
      /\ sender' = [sender EXCEPT ![e].pc = "republish"]
      /\ UNCHANGED <<pool, total, unsentEvents, delivered, timeouts>>
  BY DEF Reconnect
<1>3. /\ sender'[e] = [pc |-> "republish", conn |-> sender[e].conn, msg |-> sender[e].msg,
                       flushing |-> sender[e].flushing, todo |-> sender[e].todo]
      /\ sender' = [sender EXCEPT ![e] = sender'[e]]
  BY <1>1, <1>2 DEF Senders, Done, Idle
<1>4. RecordMoves(e)
  BY <1>1, <1>2, <1>3 DEF RecordMoves, Formed, Senders
<1>5. ConnectionMoves(e)
  BY <1>1, <1>2, <1>3 DEF ConnectionMoves, Formed, Held
<1>6. CounterMoves(e)
  BY <1>1, <1>2, <1>3 DEF CounterMoves, Formed
<1>7. EventsMove(e)
  BY <1>1, <1>2, <1>3 DEF EventsMove, Formed, InHands
<1> QED  BY <1>4, <1>5, <1>6, <1>7 DEF Moves

(* send_event after a publish in vain: the event is stored.                *)
LEMMA EventNotPublishedMoves ==
  ASSUME IInv, NEW e \in Event, EventNotPublished(e)
  PROVE  Moves(e)
<1>1. /\ sender \in [Event -> Senders] /\ sender[e] \in Senders /\ Formed(sender[e])
      /\ sender[e].msg \in Event /\ sender[e].todo \subseteq Event
      /\ pool \subseteq Conn /\ unsentEvents \subseteq Event /\ NoConn \notin Conn
      /\ sender[e].conn # NoConn => sender[e].conn \in Conn \ pool
  BY QueueType DEF IInv, Types, Senders, ConnectionIsExclusive
<1>2. /\ sender[e].pc = "republish"
      /\ ~sender[e].flushing
      /\ sender' = [sender EXCEPT ![e] = Done(e)]
      /\ unsentEvents' = unsentEvents \cup {e}
      /\ total' = total - 1
      /\ UNCHANGED <<pool, delivered, timeouts>>
  BY DEF EventNotPublished
<1>3. /\ sender'[e] = [pc |-> "done", conn |-> NoConn, msg |-> e,
                       flushing |-> FALSE, todo |-> {}]
      /\ sender'[e] = Done(e)
      /\ sender' = [sender EXCEPT ![e] = sender'[e]]
  BY <1>1, <1>2 DEF Senders, Done, Idle
<1>4. RecordMoves(e)
  BY <1>1, <1>2, <1>3, DoneTyped DEF RecordMoves
<1>5. ConnectionMoves(e)
  BY <1>1, <1>2, <1>3 DEF ConnectionMoves, Formed, Held
<1>6. CounterMoves(e)
  BY <1>1, <1>2, <1>3 DEF CounterMoves, Formed
<1>7. EventsMove(e)
  BY <1>1, <1>2, <1>3 DEF EventsMove, Formed, InHands
<1> QED  BY <1>4, <1>5, <1>6, <1>7 DEF Moves

(* send_unsent_events after a publish.                                     *)
LEMMA UnsentPublishedMoves ==
  ASSUME IInv, NEW e \in Event, UnsentPublished(e)
  PROVE  Moves(e)
<1>1. /\ sender \in [Event -> Senders] /\ sender[e] \in Senders /\ Formed(sender[e])
      /\ sender[e].msg \in Event /\ sender[e].todo \subseteq Event
      /\ pool \subseteq Conn /\ unsentEvents \subseteq Event /\ NoConn \notin Conn
      /\ sender[e].conn # NoConn => sender[e].conn \in Conn \ pool
  BY QueueType DEF IInv, Types, Senders, ConnectionIsExclusive
<1>2. /\ sender[e].pc \in {"publish", "republish"}
      /\ sender[e].flushing
      /\ delivered' = delivered \cup {sender[e].msg}
      /\ UNCHANGED <<unsentEvents, timeouts>>
  BY DEF UnsentPublished, Publishing, NextUnsent
<1>3. CASE /\ sender[e].todo = {}
           /\ sender' = [sender EXCEPT ![e] = Done(e)]
           /\ pool' = pool \cup {sender[e].conn}
           /\ total' = total - 1
  <2>1. /\ sender'[e] = [pc |-> "done", conn |-> NoConn, msg |-> e,
                         flushing |-> FALSE, todo |-> {}]
        /\ sender'[e] = Done(e)
        /\ sender' = [sender EXCEPT ![e] = sender'[e]]
    BY <1>1, <1>2, <1>3 DEF Senders, Done, Idle
  <2>2. RecordMoves(e)
    BY <1>1, <1>2, <1>3, <2>1, DoneTyped DEF RecordMoves
  <2>3. ConnectionMoves(e)
    BY <1>1, <1>2, <1>3, <2>1 DEF ConnectionMoves, Formed, Held
  <2>4. CounterMoves(e)
    BY <1>1, <1>2, <1>3, <2>1 DEF CounterMoves, Formed
  <2>5. EventsMove(e)
    BY <1>1, <1>2, <1>3, <2>1 DEF EventsMove, Formed, InHands
  <2> QED  BY <2>2, <2>3, <2>4, <2>5 DEF Moves
<1>4. CASE /\ UNCHANGED <<pool, total>>
           /\ \E m \in sender[e].todo :
                sender' = [sender EXCEPT ![e].pc = "publish", ![e].msg = m,
                                         ![e].todo = @ \ {m}]
  <2>1. PICK m \in sender[e].todo :
             sender' = [sender EXCEPT ![e].pc = "publish", ![e].msg = m,
                                      ![e].todo = @ \ {m}]
    BY <1>4
  <2>2. /\ sender'[e] = [pc |-> "publish", conn |-> sender[e].conn, msg |-> m,
                         flushing |-> sender[e].flushing, todo |-> sender[e].todo \ {m}]
        /\ sender' = [sender EXCEPT ![e] = sender'[e]]
    BY <1>1, <1>2, <1>4, <2>1 DEF Senders, Done, Idle
  <2>3. RecordMoves(e)
    BY <1>1, <1>2, <1>4, <2>1, <2>2 DEF RecordMoves, Formed, Senders
  <2>4. ConnectionMoves(e)
    BY <1>1, <1>2, <1>4, <2>1, <2>2 DEF ConnectionMoves, Formed, Held
  <2>5. CounterMoves(e)
    BY <1>1, <1>2, <1>4, <2>1, <2>2 DEF CounterMoves, Formed
  <2>6. EventsMove(e)
    BY <1>1, <1>2, <1>4, <2>1, <2>2 DEF EventsMove, Formed, InHands
  <2> QED  BY <2>3, <2>4, <2>5, <2>6 DEF Moves
<1> QED  BY <1>3, <1>4 DEF UnsentPublished, Publishing, NextUnsent

(* send_unsent_events after a publish in vain: the message is put back.     *)
LEMMA UnsentNotPublishedMoves ==
  ASSUME IInv, NEW e \in Event, UnsentNotPublished(e)
  PROVE  Moves(e)
<1>1. /\ sender \in [Event -> Senders] /\ sender[e] \in Senders /\ Formed(sender[e])
      /\ sender[e].msg \in Event /\ sender[e].todo \subseteq Event
      /\ pool \subseteq Conn /\ unsentEvents \subseteq Event /\ NoConn \notin Conn
      /\ sender[e].conn # NoConn => sender[e].conn \in Conn \ pool
  BY QueueType DEF IInv, Types, Senders, ConnectionIsExclusive
<1>2. /\ sender[e].pc = "republish"
      /\ sender[e].flushing
      /\ unsentEvents' = unsentEvents \cup {sender[e].msg}
      /\ UNCHANGED <<delivered, timeouts>>
  BY DEF UnsentNotPublished, NextUnsent
<1>3. CASE /\ sender[e].todo = {}
           /\ sender' = [sender EXCEPT ![e] = Done(e)]
           /\ pool' = pool \cup {sender[e].conn}
           /\ total' = total - 1
  <2>1. /\ sender'[e] = [pc |-> "done", conn |-> NoConn, msg |-> e,
                         flushing |-> FALSE, todo |-> {}]
        /\ sender'[e] = Done(e)
        /\ sender' = [sender EXCEPT ![e] = sender'[e]]
    BY <1>1, <1>2, <1>3 DEF Senders, Done, Idle
  <2>2. RecordMoves(e)
    BY <1>1, <1>2, <1>3, <2>1, DoneTyped DEF RecordMoves
  <2>3. ConnectionMoves(e)
    BY <1>1, <1>2, <1>3, <2>1 DEF ConnectionMoves, Formed, Held
  <2>4. CounterMoves(e)
    BY <1>1, <1>2, <1>3, <2>1 DEF CounterMoves, Formed
  <2>5. EventsMove(e)
    BY <1>1, <1>2, <1>3, <2>1 DEF EventsMove, Formed, InHands
  <2> QED  BY <2>2, <2>3, <2>4, <2>5 DEF Moves
<1>4. CASE /\ UNCHANGED <<pool, total>>
           /\ \E m \in sender[e].todo :
                sender' = [sender EXCEPT ![e].pc = "publish", ![e].msg = m,
                                         ![e].todo = @ \ {m}]
  <2>1. PICK m \in sender[e].todo :
             sender' = [sender EXCEPT ![e].pc = "publish", ![e].msg = m,
                                      ![e].todo = @ \ {m}]
    BY <1>4
  <2>2. /\ sender'[e] = [pc |-> "publish", conn |-> sender[e].conn, msg |-> m,
                         flushing |-> sender[e].flushing, todo |-> sender[e].todo \ {m}]
        /\ sender' = [sender EXCEPT ![e] = sender'[e]]
    BY <1>1, <1>2, <1>4, <2>1 DEF Senders, Done, Idle
  <2>3. RecordMoves(e)
    BY <1>1, <1>2, <1>4, <2>1, <2>2 DEF RecordMoves, Formed, Senders
  <2>4. ConnectionMoves(e)
    BY <1>1, <1>2, <1>4, <2>1, <2>2 DEF ConnectionMoves, Formed, Held
  <2>5. CounterMoves(e)
    BY <1>1, <1>2, <1>4, <2>1, <2>2 DEF CounterMoves, Formed
  <2>6. EventsMove(e)
    BY <1>1, <1>2, <1>4, <2>1, <2>2 DEF EventsMove, Formed, InHands
  <2> QED  BY <2>3, <2>4, <2>5, <2>6 DEF Moves
<1> QED  BY <1>3, <1>4 DEF UnsentNotPublished, NextUnsent

-----------------------------------------------------------------------------
(* The broker's side of the state stays well typed.                        *)
BrokerTyped ==
  /\ open \in SUBSET Conn
  /\ brokerUp \in BOOLEAN
  /\ delivered \in SUBSET Event
  /\ outages \in 0 .. MaxOutages

(* The types of the events somebody has in hands.                          *)
LEMMA HandsTyped ==
  ASSUME IInv, NEW e \in Event
  PROVE  InHands(e) \subseteq Event
BY DEF IInv, Types, Senders, InHands

(* The greenlets that did not move have what they had.                     *)
LEMMA OthersStay ==
  ASSUME IInv, NEW e \in Event, RecordMoves(e)
  PROVE  /\ \A f \in Event \ {e} : /\ sender'[f] = sender[f]
                                   /\ InHands(f)' = InHands(f)
BY DEF IInv, Types, RecordMoves, InHands

LEMMA TypesKept ==
  ASSUME IInv, NEW e \in Event, Moves(e), BrokerTyped'
  PROVE  Types'
<1>1. sender' \in [Event -> Senders]
  BY DEF IInv, Types, Moves, RecordMoves
<1>2. \A f \in Event : Formed(sender[f])'
  <2>1. ASSUME NEW f \in Event, f # e PROVE Formed(sender'[f])
    BY <2>1, OthersStay DEF IInv, Types, Moves
  <2>2. Formed(sender'[e])
    BY DEF Moves, RecordMoves
  <2> QED  BY <2>1, <2>2
<1>3. pool' \in SUBSET Conn
  <2>1. sender[e].conn \in Conn \cup {NoConn}
    BY DEF IInv, Types, Senders
  <2> QED  BY <2>1 DEF IInv, Types, Moves, ConnectionMoves
<1>4. unsentEvents' \in SUBSET Event
  BY HandsTyped DEF IInv, Types, Moves, EventsMove
<1>5. total' \in Int /\ timeouts' \in 0 .. MaxTimeouts
  BY DEF IInv, Types, Moves, CounterMoves
<1> QED  BY <1>1, <1>2, <1>3, <1>4, <1>5 DEF Types, BrokerTyped

(* A connection is taken from the pool or is nobody's: it stays exclusive. *)
LEMMA ConnectionsKept ==
  ASSUME IInv, NEW e \in Event, Moves(e)
  PROVE  ConnectionIsExclusive'
<1> DEFINE old == sender[e].conn
           new == sender'[e].conn
<1>1. /\ pool' \subseteq pool \cup ({old} \ {NoConn})
      /\ new # NoConn => /\ new \notin pool'
                         /\ new = old \/ new \in pool \/ new \notin pool \cup Held
  BY DEF Moves, ConnectionMoves
<1>2. \A f \in Event \ {e} : sender'[f].conn = sender[f].conn
  BY OthersStay DEF Moves
<1>3. ASSUME NEW f \in Event \ {e}, sender[f].conn # NoConn
      PROVE  /\ sender[f].conn \notin pool
             /\ sender[f].conn # old
             /\ sender[f].conn # new
             /\ \A g \in Event \ {f} : sender[g].conn # sender[f].conn
  <2>1. sender[f].conn \notin pool /\ \A g \in Event \ {f} : sender[g].conn # sender[f].conn
    BY <1>3 DEF IInv, ConnectionIsExclusive
  <2>2. sender[f].conn \in Held
    BY <1>3 DEF Held
  <2> QED  BY <1>1, <1>3, <2>1, <2>2
<1>4. ASSUME NEW f \in Event, sender'[f].conn # NoConn
      PROVE  /\ sender'[f].conn \notin pool'
             /\ \A g \in Event \ {f} : sender'[g].conn # sender'[f].conn
  <2>1. CASE f = e
    BY <1>1, <1>2, <1>3, <1>4, <2>1
  <2>2. CASE f # e
    <3>1. sender'[f].conn = sender[f].conn /\ f \in Event \ {e}
      BY <1>2, <2>2
    <3> HIDE DEF old, new
    <3>2. sender[f].conn \notin pool /\ sender[f].conn # old /\ sender[f].conn # new
          /\ \A g \in Event \ {f} : sender[g].conn # sender[f].conn
      BY <1>3, <1>4, <3>1
    <3>3. sender'[f].conn \notin pool'
      BY <1>1, <3>1, <3>2
    <3>4. ASSUME NEW g \in Event \ {f} PROVE sender'[g].conn # sender'[f].conn
      BY <1>2, <3>1, <3>2 DEF new
    <3> QED  BY <3>3, <3>4
  <2> QED  BY <2>1, <2>2
<1> QED  BY <1>4 DEF ConnectionIsExclusive

(* The counter goes with the number of the greenlets that have one.        *)
LEMMA CounterKept ==
  ASSUME IInv, NEW e \in Event, Moves(e)
  PROVE  CounterIsRight'
<1>1. /\ IsFiniteSet(Holders) /\ Cardinality(Holders) \in Nat
      /\ total \in Int /\ timeouts \in Int
      /\ Cardinality(Holders) <= total /\ total <= Cardinality(Holders) + timeouts
  <2>1. IsFiniteSet(Holders)
    BY QueueType, FS_Subset DEF Holders
  <2> QED  BY <2>1, FS_CardinalityType DEF IInv, Types, CounterIsRight
<1>2. \A f \in Event \ {e} : sender'[f].conn = sender[f].conn
  BY OthersStay DEF Moves
<1>3. timeouts' = timeouts
  BY DEF Moves, CounterMoves
<1>4. CASE sender[e].conn = NoConn /\ sender'[e].conn # NoConn
  <2>1. e \notin Holders /\ Holders' = Holders \cup {e}
    BY <1>2, <1>4 DEF Holders
  <2>2. Cardinality(Holders') = Cardinality(Holders) + 1
    BY <1>1, <2>1, FS_AddElement
  <2>3. total' = total + 1
    BY <1>4 DEF Moves, CounterMoves
  <2> QED  BY <1>1, <1>3, <2>2, <2>3 DEF CounterIsRight
<1>5. CASE sender[e].conn # NoConn /\ sender'[e].conn = NoConn
  <2>1. e \in Holders /\ Holders' = Holders \ {e}
    BY <1>2, <1>5 DEF Holders
  <2>2. Cardinality(Holders') = Cardinality(Holders) - 1
    BY <1>1, <2>1, FS_RemoveElement
  <2>3. total' = total - 1
    BY <1>5 DEF Moves, CounterMoves
  <2> QED  BY <1>1, <1>3, <2>2, <2>3 DEF CounterIsRight
<1>6. CASE (sender[e].conn = NoConn) <=> (sender'[e].conn = NoConn)
  <2>1. Holders' = Holders
    BY <1>2, <1>6 DEF Holders
  <2>2. total' = total
    BY <1>6 DEF Moves, CounterMoves
  <2> QED  BY <1>1, <1>3, <2>1, <2>2 DEF CounterIsRight
<1> QED  BY <1>4, <1>5, <1>6

(* No event is dropped, and none is stored twice: what the greenlet has    *)
(* next was in the list or in its hands before, or is its own event, which *)
(* nobody had.                                                             *)
LEMMA EventsKept ==
  ASSUME IInv, NEW e \in Event, Moves(e)
  PROVE  StoredAreDone' /\ OutagesLoseNothing' /\ UnsentIsOnce'
<1>1. /\ delivered \subseteq delivered'
      /\ unsentEvents \cup InHands(e) \subseteq unsentEvents' \cup InHands(e)' \cup delivered'
      /\ unsentEvents' \cup InHands(e)' \subseteq unsentEvents \cup InHands(e) \cup {e}
      /\ e \in unsentEvents' \cup InHands(e)' =>
           sender'[e].pc = "done" \/ e \in unsentEvents \cup InHands(e)
      /\ unsentEvents' \cap InHands(e)' \subseteq unsentEvents \cap InHands(e)
      /\ sender'[e].pc = "done" \/ sender'[e].flushing =>
           sender[e].flushing \/ e \in delivered' \cup unsentEvents'
  BY DEF Moves, EventsMove
<1>2. \A f \in Event \ {e} : sender'[f] = sender[f] /\ InHands(f)' = InHands(f)
  BY OthersStay DEF Moves
<1>3. /\ sender[e].pc \notin {"done", "killed"}
      /\ timeouts' = timeouts
  BY DEF Moves, RecordMoves, CounterMoves
<1>4. e \notin unsentEvents /\ \A f \in Event : e \notin InHands(f)
  BY <1>3 DEF IInv, StoredAreDone
<1>5. StoredAreDone'
  <2>1. ASSUME NEW m \in Event, m \in unsentEvents'
        PROVE  sender'[m].pc = "done"
    BY <1>1, <1>2, <1>4, <2>1 DEF IInv, StoredAreDone
  <2>2. ASSUME NEW m \in Event, NEW f \in Event, m \in InHands(f)'
        PROVE  sender'[m].pc = "done"
    <3>1. CASE f = e
      BY <1>1, <1>2, <1>4, <2>2, <3>1 DEF IInv, StoredAreDone
    <3>2. CASE f # e
      BY <1>2, <1>4, <2>2, <3>2 DEF IInv, StoredAreDone
    <3> QED  BY <3>1, <3>2
  <2> QED  BY <2>1, <2>2 DEF StoredAreDone
<1>6. UnsentIsOnce'
  <2>1. InHands(e)' \cap unsentEvents' = {}
    BY <1>1, <1>4 DEF IInv, UnsentIsOnce
  <2>2. ASSUME NEW f \in Event \ {e}
        PROVE  /\ InHands(f)' \cap unsentEvents' = {}
               /\ InHands(f)' \cap InHands(e)' = {}
    BY <1>1, <1>2, <1>4 DEF IInv, UnsentIsOnce
  <2>3. ASSUME NEW f \in Event \ {e}, NEW g \in Event \ {e, f}
        PROVE  InHands(f)' \cap InHands(g)' = {}
    BY <1>2 DEF IInv, UnsentIsOnce
  <2> QED  BY <2>1, <2>2, <2>3 DEF UnsentIsOnce
<1>7. OutagesLoseNothing'
  <2>1. SUFFICES ASSUME timeouts = 0, NEW m \in Event,
                        sender'[m].pc = "done" \/ sender'[m].flushing
                 PROVE  \/ m \in delivered' \cup unsentEvents'
                        \/ \E f \in Event : m \in InHands(f)'
    BY <1>3 DEF OutagesLoseNothing, NoEventLost
  <2>2. CASE m = e /\ e \in delivered' \cup unsentEvents'
    BY <2>2
  <2>3. CASE m # e \/ e \notin delivered' \cup unsentEvents'
    <3>1. \/ m \in delivered \cup unsentEvents
          \/ \E f \in Event : m \in InHands(f)
      BY <1>1, <1>2, <2>1, <2>3 DEF IInv, OutagesLoseNothing, NoEventLost
    <3>2. CASE m \in delivered \cup unsentEvents \cup InHands(e)
      BY <1>1, <3>2
    <3>3. CASE \E f \in Event \ {e} : m \in InHands(f)
      BY <1>2, <3>3
    <3> QED  BY <3>1, <3>2, <3>3
  <2> QED  BY <2>2, <2>3
<1> QED  BY <1>5, <1>6, <1>7

-----------------------------------------------------------------------------
(* The invariant holds at first.                                           *)
LEMMA InitIInv == Init => IInv
<1> SUFFICES ASSUME Init PROVE IInv
  OBVIOUS
<1>1. \A e \in Event : sender[e] = [pc |-> "idle", conn |-> NoConn, msg |-> e,
                                    flushing |-> FALSE, todo |-> {}]
  BY DEF Init, Idle
<1>2. Types
  <2>1. sender \in [Event -> Senders]
    BY <1>1 DEF Init, Senders, Idle
  <2>2. ASSUME NEW e \in Event PROVE Formed(sender[e])
    <3>1. sender[e].conn = NoConn /\ sender[e].pc = "idle" /\ sender[e].flushing = FALSE
      BY DEF Init, Idle
    <3> QED  BY <3>1 DEF Formed
  <2> QED  BY <2>1, <2>2, QueueType DEF Init, Types
<1>3. \A e \in Event : InHands(e) = {} /\ sender[e].conn = NoConn
                       /\ sender[e].pc = "idle" /\ ~sender[e].flushing
  <2>1. ASSUME NEW e \in Event
        PROVE  sender[e].conn = NoConn /\ sender[e].pc = "idle" /\ sender[e].flushing = FALSE
    BY DEF Init, Idle
  <2> QED  BY <2>1 DEF InHands
<1>4. CounterIsRight
  <2>1. Holders = {}
    BY <1>3 DEF Holders
  <2> QED  BY <2>1, FS_EmptySet DEF Init, CounterIsRight
<1>5. ConnectionIsExclusive /\ StoredAreDone /\ OutagesLoseNothing /\ UnsentIsOnce
  BY <1>3 DEF Init, ConnectionIsExclusive, StoredAreDone, OutagesLoseNothing,
              NoEventLost, UnsentIsOnce
<1> QED  BY <1>2, <1>4, <1>5 DEF IInv

(* The messages being published are events.                                *)
LEMMA BrokerKept ==
  ASSUME IInv, Next
  PROVE  BrokerTyped'
<1>1. /\ sender \in [Event -> Senders]
      /\ \A e \in Event : sender[e].msg \in Event /\ sender[e].conn \in Conn \cup {NoConn}
      /\ BrokerTyped
  BY DEF IInv, Types, BrokerTyped, Senders
<1>2. ASSUME NEW e \in Event, SendEvent(e) \/ PublishFails(e) \/ EventNotPublished(e)
                              \/ UnsentNotPublished(e) \/ TimeOut(e)
      PROVE  BrokerTyped'
  BY <1>1, <1>2 DEF BrokerTyped, SendEvent, PublishFails, EventNotPublished,
                    UnsentNotPublished, TimeOut
<1>3. ASSUME NEW e \in Event, Connect(e) PROVE BrokerTyped'
  BY <1>1, <1>3 DEF BrokerTyped, Connect
<1>4. ASSUME NEW e \in Event, EventPublished(e) PROVE BrokerTyped'
  BY <1>1, <1>4 DEF BrokerTyped, EventPublished
<1>5. ASSUME NEW e \in Event, UnsentPublished(e) PROVE BrokerTyped'
  BY <1>1, <1>5 DEF BrokerTyped, UnsentPublished
<1>6. ASSUME NEW e \in Event, Reconnect(e) PROVE BrokerTyped'
  <2>1. sender[e].conn # NoConn
    BY <1>6 DEF IInv, Types, Formed, Reconnect
  <2> QED  BY <1>1, <1>6, <2>1 DEF BrokerTyped, Reconnect
<1>7. CASE BrokerGoesDown
  <2>1. PICK arrived \in SUBSET {e \in Event : Publishing(e) /\ sender[e].conn \in open} :
             delivered' = delivered \cup {sender[e].msg : e \in arrived}
    BY <1>7 DEF BrokerGoesDown
  <2>2. delivered' \in SUBSET Event
    BY <1>1, <2>1 DEF BrokerTyped
  <2>3. outages' \in 0 .. MaxOutages
    BY <1>1, <1>7, QueueType DEF BrokerTyped, BrokerGoesDown
  <2>4. open' = {} /\ brokerUp' = FALSE
    BY <1>7 DEF BrokerGoesDown
  <2> QED  BY <2>2, <2>3, <2>4 DEF BrokerTyped
<1>8. CASE BrokerComesUp
  BY <1>1, <1>8 DEF BrokerTyped, BrokerComesUp
<1> QED  BY <1>2, <1>3, <1>4, <1>5, <1>6, <1>7, <1>8 DEF Next, Publish

(* A timer takes the connection of a greenlet with it, and what it had yet *)
(* to publish: the counter is too high by one more.                        *)
LEMMA TimeOutKeeps ==
  ASSUME IInv, NEW e \in Event, TimeOut(e), BrokerTyped'
  PROVE  IInv'
<1> DEFINE k == [Idle(e) EXCEPT !.pc = "killed"]
<1>1. /\ sender[e].pc \in {"connect", "publish", "reconnect", "republish"}
      /\ timeouts < MaxTimeouts
      /\ timeouts' = timeouts + 1
      /\ sender' = [sender EXCEPT ![e] = k]
      /\ UNCHANGED <<pool, total, unsentEvents, delivered>>
  BY DEF TimeOut
<1>2. /\ sender \in [Event -> Senders] /\ \A f \in Event : Formed(sender[f])
      /\ timeouts \in Nat /\ MaxTimeouts \in Nat /\ total \in Int
  BY QueueType DEF IInv, Types
<1>3. k \in Senders /\ Formed(k) /\ ~k.flushing /\ k.conn = NoConn /\ k.pc = "killed"
  BY KilledTyped DEF Idle
<1> HIDE DEF k
<1>4. /\ sender'[e] = k
      /\ \A f \in Event \ {e} : sender'[f] = sender[f]
      /\ sender' \in [Event -> Senders]
  BY <1>1, <1>2, <1>3
<1>5. /\ InHands(e)' = {}
      /\ \A f \in Event \ {e} : InHands(f)' = InHands(f)
  BY <1>3, <1>4 DEF InHands
<1>6. Types'
  <2>1. \A f \in Event : Formed(sender[f])'
    BY <1>2, <1>3, <1>4
  <2> QED  BY <1>1, <1>2, <1>4, <2>1 DEF IInv, Types, BrokerTyped
<1>7. ConnectionIsExclusive'
  BY <1>1, <1>3, <1>4 DEF IInv, ConnectionIsExclusive
<1>8. CounterIsRight'
  <2>1. IsFiniteSet(Holders) /\ Cardinality(Holders) \in Nat
    BY QueueType, FS_Subset, FS_CardinalityType DEF Holders
  <2>2. Holders' = Holders \ {e}
    BY <1>3, <1>4 DEF Holders
  <2>3. Cardinality(Holders') \in Nat /\ Cardinality(Holders') <= Cardinality(Holders)
        /\ Cardinality(Holders) - 1 <= Cardinality(Holders')
    <3>1. Cardinality(Holders \ {e}) = IF e \in Holders THEN Cardinality(Holders) - 1
                                       ELSE Cardinality(Holders)
      BY <2>1, FS_RemoveElement
    <3>2. e \in Holders => Cardinality(Holders) # 0
      BY <2>1, FS_EmptySet
    <3> QED  BY <2>1, <2>2, <3>1, <3>2
  <2> QED  BY <1>1, <1>2, <2>1, <2>3 DEF IInv, CounterIsRight
<1>9. StoredAreDone'
  BY <1>1, <1>3, <1>4, <1>5 DEF IInv, StoredAreDone
<1>10. OutagesLoseNothing'
  BY <1>1, <1>2 DEF OutagesLoseNothing
<1>11. UnsentIsOnce'
  BY <1>1, <1>5 DEF IInv, UnsentIsOnce
<1> QED  BY <1>6, <1>7, <1>8, <1>9, <1>10, <1>11 DEF IInv

(* The broker changes nothing of the queue: it may have more than it had.  *)
LEMMA BrokerKeeps ==
  ASSUME IInv, BrokerTyped', delivered \subseteq delivered',
         UNCHANGED <<sender, pool, total, unsentEvents, timeouts>>
  PROVE  IInv'
<1>1. Types' /\ ConnectionIsExclusive'
  BY DEF IInv, Types, ConnectionIsExclusive, BrokerTyped
<1>2. /\ Holders' = Holders
      /\ \A f \in Event : InHands(f)' = InHands(f)
  BY DEF Holders, InHands
<1>3. CounterIsRight'
  BY <1>2 DEF IInv, CounterIsRight
<1>4. StoredAreDone' /\ UnsentIsOnce'
  BY <1>2 DEF IInv, StoredAreDone, UnsentIsOnce
<1>5. OutagesLoseNothing'
  BY <1>2 DEF IInv, OutagesLoseNothing, NoEventLost
<1> QED  BY <1>1, <1>3, <1>4, <1>5 DEF IInv

(* Every step keeps the invariant.                                         *)
LEMMA NextIInv == IInv /\ [Next]_vars => IInv'
<1> SUFFICES ASSUME IInv, [Next]_vars PROVE IInv'
  OBVIOUS
<1>1. CASE Next
  <2>1. BrokerTyped'
    BY <1>1, BrokerKept
  <2>2. ASSUME NEW e \in Event, Moves(e) PROVE IInv'
    BY <2>1, <2>2, TypesKept, ConnectionsKept, CounterKept, EventsKept DEF IInv
  <2>3. ASSUME NEW e \in Event, SendEvent(e) PROVE IInv'
    BY <2>2, <2>3, SendEventMoves
  <2>4. ASSUME NEW e \in Event, Connect(e) PROVE IInv'
    BY <2>2, <2>4, ConnectMoves
  <2>5. ASSUME NEW e \in Event, EventPublished(e) PROVE IInv'
    BY <2>2, <2>5, EventPublishedMoves
  <2>6. ASSUME NEW e \in Event, EventNotPublished(e) PROVE IInv'
    BY <2>2, <2>6, EventNotPublishedMoves
  <2>7. ASSUME NEW e \in Event, PublishFails(e) PROVE IInv'
    BY <2>2, <2>7, PublishFailsMoves
  <2>8. ASSUME NEW e \in Event, UnsentPublished(e) PROVE IInv'
    BY <2>2, <2>8, UnsentPublishedMoves
  <2>9. ASSUME NEW e \in Event, UnsentNotPublished(e) PROVE IInv'
    BY <2>2, <2>9, UnsentNotPublishedMoves
  <2>10. ASSUME NEW e \in Event, Reconnect(e) PROVE IInv'
    BY <2>2, <2>10, ReconnectMoves
  <2>11. ASSUME NEW e \in Event, TimeOut(e) PROVE IInv'
    BY <2>1, <2>11, TimeOutKeeps
  <2>12. CASE BrokerGoesDown
    BY <2>1, <2>12, BrokerKeeps DEF BrokerGoesDown
  <2>13. CASE BrokerComesUp
    BY <2>1, <2>13, BrokerKeeps DEF BrokerComesUp
  <2> QED  BY <1>1, <2>3, <2>4, <2>5, <2>6, <2>7, <2>8, <2>9, <2>10, <2>11, <2>12, <2>13
           DEF Next, Publish
<1>2. CASE UNCHANGED vars
  <2>1. BrokerTyped'
    BY <1>2 DEF IInv, Types, BrokerTyped, vars
  <2> QED  BY <1>2, <2>1, BrokerKeeps DEF vars
<1> QED  BY <1>1, <1>2

(* Invariance of IInv.                                                     *)
LEMMA SpecIInv == Spec => []IInv
BY InitIInv, NextIInv, PTL DEF Spec

(* The number of connections counted is at least that of those in use.     *)
LEMMA CounterIsNat == IInv => total \in Nat
<1> SUFFICES ASSUME IInv PROVE total \in Nat
  OBVIOUS
<1>1. Cardinality(Holders) \in Nat
  BY QueueType, FS_Subset, FS_CardinalityType DEF Holders
<1> QED  BY <1>1 DEF IInv, Types, CounterIsRight

(* Types: the counter never gets below zero, and a greenlet has a          *)
(* connection exactly between get_connection and its release.              *)
THEOREM TypeCorrect == Spec => []TypeOK
<1>1. IInv => TypeOK
  BY CounterIsNat DEF IInv, Types, TypeOK, Formed
<1> QED  BY <1>1, SpecIInv, PTL

(* A connection is never in two hands, nor in one and in the pool.         *)
THEOREM ConnectionsAreExclusive == Spec => []ConnectionIsExclusive
<1>1. IInv => ConnectionIsExclusive
  BY DEF IInv
<1> QED  BY <1>1, SpecIInv, PTL

(* _total_connections is right but for the greenlets ended by a timer.     *)
THEOREM CounterIsBounded == Spec => []CounterIsRight
<1>1. IInv => CounterIsRight
  BY DEF IInv
<1> QED  BY <1>1, SpecIInv, PTL

(* However often the broker goes away, no event of a returned call is lost *)
(* as long as no timer ends a greenlet.                                    *)
THEOREM EventsAreKept == Spec => []OutagesLoseNothing
<1>1. IInv => OutagesLoseNothing
  BY DEF IInv
<1> QED  BY <1>1, SpecIInv, PTL

(* An unsent event is in the list or with one greenlet, not with two.      *)
THEOREM UnsentHasOneOwner == Spec => []UnsentIsOnce
<1>1. IInv => UnsentIsOnce
  BY DEF IInv
<1> QED  BY <1>1, SpecIInv, PTL
=============================================================================
