----------------------------- MODULE EventQueue -----------------------------
(***************************************************************************)
(* Sending of events to RabbitMQ from one process                          *)
(* (events/services/queue_service.py).  Every send_event runs in a         *)
(* greenlet of its own; they share the pool of connections, their number   *)
(* and the list of unsent events.  A greenlet gives way when it connects   *)
(* and when it publishes (the broker confirms), and nowhere else: a step   *)
(* goes from one such call to the next.                                    *)
(*                                                                         *)
(* Pool and lists are sets, no property is about their order.  An event    *)
(* the broker has more than once (publish tries again when it does not     *)
(* know) is one that it has.                                               *)
(***************************************************************************)
EXTENDS Integers, FiniteSets

CONSTANTS
  Event,      \* the events, each the payload of one send_event
  Conn,       \* BrokerConnection objects
  NoConn,
  Limit,      \* EVENTS_QUEUE_POOL_CONNECTIONS_LIMIT, 0 for none
  MaxOutages, \* bound on the times the broker goes down
  MaxTimeouts \* bound on the greenlets ended by the timer of their task

ASSUME QueueType ==
  /\ IsFiniteSet(Event)
  /\ NoConn \notin Conn
  /\ Limit \in Nat /\ MaxOutages \in Nat /\ MaxTimeouts \in Nat

VARIABLES
  sender,       \* the greenlet of an event
  pool,         \* _connection_pool
  total,        \* _total_connections
  unsentEvents, \* unsent_events
  open,         \* connections whose channel works
  brokerUp,
  delivered,    \* events the broker has
  outages,
  timeouts

vars == <<sender, pool, total, unsentEvents, open, brokerUp, delivered,
          outages, timeouts>>

(* msg is the message being published: the event itself, then, one after   *)
(* the other, those of todo.                                               *)
Idle(e) == [pc |-> "idle", conn |-> NoConn, msg |-> e, flushing |-> FALSE,
            todo |-> {}]
Done(e) == [Idle(e) EXCEPT !.pc = "done"]

Init ==
  /\ sender = [e \in Event |-> Idle(e)]
  /\ pool = {}
  /\ total = 0
  /\ unsentEvents = {}
  /\ open = {}
  /\ brokerUp = TRUE
  /\ delivered = {}
  /\ outages = 0
  /\ timeouts = 0

Held == {sender[e].conn : e \in Event} \ {NoConn}

LimitReached(n) == Limit # 0 /\ n >= Limit

-----------------------------------------------------------------------------
(* Mutation of SendEvent: the connection stays in the pool.                *)
SendSharingConnection(e) ==
  /\ sender[e].pc = "idle"
  /\ \/ /\ LimitReached(total)
        /\ unsentEvents' = unsentEvents \cup {e}
        /\ sender' = [sender EXCEPT ![e] = Done(e)]
        /\ UNCHANGED <<pool, total>>
     \/ /\ ~LimitReached(total) /\ pool = {}
        /\ sender' = [sender EXCEPT ![e].pc = "connect"]
        /\ UNCHANGED <<pool, total, unsentEvents>>
     \/ /\ ~LimitReached(total)
        /\ \E c \in pool :
             sender' = [sender EXCEPT ![e].pc = "publish", ![e].conn = c]
        /\ total' = total + 1
        /\ UNCHANGED <<pool, unsentEvents>>
  /\ UNCHANGED <<open, brokerUp, delivered, outages, timeouts>>

(* send_event up to get_connection: no connection and the event is stored, *)
(* one from the pool, or a new one, made below.                            *)
SendEvent(e) ==
  /\ sender[e].pc = "idle"
  /\ \/ /\ LimitReached(total)
        /\ unsentEvents' = unsentEvents \cup {e}
        /\ sender' = [sender EXCEPT ![e] = Done(e)]
        /\ UNCHANGED <<pool, total>>
     \/ /\ ~LimitReached(total) /\ pool = {}
        /\ sender' = [sender EXCEPT ![e].pc = "connect"]
        /\ UNCHANGED <<pool, total, unsentEvents>>
     \/ /\ ~LimitReached(total)
        /\ \E c \in pool :
             /\ sender' = [sender EXCEPT ![e].pc = "publish", ![e].conn = c]
             /\ pool' = pool \ {c}
        /\ total' = total + 1
        /\ UNCHANGED unsentEvents
  /\ UNCHANGED <<open, brokerUp, delivered, outages, timeouts>>

(* Mutation of Connect: a new connection is not counted.                   *)
ConnectUncounted(e) ==
  /\ sender[e].pc = "connect"
  /\ \/ /\ brokerUp
        /\ \E c \in Conn \ (pool \cup Held) :
             /\ sender' = [sender EXCEPT ![e].pc = "publish", ![e].conn = c]
             /\ open' = open \cup {c}
        /\ UNCHANGED <<total, unsentEvents>>
     \/ /\ ~brokerUp
        /\ unsentEvents' = unsentEvents \cup {e}
        /\ sender' = [sender EXCEPT ![e] = Done(e)]
        /\ UNCHANGED <<total, open>>
  /\ UNCHANGED <<pool, brokerUp, delivered, outages, timeouts>>

(* BrokerConnection(), and the rest of get_connection: the connection is   *)
(* counted if it has a channel.                                            *)
Connect(e) ==
  /\ sender[e].pc = "connect"
  /\ \/ /\ brokerUp
        /\ \E c \in Conn \ (pool \cup Held) :
             /\ sender' = [sender EXCEPT ![e].pc = "publish", ![e].conn = c]
             /\ open' = open \cup {c}
        /\ total' = total + 1
        /\ UNCHANGED unsentEvents
     \/ /\ ~brokerUp
        /\ unsentEvents' = unsentEvents \cup {e}
        /\ sender' = [sender EXCEPT ![e] = Done(e)]
        /\ UNCHANGED <<total, open>>
  /\ UNCHANGED <<pool, brokerUp, delivered, outages, timeouts>>

Publishing(e) == sender[e].pc \in {"publish", "republish"}

(* Mutation of EventPublished: the list is read, and cleared after.        *)
EventPublishedSharingList(e) ==
  /\ Publishing(e) /\ ~sender[e].flushing
  /\ sender[e].conn \in open
  /\ delivered' = delivered \cup {e}
  /\ \/ /\ unsentEvents = {} \/ LimitReached(total - 1)
        /\ sender' = [sender EXCEPT ![e] = Done(e)]
        /\ pool' = pool \cup {sender[e].conn}
        /\ total' = total - 1
        /\ UNCHANGED unsentEvents
     \/ /\ unsentEvents # {} /\ ~LimitReached(total - 1)
        /\ \E c \in pool \cup {sender[e].conn}, m \in unsentEvents :
             /\ sender' = [sender EXCEPT ![e] =
                  [pc |-> "publish", conn |-> c, msg |-> m, flushing |-> TRUE,
                   todo |-> unsentEvents \ {m}]]
             /\ pool' = (pool \cup {sender[e].conn}) \ {c}
        /\ UNCHANGED <<unsentEvents, total>>
  /\ UNCHANGED <<open, brokerUp, outages, timeouts>>

(* send_event after a publish: the connection is released, and             *)
(* send_unsent_events takes one again, unless the others hold too many,    *)
(* and the list as it is.                                                  *)
EventPublished(e) ==
  /\ Publishing(e) /\ ~sender[e].flushing
  /\ sender[e].conn \in open
  /\ delivered' = delivered \cup {e}
  /\ \/ /\ unsentEvents = {} \/ LimitReached(total - 1)
        /\ sender' = [sender EXCEPT ![e] = Done(e)]
        /\ pool' = pool \cup {sender[e].conn}
        /\ total' = total - 1
        /\ UNCHANGED unsentEvents
     \/ /\ unsentEvents # {} /\ ~LimitReached(total - 1)
        /\ \E c \in pool \cup {sender[e].conn}, m \in unsentEvents :
             /\ sender' = [sender EXCEPT ![e] =
                  [pc |-> "publish", conn |-> c, msg |-> m, flushing |-> TRUE,
                   todo |-> unsentEvents \ {m}]]
             /\ pool' = (pool \cup {sender[e].conn}) \ {c}
        /\ unsentEvents' = {}
        /\ UNCHANGED total
  /\ UNCHANGED <<open, brokerUp, outages, timeouts>>

(* publish: an AMQPError, and one more chance after connecting again.      *)
PublishFails(e) ==
  /\ sender[e].pc = "publish"
  /\ sender[e].conn \notin open
  /\ sender' = [sender EXCEPT ![e].pc = "reconnect"]
  /\ UNCHANGED <<pool, total, unsentEvents, open, brokerUp, delivered, outages,
                 timeouts>>

(* connect: whatever comes of it, publish tries again.                     *)
Reconnect(e) ==
  /\ sender[e].pc = "reconnect"
  /\ sender' = [sender EXCEPT ![e].pc = "republish"]
  /\ open' = IF brokerUp THEN open \cup {sender[e].conn} ELSE open
  /\ UNCHANGED <<pool, total, unsentEvents, brokerUp, delivered, outages, timeouts>>

(* Mutation of EventNotPublished: the connection is not released.          *)
EventNotPublishedKeepingCount(e) ==
  /\ sender[e].pc = "republish" /\ ~sender[e].flushing
  /\ sender[e].conn \notin open
  /\ unsentEvents' = unsentEvents \cup {e}
  /\ sender' = [sender EXCEPT ![e] = Done(e)]
  /\ UNCHANGED <<total, pool, open, brokerUp, delivered, outages, timeouts>>

(* send_event after a publish in vain: the event is stored, the connection *)
(* dropped.                                                                *)
EventNotPublished(e) ==
  /\ sender[e].pc = "republish" /\ ~sender[e].flushing
  /\ sender[e].conn \notin open
  /\ unsentEvents' = unsentEvents \cup {e}
  /\ total' = total - 1
  /\ sender' = [sender EXCEPT ![e] = Done(e)]
  /\ UNCHANGED <<pool, open, brokerUp, delivered, outages, timeouts>>

(* send_unsent_events: the next message, or the end, when the connection   *)
(* goes back to the pool.                                                  *)
NextUnsent(e) ==
  \/ /\ sender[e].todo = {}
     /\ sender' = [sender EXCEPT ![e] = Done(e)]
     /\ pool' = pool \cup {sender[e].conn}
     /\ total' = total - 1
  \/ /\ \E m \in sender[e].todo :
          sender' = [sender EXCEPT ![e].pc = "publish", ![e].msg = m,
                                   ![e].todo = @ \ {m}]
     /\ UNCHANGED <<pool, total>>

UnsentPublished(e) ==
  /\ Publishing(e) /\ sender[e].flushing
  /\ sender[e].conn \in open
  /\ delivered' = delivered \cup {sender[e].msg}
  /\ NextUnsent(e)
  /\ UNCHANGED <<unsentEvents, open, brokerUp, outages, timeouts>>

(* Mutation of UnsentNotPublished: the message is not put back.            *)
UnsentDropped(e) ==
  /\ sender[e].pc = "republish" /\ sender[e].flushing
  /\ sender[e].conn \notin open
  /\ NextUnsent(e)
  /\ UNCHANGED <<unsentEvents, open, brokerUp, delivered, outages, timeouts>>

UnsentNotPublished(e) ==
  /\ sender[e].pc = "republish" /\ sender[e].flushing
  /\ sender[e].conn \notin open
  /\ unsentEvents' = unsentEvents \cup {sender[e].msg}
  /\ NextUnsent(e)
  /\ UNCHANGED <<open, brokerUp, delivered, outages, timeouts>>

(* The timer of the task (gevent.Timeout) ends a greenlet that waits: no   *)
(* handler releases the connection or stores the messages.                 *)
TimeOut(e) ==
  /\ sender[e].pc \in {"connect", "publish", "reconnect", "republish"}
  /\ timeouts < MaxTimeouts
  /\ timeouts' = timeouts + 1
  /\ sender' = [sender EXCEPT ![e] = [Idle(e) EXCEPT !.pc = "killed"]]
  /\ UNCHANGED <<pool, total, unsentEvents, open, brokerUp, delivered, outages>>

(* The broker goes away with all its connections; what was being published *)
(* may have arrived.                                                       *)
BrokerGoesDown ==
  /\ brokerUp
  /\ outages < MaxOutages
  /\ outages' = outages + 1
  /\ brokerUp' = FALSE
  /\ open' = {}
  /\ \E arrived \in SUBSET {e \in Event : Publishing(e) /\ sender[e].conn \in open} :
       delivered' = delivered \cup {sender[e].msg : e \in arrived}
  /\ UNCHANGED <<sender, pool, total, unsentEvents, timeouts>>

BrokerComesUp ==
  /\ ~brokerUp
  /\ brokerUp' = TRUE
  /\ UNCHANGED <<sender, pool, total, unsentEvents, open, delivered, outages,
                 timeouts>>

Publish(e) ==
  \/ EventPublished(e) \/ EventNotPublished(e) \/ PublishFails(e)
  \/ UnsentPublished(e) \/ UnsentNotPublished(e)

Next ==
  \/ \E e \in Event : \/ SendEvent(e) \/ Connect(e) \/ Publish(e)
                      \/ Reconnect(e) \/ TimeOut(e)
  \/ BrokerGoesDown
  \/ BrokerComesUp

Spec == Init /\ [][Next]_vars

-----------------------------------------------------------------------------
Senders ==
  [pc : {"idle", "connect", "publish", "reconnect", "republish", "done", "killed"},
   conn : Conn \cup {NoConn}, msg : Event, flushing : BOOLEAN,
   todo : SUBSET Event]

TypeOK ==
  /\ sender \in [Event -> Senders]
  /\ pool \in SUBSET Conn
  /\ total \in Nat
  /\ unsentEvents \in SUBSET Event
  /\ open \in SUBSET Conn
  /\ brokerUp \in BOOLEAN
  /\ delivered \in SUBSET Event
  /\ outages \in 0 .. MaxOutages
  /\ timeouts \in 0 .. MaxTimeouts
  /\ \A e \in Event : (sender[e].conn = NoConn) <=>
                      (sender[e].pc \in {"idle", "connect", "done", "killed"})

(* A pika connection is for one greenlet at a time: none is in two hands,  *)
(* nor in one and in the pool.                                             *)
ConnectionIsExclusive ==
  \A e \in Event : sender[e].conn # NoConn =>
    /\ sender[e].conn \notin pool
    /\ \A f \in Event \ {e} : sender[f].conn # sender[e].conn

Holders == {e \in Event : sender[e].conn # NoConn}

(* _total_connections is the number of connections in use, and too high by *)
(* one at most for every greenlet its timer ended.                         *)
CounterIsRight ==
  /\ Cardinality(Holders) <= total
  /\ total <= Cardinality(Holders) + timeouts

(* What a greenlet has yet to publish for others.                          *)
InHands(e) ==
  IF sender[e].flushing THEN sender[e].todo \cup {sender[e].msg} ELSE {}

(* send_event, "store event to send it later": an event whose call has     *)
(* returned is with the broker, in the list, or in the hands of a greenlet.*)
NoEventLost ==
  \A e \in Event : sender[e].pc = "done" \/ sender[e].flushing =>
    \/ e \in delivered \cup unsentEvents
    \/ \E f \in Event : e \in InHands(f)

(* The same as long as no timer ends a greenlet: outages lose nothing.     *)
OutagesLoseNothing == timeouts = 0 => NoEventLost

(* send_unsent_events, "Avoid race conditions": no unsent event is with    *)
(* two greenlets, or with one and in the list.                             *)
UnsentIsOnce ==
  \A e \in Event :
    /\ InHands(e) \cap unsentEvents = {}
    /\ \A f \in Event \ {e} : InHands(e) \cap InHands(f) = {}

(* get_connection, "Number of active connections reached the pool limit":  *)
(* no more connections in use than the limit.                              *)
LimitIsKept == Limit # 0 => Cardinality(Held) <= Limit

(* "Everything should be sent by send_event": with the broker up all the   *)
(* time no event stays behind when the last call has returned.             *)
NothingLeftBehind ==
  outages = 0 /\ (\A e \in Event : sender[e].pc = "done") => unsentEvents = {}

(* release_connection, "Don't add broken connections to the pool".         *)
BrokenAreDropped == [][\A c \in pool' \ pool : c \in open']_vars
=============================================================================
