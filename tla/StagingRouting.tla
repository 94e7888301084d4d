--------------------------- MODULE StagingRouting ---------------------------
(***************************************************************************)
(* The normalization service for one user: the consumer that routes every  *)
(* normalized event either to the normalized_transactions topic or, while  *)
(* the user is locked for reprocessing, to the staging table, and the      *)
(* drain tasks that publish the staged rows once the lock is released.     *)
(* The reprocess job appears only as whoever takes and releases the lock   *)
(* row.  Consumer and drain share one process and have a producer each.    *)
(***************************************************************************)
EXTENDS Naturals, Sequences, FiniteSets, Functions, FiniteSetsExt

CONSTANTS
    N,              \* raw events of the user, 1 .. N in partition order
    NotifyTasks,    \* tasks that run drain_for_user on behalf of a NOTIFY
    Sweep,          \* the task that runs the periodic sweep
    MaxLocks,       \* bound: how often a reprocess job takes the lock row
    MaxFaults       \* bound: crashes of the service, and statements, deliveries
                    \* and connections that fail

ASSUME ConstantsAssumption ==
    /\ {N, MaxLocks, MaxFaults} \subseteq Nat
    /\ Sweep \notin NotifyTasks

VARIABLES
    next,       \* the event at the committed offset of the raw topic
    cons,       \* the consumer: polling, locked or open (lock_exists answered), routed
    staged,     \* rows of staging_normalized_transactions
    nextRow,    \* created_at of the next staged row
    drain,      \* where each drain task is
    todo,       \* the rows each drain task selected and has not deleted yet
    nbuf, dbuf, \* the producer queues of the consumer and of the drain
    topic,      \* everything the broker accepted
    lockRow,    \* the reprocessing_locks row exists
    listening,  \* the LISTEN connection is up
    notified,   \* a NOTIFY is waiting to be read from the connection
    lost,       \* history: events the service gave up, with the reason
    used        \* how much of each bound has been spent

consumerVars == <<next, cons, nbuf>>
drainVars    == <<drain, todo, dbuf>>
tableVars    == <<staged, nextRow>>
listenVars   == <<listening, notified>>
vars == <<consumerVars, drainVars, tableVars, listenVars, topic, lockRow, lost, used>>

Events == 1 .. N
Tasks  == NotifyTasks \cup {Sweep}

\* A message remembers the staged row it came from; row 0 is none.
Message == [row : Nat, event : Events]
Direct(e) == [row |-> 0, event |-> e]

Bound == [locks |-> MaxLocks, faults |-> MaxFaults]

Spend(kind) ==
    /\ used[kind] < Bound[kind]
    /\ used' = [used EXCEPT ![kind] = @ + 1]

EventsIn(messages) == {m.event : m \in messages}
Queued == Range(nbuf) \cup Range(dbuf)

\* Types of the topic, the staging table and the queues.
TypeOK ==
    /\ next \in 1 .. N + 1
    /\ cons \in {"polling", "locked", "open", "routed"}
    /\ staged \subseteq Message
    /\ nextRow \in Nat
    /\ drain \in [Tasks -> {"idle", "due", "publishing", "deleting"}]
    /\ todo \in [Tasks -> Seq(Message)]
    /\ nbuf \in Seq(Message) /\ dbuf \in Seq(Message) /\ topic \in Seq(Message)
    /\ lockRow \in BOOLEAN /\ listening \in BOOLEAN /\ notified \in BOOLEAN
    /\ lost \subseteq Events \X {"skipped", "undelivered", "crashed"}
    /\ used \in [{"locks", "faults"} -> Nat]

Init ==
    /\ next = 1
    /\ cons = "polling"
    /\ staged = {}
    /\ nextRow = 1
    /\ drain = [t \in Tasks |-> "idle"]
    /\ todo = [t \in Tasks |-> <<>>]
    /\ nbuf = <<>>
    /\ dbuf = <<>>
    /\ topic = <<>>
    /\ lockRow \in BOOLEAN
    /\ listening = FALSE
    /\ notified = FALSE
    /\ lost = {}
    /\ used = [kind \in {"locks", "faults"} |-> 0]

-----------------------------------------------------------------------------
(* The consumer: run_normalization_consumer and _route.                    *)

\* SELECT EXISTS in READ COMMITTED; the answer is used after an await.
LockExists ==
    /\ cons = "polling"
    /\ next \in Events
    /\ cons' = IF lockRow THEN "locked" ELSE "open"
    /\ UNCHANGED <<next, nbuf, drainVars, tableVars, listenVars, topic, lockRow,
                   lost, used>>

InsertStaged ==
    /\ cons = "locked"
    /\ staged' = staged \cup {[row |-> nextRow, event |-> next]}
    /\ nextRow' = nextRow + 1
    /\ cons' = "routed"
    /\ UNCHANGED <<next, nbuf, drainVars, listenVars, topic, lockRow, lost, used>>

\* produce() puts the message in the local queue and returns.
Produce ==
    /\ cons = "open"
    /\ nbuf' = Append(nbuf, Direct(next))
    /\ cons' = "routed"
    /\ UNCHANGED <<next, drainVars, tableVars, listenVars, topic, lockRow, lost, used>>

\* Mutant: the next offset is taken for the offset of the message.
CommitTwice ==
    /\ cons = "routed"
    /\ next' = next + 2
    /\ cons' = "polling"
    /\ UNCHANGED <<nbuf, drainVars, tableVars, listenVars, topic, lockRow, lost, used>>

\* The offset is committed without waiting for the broker's acknowledgement.
CommitOffset ==
    /\ cons = "routed"
    /\ next' = next + 1
    /\ cons' = "polling"
    /\ UNCHANGED <<nbuf, drainVars, tableVars, listenVars, topic, lockRow, lost, used>>

\* "Routing failed ...; skipping": any exception, a database that is down
\* included, commits the offset of an event that went nowhere.
RoutingFails ==
    /\ cons \in {"polling", "locked", "open"}
    /\ next \in Events
    /\ next' = next + 1
    /\ cons' = "polling"
    /\ lost' = lost \cup {<<next, "skipped">>}
    /\ Spend("faults")
    /\ UNCHANGED <<nbuf, drainVars, tableVars, listenVars, topic, lockRow>>

-----------------------------------------------------------------------------
(* The drain: StagingDrainService.                                         *)

\* Mutant: the sweep runs only as a substitute for a broken listener.
SweepWithoutListener ==
    /\ drain[Sweep] = "idle"
    /\ ~lockRow /\ ~listening
    /\ staged # {}
    /\ drain' = [drain EXCEPT ![Sweep] = "due"]
    /\ UNCHANGED <<consumerVars, todo, dbuf, tableVars, listenVars, topic, lockRow,
                   lost, used>>

\* The sweep lists the unlocked users with staged rows, then drains each.
SweepOnce ==
    /\ drain[Sweep] = "idle"
    /\ ~lockRow
    /\ staged # {}
    /\ drain' = [drain EXCEPT ![Sweep] = "due"]
    /\ UNCHANGED <<consumerVars, todo, dbuf, tableVars, listenVars, topic, lockRow,
                   lost, used>>

\* The callback creates a task and returns; nothing looks at the lock again.
OnNotify(t) ==
    /\ t \in NotifyTasks
    /\ notified
    /\ drain[t] = "idle"
    /\ notified' = FALSE
    /\ drain' = [drain EXCEPT ![t] = "due"]
    /\ UNCHANGED <<consumerVars, todo, dbuf, tableVars, listening, topic, lockRow,
                   lost, used>>

\* Mutant: no ORDER BY.
InAnyOrder(rows) == {s \in [1 .. Cardinality(rows) -> rows] : IsInjective(s)}

\* ORDER BY created_at
InStagedOrder(rows) ==
    {s \in [1 .. Cardinality(rows) -> rows] :
        \A i, j \in DOMAIN s : i < j => s[i].row < s[j].row}

SelectStaged(t) ==
    /\ drain[t] = "due"
    /\ \E rows \in InStagedOrder(staged) : todo' = [todo EXCEPT ![t] = rows]
    /\ drain' = [drain EXCEPT ![t] = IF staged = {} THEN "idle" ELSE "publishing"]
    /\ UNCHANGED <<consumerVars, dbuf, tableVars, listenVars, topic, lockRow, lost, used>>

Publish(t) ==
    /\ drain[t] = "publishing"
    /\ dbuf' = Append(dbuf, Head(todo[t]))
    /\ drain' = [drain EXCEPT ![t] = "deleting"]
    /\ UNCHANGED <<consumerVars, todo, tableVars, listenVars, topic, lockRow, lost, used>>

\* Mutant: DELETE by user_id instead of by row id.
DeleteAllStaged(t) ==
    /\ drain[t] = "deleting"
    /\ staged' = {}
    /\ todo' = [todo EXCEPT ![t] = Tail(@)]
    /\ drain' = [drain EXCEPT ![t] = IF Len(todo[t]) = 1 THEN "idle" ELSE "publishing"]
    /\ UNCHANGED <<consumerVars, dbuf, nextRow, listenVars, topic, lockRow, lost, used>>

DeleteStaged(t) ==
    /\ drain[t] = "deleting"
    /\ staged' = staged \ {Head(todo[t])}
    /\ todo' = [todo EXCEPT ![t] = Tail(@)]
    /\ drain' = [drain EXCEPT ![t] = IF Len(todo[t]) = 1 THEN "idle" ELSE "publishing"]
    /\ UNCHANGED <<consumerVars, dbuf, nextRow, listenVars, topic, lockRow, lost, used>>

\* The query, produce() or the delete raises: the rest is left for a retry.
DrainRaises(t) ==
    /\ drain[t] # "idle"
    /\ drain' = [drain EXCEPT ![t] = "idle"]
    /\ todo' = [todo EXCEPT ![t] = <<>>]
    /\ Spend("faults")
    /\ UNCHANGED <<consumerVars, dbuf, tableVars, listenVars, topic, lockRow, lost>>

ListenerConnects ==
    /\ ~listening
    /\ listening' = TRUE
    /\ UNCHANGED <<consumerVars, drainVars, tableVars, notified, topic, lockRow,
                   lost, used>>

\* Notifications sent until the listener is back are not delivered later.
ListenerDrops ==
    /\ listening
    /\ listening' = FALSE
    /\ notified' = FALSE
    /\ Spend("faults")
    /\ UNCHANGED <<consumerVars, drainVars, tableVars, topic, lockRow, lost>>

-----------------------------------------------------------------------------
(* Kafka producers.                                                        *)

DeliverRouted ==
    /\ nbuf # <<>>
    /\ topic' = Append(topic, Head(nbuf))
    /\ nbuf' = Tail(nbuf)
    /\ UNCHANGED <<next, cons, drainVars, tableVars, listenVars, lockRow, lost, used>>

DeliverDrained ==
    /\ dbuf # <<>>
    /\ topic' = Append(topic, Head(dbuf))
    /\ dbuf' = Tail(dbuf)
    /\ UNCHANGED <<consumerVars, drain, todo, tableVars, listenVars, lockRow, lost, used>>

\* on_delivery logs the error; nobody sends the message again.
DeliveryFails ==
    /\ \/ /\ nbuf # <<>>
          /\ nbuf' = Tail(nbuf)
          /\ lost' = lost \cup {<<Head(nbuf).event, "undelivered">>}
          /\ UNCHANGED dbuf
       \/ /\ dbuf # <<>>
          /\ dbuf' = Tail(dbuf)
          /\ lost' = lost \cup {<<Head(dbuf).event, "undelivered">>}
          /\ UNCHANGED nbuf
    /\ Spend("faults")
    /\ UNCHANGED <<next, cons, drain, todo, tableVars, listenVars, topic, lockRow>>

-----------------------------------------------------------------------------
(* The service crashes and is restarted; a graceful stop flushes the       *)
(* queues first, which is delivery followed by this.                       *)

Crash ==
    /\ Spend("faults")
    /\ lost' = lost \cup (EventsIn(Queued) \X {"crashed"})
    /\ cons' = "polling"
    /\ nbuf' = <<>>
    /\ dbuf' = <<>>
    /\ drain' = [t \in Tasks |-> "idle"]
    /\ todo' = [t \in Tasks |-> <<>>]
    /\ listening' = FALSE
    /\ notified' = FALSE
    /\ UNCHANGED <<next, tableVars, topic, lockRow>>

-----------------------------------------------------------------------------
(* The reprocess job, seen from here.                                      *)

TakeLock ==
    /\ ~lockRow
    /\ lockRow' = TRUE
    /\ Spend("locks")
    /\ UNCHANGED <<consumerVars, drainVars, tableVars, listenVars, topic, lost>>

\* DELETE of the row and NOTIFY take effect at the same commit.
ReleaseLock ==
    /\ lockRow
    /\ lockRow' = FALSE
    /\ notified' = (notified \/ listening)
    /\ UNCHANGED <<consumerVars, drainVars, tableVars, listening, topic, lost, used>>

-----------------------------------------------------------------------------
Consumer == LockExists \/ InsertStaged \/ Produce \/ CommitOffset

Drain(t) == SelectStaged(t) \/ Publish(t) \/ DeleteStaged(t)

Next ==
    \/ Consumer \/ RoutingFails
    \/ SweepOnce
    \/ \E t \in Tasks : OnNotify(t) \/ Drain(t) \/ DrainRaises(t)
    \/ ListenerConnects \/ ListenerDrops
    \/ DeliverRouted \/ DeliverDrained \/ DeliveryFails
    \/ Crash
    \/ TakeLock \/ ReleaseLock

Spec == Init /\ [][Next]_vars

\* The event loop runs every task that can run, the sweep comes round every
\* sixty seconds and the producers' background threads send what is queued.
\* Locks are released and listeners reconnect when they do.
Fairness ==
    /\ WF_vars(Consumer)
    /\ WF_vars(SweepOnce)
    /\ \A t \in Tasks : WF_vars(Drain(t))
    /\ WF_vars(DeliverRouted)
    /\ WF_vars(DeliverDrained)

FairSpec == Spec /\ Fairness
=============================================================================
