------------------------------- MODULE Events -------------------------------
(***************************************************************************)
(* EventPublisherImpl and EventProcessorService: domain events of one name *)
(* on their way through the queue, the handlers registered for that name,  *)
(* and the key in the cache that says an event has been processed.  The    *)
(* queue is BullMQ's and external: it gives a job to one slot of a worker, *)
(* gives it out again when the attempt throws, and takes it back when the  *)
(* slot does not renew its lock, whether the slot is dead or only slow.    *)
(***************************************************************************)
EXTENDS Naturals, FiniteSets

CONSTANTS
    Event,          \* event ids
    Slot,           \* jobs a worker runs at a time (concurrency: 5 in the code)
    None,           \* no event, no slot
    MaxHandlers,    \* bound: handlers that are registered for the name
    Attempts,       \* attempts: 3 in the code
    MaxStalls,      \* times a job is taken back before the queue gives it up
    MaxRestarts     \* bound: times the worker's process is lost

ASSUME EventsAssumption ==
    /\ None \notin Event \cup Slot
    /\ IsFiniteSet(Slot)
    /\ Attempts \in Nat \ {0}
    /\ {MaxHandlers, MaxStalls, MaxRestarts} \subseteq Nat

VARIABLES
    job,        \* where the queue has each event
    made,       \* attemptsMade
    stalls,     \* times it has been taken back
    lock,       \* the slot that holds the lock of the job
    emitted,    \* events whose 'failed' has been emitted and not yet listened to
    dlq,        \* the dead letter queue
    marked,     \* keys event-processed:<id> in the cache
    registered, \* handlers.get(eventName).length
    pc,         \* what each slot does next
    ev,         \* the event it is at
    next,       \* the handler it is at
    found,      \* history: handlers registered when it looked them up
    owed,       \* history: those of the attempt that marked the event
    done,       \* history: how often each handler has handled each event
    excuses,    \* history: reasons for handling an event once more
    restarts

queue == <<job, made, stalls, lock, emitted, dlq>>
slots == <<pc, ev, next, found>>
history == <<owed, done, excuses>>
eventsVars == <<queue, marked, registered, slots, history, restarts>>

Handler == 1..MaxHandlers

EventsInit ==
    /\ job = [e \in Event |-> "unsent"]
    /\ made = [e \in Event |-> 0]
    /\ stalls = [e \in Event |-> 0]
    /\ lock = [e \in Event |-> None]
    /\ emitted = {}
    /\ dlq = {}
    /\ marked = {}
    /\ registered = 0
    /\ pc = [s \in Slot |-> "idle"]
    /\ ev = [s \in Slot |-> None]
    /\ next = [s \in Slot |-> 0]
    /\ found = [s \in Slot |-> 0]
    /\ owed = [e \in Event |-> 0]
    /\ done = [e \in Event |-> [h \in Handler |-> 0]]
    /\ excuses = [e \in Event |-> 0]
    /\ restarts = 0

-----------------------------------------------------------------------------
(* The publisher.                                                          *)

\* publish(): the batch is added to the queue, or the error is swallowed.
Publish(batch) ==
    /\ batch # {}
    /\ \A e \in batch : job[e] = "unsent"
    /\ \E to \in {"waiting", "lost"} :
        job' = [e \in Event |-> IF e \in batch THEN to ELSE job[e]]
    /\ UNCHANGED <<made, stalls, lock, emitted, dlq, marked, registered, slots, history, restarts>>

\* The listener of 'failed'; the event may be lost to it.
DeadLetter(e) ==
    /\ e \in emitted
    /\ emitted' = emitted \ {e}
    /\ dlq' \in {dlq, IF made[e] >= Attempts THEN dlq \cup {e} ELSE dlq}
    /\ UNCHANGED <<job, made, stalls, lock, marked, registered, slots, history, restarts>>

-----------------------------------------------------------------------------
(* The processor.                                                          *)

RegisterHandler ==
    /\ registered < MaxHandlers
    /\ registered' = registered + 1
    /\ UNCHANGED <<queue, marked, slots, history, restarts>>

Take(s, e) ==
    /\ pc[s] = "idle" /\ job[e] = "waiting"
    /\ job' = [job EXCEPT ![e] = "active"]
    /\ lock' = [lock EXCEPT ![e] = s]
    /\ pc' = [pc EXCEPT ![s] = "check"]
    /\ ev' = [ev EXCEPT ![s] = e]
    /\ UNCHANGED <<made, stalls, emitted, dlq, marked, registered, next, found, history, restarts>>

Excuse(e) == excuses' = [excuses EXCEPT ![e] = @ + 1]

Idle(s) ==
    /\ pc' = [pc EXCEPT ![s] = "idle"]
    /\ ev' = [ev EXCEPT ![s] = None]
    /\ next' = [next EXCEPT ![s] = 0]
    /\ found' = [found EXCEPT ![s] = 0]

\* Mutant: the answer of the cache is not looked at.
AlreadyProcessedNever(e, reachable) == FALSE

\* isAlreadyProcessed: has() answers false when the cache cannot be reached.
AlreadyProcessed(e, reachable) == reachable /\ e \in marked

Return(s) ==
    /\ pc' = [pc EXCEPT ![s] = "return"]
    /\ next' = [next EXCEPT ![s] = 0]
    /\ found' = [found EXCEPT ![s] = 0]
    /\ UNCHANGED <<ev, excuses>>

\* Events already processed, and events without handlers, are acknowledged.
Check(s) ==
    /\ pc[s] = "check"
    /\ \E reachable \in BOOLEAN :
        IF AlreadyProcessed(ev[s], reachable) \/ registered = 0 THEN Return(s)
        ELSE /\ pc' = [pc EXCEPT ![s] = "handle"]
             /\ next' = [next EXCEPT ![s] = 1]
             /\ found' = [found EXCEPT ![s] = registered]
             /\ IF ev[s] \in marked /\ ~ reachable THEN Excuse(ev[s]) ELSE UNCHANGED excuses
             /\ UNCHANGED ev
    /\ UNCHANGED <<queue, marked, registered, owed, done, restarts>>

\* The loop goes over the array that registerHandler pushes to.
NextHandler(s) ==
    IF next[s] < registered
    THEN next' = [next EXCEPT ![s] = @ + 1] /\ UNCHANGED pc
    ELSE pc' = [pc EXCEPT ![s] = "mark"] /\ UNCHANGED next

HandlerSucceeds(s) ==
    /\ pc[s] = "handle"
    /\ done' = [done EXCEPT ![ev[s]][next[s]] = @ + 1]
    /\ NextHandler(s)
    /\ UNCHANGED <<queue, marked, registered, ev, found, owed, excuses, restarts>>

\* The queue hears of the error from the slot that holds the lock only.
Retried(s) ==
    LET e == ev[s] IN
    IF lock[e] # s THEN UNCHANGED <<job, made, lock, emitted>>
    ELSE /\ made' = [made EXCEPT ![e] = @ + 1]
         /\ lock' = [lock EXCEPT ![e] = None]
         /\ IF made'[e] < Attempts
            THEN job' = [job EXCEPT ![e] = "delayed"] /\ UNCHANGED emitted
            ELSE job' = [job EXCEPT ![e] = "failed"] /\ emitted' = emitted \cup {e}

\* Mutant: the error of a handler is logged, and the next one runs.
HandlerFailsLogged(s) ==
    /\ pc[s] = "handle"
    /\ Excuse(ev[s])
    /\ NextHandler(s)
    /\ UNCHANGED <<queue, marked, registered, ev, found, owed, done, restarts>>

\* Mutant: an attempt that throws is not counted.
HandlerFailsForever(s) ==
    /\ pc[s] = "handle" /\ lock[ev[s]] = s
    /\ job' = [job EXCEPT ![ev[s]] = "delayed"]
    /\ lock' = [lock EXCEPT ![ev[s]] = None]
    /\ Idle(s)
    /\ UNCHANGED <<made, stalls, emitted, dlq, marked, registered, history, restarts>>

\* A handler throws, and so does the attempt.
HandlerFails(s) ==
    /\ pc[s] = "handle"
    /\ Retried(s)
    /\ Excuse(ev[s])
    /\ Idle(s)
    /\ UNCHANGED <<stalls, dlq, marked, registered, owed, done, restarts>>

\* markProcessed; an error of the cache is swallowed.
Mark(s) ==
    /\ pc[s] = "mark"
    /\ pc' = [pc EXCEPT ![s] = "return"]
    /\ \/ /\ marked' = marked \cup {ev[s]}
          /\ owed' = [owed EXCEPT ![ev[s]] = found[s]]
          /\ UNCHANGED excuses
       \/ Excuse(ev[s]) /\ UNCHANGED <<marked, owed>>
    /\ UNCHANGED <<queue, registered, ev, next, found, done, restarts>>

\* The queue hears of the success, again from the holder of the lock only.
Complete(s) ==
    /\ pc[s] = "return"
    /\ IF lock[ev[s]] = s
       THEN /\ job' = [job EXCEPT ![ev[s]] = "completed"]
            /\ lock' = [lock EXCEPT ![ev[s]] = None]
       ELSE UNCHANGED <<job, lock>>
    /\ Idle(s)
    /\ UNCHANGED <<made, stalls, emitted, dlq, marked, registered, history, restarts>>

-----------------------------------------------------------------------------
(* The queue and the process.                                              *)

Wake(e) ==
    /\ job[e] = "delayed"
    /\ job' = [job EXCEPT ![e] = "waiting"]
    /\ UNCHANGED <<made, stalls, lock, emitted, dlq, marked, registered, slots, history, restarts>>

Working(e) == {s \in Slot : ev[s] = e}

\* The lock of an active job has not been renewed; a slot that is only slow
\* goes on.
Stall(e) ==
    /\ job[e] = "active"
    /\ lock' = [lock EXCEPT ![e] = None]
    /\ stalls' = [stalls EXCEPT ![e] = IF @ < MaxStalls THEN @ + 1 ELSE @]
    /\ IF stalls[e] < MaxStalls
       THEN job' = [job EXCEPT ![e] = "waiting"] /\ UNCHANGED emitted
       ELSE job' = [job EXCEPT ![e] = "failed"] /\ emitted' = emitted \cup {e}
    /\ IF \E s \in Working(e) : pc[s] # "return" THEN Excuse(e) ELSE UNCHANGED excuses
    /\ UNCHANGED <<made, dlq, marked, registered, slots, owed, done, restarts>>

Abandoned(e) == job[e] = "active" /\ \A s \in Slot : ~ (lock[e] = s /\ ev[s] = e)

\* The process is lost and comes back: its worker starts before the handlers
\* are registered again.
Restart ==
    /\ restarts < MaxRestarts
    /\ restarts' = restarts + 1
    /\ registered' = 0
    /\ excuses' = [e \in Event |->
            excuses[e] + Cardinality({s \in Working(e) : pc[s] \in {"handle", "mark"}})]
    /\ emitted' = {}
    /\ pc' = [s \in Slot |-> "idle"]
    /\ ev' = [s \in Slot |-> None]
    /\ next' = [s \in Slot |-> 0]
    /\ found' = [s \in Slot |-> 0]
    /\ lock' = [e \in Event |-> None]
    /\ UNCHANGED <<job, made, stalls, dlq, marked, owed, done>>

\* The key of a processed event lives for DEDUP_TTL_SECONDS.  Every attempt that
\* it would have turned away is excused: those about to look for the key, and the
\* one the queue may still owe.
MarkLapses(e) ==
    /\ e \in marked
    /\ marked' = marked \ {e}
    /\ excuses' = [excuses EXCEPT ![e] =
            @ + Cardinality({s \in Working(e) : pc[s] = "check"})
              + IF job[e] \in {"completed", "failed"} THEN 0 ELSE 1]
    /\ UNCHANGED <<queue, registered, slots, owed, done, restarts>>

Work(s) == Check(s) \/ HandlerSucceeds(s) \/ HandlerFails(s) \/ Mark(s) \/ Complete(s)

EventsNext ==
    \/ \E batch \in SUBSET Event : Publish(batch)
    \/ RegisterHandler \/ Restart
    \/ \E e \in Event : DeadLetter(e) \/ Wake(e) \/ Stall(e) \/ MarkLapses(e)
    \/ \E s \in Slot : Work(s) \/ \E e \in Event : Take(s, e)

EventsSpec == EventsInit /\ [][EventsNext]_eventsVars

\* A slot that has a job goes on with it, the worker takes what waits, and the
\* queue wakes what is delayed and takes back what nobody works at.
EventsFairness ==
    /\ WF_eventsVars(\E s \in Slot, e \in Event : Take(s, e))
    /\ \A s \in Slot : WF_eventsVars(Work(s))
    /\ \A e \in Event : WF_eventsVars(Wake(e)) /\ WF_eventsVars(Abandoned(e) /\ Stall(e))

-----------------------------------------------------------------------------
(* Properties.                                                             *)

(* Queue, cache and slots keep their types, and a lock belongs to an       *)
(* active job.                                                             *)
EventsTypeOK ==
    /\ job \in [Event -> {"unsent", "lost", "waiting", "active", "delayed", "completed", "failed"}]
    /\ made \in [Event -> 0..Attempts]
    /\ stalls \in [Event -> 0..MaxStalls]
    /\ lock \in [Event -> Slot \cup {None}]
    /\ emitted \subseteq Event
    /\ dlq \subseteq Event
    /\ marked \subseteq Event
    /\ registered \in 0..MaxHandlers
    /\ pc \in [Slot -> {"idle", "check", "handle", "mark", "return"}]
    /\ ev \in [Slot -> Event \cup {None}]
    /\ next \in [Slot -> 0..MaxHandlers]
    /\ found \in [Slot -> 0..MaxHandlers]
    /\ owed \in [Event -> 0..MaxHandlers]
    /\ done \in [Event -> [Handler -> Nat]]
    /\ excuses \in [Event -> Nat]
    /\ restarts \in 0..MaxRestarts
    /\ \A e \in Event : lock[e] # None => job[e] = "active" /\ ev[lock[e]] = e

(* An event is marked as processed only when every handler that was        *)
(* registered when the attempt began has handled it.                       *)
MarkedIsHandled ==
    \A e \in marked : owed[e] > 0 /\ \A h \in 1..owed[e] : done[e][h] > 0

(* "Idempotent processing": a handler sees an event once more only with an *)
(* excuse: an attempt that threw, was lost or is slow, a cache that could  *)
(* not be reached, or a mark that lapsed while the queue still had the     *)
(* event.                                                                  *)
HandledAgainForCause ==
    \A e \in Event : \A h \in Handler : done[e][h] <= 1 + excuses[e]

(* An event that has reached the queue is completed or failed in the end.  *)
EventsSettle ==
    \A e \in Event : job[e] = "waiting" ~> job[e] \in {"completed", "failed"}

-----------------------------------------------------------------------------
(* The inductive invariant.                                                *)

(* A slot at the handlers has had those before it; one that is to mark has *)
(* had all it found.                                                       *)
HandlersCounted ==
    \A s \in Slot :
        /\ pc[s] = "idle" <=> ev[s] = None
        /\ pc[s] = "handle" =>
               /\ next[s] \in 1..registered
               /\ found[s] \in 1..registered
               /\ \A h \in 1..(next[s] - 1) : done[ev[s]][h] > 0
        /\ pc[s] = "mark" => found[s] > 0 /\ \A h \in 1..found[s] : done[ev[s]][h] > 0

AttemptsLeft == \A e \in Event : job[e] \notin {"completed", "failed"} => made[e] < Attempts

\* Slot s is on its way to handler h of event e.
Heading(s, e, h) ==
    /\ ev[s] = e
    /\ \/ pc[s] = "check" /\ e \notin marked
       \/ pc[s] = "handle" /\ next[s] <= h

Ahead(e, h) == {s \in Slot : Heading(s, e, h)}

Attended(e) == \E s \in Slot : ev[s] = e /\ pc[s] \in {"check", "handle", "mark"}

\* The queue still owes the event an attempt.
Credit(e) ==
    IF /\ e \notin marked
       /\ \/ job[e] \in {"unsent", "lost", "waiting", "delayed"}
          \/ job[e] = "active" /\ ~ Attended(e)
    THEN 1 ELSE 0

\* Every handling, made or still to come, but the first is paid for by an excuse.
HandlingsPaid ==
    \A e \in Event, h \in Handler :
        done[e][h] + Cardinality(Ahead(e, h)) + Credit(e) <= 1 + excuses[e]

EventsIInv == EventsTypeOK /\ AttemptsLeft /\ HandlersCounted /\ MarkedIsHandled /\ HandlingsPaid
=============================================================================
