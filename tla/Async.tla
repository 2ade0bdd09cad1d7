-------------------------------- MODULE Async --------------------------------
(***************************************************************************)
(* retry, parallel and timeout of async.util.ts as a caller puts them      *)
(* together: timeout(parallel(tasks, ...)), each task under retry().  The  *)
(* workers of parallel() share the index of the next task; an attempt at   *)
(* a task ends when the wrapped operation does, if ever; what a timeout or *)
(* a rejection leaves running goes on.                                     *)
(***************************************************************************)
EXTENDS Naturals, FiniteSets

CONSTANTS
    Tasks,          \* tasks.length
    Concurrency,
    MaxAttempts

ASSUME AsyncAssumption == {Tasks, Concurrency, MaxAttempts} \subseteq Nat \ {0}

Task == 1..Tasks
Worker == 1..(IF Concurrency < Tasks THEN Concurrency ELSE Tasks)

VARIABLES
    failFast,       \* options.failFast
    nextTask,       \* currentIndex + 1
    doing,          \* what each worker is at
    task,           \* the task it has taken, 0 before its first
    tries,          \* attempts made at each task
    result,         \* how each task ended
    answer          \* what the caller of timeout() has been told

asyncVars == <<failFast, nextTask, doing, task, tries, result, answer>>

AsyncTypeOK ==
    /\ failFast \in BOOLEAN
    /\ nextTask \in 1..(Tasks + 1)
    /\ doing \in [Worker -> {"uncalled", "loop", "attempt", "sleep", "done", "thrown"}]
    /\ task \in [Worker -> 0..Tasks]
    /\ tries \in [Task -> 0..MaxAttempts]
    /\ result \in [Task -> {"none", "ok", "failed"}]
    /\ answer \in {"uncalled", "pending", "resolved", "rejected", "aggregate", "timedout"}

AsyncInit ==
    /\ failFast = FALSE
    /\ nextTask = 1
    /\ doing = [w \in Worker |-> "uncalled"]
    /\ task = [w \in Worker |-> 0]
    /\ tries = [t \in Task |-> 0]
    /\ result = [t \in Task |-> "none"]
    /\ answer = "uncalled"

\* The call: parallel() starts its workers, timeout() its timer.
Start(fast) ==
    /\ answer = "uncalled"
    /\ failFast' = fast
    /\ doing' = [w \in Worker |-> "loop"]
    /\ answer' = "pending"
    /\ UNCHANGED <<nextTask, task, tries, result>>

\* Promise.race: the first to settle is the answer.
Tell(what) == answer' = IF answer = "pending" THEN what ELSE answer

\* Promise.all and Promise.allSettled over workers that have all returned.
AllReturned(d) == \A w \in Worker : d[w] = "done"
Verdict == IF \E t \in Task : result[t] = "failed" THEN "aggregate" ELSE "resolved"

\* Mutant: the index is read in one place and moved on in another.
TakeUnmoved(w) ==
    /\ doing[w] = "loop"
    /\ nextTask <= Tasks
    /\ nextTask' \in {nextTask, nextTask + 1}
    /\ task' = [task EXCEPT ![w] = nextTask]
    /\ tries' = [tries EXCEPT ![nextTask] = 1]
    /\ doing' = [doing EXCEPT ![w] = "attempt"]
    /\ UNCHANGED <<failFast, result, answer>>

\* The loop of worker(): the test and the increment have no await between them.
TakeTask(w) ==
    /\ doing[w] = "loop"
    /\ nextTask <= Tasks
    /\ nextTask' = nextTask + 1
    /\ task' = [task EXCEPT ![w] = nextTask]
    /\ tries' = [tries EXCEPT ![nextTask] = 1]
    /\ doing' = [doing EXCEPT ![w] = "attempt"]
    /\ UNCHANGED <<failFast, result, answer>>

Leave(w) ==
    /\ doing[w] = "loop"
    /\ nextTask > Tasks
    /\ doing' = [doing EXCEPT ![w] = "done"]
    /\ IF AllReturned(doing') THEN Tell(Verdict) ELSE UNCHANGED answer
    /\ UNCHANGED <<failFast, nextTask, task, tries, result>>

Succeed(w) ==
    /\ doing[w] = "attempt"
    /\ result' = [result EXCEPT ![task[w]] = "ok"]
    /\ doing' = [doing EXCEPT ![w] = "loop"]
    /\ UNCHANGED <<failFast, nextTask, task, tries, answer>>

\* The last attempt failed, or isRetryable said no: retry() throws, and the
\* worker with it if the call is to fail fast.
GiveUp(w) ==
    /\ result' = [result EXCEPT ![task[w]] = "failed"]
    /\ doing' = [doing EXCEPT ![w] = IF failFast THEN "thrown" ELSE "loop"]
    /\ IF failFast THEN Tell("rejected") ELSE UNCHANGED answer

Fail(w, retryable) ==
    /\ doing[w] = "attempt"
    /\ IF retryable /\ tries[task[w]] < MaxAttempts
       THEN doing' = [doing EXCEPT ![w] = "sleep"] /\ UNCHANGED <<result, answer>>
       ELSE GiveUp(w)
    /\ UNCHANGED <<failFast, nextTask, task, tries>>

\* Mutant: the loop of retry() does not count.
AgainUncounted(w) ==
    /\ doing[w] = "sleep"
    /\ doing' = [doing EXCEPT ![w] = "attempt"]
    /\ UNCHANGED <<failFast, nextTask, task, tries, result, answer>>

\* The sleep of calculateDelay(attempt) is over.
Again(w) ==
    /\ doing[w] = "sleep"
    /\ tries' = [tries EXCEPT ![task[w]] = @ + 1]
    /\ doing' = [doing EXCEPT ![w] = "attempt"]
    /\ UNCHANGED <<failFast, nextTask, task, result, answer>>

\* The caller is answered; nothing else is told, and the workers go on.
TimeOut ==
    /\ answer = "pending"
    /\ answer' = "timedout"
    /\ UNCHANGED <<failFast, nextTask, doing, task, tries, result>>

AsyncNext ==
    \/ \E w \in Worker :
           \/ TakeTask(w) \/ Leave(w) \/ Succeed(w) \/ Again(w)
           \/ \E r \in BOOLEAN : Fail(w, r)
    \/ \E fast \in BOOLEAN : Start(fast)
    \/ TimeOut

\* A worker between two operations goes on: its loop has no await there, and a
\* sleep ends.  Nothing is assumed of the operations.
AsyncFairness == \A w \in Worker : WF_asyncVars(TakeTask(w) \/ Leave(w) \/ Again(w))

AsyncSpec == AsyncInit /\ [][AsyncNext]_asyncVars

-----------------------------------------------------------------------------
\* What the caller is told is so: "resolved" only when every task succeeded, an
\* AggregateError only when every task has ended and one failed, a rejection
\* only when one failed with its attempts used up or an error that is not
\* retried (parallel, retry).
AnswerTruthful ==
    /\ answer = "resolved" => \A t \in Task : result[t] = "ok"
    /\ answer = "aggregate" => /\ \A t \in Task : result[t] # "none"
                               /\ \E t \in Task : result[t] = "failed"
    /\ answer = "rejected" => failFast /\ \E t \in Task : result[t] = "failed"

\* Workers never hold the same task, a task that ended is held by nobody, and a
\* call that fails fast loses one worker for each task that failed, so that at
\* most Concurrency tasks fail (the shared currentIndex, the throw in worker).
WorkersApart ==
    /\ \A v, w \in Worker : v # w /\ task[v] # 0 => task[v] # task[w]
    /\ \A w \in Worker :
           doing[w] \in {"attempt", "sleep"} => result[task[w]] = "none"
    /\ failFast => \A t \in Task :
           result[t] = "failed" => \E w \in Worker : task[w] = t /\ doing[w] = "thrown"

\* Both: what parallel() answers, and the work behind the answer, are sound.
ParallelSound == AnswerTruthful /\ WorkersApart

\* One worker is enough: if the operations it runs end, it takes tasks until none
\* is left to take, or throws in a call that fails fast, even when the operations
\* of all the others hang, and whether or not the caller has been answered in the
\* meantime (worker in parallel, the loop of retry).
TasksGoOn ==
    \A w \in Worker :
        (doing[w] = "attempt" ~> doing[w] # "attempt") =>
            (doing[w] = "loop" ~>
                 \/ doing[w] = "done" /\ nextTask > Tasks
                 \/ doing[w] = "thrown" /\ failFast)

-----------------------------------------------------------------------------
(* The inductive invariant: where the tasks are that have been taken.      *)

Busy(w) == doing[w] \in {"attempt", "sleep"}

TasksAccounted ==
    /\ \A w \in Worker : task[w] < nextTask
    /\ \A w \in Worker : Busy(w) => task[w] # 0
    /\ \A w \in Worker : doing[w] = "done" => nextTask > Tasks
    /\ \A t \in Task : t < nextTask =>
           result[t] # "none" \/ \E w \in Worker : task[w] = t /\ Busy(w)
    /\ \A t \in Task : t >= nextTask => result[t] = "none"
    /\ \A w \in Worker : doing[w] = "sleep" => tries[task[w]] < MaxAttempts
    /\ answer = "uncalled" => nextTask = 1 /\ \A w \in Worker : doing[w] = "uncalled"

AsyncIInv == AsyncTypeOK /\ TasksAccounted /\ ParallelSound

=============================================================================
