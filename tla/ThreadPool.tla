---------------------------- MODULE ThreadPool ----------------------------
(***************************************************************************)
(* concurrency::ThreadPool (src/concurrency/ThreadPool.cpp): a bounded     *)
(* ring of tasks guarded by a test-and-set spinlock and two counting       *)
(* semaphores.  A program counter per thread marks the places where        *)
(* another thread can run in between; the two statements of each critical  *)
(* section are separate steps, so that the lock is what keeps them apart.  *)
(*                                                                         *)
(* Producers are the threads that call enqueue (the epoll loops).  The     *)
(* pool's owner joins them before it destroys the pool (TcpServer::start   *)
(* returns only when every epoll thread is joined), so the destructor      *)
(* starts when no enqueue is under way and none starts after it.           *)
(***************************************************************************)
EXTENDS Integers, Sequences, FiniteSets

CONSTANTS
    Producers,  \* threads that call enqueue
    Workers,    \* the pool's own threads
    CAPACITY,   \* slots of the ring
    MaxTasks,   \* bound: enqueue calls per producer
    NoTask      \* an empty std::function

\* The n-th closure a producer enqueues.
Tasks == Producers \X (1..MaxTasks)

ASSUME ThreadsFinite == IsFiniteSet(Producers) /\ IsFiniteSet(Workers)
ASSUME CapacityPositive == CAPACITY \in Nat \ {0}
ASSUME MaxTasksNat == MaxTasks \in Nat
ASSUME NoTaskIsNone == NoTask \notin Tasks

VARIABLES
    ringBuffer,     \* ring_buffer_
    head, tail,     \* head_, tail_
    lock,           \* lock_
    tasksAvailable, \* tasks_available_
    spaceAvailable, \* space_available_
    stop,           \* stop_
    pendingTasks,   \* pending_tasks_
    ppc, sent,      \* per producer: program counter, enqueue calls begun
    wpc, task,      \* per worker: program counter, the local "task"
    dpc, released,  \* the destructor: program counter, loop counter
    queue,          \* history: tasks inserted and not yet moved out, in order
    finished        \* history: tasks whose call has returned

ring == <<ringBuffer, head, tail, lock>>
sems == <<tasksAvailable, spaceAvailable>>
prods == <<ppc, sent>>
works == <<wpc, task>>
dtor == <<dpc, released, stop>>
hist == <<queue, finished>>
vars == <<ring, sems, pendingTasks, prods, works, dtor, hist>>

Slots == 0..(CAPACITY - 1)
PPc == {"idle", "space", "lock", "write", "advance", "signal"}
WPc == {"wait", "check", "lock", "take", "advance", "release", "dec", "run", "exit"}
DPc == {"alive", "release", "join", "done"}

Init ==
    /\ ringBuffer = [i \in Slots |-> NoTask]
    /\ head = 0
    /\ tail = 0
    /\ lock = FALSE
    /\ tasksAvailable = 0
    /\ spaceAvailable = CAPACITY
    /\ stop = FALSE
    /\ pendingTasks = 0
    /\ ppc = [p \in Producers |-> "idle"]
    /\ sent = [p \in Producers |-> 0]
    /\ wpc = [w \in Workers |-> "wait"]
    /\ task = [w \in Workers |-> NoTask]
    /\ dpc = "alive"
    /\ released = 0
    /\ queue = << >>
    /\ finished = {}

----------------------------------------------------------------------------
(* enqueue *)

\* The task producer p is enqueuing.
Current(p) == <<p, sent[p]>>

\* Fault: the index is not wrapped.
NextSlotUnwrapped(i) == i + 1

\* (head_ + 1) % CAPACITY
NextSlot(i) == (i + 1) % CAPACITY

PStep(p, from, to) == ppc[p] = from /\ ppc' = [ppc EXCEPT ![p] = to]

\* enqueue is called: pending_tasks_ goes up before anything else.
EnqueueCall(p) ==
    /\ dpc = "alive"
    /\ sent[p] < MaxTasks
    /\ PStep(p, "idle", "space")
    /\ sent' = [sent EXCEPT ![p] = @ + 1]
    /\ pendingTasks' = pendingTasks + 1
    /\ UNCHANGED <<ring, sems, works, dtor, hist>>

EnqueueAcquireSpace(p) ==
    /\ PStep(p, "space", "lock")
    /\ spaceAvailable > 0
    /\ spaceAvailable' = spaceAvailable - 1
    /\ UNCHANGED <<ring, tasksAvailable, pendingTasks, sent, works, dtor, hist>>

EnqueueLock(p) ==
    /\ PStep(p, "lock", "write")
    /\ ~lock
    /\ lock' = TRUE
    /\ UNCHANGED <<ringBuffer, head, tail, sems, pendingTasks, sent, works, dtor, hist>>

EnqueueWrite(p) ==
    /\ PStep(p, "write", "advance")
    /\ ringBuffer' = [ringBuffer EXCEPT ![tail] = Current(p)]
    /\ UNCHANGED <<head, tail, lock, sems, pendingTasks, sent, works, dtor, hist>>

\* The new tail is stored and the spinlock cleared.
EnqueueAdvance(p) ==
    /\ PStep(p, "advance", "signal")
    /\ tail' = NextSlot(tail)
    /\ lock' = FALSE
    /\ queue' = Append(queue, Current(p))
    /\ UNCHANGED <<ringBuffer, head, sems, pendingTasks, sent, works, dtor, finished>>

\* Fault: a producer that fills the last slot leaves without waking anyone.
EnqueueSignalNotWhenFull(p) ==
    /\ PStep(p, "signal", "idle")
    /\ tasksAvailable' = IF spaceAvailable = 0 THEN tasksAvailable ELSE tasksAvailable + 1
    /\ UNCHANGED <<ring, spaceAvailable, pendingTasks, sent, works, dtor, hist>>

EnqueueSignal(p) ==
    /\ PStep(p, "signal", "idle")
    /\ tasksAvailable' = tasksAvailable + 1
    /\ UNCHANGED <<ring, spaceAvailable, pendingTasks, sent, works, dtor, hist>>

----------------------------------------------------------------------------
(* The worker loop *)

WStep(w, from, to) == wpc[w] = from /\ wpc' = [wpc EXCEPT ![w] = to]

WorkerAcquire(w) ==
    /\ WStep(w, "wait", "check")
    /\ tasksAvailable > 0
    /\ tasksAvailable' = tasksAvailable - 1
    /\ UNCHANGED <<ring, spaceAvailable, pendingTasks, prods, task, dtor, hist>>

\* Fault: the worker drains the ring before it stops, trusting its token.
WorkerCheckStopDrains(w) ==
    /\ WStep(w, "check", IF stop /\ pendingTasks = 0 THEN "exit" ELSE "lock")
    /\ UNCHANGED <<ring, sems, pendingTasks, prods, task, dtor, hist>>

\* A woken worker looks at stop_ once, before it looks at the ring.
WorkerCheckStop(w) ==
    /\ WStep(w, "check", IF stop THEN "exit" ELSE "lock")
    /\ UNCHANGED <<ring, sems, pendingTasks, prods, task, dtor, hist>>

\* Fault: the worker does not spin on the flag.
WorkerLockUnguarded(w) ==
    /\ WStep(w, "lock", "take")
    /\ lock' = TRUE
    /\ UNCHANGED <<ringBuffer, head, tail, sems, pendingTasks, prods, task, dtor, hist>>

WorkerLock(w) ==
    /\ WStep(w, "lock", "take")
    /\ ~lock
    /\ lock' = TRUE
    /\ UNCHANGED <<ringBuffer, head, tail, sems, pendingTasks, prods, task, dtor, hist>>

\* The move leaves the slot's std::function empty.
WorkerTake(w) ==
    /\ WStep(w, "take", "advance")
    /\ task' = [task EXCEPT ![w] = ringBuffer[head]]
    /\ ringBuffer' = [ringBuffer EXCEPT ![head] = NoTask]
    /\ queue' = IF queue = << >> THEN queue ELSE Tail(queue)
    /\ UNCHANGED <<head, tail, lock, sems, pendingTasks, prods, dtor, finished>>

\* The new head is stored and the spinlock cleared.
WorkerAdvance(w) ==
    /\ WStep(w, "advance", "release")
    /\ head' = NextSlot(head)
    /\ lock' = FALSE
    /\ UNCHANGED <<ringBuffer, tail, sems, pendingTasks, prods, task, dtor, hist>>

WorkerReleaseSpace(w) ==
    /\ WStep(w, "release", "dec")
    /\ spaceAvailable' = spaceAvailable + 1
    /\ UNCHANGED <<ring, tasksAvailable, pendingTasks, prods, task, dtor, hist>>

\* Fault: the counter goes down only when the ring has something left.
WorkerDecConditional(w) ==
    /\ WStep(w, "dec", "run")
    /\ pendingTasks' = IF tasksAvailable > 0 THEN pendingTasks - 1 ELSE pendingTasks
    /\ UNCHANGED <<ring, sems, prods, task, dtor, hist>>

\* pending_tasks_ goes down before the task is called.
WorkerDec(w) ==
    /\ WStep(w, "dec", "run")
    /\ pendingTasks' = pendingTasks - 1
    /\ UNCHANGED <<ring, sems, prods, task, dtor, hist>>

\* if (task) task(); the local is destroyed when the iteration ends.
WorkerRun(w) ==
    /\ WStep(w, "run", "wait")
    /\ finished' = IF task[w] # NoTask THEN finished \cup {task[w]} ELSE finished
    /\ task' = [task EXCEPT ![w] = NoTask]
    /\ UNCHANGED <<ring, sems, pendingTasks, prods, dtor, queue>>

----------------------------------------------------------------------------
(* The destructor *)

DestructorStop ==
    /\ dpc = "alive"
    /\ \A p \in Producers : ppc[p] = "idle"
    /\ dpc' = "release"
    /\ stop' = TRUE
    /\ UNCHANGED <<ring, sems, pendingTasks, prods, works, released, hist>>

\* Fault: one token for all the workers.
DestructorReleaseOne ==
    /\ dpc = "release"
    /\ released < Cardinality(Workers)
    /\ released' = Cardinality(Workers)
    /\ tasksAvailable' = tasksAvailable + 1
    /\ UNCHANGED <<ring, spaceAvailable, pendingTasks, prods, works, dpc, stop, hist>>

\* One token per worker, one loop iteration at a time.
DestructorRelease ==
    /\ dpc = "release"
    /\ released < Cardinality(Workers)
    /\ released' = released + 1
    /\ tasksAvailable' = tasksAvailable + 1
    /\ UNCHANGED <<ring, spaceAvailable, pendingTasks, prods, works, dpc, stop, hist>>

DestructorReleased ==
    /\ dpc = "release"
    /\ released = Cardinality(Workers)
    /\ dpc' = "join"
    /\ UNCHANGED <<ring, sems, pendingTasks, prods, works, released, stop, hist>>

\* Fault: the threads are detached, not joined.
DestructorDetach ==
    /\ dpc = "join"
    /\ dpc' = "done"
    /\ UNCHANGED <<ring, sems, pendingTasks, prods, works, released, stop, hist>>

DestructorJoin ==
    /\ dpc = "join"
    /\ \A w \in Workers : wpc[w] = "exit"
    /\ dpc' = "done"
    /\ UNCHANGED <<ring, sems, pendingTasks, prods, works, released, stop, hist>>

----------------------------------------------------------------------------
EnqueueStep(p) ==
    \/ EnqueueAcquireSpace(p)
    \/ EnqueueLock(p)
    \/ EnqueueWrite(p)
    \/ EnqueueAdvance(p)
    \/ EnqueueSignal(p)

WorkerStep(w) ==
    \/ WorkerAcquire(w)
    \/ WorkerCheckStop(w)
    \/ WorkerLock(w)
    \/ WorkerTake(w)
    \/ WorkerAdvance(w)
    \/ WorkerReleaseSpace(w)
    \/ WorkerDec(w)
    \/ WorkerRun(w)

DestructorStep ==
    \/ DestructorRelease
    \/ DestructorReleased
    \/ DestructorJoin

\* The program may end once the destructor has returned.
Destroyed == dpc = "done" /\ UNCHANGED vars

Next ==
    \/ \E p \in Producers : EnqueueCall(p) \/ EnqueueStep(p)
    \/ \E w \in Workers : WorkerStep(w)
    \/ DestructorStop
    \/ DestructorStep
    \/ Destroyed

Spec == Init /\ [][Next]_vars

\* The scheduler runs every thread, and a task returns: a call that has begun
\* is carried on.  Nobody is obliged to call enqueue or to destroy the pool.
Fairness ==
    /\ \A p \in Producers : WF_vars(EnqueueStep(p))
    /\ \A w \in Workers : WF_vars(WorkerStep(w))
    /\ WF_vars(DestructorStep)

FairSpec == Spec /\ Fairness

----------------------------------------------------------------------------
(* Properties *)

\* How many of these threads are at one of these places.
CountIn(threads, pc, places) == Cardinality({t \in threads : pc[t] \in places})

Submitting == CountIn(Producers, ppc, {"space", "lock", "write", "advance"})
Admitted   == CountIn(Producers, ppc, {"lock", "write", "advance"})
Inserting  == CountIn(Producers, ppc, {"write", "advance"})
Signalling == CountIn(Producers, ppc, {"signal"})
Woken      == CountIn(Workers, wpc, {"check", "lock", "take"})
Committed  == CountIn(Workers, wpc, {"lock", "take"})
Extracting == CountIn(Workers, wpc, {"take", "advance"})
Vacating   == CountIn(Workers, wpc, {"advance", "release"})
Uncounted  == CountIn(Workers, wpc, {"advance", "release", "dec"})
Exited     == CountIn(Workers, wpc, {"exit"})

\* Every variable holds a value of its C++ type; the counters of the
\* semaphores and pending_tasks_ (unsigned) never wrap below zero.
TypeOK ==
    /\ ringBuffer \in [Slots -> Tasks \cup {NoTask}]
    /\ head \in Slots
    /\ tail \in Slots
    /\ lock \in BOOLEAN
    /\ tasksAvailable \in Nat
    /\ spaceAvailable \in Nat
    /\ stop \in BOOLEAN
    /\ pendingTasks \in Nat
    /\ ppc \in [Producers -> PPc]
    /\ sent \in [Producers -> 0..MaxTasks]
    /\ wpc \in [Workers -> WPc]
    /\ task \in [Workers -> Tasks \cup {NoTask}]
    /\ dpc \in DPc
    /\ released \in 0..Cardinality(Workers)
    /\ queue \in Seq(Tasks)
    /\ finished \in SUBSET Tasks

\* The spinlock keeps the critical sections of enqueue and of the worker loop
\* apart: at most one thread is between test_and_set and clear.
MutualExclusion ==
    Inserting + Extracting = IF lock THEN 1 ELSE 0

\* The two semaphores, not the indices, decide who may touch the ring: a
\* producer that has reached ring_buffer_[tail_] finds the slot empty, so no
\* task is overwritten, and a worker that has reached ring_buffer_[head_]
\* finds the oldest task there, also when the destructor has handed out
\* tokens that stand for no task.
SlotDiscipline ==
    /\ \A p \in Producers : ppc[p] = "write" => ringBuffer[tail] = NoTask
    /\ \A w \in Workers : wpc[w] = "take" =>
            queue # << >> /\ ringBuffer[head] = Head(queue)

\* What getPendingTaskCount() counts: the calls still waiting to insert, the
\* tasks in the ring and the tasks taken but not yet counted down. This is not
\* what Documentation/Concurrency.md:24 and :28 say, where the counter goes up after
\* the insertion and down after the task has been executed: the code counts a
\* call that is blocked on a full ring, and does not count a task that is running.
PendingExact ==
    pendingTasks = Submitting + Len(queue) + Uncounted

\* Every slot is accounted for: free, promised to a producer, full, or about
\* to be given back by a worker.
SpaceConserved ==
    spaceAvailable + Admitted + Len(queue) + Vacating = CAPACITY

\* Every wake-up token is accounted for: one per task in the ring and one per
\* release of the destructor, except those that ended a worker.
TokensConserved ==
    tasksAvailable + Woken + Signalling + Exited = Len(queue) + released

\* Nothing is lost between the ring, the semaphores and the counter, whatever
\* threads are half-way through enqueue, the worker loop or the destructor.
Accounting == PendingExact /\ SpaceConserved /\ TokensConserved

\* Backpressure ends: a producer blocked on a full ring gets through and its
\* task is run, unless the pool is destroyed first.
EveryTaskRuns ==
    \A t \in Tasks :
        (sent[t[1]] >= t[2]) ~> (t \in finished \/ stop)

\* The destructor returns, whatever is left in the ring.
DestructorReturns == stop ~> (dpc = "done")

\* The pool implements the FIFO queue of tasks.
TQ == INSTANCE TaskQueue WITH held <- task, closed <- (dpc = "done")
ImplementsTaskQueue == TQ!QSpec
============================================================================
