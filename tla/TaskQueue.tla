----------------------------- MODULE TaskQueue -----------------------------
(***************************************************************************)
(* What concurrency::ThreadPool promises to the code that uses it: a FIFO  *)
(* queue of tasks, served by a fixed set of workers, each task handed to   *)
(* one worker and run once; once the pool is closed nothing is running and *)
(* nothing is ever started again.  ThreadPool.tla implements this module.  *)
(***************************************************************************)
EXTENDS Naturals, Sequences

CONSTANTS
    Tasks,      \* the closures a client may enqueue
    Workers,    \* the pool's threads
    NoTask      \* an empty std::function

VARIABLES
    queue,      \* accepted tasks that no worker has taken, oldest first
    held,       \* held[w]: the task worker w has taken and not finished
    finished,   \* the tasks that have been run
    closed      \* the destructor has returned

qvars == <<queue, held, finished, closed>>

QInit ==
    /\ queue = << >>
    /\ held = [w \in Workers |-> NoTask]
    /\ finished = {}
    /\ closed = FALSE

\* The task is new: it is not waiting, not held and has not been run.
Fresh(t) ==
    /\ \A i \in 1..Len(queue) : queue[i] # t
    /\ \A w \in Workers : held[w] # t
    /\ t \notin finished

Put(t) ==
    /\ ~closed
    /\ Fresh(t)
    /\ queue' = Append(queue, t)
    /\ UNCHANGED <<held, finished, closed>>

Take(w) ==
    /\ ~closed
    /\ queue # << >>
    /\ held[w] = NoTask
    /\ held' = [held EXCEPT ![w] = Head(queue)]
    /\ queue' = Tail(queue)
    /\ UNCHANGED <<finished, closed>>

Finish(w) ==
    /\ held[w] # NoTask
    /\ finished' = finished \cup {held[w]}
    /\ held' = [held EXCEPT ![w] = NoTask]
    /\ UNCHANGED <<queue, closed>>

Close ==
    /\ \A w \in Workers : held[w] = NoTask
    /\ closed' = TRUE
    /\ UNCHANGED <<queue, held, finished>>

QNext ==
    \/ \E t \in Tasks : Put(t)
    \/ \E w \in Workers : Take(w) \/ Finish(w)
    \/ Close

QSpec == QInit /\ [][QNext]_qvars
============================================================================
