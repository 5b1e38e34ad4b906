-------------------------- MODULE ThreadPoolProofs --------------------------
(***************************************************************************)
(* Proofs about ThreadPool for every number of producers and workers, every *)
(* CAPACITY and every workload.                                             *)
(***************************************************************************)
EXTENDS ThreadPool, FiniteSetTheorems, TLAPS

(***************************************************************************)
(* The inductive invariant.                                                *)
(***************************************************************************)

\* k places after slot i, going round the ring (k <= CAPACITY).
Slot(i, k) == IF i + k < CAPACITY THEN i + k ELSE i + k - CAPACITY

\* A worker has emptied ring_buffer_[head_] and not yet stored the new head.
Taking == \E w \in Workers : wpc[w] = "advance"

\* The slot of the oldest task.
Oldest == IF Taking THEN Slot(head, 1) ELSE head

\* The ring holds exactly the queue, from the oldest slot on; the other slots
\* are empty, but for the one a producer has just filled.
RingContents ==
    /\ tail = Slot(Oldest, Len(queue))
    /\ \A k \in 1..Len(queue) : ringBuffer[Slot(Oldest, k - 1)] = queue[k]
    /\ \A k \in 0..(CAPACITY - 1) :
           (k > Len(queue) \/ (k = Len(queue) /\ \A p \in Producers : ppc[p] # "advance"))
               => ringBuffer[Slot(Oldest, k)] = NoTask
    /\ \A p \in Producers : ppc[p] = "advance" => ringBuffer[tail] = Current(p)

\* Before the destructor runs no token is its own and no worker has left; after
\* it has set stop_ no producer is inside enqueue, and the workers that passed
\* the check before that still have a task each.
ShutdownBalance ==
    /\ stop <=> dpc # "alive"
    /\ ~stop => released = 0 /\ Exited = 0
    /\ stop => \A p \in Producers : ppc[p] = "idle"
    /\ stop => Committed <= Len(queue)

\* The task of a call under way has been numbered.
CallBegun == \A p \in Producers : ppc[p] # "idle" => sent[p] >= 1

IInv ==
    /\ TypeOK
    /\ CallBegun
    /\ MutualExclusion
    /\ SpaceConserved
    /\ TokensConserved
    /\ PendingExact
    /\ ShutdownBalance
    /\ RingContents

(***************************************************************************)
(* Counting the threads that are at a place.                               *)
(***************************************************************************)

\* 1 when the thread is at one of these places.
One(place, places) == IF place \in places THEN 1 ELSE 0

\* A count of threads is a natural number.
LEMMA CountType ==
    ASSUME NEW S, IsFiniteSet(S), NEW f, NEW A
    PROVE  CountIn(S, f, A) \in Nat
<1>1. IsFiniteSet({s \in S : f[s] \in A})
  BY FS_Subset
<1> QED
  BY <1>1, FS_CardinalityType DEF CountIn

\* A count is zero exactly when no thread is there.
LEMMA CountZero ==
    ASSUME NEW S, IsFiniteSet(S), NEW f, NEW A
    PROVE  CountIn(S, f, A) = 0 <=> \A s \in S : f[s] \notin A
<1>1. IsFiniteSet({s \in S : f[s] \in A})
  BY FS_Subset
<1>2. CountIn(S, f, A) = 0 <=> {s \in S : f[s] \in A} = {}
  BY <1>1, FS_EmptySet DEF CountIn
<1> QED
  BY <1>2

\* One thread moves: the count changes by that thread alone.
LEMMA CountMove ==
    ASSUME NEW S, IsFiniteSet(S), NEW f, NEW g, NEW A, NEW x \in S,
           \A s \in S \ {x} : g[s] = f[s]
    PROVE  CountIn(S, g, A)
             = CountIn(S, f, A) + One(g[x], A) - One(f[x], A)
<1> USE DEF One
<1> DEFINE F == {s \in S : f[s] \in A}
           G == {s \in S : g[s] \in A}
<1>1. IsFiniteSet(F) /\ IsFiniteSet(G)
  BY FS_Subset
<1>2. Cardinality(F) \in Nat /\ Cardinality(G) \in Nat
  BY <1>1, FS_CardinalityType
<1>3. CASE g[x] \in A /\ f[x] \in A
  <2>1. F = G BY <1>3
  <2>2. Cardinality(G) = Cardinality(F) BY <2>1
  <2> HIDE DEF F, G
  <2>3. CountIn(S, g, A) = Cardinality(G) /\ CountIn(S, f, A) = Cardinality(F) BY DEF CountIn, F, G
  <2> QED BY <2>2, <2>3, <1>2, <1>3
<1>4. CASE g[x] \notin A /\ f[x] \notin A
  <2>1. F = G BY <1>4
  <2>2. Cardinality(G) = Cardinality(F) BY <2>1
  <2> HIDE DEF F, G
  <2>3. CountIn(S, g, A) = Cardinality(G) /\ CountIn(S, f, A) = Cardinality(F) BY DEF CountIn, F, G
  <2> QED BY <2>2, <2>3, <1>2, <1>4
<1>5. CASE g[x] \in A /\ f[x] \notin A
  <2>1. x \notin F /\ G = F \cup {x} BY <1>5
  <2>2. Cardinality(G) = Cardinality(F) + 1
    BY <2>1, <1>1, FS_AddElement
  <2> QED BY <2>2, <1>2, <1>5 DEF CountIn
<1>6. CASE g[x] \notin A /\ f[x] \in A
  <2>1. x \in F /\ G = F \ {x} BY <1>6
  <2>2. Cardinality(G) = Cardinality(F) - 1
    BY <2>1, <1>1, FS_RemoveElement
  <2> QED BY <2>2, <1>2, <1>6 DEF CountIn
<1> QED
  BY <1>3, <1>4, <1>5, <1>6

\* A thread that is there makes the count positive; two make it at least two.
LEMMA CountMembers ==
    ASSUME NEW S, IsFiniteSet(S), NEW f, NEW A, NEW x \in S, f[x] \in A
    PROVE  /\ CountIn(S, f, A) >= 1
           /\ CountIn(S, f, A) = 1 => \A y \in S : f[y] \in A => y = x
<1> DEFINE F == {s \in S : f[s] \in A}
<1>1. IsFiniteSet(F) /\ IsFiniteSet(F \ {x})
  BY FS_Subset
<1>2. Cardinality(F) \in Nat /\ Cardinality(F \ {x}) \in Nat
  BY <1>1, FS_CardinalityType
<1>3. Cardinality(F \ {x}) = Cardinality(F) - 1
  BY <1>1, FS_RemoveElement
<1>4. Cardinality(F) = 1 => F \ {x} = {}
  BY <1>1, <1>2, <1>3, FS_EmptySet
<1> QED
  BY <1>2, <1>3, <1>4 DEF CountIn

\* The counts after a producer's step.
LEMMA ProducerCounts ==
    ASSUME TypeOK, NEW p \in Producers, NEW from, NEW to, PStep(p, from, to)
    PROVE  /\ Submitting' = Submitting + One(to, {"space", "lock", "write", "advance"}) - One(from, {"space", "lock", "write", "advance"})
           /\ Admitted' = Admitted + One(to, {"lock", "write", "advance"}) - One(from, {"lock", "write", "advance"})
           /\ Inserting' = Inserting + One(to, {"write", "advance"}) - One(from, {"write", "advance"})
           /\ Signalling' = Signalling + One(to, {"signal"}) - One(from, {"signal"})
<1>1. ppc \in [Producers -> PPc]
  BY DEF TypeOK
<1>2. ppc[p] = from /\ ppc'[p] = to /\ \A s \in Producers \ {p} : ppc'[s] = ppc[s]
  BY <1>1 DEF PStep
<1>3. ASSUME NEW A
      PROVE  CountIn(Producers, ppc', A) = CountIn(Producers, ppc, A) + One(to, A) - One(from, A)
  BY <1>2, CountMove, ThreadsFinite
<1> QED
  BY <1>3 DEF Submitting, Admitted, Inserting, Signalling

\* The counts after a worker's step.
LEMMA WorkerCounts ==
    ASSUME TypeOK, NEW w \in Workers, NEW from, NEW to, WStep(w, from, to)
    PROVE  /\ Woken' = Woken + One(to, {"check", "lock", "take"}) - One(from, {"check", "lock", "take"})
           /\ Committed' = Committed + One(to, {"lock", "take"}) - One(from, {"lock", "take"})
           /\ Extracting' = Extracting + One(to, {"take", "advance"}) - One(from, {"take", "advance"})
           /\ Vacating' = Vacating + One(to, {"advance", "release"}) - One(from, {"advance", "release"})
           /\ Uncounted' = Uncounted + One(to, {"advance", "release", "dec"}) - One(from, {"advance", "release", "dec"})
           /\ Exited' = Exited + One(to, {"exit"}) - One(from, {"exit"})
<1>1. wpc \in [Workers -> WPc]
  BY DEF TypeOK
<1>2. wpc[w] = from /\ wpc'[w] = to /\ \A s \in Workers \ {w} : wpc'[s] = wpc[s]
  BY <1>1 DEF WStep
<1>3. ASSUME NEW A
      PROVE  CountIn(Workers, wpc', A) = CountIn(Workers, wpc, A) + One(to, A) - One(from, A)
  BY <1>2, CountMove, ThreadsFinite
<1> QED
  BY <1>3 DEF Woken, Committed, Extracting, Vacating, Uncounted, Exited

\* The counts of threads that do not move.
LEMMA SameCounts ==
    /\ ppc' = ppc => Submitting' = Submitting /\ Admitted' = Admitted
                     /\ Inserting' = Inserting /\ Signalling' = Signalling
    /\ wpc' = wpc => Woken' = Woken /\ Committed' = Committed /\ Extracting' = Extracting
                     /\ Vacating' = Vacating /\ Uncounted' = Uncounted /\ Exited' = Exited
BY DEF Submitting, Admitted, Inserting, Signalling, Woken, Committed, Extracting, Vacating, Uncounted, Exited

\* All the counts are natural numbers.
LEMMA CountsNat ==
    /\ Submitting \in Nat
    /\ Admitted \in Nat
    /\ Inserting \in Nat
    /\ Signalling \in Nat
    /\ Woken \in Nat
    /\ Committed \in Nat
    /\ Extracting \in Nat
    /\ Vacating \in Nat
    /\ Uncounted \in Nat
    /\ Exited \in Nat
BY CountType, ThreadsFinite DEF Submitting, Admitted, Inserting, Signalling, Woken, Committed, Extracting, Vacating, Uncounted, Exited

\* The step round the ring that the code computes with %.
LEMMA NextSlotIsSlot ==
    ASSUME NEW i \in Slots
    PROVE  NextSlot(i) = Slot(i, 1) /\ Slot(i, 1) \in Slots
<1>1. CASE i + 1 < CAPACITY
  BY <1>1, CapacityPositive DEF Slots, NextSlot, Slot
<1>2. CASE i + 1 >= CAPACITY
  <2>1. i + 1 = CAPACITY BY <1>2, CapacityPositive DEF Slots
  <2>2. (i + 1) % CAPACITY = 0 BY <2>1, CapacityPositive
  <2> QED BY <2>1, <2>2, CapacityPositive DEF Slots, NextSlot, Slot
<1> QED
  BY <1>1, <1>2, CapacityPositive DEF Slots

\* Arithmetic of the ring.
LEMMA SlotFacts ==
    ASSUME NEW i \in Slots
    PROVE  /\ \A k \in 0..CAPACITY : Slot(i, k) \in Slots
           /\ \A k \in 0..(CAPACITY - 1) : Slot(Slot(i, 1), k) = Slot(i, k + 1)
           /\ \A j, k \in 0..(CAPACITY - 1) : Slot(i, j) = Slot(i, k) => j = k
           /\ Slot(i, 0) = i
           /\ Slot(i, CAPACITY) = i
BY CapacityPositive DEF Slots, Slot



(***************************************************************************)
(* What the invariant says of a thread at a given place.                   *)
(***************************************************************************)

\* A producer between test_and_set and clear is alone in there.
LEMMA ProducerAlone ==
    ASSUME MutualExclusion, lock \in BOOLEAN,
           NEW p \in Producers, ppc[p] \in {"write", "advance"}
    PROVE  /\ lock /\ Inserting = 1 /\ Extracting = 0
           /\ \A w \in Workers : wpc[w] \notin {"take", "advance"}
           /\ \A q \in Producers : ppc[q] \in {"write", "advance"} => q = p
<1>1. Inserting >= 1
  BY CountMembers, ThreadsFinite DEF Inserting
<1>2. lock /\ Inserting = 1 /\ Extracting = 0
  BY <1>1, CountsNat DEF MutualExclusion
<1>3. \A w \in Workers : wpc[w] \notin {"take", "advance"}
  BY <1>2, CountZero, ThreadsFinite DEF Extracting
<1>4. \A q \in Producers : ppc[q] \in {"write", "advance"} => q = p
  BY <1>2, CountMembers, ThreadsFinite DEF Inserting
<1> QED
  BY <1>2, <1>3, <1>4

\* And so is a worker.
LEMMA WorkerAlone ==
    ASSUME MutualExclusion, lock \in BOOLEAN,
           NEW w \in Workers, wpc[w] \in {"take", "advance"}
    PROVE  /\ lock /\ Inserting = 0 /\ Extracting = 1
           /\ \A p \in Producers : ppc[p] \notin {"write", "advance"}
           /\ \A v \in Workers : wpc[v] \in {"take", "advance"} => v = w
<1>1. Extracting >= 1
  BY CountMembers, ThreadsFinite DEF Extracting
<1>2. lock /\ Inserting = 0 /\ Extracting = 1
  BY <1>1, CountsNat DEF MutualExclusion
<1>3. \A p \in Producers : ppc[p] \notin {"write", "advance"}
  BY <1>2, CountZero, ThreadsFinite DEF Inserting
<1>4. \A v \in Workers : wpc[v] \in {"take", "advance"} => v = w
  BY <1>2, CountMembers, ThreadsFinite DEF Extracting
<1> QED
  BY <1>2, <1>3, <1>4

\* The workers past the check are among the woken ones.
LEMMA CommittedAreWoken ==
    Committed <= Woken
<1>1. {w \in Workers : wpc[w] \in {"lock", "take"}} \subseteq {w \in Workers : wpc[w] \in {"check", "lock", "take"}}
  OBVIOUS
<1>2. IsFiniteSet({w \in Workers : wpc[w] \in {"check", "lock", "take"}})
  BY ThreadsFinite, FS_Subset
<1> QED
  BY <1>1, <1>2, FS_Subset DEF Committed, Woken, CountIn

\* A worker that has passed the check finds a task in the ring.
LEMMA CommittedFindsTask ==
    ASSUME TypeOK, TokensConserved, ShutdownBalance,
           NEW w \in Workers, wpc[w] \in {"lock", "take"}
    PROVE  Len(queue) >= 1
<1>1. Committed >= 1
  BY CountMembers, ThreadsFinite DEF Committed
<1>2. Len(queue) \in Nat /\ tasksAvailable \in Nat
  BY DEF TypeOK
<1> QED
  BY <1>1, <1>2, CommittedAreWoken, CountsNat DEF TokensConserved, ShutdownBalance, TypeOK

\* The ring never holds more tasks than it has slots; a producer that has been
\* admitted, or a worker that has not yet given its slot back, leaves room.
LEMMA QueueFits ==
    ASSUME TypeOK, SpaceConserved
    PROVE  /\ Len(queue) \in 0..CAPACITY
           /\ \A p \in Producers : ppc[p] \in {"lock", "write", "advance"} => Len(queue) < CAPACITY
           /\ \A w \in Workers : wpc[w] \in {"advance", "release"} => Len(queue) < CAPACITY
<1>1. Len(queue) \in Nat /\ spaceAvailable \in Nat
  BY DEF TypeOK
<1>2. \A p \in Producers : ppc[p] \in {"lock", "write", "advance"} => Admitted >= 1
  BY CountMembers, ThreadsFinite DEF Admitted
<1>3. \A w \in Workers : wpc[w] \in {"advance", "release"} => Vacating >= 1
  BY CountMembers, ThreadsFinite DEF Vacating
<1> QED
  BY <1>1, <1>2, <1>3, CountsNat, CapacityPositive DEF SpaceConserved

(***************************************************************************)
(* Every step preserves the invariant, one part of it at a time.           *)
(***************************************************************************)

\* What the semaphores, the lock and the counter account for is preserved.
LEMMA AccountsStep ==
    ASSUME IInv, Next
    PROVE  (MutualExclusion /\ SpaceConserved /\ TokensConserved /\ PendingExact /\ ShutdownBalance)'
<1> USE DEF ring, sems, prods, works, dtor, hist
<1>0. /\ Len(queue) \in Nat /\ tasksAvailable \in Nat /\ spaceAvailable \in Nat
      /\ pendingTasks \in Nat /\ lock \in BOOLEAN /\ queue \in Seq(Tasks) /\ released \in Nat
  BY ThreadsFinite, FS_CardinalityType DEF IInv, TypeOK
<1>1. ASSUME NEW p \in Producers, EnqueueCall(p)
      PROVE  (MutualExclusion /\ SpaceConserved /\ TokensConserved /\ PendingExact /\ ShutdownBalance)'
  <2>1. PStep(p, "idle", "space") /\ wpc' = wpc
    BY <1>1 DEF EnqueueCall
  <2>2. /\ Submitting' = Submitting + 1 /\ Admitted' = Admitted /\ Inserting' = Inserting
           /\ Signalling' = Signalling
    BY <2>1, CountsNat, ProducerCounts DEF One, IInv
  <2>5. (MutualExclusion /\ SpaceConserved /\ TokensConserved /\ PendingExact)'
    BY <1>0, <1>1, <2>1, <2>2, CountsNat, SameCounts
    DEF EnqueueCall, IInv, MutualExclusion, SpaceConserved, TokensConserved, PendingExact
  <2>6. ShutdownBalance'
    BY <1>0, <1>1, <2>1, <2>2, CountsNat, SameCounts
    DEF EnqueueCall, PStep, IInv, TypeOK, TokensConserved, ShutdownBalance
  <2> QED
    BY <2>5, <2>6
<1>2. ASSUME NEW p \in Producers, EnqueueAcquireSpace(p)
      PROVE  (MutualExclusion /\ SpaceConserved /\ TokensConserved /\ PendingExact /\ ShutdownBalance)'
  <2>1. PStep(p, "space", "lock") /\ wpc' = wpc
    BY <1>2 DEF EnqueueAcquireSpace
  <2>2. /\ Submitting' = Submitting /\ Admitted' = Admitted + 1 /\ Inserting' = Inserting
           /\ Signalling' = Signalling
    BY <2>1, CountsNat, ProducerCounts DEF One, IInv
  <2>5. (MutualExclusion /\ SpaceConserved /\ TokensConserved /\ PendingExact)'
    BY <1>0, <1>2, <2>1, <2>2, CountsNat, SameCounts
    DEF EnqueueAcquireSpace, IInv, MutualExclusion, SpaceConserved, TokensConserved, PendingExact
  <2>6. ShutdownBalance'
    BY <1>0, <1>2, <2>1, <2>2, CountsNat, SameCounts
    DEF EnqueueAcquireSpace, PStep, IInv, TypeOK, TokensConserved, ShutdownBalance
  <2> QED
    BY <2>5, <2>6
<1>3. ASSUME NEW p \in Producers, EnqueueLock(p)
      PROVE  (MutualExclusion /\ SpaceConserved /\ TokensConserved /\ PendingExact /\ ShutdownBalance)'
  <2>1. PStep(p, "lock", "write") /\ wpc' = wpc
    BY <1>3 DEF EnqueueLock
  <2>2. /\ Submitting' = Submitting /\ Admitted' = Admitted /\ Inserting' = Inserting + 1
           /\ Signalling' = Signalling
    BY <2>1, CountsNat, ProducerCounts DEF One, IInv
  <2>5. (MutualExclusion /\ SpaceConserved /\ TokensConserved /\ PendingExact)'
    BY <1>0, <1>3, <2>1, <2>2, CountsNat, SameCounts
    DEF EnqueueLock, IInv, MutualExclusion, SpaceConserved, TokensConserved, PendingExact
  <2>6. ShutdownBalance'
    BY <1>0, <1>3, <2>1, <2>2, CountsNat, SameCounts
    DEF EnqueueLock, PStep, IInv, TypeOK, TokensConserved, ShutdownBalance
  <2> QED
    BY <2>5, <2>6
<1>4. ASSUME NEW p \in Producers, EnqueueWrite(p)
      PROVE  (MutualExclusion /\ SpaceConserved /\ TokensConserved /\ PendingExact /\ ShutdownBalance)'
  <2>1. PStep(p, "write", "advance") /\ wpc' = wpc
    BY <1>4 DEF EnqueueWrite
  <2>2. /\ Submitting' = Submitting /\ Admitted' = Admitted /\ Inserting' = Inserting
           /\ Signalling' = Signalling
    BY <2>1, CountsNat, ProducerCounts DEF One, IInv
  <2>5. (MutualExclusion /\ SpaceConserved /\ TokensConserved /\ PendingExact)'
    BY <1>0, <1>4, <2>1, <2>2, CountsNat, SameCounts
    DEF EnqueueWrite, IInv, MutualExclusion, SpaceConserved, TokensConserved, PendingExact
  <2>6. ShutdownBalance'
    BY <1>0, <1>4, <2>1, <2>2, CountsNat, SameCounts
    DEF EnqueueWrite, PStep, IInv, TypeOK, TokensConserved, ShutdownBalance
  <2> QED
    BY <2>5, <2>6
<1>5. ASSUME NEW p \in Producers, EnqueueAdvance(p)
      PROVE  (MutualExclusion /\ SpaceConserved /\ TokensConserved /\ PendingExact /\ ShutdownBalance)'
  <2>1. PStep(p, "advance", "signal") /\ wpc' = wpc
    BY <1>5 DEF EnqueueAdvance
  <2>2. /\ Submitting' = Submitting - 1 /\ Admitted' = Admitted - 1
           /\ Inserting' = Inserting - 1 /\ Signalling' = Signalling + 1
    BY <2>1, CountsNat, ProducerCounts DEF One, IInv
  <2>3. lock /\ Inserting = 1 /\ Extracting = 0
    BY <2>1, <1>0, ProducerAlone DEF PStep, IInv
  <2>4. Len(queue') = Len(queue) + 1
    BY <1>5, <1>0 DEF EnqueueAdvance
  <2>5. (MutualExclusion /\ SpaceConserved /\ TokensConserved /\ PendingExact)'
    <3>1. /\ lock' = FALSE /\ tasksAvailable' = tasksAvailable /\ spaceAvailable' = spaceAvailable
          /\ pendingTasks' = pendingTasks /\ released' = released
      BY <1>5 DEF EnqueueAdvance
    <3> QED
      BY <1>0, <2>1, <2>2, <2>3, <2>4, <3>1, CountsNat, SameCounts
      DEF IInv, MutualExclusion, SpaceConserved, TokensConserved, PendingExact
  <2>6. ShutdownBalance'
    BY <1>0, <1>5, <2>1, <2>2, <2>3, <2>4, CountsNat, SameCounts
    DEF EnqueueAdvance, PStep, IInv, TypeOK, TokensConserved, ShutdownBalance
  <2> QED
    BY <2>5, <2>6
<1>6. ASSUME NEW p \in Producers, EnqueueSignal(p)
      PROVE  (MutualExclusion /\ SpaceConserved /\ TokensConserved /\ PendingExact /\ ShutdownBalance)'
  <2>1. PStep(p, "signal", "idle") /\ wpc' = wpc
    BY <1>6 DEF EnqueueSignal
  <2>2. /\ Submitting' = Submitting /\ Admitted' = Admitted /\ Inserting' = Inserting
           /\ Signalling' = Signalling - 1
    BY <2>1, CountsNat, ProducerCounts DEF One, IInv
  <2>5. (MutualExclusion /\ SpaceConserved /\ TokensConserved /\ PendingExact)'
    BY <1>0, <1>6, <2>1, <2>2, CountsNat, SameCounts
    DEF EnqueueSignal, IInv, MutualExclusion, SpaceConserved, TokensConserved, PendingExact
  <2>6. ShutdownBalance'
    BY <1>0, <1>6, <2>1, <2>2, CountsNat, SameCounts
    DEF EnqueueSignal, PStep, IInv, TypeOK, TokensConserved, ShutdownBalance
  <2> QED
    BY <2>5, <2>6
<1>7. ASSUME NEW w \in Workers, WorkerAcquire(w)
      PROVE  (MutualExclusion /\ SpaceConserved /\ TokensConserved /\ PendingExact /\ ShutdownBalance)'
  <2>1. WStep(w, "wait", "check") /\ ppc' = ppc
    BY <1>7 DEF WorkerAcquire
  <2>2. /\ Woken' = Woken + 1 /\ Committed' = Committed /\ Extracting' = Extracting
           /\ Vacating' = Vacating /\ Uncounted' = Uncounted /\ Exited' = Exited
    BY <2>1, CountsNat, WorkerCounts DEF One, IInv
  <2>5. (MutualExclusion /\ SpaceConserved /\ TokensConserved /\ PendingExact)'
    BY <1>0, <1>7, <2>1, <2>2, CountsNat, SameCounts
    DEF WorkerAcquire, IInv, MutualExclusion, SpaceConserved, TokensConserved, PendingExact
  <2>6. ShutdownBalance'
    BY <1>0, <1>7, <2>1, <2>2, CountsNat, SameCounts
    DEF WorkerAcquire, WStep, IInv, TypeOK, TokensConserved, ShutdownBalance
  <2> QED
    BY <2>5, <2>6
<1>8. ASSUME NEW w \in Workers, WorkerLock(w)
      PROVE  (MutualExclusion /\ SpaceConserved /\ TokensConserved /\ PendingExact /\ ShutdownBalance)'
  <2>1. WStep(w, "lock", "take") /\ ppc' = ppc
    BY <1>8 DEF WorkerLock
  <2>2. /\ Woken' = Woken /\ Committed' = Committed /\ Extracting' = Extracting + 1
           /\ Vacating' = Vacating /\ Uncounted' = Uncounted /\ Exited' = Exited
    BY <2>1, CountsNat, WorkerCounts DEF One, IInv
  <2>5. (MutualExclusion /\ SpaceConserved /\ TokensConserved /\ PendingExact)'
    BY <1>0, <1>8, <2>1, <2>2, CountsNat, SameCounts
    DEF WorkerLock, IInv, MutualExclusion, SpaceConserved, TokensConserved, PendingExact
  <2>6. ShutdownBalance'
    BY <1>0, <1>8, <2>1, <2>2, CountsNat, SameCounts
    DEF WorkerLock, WStep, IInv, TypeOK, TokensConserved, ShutdownBalance
  <2> QED
    BY <2>5, <2>6
<1>9. ASSUME NEW w \in Workers, WorkerTake(w)
      PROVE  (MutualExclusion /\ SpaceConserved /\ TokensConserved /\ PendingExact /\ ShutdownBalance)'
  <2>1. WStep(w, "take", "advance") /\ ppc' = ppc
    BY <1>9 DEF WorkerTake
  <2>2. /\ Woken' = Woken - 1 /\ Committed' = Committed - 1 /\ Extracting' = Extracting
           /\ Vacating' = Vacating + 1 /\ Uncounted' = Uncounted + 1 /\ Exited' = Exited
    BY <2>1, CountsNat, WorkerCounts DEF One, IInv
  <2>3. Len(queue) >= 1
    BY <2>1, CommittedFindsTask DEF WStep, IInv
  <2>4. Len(queue') = Len(queue) - 1
    BY <1>9, <1>0, <2>3 DEF WorkerTake
  <2>5. (MutualExclusion /\ SpaceConserved /\ TokensConserved /\ PendingExact)'
    <3>1. /\ lock' = lock /\ tasksAvailable' = tasksAvailable /\ spaceAvailable' = spaceAvailable
          /\ pendingTasks' = pendingTasks /\ released' = released
      BY <1>9 DEF WorkerTake
    <3> QED
      BY <1>0, <2>1, <2>2, <2>3, <2>4, <3>1, CountsNat, SameCounts
      DEF IInv, MutualExclusion, SpaceConserved, TokensConserved, PendingExact
  <2>6. ShutdownBalance'
    BY <1>0, <1>9, <2>1, <2>2, <2>3, <2>4, CountsNat, SameCounts
    DEF WorkerTake, WStep, IInv, TypeOK, TokensConserved, ShutdownBalance
  <2> QED
    BY <2>5, <2>6
<1>10. ASSUME NEW w \in Workers, WorkerAdvance(w)
      PROVE  (MutualExclusion /\ SpaceConserved /\ TokensConserved /\ PendingExact /\ ShutdownBalance)'
  <2>1. WStep(w, "advance", "release") /\ ppc' = ppc
    BY <1>10 DEF WorkerAdvance
  <2>2. /\ Woken' = Woken /\ Committed' = Committed /\ Extracting' = Extracting - 1
           /\ Vacating' = Vacating /\ Uncounted' = Uncounted /\ Exited' = Exited
    BY <2>1, CountsNat, WorkerCounts DEF One, IInv
  <2>3. lock /\ Extracting = 1 /\ Inserting = 0
    BY <2>1, <1>0, WorkerAlone DEF WStep, IInv
  <2>5. (MutualExclusion /\ SpaceConserved /\ TokensConserved /\ PendingExact)'
    BY <1>0, <1>10, <2>1, <2>2, <2>3, CountsNat, SameCounts
    DEF WorkerAdvance, IInv, MutualExclusion, SpaceConserved, TokensConserved, PendingExact
  <2>6. ShutdownBalance'
    BY <1>0, <1>10, <2>1, <2>2, <2>3, CountsNat, SameCounts
    DEF WorkerAdvance, WStep, IInv, TypeOK, TokensConserved, ShutdownBalance
  <2> QED
    BY <2>5, <2>6
<1>11. ASSUME NEW w \in Workers, WorkerReleaseSpace(w)
      PROVE  (MutualExclusion /\ SpaceConserved /\ TokensConserved /\ PendingExact /\ ShutdownBalance)'
  <2>1. WStep(w, "release", "dec") /\ ppc' = ppc
    BY <1>11 DEF WorkerReleaseSpace
  <2>2. /\ Woken' = Woken /\ Committed' = Committed /\ Extracting' = Extracting
           /\ Vacating' = Vacating - 1 /\ Uncounted' = Uncounted /\ Exited' = Exited
    BY <2>1, CountsNat, WorkerCounts DEF One, IInv
  <2>5. (MutualExclusion /\ SpaceConserved /\ TokensConserved /\ PendingExact)'
    BY <1>0, <1>11, <2>1, <2>2, CountsNat, SameCounts
    DEF WorkerReleaseSpace, IInv, MutualExclusion, SpaceConserved, TokensConserved, PendingExact
  <2>6. ShutdownBalance'
    BY <1>0, <1>11, <2>1, <2>2, CountsNat, SameCounts
    DEF WorkerReleaseSpace, WStep, IInv, TypeOK, TokensConserved, ShutdownBalance
  <2> QED
    BY <2>5, <2>6
<1>12. ASSUME NEW w \in Workers, WorkerDec(w)
      PROVE  (MutualExclusion /\ SpaceConserved /\ TokensConserved /\ PendingExact /\ ShutdownBalance)'
  <2>1. WStep(w, "dec", "run") /\ ppc' = ppc
    BY <1>12 DEF WorkerDec
  <2>2. /\ Woken' = Woken /\ Committed' = Committed /\ Extracting' = Extracting
           /\ Vacating' = Vacating /\ Uncounted' = Uncounted - 1 /\ Exited' = Exited
    BY <2>1, CountsNat, WorkerCounts DEF One, IInv
  <2>5. (MutualExclusion /\ SpaceConserved /\ TokensConserved /\ PendingExact)'
    BY <1>0, <1>12, <2>1, <2>2, CountsNat, SameCounts
    DEF WorkerDec, IInv, MutualExclusion, SpaceConserved, TokensConserved, PendingExact
  <2>6. ShutdownBalance'
    BY <1>0, <1>12, <2>1, <2>2, CountsNat, SameCounts
    DEF WorkerDec, WStep, IInv, TypeOK, TokensConserved, ShutdownBalance
  <2> QED
    BY <2>5, <2>6
<1>13. ASSUME NEW w \in Workers, WorkerRun(w)
      PROVE  (MutualExclusion /\ SpaceConserved /\ TokensConserved /\ PendingExact /\ ShutdownBalance)'
  <2>1. WStep(w, "run", "wait") /\ ppc' = ppc
    BY <1>13 DEF WorkerRun
  <2>2. /\ Woken' = Woken /\ Committed' = Committed /\ Extracting' = Extracting
           /\ Vacating' = Vacating /\ Uncounted' = Uncounted /\ Exited' = Exited
    BY <2>1, CountsNat, WorkerCounts DEF One, IInv
  <2>5. (MutualExclusion /\ SpaceConserved /\ TokensConserved /\ PendingExact)'
    BY <1>0, <1>13, <2>1, <2>2, CountsNat, SameCounts
    DEF WorkerRun, IInv, MutualExclusion, SpaceConserved, TokensConserved, PendingExact
  <2>6. ShutdownBalance'
    BY <1>0, <1>13, <2>1, <2>2, CountsNat, SameCounts
    DEF WorkerRun, WStep, IInv, TypeOK, TokensConserved, ShutdownBalance
  <2> QED
    BY <2>5, <2>6
<1>14. ASSUME NEW w \in Workers, WorkerCheckStop(w)
      PROVE  (MutualExclusion /\ SpaceConserved /\ TokensConserved /\ PendingExact /\ ShutdownBalance)'
  <2>1. ppc' = ppc /\ stop \in BOOLEAN
    BY <1>14 DEF WorkerCheckStop, IInv, TypeOK
  <2>2. CASE stop
    <3>1. WStep(w, "check", "exit")
      BY <1>14, <2>2 DEF WorkerCheckStop
    <3>2. /\ Woken' = Woken - 1 /\ Committed' = Committed /\ Extracting' = Extracting
             /\ Vacating' = Vacating /\ Uncounted' = Uncounted /\ Exited' = Exited + 1
      BY <3>1, CountsNat, WorkerCounts DEF One, IInv
    <3> QED
      BY <1>0, <1>14, <2>1, <2>2, <3>2, CountsNat, SameCounts
      DEF WorkerCheckStop, IInv, MutualExclusion, SpaceConserved, TokensConserved, PendingExact, ShutdownBalance
  <2>3. CASE ~stop
    <3>1. WStep(w, "check", "lock")
      BY <1>14, <2>3 DEF WorkerCheckStop
    <3>2. /\ Woken' = Woken /\ Committed' = Committed + 1 /\ Extracting' = Extracting
             /\ Vacating' = Vacating /\ Uncounted' = Uncounted /\ Exited' = Exited
      BY <3>1, CountsNat, WorkerCounts DEF One, IInv
    <3> QED
      BY <1>0, <1>14, <2>1, <2>3, <3>2, CountsNat, SameCounts
      DEF WorkerCheckStop, IInv, MutualExclusion, SpaceConserved, TokensConserved, PendingExact, ShutdownBalance
  <2> QED
    BY <2>2, <2>3
<1>15. CASE DestructorStop
  <2>1. Committed <= Len(queue)
    BY <1>0, <1>15, CommittedAreWoken, CountsNat DEF DestructorStop, IInv, TokensConserved, ShutdownBalance
  <2> QED
    BY <1>0, <1>15, <2>1, CountsNat, SameCounts
    DEF DestructorStop, IInv, MutualExclusion, SpaceConserved, TokensConserved, PendingExact, ShutdownBalance
<1>16. CASE DestructorRelease
  <2>1. (MutualExclusion /\ SpaceConserved /\ PendingExact)'
    BY <1>16, SameCounts DEF DestructorRelease, IInv, MutualExclusion, SpaceConserved, PendingExact
  <2>2. TokensConserved'
    BY <1>0, <1>16, CountsNat, SameCounts, SMTT(40) DEF DestructorRelease, IInv, TokensConserved
  <2>3. ShutdownBalance'
    BY <1>16, SameCounts DEF DestructorRelease, IInv, ShutdownBalance
  <2> QED
    BY <2>1, <2>2, <2>3
<1>17. CASE DestructorReleased
  BY <1>0, <1>17, CountsNat, SameCounts
  DEF DestructorReleased, IInv, TypeOK, MutualExclusion, SpaceConserved, TokensConserved, PendingExact, ShutdownBalance
<1>18. CASE DestructorJoin
  BY <1>0, <1>18, CountsNat, SameCounts
  DEF DestructorJoin, IInv, TypeOK, MutualExclusion, SpaceConserved, TokensConserved, PendingExact, ShutdownBalance
<1>19. CASE Destroyed
  BY <1>19, SameCounts
  DEF Destroyed, vars, IInv, MutualExclusion, SpaceConserved, TokensConserved, PendingExact, ShutdownBalance
<1> QED
  BY <1>1, <1>2, <1>3, <1>4, <1>5, <1>6, <1>7, <1>8, <1>9, <1>10, <1>11, <1>12, <1>13, <1>14, <1>15, <1>16, <1>17, <1>18, <1>19
  DEF Next, EnqueueStep, WorkerStep, DestructorStep

\* The types are preserved, and a call under way keeps its number.
LEMMA TypeStep ==
    ASSUME IInv, Next
    PROVE  TypeOK' /\ CallBegun'
<1> USE DEF ring, sems, prods, works, dtor, hist
<1>0. TypeOK /\ CallBegun
  BY DEF IInv
<1>1. ASSUME NEW p \in Producers, EnqueueCall(p) \/ EnqueueAcquireSpace(p) \/ EnqueueLock(p) \/ EnqueueSignal(p)
      PROVE  TypeOK' /\ CallBegun'
  <2>1. CASE EnqueueCall(p)
    BY <1>0, <2>1, MaxTasksNat DEF TypeOK, CallBegun, EnqueueCall, PStep, PPc
  <2>2. CASE EnqueueAcquireSpace(p)
    BY <1>0, <2>2, MaxTasksNat DEF TypeOK, CallBegun, EnqueueAcquireSpace, PStep, PPc
  <2>3. CASE EnqueueLock(p)
    BY <1>0, <2>3, MaxTasksNat DEF TypeOK, CallBegun, EnqueueLock, PStep, PPc
  <2>4. CASE EnqueueSignal(p)
    BY <1>0, <2>4, MaxTasksNat DEF TypeOK, CallBegun, EnqueueSignal, PStep, PPc
  <2> QED
    BY <1>1, <2>1, <2>2, <2>3, <2>4
<1>2. ASSUME NEW p \in Producers, EnqueueWrite(p) \/ EnqueueAdvance(p)
      PROVE  TypeOK' /\ CallBegun'
  <2>1. Current(p) \in Tasks
    BY <1>0, <1>2, MaxTasksNat DEF TypeOK, CallBegun, EnqueueWrite, EnqueueAdvance, PStep, Current, Tasks
  <2>2. NextSlot(tail) \in Slots
    BY <1>0, NextSlotIsSlot DEF TypeOK
  <2>3. CASE EnqueueWrite(p)
    BY <1>0, <2>3, <2>1, <2>2 DEF TypeOK, CallBegun, EnqueueWrite, PStep, PPc
  <2>4. CASE EnqueueAdvance(p)
    <3>1. queue' \in Seq(Tasks)
      BY <1>0, <2>1, <2>4 DEF TypeOK, EnqueueAdvance
    <3> QED
      BY <1>0, <2>2, <2>4, <3>1 DEF TypeOK, CallBegun, EnqueueAdvance, PStep, PPc
  <2> QED
    BY <1>2, <2>3, <2>4
<1>3. ASSUME NEW w \in Workers, WorkerAcquire(w) \/ WorkerCheckStop(w) \/ WorkerLock(w) \/ WorkerReleaseSpace(w)
      PROVE  TypeOK' /\ CallBegun'
  <2>1. CASE WorkerAcquire(w)
    BY <1>0, <2>1 DEF TypeOK, CallBegun, WorkerAcquire, WStep, WPc
  <2>2. CASE WorkerCheckStop(w)
    BY <1>0, <2>2 DEF TypeOK, CallBegun, WorkerCheckStop, WStep, WPc
  <2>3. CASE WorkerLock(w)
    BY <1>0, <2>3 DEF TypeOK, CallBegun, WorkerLock, WStep, WPc
  <2>4. CASE WorkerReleaseSpace(w)
    BY <1>0, <2>4 DEF TypeOK, CallBegun, WorkerReleaseSpace, WStep, WPc
  <2> QED
    BY <1>3, <2>1, <2>2, <2>3, <2>4
<1>4. ASSUME NEW w \in Workers, WorkerTake(w)
      PROVE  TypeOK' /\ CallBegun'
  <2>1. queue' \in Seq(Tasks)
    BY <1>0, <1>4 DEF WorkerTake, TypeOK
  <2> QED
    BY <1>0, <1>4, <2>1 DEF TypeOK, CallBegun, WorkerTake, WStep, WPc
<1>5. ASSUME NEW w \in Workers, WorkerAdvance(w)
      PROVE  TypeOK' /\ CallBegun'
  <2>1. NextSlot(head) \in Slots
    BY <1>0, NextSlotIsSlot DEF TypeOK
  <2> QED
    BY <1>0, <1>5, <2>1 DEF TypeOK, CallBegun, WorkerAdvance, WStep, WPc
<1>6. ASSUME NEW w \in Workers, WorkerDec(w)
      PROVE  TypeOK' /\ CallBegun'
  <2>1. Uncounted >= 1
    BY <1>6, CountMembers, ThreadsFinite DEF Uncounted, WorkerDec, WStep
  <2>2. Len(queue) \in Nat /\ pendingTasks \in Nat
    BY <1>0 DEF TypeOK
  <2>3. pendingTasks - 1 \in Nat
    BY <2>1, <2>2, CountsNat DEF IInv, PendingExact
  <2> QED
    BY <1>0, <1>6, <2>3 DEF TypeOK, CallBegun, WorkerDec, WStep, WPc
<1>7. ASSUME NEW w \in Workers, WorkerRun(w)
      PROVE  TypeOK' /\ CallBegun'
  BY <1>0, <1>7 DEF TypeOK, CallBegun, WorkerRun, WStep, WPc
<1>8. CASE DestructorStop \/ DestructorReleased \/ DestructorJoin \/ Destroyed
  BY <1>0, <1>8
  DEF TypeOK, CallBegun, DestructorStop, DestructorReleased, DestructorJoin, Destroyed, vars, DPc
<1>9. CASE DestructorRelease
  <2>1. Cardinality(Workers) \in Nat
    BY ThreadsFinite, FS_CardinalityType
  <2> QED
    BY <1>0, <1>9, <2>1 DEF TypeOK, CallBegun, DestructorRelease
<1> QED
  BY <1>1, <1>2, <1>3, <1>4, <1>5, <1>6, <1>7, <1>8, <1>9 DEF Next, EnqueueStep, WorkerStep, DestructorStep

\* A step outside the critical sections leaves the ring as it is.
LEMMA RingUntouched ==
    ASSUME RingContents, UNCHANGED <<ringBuffer, head, tail, queue>>,
           \A w \in Workers : wpc'[w] = "advance" <=> wpc[w] = "advance",
           \A p \in Producers : ppc'[p] = "advance" <=> ppc[p] = "advance",
           \A p \in Producers : ppc[p] = "advance" => sent'[p] = sent[p]
    PROVE  RingContents'
<1>1. Taking' = Taking
  BY DEF Taking
<1>2. Oldest' = Oldest
  BY <1>1 DEF Oldest, Slot
<1> QED
  BY <1>2 DEF RingContents, Current, Slot

\* The ring goes on holding the queue.
LEMMA RingStep ==
    ASSUME IInv, Next
    PROVE  RingContents'
<1> USE DEF ring, sems, prods, works, dtor, hist
<1>0. /\ TypeOK /\ MutualExclusion /\ SpaceConserved /\ RingContents
      /\ TokensConserved /\ ShutdownBalance /\ lock \in BOOLEAN
      /\ head \in Slots /\ tail \in Slots /\ queue \in Seq(Tasks)
      /\ ringBuffer \in [Slots -> Tasks \cup {NoTask}]
  BY DEF IInv, TypeOK
<1>1. ASSUME NEW p \in Producers, EnqueueCall(p) \/ EnqueueAcquireSpace(p) \/ EnqueueLock(p) \/ EnqueueSignal(p)
      PROVE  RingContents'
  <2>1. /\ UNCHANGED <<ringBuffer, head, tail, queue, wpc>>
        /\ \A q \in Producers : ppc'[q] = "advance" <=> ppc[q] = "advance"
        /\ \A q \in Producers : ppc[q] = "advance" => sent'[q] = sent[q]
    BY <1>0, <1>1
    DEF TypeOK, EnqueueCall, EnqueueAcquireSpace, EnqueueLock, EnqueueSignal, PStep
  <2> QED
    BY <1>0, <2>1, RingUntouched
<1>2. ASSUME NEW p \in Producers, EnqueueWrite(p)
      PROVE  RingContents'
  <2>1. /\ \A w \in Workers : wpc[w] # "advance"
        /\ \A q \in Producers : ppc[q] # "advance"
        /\ Len(queue) \in 0..(CAPACITY - 1)
    BY <1>0, <1>2, ProducerAlone, QueueFits, CapacityPositive DEF EnqueueWrite, PStep
  <2>2. /\ ~Taking /\ ~Taking' /\ Oldest = head /\ Oldest' = head
        /\ UNCHANGED <<head, tail, queue, sent>>
    BY <1>2, <2>1 DEF EnqueueWrite, Taking, Oldest
  <2>3. ringBuffer' = [ringBuffer EXCEPT ![tail] = Current(p)] /\ Current(p)' = Current(p)
    BY <1>2, <2>2 DEF EnqueueWrite, Current
  <2>4. tail = Slot(head, Len(queue))
    BY <1>0, <2>2 DEF RingContents
  <2>5. \A k \in 1..Len(queue) : ringBuffer'[Slot(head, k - 1)] = queue[k]
    <3> SUFFICES ASSUME NEW k \in 1..Len(queue) PROVE ringBuffer'[Slot(head, k - 1)] = queue[k]
      OBVIOUS
    <3>1. k - 1 \in 0..(CAPACITY - 1) /\ k - 1 # Len(queue)
      BY <2>1, CapacityPositive
    <3>2. Slot(head, k - 1) # tail /\ Slot(head, k - 1) \in Slots
      BY <1>0, <2>1, <2>4, <3>1, SlotFacts, CapacityPositive
    <3>3. ringBuffer[Slot(head, k - 1)] = queue[k]
      BY <1>0, <2>2 DEF RingContents
    <3> QED
      BY <1>0, <2>3, <3>2, <3>3
  <2>6. \A k \in 0..(CAPACITY - 1) : k > Len(queue) => ringBuffer'[Slot(head, k)] = NoTask
    <3> SUFFICES ASSUME NEW k \in 0..(CAPACITY - 1), k > Len(queue) PROVE ringBuffer'[Slot(head, k)] = NoTask
      OBVIOUS
    <3>1. Slot(head, k) # tail /\ Slot(head, k) \in Slots
      BY <1>0, <2>1, <2>4, SlotFacts, CapacityPositive
    <3>2. ringBuffer[Slot(head, k)] = NoTask
      BY <1>0, <2>2 DEF RingContents
    <3> QED
      BY <1>0, <2>3, <3>1, <3>2
  <2>7. ppc'[p] = "advance" /\ \A q \in Producers : ppc'[q] = "advance" => q = p
    BY <1>0, <1>2, <2>1 DEF EnqueueWrite, PStep, TypeOK
  <2>8. ringBuffer'[tail] = Current(p)
    BY <1>0, <2>3
  <2> QED
    BY <2>2, <2>3, <2>4, <2>5, <2>6, <2>7, <2>8 DEF RingContents, Slot
<1>3. ASSUME NEW p \in Producers, EnqueueAdvance(p)
      PROVE  RingContents'
  <2>1. /\ \A w \in Workers : wpc[w] # "advance"
        /\ Len(queue) \in 0..(CAPACITY - 1)
        /\ \A q \in Producers : ppc[q] = "advance" => q = p
    BY <1>0, <1>3, ProducerAlone, QueueFits, CapacityPositive DEF EnqueueAdvance, PStep
  <2>2. /\ ~Taking /\ ~Taking' /\ Oldest = head /\ Oldest' = head
        /\ UNCHANGED <<ringBuffer, head>>
        /\ \A q \in Producers : ppc'[q] # "advance"
    BY <1>0, <1>3, <2>1 DEF EnqueueAdvance, PStep, Taking, Oldest, TypeOK
  <2>3. ringBuffer[tail] = Current(p) /\ tail = Slot(head, Len(queue))
    BY <1>0, <1>3, <2>2 DEF RingContents, EnqueueAdvance, PStep
  <2>4. tail' = Slot(tail, 1)
    BY <1>0, <1>3, NextSlotIsSlot DEF EnqueueAdvance
  <2>5. tail' = Slot(head, Len(queue) + 1)
    BY <1>0, <2>1, <2>3, <2>4, CapacityPositive DEF Slot, Slots
  <2>6. queue' = Append(queue, Current(p)) /\ Len(queue') = Len(queue) + 1
    BY <1>0, <1>3 DEF EnqueueAdvance
  <2>7. \A k \in 1..Len(queue') : ringBuffer[Slot(head, k - 1)] = queue'[k]
    <3> SUFFICES ASSUME NEW k \in 1..(Len(queue) + 1) PROVE ringBuffer[Slot(head, k - 1)] = queue'[k]
      BY <2>6
    <3>1. CASE k = Len(queue) + 1
      BY <1>0, <2>1, <2>3, <2>6, <3>1
    <3>2. CASE k # Len(queue) + 1
      <4>1. k \in 1..Len(queue)
        BY <2>1, <3>2
      <4>2. queue'[k] = queue[k]
        BY <1>0, <2>6, <4>1
      <4> QED
        BY <1>0, <2>2, <4>1, <4>2 DEF RingContents
    <3> QED
      BY <3>1, <3>2
  <2>8. \A k \in 0..(CAPACITY - 1) : k >= Len(queue') => ringBuffer[Slot(head, k)] = NoTask
    BY <1>0, <2>1, <2>2, <2>6 DEF RingContents
  <2> QED
    BY <2>1, <2>2, <2>5, <2>6, <2>7, <2>8, CapacityPositive DEF RingContents, Slot
<1>4. ASSUME NEW w \in Workers, WorkerAcquire(w) \/ WorkerCheckStop(w) \/ WorkerLock(w)
                               \/ WorkerReleaseSpace(w) \/ WorkerDec(w) \/ WorkerRun(w)
      PROVE  RingContents'
  <2>1. /\ UNCHANGED <<ringBuffer, head, tail, queue, ppc, sent>>
        /\ \A v \in Workers : wpc'[v] = "advance" <=> wpc[v] = "advance"
    BY <1>0, <1>4
    DEF TypeOK, WorkerAcquire, WorkerCheckStop, WorkerLock, WorkerReleaseSpace, WorkerDec, WorkerRun, WStep
  <2> QED
    BY <1>0, <2>1, RingUntouched
<1>5. ASSUME NEW w \in Workers, WorkerTake(w)
      PROVE  RingContents'
  <2>1. /\ \A v \in Workers : wpc[v] # "advance"
        /\ \A p \in Producers : ppc[p] # "advance"
        /\ Len(queue) \in 1..CAPACITY
    BY <1>0, <1>5, WorkerAlone, QueueFits, CommittedFindsTask, CapacityPositive DEF WorkerTake, WStep
  <2>2. /\ ~Taking /\ Taking' /\ Oldest = head /\ Oldest' = Slot(head, 1)
        /\ UNCHANGED <<head, tail, ppc, sent>>
    BY <1>0, <1>5, <2>1 DEF WorkerTake, WStep, Taking, Oldest, Slot, TypeOK
  <2>3. ringBuffer' = [ringBuffer EXCEPT ![head] = NoTask]
    BY <1>5 DEF WorkerTake
  <2>4. queue' = Tail(queue) /\ Len(queue') = Len(queue) - 1 /\ \A k \in 1..Len(queue') : queue'[k] = queue[k + 1]
    BY <1>0, <1>5, <2>1 DEF WorkerTake
  <2>5. tail = Slot(head, Len(queue))
    BY <1>0, <2>2 DEF RingContents
  <2>6. tail = Slot(Slot(head, 1), Len(queue'))
    <3>1. Slot(Slot(head, 1), Len(queue) - 1) = Slot(head, Len(queue))
      BY <1>0, <2>1, CapacityPositive DEF Slot, Slots
    <3> QED
      BY <2>4, <2>5, <3>1
  <2>7. \A k \in 1..Len(queue') : ringBuffer'[Slot(Slot(head, 1), k - 1)] = queue'[k]
    <3> SUFFICES ASSUME NEW k \in 1..(Len(queue) - 1) PROVE ringBuffer'[Slot(Slot(head, 1), k - 1)] = queue'[k]
      BY <2>4
    <3>1. Slot(Slot(head, 1), k - 1) = Slot(head, k)
      BY <1>0, <2>1, CapacityPositive DEF Slot, Slots
    <3>2. Slot(head, k) # head /\ Slot(head, k) \in Slots
      BY <1>0, <2>1, CapacityPositive DEF Slot, Slots
    <3>3. ringBuffer[Slot(head, k)] = queue[k + 1]
      <4>1. k + 1 \in 1..Len(queue) /\ (k + 1) - 1 = k
        BY <2>1
      <4> QED
        BY <1>0, <2>2, <4>1 DEF RingContents
    <3> QED
      BY <1>0, <2>3, <2>4, <3>1, <3>2, <3>3
  <2>8. \A k \in 0..(CAPACITY - 1) : k >= Len(queue') => ringBuffer'[Slot(Slot(head, 1), k)] = NoTask
    <3> SUFFICES ASSUME NEW k \in 0..(CAPACITY - 1), k >= Len(queue) - 1
                 PROVE  ringBuffer'[Slot(Slot(head, 1), k)] = NoTask
      BY <2>4
    <3>1. CASE k = CAPACITY - 1
      <4>1. Slot(Slot(head, 1), k) = head
        BY <1>0, <3>1, CapacityPositive DEF Slot, Slots
      <4> QED
        BY <1>0, <2>3, <4>1
    <3>2. CASE k # CAPACITY - 1
      <4>1. k + 1 \in 0..(CAPACITY - 1) /\ k + 1 >= Len(queue)
        BY <2>1, <3>2, CapacityPositive
      <4>2. Slot(Slot(head, 1), k) = Slot(head, k + 1) /\ Slot(head, k + 1) # head /\ Slot(head, k + 1) \in Slots
        BY <1>0, <3>2, CapacityPositive DEF Slot, Slots
      <4>3. ringBuffer[Slot(head, k + 1)] = NoTask
        BY <1>0, <2>1, <2>2, <4>1 DEF RingContents
      <4> QED
        BY <1>0, <2>3, <4>2, <4>3
    <3> QED
      BY <3>1, <3>2
  <2> QED
    <3>1. Len(queue') \in Int
      BY <1>0, <2>1, <2>4
    <3> QED
      BY <2>1, <2>2, <2>6, <2>7, <2>8, <3>1, CapacityPositive DEF RingContents
<1>6. ASSUME NEW w \in Workers, WorkerAdvance(w)
      PROVE  RingContents'
  <2>1. Taking /\ ~Taking'
    BY <1>0, <1>6, WorkerAlone DEF WorkerAdvance, WStep, Taking, TypeOK
  <2>2. head' = Slot(head, 1)
    BY <1>0, <1>6, NextSlotIsSlot DEF WorkerAdvance
  <2>3. Oldest' = Oldest
    BY <2>1, <2>2 DEF Oldest, Slot
  <2> QED
    BY <1>0, <1>6, <2>3 DEF RingContents, WorkerAdvance, Current, Slot
<1>7. CASE DestructorStop \/ DestructorStep \/ Destroyed
  <2>1. UNCHANGED <<ringBuffer, head, tail, queue, ppc, sent, wpc>>
    BY <1>7
    DEF DestructorStop, DestructorStep, DestructorRelease, DestructorReleased, DestructorJoin, Destroyed, vars
  <2> QED
    BY <1>0, <2>1, RingUntouched
<1> QED
  BY <1>1, <1>2, <1>3, <1>4, <1>5, <1>6, <1>7 DEF Next, EnqueueStep, WorkerStep

(***************************************************************************)
(* The theorems.                                                           *)
(***************************************************************************)

\* The constructor establishes the invariant.
LEMMA InvInit ==
    Init => IInv
<1> SUFFICES ASSUME Init PROVE IInv
  OBVIOUS
<1>1. /\ Submitting = 0 /\ Admitted = 0 /\ Inserting = 0 /\ Signalling = 0
      /\ Woken = 0 /\ Committed = 0 /\ Extracting = 0 /\ Vacating = 0
      /\ Uncounted = 0 /\ Exited = 0
  BY CountZero, ThreadsFinite
  DEF Init, Submitting, Admitted, Inserting, Signalling, Woken, Committed, Extracting, Vacating, Uncounted, Exited
<1>2. Cardinality(Workers) \in Nat
  BY ThreadsFinite, FS_CardinalityType
<1>3. TypeOK /\ CallBegun
  <2>1. 0 \in Slots /\ CAPACITY \in Nat /\ 0 \in 0..MaxTasks /\ 0 \in 0..Cardinality(Workers)
    BY <1>2, CapacityPositive, MaxTasksNat DEF Slots
  <2>2. queue \in Seq(Tasks)
    BY DEF Init
  <2>3. CallBegun
    BY DEF Init, CallBegun
  <2> QED
    BY <2>1, <2>2, <2>3 DEF Init, TypeOK, PPc, WPc, DPc
<1>4. MutualExclusion /\ SpaceConserved /\ TokensConserved /\ PendingExact /\ ShutdownBalance
  BY <1>1, CapacityPositive
  DEF Init, MutualExclusion, SpaceConserved, TokensConserved, PendingExact, ShutdownBalance
<1>5. RingContents
  <2>1. Oldest = 0
    BY DEF Init, Oldest, Taking
  <2>2. \A k \in 0..(CAPACITY - 1) : Slot(0, k) \in Slots
    BY CapacityPositive DEF Slot, Slots
  <2> QED
    BY <2>1, <2>2, CapacityPositive DEF Init, RingContents, Slot
<1> QED
  BY <1>3, <1>4, <1>5 DEF IInv

\* Every step of every thread preserves it.
LEMMA InvStep ==
    IInv /\ [Next]_vars => IInv'
<1>1. ASSUME IInv, Next PROVE IInv'
  BY <1>1, TypeStep, AccountsStep, RingStep DEF IInv
<1>2. ASSUME IInv, UNCHANGED vars PROVE IInv'
  <2>1. UNCHANGED <<ringBuffer, head, tail, lock, tasksAvailable, spaceAvailable, stop, pendingTasks,
                    ppc, sent, wpc, task, dpc, released, queue, finished>>
    BY <1>2 DEF vars, ring, sems, prods, works, dtor, hist
  <2>2. RingContents'
    BY <1>2, <2>1, RingUntouched DEF IInv
  <2>3. TypeOK' /\ CallBegun'
    BY <1>2, <2>1 DEF IInv, TypeOK, CallBegun
  <2>4. (MutualExclusion /\ SpaceConserved /\ TokensConserved /\ PendingExact /\ ShutdownBalance)'
    BY <1>2, <2>1, SameCounts
    DEF IInv, MutualExclusion, SpaceConserved, TokensConserved, PendingExact, ShutdownBalance
  <2> QED
    BY <2>2, <2>3, <2>4 DEF IInv
<1> QED
  BY <1>1, <1>2

\* IInv holds in every reachable state.
LEMMA Invariance ==
    Spec => []IInv
BY InvInit, InvStep, PTL DEF Spec

\* No variable leaves its type: in particular the unsigned pending_tasks_ and
\* the semaphores' counters are never taken below zero and the indices stay
\* inside the ring.
THEOREM TypeCorrect ==
    Spec => []TypeOK
<1>1. IInv => TypeOK
  BY DEF IInv
<1> QED
  BY <1>1, Invariance, PTL

\* The spinlock admits one thread at a time, whatever the number of threads.
THEOREM LockExcludes ==
    Spec => []MutualExclusion
<1>1. IInv => MutualExclusion
  BY DEF IInv
<1> QED
  BY <1>1, Invariance, PTL

\* The invariant gives the slot discipline.
LEMMA InvSlots ==
    IInv => SlotDiscipline
<1> SUFFICES ASSUME IInv PROVE SlotDiscipline
  OBVIOUS
<1>0. /\ TypeOK /\ MutualExclusion /\ SpaceConserved /\ TokensConserved
      /\ ShutdownBalance /\ RingContents /\ lock \in BOOLEAN /\ head \in Slots
  BY DEF IInv, TypeOK
<1>1. ASSUME NEW p \in Producers, ppc[p] = "write"
      PROVE  ringBuffer[tail] = NoTask
  <2>1. ~Taking /\ \A q \in Producers : ppc[q] # "advance"
    BY <1>0, <1>1, ProducerAlone DEF Taking
  <2>2. Len(queue) \in 0..(CAPACITY - 1)
    BY <1>0, <1>1, QueueFits, CapacityPositive
  <2> QED
    BY <1>0, <2>1, <2>2 DEF RingContents
<1>2. ASSUME NEW w \in Workers, wpc[w] = "take"
      PROVE  queue # << >> /\ ringBuffer[head] = Head(queue)
  <2>1. ~Taking
    BY <1>0, <1>2, WorkerAlone DEF Taking
  <2>2. Len(queue) \in 1..CAPACITY
    BY <1>0, <1>2, CommittedFindsTask, QueueFits, CapacityPositive
  <2>3. queue # << >> /\ Head(queue) = queue[1]
    BY <1>0, <2>2 DEF TypeOK
  <2>4. Slot(head, 1 - 1) = head
    BY <1>0, CapacityPositive DEF Slot, Slots
  <2>5. ringBuffer[Slot(head, 1 - 1)] = queue[1]
    BY <1>0, <2>1, <2>2 DEF RingContents, Oldest
  <2> QED
    BY <2>3, <2>4, <2>5
<1> QED
  BY <1>1, <1>2 DEF SlotDiscipline

\* No task is overwritten and no worker picks up an empty slot or any task but
\* the oldest, before and during destruction.
THEOREM SlotsSafe ==
    Spec => []SlotDiscipline
BY InvSlots, Invariance, PTL

\* The telemetry counter is exact, and no slot or wake-up token is ever lost.
THEOREM NothingLost ==
    Spec => []Accounting
<1>1. IInv => Accounting
  BY DEF IInv, Accounting
<1> QED
  BY <1>1, Invariance, PTL

(***************************************************************************)
(* The pool implements TaskQueue.                                          *)
(***************************************************************************)

\* The tasks the pool has seen: waiting, held by a worker, or run.
Known == {queue[i] : i \in 1..Len(queue)} \cup {task[w] : w \in Workers} \cup finished

\* A worker holds a task exactly from the move out of the ring to the end of
\* the call; the task of a call that has not inserted yet, and the tasks not
\* yet submitted, are unknown to the pool; the destructor returns only when
\* every worker has left.
Handover ==
    /\ \A w \in Workers : task[w] # NoTask <=> wpc[w] \in {"advance", "release", "dec", "run"}
    /\ \A p \in Producers : ppc[p] \in {"space", "lock", "write", "advance"} => Current(p) \notin Known
    /\ \A p \in Producers : \A n \in 1..MaxTasks : n > sent[p] => <<p, n>> \notin Known
    /\ dpc = "done" => stop /\ \A w \in Workers : wpc[w] = "exit"

\* Steps that hand no task over keep Handover.
LEMMA HandoverKept ==
    ASSUME Handover, UNCHANGED <<queue, task, finished, sent>>,
           \A w \in Workers : wpc'[w] \in {"advance", "release", "dec", "run"}
                               <=> wpc[w] \in {"advance", "release", "dec", "run"},
           \A p \in Producers : ppc'[p] \in {"space", "lock", "write", "advance"}
                               => ppc[p] \in {"space", "lock", "write", "advance"},
           dpc' = "done" => stop' /\ \A w \in Workers : wpc'[w] = "exit"
    PROVE  Handover'
<1>1. Known' = Known
  BY DEF Known
<1> QED
  BY <1>1 DEF Handover, Current

\* Every step keeps Handover.
LEMMA HandoverStep ==
    ASSUME IInv, Handover, Next
    PROVE  Handover'
<1> USE DEF ring, sems, prods, works, dtor, hist
<1>0. /\ TypeOK /\ SlotDiscipline /\ ShutdownBalance /\ CallBegun
  BY InvSlots DEF IInv
<1>1. ASSUME NEW p \in Producers, EnqueueCall(p)
      PROVE  Handover'
  <2>1. Known' = Known /\ wpc' = wpc /\ task' = task /\ dpc' = dpc /\ stop' = stop
    BY <1>1 DEF EnqueueCall, Known
  <2>2. sent[p] \in 0..MaxTasks /\ sent[p] < MaxTasks /\ sent' = [sent EXCEPT ![p] = sent[p] + 1]
    BY <1>0, <1>1 DEF EnqueueCall, TypeOK
  <2>3. <<p, sent[p] + 1>> \notin Known
    BY <2>2, MaxTasksNat DEF Handover
  <2>4. \A q \in Producers : ppc'[q] \in {"space", "lock", "write", "advance"} => Current(q)' \notin Known
    BY <1>0, <1>1, <2>2, <2>3 DEF EnqueueCall, PStep, TypeOK, Current, Handover
  <2>5. \A q \in Producers : \A n \in 1..MaxTasks : n > sent'[q] => n > sent[q]
    BY <1>0, <2>2, MaxTasksNat DEF TypeOK
  <2> QED
    BY <2>1, <2>4, <2>5 DEF Handover
<1>2. ASSUME NEW p \in Producers,
             EnqueueAcquireSpace(p) \/ EnqueueLock(p) \/ EnqueueWrite(p) \/ EnqueueSignal(p)
      PROVE  Handover'
  <2>1. /\ UNCHANGED <<queue, task, finished, sent, wpc, dpc, stop>>
        /\ \A q \in Producers : ppc'[q] \in {"space", "lock", "write", "advance"}
                                => ppc[q] \in {"space", "lock", "write", "advance"}
    BY <1>0, <1>2
    DEF TypeOK, EnqueueAcquireSpace, EnqueueLock, EnqueueWrite, EnqueueSignal, PStep
  <2> QED
    BY <2>1, HandoverKept DEF Handover
<1>3. ASSUME NEW p \in Producers, EnqueueAdvance(p)
      PROVE  Handover'
  <2>1. UNCHANGED <<task, finished, sent, wpc, dpc, stop>> /\ queue' = Append(queue, Current(p))
    BY <1>3 DEF EnqueueAdvance
  <2>2. \A t : t \in Known' => t \in Known \/ t = Current(p)
    BY <1>0, <2>1 DEF Known, TypeOK
  <2>3. \A q \in Producers : ppc'[q] \in {"space", "lock", "write", "advance"}
                                => q # p /\ ppc[q] \in {"space", "lock", "write", "advance"}
    BY <1>0, <1>3 DEF EnqueueAdvance, PStep, TypeOK
  <2>4. \A q \in Producers : q # p => Current(q) # Current(p)
    BY DEF Current
  <2>5. \A q \in Producers : \A n \in 1..MaxTasks : n > sent[q] => <<q, n>> # Current(p)
    BY <1>0 DEF Current, TypeOK
  <2> QED
    BY <2>1, <2>2, <2>3, <2>4, <2>5 DEF Handover, Current
<1>4. ASSUME NEW w \in Workers,
             WorkerAcquire(w) \/ WorkerCheckStop(w) \/ WorkerLock(w) \/ WorkerAdvance(w)
                 \/ WorkerReleaseSpace(w) \/ WorkerDec(w)
      PROVE  Handover'
  <2>1. /\ UNCHANGED <<queue, task, finished, sent, ppc, dpc, stop>>
        /\ \A v \in Workers : wpc'[v] \in {"advance", "release", "dec", "run"}
                                <=> wpc[v] \in {"advance", "release", "dec", "run"}
        /\ wpc[w] # "exit"
    BY <1>0, <1>4
    DEF TypeOK, WorkerAcquire, WorkerCheckStop, WorkerLock, WorkerAdvance, WorkerReleaseSpace, WorkerDec, WStep
  <2> QED
    BY <2>1, HandoverKept DEF Handover
<1>5. ASSUME NEW w \in Workers, WorkerTake(w)
      PROVE  Handover'
  <2>1. /\ UNCHANGED <<finished, sent, ppc, dpc, stop>>
        /\ queue # << >> /\ queue' = Tail(queue) /\ task' = [task EXCEPT ![w] = Head(queue)]
        /\ wpc[w] # "exit"
    BY <1>0, <1>5 DEF WorkerTake, WStep, SlotDiscipline
  <2>2. Len(queue) \in Nat \ {0} /\ Head(queue) = queue[1] /\ Head(queue) \in Tasks
    BY <1>0, <2>1 DEF TypeOK
  <2>3. \A t : t \in Known' => t \in Known
    <3>1. \A i \in 1..Len(queue') : i + 1 \in 1..Len(queue) /\ queue'[i] = queue[i + 1]
      BY <1>0, <2>1, <2>2 DEF TypeOK
    <3>2. \A v \in Workers : task'[v] = task[v] \/ task'[v] = queue[1]
      BY <1>0, <2>1, <2>2 DEF TypeOK
    <3>3. 1 \in 1..Len(queue)
      BY <2>2
    <3> QED
      BY <2>1, <3>1, <3>2, <3>3 DEF Known
  <2>4. \A v \in Workers : task'[v] # NoTask <=> wpc'[v] \in {"advance", "release", "dec", "run"}
    BY <1>0, <1>5, <2>1, <2>2, NoTaskIsNone DEF WorkerTake, WStep, TypeOK, Handover
  <2> QED
    BY <2>1, <2>3, <2>4 DEF Handover, Current
<1>6. ASSUME NEW w \in Workers, WorkerRun(w)
      PROVE  Handover'
  <2>1. /\ UNCHANGED <<queue, sent, ppc, dpc, stop>>
        /\ task[w] # NoTask /\ task' = [task EXCEPT ![w] = NoTask] /\ finished' = finished \cup {task[w]}
        /\ wpc[w] = "run"
    BY <1>6 DEF WorkerRun, WStep, Handover
  <2>2. \A t : t \in Known' => t \in Known \/ t = NoTask
    BY <1>0, <2>1 DEF Known, TypeOK
  <2>3. \A v \in Workers : task'[v] # NoTask <=> wpc'[v] \in {"advance", "release", "dec", "run"}
    BY <1>0, <1>6, <2>1 DEF WorkerRun, WStep, TypeOK, Handover
  <2>4. \A q \in Producers : sent[q] \in 0..MaxTasks /\ (ppc[q] # "idle" => sent[q] >= 1)
    BY <1>0 DEF TypeOK, CallBegun
  <2>5. \A q \in Producers : ppc[q] \in {"space", "lock", "write", "advance"} => Current(q) # NoTask
    BY <2>4, NoTaskIsNone, MaxTasksNat DEF Current, Tasks
  <2>6. \A q \in Producers : \A n \in 1..MaxTasks : <<q, n>> # NoTask
    BY NoTaskIsNone DEF Tasks
  <2> QED
    BY <2>1, <2>2, <2>3, <2>5, <2>6 DEF Handover, Current
<1>7. CASE DestructorStop \/ DestructorStep \/ Destroyed
  <2>1. /\ UNCHANGED <<queue, task, finished, sent, ppc, wpc>>
        /\ dpc' = "done" => stop' /\ \A w \in Workers : wpc'[w] = "exit"
    BY <1>0, <1>7
    DEF DestructorStop, DestructorStep, DestructorRelease, DestructorReleased, DestructorJoin, Destroyed, vars,
        ShutdownBalance, Handover
  <2> QED
    BY <2>1, HandoverKept
<1> QED
  BY <1>1, <1>2, <1>3, <1>4, <1>5, <1>6, <1>7 DEF Next, EnqueueStep, WorkerStep

\* Handover holds in every reachable state.
LEMMA HandoverInvariant ==
    Spec => []Handover
<1>1. Init => Handover
  BY NoTaskIsNone DEF Init, Handover, Known, Tasks
<1>2. IInv /\ Handover /\ [Next]_vars => Handover'
  <2>1. ASSUME Handover, UNCHANGED vars PROVE Handover'
    BY <2>1, HandoverKept DEF vars, ring, sems, prods, works, dtor, hist, Handover
  <2> QED
    BY <2>1, HandoverStep
<1> QED
  BY <1>1, <1>2, Invariance, PTL DEF Spec

\* Every step of the pool is a step of the queue of tasks or leaves it alone.
LEMMA StepSimulation ==
    ASSUME IInv, Handover, Next
    PROVE  TQ!QNext \/ UNCHANGED TQ!qvars
<1> USE DEF ring, sems, prods, works, dtor, hist
<1>0. TypeOK /\ SlotDiscipline /\ ShutdownBalance /\ CallBegun
  BY InvSlots DEF IInv
<1>1. ASSUME NEW p \in Producers, EnqueueAdvance(p)
      PROVE  TQ!QNext
  <2>1. Current(p) \in Tasks
    BY <1>0, <1>1, MaxTasksNat DEF TypeOK, CallBegun, EnqueueAdvance, PStep, Current, Tasks
  <2>2. Current(p) \notin Known /\ dpc # "done"
    BY <1>0, <1>1 DEF EnqueueAdvance, PStep, Handover, ShutdownBalance
  <2>3. TQ!Fresh(Current(p))
    BY <2>2 DEF TQ!Fresh, Known
  <2>4. TQ!Put(Current(p))
    BY <1>1, <2>2, <2>3 DEF TQ!Put, EnqueueAdvance
  <2> QED
    BY <2>1, <2>4 DEF TQ!QNext
<1>2. ASSUME NEW w \in Workers, WorkerTake(w)
      PROVE  TQ!QNext
  <2>1. dpc # "done" /\ task[w] = NoTask /\ queue # << >> /\ ringBuffer[head] = Head(queue)
    BY <1>0, <1>2 DEF WorkerTake, WStep, Handover, SlotDiscipline
  <2>2. TQ!Take(w)
    BY <1>2, <2>1 DEF TQ!Take, WorkerTake
  <2> QED
    BY <2>2 DEF TQ!QNext
<1>3. ASSUME NEW w \in Workers, WorkerRun(w)
      PROVE  TQ!QNext
  <2>1. task[w] # NoTask
    BY <1>3 DEF WorkerRun, WStep, Handover
  <2>2. TQ!Finish(w)
    BY <1>3, <2>1 DEF TQ!Finish, WorkerRun
  <2> QED
    BY <2>2 DEF TQ!QNext
<1>4. CASE DestructorJoin
  <2>1. \A w \in Workers : task[w] = NoTask
    BY <1>4 DEF DestructorJoin, Handover
  <2>2. TQ!Close
    BY <1>4, <2>1 DEF TQ!Close, DestructorJoin
  <2> QED
    BY <2>2 DEF TQ!QNext
<1>5. ASSUME NEW p \in Producers,
             EnqueueCall(p) \/ EnqueueAcquireSpace(p) \/ EnqueueLock(p) \/ EnqueueWrite(p) \/ EnqueueSignal(p)
      PROVE  UNCHANGED TQ!qvars
  BY <1>5 DEF EnqueueCall, EnqueueAcquireSpace, EnqueueLock, EnqueueWrite, EnqueueSignal, TQ!qvars
<1>6. ASSUME NEW w \in Workers,
             WorkerAcquire(w) \/ WorkerCheckStop(w) \/ WorkerLock(w) \/ WorkerAdvance(w)
                 \/ WorkerReleaseSpace(w) \/ WorkerDec(w)
      PROVE  UNCHANGED TQ!qvars
  BY <1>6
  DEF WorkerAcquire, WorkerCheckStop, WorkerLock, WorkerAdvance, WorkerReleaseSpace, WorkerDec, TQ!qvars
<1>7. CASE DestructorStop \/ DestructorRelease \/ DestructorReleased \/ Destroyed
  BY <1>7 DEF DestructorStop, DestructorRelease, DestructorReleased, Destroyed, vars, TQ!qvars
<1> QED
  BY <1>1, <1>2, <1>3, <1>4, <1>5, <1>6, <1>7 DEF Next, EnqueueStep, WorkerStep, DestructorStep

\* The ring, the spinlock and the semaphores together implement a FIFO queue
\* that runs each task once and whose destructor returns only when no task is
\* running: TaskQueue, for every number of threads and every capacity.
THEOREM PoolImplementsQueue ==
    Spec => ImplementsTaskQueue
<1>1. Init => TQ!QInit
  BY DEF Init, TQ!QInit
<1>2. IInv /\ Handover /\ [Next]_vars => [TQ!QNext]_(TQ!qvars)
  <2>1. ASSUME UNCHANGED vars PROVE UNCHANGED TQ!qvars
    BY <2>1 DEF vars, ring, sems, prods, works, dtor, hist, TQ!qvars
  <2> QED
    BY <2>1, StepSimulation
<1> QED
  BY <1>1, <1>2, Invariance, HandoverInvariant, PTL DEF Spec, ImplementsTaskQueue, TQ!QSpec
============================================================================
