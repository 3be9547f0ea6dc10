---- MODULE VirtualDevice ----
(***************************************************************************)
(* vip::Device: a FIFO of submitted graphs, a fixed array of worker        *)
(* threads that run them, and the user threads that submit and remove      *)
(* graphs, wait for the device to be idle and make the workers exit.       *)
(*                                                                         *)
(* A critical section of queue_mtx_ or idle_mtx_ is one step; a            *)
(* notify_one, which the code calls after the unlock, is a step of its     *)
(* own.  A condition variable is the set of the threads blocked on it;     *)
(* a thread that was woken has left the set and must take the mutex again  *)
(* before it continues, so another thread may go first.                    *)
(***************************************************************************)
EXTENDS Integers, Sequences, FiniteSets

CONSTANTS Worker,       \* threads_, the device's worker threads
          Client,       \* user threads
          Owner,        \* the user thread that calls ThreadExit
          Job,          \* the calls of GraphSubmit, one per job
          Graph,        \* graphs
          GraphOf,      \* the graph each job submits
          Removable,    \* the graphs users remove again
          IdleWaiter,   \* the user threads that call WaitThreadIdle
          NoJob,        \* the payload of a fake graph and of an empty fetch
          SizeMax,      \* size_t(-1)
          MaxExit,      \* bound: calls of ThreadExit (destructor included)
          MaxSpurious   \* bound: spurious wakeups

ASSUME Assumptions ==
  /\ IsFiniteSet(Worker) /\ Worker # {}
  /\ IsFiniteSet(Job) /\ NoJob \notin Job
  /\ Owner \in Client
  /\ IdleWaiter \subseteq Client
  /\ Removable \subseteq Graph
  /\ GraphOf \in [Job -> Graph]
  /\ SizeMax \in Nat /\ SizeMax > 2
  /\ MaxExit \in Nat /\ MaxSpurious \in Nat

VARIABLES
  queue,       \* GraphQueue::queue_
  gcount,      \* GraphQueue::gcount_
  submit_num,  \* Device::submit_num_
  wpc, item,   \* per worker: where it is in HandleQueue, the item it fetched
  cpc, cjob,   \* per user thread: where it is in a call, the job it submits
  fakes,       \* ThreadExit: fake graphs the owner still has to submit
  exits,       \* calls of ThreadExit so far
  \* history, read by no guard but the bounds' ones
  submitted,   \* jobs submit_num has counted
  finished,    \* jobs whose graph was run and whose callback was called
  retired,     \* jobs submit_num no longer counts
  removed,     \* jobs taken out of the queue by GraphRemove
  promised,    \* jobs queued or running when the first ThreadExit began
  phantoms,    \* decrements of submit_num that belong to no job
  spurious     \* spurious wakeups so far

workerVars  == <<wpc, item>>
clientVars  == <<cpc, cjob, fakes, exits>>
historyVars == <<submitted, finished, retired, removed, promised, phantoms, spurious>>
vars == <<queue, gcount, submit_num, workerVars, clientVars, historyVars>>

WorkerPC == {"fetch", "waiting", "woken", "handle", "handled", "idleNotify", "exited"}
ClientPC == {"out", "push", "notify", "idleWait", "idleWoken", "exitPush", "exitNotify", "join"}

FakeItem    == [id |-> 0, job |-> NoJob]
PhantomItem == [id |-> SizeMax, job |-> NoJob]
Item        == [id : 0 .. SizeMax, job : Job \cup {NoJob}]

NextId_WrapToZero(n) == IF n + 1 = SizeMax THEN 0 ELSE n + 1        \* mutant
NextId(n)            == IF n + 1 = SizeMax THEN 1 ELSE n + 1

ThreadCount_OneLess == Cardinality(Worker) - 1                      \* mutant
ThreadCount         == Cardinality(Worker)

QueueWaiting == {w \in Worker : wpc[w] = "waiting"}
IdleWaiting  == {c \in Client : cpc[c] = "idleWait"}
QueuedJobs   == {queue[i].job : i \in DOMAIN queue} \ {NoJob}

PushedBy(c)  == {cjob[c]} \ {NoJob}
RunBy(w)     == IF wpc[w] = "handle" THEN {item[w].job} \ {NoJob} ELSE {}
PushingJobs  == UNION {PushedBy(c) : c \in Client}
RunningJobs  == UNION {RunBy(w) : w \in Worker}
AllExited    == \A w \in Worker : wpc[w] = "exited"

Init ==
  /\ queue = <<>> /\ gcount = 1 /\ submit_num = 0
  /\ wpc = [w \in Worker |-> "fetch"] /\ item = [w \in Worker |-> PhantomItem]
  /\ cpc = [c \in Client |-> "out"] /\ cjob = [c \in Client |-> NoJob]
  /\ fakes = 0 /\ exits = 0
  /\ submitted = {} /\ finished = {} /\ retired = {} /\ removed = {}
  /\ promised = {} /\ phantoms = 0 /\ spurious = 0

PushAtFront(it) == queue' = <<it>> \o queue                        \* mutant
PushBack(it)    == queue' = Append(queue, it)

\* The items of a graph, and the position GraphRemove's scan ends with.
Matches(g) ==
  {i \in DOMAIN queue : queue[i].job # NoJob /\ GraphOf[queue[i].job] = g}
FirstHit(g, k) == k \in Matches(g) /\ \A i \in Matches(g) : k <= i   \* mutant
ScanHit(g, k)  == k \in Matches(g) /\ \A i \in Matches(g) : i <= k

\* notify_one on GraphQueue::cv_ : one blocked worker, if any, wakes.
NotifyQueue_Nobody == UNCHANGED wpc                                 \* mutant
NotifyQueue ==
  IF QueueWaiting = {} THEN UNCHANGED wpc
  ELSE \E w \in QueueWaiting : wpc' = [wpc EXCEPT ![w] = "woken"]

\* notify_one on Device::cv_ : one thread blocked in WaitThreadIdle wakes.
WakeIdle_Nobody == UNCHANGED cpc                                    \* mutant
WakeIdle ==
  IF IdleWaiting = {} THEN UNCHANGED cpc
  ELSE \E c \in IdleWaiting : cpc' = [cpc EXCEPT ![c] = "idleWoken"]

Busy_OffByOne == submit_num > 1                                     \* mutant
Busy          == submit_num > 0

---------------------------------------------------------------------------
\* User threads

CountSubmit_NoCount(c, j) ==                                        \* mutant
  /\ cpc[c] = "out" /\ j \notin submitted
  /\ cpc' = [cpc EXCEPT ![c] = "push"] /\ cjob' = [cjob EXCEPT ![c] = j]
  /\ submitted' = submitted \cup {j}
  /\ UNCHANGED <<queue, gcount, submit_num, workerVars, fakes, exits,
                 finished, retired, removed, promised, phantoms, spurious>>
CountSubmit(c, j) ==
  /\ cpc[c] = "out" /\ j \notin submitted
  /\ submit_num' = submit_num + 1
  /\ cpc' = [cpc EXCEPT ![c] = "push"] /\ cjob' = [cjob EXCEPT ![c] = j]
  /\ submitted' = submitted \cup {j}
  /\ UNCHANGED <<queue, gcount, workerVars, fakes, exits,
                 finished, retired, removed, promised, phantoms, spurious>>

PushGraph(c) ==
  /\ cpc[c] = "push"
  /\ PushBack([id |-> gcount, job |-> cjob[c]])
  /\ gcount' = NextId(gcount)
  /\ cpc' = [cpc EXCEPT ![c] = "notify"] /\ cjob' = [cjob EXCEPT ![c] = NoJob]
  /\ UNCHANGED <<submit_num, workerVars, fakes, exits, historyVars>>

NotifyGraph(c) ==
  /\ cpc[c] = "notify"
  /\ NotifyQueue
  /\ cpc' = [cpc EXCEPT ![c] = "out"]
  /\ UNCHANGED <<queue, gcount, submit_num, item, cjob, fakes, exits, historyVars>>

\* GraphRemove takes the last item of the graph; submit_num stays as it is.
GraphRemove(c, g) ==
  /\ cpc[c] = "out" /\ g \in Removable
  /\ \E k \in DOMAIN queue :
       /\ ScanHit(g, k)
       /\ queue' = [i \in 1 .. Len(queue) - 1 |-> IF i < k THEN queue[i] ELSE queue[i + 1]]
       /\ removed' = removed \cup {queue[k].job}
  /\ UNCHANGED <<gcount, submit_num, workerVars, clientVars,
                 submitted, finished, retired, promised, phantoms, spurious>>

\* The loop of WaitThreadIdle: test under the lock, then block or return.
WaitThreadIdle(c) ==
  /\ \/ cpc[c] = "out" /\ c \in IdleWaiter
     \/ cpc[c] = "idleWoken"
  /\ cpc' = [cpc EXCEPT ![c] = IF Busy THEN "idleWait" ELSE "out"]
  /\ UNCHANGED <<queue, gcount, submit_num, workerVars, cjob, fakes, exits, historyVars>>

CallThreadExit ==
  /\ cpc[Owner] = "out" /\ exits < MaxExit
  /\ exits' = exits + 1 /\ fakes' = ThreadCount
  /\ cpc' = [cpc EXCEPT ![Owner] = "exitPush"]
  /\ promised' = IF exits = 0 THEN QueuedJobs \cup RunningJobs ELSE promised
  /\ UNCHANGED <<queue, gcount, submit_num, workerVars, cjob,
                 submitted, finished, retired, removed, phantoms, spurious>>

PushFake ==
  /\ cpc[Owner] = "exitPush"
  /\ PushBack(FakeItem)
  /\ fakes' = fakes - 1
  /\ cpc' = [cpc EXCEPT ![Owner] = "exitNotify"]
  /\ UNCHANGED <<gcount, submit_num, workerVars, cjob, exits, historyVars>>

NotifyFake ==
  /\ cpc[Owner] = "exitNotify"
  /\ NotifyQueue
  /\ cpc' = [cpc EXCEPT ![Owner] = IF fakes > 0 THEN "exitPush" ELSE "join"]
  /\ UNCHANGED <<queue, gcount, submit_num, item, cjob, fakes, exits, historyVars>>

\* Both joins: each returns once its worker has left HandleQueue.
Join ==
  /\ cpc[Owner] = "join"
  /\ AllExited
  /\ cpc' = [cpc EXCEPT ![Owner] = "out"]
  /\ UNCHANGED <<queue, gcount, submit_num, workerVars, cjob, fakes, exits, historyVars>>

---------------------------------------------------------------------------
\* Worker threads

Block(w) ==
  /\ wpc[w] = "fetch" /\ queue = <<>>
  /\ wpc' = [wpc EXCEPT ![w] = "waiting"]
  /\ UNCHANGED <<queue, gcount, submit_num, item, clientVars, historyVars>>

\* The rest of Fetch and HandleQueue's test for the fake graph.  A worker
\* that was woken does not wait again when the queue is empty.
Fetch(w) ==
  /\ \/ wpc[w] = "fetch" /\ queue # <<>>
     \/ wpc[w] = "woken"
  /\ LET it == IF queue = <<>> THEN PhantomItem ELSE Head(queue)
     IN /\ item' = [item EXCEPT ![w] = it]
        /\ wpc' = [wpc EXCEPT ![w] = IF it.id = 0 THEN "exited" ELSE "handle"]
  /\ queue' = IF queue = <<>> THEN <<>> ELSE Tail(queue)
  /\ UNCHANGED <<gcount, submit_num, clientVars, historyVars>>

\* Worker::Handle : nothing happens for an item without graph and callback.
Handle(w) ==
  /\ wpc[w] = "handle"
  /\ wpc' = [wpc EXCEPT ![w] = "handled"]
  /\ finished' = finished \cup ({item[w].job} \ {NoJob})
  /\ UNCHANGED <<queue, gcount, submit_num, item, clientVars,
                 submitted, retired, removed, promised, phantoms, spurious>>

Decrement(w) ==
  /\ wpc[w] = "handled"
  /\ submit_num' = submit_num - 1
  /\ wpc' = [wpc EXCEPT ![w] = "idleNotify"]
  /\ item' = [item EXCEPT ![w] = PhantomItem]
  /\ retired' = retired \cup ({item[w].job} \ {NoJob})
  /\ phantoms' = IF item[w].job = NoJob THEN phantoms + 1 ELSE phantoms
  /\ UNCHANGED <<queue, gcount, clientVars,
                 submitted, finished, removed, promised, spurious>>

NotifyIdle(w) ==
  /\ wpc[w] = "idleNotify"
  /\ WakeIdle
  /\ wpc' = [wpc EXCEPT ![w] = "fetch"]
  /\ UNCHANGED <<queue, gcount, submit_num, item, cjob, fakes, exits, historyVars>>

SpuriousWakeup ==
  /\ spurious < MaxSpurious
  /\ spurious' = spurious + 1
  /\ \/ \E w \in QueueWaiting : wpc' = [wpc EXCEPT ![w] = "woken"] /\ UNCHANGED cpc
     \/ \E c \in IdleWaiting : cpc' = [cpc EXCEPT ![c] = "idleWoken"] /\ UNCHANGED wpc
  /\ UNCHANGED <<queue, gcount, submit_num, item, cjob, fakes, exits,
                 submitted, finished, retired, removed, promised, phantoms>>

---------------------------------------------------------------------------
WorkerStep(w) == Block(w) \/ Fetch(w) \/ Handle(w) \/ Decrement(w) \/ NotifyIdle(w)

\* A call in progress goes on; whether a new call is made is the user's choice.
ClientStep(c) ==
  \/ PushGraph(c) \/ NotifyGraph(c)
  \/ cpc[c] = "idleWoken" /\ WaitThreadIdle(c)
OwnerStep == PushFake \/ NotifyFake \/ Join

Next ==
  \/ \E c \in Client :
       \/ \E j \in Job : CountSubmit(c, j)
       \/ \E g \in Graph : GraphRemove(c, g)
       \/ PushGraph(c) \/ NotifyGraph(c) \/ WaitThreadIdle(c)
  \/ CallThreadExit \/ PushFake \/ NotifyFake \/ Join
  \/ \E w \in Worker :
       Block(w) \/ Fetch(w) \/ Handle(w) \/ Decrement(w) \/ NotifyIdle(w)
  \/ SpuriousWakeup

Spec == Init /\ [][Next]_vars

Fairness ==
  /\ \A w \in Worker : WF_vars(WorkerStep(w))
  /\ \A c \in Client : WF_vars(ClientStep(c))
  /\ WF_vars(OwnerStep)

FairSpec == Spec /\ Fairness

---------------------------------------------------------------------------
\* Properties

\* Every variable keeps its type: ids stay below size_t(-1), the counters of
\* ThreadExit stay within the number of workers and the bound.
TypeOK ==
  /\ queue \in Seq(Item) /\ gcount \in 1 .. SizeMax - 1 /\ submit_num \in Int
  /\ wpc \in [Worker -> WorkerPC]
  /\ item \in [Worker -> Item]
  /\ cpc \in [Client -> ClientPC]
  /\ cjob \in [Client -> Job \cup {NoJob}]
  /\ fakes \in 0 .. ThreadCount /\ exits \in 0 .. MaxExit
  /\ submitted \subseteq Job /\ finished \subseteq Job /\ retired \subseteq Job
  /\ removed \subseteq Job /\ promised \subseteq Job
  /\ phantoms \in Nat /\ spurious \in 0 .. MaxSpurious

\* No job is lost and none is run twice: a job GraphSubmit has counted is in
\* exactly one place, between the count and the push, once in queue_, in the
\* hands of one worker, finished, or removed.  The worker that fetches it
\* tells it from a fake graph by its id alone.
EachJobOnce ==
  /\ submitted = PushingJobs \cup QueuedJobs \cup RunningJobs \cup finished \cup removed
  /\ \A c, d \in Client : c # d => PushedBy(c) \cap PushedBy(d) = {}
  /\ \A i, k \in DOMAIN queue : i # k /\ queue[i].job # NoJob => queue[i].job # queue[k].job
  /\ \A v, w \in Worker : v # w => RunBy(v) \cap RunBy(w) = {}
  /\ PushingJobs \cap (QueuedJobs \cup RunningJobs \cup finished \cup removed) = {}
  /\ QueuedJobs \cap (RunningJobs \cup finished \cup removed) = {}
  /\ RunningJobs \cap (finished \cup removed) = {}
  /\ finished \cap removed = {}

\* submit_num counts the jobs GraphSubmit announced and no worker has counted
\* down, a removed job included, less one for every empty fetch.
Accounting == submit_num = Cardinality(submitted \ retired) - phantoms

\* When WaitThreadIdle returns and no worker ever came back from Fetch with
\* an empty hand, every job announced so far has run to its end.
IdleMeansDone ==
  [][\A c \in Client :
       WaitThreadIdle(c) /\ cpc'[c] = "out" /\ phantoms = 0 => submitted \subseteq finished]_vars

\* A graph is never left in the queue with all the workers that have not
\* exited asleep, unless the notify_one that follows a push is still to come.
NoLostWakeup ==
  LET live == {w \in Worker : wpc[w] # "exited"}
  IN queue # <<>> /\ live # {} /\ live \subseteq QueueWaiting
       => \E c \in Client : cpc[c] \in {"notify", "exitNotify"}

\* ThreadExit drains: once every worker has left HandleQueue, each job that
\* was queued or running when ThreadExit was called has finished or was removed.
ExitDrains ==
  exits > 0 /\ AllExited => promised \subseteq finished \cup removed

\* A queue without the fake graphs: where its jobs are, and the n-th of them.
RealAt(q)   == {i \in DOMAIN q : q[i].job # NoJob}
Rank(q, i)  == Cardinality({k \in RealAt(q) : k <= i})
JobsOf(q)   ==
  [n \in 1 .. Cardinality(RealAt(q)) |-> q[CHOOSE i \in RealAt(q) : Rank(q, i) = n].job]
PendingJobs == JobsOf(queue)

Phase ==
  IF exits = 0 THEN "open"
  ELSE IF exits = 1 /\ cpc[Owner] \in {"exitPush", "exitNotify", "join"} THEN "closing"
  ELSE "closed"

JS == INSTANCE JobService WITH
        Slots <- ThreadCount, pending <- PendingJobs, running <- RunningJobs,
        done <- finished, dropped <- removed, due <- promised, phase <- Phase

\* The device implements the service it promises: FIFO start, at most once,
\* bounded parallelism, removal of the last item, close after draining.
ImplementsService == JS!Service

\* A job in the queue is run or removed, or every worker has exited before it.
QueuedJobRuns ==
  \A j \in Job : j \in QueuedJobs ~> (j \in finished \cup removed \/ AllExited)

\* ThreadExit returns: the fake graphs reach every worker.
ThreadExitReturns == cpc[Owner] \in {"exitPush", "exitNotify", "join"} ~> cpc[Owner] = "out"

\* A thread blocked in WaitThreadIdle comes back, unless a job is stranded
\* behind the fake graphs.
IdleReturns ==
  \A c \in IdleWaiter : cpc[c] = "idleWait" ~> (cpc[c] # "idleWait" \/ AllExited)
====
