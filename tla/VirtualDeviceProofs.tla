---- MODULE VirtualDeviceProofs ----
(***************************************************************************)
(* What TLAPS proves of VirtualDevice for any number of workers, user      *)
(* threads, jobs and graphs, and for any bounds.                           *)
(***************************************************************************)
EXTENDS VirtualDevice, FiniteSetTheorems, TLAPS

\* A call in progress: the owner pushes a fake graph only while some are left.
OwnerOK == cpc[Owner] = "exitPush" => fakes > 0

TInv == TypeOK /\ OwnerOK

\* The number of worker threads is a positive natural number.
LEMMA ThreadCountPositive == ThreadCount \in Nat /\ ThreadCount > 0
BY Assumptions, FS_CardinalityType, FS_EmptySet DEF ThreadCount

\* Taking one element out of a sequence leaves a sequence of the same kind.
LEMMA RemoveAtType ==
  ASSUME NEW S, NEW s \in Seq(S), NEW k \in DOMAIN s
  PROVE  [i \in 1 .. Len(s) - 1 |-> IF i < k THEN s[i] ELSE s[i + 1]] \in Seq(S)
OBVIOUS

LEMMA InitTypes == Init => TInv
BY Assumptions, ThreadCountPositive DEF Init, TInv, TypeOK, OwnerOK, WorkerPC, ClientPC, Item, PhantomItem

LEMMA NextIdType == \A n \in 1 .. SizeMax - 1 : NextId(n) \in 1 .. SizeMax - 1
BY Assumptions DEF NextId

\* What the elements of queue are.
LEMMA ElementType ==
  ASSUME NEW S, NEW s \in Seq(S), NEW k \in DOMAIN s PROVE s[k] \in S
OBVIOUS

LEMMA NextTypes == TInv /\ [Next]_vars => TInv'
<1> SUFFICES ASSUME TInv, [Next]_vars PROVE TInv'
  OBVIOUS
<1> USE Assumptions, ThreadCountPositive DEF TInv, TypeOK, OwnerOK, WorkerPC, ClientPC
<1>1. ASSUME NEW c \in Client, NEW j \in Job, CountSubmit(c, j) PROVE TInv'
  BY <1>1 DEF CountSubmit, workerVars
<1>2. ASSUME NEW c \in Client, NEW g \in Graph, GraphRemove(c, g) PROVE TInv'
  <2>1. PICK k \in DOMAIN queue :
          /\ ScanHit(g, k)
          /\ queue' = [i \in 1 .. Len(queue) - 1 |-> IF i < k THEN queue[i] ELSE queue[i + 1]]
          /\ removed' = removed \cup {queue[k].job}
    BY <1>2 DEF GraphRemove
  <2>2. queue' \in Seq(Item)
    BY <2>1, RemoveAtType
  <2>3. queue[k] \in Item /\ queue[k].job # NoJob
    BY <2>1, ElementType DEF ScanHit, Matches
  <2>4. queue[k].job \in Job
    BY <2>3 DEF Item
  <2> QED
    BY <1>2, <2>1, <2>2, <2>4 DEF GraphRemove, workerVars, clientVars
<1>3. ASSUME NEW c \in Client, PushGraph(c) PROVE TInv'
  <2>1. [id |-> gcount, job |-> cjob[c]] \in Item
    BY DEF Item
  <2> QED
    BY <1>3, <2>1, NextIdType DEF PushGraph, PushBack, workerVars, historyVars
<1>4. ASSUME NEW c \in Client, NotifyGraph(c) PROVE TInv'
  BY <1>4 DEF NotifyGraph, NotifyQueue, QueueWaiting, historyVars
<1>5. ASSUME NEW c \in Client, WaitThreadIdle(c) PROVE TInv'
  BY <1>5 DEF WaitThreadIdle, workerVars, historyVars
<1>6. CASE CallThreadExit
  <2>1. QueuedJobs \subseteq Job
    <3>1. \A i \in DOMAIN queue : queue[i] \in Item
      BY ElementType
    <3> QED
      BY <3>1 DEF QueuedJobs, Item
  <2>2. RunningJobs \subseteq Job
    <3>1. \A w \in Worker : RunBy(w) \subseteq Job
      BY DEF RunBy, Item
    <3> QED
      BY <3>1 DEF RunningJobs
  <2> QED
    BY <1>6, <2>1, <2>2 DEF CallThreadExit, workerVars
<1>7. CASE PushFake
  BY <1>7 DEF PushFake, PushBack, FakeItem, Item, workerVars, historyVars
<1>8. CASE NotifyFake
  BY <1>8 DEF NotifyFake, NotifyQueue, QueueWaiting, historyVars
<1>9. CASE Join
  BY <1>9 DEF Join, workerVars, historyVars
<1>10. ASSUME NEW w \in Worker, Block(w) PROVE TInv'
  BY <1>10 DEF Block, clientVars, historyVars
<1>11. ASSUME NEW w \in Worker, Fetch(w) PROVE TInv'
  <2>1. PhantomItem \in Item
    BY DEF PhantomItem, Item
  <2>2. queue # <<>> => Head(queue) \in Item /\ Tail(queue) \in Seq(Item)
    OBVIOUS
  <2> QED
    BY <1>11, <2>1, <2>2 DEF Fetch, clientVars, historyVars
<1>12. ASSUME NEW w \in Worker, Handle(w) PROVE TInv'
  BY <1>12 DEF Handle, Item, clientVars
<1>13. ASSUME NEW w \in Worker, Decrement(w) PROVE TInv'
  BY <1>13 DEF Decrement, PhantomItem, Item, clientVars
<1>14. ASSUME NEW w \in Worker, NotifyIdle(w) PROVE TInv'
  BY <1>14 DEF NotifyIdle, WakeIdle, IdleWaiting, historyVars
<1>15. CASE SpuriousWakeup
  BY <1>15 DEF SpuriousWakeup, QueueWaiting, IdleWaiting
<1>16. CASE UNCHANGED vars
  BY <1>16 DEF vars, workerVars, clientVars, historyVars
<1> QED
  BY <1>1, <1>2, <1>3, <1>4, <1>5, <1>6, <1>7, <1>8, <1>9, <1>10, <1>11, <1>12,
     <1>13, <1>14, <1>15, <1>16 DEF Next

\* Every variable of the device keeps its type in every reachable state; in
\* particular gcount never reaches 0 or size_t(-1), the two reserved ids.
THEOREM TypeCorrect == Spec => []TypeOK
<1>1. Init => TInv
  BY InitTypes
<1>2. TInv /\ [Next]_vars => TInv'
  BY NextTypes
<1>3. TInv => TypeOK
  BY DEF TInv
<1> QED
  BY <1>1, <1>2, <1>3, PTL DEF Spec

---------------------------------------------------------------------------
\* The strengthening that makes EachJobOnce and Accounting inductive: what
\* the program counters say of the job a thread holds.

\* A user thread holds a job exactly between the count and the push.
PushHolds == \A c \in Client : cpc[c] = "push" <=> cjob[c] # NoJob

\* The id of a queued item is that of a fake graph exactly when it is one.
IdsTell == \A i \in DOMAIN queue : queue[i].id = 0 <=> queue[i].job = NoJob

\* A worker between Handle and Decrement holds a job that is finished but
\* not yet counted down, and no other worker holds the same one.
HandledJobs ==
  /\ retired \subseteq finished
  /\ \A w \in Worker : wpc[w] = "handled" /\ item[w].job # NoJob
                         => item[w].job \in finished \ retired
  /\ \A v, w \in Worker :
       v # w /\ wpc[v] = "handled" /\ wpc[w] = "handled" /\ item[v].job # NoJob
         => item[v].job # item[w].job

IInv == TInv /\ PushHolds /\ IdsTell /\ HandledJobs /\ EachJobOnce

LEMMA InitIInv == Init => IInv
<1> SUFFICES ASSUME Init PROVE IInv
  OBVIOUS
<1>1. TInv
  BY InitTypes
<1>2. PushingJobs = {} /\ QueuedJobs = {} /\ RunningJobs = {}
  BY DEF Init, PushingJobs, PushedBy, QueuedJobs, RunningJobs, RunBy
<1>3. EachJobOnce
  BY <1>2 DEF Init, EachJobOnce, PushedBy, RunBy
<1>4. PushHolds
  BY DEF Init, PushHolds
<1>5. IdsTell
  BY DEF Init, IdsTell
<1>6. HandledJobs
  <2>1. \A w \in Worker : wpc[w] # "handled"
    BY DEF Init
  <2>2. retired = {} /\ finished = {}
    BY DEF Init
  <2>3. retired \subseteq finished
    BY <2>2, Zenon
  <2> QED
    BY <2>1, <2>3 DEF HandledJobs
<1> QED
  BY <1>1, <1>3, <1>4, <1>5, <1>6 DEF IInv

\* The jobs of a queue before and after each of the three ways it changes.
LEMMA AppendJobs ==
  ASSUME queue \in Seq(Item), NEW it \in Item, queue' = Append(queue, it)
  PROVE  QueuedJobs' = QueuedJobs \cup ({it.job} \ {NoJob})
<1>1. DOMAIN queue' = DOMAIN queue \cup {Len(queue) + 1}
  OBVIOUS
<1>2. /\ \A i \in DOMAIN queue : queue'[i] = queue[i]
      /\ queue'[Len(queue) + 1] = it
  OBVIOUS
<1> QED
  BY <1>1, <1>2 DEF QueuedJobs

LEMMA TailJobs ==
  ASSUME queue \in Seq(Item), queue # <<>>, queue' = Tail(queue)
  PROVE  QueuedJobs = QueuedJobs' \cup ({Head(queue).job} \ {NoJob})
<1>1. /\ DOMAIN queue' = 1 .. Len(queue) - 1
      /\ DOMAIN queue = 1 .. Len(queue) /\ Len(queue) \in Nat \ {0}
      /\ \A i \in DOMAIN queue' : queue'[i] = queue[i + 1]
      /\ Head(queue) = queue[1]
  OBVIOUS
<1>2. ASSUME NEW i \in DOMAIN queue PROVE i = 1 \/ i - 1 \in DOMAIN queue'
  BY <1>1
<1>3. \A i \in DOMAIN queue : i # 1 => queue[i] = queue'[i - 1]
  BY <1>1, <1>2
<1>4. \A i \in DOMAIN queue' : i + 1 \in DOMAIN queue
  BY <1>1
<1> QED
  BY <1>1, <1>2, <1>3, <1>4 DEF QueuedJobs

LEMMA RemoveAtJobs ==
  ASSUME queue \in Seq(Item), NEW k \in DOMAIN queue,
         queue' = [i \in 1 .. Len(queue) - 1 |-> IF i < k THEN queue[i] ELSE queue[i + 1]]
  PROVE  /\ QueuedJobs = QueuedJobs' \cup ({queue[k].job} \ {NoJob})
         /\ \A i \in DOMAIN queue' : \E h \in DOMAIN queue \ {k} : queue'[i] = queue[h]
         /\ \A i, h \in DOMAIN queue' : i # h =>
              \E m, n \in DOMAIN queue \ {k} : m # n /\ queue'[i] = queue[m] /\ queue'[h] = queue[n]
<1> DEFINE at(i) == IF i < k THEN i ELSE i + 1
<1>1. DOMAIN queue = 1 .. Len(queue) /\ Len(queue) \in Nat /\ k \in 1 .. Len(queue)
  OBVIOUS
<1>2. DOMAIN queue' = 1 .. Len(queue) - 1
  OBVIOUS
<1>3. ASSUME NEW i \in DOMAIN queue'
      PROVE  at(i) \in DOMAIN queue \ {k} /\ queue'[i] = queue[at(i)]
  BY <1>1, <1>2
<1>4. \A i, h \in DOMAIN queue' : i # h => at(i) # at(h)
  BY <1>1, <1>2
<1>5. ASSUME NEW h \in DOMAIN queue \ {k}
      PROVE  \E i \in DOMAIN queue' : at(i) = h
  <2>1. CASE h < k
    BY <2>1, <1>1, <1>2
  <2>2. CASE h > k
    <3>1. h - 1 \in DOMAIN queue' /\ at(h - 1) = h
      BY <2>2, <1>1, <1>2
    <3> QED
      BY <3>1
  <2> QED
    BY <2>1, <2>2, <1>1
<1> HIDE DEF at
<1>6. \A h \in DOMAIN queue \ {k} : \E i \in DOMAIN queue' : queue'[i] = queue[h]
  BY <1>3, <1>5
<1>7. QueuedJobs = QueuedJobs' \cup ({queue[k].job} \ {NoJob})
  <2>1. QueuedJobs' \subseteq QueuedJobs
    BY <1>3 DEF QueuedJobs
  <2>2. {queue[k].job} \ {NoJob} \subseteq QueuedJobs
    BY DEF QueuedJobs
  <2>3. ASSUME NEW h \in DOMAIN queue, queue[h].job # NoJob, h # k
        PROVE  queue[h].job \in QueuedJobs'
    BY <2>3, <1>6 DEF QueuedJobs
  <2>4. QueuedJobs \subseteq QueuedJobs' \cup ({queue[k].job} \ {NoJob})
    BY <2>3 DEF QueuedJobs
  <2> QED
    BY <2>1, <2>2, <2>4
<1>8. \A i \in DOMAIN queue' : \E h \in DOMAIN queue \ {k} : queue'[i] = queue[h]
  BY <1>3
<1>9. ASSUME NEW i \in DOMAIN queue', NEW h \in DOMAIN queue', i # h
      PROVE  \E m, n \in DOMAIN queue \ {k} :
               m # n /\ queue'[i] = queue[m] /\ queue'[h] = queue[n]
  <2>1. at(i) # at(h)
    BY <1>4, <1>9
  <2> QED
    BY <2>1, <1>3
<1> QED
  BY <1>7, <1>8, <1>9

\* A step that moves no job from one place to another.
LEMMA SamePlaces ==
  ASSUME EachJobOnce,
         UNCHANGED <<queue, cjob, submitted, finished, removed>>,
         \A w \in Worker : RunBy(w)' = RunBy(w)
  PROVE  EachJobOnce'
<1>1. PushingJobs' = PushingJobs /\ \A c \in Client : PushedBy(c)' = PushedBy(c)
  BY DEF PushingJobs, PushedBy
<1>2. QueuedJobs' = QueuedJobs
  BY DEF QueuedJobs
<1>3. RunningJobs' = RunningJobs
  BY DEF RunningJobs
<1> QED
  BY <1>1, <1>2, <1>3 DEF EachJobOnce

\* The same for the other three conjuncts of IInv.
LEMMA SameHolds ==
  ASSUME PushHolds, IdsTell, HandledJobs, UNCHANGED <<queue, cjob, finished, retired>>,
         \A c \in Client : cpc'[c] = "push" <=> cpc[c] = "push",
         \A w \in Worker : wpc'[w] = "handled" => wpc[w] = "handled" /\ item'[w] = item[w]
  PROVE  PushHolds' /\ IdsTell' /\ HandledJobs'
BY DEF PushHolds, IdsTell, HandledJobs

LEMMA CountSubmitStep ==
  ASSUME IInv, NEW c \in Client, NEW j \in Job, CountSubmit(c, j)
  PROVE  PushHolds' /\ IdsTell' /\ HandledJobs' /\ EachJobOnce'
<1> USE DEF IInv
<1>1. /\ cjob[c] = NoJob /\ j # NoJob /\ j \notin submitted
      /\ cjob' = [cjob EXCEPT ![c] = j] /\ cpc' = [cpc EXCEPT ![c] = "push"]
      /\ submitted' = submitted \cup {j}
      /\ UNCHANGED <<queue, wpc, item, finished, retired, removed>>
      /\ cjob \in [Client -> Job \cup {NoJob}] /\ cpc \in [Client -> ClientPC]
  BY Assumptions DEF CountSubmit, PushHolds, workerVars, TInv, TypeOK
<1>2. \A d \in Client : PushedBy(d)' = IF d = c THEN {j} ELSE PushedBy(d)
  BY <1>1 DEF PushedBy
<1>3. PushingJobs' = PushingJobs \cup {j}
  BY <1>1, <1>2 DEF PushingJobs, PushedBy
<1>4. QueuedJobs' = QueuedJobs /\ RunningJobs' = RunningJobs /\ \A w \in Worker : RunBy(w)' = RunBy(w)
  BY <1>1 DEF QueuedJobs, RunningJobs, RunBy
<1>5. \A d \in Client : j \notin PushedBy(d)
  BY <1>1 DEF EachJobOnce, PushingJobs
<1>6. EachJobOnce'
  BY <1>1, <1>2, <1>3, <1>4, <1>5 DEF EachJobOnce
<1>7. PushHolds' /\ IdsTell' /\ HandledJobs'
  BY <1>1 DEF PushHolds, IdsTell, HandledJobs
<1> QED
  BY <1>6, <1>7

LEMMA PushGraphStep ==
  ASSUME IInv, NEW c \in Client, PushGraph(c)
  PROVE  PushHolds' /\ IdsTell' /\ HandledJobs' /\ EachJobOnce'
<1> USE DEF IInv
<1> DEFINE it == [id |-> gcount, job |-> cjob[c]]
<1>1. /\ cjob[c] # NoJob
      /\ queue' = Append(queue, it) /\ it \in Item /\ it.job = cjob[c] /\ it.id # 0
      /\ cjob' = [cjob EXCEPT ![c] = NoJob] /\ cpc' = [cpc EXCEPT ![c] = "notify"]
      /\ UNCHANGED <<wpc, item, submitted, finished, retired, removed>>
      /\ cjob \in [Client -> Job \cup {NoJob}] /\ cpc \in [Client -> ClientPC]
      /\ queue \in Seq(Item)
  BY Assumptions DEF PushGraph, PushBack, PushHolds, workerVars, historyVars, TInv, TypeOK, Item
<1> HIDE DEF it
<1>2. \A d \in Client : PushedBy(d)' = IF d = c THEN {} ELSE PushedBy(d)
  BY <1>1 DEF PushedBy
<1>3. \A d \in Client : d # c => cjob[c] \notin PushedBy(d)
  BY <1>1 DEF EachJobOnce, PushedBy
<1>4. cjob[c] \in PushedBy(c) /\ PushedBy(c) = {cjob[c]}
  BY <1>1 DEF PushedBy
<1>5. PushingJobs' = PushingJobs \ {cjob[c]} /\ cjob[c] \in PushingJobs
  BY <1>2, <1>3, <1>4 DEF PushingJobs
<1>6. QueuedJobs' = QueuedJobs \cup {cjob[c]}
  BY <1>1, AppendJobs
<1>7. RunningJobs' = RunningJobs /\ \A w \in Worker : RunBy(w)' = RunBy(w)
  BY <1>1 DEF RunningJobs, RunBy
<1>8. /\ DOMAIN queue' = DOMAIN queue \cup {Len(queue) + 1}
      /\ \A i \in DOMAIN queue : queue'[i] = queue[i]
      /\ queue'[Len(queue) + 1] = it
  BY <1>1
<1>9. \A i \in DOMAIN queue : queue[i].job # cjob[c]
  BY <1>1, <1>5 DEF EachJobOnce, QueuedJobs
<1>10. \A i, k \in DOMAIN queue' : i # k /\ queue'[i].job # NoJob => queue'[i].job # queue'[k].job
  BY <1>1, <1>8, <1>9 DEF EachJobOnce
<1>11. \A a, b \in Client : a # b => PushedBy(a)' \cap PushedBy(b)' = {}
  BY <1>2 DEF EachJobOnce
<1>12. EachJobOnce'
  BY <1>1, <1>5, <1>6, <1>7, <1>10, <1>11 DEF EachJobOnce
<1>13. IdsTell'
  BY <1>1, <1>8 DEF IdsTell
<1>14. PushHolds' /\ HandledJobs'
  BY <1>1 DEF PushHolds, HandledJobs
<1> QED
  BY <1>12, <1>13, <1>14

LEMMA GraphRemoveStep ==
  ASSUME IInv, NEW c \in Client, NEW g \in Graph, GraphRemove(c, g)
  PROVE  PushHolds' /\ IdsTell' /\ HandledJobs' /\ EachJobOnce'
<1> USE DEF IInv
<1>1. PICK k \in DOMAIN queue :
        /\ ScanHit(g, k)
        /\ queue' = [i \in 1 .. Len(queue) - 1 |-> IF i < k THEN queue[i] ELSE queue[i + 1]]
        /\ removed' = removed \cup {queue[k].job}
  BY DEF GraphRemove
<1> DEFINE j == queue[k].job
<1>2. j # NoJob /\ queue \in Seq(Item)
  BY <1>1 DEF ScanHit, Matches, TInv, TypeOK
<1>3. UNCHANGED <<wpc, item, cpc, cjob, submitted, finished, retired>>
  BY DEF GraphRemove, workerVars, clientVars
<1>4. /\ QueuedJobs = QueuedJobs' \cup ({queue[k].job} \ {NoJob})
      /\ \A i \in DOMAIN queue' : \E h \in DOMAIN queue \ {k} : queue'[i] = queue[h]
      /\ \A i, h \in DOMAIN queue' : i # h =>
           \E m, n \in DOMAIN queue \ {k} : m # n /\ queue'[i] = queue[m] /\ queue'[h] = queue[n]
  BY <1>1, <1>2, RemoveAtJobs
<1>5. \A h \in DOMAIN queue \ {k} : queue[h].job # j
  BY <1>2 DEF EachJobOnce
<1>6. j \notin QueuedJobs'
  BY <1>4, <1>5 DEF QueuedJobs
<1>7. \A i, h \in DOMAIN queue' : i # h /\ queue'[i].job # NoJob => queue'[i].job # queue'[h].job
  BY <1>4 DEF EachJobOnce
<1>8. /\ PushingJobs' = PushingJobs /\ \A d \in Client : PushedBy(d)' = PushedBy(d)
      /\ RunningJobs' = RunningJobs /\ \A w \in Worker : RunBy(w)' = RunBy(w)
  BY <1>3 DEF PushingJobs, PushedBy, RunningJobs, RunBy
<1>9. EachJobOnce'
  <2>1. removed' = removed \cup {j} /\ QueuedJobs = QueuedJobs' \cup {j}
    BY <1>1, <1>2, <1>4
  <2> HIDE DEF j
  <2> QED
    BY <1>3, <1>6, <1>7, <1>8, <2>1 DEF EachJobOnce
<1>10. IdsTell'
  BY <1>4 DEF IdsTell
<1>11. PushHolds' /\ HandledJobs'
  BY <1>3 DEF PushHolds, HandledJobs
<1> QED
  BY <1>9, <1>10, <1>11

\* A worker that fetches an item holds its job; an item that ends the worker
\* has none.
LEMMA FetchStep ==
  ASSUME IInv, NEW w \in Worker, Fetch(w)
  PROVE  PushHolds' /\ IdsTell' /\ HandledJobs' /\ EachJobOnce'
<1> USE DEF IInv
<1> DEFINE it == IF queue = <<>> THEN PhantomItem ELSE Head(queue)
           got == {it.job} \ {NoJob}
<1>1. /\ wpc[w] # "handle" /\ wpc[w] # "handled"
      /\ item' = [item EXCEPT ![w] = it]
      /\ wpc' = [wpc EXCEPT ![w] = IF it.id = 0 THEN "exited" ELSE "handle"]
      /\ queue' = IF queue = <<>> THEN <<>> ELSE Tail(queue)
      /\ UNCHANGED <<cpc, cjob, submitted, finished, retired, removed>>
      /\ wpc \in [Worker -> WorkerPC] /\ item \in [Worker -> Item] /\ queue \in Seq(Item)
  BY DEF Fetch, clientVars, historyVars, TInv, TypeOK
<1>2. QueuedJobs = QueuedJobs' \cup got
  <2>1. CASE queue = <<>>
    BY <2>1, <1>1 DEF QueuedJobs, PhantomItem
  <2>2. CASE queue # <<>>
    BY <2>2, <1>1, TailJobs
  <2> QED
    BY <2>1, <2>2
<1>3. queue # <<>> => /\ DOMAIN queue' = 1 .. Len(queue) - 1
                      /\ DOMAIN queue = 1 .. Len(queue) /\ Len(queue) \in Nat \ {0}
                      /\ \A i \in DOMAIN queue' : queue'[i] = queue[i + 1]
                      /\ it = queue[1]
  BY <1>1
<1>4. \A i \in DOMAIN queue' : queue'[i].job \notin got
  BY <1>1, <1>3 DEF EachJobOnce
<1>5. got \cap QueuedJobs' = {}
  BY <1>4 DEF QueuedJobs
<1>6. it.id = 0 => got = {}
  BY <1>1, <1>3, Assumptions DEF IdsTell, PhantomItem
<1>7. IdsTell'
  BY <1>1, <1>3 DEF IdsTell
<1>8. \A i, h \in DOMAIN queue' : i # h /\ queue'[i].job # NoJob => queue'[i].job # queue'[h].job
  BY <1>1, <1>3 DEF EachJobOnce
<1> HIDE DEF it, got
<1>9. RunBy(w) = {} /\ RunBy(w)' = got
  BY <1>1, <1>6 DEF RunBy, got
<1>10. \A v \in Worker \ {w} : RunBy(v)' = RunBy(v)
  BY <1>1 DEF RunBy
<1>11. RunningJobs' = RunningJobs \cup got
  BY <1>9, <1>10 DEF RunningJobs
<1>12. PushingJobs' = PushingJobs /\ \A d \in Client : PushedBy(d)' = PushedBy(d)
  BY <1>1 DEF PushingJobs, PushedBy
<1>13. \A v \in Worker : v # w => RunBy(v) \cap got = {}
  BY <1>2 DEF EachJobOnce, RunningJobs
<1>14. \A u, v \in Worker : u # v => RunBy(u)' \cap RunBy(v)' = {}
  BY <1>9, <1>10, <1>13 DEF EachJobOnce
<1>15. EachJobOnce'
  BY <1>1, <1>2, <1>5, <1>8, <1>11, <1>12, <1>14 DEF EachJobOnce
<1>16. PushHolds' /\ HandledJobs'
  BY <1>1 DEF PushHolds, HandledJobs
<1> QED
  BY <1>7, <1>15, <1>16

LEMMA HandleStep ==
  ASSUME IInv, NEW w \in Worker, Handle(w)
  PROVE  PushHolds' /\ IdsTell' /\ HandledJobs' /\ EachJobOnce'
<1> USE DEF IInv
<1> DEFINE job == {item[w].job} \ {NoJob}
<1>1. /\ wpc[w] = "handle" /\ wpc' = [wpc EXCEPT ![w] = "handled"]
      /\ finished' = finished \cup job
      /\ UNCHANGED <<queue, item, cpc, cjob, submitted, retired, removed>>
      /\ wpc \in [Worker -> WorkerPC]
  BY DEF Handle, clientVars, TInv, TypeOK
<1>2. RunBy(w) = job /\ RunBy(w)' = {}
  BY <1>1 DEF RunBy
<1>3. \A v \in Worker \ {w} : RunBy(v)' = RunBy(v)
  BY <1>1 DEF RunBy
<1>4. /\ \A v \in Worker \ {w} : RunBy(v) \cap job = {}
      /\ job \subseteq RunningJobs /\ job \cap finished = {}
  BY <1>2 DEF EachJobOnce, RunningJobs
<1>5. job \subseteq RunningJobs /\ RunningJobs' = RunningJobs \ job
  BY <1>2, <1>3, <1>4 DEF RunningJobs
<1>6. /\ PushingJobs' = PushingJobs /\ \A d \in Client : PushedBy(d)' = PushedBy(d)
      /\ QueuedJobs' = QueuedJobs
  BY <1>1 DEF PushingJobs, PushedBy, QueuedJobs
<1>7. \A u, v \in Worker : u # v => RunBy(u)' \cap RunBy(v)' = {}
  BY <1>2, <1>3 DEF EachJobOnce
<1>8. HandledJobs'
  <2>1. retired' \subseteq finished'
    BY <1>1 DEF HandledJobs
  <2>2. ASSUME NEW v \in Worker, wpc'[v] = "handled", item'[v].job # NoJob
        PROVE  item'[v].job \in finished' \ retired'
    <3>1. CASE v = w
      BY <3>1, <2>2, <1>1, <1>4 DEF HandledJobs
    <3>2. CASE v # w
      BY <3>2, <2>2, <1>1 DEF HandledJobs
    <3> QED
      BY <3>1, <3>2
  <2>3. ASSUME NEW u \in Worker, NEW v \in Worker, u # v,
               wpc'[u] = "handled", wpc'[v] = "handled", item'[u].job # NoJob
        PROVE  item'[u].job # item'[v].job
    <3>1. CASE u = w
      BY <3>1, <2>3, <1>1, <1>4 DEF HandledJobs
    <3>2. CASE v = w
      BY <3>2, <2>3, <1>1, <1>4 DEF HandledJobs
    <3>3. CASE u # w /\ v # w
      BY <3>3, <2>3, <1>1 DEF HandledJobs
    <3> QED
      BY <3>1, <3>2, <3>3
  <2> QED
    BY <2>1, <2>2, <2>3 DEF HandledJobs
<1> HIDE DEF job
<1>9. EachJobOnce'
  BY <1>1, <1>5, <1>6, <1>7 DEF EachJobOnce
<1>10. PushHolds' /\ IdsTell'
  BY <1>1 DEF PushHolds, IdsTell
<1> QED
  BY <1>8, <1>9, <1>10

LEMMA DecrementStep ==
  ASSUME IInv, NEW w \in Worker, Decrement(w)
  PROVE  PushHolds' /\ IdsTell' /\ HandledJobs' /\ EachJobOnce'
<1> USE DEF IInv
<1>1. /\ wpc[w] = "handled" /\ wpc' = [wpc EXCEPT ![w] = "idleNotify"]
      /\ item' = [item EXCEPT ![w] = PhantomItem]
      /\ retired' = retired \cup ({item[w].job} \ {NoJob})
      /\ UNCHANGED <<queue, cpc, cjob, submitted, finished, removed>>
      /\ wpc \in [Worker -> WorkerPC] /\ item \in [Worker -> Item]
  BY DEF Decrement, clientVars, TInv, TypeOK
<1>2. \A v \in Worker : RunBy(v)' = RunBy(v)
  BY <1>1 DEF RunBy
<1>3. EachJobOnce'
  BY <1>1, <1>2, SamePlaces
<1>4. HandledJobs'
  <2>1. retired' \subseteq finished'
    BY <1>1 DEF HandledJobs
  <2>2. \A v \in Worker : wpc'[v] = "handled" => v # w /\ wpc[v] = "handled" /\ item'[v] = item[v]
    BY <1>1
  <2> QED
    BY <1>1, <2>1, <2>2 DEF HandledJobs
<1>5. PushHolds' /\ IdsTell'
  BY <1>1 DEF PushHolds, IdsTell
<1> QED
  BY <1>3, <1>4, <1>5

\* One step of the device keeps IInv: the five steps above move a job, every
\* other one leaves all the jobs where they are.
LEMMA NextIInv == IInv /\ [Next]_vars => IInv'
<1> SUFFICES ASSUME IInv, [Next]_vars PROVE IInv'
  OBVIOUS
<1> DEFINE Rest == PushHolds' /\ IdsTell' /\ HandledJobs' /\ EachJobOnce'
<1>0. TInv'
  BY NextTypes DEF IInv
<1>1. ASSUME NEW c \in Client, NEW j \in Job, CountSubmit(c, j) PROVE Rest
  BY <1>1, CountSubmitStep
<1>2. ASSUME NEW c \in Client, NEW g \in Graph, GraphRemove(c, g) PROVE Rest
  BY <1>2, GraphRemoveStep
<1>3. ASSUME NEW c \in Client, PushGraph(c) PROVE Rest
  BY <1>3, PushGraphStep
<1>4. ASSUME NEW w \in Worker, Fetch(w) PROVE Rest
  BY <1>4, FetchStep
<1>5. ASSUME NEW w \in Worker, Handle(w) PROVE Rest
  BY <1>5, HandleStep
<1>6. ASSUME NEW w \in Worker, Decrement(w) PROVE Rest
  BY <1>6, DecrementStep
<1>7. ASSUME UNCHANGED <<queue, cjob, submitted, finished, retired, removed, item>>,
             \A c \in Client : cpc'[c] = "push" <=> cpc[c] = "push",
             \A w \in Worker : /\ wpc'[w] = "handled" <=> wpc[w] = "handled"
                               /\ wpc'[w] = "handle" <=> wpc[w] = "handle"
      PROVE  Rest
  <2>1. \A w \in Worker : RunBy(w)' = RunBy(w)
    BY <1>7 DEF RunBy
  <2>2. EachJobOnce'
    BY <1>7, <2>1, SamePlaces DEF IInv
  <2>3. PushHolds' /\ IdsTell' /\ HandledJobs'
    BY <1>7, SameHolds DEF IInv
  <2> QED
    BY <2>2, <2>3
<1> HIDE DEF Rest
<1> USE DEF IInv, TInv, TypeOK, WorkerPC, ClientPC
<1>8. ASSUME NEW c \in Client, NotifyGraph(c) PROVE Rest
  BY <1>8, <1>7 DEF NotifyGraph, NotifyQueue, QueueWaiting, historyVars
<1>9. ASSUME NEW c \in Client, WaitThreadIdle(c) PROVE Rest
  BY <1>9, <1>7 DEF WaitThreadIdle, workerVars, historyVars
<1>10. ASSUME CallThreadExit PROVE Rest
  BY <1>10, <1>7, Assumptions DEF CallThreadExit, workerVars
<1>11. ASSUME PushFake PROVE Rest
  <2>1. /\ queue' = Append(queue, FakeItem) /\ FakeItem \in Item
        /\ UNCHANGED <<wpc, item, cjob, submitted, finished, retired, removed>>
        /\ \A c \in Client : cpc'[c] = "push" <=> cpc[c] = "push"
    BY <1>11, Assumptions DEF PushFake, PushBack, FakeItem, Item, workerVars, historyVars
  <2>2. QueuedJobs' = QueuedJobs
    BY <2>1, AppendJobs DEF FakeItem
  <2>3. /\ DOMAIN queue' = DOMAIN queue \cup {Len(queue) + 1}
        /\ \A i \in DOMAIN queue : queue'[i] = queue[i]
        /\ queue'[Len(queue) + 1] = [id |-> 0, job |-> NoJob]
    BY <2>1 DEF FakeItem
  <2>4. /\ PushingJobs' = PushingJobs /\ \A d \in Client : PushedBy(d)' = PushedBy(d)
        /\ RunningJobs' = RunningJobs /\ \A w \in Worker : RunBy(w)' = RunBy(w)
    BY <2>1 DEF PushingJobs, PushedBy, RunningJobs, RunBy
  <2>5. \A i, k \in DOMAIN queue' : i # k /\ queue'[i].job # NoJob => queue'[i].job # queue'[k].job
    BY <2>3 DEF EachJobOnce
  <2>6. EachJobOnce'
    BY <2>1, <2>2, <2>4, <2>5 DEF EachJobOnce
  <2>7. PushHolds' /\ HandledJobs'
    BY <2>1 DEF PushHolds, HandledJobs
  <2>8. IdsTell'
    BY <2>3 DEF IdsTell
  <2> QED
    BY <2>6, <2>7, <2>8 DEF Rest
<1>12. ASSUME NotifyFake PROVE Rest
  BY <1>12, <1>7, Assumptions DEF NotifyFake, NotifyQueue, QueueWaiting, historyVars
<1>13. ASSUME Join PROVE Rest
  BY <1>13, <1>7, Assumptions DEF Join, workerVars, historyVars
<1>14. ASSUME NEW w \in Worker, Block(w) PROVE Rest
  BY <1>14, <1>7 DEF Block, clientVars, historyVars
<1>15. ASSUME NEW w \in Worker, NotifyIdle(w) PROVE Rest
  BY <1>15, <1>7 DEF NotifyIdle, WakeIdle, IdleWaiting, historyVars
<1>16. ASSUME SpuriousWakeup PROVE Rest
  BY <1>16, <1>7 DEF SpuriousWakeup, QueueWaiting, IdleWaiting
<1>17. ASSUME UNCHANGED vars PROVE Rest
  BY <1>17, <1>7 DEF vars, workerVars, clientVars, historyVars
<1>18. Rest
  BY <1>1, <1>2, <1>3, <1>4, <1>5, <1>6, <1>8, <1>9, <1>10, <1>11, <1>12,
     <1>13, <1>14, <1>15, <1>16, <1>17 DEF Next
<1> QED
  BY <1>0, <1>18 DEF Rest

\* No job GraphSubmit has counted is lost, and none is run twice.
THEOREM JobsNeitherLostNorRepeated == Spec => []EachJobOnce
<1>1. Init => IInv
  BY InitIInv
<1>2. IInv /\ [Next]_vars => IInv'
  BY NextIInv
<1>3. IInv => EachJobOnce
  BY DEF IInv
<1> QED
  BY <1>1, <1>2, <1>3, PTL DEF Spec

---------------------------------------------------------------------------
\* Counting

LEMMA InitAccounting == Init => Accounting
<1> SUFFICES ASSUME Init PROVE Accounting
  OBVIOUS
<1>1. submitted \ retired = {}
  BY DEF Init
<1> QED
  BY <1>1, FS_EmptySet DEF Init, Accounting

LEMMA NextAccounting == IInv /\ Accounting /\ [Next]_vars => Accounting'
<1> SUFFICES ASSUME IInv, Accounting, [Next]_vars PROVE Accounting'
  OBVIOUS
<1> DEFINE open == submitted \ retired
<1>1. IsFiniteSet(open) /\ Cardinality(open) \in Nat
  <2>1. open \subseteq Job
    BY DEF IInv, TInv, TypeOK
  <2> QED
    BY <2>1, Assumptions, FS_Subset, FS_CardinalityType
<1>2. retired \subseteq finished /\ finished \subseteq submitted
  BY DEF IInv, HandledJobs, EachJobOnce
<1>3. submit_num = Cardinality(open) - phantoms /\ phantoms \in Nat /\ submit_num \in Int
  BY DEF Accounting, IInv, TInv, TypeOK
<1>4. ASSUME NEW c \in Client, NEW j \in Job, CountSubmit(c, j) PROVE Accounting'
  <2>1. open' = open \cup {j} /\ j \notin open
    BY <1>4, <1>2 DEF CountSubmit
  <2>2. Cardinality(open') = Cardinality(open) + 1
    BY <2>1, <1>1, FS_AddElement
  <2> QED
    BY <1>4, <2>2, <1>1, <1>3 DEF CountSubmit, Accounting
<1>5. ASSUME NEW w \in Worker, Decrement(w) PROVE Accounting'
  <2>1. CASE item[w].job = NoJob
    <3>1. open' = open /\ phantoms' = phantoms + 1 /\ submit_num' = submit_num - 1
      BY <1>5, <2>1 DEF Decrement
    <3> QED
      BY <3>1, <1>1, <1>3 DEF Accounting
  <2>2. CASE item[w].job # NoJob
    <3>1. item[w].job \in finished \ retired
      BY <1>5, <2>2 DEF Decrement, IInv, HandledJobs
    <3>2. /\ open' = open \ {item[w].job} /\ item[w].job \in open
          /\ phantoms' = phantoms /\ submit_num' = submit_num - 1
      BY <1>5, <2>2, <3>1, <1>2 DEF Decrement
    <3>3. Cardinality(open') = Cardinality(open) - 1
      <4>1. Cardinality(open \ {item[w].job}) = Cardinality(open) - 1
        BY <3>2, <1>1, FS_RemoveElement
      <4> QED
        BY <3>2, <4>1
    <3> QED
      BY <3>2, <3>3, <1>1, <1>3 DEF Accounting
  <2> QED
    BY <2>1, <2>2
<1>6. ASSUME UNCHANGED <<submit_num, submitted, retired, phantoms>> PROVE Accounting'
  BY <1>6 DEF Accounting
<1>7. ASSUME NEW c \in Client, NEW g \in Graph, GraphRemove(c, g) PROVE Accounting'
  BY <1>7, <1>6 DEF GraphRemove
<1>8. ASSUME NEW c \in Client, PushGraph(c) \/ NotifyGraph(c) \/ WaitThreadIdle(c) PROVE Accounting'
  BY <1>8, <1>6 DEF PushGraph, NotifyGraph, WaitThreadIdle, historyVars
<1>9. CASE CallThreadExit \/ PushFake \/ NotifyFake \/ Join
  BY <1>9, <1>6 DEF CallThreadExit, PushFake, NotifyFake, Join, historyVars
<1>10. ASSUME NEW w \in Worker, Block(w) \/ Fetch(w) \/ Handle(w) \/ NotifyIdle(w) PROVE Accounting'
  BY <1>10, <1>6 DEF Block, Fetch, Handle, NotifyIdle, historyVars
<1>11. CASE SpuriousWakeup \/ UNCHANGED vars
  BY <1>11, <1>6 DEF SpuriousWakeup, vars, historyVars
<1> QED
  BY <1>4, <1>5, <1>7, <1>8, <1>9, <1>10, <1>11 DEF Next

\* submit_num is the number of jobs announced and not counted down, less one
\* for every empty fetch.
THEOREM CounterIsAccurate == Spec => []Accounting
<1>1. Init => IInv /\ Accounting
  BY InitIInv, InitAccounting
<1>2. IInv /\ Accounting /\ [Next]_vars => IInv' /\ Accounting'
  BY NextIInv, NextAccounting
<1> QED
  BY <1>1, <1>2, PTL DEF Spec

\* WaitThreadIdle, when no fetch ever came back empty, returns only after
\* every announced job has run to its end.
THEOREM IdleReturnIsSound == Spec => IdleMeansDone
<1> DEFINE Sound == \A c \in Client :
             WaitThreadIdle(c) /\ cpc'[c] = "out" /\ phantoms = 0 => submitted \subseteq finished
<1>1. Init => IInv /\ Accounting
  BY InitIInv, InitAccounting
<1>2. IInv /\ Accounting /\ [Next]_vars => IInv' /\ Accounting'
  BY NextIInv, NextAccounting
<1>3. IInv /\ Accounting => Sound
  <2> SUFFICES ASSUME IInv, Accounting, NEW c \in Client,
                      WaitThreadIdle(c), cpc'[c] = "out", phantoms = 0
               PROVE  submitted \subseteq finished
    OBVIOUS
  <2>1. ~ (submit_num > 0)
    BY DEF WaitThreadIdle, Busy, IInv, TInv, TypeOK
  <2>2. IsFiniteSet(submitted \ retired)
    <3>1. submitted \ retired \subseteq Job
      BY DEF IInv, TInv, TypeOK
    <3> QED
      BY <3>1, Assumptions, FS_Subset
  <2>3. Cardinality(submitted \ retired) = 0
    BY <2>1, <2>2, FS_CardinalityType DEF Accounting
  <2>4. submitted \ retired = {}
    BY <2>2, <2>3, FS_EmptySet
  <2> QED
    BY <2>4 DEF IInv, HandledJobs
<1> QED
  BY <1>1, <1>2, <1>3, PTL DEF Spec, IdleMeansDone
---------------------------------------------------------------------------
\* Wakeups

Woken     == {w \in Worker : wpc[w] = "woken"}
Notifying == {c \in Client : cpc[c] \in {"notify", "exitNotify"}}

\* While a worker sleeps, each queued item has a wakeup of its own: a worker
\* that was woken and has not fetched, or a notify_one still to come.  An item
\* that ends the worker that takes it is why one for all is not enough.
Wakeups ==
  /\ IsFiniteSet(Notifying)
  /\ QueueWaiting # {} => Len(queue) <= Cardinality(Woken) + Cardinality(Notifying)

LEMMA WokenFinite == IsFiniteSet(Woken) /\ Cardinality(Woken) \in Nat
<1>1. Woken \subseteq Worker
  BY DEF Woken
<1> QED
  BY <1>1, Assumptions, FS_Subset, FS_CardinalityType

\* A notify_one leaves no worker asleep, or trades its wakeup for one it woke.
LEMMA NotifyWakes ==
  ASSUME TInv, NEW c \in Client, cpc[c] \in {"notify", "exitNotify"}, NotifyQueue, queue' = queue,
         NEW pc \in ClientPC \ {"notify", "exitNotify"}, cpc' = [cpc EXCEPT ![c] = pc], Wakeups
  PROVE  Wakeups'
<1>1. Notifying' = Notifying \ {c} /\ c \in Notifying
  BY DEF Notifying, TInv, TypeOK
<1>2. /\ IsFiniteSet(Notifying') /\ Cardinality(Notifying') = Cardinality(Notifying) - 1
      /\ Cardinality(Notifying) \in Nat
  BY <1>1, FS_RemoveElement, FS_CardinalityType DEF Wakeups
<1>3. CASE QueueWaiting = {}
  <2>1. QueueWaiting' = {}
    BY <1>3 DEF NotifyQueue, QueueWaiting
  <2> QED
    BY <2>1, <1>2 DEF Wakeups
<1>4. CASE QueueWaiting # {}
  <2>1. PICK w \in QueueWaiting : wpc' = [wpc EXCEPT ![w] = "woken"]
    BY <1>4 DEF NotifyQueue
  <2>2. Woken' = Woken \cup {w} /\ w \notin Woken
    BY <2>1 DEF Woken, QueueWaiting, TInv, TypeOK
  <2>3. Cardinality(Woken') = Cardinality(Woken) + 1
    BY <2>2, WokenFinite, FS_AddElement
  <2>4. Len(queue) <= Cardinality(Woken') + Cardinality(Notifying')
    BY <2>3, <1>2, <1>4, WokenFinite DEF Wakeups, TInv, TypeOK
  <2> QED
    BY <2>4, <1>2 DEF Wakeups
<1> QED
  BY <1>3, <1>4

\* A push adds an item and the notify_one that will follow it.
LEMMA PushWakes ==
  ASSUME TInv, NEW c \in Client, cpc[c] \notin {"notify", "exitNotify"}, UNCHANGED wpc,
         NEW it, queue' = Append(queue, it),
         NEW pc \in {"notify", "exitNotify"}, cpc' = [cpc EXCEPT ![c] = pc], Wakeups
  PROVE  Wakeups'
<1>1. Notifying' = Notifying \cup {c} /\ c \notin Notifying
  BY DEF Notifying, TInv, TypeOK
<1>2. /\ IsFiniteSet(Notifying') /\ Cardinality(Notifying') = Cardinality(Notifying) + 1
      /\ Cardinality(Notifying) \in Nat
  BY <1>1, FS_AddElement, FS_CardinalityType DEF Wakeups
<1>3. QueueWaiting' = QueueWaiting /\ Woken' = Woken
  BY DEF QueueWaiting, Woken
<1>4. Len(queue') = Len(queue) + 1 /\ Len(queue) \in Nat
  BY DEF TInv, TypeOK
<1> QED
  BY <1>2, <1>3, <1>4, WokenFinite DEF Wakeups

LEMMA InitWakeups == Init => Wakeups
<1> SUFFICES ASSUME Init PROVE Wakeups
  OBVIOUS
<1>1. Notifying = {} /\ QueueWaiting = {}
  BY DEF Init, Notifying, QueueWaiting
<1> QED
  BY <1>1, FS_EmptySet DEF Wakeups

LEMMA NextWakeups == TInv /\ Wakeups /\ [Next]_vars => Wakeups'
<1> SUFFICES ASSUME TInv, Wakeups, [Next]_vars PROVE Wakeups'
  OBVIOUS
<1> USE DEF ClientPC
<1>0. /\ wpc \in [Worker -> WorkerPC] /\ cpc \in [Client -> ClientPC] /\ queue \in Seq(Item)
      /\ Len(queue) \in Nat
  BY DEF TInv, TypeOK
<1>1. Cardinality(Notifying) \in Nat
  BY FS_CardinalityType DEF Wakeups
<1>2. ASSUME Notifying' = Notifying, Woken' = Woken, QueueWaiting' \subseteq QueueWaiting,
             Len(queue') \in Nat, Len(queue') <= Len(queue)
      PROVE  Wakeups'
  BY <1>0, <1>1, <1>2, WokenFinite DEF Wakeups
<1>3. ASSUME NEW c \in Client, NEW j \in Job, CountSubmit(c, j) PROVE Wakeups'
  BY <1>0, <1>2, <1>3 DEF CountSubmit, workerVars, Notifying, Woken, QueueWaiting
<1>4. ASSUME NEW c \in Client, NEW g \in Graph, GraphRemove(c, g) PROVE Wakeups'
  <2>1. Notifying' = Notifying /\ Woken' = Woken /\ QueueWaiting' = QueueWaiting
    BY <1>4 DEF GraphRemove, workerVars, clientVars, Notifying, Woken, QueueWaiting
  <2>2. PICK k \in DOMAIN queue :
          queue' = [i \in 1 .. Len(queue) - 1 |-> IF i < k THEN queue[i] ELSE queue[i + 1]]
    BY <1>4 DEF GraphRemove
  <2>3. Len(queue') = Len(queue) - 1 /\ Len(queue) > 0
    BY <2>2, <1>0
  <2> QED
    BY <2>1, <2>3, <1>0, <1>2
<1>5. ASSUME NEW c \in Client, PushGraph(c) PROVE Wakeups'
  BY <1>5, PushWakes DEF PushGraph, PushBack, workerVars
<1>6. ASSUME NEW c \in Client, NotifyGraph(c) PROVE Wakeups'
  BY <1>6, NotifyWakes DEF NotifyGraph
<1>7. ASSUME NEW c \in Client, WaitThreadIdle(c) PROVE Wakeups'
  BY <1>0, <1>2, <1>7 DEF WaitThreadIdle, workerVars, Notifying, Woken, QueueWaiting
<1>8. CASE CallThreadExit
  BY <1>0, <1>2, <1>8 DEF CallThreadExit, workerVars, Notifying, Woken, QueueWaiting
<1>9. CASE PushFake
  BY <1>9, Assumptions, PushWakes DEF PushFake, PushBack, workerVars
<1>10. CASE NotifyFake
  BY <1>10, Assumptions, NotifyWakes DEF NotifyFake
<1>11. CASE Join
  BY <1>0, <1>2, <1>11 DEF Join, workerVars, Notifying, Woken, QueueWaiting
<1>12. ASSUME NEW w \in Worker, Block(w) PROVE Wakeups'
  <2>1. Notifying' = Notifying /\ Woken' = Woken /\ Len(queue') = 0
    BY <1>0, <1>12 DEF Block, clientVars, Notifying, Woken
  <2> QED
    BY <2>1, <1>1, WokenFinite DEF Wakeups
<1>13. ASSUME NEW w \in Worker, Fetch(w) PROVE Wakeups'
  <2>1. Notifying' = Notifying /\ QueueWaiting' = QueueWaiting
    BY <1>0, <1>13 DEF Fetch, clientVars, Notifying, QueueWaiting
  <2>2. Len(queue') = IF queue = <<>> THEN 0 ELSE Len(queue) - 1
    BY <1>0, <1>13 DEF Fetch
  <2>3. CASE w \in Woken
    <3>1. Woken' = Woken \ {w}
      BY <1>0, <1>13 DEF Fetch, Woken
    <3>2. Cardinality(Woken') = Cardinality(Woken) - 1
      BY <3>1, <2>3, WokenFinite, FS_RemoveElement
    <3>3. Cardinality(Woken') \in Nat
      BY <3>1, WokenFinite, FS_RemoveElement, FS_CardinalityType
    <3> QED
      BY <2>1, <2>2, <3>2, <3>3, <1>0, <1>1, WokenFinite DEF Wakeups
  <2>4. CASE w \notin Woken
    <3>1. Woken' = Woken /\ queue # <<>>
      BY <1>0, <1>13, <2>4 DEF Fetch, Woken
    <3> QED
      BY <3>1, <2>1, <2>2, <1>0, <1>2
  <2> QED
    BY <2>3, <2>4
<1>14. ASSUME NEW w \in Worker, Handle(w) \/ Decrement(w) PROVE Wakeups'
  BY <1>0, <1>2, <1>14 DEF Handle, Decrement, clientVars, Notifying, Woken, QueueWaiting
<1>15. ASSUME NEW w \in Worker, NotifyIdle(w) PROVE Wakeups'
  BY <1>0, <1>2, <1>15 DEF NotifyIdle, WakeIdle, IdleWaiting, Notifying, Woken, QueueWaiting
<1>16. CASE SpuriousWakeup
  <2>1. queue' = queue /\ Notifying' = Notifying
    BY <1>0, <1>16 DEF SpuriousWakeup, IdleWaiting, Notifying
  <2>2. ASSUME NEW w \in QueueWaiting, wpc' = [wpc EXCEPT ![w] = "woken"] PROVE Wakeups'
    <3>1. Woken' = Woken \cup {w} /\ w \notin Woken
      BY <1>0, <2>2 DEF Woken, QueueWaiting
    <3>2. Cardinality(Woken') = Cardinality(Woken) + 1
      BY <3>1, WokenFinite, FS_AddElement
    <3> QED
      BY <2>1, <3>2, <1>0, <1>1, <2>2, WokenFinite DEF Wakeups
  <2>3. ASSUME UNCHANGED wpc PROVE Wakeups'
    BY <2>1, <2>3, <1>0, <1>2 DEF Woken, QueueWaiting
  <2> QED
    BY <1>16, <2>2, <2>3 DEF SpuriousWakeup
<1>17. CASE UNCHANGED vars
  BY <1>0, <1>2, <1>17 DEF vars, workerVars, clientVars, Notifying, Woken, QueueWaiting
<1> QED
  BY <1>3, <1>4, <1>5, <1>6, <1>7, <1>8, <1>9, <1>10, <1>11, <1>12, <1>13, <1>14, <1>15, <1>16,
     <1>17 DEF Next

\* The queue never has an item while all workers that are left sleep and nobody
\* is about to notify.
THEOREM NoWakeupIsLost == Spec => []NoLostWakeup
<1>1. Init => TInv /\ Wakeups
  BY InitTypes, InitWakeups
<1>2. TInv /\ Wakeups /\ [Next]_vars => TInv' /\ Wakeups'
  BY NextTypes, NextWakeups
<1>3. TInv /\ Wakeups => NoLostWakeup
  <2> DEFINE live == {w \in Worker : wpc[w] # "exited"}
  <2> SUFFICES ASSUME TInv, Wakeups, queue # <<>>, live # {}, live \subseteq QueueWaiting
               PROVE  Notifying # {}
    BY DEF NoLostWakeup, Notifying
  <2>1. Woken = {}
    BY DEF Woken, QueueWaiting
  <2>2. Cardinality(Woken) = 0
    BY <2>1, FS_EmptySet
  <2>3. Len(queue) > 0 /\ Len(queue) \in Nat
    BY DEF TInv, TypeOK
  <2>4. Len(queue) <= Cardinality(Notifying) /\ Cardinality(Notifying) \in Nat
    BY <2>2, FS_CardinalityType DEF Wakeups
  <2>5. Cardinality(Notifying) # 0
    BY <2>3, <2>4
  <2> QED
    BY <2>5, FS_EmptySet, Zenon
<1> QED
  BY <1>1, <1>2, <1>3, PTL DEF Spec
---------------------------------------------------------------------------
\* Draining

Closing(pc) == pc \in {"exitPush", "exitNotify", "join"}

\* Before the first ThreadExit nothing is promised, and nothing ends a worker.
Open ==
  exits = 0 =>
    /\ promised = {} /\ ~Closing(cpc[Owner])
    /\ \A i \in DOMAIN queue : queue[i].job # NoJob
    /\ \A w \in Worker : wpc[w] # "exited"

\* A promised job is never out of sight.
Promise == promised \subseteq QueuedJobs \cup RunningJobs \cup finished \cup removed

\* The promised jobs stand before the fake graphs, and no fake graph is taken
\* while one of them is queued.
Before ==
  /\ \A i, k \in DOMAIN queue : queue[i].job \in promised /\ queue[k].job = NoJob => i < k
  /\ (\E w \in Worker : wpc[w] = "exited") => QueuedJobs \cap promised = {}

Drain == Open /\ Promise /\ Before

LEMMA InitDrain == Init => Drain
<1> SUFFICES ASSUME Init PROVE Drain
  OBVIOUS
<1>1. Open
  BY Assumptions DEF Init, Open, Closing
<1>2. Promise /\ Before
  BY DEF Init, Promise, Before
<1> QED
  BY <1>1, <1>2 DEF Drain

\* A step that leaves queue and promise, and moves jobs on.
LEMMA DrainStays ==
  ASSUME IInv, Drain, UNCHANGED <<queue, promised, exits>>,
         RunningJobs \subseteq RunningJobs' \cup finished', finished \subseteq finished',
         removed \subseteq removed',
         exits = 0 => ~Closing(cpc'[Owner]),
         \A w \in Worker : wpc'[w] = "exited" => wpc[w] = "exited"
  PROVE  Drain'
<1>1. QueuedJobs' = QueuedJobs
  BY DEF QueuedJobs
<1>2. Promise'
  BY <1>1 DEF Drain, Promise
<1>3. Before'
  BY <1>1 DEF Drain, Before
<1>4. Open'
  BY DEF Drain, Open
<1> QED
  BY <1>2, <1>3, <1>4 DEF Drain

\* What is pushed after ThreadExit began is not promised.
LEMMA DrainPush ==
  ASSUME IInv, Drain, NEW it \in Item, it.job \notin promised, queue' = Append(queue, it),
         UNCHANGED <<wpc, item, exits, promised, finished, removed>>,
         exits = 0 => it.job # NoJob /\ ~Closing(cpc'[Owner])
  PROVE  Drain'
<1>1. queue \in Seq(Item)
  BY DEF IInv, TInv, TypeOK
<1>2. /\ DOMAIN queue' = DOMAIN queue \cup {Len(queue) + 1}
      /\ DOMAIN queue = 1 .. Len(queue) /\ Len(queue) \in Nat
      /\ \A i \in DOMAIN queue : queue'[i] = queue[i]
      /\ queue'[Len(queue) + 1] = it
  BY <1>1
<1>3. QueuedJobs' = QueuedJobs \cup ({it.job} \ {NoJob})
  BY <1>1, AppendJobs
<1>4. RunningJobs' = RunningJobs
  BY DEF RunningJobs, RunBy
<1>5. Promise'
  BY <1>3, <1>4 DEF Drain, Promise
<1>6. Before'
  <2>1. \A i, k \in DOMAIN queue' :
          queue'[i].job \in promised' /\ queue'[k].job = NoJob => i < k
    BY <1>2 DEF Drain, Before
  <2>2. QueuedJobs' \cap promised' = QueuedJobs \cap promised
    BY <1>3
  <2>3. (\E w \in Worker : wpc'[w] = "exited") => QueuedJobs' \cap promised' = {}
    BY <2>2 DEF Drain, Before
  <2> QED
    BY <2>1, <2>3 DEF Before
<1>7. Open'
  BY <1>2 DEF Drain, Open
<1> QED
  BY <1>5, <1>6, <1>7 DEF Drain

LEMMA DrainFetch == ASSUME IInv, Drain, NEW w \in Worker, Fetch(w) PROVE Drain'
<1> DEFINE it == IF queue = <<>> THEN PhantomItem ELSE Head(queue)
           got == {it.job} \ {NoJob}
<1>1. /\ item' = [item EXCEPT ![w] = it]
      /\ wpc' = [wpc EXCEPT ![w] = IF it.id = 0 THEN "exited" ELSE "handle"]
      /\ queue' = IF queue = <<>> THEN <<>> ELSE Tail(queue)
      /\ UNCHANGED <<cpc, exits, promised, finished, removed>>
      /\ wpc[w] # "handle" /\ wpc \in [Worker -> WorkerPC] /\ item \in [Worker -> Item]
      /\ queue \in Seq(Item)
  BY DEF Fetch, clientVars, historyVars, IInv, TInv, TypeOK
<1>2. queue # <<>> => /\ DOMAIN queue' = 1 .. Len(queue) - 1
                      /\ DOMAIN queue = 1 .. Len(queue) /\ Len(queue) \in Nat \ {0}
                      /\ \A i \in DOMAIN queue' : queue'[i] = queue[i + 1]
                      /\ it = queue[1]
  BY <1>1
<1>3. it.id = 0 => queue # <<>> /\ it.job = NoJob
  BY <1>1, <1>2, Assumptions DEF IdsTell, PhantomItem, IInv
<1>4. QueuedJobs = QueuedJobs' \cup got
  <2>1. CASE queue = <<>>
    BY <2>1, <1>1 DEF QueuedJobs, PhantomItem
  <2>2. CASE queue # <<>>
    BY <2>2, <1>1, TailJobs
  <2> QED
    BY <2>1, <2>2
<1>5. it.id = 0 => QueuedJobs \cap promised = {}
  <2> SUFFICES ASSUME it.id = 0, NEW i \in DOMAIN queue, queue[i].job \in promised PROVE FALSE
    BY DEF QueuedJobs
  <2>1. queue[1].job = NoJob /\ 1 \in DOMAIN queue /\ i \in 1 .. Len(queue)
    BY <1>2, <1>3
  <2>2. i < 1
    BY <2>1 DEF Drain, Before
  <2> QED
    BY <2>1, <2>2
<1> HIDE DEF it, got
<1>6. \A i, k \in DOMAIN queue' : queue'[i].job \in promised' /\ queue'[k].job = NoJob => i < k
  <2>1. CASE queue = <<>>
    BY <2>1, <1>1
  <2>2. CASE queue # <<>>
    <3> SUFFICES ASSUME NEW i \in DOMAIN queue', NEW k \in DOMAIN queue',
                        queue'[i].job \in promised', queue'[k].job = NoJob
                 PROVE  i < k
      OBVIOUS
    <3>1. /\ i + 1 \in DOMAIN queue /\ k + 1 \in DOMAIN queue /\ i \in Nat /\ k \in Nat
          /\ queue'[i] = queue[i + 1] /\ queue'[k] = queue[k + 1]
      BY <1>2, <2>2
    <3>2. i + 1 < k + 1
      BY <3>1, <1>1 DEF Drain, Before
    <3> QED
      BY <3>1, <3>2
  <2> QED
    BY <2>1, <2>2
<1>7. ASSUME NEW v \in Worker, wpc'[v] = "exited" PROVE QueuedJobs' \cap promised' = {}
  <2>1. it.id = 0 \/ wpc[v] = "exited"
    BY <1>1, <1>7
  <2>2. QueuedJobs \cap promised = {}
    BY <2>1, <1>5 DEF Drain, Before
  <2> QED
    BY <2>2, <1>1, <1>4
<1>8. RunningJobs \cup got \subseteq RunningJobs'
  <2>1. ASSUME NEW v \in Worker PROVE RunBy(v) \subseteq RunBy(v)'
    <3>1. CASE v = w
      BY <3>1, <1>1 DEF RunBy
    <3>2. CASE v # w
      BY <3>2, <1>1 DEF RunBy
    <3> QED
      BY <3>1, <3>2
  <2>2. got \subseteq RunBy(w)'
    BY <1>1, <1>3 DEF RunBy, got
  <2> QED
    BY <2>1, <2>2 DEF RunningJobs
<1>9. Promise'
  BY <1>1, <1>4, <1>8 DEF Drain, Promise
<1>10. Open'
  <2> SUFFICES ASSUME exits = 0 PROVE Open'
    BY <1>1 DEF Open
  <2>1. \A i \in DOMAIN queue : queue[i].job # NoJob
    BY DEF Drain, Open
  <2>2. it.id # 0
    BY <2>1, <1>2, <1>3
  <2>3. \A v \in Worker : wpc'[v] # "exited"
    BY <2>2, <1>1 DEF Drain, Open
  <2>4. \A i \in DOMAIN queue' : queue'[i].job # NoJob
    BY <2>1, <1>1, <1>2
  <2> QED
    BY <2>3, <2>4, <1>1 DEF Drain, Open
<1> QED
  BY <1>6, <1>7, <1>9, <1>10 DEF Drain, Before

LEMMA DrainRemove ==
  ASSUME IInv, Drain, NEW c \in Client, NEW g \in Graph, GraphRemove(c, g) PROVE Drain'
<1>1. PICK k \in DOMAIN queue :
        /\ ScanHit(g, k)
        /\ queue' = [i \in 1 .. Len(queue) - 1 |-> IF i < k THEN queue[i] ELSE queue[i + 1]]
        /\ removed' = removed \cup {queue[k].job}
  BY DEF GraphRemove
<1>2. /\ queue \in Seq(Item)
      /\ UNCHANGED <<wpc, item, cpc, exits, promised, finished>>
  BY DEF GraphRemove, workerVars, clientVars, IInv, TInv, TypeOK
<1>3. QueuedJobs = QueuedJobs' \cup ({queue[k].job} \ {NoJob})
  BY <1>1, <1>2, RemoveAtJobs
<1>4. RunningJobs' = RunningJobs
  BY <1>2 DEF RunningJobs, RunBy
<1>5. Promise'
  BY <1>1, <1>2, <1>3, <1>4 DEF Drain, Promise
<1> DEFINE at(i) == IF i < k THEN i ELSE i + 1
<1>6. ASSUME NEW i \in DOMAIN queue'
      PROVE  /\ at(i) \in DOMAIN queue /\ queue'[i] = queue[at(i)]
             /\ \A h \in DOMAIN queue' : at(i) < at(h) => i < h
  BY <1>1, <1>2
<1> HIDE DEF at
<1>7. \A i, h \in DOMAIN queue' : queue'[i].job \in promised' /\ queue'[h].job = NoJob => i < h
  BY <1>2, <1>6 DEF Drain, Before
<1>8. (\E w \in Worker : wpc'[w] = "exited") => QueuedJobs' \cap promised' = {}
  BY <1>2, <1>3 DEF Drain, Before
<1>9. Open'
  BY <1>2, <1>6 DEF Drain, Open
<1> QED
  BY <1>5, <1>7, <1>8, <1>9 DEF Drain, Before

\* The first ThreadExit promises what is there, and no fake graph is.
LEMMA DrainBegins == ASSUME IInv, Drain, CallThreadExit PROVE Drain'
<1>1. /\ UNCHANGED <<queue, wpc, item, finished, removed>>
      /\ exits \in Nat /\ exits' = exits + 1
      /\ promised' = IF exits = 0 THEN QueuedJobs \cup RunningJobs ELSE promised
  BY Assumptions DEF CallThreadExit, workerVars, IInv, TInv, TypeOK
<1>2. QueuedJobs' = QueuedJobs /\ RunningJobs' = RunningJobs
  BY <1>1 DEF QueuedJobs, RunningJobs, RunBy
<1>3. Promise'
  BY <1>1, <1>2 DEF Drain, Promise
<1>4. Before'
  <2>1. CASE exits = 0
    BY <1>1, <2>1 DEF Drain, Open, Before
  <2>2. CASE exits # 0
    BY <1>1, <1>2, <2>2 DEF Drain, Before
  <2> QED
    BY <2>1, <2>2
<1>5. Open'
  BY <1>1 DEF Open
<1> QED
  BY <1>3, <1>4, <1>5 DEF Drain

LEMMA NextDrain == IInv /\ Drain /\ [Next]_vars => Drain'
<1> SUFFICES ASSUME IInv, Drain, [Next]_vars PROVE Drain'
  OBVIOUS
<1>0. /\ wpc \in [Worker -> WorkerPC] /\ cpc \in [Client -> ClientPC]
      /\ exits = 0 => ~Closing(cpc[Owner])
      /\ Owner \in Client
  BY Assumptions DEF IInv, TInv, TypeOK, Drain, Open
<1>1. ASSUME UNCHANGED <<queue, promised, exits, item, finished, removed>>,
             exits = 0 => ~Closing(cpc'[Owner]),
             \A w \in Worker : /\ wpc'[w] = "exited" => wpc[w] = "exited"
                               /\ wpc'[w] = "handle" <=> wpc[w] = "handle"
      PROVE  Drain'
  <2>1. RunningJobs' = RunningJobs
    BY <1>1 DEF RunningJobs, RunBy
  <2> QED
    BY <1>1, <2>1, DrainStays
<1>2. ASSUME NEW c \in Client, NEW j \in Job, CountSubmit(c, j) PROVE Drain'
  BY <1>0, <1>1, <1>2 DEF CountSubmit, workerVars, Closing
<1>3. ASSUME NEW c \in Client, NEW g \in Graph, GraphRemove(c, g) PROVE Drain'
  BY <1>3, DrainRemove
<1>4. ASSUME NEW c \in Client, PushGraph(c) PROVE Drain'
  <2> DEFINE it == [id |-> gcount, job |-> cjob[c]]
  <2>1. /\ it \in Item /\ it.job = cjob[c] /\ cjob[c] # NoJob
        /\ queue' = Append(queue, it)
        /\ UNCHANGED <<wpc, item, exits, promised, finished, removed>>
        /\ exits = 0 => ~Closing(cpc'[Owner])
    BY <1>0, <1>4, Assumptions
       DEF PushGraph, PushBack, PushHolds, workerVars, historyVars, Closing, Item, IInv, TInv, TypeOK
  <2>2. cjob[c] \in PushingJobs
    BY <2>1 DEF PushingJobs, PushedBy
  <2>3. cjob[c] \notin promised
    BY <2>2 DEF IInv, EachJobOnce, Drain, Promise
  <2> HIDE DEF it
  <2> QED
    BY <2>1, <2>3, DrainPush
<1>5. ASSUME NEW c \in Client, NotifyGraph(c) PROVE Drain'
  BY <1>0, <1>1, <1>5 DEF NotifyGraph, NotifyQueue, QueueWaiting, historyVars, Closing
<1>6. ASSUME NEW c \in Client, WaitThreadIdle(c) PROVE Drain'
  BY <1>0, <1>1, <1>6 DEF WaitThreadIdle, workerVars, historyVars, Closing
<1>7. CASE CallThreadExit
  BY <1>7, DrainBegins
<1>8. CASE PushFake
  <2>1. /\ FakeItem \in Item /\ FakeItem.job = NoJob /\ queue' = Append(queue, FakeItem)
        /\ UNCHANGED <<wpc, item, exits, promised, finished, removed>>
        /\ exits # 0
    BY <1>0, <1>8, Assumptions DEF PushFake, PushBack, FakeItem, Item, workerVars, historyVars, Closing
  <2>2. NoJob \notin promised
    BY Assumptions DEF IInv, TInv, TypeOK
  <2> QED
    BY <2>1, <2>2, DrainPush
<1>9. CASE NotifyFake
  BY <1>0, <1>1, <1>9 DEF NotifyFake, NotifyQueue, QueueWaiting, historyVars, Closing
<1>10. CASE Join
  BY <1>0, <1>1, <1>10 DEF Join, workerVars, historyVars, Closing
<1>11. ASSUME NEW w \in Worker, Block(w) PROVE Drain'
  BY <1>0, <1>1, <1>11 DEF Block, clientVars, historyVars
<1>12. ASSUME NEW w \in Worker, Fetch(w) PROVE Drain'
  BY <1>12, DrainFetch
<1>13. ASSUME NEW w \in Worker, Handle(w) PROVE Drain'
  <2>1. /\ UNCHANGED <<queue, promised, exits, item, removed, cpc>>
        /\ wpc' = [wpc EXCEPT ![w] = "handled"]
        /\ finished' = finished \cup ({item[w].job} \ {NoJob})
    BY <1>13 DEF Handle, clientVars
  <2>2. ASSUME NEW v \in Worker PROVE RunBy(v) \subseteq RunBy(v)' \cup finished'
    BY <1>0, <2>1 DEF RunBy
  <2>3. RunningJobs \subseteq RunningJobs' \cup finished'
    BY <2>2 DEF RunningJobs
  <2>4. \A v \in Worker : wpc'[v] = "exited" => wpc[v] = "exited"
    BY <1>0, <2>1
  <2> QED
    BY <1>0, <2>1, <2>3, <2>4, DrainStays
<1>14. ASSUME NEW w \in Worker, Decrement(w) PROVE Drain'
  <2>1. /\ UNCHANGED <<queue, promised, exits, finished, removed, cpc>>
        /\ wpc[w] = "handled" /\ wpc' = [wpc EXCEPT ![w] = "idleNotify"]
        /\ item' = [item EXCEPT ![w] = PhantomItem]
    BY <1>14 DEF Decrement, clientVars
  <2>2. \A v \in Worker : RunBy(v)' = RunBy(v)
    BY <1>0, <2>1 DEF RunBy, IInv, TInv, TypeOK
  <2>3. RunningJobs' = RunningJobs
    BY <2>2 DEF RunningJobs
  <2>4. \A v \in Worker : wpc'[v] = "exited" => wpc[v] = "exited"
    BY <1>0, <2>1
  <2> QED
    BY <1>0, <2>1, <2>3, <2>4, DrainStays
<1>15. ASSUME NEW w \in Worker, NotifyIdle(w) PROVE Drain'
  BY <1>0, <1>1, <1>15 DEF NotifyIdle, WakeIdle, IdleWaiting, historyVars, Closing
<1>16. CASE SpuriousWakeup
  BY <1>0, <1>1, <1>16 DEF SpuriousWakeup, QueueWaiting, IdleWaiting, Closing
<1>17. CASE UNCHANGED vars
  BY <1>0, <1>1, <1>17 DEF vars, workerVars, clientVars, historyVars
<1> QED
  BY <1>2, <1>3, <1>4, <1>5, <1>6, <1>7, <1>8, <1>9, <1>10, <1>11, <1>12, <1>13, <1>14, <1>15, <1>16,
     <1>17 DEF Next

\* ThreadExit ends no worker for good before the jobs queued or running when it
\* was first called are finished or removed.
THEOREM ThreadExitDrains == Spec => []ExitDrains
<1>1. Init => IInv /\ Drain
  BY InitIInv, InitDrain
<1>2. IInv /\ Drain /\ [Next]_vars => IInv' /\ Drain'
  BY NextIInv, NextDrain
<1>3. Drain => ExitDrains
  <2> SUFFICES ASSUME Drain, AllExited PROVE promised \subseteq finished \cup removed
    BY DEF ExitDrains
  <2>1. RunningJobs = {}
    BY DEF AllExited, RunningJobs, RunBy
  <2>2. QueuedJobs \cap promised = {}
    BY Assumptions DEF AllExited, Drain, Before
  <2> QED
    BY <2>1, <2>2 DEF Drain, Promise
<1> QED
  BY <1>1, <1>2, <1>3, PTL DEF Spec
---------------------------------------------------------------------------
\* The jobs in the queue, in their order

\* f lists the n members of a set of numbers from the least to the greatest.
Lists(f, n, R) ==
  /\ f \in [1 .. n -> R]
  /\ \A a, b \in 1 .. n : a < b => f[a] < f[b]
  /\ \A i \in R : \E a \in 1 .. n : f[a] = i

\* The a-th member of a list has a members up to it.
LEMMA ListCounts ==
  ASSUME NEW R \in SUBSET Nat, NEW n \in Nat, NEW f, Lists(f, n, R)
  PROVE  /\ Cardinality(R) = n
         /\ \A a \in 1 .. n : Cardinality({k \in R : k <= f[a]}) = a
<1>1. /\ f \in [1 .. n -> R]
      /\ \A a, b \in 1 .. n : a < b => f[a] < f[b]
      /\ \A i \in R : \E a \in 1 .. n : f[a] = i
      /\ \A a \in 1 .. n : f[a] \in Nat
  BY DEF Lists
<1>2. \A a, b \in 1 .. n : f[a] = f[b] => a = b
  <2> SUFFICES ASSUME NEW a \in 1 .. n, NEW b \in 1 .. n, f[a] = f[b], a # b PROVE FALSE
    OBVIOUS
  <2>1. a < b \/ b < a
    OBVIOUS
  <2> QED
    BY <1>1, <2>1
<1>3. Cardinality(R) = n
  <2>1. f \in Bijection(1 .. n, R)
    BY <1>1, <1>2 DEF Bijection, Injection, Surjection, IsInjective
  <2> QED
    BY <2>1, FS_CountingElements DEF ExistsBijection
<1>4. ASSUME NEW a \in 1 .. n PROVE Cardinality({k \in R : k <= f[a]}) = a
  <2> DEFINE S == {k \in R : k <= f[a]}
             g == [b \in 1 .. a |-> f[b]]
  <2>1. a \in Nat /\ \A b \in 1 .. a : b \in 1 .. n
    OBVIOUS
  <2>2. g \in [1 .. a -> S]
    <3> SUFFICES ASSUME NEW b \in 1 .. a PROVE f[b] \in R /\ f[b] <= f[a]
      OBVIOUS
    <3>1. b = a \/ b < a
      OBVIOUS
    <3> QED
      BY <1>1, <2>1, <3>1
  <2>3. \A b, c \in 1 .. a : g[b] = g[c] => b = c
    BY <1>2, <2>1
  <2>4. ASSUME NEW k \in S PROVE \E b \in 1 .. a : g[b] = k
    <3>1. PICK b \in 1 .. n : f[b] = k
      BY <1>1
    <3>2. ~(a < b)
      BY <1>1, <3>1
    <3> QED
      BY <3>1, <3>2
  <2> HIDE DEF g, S
  <2>5. g \in Bijection(1 .. a, S)
    BY <2>2, <2>3, <2>4 DEF Bijection, Injection, Surjection, IsInjective
  <2>6. Cardinality(S) = a
    BY <2>1, <2>5, FS_CountingElements DEF ExistsBijection
  <2> QED
    BY <2>6 DEF S
<1> QED
  BY <1>3, <1>4

LEMMA RealIsFinite ==
  ASSUME NEW q \in Seq(Item) PROVE RealAt(q) \in SUBSET Nat /\ IsFiniteSet(RealAt(q))
<1>1. DOMAIN q = 1 .. Len(q) /\ Len(q) \in Nat
  OBVIOUS
<1>2. IsFiniteSet(DOMAIN q) /\ DOMAIN q \subseteq Nat
  BY <1>1, FS_Interval
<1> QED
  BY <1>2, FS_Subset DEF RealAt

\* The queue's jobs can be listed.
LEMMA ListExists ==
  ASSUME NEW q \in Seq(Item) PROVE \E n \in Nat : \E f : Lists(f, n, RealAt(q))
<1>1. /\ RealAt(q) \subseteq Nat /\ IsFiniteSet(RealAt(q)) /\ Cardinality(RealAt(q)) \in Nat
      /\ \A i \in RealAt(q) : i \in Nat
  BY RealIsFinite, FS_CardinalityType
<1>0. PICK n \in Nat : n = Cardinality(RealAt(q))
  BY <1>1
<1> DEFINE upTo(i) == {k \in RealAt(q) : k <= i}
           r == [i \in RealAt(q) |-> Rank(q, i)]
           f == [a \in 1 .. n |-> CHOOSE i \in RealAt(q) : r[i] = a]
<1>2. ASSUME NEW i \in RealAt(q)
      PROVE  /\ IsFiniteSet(upTo(i)) /\ Rank(q, i) = Cardinality(upTo(i)) /\ Rank(q, i) \in 1 .. n
             /\ Rank(q, i) \in Nat
  <2>1. IsFiniteSet(upTo(i)) /\ Cardinality(upTo(i)) <= n
    BY <1>0, <1>1, FS_Subset
  <2>2. i \in upTo(i)
    BY <1>1
  <2>3. Cardinality(upTo(i)) \in Nat /\ Cardinality(upTo(i)) # 0
    BY <2>1, <2>2, FS_CardinalityType, FS_EmptySet
  <2> QED
    BY <1>1, <2>1, <2>3 DEF Rank
<1>3. ASSUME NEW i \in RealAt(q), NEW k \in RealAt(q), i < k PROVE Rank(q, i) < Rank(q, k)
  <2>0. i \in Nat /\ k \in Nat
    BY <1>1
  <2>4. ASSUME NEW h \in RealAt(q), h <= i PROVE h <= k
    <3>1. h \in Nat
      BY <1>1
    <3> QED
      BY <1>3, <2>0, <2>4, <3>1
  <2>1. upTo(i) \subseteq upTo(k) /\ k \in upTo(k) /\ k \notin upTo(i)
    <3>1. k <= k /\ ~(k <= i)
      BY <1>3, <2>0
    <3>2. \A h \in RealAt(q) : h <= i => h <= k
      BY <2>4
    <3> QED
      BY <3>1, <3>2
  <2>2. Cardinality(upTo(i)) <= Cardinality(upTo(k)) /\ Cardinality(upTo(i)) # Cardinality(upTo(k))
    BY <1>2, <2>1, FS_Subset
  <2>3. Rank(q, i) \in Nat /\ Rank(q, k) \in Nat /\ Rank(q, i) <= Rank(q, k) /\ Rank(q, i) # Rank(q, k)
    BY <1>1, <1>2, <2>2
  <2> QED
    BY <2>3
<1>4. \A i, k \in RealAt(q) : Rank(q, i) = Rank(q, k) => i = k
  <2> SUFFICES ASSUME NEW i \in RealAt(q), NEW k \in RealAt(q), Rank(q, i) = Rank(q, k), i # k PROVE FALSE
    OBVIOUS
  <2>0. i \in Nat /\ k \in Nat /\ Rank(q, i) \in Nat
    BY <1>1, <1>2
  <2>1. i < k \/ k < i
    BY <2>0
  <2>2. ~(Rank(q, i) < Rank(q, i))
    BY <2>0
  <2> QED
    BY <1>3, <2>1, <2>2
<1>5. r \in Injection(RealAt(q), 1 .. n)
  BY <1>2, <1>4 DEF Injection, IsInjective
<1>6. IsFiniteSet(1 .. n) /\ Cardinality(1 .. n) = n
  BY FS_Interval
<1>7. r \in Surjection(RealAt(q), 1 .. n)
  BY <1>0, <1>1, <1>5, <1>6, FS_Injection
<1>8. \A a \in 1 .. n : f[a] \in RealAt(q) /\ Rank(q, f[a]) = a
  BY <1>7 DEF Surjection
<1>11. f \in [1 .. n -> RealAt(q)]
  BY <1>8
<1> HIDE DEF f, r
<1>9. ASSUME NEW a \in 1 .. n, NEW b \in 1 .. n, a < b PROVE f[a] < f[b]
  <2>1. f[a] \in RealAt(q) /\ f[b] \in RealAt(q) /\ Rank(q, f[a]) = a /\ Rank(q, f[b]) = b
    BY <1>8
  <2>5. a \in Nat /\ b \in Nat
    BY <1>0
  <2>2. f[a] # f[b]
    BY <1>9, <2>1, <2>5
  <2>3. ~(f[b] < f[a])
    <3> SUFFICES ASSUME f[b] < f[a] PROVE FALSE
      OBVIOUS
    <3>1. b < a
      BY <1>3, <2>1
    <3> QED
      BY <1>9, <2>5, <3>1
  <2>4. f[a] \in Nat /\ f[b] \in Nat
    BY <1>1, <2>1
  <2> QED
    BY <2>2, <2>3, <2>4
<1>10. \A i \in RealAt(q) : Rank(q, i) \in 1 .. n /\ f[Rank(q, i)] = i
  BY <1>2, <1>4, <1>8
<1>12. Lists(f, n, RealAt(q))
  BY <1>9, <1>10, <1>11 DEF Lists
<1> QED
  BY <1>1, <1>12

\* JobsOf(q) is what any list of them says.
LEMMA JobsOfIs ==
  ASSUME NEW q \in Seq(Item), NEW n \in Nat, NEW f, Lists(f, n, RealAt(q))
  PROVE  JobsOf(q) = [a \in 1 .. n |-> q[f[a]].job]
<1>1. RealAt(q) \in SUBSET Nat
  BY RealIsFinite
<1>2. Cardinality(RealAt(q)) = n /\ \A a \in 1 .. n : f[a] \in RealAt(q) /\ Rank(q, f[a]) = a
  <2>1. PICK R \in SUBSET Nat : R = RealAt(q)
    BY <1>1
  <2>2. Lists(f, n, R)
    BY <2>1
  <2>3. Cardinality(R) = n /\ \A a \in 1 .. n : Cardinality({k \in R : k <= f[a]}) = a
    BY <2>2, ListCounts
  <2>4. \A a \in 1 .. n : f[a] \in R
    BY <2>2 DEF Lists
  <2> QED
    BY <2>1, <2>3, <2>4 DEF Rank
<1>3. ASSUME NEW a \in 1 .. n PROVE (CHOOSE i \in RealAt(q) : Rank(q, i) = a) = f[a]
  <2>1. ASSUME NEW i \in RealAt(q), Rank(q, i) = a PROVE i = f[a]
    <3>1. PICK b \in 1 .. n : f[b] = i
      BY DEF Lists
    <3> QED
      BY <1>2, <2>1, <3>1
  <2> QED
    BY <1>2, <2>1
<1>4. JobsOf(q) = [a \in 1 .. n |-> q[CHOOSE i \in RealAt(q) : Rank(q, i) = a].job]
  BY <1>2 DEF JobsOf
<1>5. \A a \in 1 .. n : q[CHOOSE i \in RealAt(q) : Rank(q, i) = a].job = q[f[a]].job
  BY <1>3
<1> QED
  BY <1>4, <1>5, Zenon

\* What a list of the queue's jobs is.
LEMMA Listed ==
  ASSUME NEW q \in Seq(Item), NEW n \in Nat, NEW f, Lists(f, n, RealAt(q))
  PROVE  /\ DOMAIN q = 1 .. Len(q) /\ Len(q) \in Nat
         /\ \A i \in RealAt(q) : i \in Nat /\ i \in 1 .. Len(q) /\ q[i].job \in Job
         /\ \A a \in 1 .. n : f[a] \in RealAt(q) /\ f[a] \in Nat
         /\ \A a, b \in 1 .. n : a < b => f[a] < f[b]
         /\ \A i \in RealAt(q) : \E a \in 1 .. n : f[a] = i
         /\ JobsOf(q) = [a \in 1 .. n |-> q[f[a]].job]
         /\ JobsOf(q) \in Seq(Job) /\ Len(JobsOf(q)) = n
<1>1. DOMAIN q = 1 .. Len(q) /\ Len(q) \in Nat
  OBVIOUS
<1>2. ASSUME NEW i \in RealAt(q) PROVE i \in Nat /\ i \in 1 .. Len(q) /\ q[i].job \in Job
  <2>1. i \in DOMAIN q /\ q[i].job # NoJob
    BY DEF RealAt
  <2>2. q[i] \in Item
    BY <2>1, ElementType
  <2> QED
    BY <1>1, <2>1, <2>2 DEF Item
<1>3. /\ \A a \in 1 .. n : f[a] \in RealAt(q)
      /\ \A a, b \in 1 .. n : a < b => f[a] < f[b]
      /\ \A i \in RealAt(q) : \E a \in 1 .. n : f[a] = i
  BY DEF Lists
<1>4. JobsOf(q) = [a \in 1 .. n |-> q[f[a]].job]
  BY JobsOfIs
<1>5. \A a \in 1 .. n : q[f[a]].job \in Job
  BY <1>2, <1>3
<1>6. JobsOf(q) \in Seq(Job) /\ Len(JobsOf(q)) = n
  BY <1>4, <1>5
<1> QED
  BY <1>1, <1>2, <1>3, <1>4, <1>6

\* A list has no element but the queued jobs, and all of them.
LEMMA JobsOfHolds ==
  ASSUME NEW q \in Seq(Item)
  PROVE  /\ JobsOf(q) \in Seq(Job)
         /\ {JobsOf(q)[a] : a \in DOMAIN JobsOf(q)} = {q[i].job : i \in DOMAIN q} \ {NoJob}
<1>1. PICK n \in Nat : \E f : Lists(f, n, RealAt(q))
  BY ListExists
<1>2. PICK f : Lists(f, n, RealAt(q))
  BY <1>1
<1>3. /\ JobsOf(q) = [a \in 1 .. n |-> q[f[a]].job]
      /\ JobsOf(q) \in Seq(Job)
      /\ \A a \in 1 .. n : f[a] \in RealAt(q)
      /\ \A i \in RealAt(q) : \E a \in 1 .. n : f[a] = i
  BY <1>2, Listed
<1>4. {q[i].job : i \in DOMAIN q} \ {NoJob} = {q[i].job : i \in RealAt(q)}
  BY DEF RealAt
<1>5. PICK s : s = JobsOf(q)
  OBVIOUS
<1>6. DOMAIN s = 1 .. n /\ \A a \in 1 .. n : s[a] = q[f[a]].job
  BY <1>3, <1>5
<1>7. {s[a] : a \in DOMAIN s} = {q[i].job : i \in RealAt(q)}
  BY <1>3, <1>6
<1>8. {JobsOf(q)[a] : a \in DOMAIN JobsOf(q)} = {s[a] : a \in DOMAIN s}
  BY <1>5
<1>9. {JobsOf(q)[a] : a \in DOMAIN JobsOf(q)} = {q[i].job : i \in DOMAIN q} \ {NoJob}
  BY <1>4, <1>7, <1>8
<1> QED
  BY <1>3, <1>9

\* A push appends a job, and no fake graph.
LEMMA JobsOfAppend ==
  ASSUME NEW q \in Seq(Item), NEW it \in Item
  PROVE  JobsOf(Append(q, it)) =
           IF it.job = NoJob THEN JobsOf(q) ELSE Append(JobsOf(q), it.job)
<1>1. PICK n \in Nat : \E f : Lists(f, n, RealAt(q))
  BY ListExists
<1>2. PICK f : Lists(f, n, RealAt(q))
  BY <1>1
<1>3. PICK len \in Nat : len = Len(q)
  OBVIOUS
<1>9. Append(q, it) \in Seq(Item)
  OBVIOUS
<1>0. PICK p \in Seq(Item) : p = Append(q, it)
  BY <1>9
<1>4. /\ DOMAIN p = 1 .. len + 1 /\ DOMAIN q = 1 .. len
      /\ \A i \in 1 .. len : p[i] = q[i]
      /\ p[len + 1] = it
  BY <1>0, <1>3
<1>5. /\ \A i \in RealAt(q) : i \in 1 .. len /\ i \in Nat
      /\ \A a \in 1 .. n : f[a] \in RealAt(q)
      /\ \A a, b \in 1 .. n : a < b => f[a] < f[b]
      /\ \A i \in RealAt(q) : \E a \in 1 .. n : f[a] = i
      /\ JobsOf(q) = [a \in 1 .. n |-> q[f[a]].job]
      /\ JobsOf(q) \in Seq(Job) /\ Len(JobsOf(q)) = n
  BY <1>2, <1>3, Listed
<1>6. CASE it.job = NoJob
  <2>1. RealAt(p) = RealAt(q)
    BY <1>4, <1>6 DEF RealAt
  <2>2. JobsOf(p) = [a \in 1 .. n |-> p[f[a]].job]
    BY <1>2, <2>1, JobsOfIs
  <2>3. \A a \in 1 .. n : p[f[a]] = q[f[a]]
    BY <1>4, <1>5
  <2> QED
    BY <1>0, <1>5, <1>6, <2>2, <2>3
<1>7. CASE it.job # NoJob
  <2>0. PICK m \in Nat : m = n + 1
    OBVIOUS
  <2> DEFINE g == [a \in 1 .. m |-> IF a = m THEN len + 1 ELSE f[a]]
  <2>1. RealAt(p) = RealAt(q) \cup {len + 1}
    BY <1>4, <1>7 DEF RealAt
  <2>2. /\ \A a \in 1 .. n : g[a] = f[a] /\ a \in 1 .. m
        /\ g[m] = len + 1 /\ m \in 1 .. m
        /\ \A a \in 1 .. m : a = m \/ a \in 1 .. n
    BY <2>0
  <2>3. g \in [1 .. m -> RealAt(p)]
    BY <1>5, <2>0, <2>1
  <2> HIDE DEF g
  <2>4. \A a, b \in 1 .. m : a < b => g[a] < g[b]
    <3> SUFFICES ASSUME NEW a \in 1 .. m, NEW b \in 1 .. m, a < b PROVE g[a] < g[b]
      OBVIOUS
    <3>1. a \in 1 .. n
      BY <2>0
    <3>2. f[a] \in 1 .. len
      BY <1>5, <3>1
    <3>3. f[a] < len + 1
      BY <3>2
    <3> QED
      BY <1>5, <2>2, <3>1, <3>3
  <2>5. \A i \in RealAt(p) : \E a \in 1 .. m : g[a] = i
    BY <1>5, <2>1, <2>2
  <2>6. Lists(g, m, RealAt(p))
    BY <2>3, <2>4, <2>5 DEF Lists
  <2>7. JobsOf(p) = [a \in 1 .. m |-> p[g[a]].job]
    BY <2>6, JobsOfIs
  <2>8. it.job \in Job
    BY <1>7 DEF Item
  <2>9. PICK next : next = Append(JobsOf(q), it.job)
    OBVIOUS
  <2>10. /\ next \in Seq(Job) /\ Len(next) = m /\ next[m] = it.job
         /\ \A a \in 1 .. n : next[a] = JobsOf(q)[a]
    BY <1>5, <2>0, <2>8, <2>9
  <2>11. \A a \in 1 .. m : next[a] = p[g[a]].job
    <3> SUFFICES ASSUME NEW a \in 1 .. m PROVE next[a] = p[g[a]].job
      OBVIOUS
    <3>1. CASE a = m
      BY <1>4, <2>2, <2>10, <3>1
    <3>2. CASE a \in 1 .. n
      <4>1. f[a] \in 1 .. len /\ JobsOf(q)[a] = q[f[a]].job
        BY <1>5, <3>2
      <4> QED
        BY <1>4, <2>2, <2>10, <3>2, <4>1
    <3> QED
      BY <2>2, <3>1, <3>2
  <2>12. next = [a \in 1 .. m |-> next[a]]
    BY <2>10
  <2>13. next = [a \in 1 .. m |-> p[g[a]].job]
    BY <2>11, <2>12
  <2> QED
    BY <1>0, <1>7, <2>7, <2>9, <2>13
<1> QED
  BY <1>6, <1>7

\* A fetch takes the first job, or a fake graph.
LEMMA JobsOfTail ==
  ASSUME NEW q \in Seq(Item), q # <<>>
  PROVE  IF Head(q).job = NoJob THEN JobsOf(Tail(q)) = JobsOf(q)
         ELSE /\ JobsOf(q) # <<>> /\ Head(JobsOf(q)) = Head(q).job
              /\ JobsOf(Tail(q)) = Tail(JobsOf(q))
<1>1. PICK n \in Nat : \E f : Lists(f, n, RealAt(q))
  BY ListExists
<1>2. PICK f : Lists(f, n, RealAt(q))
  BY <1>1
<1>3. PICK len \in Nat : len = Len(q)
  OBVIOUS
<1>9. Tail(q) \in Seq(Item)
  OBVIOUS
<1>0. PICK p \in Seq(Item) : p = Tail(q)
  BY <1>9
<1>4. /\ DOMAIN p = 1 .. len - 1 /\ DOMAIN q = 1 .. len /\ len > 0
      /\ \A i \in 1 .. len - 1 : p[i] = q[i + 1] /\ i + 1 \in 1 .. len
      /\ Head(q) = q[1]
  BY <1>0, <1>3
<1>5. /\ \A i \in RealAt(q) : i \in 1 .. len /\ i \in Nat /\ q[i].job \in Job
      /\ \A a \in 1 .. n : f[a] \in RealAt(q) /\ f[a] \in Nat
      /\ \A a, b \in 1 .. n : a < b => f[a] < f[b]
      /\ \A i \in RealAt(q) : \E a \in 1 .. n : f[a] = i
      /\ JobsOf(q) = [a \in 1 .. n |-> q[f[a]].job]
      /\ JobsOf(q) \in Seq(Job) /\ Len(JobsOf(q)) = n
  BY <1>2, <1>3, Listed
<1>6. /\ \A i \in RealAt(p) : i \in 1 .. len - 1 /\ i + 1 \in RealAt(q)
      /\ \A i \in RealAt(q) : i # 1 => i - 1 \in RealAt(p)
  <2>1. ASSUME NEW i \in RealAt(p) PROVE i \in 1 .. len - 1 /\ i + 1 \in RealAt(q)
    BY <1>4 DEF RealAt
  <2>2. ASSUME NEW i \in RealAt(q), i # 1 PROVE i - 1 \in RealAt(p)
    <3>1. i \in 1 .. len /\ i \in Nat /\ q[i].job # NoJob
      BY <1>5 DEF RealAt
    <3>2. i - 1 \in 1 .. len - 1 /\ (i - 1) + 1 = i
      BY <2>2, <3>1
    <3>3. p[i - 1] = q[i]
      BY <1>4, <3>2
    <3> QED
      BY <1>4, <3>1, <3>2, <3>3 DEF RealAt
  <2> QED
    BY <2>1, <2>2
<1>7. CASE Head(q).job = NoJob
  <2> DEFINE g == [a \in 1 .. n |-> f[a] - 1]
  <2>0. 1 \notin RealAt(q)
    BY <1>4, <1>7 DEF RealAt
  <2>1. \A a \in 1 .. n : g[a] = f[a] - 1 /\ g[a] \in RealAt(p) /\ g[a] \in 1 .. len - 1
    BY <1>5, <1>6, <2>0
  <2>2. g \in [1 .. n -> RealAt(p)]
    BY <2>1
  <2> HIDE DEF g
  <2>3. ASSUME NEW a \in 1 .. n, NEW b \in 1 .. n, a < b PROVE g[a] < g[b]
    <3>1. f[a] < f[b] /\ f[a] \in Nat /\ f[b] \in Nat
      BY <1>5, <2>3
    <3> QED
      BY <2>1, <3>1
  <2>4. ASSUME NEW i \in RealAt(p) PROVE \E a \in 1 .. n : g[a] = i
    <3>1. PICK a \in 1 .. n : f[a] = i + 1
      BY <1>5, <1>6
    <3>2. i \in 1 .. len - 1
      BY <1>6
    <3> QED
      BY <2>1, <3>1, <3>2
  <2>5. JobsOf(p) = [a \in 1 .. n |-> p[g[a]].job]
    <3>1. Lists(g, n, RealAt(p))
      BY <2>2, <2>3, <2>4 DEF Lists
    <3> QED
      BY <3>1, JobsOfIs
  <2>6. \A a \in 1 .. n : p[g[a]] = q[f[a]]
    <3> SUFFICES ASSUME NEW a \in 1 .. n PROVE p[g[a]] = q[f[a]]
      OBVIOUS
    <3>1. p[g[a]] = q[g[a] + 1] /\ g[a] + 1 = f[a]
      BY <1>4, <1>5, <2>1
    <3> QED
      BY <3>1
  <2>7. JobsOf(p) = JobsOf(q)
    BY <1>5, <2>5, <2>6
  <2> QED
    BY <1>0, <1>7, <2>7
<1>8. CASE Head(q).job # NoJob
  <2>0. 1 \in RealAt(q)
    BY <1>4, <1>8 DEF RealAt
  <2>1. n # 0 /\ f[1] = 1 /\ 1 \in 1 .. n
    <3>1. PICK a \in 1 .. n : f[a] = 1
      BY <1>5, <2>0
    <3>2. 1 \in 1 .. n /\ n # 0
      OBVIOUS
    <3>3. f[1] \in 1 .. len
      BY <1>5, <3>2
    <3>4. ~(1 < a)
      BY <1>5, <3>1, <3>2, <3>3
    <3> QED
      BY <3>1, <3>2, <3>4
  <2>2. PICK m \in Nat : n = m + 1
    <3>1. n - 1 \in Nat /\ n = (n - 1) + 1
      BY <2>1
    <3> QED
      BY <3>1
  <2> DEFINE g == [a \in 1 .. m |-> f[a + 1] - 1]
  <2>3. ASSUME NEW a \in 1 .. m
        PROVE  /\ a + 1 \in 1 .. n /\ g[a] = f[a + 1] - 1
               /\ g[a] \in RealAt(p) /\ g[a] \in 1 .. len - 1
    <3>1. a + 1 \in 1 .. n /\ 1 < a + 1
      BY <2>2
    <3>2. f[a + 1] \in RealAt(q) /\ f[a + 1] # 1
      BY <1>5, <2>1, <3>1
    <3> QED
      BY <1>6, <3>1, <3>2
  <2>4. g \in [1 .. m -> RealAt(p)]
    BY <2>3
  <2> HIDE DEF g
  <2>5. ASSUME NEW a \in 1 .. m, NEW b \in 1 .. m, a < b PROVE g[a] < g[b]
    <3>1. a + 1 \in 1 .. n /\ b + 1 \in 1 .. n /\ a + 1 < b + 1
      BY <2>2, <2>5
    <3>2. f[a + 1] < f[b + 1] /\ f[a + 1] \in Nat /\ f[b + 1] \in Nat
      BY <1>5, <3>1
    <3> QED
      BY <2>3, <3>2
  <2>6. ASSUME NEW i \in RealAt(p) PROVE \E a \in 1 .. m : g[a] = i
    <3>1. i \in 1 .. len - 1 /\ i + 1 \in RealAt(q)
      BY <1>6
    <3>2. PICK b \in 1 .. n : f[b] = i + 1
      BY <1>5, <3>1
    <3>3. b # 1
      BY <2>1, <3>1, <3>2
    <3>4. PICK a \in 1 .. m : b = a + 1
      <4>1. b - 1 \in 1 .. m /\ b = (b - 1) + 1
        BY <2>2, <3>3
      <4> QED
        BY <4>1
    <3>5. g[a] = (i + 1) - 1
      BY <2>3, <3>2, <3>4
    <3> QED
      BY <3>1, <3>5
  <2>7. JobsOf(p) = [a \in 1 .. m |-> p[g[a]].job]
    <3>1. Lists(g, m, RealAt(p))
      BY <2>4, <2>5, <2>6 DEF Lists
    <3> QED
      BY <3>1, JobsOfIs
  <2>8. ASSUME NEW a \in 1 .. m PROVE p[g[a]] = q[f[a + 1]]
    <3>1. p[g[a]] = q[g[a] + 1] /\ g[a] + 1 = f[a + 1]
      <4>1. f[a + 1] \in Nat
        BY <1>5, <2>3
      <4> QED
        BY <1>4, <2>3, <4>1
    <3> QED
      BY <3>1
  <2>9. PICK s \in Seq(Job) : s = JobsOf(q)
    BY <1>5
  <2>10. /\ Len(s) = n /\ s # <<>> /\ Head(s) = s[1] /\ s[1] = q[1].job
         /\ \A a \in 1 .. n : s[a] = q[f[a]].job
    <3>1. Len(s) = n /\ \A a \in 1 .. n : s[a] = q[f[a]].job
      BY <1>5, <2>9
    <3>2. s # <<>> /\ Head(s) = s[1]
      BY <2>1, <3>1
    <3>3. s[1] = q[1].job
      BY <2>1, <3>1
    <3> QED
      BY <3>1, <3>2, <3>3
  <2>11. Tail(s) \in Seq(Job) /\ Len(Tail(s)) = m /\ \A a \in 1 .. m : Tail(s)[a] = s[a + 1]
    BY <2>2, <2>10
  <2>15. PICK r \in Seq(Job) : r = Tail(s)
    BY <2>11
  <2>12. r = [a \in 1 .. m |-> r[a]]
    <3>1. Len(r) = m
      BY <2>11, <2>15
    <3>2. DOMAIN r = 1 .. m /\ r = [a \in DOMAIN r |-> r[a]]
      BY <3>1
    <3> QED
      BY <3>2
  <2>13. \A a \in 1 .. m : Tail(s)[a] = p[g[a]].job
    BY <2>3, <2>8, <2>10, <2>11
  <2>14. Tail(s) = JobsOf(p)
    BY <2>7, <2>12, <2>13, <2>15
  <2> QED
    BY <1>0, <1>4, <1>8, <2>9, <2>10, <2>14
<1> QED
  BY <1>7, <1>8

LEMMA ConcatType ==
  ASSUME NEW S, NEW s \in Seq(S), NEW r \in Seq(S) PROVE s \o r \in Seq(S)
OBVIOUS

\* p is q without its k-th item.
IsWithout(p, q, k) == p = [i \in 1 .. Len(q) - 1 |-> IF i < k THEN q[i] ELSE q[i + 1]]

\* The k-th item of q is the last of its graph.
IsLast(q, k) == \A i \in RealAt(q) : GraphOf[q[i].job] = GraphOf[q[k].job] => i <= k

\* GraphRemove takes one job out, the last of its graph.
LEMMA JobsOfRemove ==
  ASSUME NEW q \in Seq(Item), NEW k \in RealAt(q),
         NEW p \in Seq(Item), IsWithout(p, q, k),
         IsLast(q, k)
  PROVE  \E s \in Seq(Job) : \E c \in DOMAIN s :
           /\ s = JobsOf(q) /\ s[c] = q[k].job
           /\ \A d \in DOMAIN s : GraphOf[s[d]] = GraphOf[s[c]] => d <= c
           /\ JobsOf(p) = SubSeq(s, 1, c - 1) \o SubSeq(s, c + 1, Len(s))
<1>1. PICK n \in Nat : \E f : Lists(f, n, RealAt(q))
  BY ListExists
<1>2. PICK f : Lists(f, n, RealAt(q))
  BY <1>1
<1>3. PICK len \in Nat : len = Len(q)
  OBVIOUS
<1>5. /\ \A i \in RealAt(q) : i \in 1 .. len /\ i \in Nat /\ q[i].job \in Job
      /\ \A a \in 1 .. n : f[a] \in RealAt(q) /\ f[a] \in Nat
      /\ \A a, b \in 1 .. n : a < b => f[a] < f[b]
      /\ \A i \in RealAt(q) : \E a \in 1 .. n : f[a] = i
      /\ JobsOf(q) = [a \in 1 .. n |-> q[f[a]].job]
      /\ JobsOf(q) \in Seq(Job) /\ Len(JobsOf(q)) = n
  BY <1>2, <1>3, Listed
<1>0. k \in 1 .. len /\ k \in Nat
  BY <1>5
<1>4. /\ DOMAIN p = 1 .. len - 1 /\ DOMAIN q = 1 .. len
      /\ \A i \in 1 .. len - 1 : p[i] = IF i < k THEN q[i] ELSE q[i + 1]
  BY <1>3 DEF IsWithout
<1>6. PICK c \in 1 .. n : f[c] = k
  BY <1>5
<1>7. PICK m \in Nat : n = m + 1
  <2>1. n - 1 \in Nat /\ n = (n - 1) + 1
    OBVIOUS
  <2> QED
    BY <2>1
<1>8. PICK s \in Seq(Job) : s = JobsOf(q)
  BY <1>5
<1>9. Len(s) = n /\ DOMAIN s = 1 .. n /\ \A a \in 1 .. n : s[a] = q[f[a]].job
  BY <1>5, <1>8
<1>10. \A d \in DOMAIN s : GraphOf[s[d]] = GraphOf[s[c]] => d <= c
  <2> SUFFICES ASSUME NEW d \in 1 .. n, GraphOf[s[d]] = GraphOf[s[c]], ~(d <= c) PROVE FALSE
    BY <1>9
  <2>1. s[d] = q[f[d]].job /\ s[c] = q[k].job /\ f[d] \in RealAt(q) /\ f[d] \in Nat
    BY <1>5, <1>6, <1>9
  <2>2. f[d] <= k
    BY <2>1 DEF IsLast
  <2>3. c < d
    OBVIOUS
  <2>4. k < f[d]
    BY <1>5, <1>6, <2>3
  <2> QED
    BY <1>0, <2>1, <2>2, <2>4
<1> DEFINE at(i) == IF i < k THEN i ELSE i + 1
<1>11. ASSUME NEW i \in RealAt(p)
       PROVE  i \in 1 .. len - 1 /\ i \in Nat /\ at(i) \in RealAt(q) /\ at(i) # k
  <2>1. i \in 1 .. len - 1 /\ p[i].job # NoJob
    BY <1>4 DEF RealAt
  <2>2. at(i) \in 1 .. len /\ at(i) # k /\ p[i] = q[at(i)]
    BY <1>0, <1>4, <2>1
  <2> QED
    BY <1>4, <2>1, <2>2 DEF RealAt
<1>12. ASSUME NEW i \in RealAt(q), i < k PROVE i \in RealAt(p) /\ at(i) = i /\ p[i] = q[i]
  <2>1. i \in 1 .. len - 1 /\ q[i].job # NoJob
    BY <1>0, <1>5, <1>12 DEF RealAt
  <2> QED
    BY <1>4, <1>12, <2>1 DEF RealAt
<1>13. ASSUME NEW i \in RealAt(q), k < i
       PROVE  i - 1 \in RealAt(p) /\ at(i - 1) = i /\ p[i - 1] = q[i]
  <2>1. i - 1 \in 1 .. len - 1 /\ q[i].job # NoJob /\ ~(i - 1 < k) /\ (i - 1) + 1 = i
    BY <1>0, <1>5, <1>13 DEF RealAt
  <2>2. p[i - 1] = q[i]
    BY <1>4, <2>1
  <2> QED
    BY <1>4, <2>1, <2>2 DEF RealAt
<1> HIDE DEF at
<1> DEFINE g == [a \in 1 .. m |-> IF a < c THEN f[a] ELSE f[a + 1] - 1]
<1>14. ASSUME NEW a \in 1 .. m, a < c
       PROVE  a \in 1 .. n /\ g[a] = f[a] /\ f[a] < k /\ f[a] \in RealAt(q)
  <2>1. a \in 1 .. n
    BY <1>7
  <2> QED
    BY <1>5, <1>6, <1>14, <2>1
<1>15. ASSUME NEW a \in 1 .. m, ~(a < c)
       PROVE  a + 1 \in 1 .. n /\ g[a] = f[a + 1] - 1 /\ k < f[a + 1] /\ f[a + 1] \in RealAt(q)
  <2>1. a + 1 \in 1 .. n /\ c < a + 1
    BY <1>7, <1>15
  <2> QED
    BY <1>5, <1>6, <1>15, <2>1
<1> HIDE DEF g
<1>16. ASSUME NEW a \in 1 .. m
       PROVE  /\ g[a] \in RealAt(p)
              /\ p[g[a]] = IF a < c THEN q[f[a]] ELSE q[f[a + 1]]
  <2>1. CASE a < c
    BY <1>12, <1>14, <2>1
  <2>2. CASE ~(a < c)
    BY <1>13, <1>15, <2>2
  <2> QED
    BY <2>1, <2>2
<1>17. ASSUME NEW a \in 1 .. m, NEW b \in 1 .. m, a < b PROVE g[a] < g[b]
  <2>1. CASE b < c
    <3>1. a < c
      BY <1>17, <2>1
    <3> QED
      BY <1>5, <1>14, <1>17, <2>1, <3>1
  <2>2. CASE ~(b < c) /\ a < c
    <3>1. g[a] = f[a] /\ f[a] < k /\ g[b] = f[b + 1] - 1 /\ k < f[b + 1]
      BY <1>14, <1>15, <2>2
    <3>2. f[a] \in Nat /\ f[b + 1] \in Nat
      BY <1>5, <1>14, <1>15, <2>2
    <3> QED
      BY <1>0, <3>1, <3>2
  <2>3. CASE ~(a < c)
    <3>1. ~(b < c)
      BY <1>17, <2>3
    <3>2. /\ g[a] = f[a + 1] - 1 /\ g[b] = f[b + 1] - 1
          /\ a + 1 \in 1 .. n /\ b + 1 \in 1 .. n
      BY <1>15, <2>3, <3>1
    <3>3. a + 1 < b + 1
      BY <1>17
    <3>4. f[a + 1] < f[b + 1] /\ f[a + 1] \in Nat /\ f[b + 1] \in Nat
      BY <1>5, <3>2, <3>3
    <3> QED
      BY <3>2, <3>4
  <2> QED
    BY <2>1, <2>2, <2>3
<1>18. ASSUME NEW i \in RealAt(p) PROVE \E a \in 1 .. m : g[a] = i
  <2>1. PICK b \in 1 .. n : f[b] = at(i)
    BY <1>5, <1>11
  <2>2. b # c /\ i \in Nat
    BY <1>6, <1>11, <2>1
  <2>3. CASE b < c
    <3>1. b \in 1 .. m
      BY <1>7, <2>3
    <3>2. g[b] = at(i) /\ at(i) < k
      BY <1>14, <2>1, <2>3, <3>1
    <3>3. at(i) = i
      BY <1>0, <2>2, <3>2 DEF at
    <3> QED
      BY <3>1, <3>2, <3>3
  <2>4. CASE c < b
    <3>1. PICK a \in 1 .. m : b = a + 1
      <4>1. b - 1 \in 1 .. m /\ b = (b - 1) + 1
        BY <1>7, <2>4
      <4> QED
        BY <4>1
    <3>2. ~(a < c)
      BY <2>4, <3>1
    <3>3. g[a] = at(i) - 1 /\ k < at(i)
      BY <1>15, <2>1, <3>1, <3>2
    <3>4. at(i) = i + 1
      BY <1>0, <2>2, <3>3 DEF at
    <3> QED
      BY <2>2, <3>3, <3>4
  <2> QED
    BY <2>2, <2>3, <2>4
<1>19. JobsOf(p) = [a \in 1 .. m |-> p[g[a]].job]
  <2>1. g \in [1 .. m -> RealAt(p)]
    BY <1>16 DEF g
  <2>2. Lists(g, m, RealAt(p))
    BY <1>17, <1>18, <2>1 DEF Lists
  <2>3. PICK h : h = g
    OBVIOUS
  <2>4. JobsOf(p) = [a \in 1 .. m |-> p[h[a]].job]
    BY <2>2, <2>3, JobsOfIs
  <2> QED
    BY <2>3, <2>4
<1>20. PICK u \in Seq(Job), v \in Seq(Job) :
          u = SubSeq(s, 1, c - 1) /\ v = SubSeq(s, c + 1, Len(s))
  <2>1. c - 1 \in Int /\ c + 1 \in Int
    OBVIOUS
  <2>2. \A a \in 1 .. c - 1 : s[a] \in Job
    BY <1>9
  <2>3. SubSeq(s, 1, c - 1) \in Seq(Job)
    BY <1>9, <2>1, <2>2
  <2>4. SubSeq(s, c + 1, Len(s)) \in Seq(Job)
    BY <1>9, <2>1
  <2> QED
    BY <2>3, <2>4
<1>25. PICK r \in Seq(Job) : r = u \o v
  BY Zenon, <1>20, ConcatType
<1>26. Len(u) = c - 1 /\ \A a \in 1 .. c - 1 : u[a] = s[a]
  BY <1>9, <1>20
<1>27. Len(v) = n - c /\ \A a \in 1 .. n - c : v[a] = s[c + a]
  BY <1>9, <1>20
<1>21. /\ Len(r) = m /\ DOMAIN r = 1 .. m
       /\ \A a \in 1 .. m : r[a] = IF a < c THEN s[a] ELSE s[a + 1]
  <2>1. Len(r) = m
    <3>1. Len(r) = Len(u) + Len(v)
      BY <1>25
    <3>2. Len(r) = (c - 1) + (n - c)
      BY <1>26, <1>27, <3>1
    <3> QED
      BY <1>7, <3>2
  <2>2. ASSUME NEW a \in 1 .. m, a < c PROVE r[a] = s[a]
    <3>1. a \in 1 .. c - 1
      BY <2>2
    <3> QED
      BY <1>25, <1>26, <3>1
  <2>3. ASSUME NEW a \in 1 .. m, ~(a < c) PROVE r[a] = s[a + 1]
    <3>1. a - (c - 1) \in 1 .. n - c /\ c + (a - (c - 1)) = a + 1
      BY <1>7, <2>3
    <3>2. r[a] = v[a - (c - 1)]
      BY <1>7, <1>25, <1>26, <1>27, <2>1, <2>3
    <3> QED
      BY <1>27, <3>1, <3>2
  <2>4. DOMAIN r = 1 .. m
    BY <2>1
  <2>5. \A a \in 1 .. m : r[a] = IF a < c THEN s[a] ELSE s[a + 1]
    BY <2>2, <2>3
  <2> QED
    BY <2>1, <2>4, <2>5
<1>22. r = [a \in 1 .. m |-> r[a]]
  BY <1>21
<1>23. ASSUME NEW a \in 1 .. m PROVE r[a] = p[g[a]].job
  <2>1. CASE a < c
    <3>1. r[a] = q[f[a]].job
      BY <1>9, <1>14, <1>21, <2>1
    <3> QED
      BY <1>16, <2>1, <3>1
  <2>2. CASE ~(a < c)
    <3>1. r[a] = q[f[a + 1]].job
      BY <1>9, <1>15, <1>21, <2>2
    <3> QED
      BY <1>16, <2>2, <3>1
  <2> QED
    BY <2>1, <2>2
<1>24. r = JobsOf(p)
  BY <1>19, <1>22, <1>23
<1> QED
  BY <1>6, <1>8, <1>9, <1>10, <1>20, <1>24, <1>25

---------------------------------------------------------------------------
\* The device implements the service

\* After the last join no worker is left.
Closed == Phase = "closed" => AllExited

SInv == IInv /\ Drain /\ Closed

\* A step of anyone that is neither a call nor a join of ThreadExit.
LEMMA PhaseStays ==
  ASSUME UNCHANGED exits, Closing(cpc'[Owner]) <=> Closing(cpc[Owner]) PROVE Phase' = Phase
BY DEF Phase, Closing

LEMMA ClosedStays ==
  ASSUME Closed, Phase' = Phase, \A w \in Worker : wpc[w] = "exited" => wpc'[w] = "exited"
  PROVE  Closed'
BY DEF Closed, AllExited

\* What the device does beyond the joins and the calls of ThreadExit.
OtherStep ==
  \/ \E c \in Client :
       \/ \E j \in Job : CountSubmit(c, j)
       \/ \E g \in Graph : GraphRemove(c, g)
       \/ PushGraph(c) \/ NotifyGraph(c) \/ WaitThreadIdle(c)
  \/ PushFake \/ NotifyFake
  \/ \E w \in Worker :
       Block(w) \/ Fetch(w) \/ Handle(w) \/ Decrement(w) \/ NotifyIdle(w)
  \/ SpuriousWakeup \/ UNCHANGED vars

\* Only CallThreadExit and Join change the phase, and no worker comes back.
LEMMA OtherStays ==
  ASSUME TInv, OtherStep
  PROVE  Phase' = Phase /\ \A w \in Worker : wpc[w] = "exited" => wpc'[w] = "exited"
<1> DEFINE Stays == /\ UNCHANGED exits
                    /\ Closing(cpc'[Owner]) <=> Closing(cpc[Owner])
                    /\ \A w \in Worker : wpc[w] = "exited" => wpc'[w] = "exited"
<1> SUFFICES Stays
  BY PhaseStays
<1>0. wpc \in [Worker -> WorkerPC] /\ cpc \in [Client -> ClientPC] /\ Owner \in Client
  BY Assumptions DEF TInv, TypeOK
<1>1. ASSUME NEW c \in Client, NEW j \in Job, CountSubmit(c, j) PROVE Stays
  BY <1>0, <1>1 DEF CountSubmit, workerVars, Closing
<1>2. ASSUME NEW c \in Client, NEW g \in Graph, GraphRemove(c, g) PROVE Stays
  BY <1>2 DEF GraphRemove, workerVars, clientVars
<1>3. ASSUME NEW c \in Client, PushGraph(c) PROVE Stays
  BY <1>0, <1>3 DEF PushGraph, workerVars, Closing
<1>4. ASSUME NEW c \in Client, NotifyGraph(c) PROVE Stays
  BY <1>0, <1>4 DEF NotifyGraph, NotifyQueue, QueueWaiting, Closing
<1>5. ASSUME NEW c \in Client, WaitThreadIdle(c) PROVE Stays
  BY <1>0, <1>5 DEF WaitThreadIdle, workerVars, Closing
<1>6. CASE PushFake
  BY <1>0, <1>6 DEF PushFake, workerVars, Closing
<1>7. CASE NotifyFake
  BY <1>0, <1>7 DEF NotifyFake, NotifyQueue, QueueWaiting, Closing
<1>8. ASSUME NEW w \in Worker, Block(w) \/ Handle(w) \/ Decrement(w) PROVE Stays
  BY <1>0, <1>8 DEF Block, Handle, Decrement, clientVars
<1>9. ASSUME NEW w \in Worker, Fetch(w) PROVE Stays
  BY <1>0, <1>9 DEF Fetch, clientVars
<1>10. ASSUME NEW w \in Worker, NotifyIdle(w) PROVE Stays
  BY <1>0, <1>10 DEF NotifyIdle, WakeIdle, IdleWaiting, Closing
<1>11. CASE SpuriousWakeup
  BY <1>0, <1>11 DEF SpuriousWakeup, QueueWaiting, IdleWaiting, Closing
<1>12. CASE UNCHANGED vars
  BY <1>12 DEF vars, workerVars, clientVars
<1> QED
  BY <1>1, <1>2, <1>3, <1>4, <1>5, <1>6, <1>7, <1>8, <1>9, <1>10, <1>11, <1>12 DEF OtherStep

LEMMA NextSInv == SInv /\ [Next]_vars => SInv'
<1> SUFFICES ASSUME SInv, [Next]_vars PROVE Closed'
  BY NextIInv, NextDrain DEF SInv
<1>0. TInv /\ exits \in Nat
  BY Assumptions DEF SInv, IInv, TInv, TypeOK
<1>1. CASE OtherStep
  BY <1>0, <1>1, OtherStays, ClosedStays DEF SInv
<1>2. CASE CallThreadExit
  <2>1. UNCHANGED wpc /\ exits' = exits + 1 /\ cpc[Owner] = "out" /\ cpc'[Owner] = "exitPush"
    BY <1>0, <1>2, Assumptions DEF CallThreadExit, workerVars, TInv, TypeOK
  <2> QED
    BY <1>0, <2>1 DEF SInv, Closed, Phase, AllExited
<1>3. CASE Join
  BY <1>3 DEF Join, Closed, AllExited, workerVars
<1> QED
  BY <1>1, <1>2, <1>3 DEF Next, OtherStep

\* The service's pending jobs, before and after a step.
LEMMA PendingHolds == ASSUME queue \in Seq(Item) PROVE JS!Pending = QueuedJobs
BY JobsOfHolds DEF JS!Pending, QueuedJobs, PendingJobs

\* The service counts as the device does.
LEMMA SameCardinality == \A S : JS!Cardinality(S) = Cardinality(S)
BY DEF JS!Cardinality, Cardinality

LEMMA PendingNext == PendingJobs = JobsOf(queue) /\ PendingJobs' = JobsOf(queue')
BY DEF PendingJobs, JobsOf, RealAt, Rank

\* A step the service does not see.
LEMMA ServiceStays ==
  ASSUME UNCHANGED <<finished, removed, promised>>, Phase' = Phase,
         JobsOf(queue') = JobsOf(queue), \A w \in Worker : RunBy(w)' = RunBy(w)
  PROVE  UNCHANGED JS!serviceVars
BY PendingNext DEF JS!serviceVars, RunningJobs

\* A push is the acceptance of the job.
LEMMA PushAccepts ==
  ASSUME SInv, NEW c \in Client, PushGraph(c) PROVE JS!ServiceNext
<1> DEFINE it == [id |-> gcount, job |-> cjob[c]]
<1>1. /\ it \in Item /\ it.job = cjob[c] /\ cjob[c] \in Job
      /\ queue \in Seq(Item) /\ queue' = Append(queue, it)
      /\ UNCHANGED <<wpc, item, promised, finished, removed>>
  BY Assumptions
     DEF PushGraph, PushBack, PushHolds, workerVars, historyVars, Item, SInv, IInv, TInv, TypeOK
<1>2. Phase' = Phase
  BY OtherStays DEF OtherStep, SInv, IInv
<1>3. cjob[c] \in PushingJobs
  BY <1>1, Assumptions DEF PushingJobs, PushedBy
<1>4. cjob[c] \notin JS!Pending \cup RunningJobs \cup finished \cup removed
  BY <1>1, <1>3, PendingHolds DEF SInv, IInv, EachJobOnce
<1>5. cjob[c] # NoJob
  BY <1>1, Assumptions
<1> HIDE DEF it
<1>6. PendingJobs' = Append(PendingJobs, cjob[c])
  BY <1>1, <1>5, JobsOfAppend, PendingNext
<1>7. RunningJobs' = RunningJobs
  BY <1>1 DEF RunningJobs, RunBy
<1>8. JS!Accept(cjob[c])
  BY <1>1, <1>2, <1>4, <1>6, <1>7 DEF JS!Accept
<1> QED
  BY <1>1, <1>8 DEF JS!ServiceNext

\* While a worker is not busy there is a free slot.
LEMMA SlotIsFree ==
  ASSUME TInv, NEW w \in Worker, RunBy(w) = {} PROVE Cardinality(RunningJobs) < ThreadCount
<1> DEFINE busy == {v \in Worker : RunBy(v) # {}}
           job  == [v \in busy |-> item[v].job]
<1>1. IsFiniteSet(busy) /\ Cardinality(busy) < ThreadCount
  <2>1. busy \subseteq Worker /\ w \notin busy
    OBVIOUS
  <2>2. /\ IsFiniteSet(busy) /\ Cardinality(busy) <= Cardinality(Worker)
        /\ Cardinality(busy) = Cardinality(Worker) => busy = Worker
    BY <2>1, Assumptions, FS_Subset
  <2>3. Cardinality(busy) \in Nat /\ Cardinality(Worker) \in Nat
    BY <2>2, Assumptions, FS_CardinalityType
  <2> QED
    BY <2>1, <2>2, <2>3 DEF ThreadCount
<1>2. job \in Surjection(busy, RunningJobs)
  <2>1. \A v \in busy : item[v].job \in RunBy(v)
    BY DEF RunBy
  <2>2. \A v \in busy : job[v] \in RunningJobs
    BY <2>1 DEF RunningJobs
  <2>3. ASSUME NEW j \in RunningJobs PROVE \E v \in busy : job[v] = j
    <3>1. PICK v \in Worker : j \in RunBy(v)
      BY DEF RunningJobs
    <3>2. v \in busy /\ item[v].job = j
      BY <3>1 DEF RunBy
    <3> QED
      BY <3>2
  <2> QED
    BY <2>2, <2>3 DEF Surjection
<1> HIDE DEF busy, job
<1>3. IsFiniteSet(RunningJobs) /\ Cardinality(RunningJobs) <= Cardinality(busy)
  BY <1>1, <1>2, FS_Surjection
<1>4. Cardinality(RunningJobs) \in Nat /\ Cardinality(busy) \in Nat /\ ThreadCount \in Nat
  BY <1>1, <1>3, ThreadCountPositive, FS_CardinalityType
<1> QED
  BY <1>1, <1>3, <1>4

\* A fetch starts the first job; a fake graph or nothing is not one.
LEMMA FetchStarts ==
  ASSUME SInv, NEW w \in Worker, Fetch(w) PROVE JS!Start \/ UNCHANGED JS!serviceVars
<1> DEFINE it == IF queue = <<>> THEN PhantomItem ELSE Head(queue)
           got == {it.job} \ {NoJob}
<1>1. /\ wpc[w] # "handle" /\ wpc[w] # "exited"
      /\ item' = [item EXCEPT ![w] = it]
      /\ wpc' = [wpc EXCEPT ![w] = IF it.id = 0 THEN "exited" ELSE "handle"]
      /\ queue' = IF queue = <<>> THEN <<>> ELSE Tail(queue)
      /\ UNCHANGED <<finished, removed, promised>>
      /\ wpc \in [Worker -> WorkerPC] /\ item \in [Worker -> Item] /\ queue \in Seq(Item)
  BY DEF Fetch, clientVars, historyVars, SInv, IInv, TInv, TypeOK
<1>2. Phase' = Phase
  BY OtherStays DEF OtherStep, SInv, IInv
<1>3. it.id = 0 => got = {}
  <2>1. queue # <<>> => it = queue[1] /\ 1 \in DOMAIN queue
    BY <1>1
  <2> QED
    BY <1>1, <2>1, Assumptions DEF IdsTell, PhantomItem, SInv, IInv
<1>4. queue # <<>> => it = Head(queue)
  OBVIOUS
<1>5. queue = <<>> => got = {}
  BY DEF PhantomItem
<1> HIDE DEF it
<1>6. /\ RunBy(w) = {} /\ RunBy(w)' = got
      /\ \A v \in Worker \ {w} : RunBy(v)' = RunBy(v)
  BY <1>1, <1>3 DEF RunBy
<1>7. CASE got = {}
  <2>1. JobsOf(queue') = JobsOf(queue)
    <3>1. CASE queue = <<>>
      BY <1>1, <3>1
    <3>2. CASE queue # <<>>
      BY <1>1, <1>4, <1>7, <3>2, JobsOfTail
    <3> QED
      BY <3>1, <3>2
  <2>2. \A v \in Worker : RunBy(v)' = RunBy(v)
    BY <1>6, <1>7
  <2> QED
    BY <1>1, <1>2, <2>1, <2>2, ServiceStays
<1>8. CASE got # {}
  <2>1. queue # <<>> /\ it = Head(queue) /\ it.job # NoJob /\ queue' = Tail(queue)
    BY <1>1, <1>4, <1>5, <1>8
  <2>2. /\ PendingJobs # <<>> /\ Head(PendingJobs) = it.job
        /\ PendingJobs' = Tail(PendingJobs)
    BY <1>1, <2>1, JobsOfTail, PendingNext
  <2>3. RunningJobs' = RunningJobs \cup {Head(PendingJobs)}
    BY <1>6, <2>1, <2>2 DEF RunningJobs
  <2>4. Phase # "closed"
    BY <1>1 DEF SInv, Closed, AllExited
  <2>5. Cardinality(RunningJobs) < ThreadCount
    BY <1>6, SlotIsFree DEF SInv, IInv
  <2>6. UNCHANGED <<finished, removed, promised>> /\ Phase' = Phase
    BY <1>1, <1>2
  <2> QED
    BY <2>2, <2>3, <2>4, <2>5, <2>6, SameCardinality DEF JS!Start
<1> QED
  BY <1>7, <1>8

LEMMA HandleFinishes ==
  ASSUME SInv, NEW w \in Worker, Handle(w) PROVE JS!ServiceNext \/ UNCHANGED JS!serviceVars
<1>1. /\ wpc[w] = "handle" /\ wpc' = [wpc EXCEPT ![w] = "handled"]
      /\ finished' = finished \cup ({item[w].job} \ {NoJob})
      /\ UNCHANGED <<queue, item, removed, promised>>
      /\ wpc \in [Worker -> WorkerPC] /\ item[w].job \in Job \cup {NoJob}
  BY DEF Handle, clientVars, SInv, IInv, TInv, TypeOK, Item
<1>2. Phase' = Phase
  BY OtherStays DEF OtherStep, SInv, IInv
<1>3. /\ RunBy(w) = {item[w].job} \ {NoJob} /\ RunBy(w)' = {}
      /\ \A v \in Worker \ {w} : RunBy(v)' = RunBy(v) /\ RunBy(v) \cap RunBy(w) = {}
  BY <1>1 DEF RunBy, SInv, IInv, EachJobOnce
<1>4. JobsOf(queue') = JobsOf(queue)
  BY <1>1
<1>5. CASE item[w].job = NoJob
  <2>1. /\ \A v \in Worker : RunBy(v)' = RunBy(v)
        /\ finished' = finished
    BY <1>1, <1>3, <1>5
  <2> QED
    BY <1>1, <1>2, <1>4, <2>1, ServiceStays
<1>6. CASE item[w].job # NoJob
  <2>1. PICK j \in Job : j = item[w].job
    BY <1>1, <1>6
  <2>2. RunBy(w) = {j} /\ finished' = finished \cup {j}
    BY <1>1, <1>3, <1>6, <2>1
  <2>3. j \in RunningJobs /\ RunningJobs' = RunningJobs \ {j}
    BY <1>3, <2>2 DEF RunningJobs
  <2>4. PendingJobs' = PendingJobs
    BY <1>4, PendingNext
  <2>5. JS!Finish(j)
    BY <1>1, <1>2, <2>2, <2>3, <2>4 DEF JS!Finish
  <2> QED
    BY <2>5 DEF JS!ServiceNext
<1> QED
  BY <1>5, <1>6

LEMMA RemoveDrops ==
  ASSUME SInv, NEW c \in Client, NEW g \in Graph, GraphRemove(c, g) PROVE JS!ServiceNext
<1>1. PICK k \in DOMAIN queue :
        /\ ScanHit(g, k)
        /\ queue' = [i \in 1 .. Len(queue) - 1 |-> IF i < k THEN queue[i] ELSE queue[i + 1]]
        /\ removed' = removed \cup {queue[k].job}
  BY DEF GraphRemove
<1>2. /\ queue \in Seq(Item) /\ queue' \in Seq(Item)
      /\ UNCHANGED <<wpc, item, finished, promised>>
  BY NextTypes DEF GraphRemove, workerVars, clientVars, SInv, IInv, TInv, TypeOK, Next
<1>3. Phase' = Phase
  BY OtherStays DEF OtherStep, SInv, IInv
<1>4. k \in RealAt(queue) /\ IsLast(queue, k)
  BY <1>1 DEF ScanHit, Matches, RealAt, IsLast
<1>5. IsWithout(queue', queue, k)
  BY <1>1 DEF IsWithout
<1>6. PICK s \in Seq(Job) : \E i \in DOMAIN s :
        /\ s = JobsOf(queue) /\ s[i] = queue[k].job
        /\ \A d \in DOMAIN s : GraphOf[s[d]] = GraphOf[s[i]] => d <= i
        /\ JobsOf(queue') = SubSeq(s, 1, i - 1) \o SubSeq(s, i + 1, Len(s))
  BY <1>2, <1>4, <1>5, JobsOfRemove
<1>7. PICK i \in DOMAIN s :
        /\ s = JobsOf(queue) /\ s[i] = queue[k].job
        /\ \A d \in DOMAIN s : GraphOf[s[d]] = GraphOf[s[i]] => d <= i
        /\ JobsOf(queue') = SubSeq(s, 1, i - 1) \o SubSeq(s, i + 1, Len(s))
  BY <1>6
<1>8. s = PendingJobs /\ PendingJobs' = JobsOf(queue')
  BY <1>7, PendingNext
<1>9. RunningJobs' = RunningJobs
  BY <1>2 DEF RunningJobs, RunBy
<1>10. JS!Drop(i)
  BY <1>1, <1>2, <1>3, <1>7, <1>8, <1>9 DEF JS!Drop
<1> QED
  BY <1>7, <1>8, <1>10 DEF JS!ServiceNext

\* The first ThreadExit asks the service to close, and its join closes it.
LEMMA ExitAsks ==
  ASSUME SInv, CallThreadExit PROVE JS!AskClose \/ UNCHANGED JS!serviceVars
<1>1. /\ UNCHANGED <<queue, wpc, item, finished, removed>>
      /\ exits \in Nat /\ exits' = exits + 1
      /\ cpc[Owner] = "out" /\ cpc'[Owner] = "exitPush"
      /\ promised' = IF exits = 0 THEN QueuedJobs \cup RunningJobs ELSE promised
      /\ queue \in Seq(Item)
  BY Assumptions DEF CallThreadExit, workerVars, SInv, IInv, TInv, TypeOK
<1>2. PendingJobs' = PendingJobs /\ RunningJobs' = RunningJobs
      /\ \A w \in Worker : RunBy(w)' = RunBy(w)
  BY <1>1, PendingNext DEF RunningJobs, RunBy
<1>3. CASE exits = 0
  <2>1. Phase = "open" /\ Phase' = "closing"
    BY <1>1, <1>3 DEF Phase
  <2>2. promised' = JS!Pending \cup RunningJobs
    BY <1>1, <1>3, PendingHolds
  <2> QED
    BY <1>1, <1>2, <2>1, <2>2 DEF JS!AskClose
<1>4. CASE exits # 0
  <2>1. Phase = "closed" /\ Phase' = "closed"
    BY <1>1, <1>4 DEF Phase
  <2> QED
    BY <1>1, <1>2, <1>4, <2>1 DEF JS!serviceVars
<1> QED
  BY <1>3, <1>4

LEMMA JoinCloses ==
  ASSUME SInv, Join PROVE JS!Close \/ UNCHANGED JS!serviceVars
<1>1. /\ UNCHANGED <<queue, wpc, item, finished, removed, promised, exits>>
      /\ exits \in Nat /\ AllExited
      /\ cpc[Owner] = "join" /\ cpc'[Owner] = "out"
  BY Assumptions DEF Join, workerVars, historyVars, SInv, IInv, TInv, TypeOK
<1>2. PendingJobs' = PendingJobs /\ RunningJobs' = RunningJobs
  BY <1>1, PendingNext DEF RunningJobs, RunBy
<1>3. exits # 0
  BY <1>1 DEF SInv, Drain, Open, Closing
<1>4. Phase' = "closed" /\ Phase = IF exits = 1 THEN "closing" ELSE "closed"
  BY <1>1, <1>3 DEF Phase
<1>5. RunningJobs = {}
  BY <1>1 DEF AllExited, RunningJobs, RunBy
<1>6. QueuedJobs \cap promised = {}
  BY <1>1, Assumptions DEF AllExited, SInv, Drain, Before
<1>7. promised \subseteq finished \cup removed
  BY <1>5, <1>6 DEF SInv, Drain, Promise
<1> QED
  BY <1>1, <1>2, <1>4, <1>5, <1>7 DEF JS!Close, JS!serviceVars

LEMMA StepImplements ==
  SInv /\ [Next]_vars => [JS!ServiceNext]_JS!serviceVars
<1> SUFFICES ASSUME SInv, [Next]_vars PROVE JS!ServiceNext \/ UNCHANGED JS!serviceVars
  OBVIOUS
<1>0. /\ wpc \in [Worker -> WorkerPC] /\ item \in [Worker -> Item] /\ queue \in Seq(Item)
      /\ TInv
  BY DEF SInv, IInv, TInv, TypeOK
<1>1. ASSUME UNCHANGED <<finished, removed, promised>>, OtherStep,
             JobsOf(queue') = JobsOf(queue),
             \A w \in Worker : /\ wpc'[w] = "handle" <=> wpc[w] = "handle"
                               /\ wpc[w] = "handle" => item'[w] = item[w]
      PROVE  UNCHANGED JS!serviceVars
  <2>1. \A w \in Worker : RunBy(w)' = RunBy(w)
    BY <1>1 DEF RunBy
  <2> QED
    BY <1>0, <1>1, <2>1, OtherStays, ServiceStays
<1>2. ASSUME NEW c \in Client, NEW j \in Job, CountSubmit(c, j) PROVE UNCHANGED JS!serviceVars
  BY <1>1, <1>2 DEF CountSubmit, workerVars, OtherStep
<1>3. ASSUME NEW c \in Client, NEW g \in Graph, GraphRemove(c, g) PROVE JS!ServiceNext
  BY <1>3, RemoveDrops
<1>4. ASSUME NEW c \in Client, PushGraph(c) PROVE JS!ServiceNext
  BY <1>4, PushAccepts
<1>5. ASSUME NEW c \in Client, NotifyGraph(c) PROVE UNCHANGED JS!serviceVars
  BY <1>0, <1>1, <1>5 DEF NotifyGraph, NotifyQueue, QueueWaiting, historyVars, OtherStep
<1>6. ASSUME NEW c \in Client, WaitThreadIdle(c) PROVE UNCHANGED JS!serviceVars
  BY <1>1, <1>6 DEF WaitThreadIdle, workerVars, historyVars, OtherStep
<1>7. CASE CallThreadExit
  BY <1>7, ExitAsks DEF JS!ServiceNext
<1>8. CASE PushFake
  <2>1. /\ queue' = Append(queue, FakeItem) /\ FakeItem \in Item /\ FakeItem.job = NoJob
        /\ UNCHANGED <<finished, removed, promised, wpc, item>>
    BY <1>8, Assumptions DEF PushFake, PushBack, FakeItem, Item, workerVars, historyVars
  <2>2. JobsOf(queue') = JobsOf(queue)
    BY <1>0, <2>1, JobsOfAppend
  <2> QED
    BY <1>1, <1>8, <2>1, <2>2 DEF OtherStep
<1>9. CASE NotifyFake
  BY <1>0, <1>1, <1>9 DEF NotifyFake, NotifyQueue, QueueWaiting, historyVars, OtherStep
<1>10. CASE Join
  BY <1>10, JoinCloses DEF JS!ServiceNext
<1>11. ASSUME NEW w \in Worker, Block(w) PROVE UNCHANGED JS!serviceVars
  BY <1>0, <1>1, <1>11 DEF Block, clientVars, historyVars, OtherStep
<1>12. ASSUME NEW w \in Worker, Fetch(w) PROVE JS!ServiceNext \/ UNCHANGED JS!serviceVars
  BY <1>12, FetchStarts DEF JS!ServiceNext
<1>13. ASSUME NEW w \in Worker, Handle(w) PROVE JS!ServiceNext \/ UNCHANGED JS!serviceVars
  BY <1>13, HandleFinishes
<1>14. ASSUME NEW w \in Worker, Decrement(w) PROVE UNCHANGED JS!serviceVars
  BY <1>0, <1>1, <1>14 DEF Decrement, clientVars, OtherStep
<1>15. ASSUME NEW w \in Worker, NotifyIdle(w) PROVE UNCHANGED JS!serviceVars
  BY <1>0, <1>1, <1>15 DEF NotifyIdle, historyVars, OtherStep
<1>16. CASE SpuriousWakeup
  BY <1>0, <1>1, <1>16 DEF SpuriousWakeup, QueueWaiting, OtherStep
<1>17. CASE UNCHANGED vars
  BY <1>1, <1>17 DEF vars, workerVars, historyVars, OtherStep
<1> QED
  BY <1>2, <1>3, <1>4, <1>5, <1>6, <1>7, <1>8, <1>9, <1>10, <1>11, <1>12, <1>13, <1>14, <1>15,
     <1>16, <1>17 DEF Next

LEMMA InitImplements == Init => JS!ServiceInit /\ Closed
<1> SUFFICES ASSUME Init PROVE JS!ServiceInit /\ Closed
  OBVIOUS
<1>1. queue = <<>> /\ RealAt(queue) = {}
  BY DEF Init, RealAt
<1>2. Cardinality(RealAt(queue)) = 0
  BY <1>1, FS_EmptySet
<1>3. PendingJobs = <<>>
  BY <1>2 DEF PendingJobs, JobsOf
<1>4. RunningJobs = {}
  BY DEF Init, RunningJobs, RunBy
<1>5. Phase = "open"
  BY DEF Init, Phase
<1> QED
  BY <1>3, <1>4, <1>5 DEF Init, JS!ServiceInit, Closed

\* vip::Device with its threads, locks, notifications and fake graphs does what
\* JobService says, for any number of workers, users and jobs: jobs start in the
\* order of the pushes, each at most once and at most one per worker, GraphRemove
\* takes the last of the graph that has not started, and ThreadExit comes back
\* only after the jobs it found have finished or were removed.
THEOREM DeviceImplementsService == Spec => ImplementsService
<1>1. Init => SInv /\ JS!ServiceInit
  BY InitIInv, InitDrain, InitImplements DEF SInv
<1> QED
  BY <1>1, NextSInv, StepImplements, PTL DEF Spec, ImplementsService, JS!Service
====
