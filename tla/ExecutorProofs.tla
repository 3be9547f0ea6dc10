---- MODULE ExecutorProofs ----
(***************************************************************************)
(* The order of an executor's tasks, for any executables and any number of *)
(* submissions.  The tasks taken and those in the list make one sequence,  *)
(* Queue, which Trigger leaves as it is, and into which a submission is    *)
(* inserted.                                                               *)
(***************************************************************************)
EXTENDS Executor, SequenceTheorems, WellFoundedInduction, TLAPS

Queue == taken \o tasks

Submission == [exe : Exe, ref : Exe, after : BOOLEAN, anchor : Nat]

\* A submission is in the queue once.
Once == \A i, j \in 1 .. Len(Queue) : Queue[i] = Queue[j] => i = j

\* It is there if it found its place.
Queued == \A s \in Subs : subs[s].exe = subs[s].ref \/ subs[s].anchor # 0 =>
            \E i \in 1 .. Len(Queue) : Queue[i] = s

\* And it is on the side of its anchor that was asked for.
Beside == \A s \in Subs : subs[s].anchor # 0 =>
            \E i, j \in 1 .. Len(Queue) :
              /\ Queue[i] = subs[s].anchor /\ Queue[j] = s
              /\ IF subs[s].after THEN i < j ELSE j < i

SubsOK == subs \in Seq(Submission)

IInv == TypeOK /\ SubsOK /\ Once /\ Queued /\ Beside /\ ran \subseteq ToSet(taken)

-----------------------------------------------------------------------------

\* A nonempty set of natural numbers has a least element, which Min returns.
LEMMA MinIsIn == ASSUME NEW S \in SUBSET Nat, S # {} PROVE Min(S) \in S
  <1>1. IsWellFoundedOn(OpToRel(<, Nat), Nat)
    BY NatLessThanWellFounded
  <1>2. PICK x \in S : \A y \in S : ~(<<y, x>> \in OpToRel(<, Nat))
    BY <1>1, WFMin
  <1>3. ASSUME NEW y \in S, y < x PROVE FALSE
    <2>1. <<y, x>> \in Nat \X Nat /\ <<y, x>>[1] < <<y, x>>[2]
      BY <1>3
    <2>2. <<y, x>> \in OpToRel(<, Nat)
      BY <2>1, Zenon DEF OpToRel
    <2> QED BY <2>2, <1>2
  <1>4. \A y \in S : x <= y
    BY <1>3
  <1> QED BY <1>4, Zenon DEF Min

\* InsertAt moves what is behind by one place.
LEMMA Inserted ==
  ASSUME NEW S, NEW seq \in Seq(S), NEW p \in 1 .. Len(seq) + 1, NEW e \in S
  PROVE  /\ InsertAt(seq, p, e) \in Seq(S)
         /\ Len(InsertAt(seq, p, e)) = Len(seq) + 1
         /\ \A i \in 1 .. Len(seq) + 1 :
              InsertAt(seq, p, e)[i] = IF i < p THEN seq[i]
                                       ELSE IF i = p THEN e ELSE seq[i - 1]
  <1> DEFINE front == SubSeq(seq, 1, p - 1)
             head == front \o <<e>>
             rear == SubSeq(seq, p, Len(seq))
  <1>1. front \in Seq(S) /\ Len(front) = p - 1 /\ \A i \in 1 .. p - 1 : front[i] = seq[i]
    BY SubSeqProperties
  <1>2. /\ rear \in Seq(S) /\ Len(rear) = Len(seq) - p + 1
        /\ \A i \in 1 .. Len(seq) - p + 1 : rear[i] = seq[p + i - 1]
    BY SubSeqProperties
  <1>3. InsertAt(seq, p, e) = head \o rear
    BY DEF InsertAt
  <1>4. <<e>> \in Seq(S) /\ Len(<<e>>) = 1 /\ <<e>>[1] = e
    OBVIOUS
  <1> HIDE DEF front, rear
  <1>5. head \in Seq(S) /\ Len(head) = p
    BY <1>1, <1>4, ConcatProperties
  <1>6. \A i \in 1 .. p : head[i] = IF i < p THEN seq[i] ELSE e
    BY <1>1, <1>4, ConcatProperties
  <1> HIDE DEF head
  <1>7. /\ head \o rear \in Seq(S) /\ Len(head \o rear) = Len(seq) + 1
        /\ \A i \in 1 .. Len(seq) + 1 :
             (head \o rear)[i] = IF i <= p THEN head[i] ELSE rear[i - p]
    BY <1>2, <1>5, ConcatProperties
  <1>8. ASSUME NEW i \in 1 .. Len(seq) + 1, i > p
        PROVE  rear[i - p] = seq[i - 1]
    <2>1. i - p \in 1 .. Len(seq) - p + 1 /\ p + (i - p) - 1 = i - 1
      BY <1>8
    <2> QED BY <2>1, <1>2
  <1> QED BY <1>3, <1>6, <1>7, <1>8

\* The same, place by place.
LEMMA InsertedAt ==
  ASSUME NEW S, NEW seq \in Seq(S), NEW p \in 1 .. Len(seq) + 1, NEW e \in S,
         NEW i \in 1 .. Len(seq) + 1
  PROVE  /\ i < p => InsertAt(seq, p, e)[i] = seq[i]
         /\ i = p => InsertAt(seq, p, e)[i] = e
         /\ i > p => InsertAt(seq, p, e)[i] = seq[i - 1]
  BY Inserted

\* Numbers keep their order when the same number is added.
LEMMA Shifted ==
  ASSUME NEW a \in Nat, NEW b \in Nat, NEW c \in Nat, b > c
  PROVE  ~(a + b < a + c) /\ a + b # a + c
  OBVIOUS

\* Taking the first task leaves the queue as it is.
LEMMA Requeued ==
  ASSUME NEW S, NEW before \in Seq(S), NEW list \in Seq(S), list # <<>>
  PROVE  /\ RemoveAt(list, 1) \in Seq(S) /\ Append(before, list[1]) \in Seq(S)
         /\ Append(before, list[1]) \o RemoveAt(list, 1) = before \o list
  <1>1. RemoveAt(list, 1) = Tail(list)
    <2>1. RemoveAt(list, 1) = <<>> \o Tail(list)
      BY SubSeqEmpty, TailIsSubSeq DEF RemoveAt
    <2> QED BY <2>1, ConcatEmptySeq, HeadTailProperties
  <1>2. /\ Tail(list) \in Seq(S) /\ Len(Tail(list)) = Len(list) - 1
        /\ \A i \in 1 .. Len(list) - 1 : Tail(list)[i] = list[i + 1]
    BY HeadTailProperties
  <1> DEFINE first == Append(before, list[1])
  <1>3. /\ first \in Seq(S) /\ Len(first) = Len(before) + 1
        /\ \A i \in 1 .. Len(before) : first[i] = before[i]
        /\ first[Len(before) + 1] = list[1]
    OBVIOUS
  <1> HIDE DEF first
  <1>4. /\ first \o Tail(list) \in Seq(S) /\ Len(first \o Tail(list)) = Len(before) + Len(list)
        /\ \A i \in 1 .. Len(before) + Len(list) :
             (first \o Tail(list))[i] =
               IF i <= Len(before) + 1 THEN first[i] ELSE Tail(list)[i - (Len(before) + 1)]
    <2>1. /\ first \o Tail(list) \in Seq(S)
          /\ Len(first \o Tail(list)) = Len(first) + Len(Tail(list))
          /\ \A i \in 1 .. Len(first) + Len(Tail(list)) :
               (first \o Tail(list))[i] =
                 IF i <= Len(first) THEN first[i] ELSE Tail(list)[i - Len(first)]
      BY <1>2, <1>3, ConcatProperties
    <2>2. Len(first) + Len(Tail(list)) = Len(before) + Len(list)
      BY <1>2, <1>3
    <2> QED BY <2>1, <2>2, <1>3
  <1>5. /\ before \o list \in Seq(S) /\ Len(before \o list) = Len(before) + Len(list)
        /\ \A i \in 1 .. Len(before) + Len(list) :
             (before \o list)[i] = IF i <= Len(before) THEN before[i] ELSE list[i - Len(before)]
    BY ConcatProperties
  <1>6. ASSUME NEW i \in 1 .. Len(before) + Len(list)
        PROVE  (first \o Tail(list))[i] = (before \o list)[i]
    <2>0. i <= Len(before) + 1 \/ i > Len(before) + 1
      BY LenProperties
    <2>1. CASE i <= Len(before) + 1
      BY <2>1, <1>3, <1>4, <1>5
    <2>2. CASE i > Len(before) + 1
      <3>1. i - (Len(before) + 1) \in 1 .. Len(list) - 1
        BY <2>2
      <3>2. Tail(list)[i - (Len(before) + 1)] = list[i - Len(before)]
        BY <3>1, <1>2
      <3>3. (first \o Tail(list))[i] = Tail(list)[i - (Len(before) + 1)]
        BY <2>2, <1>4
      <3>4. (before \o list)[i] = list[i - Len(before)]
        BY <2>2, <1>5
      <3> QED BY <3>2, <3>3, <3>4
    <2> QED BY <2>0, <2>1, <2>2, Zenon
  <1>7. first \o Tail(list) = before \o list
    BY <1>4, <1>5, <1>6, SeqEqual
  <1> QED BY <1>1, <1>2, <1>3, <1>7 DEF first

-----------------------------------------------------------------------------

LEMMA QueueIs ==
  ASSUME TypeOK
  PROVE  /\ Queue \in Seq(Subs) /\ Len(Queue) = Len(taken) + Len(tasks)
         /\ Len(taken) \in Nat /\ Len(tasks) \in Nat
         /\ \A i \in 1 .. Len(taken) + Len(tasks) :
              Queue[i] = IF i <= Len(taken) THEN taken[i] ELSE tasks[i - Len(taken)]
  BY ConcatProperties, LenProperties DEF TypeOK, Queue

\* The list is the rear of the queue.
LEMMA Behind ==
  ASSUME TypeOK, NEW k \in 1 .. Len(tasks)
  PROVE  Len(taken) + k \in 1 .. Len(Queue) /\ Queue[Len(taken) + k] = tasks[k]
  <1>1. /\ Len(taken) \in Nat /\ Len(tasks) \in Nat
        /\ Len(Queue) = Len(taken) + Len(tasks)
    BY QueueIs
  <1> DEFINE i == Len(taken) + k
  <1>2. i \in 1 .. Len(taken) + Len(tasks) /\ ~(i <= Len(taken)) /\ i - Len(taken) = k
    BY <1>1
  <1> HIDE DEF i
  <1>3. Queue[i] = tasks[k]
    BY <1>2, QueueIs
  <1> QED BY <1>1, <1>2, <1>3 DEF i

LEMMA SubsAre == ASSUME SubsOK PROVE Subs = 1 .. Len(subs) /\ Len(subs) \in Nat
  BY DEF SubsOK, Subs

LEMMA InitInv == Init => IInv
  <1> SUFFICES ASSUME Init PROVE IInv
    OBVIOUS
  <1>1. subs = <<>> /\ tasks = <<>> /\ taken = <<>> /\ ran = {}
    BY DEF Init
  <1>2. SubsOK /\ Subs = {}
    BY <1>1 DEF SubsOK, Subs
  <1>3. TypeOK
    BY <1>1, <1>2, EmptySeq DEF Init, TypeOK
  <1>4. Len(Queue) = 0
    BY <1>1, <1>3, QueueIs
  <1> QED BY <1>1, <1>2, <1>3, <1>4 DEF IInv, Once, Queued, Beside

\* A submission takes the place p of the queue.
LEMMA Grown ==
  ASSUME IInv, NEW r \in Submission, subs' = Append(subs, r),
         NEW p \in 1 .. Len(Queue) + 1, Len(Queue)' = Len(Queue) + 1,
         \A i \in 1 .. Len(Queue) + 1 :
           Queue'[i] = IF i < p THEN Queue[i]
                       ELSE IF i = p THEN Len(subs) + 1 ELSE Queue[i - 1],
         r.anchor # 0 => \E i \in 1 .. Len(Queue) :
           Queue[i] = r.anchor /\ IF r.after THEN i < p ELSE p <= i
  PROVE  Once' /\ Queued' /\ Beside'
  <1> DEFINE n == Len(subs) + 1
             Moved(i) == IF i < p THEN i ELSE i + 1
  <1>1. /\ Len(subs) \in Nat /\ Subs = 1 .. Len(subs)
        /\ Len(Queue) \in Nat /\ \A i \in 1 .. Len(Queue) : Queue[i] \in Subs
    BY QueueIs, SubsAre, LenProperties, ElementOfSeq DEF IInv
  <1>2. /\ Subs' = 1 .. n /\ subs'[n] = r
        /\ \A s \in Subs : subs'[s] = subs[s]
    BY <1>1 DEF Subs, IInv, SubsOK
  <1>3. \A i \in 1 .. Len(Queue) :
          Moved(i) \in 1 .. Len(Queue) + 1 /\ Moved(i) # p /\ Queue'[Moved(i)] = Queue[i]
    BY <1>1
  <1>4. \A i, j \in 1 .. Len(Queue) : i < j => Moved(i) < Moved(j)
    BY <1>1
  <1>5. Queue'[p] = n /\ n \notin Subs
    BY <1>1
  <1>6. \A i \in 1 .. Len(Queue) + 1 : i # p =>
          \E k \in 1 .. Len(Queue) : i = Moved(k) /\ Queue'[i] = Queue[k]
    <2> SUFFICES ASSUME NEW i \in 1 .. Len(Queue) + 1, i # p
                 PROVE  \E k \in 1 .. Len(Queue) : i = Moved(k) /\ Queue'[i] = Queue[k]
      OBVIOUS
    <2>1. CASE i < p
      BY <2>1, <1>1
    <2>2. CASE i > p
      <3>1. i - 1 \in 1 .. Len(Queue) /\ Moved(i - 1) = i /\ Queue'[i] = Queue[i - 1]
        BY <2>2, <1>1
      <3> QED BY <3>1
    <2> QED BY <2>1, <2>2, <1>1
  <1> HIDE DEF Moved
  <1>7. Once'
    <2> SUFFICES ASSUME NEW i \in 1 .. Len(Queue) + 1, NEW j \in 1 .. Len(Queue) + 1,
                        Queue'[i] = Queue'[j]
                 PROVE  i = j
      BY DEF Once
    <2>1. CASE i = p /\ j # p
      BY <2>1, <1>1, <1>5, <1>6
    <2>2. CASE i # p /\ j = p
      BY <2>2, <1>1, <1>5, <1>6
    <2>3. CASE i # p /\ j # p
      <3>1. PICK k \in 1 .. Len(Queue) : i = Moved(k) /\ Queue'[i] = Queue[k]
        BY <2>3, <1>6
      <3>2. PICK l \in 1 .. Len(Queue) : j = Moved(l) /\ Queue'[j] = Queue[l]
        BY <2>3, <1>6
      <3>3. k = l
        BY <3>1, <3>2 DEF IInv, Once
      <3> QED BY <3>1, <3>2, <3>3
    <2> QED BY <2>1, <2>2, <2>3
  <1>8. Queued'
    <2> SUFFICES ASSUME NEW s \in 1 .. n, subs'[s].exe = subs'[s].ref \/ subs'[s].anchor # 0
                 PROVE  \E i \in 1 .. Len(Queue) + 1 : Queue'[i] = s
      BY <1>2 DEF Queued
    <2>1. CASE s = n
      BY <2>1, <1>5
    <2>2. CASE s # n
      <3>1. s \in Subs
        BY <2>2, <1>1
      <3>2. PICK i \in 1 .. Len(Queue) : Queue[i] = s
        BY <3>1, <1>2 DEF IInv, Queued
      <3> QED BY <3>2, <1>3
    <2> QED BY <2>1, <2>2
  <1>9. Beside'
    <2> SUFFICES ASSUME NEW s \in 1 .. n, subs'[s].anchor # 0
                 PROVE  \E i, j \in 1 .. Len(Queue) + 1 :
                          /\ Queue'[i] = subs'[s].anchor /\ Queue'[j] = s
                          /\ IF subs'[s].after THEN i < j ELSE j < i
      BY <1>2 DEF Beside
    <2>1. CASE s = n
      <3>1. PICK i \in 1 .. Len(Queue) :
              Queue[i] = r.anchor /\ IF r.after THEN i < p ELSE p <= i
        BY <2>1, <1>2
      <3>2. IF r.after THEN Moved(i) < p ELSE p < Moved(i)
        BY <3>1, <1>1 DEF Moved
      <3> QED BY <2>1, <3>1, <3>2, <1>2, <1>3, <1>5
    <2>2. CASE s # n
      <3>1. s \in Subs
        BY <2>2, <1>1
      <3>2. PICK i \in 1 .. Len(Queue), j \in 1 .. Len(Queue) :
              /\ Queue[i] = subs[s].anchor /\ Queue[j] = s
              /\ IF subs[s].after THEN i < j ELSE j < i
        BY <3>1, <2>2, <1>2 DEF IInv, Beside
      <3>3. IF subs[s].after THEN Moved(i) < Moved(j) ELSE Moved(j) < Moved(i)
        BY <3>2, <1>4
      <3> QED BY <3>1, <3>2, <3>3, <1>2, <1>3
    <2> QED BY <2>1, <2>2
  <1> QED BY <1>7, <1>8, <1>9

\* What a step that leaves the submissions and the queue keeps.
LEMMA Kept ==
  ASSUME IInv, subs' = subs, Queue' = Queue PROVE SubsOK' /\ Once' /\ Queued' /\ Beside'
  BY DEF IInv, SubsOK, Once, Queued, Beside, Subs

\* A new submission keeps the old ones, whose types it is added to.
LEMMA Accepted ==
  ASSUME IInv, NEW e \in Exe, NEW ref \in Exe, NEW after \in BOOLEAN,
         NEW anchor \in 0 .. Len(subs), Accept(e, ref, after, anchor),
         UNCHANGED <<kind, alive, triggering, ret, taken, ran>>, tasks' \in Seq(Subs')
  PROVE  TypeOK' /\ SubsOK'
  <1> DEFINE r == [exe |-> e, ref |-> ref, after |-> after, anchor |-> anchor]
  <1>1. subs \in Seq(Submission) /\ Len(subs) \in Nat /\ Subs = 1 .. Len(subs)
    BY SubsAre DEF IInv, SubsOK
  <1>2. r \in Submission
    BY <1>1 DEF Submission
  <1>3. subs' = Append(subs, r)
    BY DEF Accept
  <1>4. SubsOK'
    BY <1>1, <1>2, <1>3 DEF SubsOK
  <1>5. /\ Subs' = 1 .. Len(subs) + 1 /\ subs'[Len(subs) + 1] = r
        /\ \A s \in Subs : subs'[s] = subs[s]
    BY <1>1, <1>2, <1>3 DEF Subs
  <1>6. Subs \subseteq Subs'
    BY <1>1, <1>5
  <1>7. taken' \in Seq(Subs')
    BY <1>6, SeqMonotonic DEF IInv, TypeOK
  <1>8. ASSUME NEW s \in Subs'
        PROVE  /\ subs'[s].exe \in Exe /\ subs'[s].ref \in Exe
               /\ subs'[s].after \in BOOLEAN /\ subs'[s].anchor \in 0 .. s - 1
    <2>1. CASE s = Len(subs) + 1
      BY <2>1, <1>1, <1>5
    <2>2. CASE s \in Subs
      BY <2>2, <1>5 DEF IInv, TypeOK
    <2> QED BY <2>1, <2>2, <1>1, <1>5
  <1> QED BY <1>4, <1>6, <1>7, <1>8 DEF IInv, TypeOK

\* A submission takes the place q of the list.
LEMMA Put ==
  ASSUME IInv, NEW e \in Exe, NEW ref \in Exe, NEW after \in BOOLEAN,
         NEW anchor \in 0 .. Len(subs), Accept(e, ref, after, anchor),
         UNCHANGED <<kind, alive, triggering, ret, taken, ran>>,
         NEW q \in 1 .. Len(tasks) + 1,
         tasks' \in Seq(1 .. Len(subs) + 1), Len(tasks') = Len(tasks) + 1,
         \A i \in 1 .. Len(tasks) + 1 :
           tasks'[i] = IF i < q THEN tasks[i]
                       ELSE IF i = q THEN Len(subs) + 1 ELSE tasks[i - 1],
         anchor # 0 => \E k \in 1 .. Len(tasks) :
           tasks[k] = anchor /\ IF after THEN k < q ELSE q <= k
  PROVE  IInv'
  <1> DEFINE r == [exe |-> e, ref |-> ref, after |-> after, anchor |-> anchor]
             p == Len(taken) + q
  <1>1. subs \in Seq(Submission) /\ Len(subs) \in Nat
    BY SubsAre DEF IInv, SubsOK
  <1>2. r \in Submission /\ subs' = Append(subs, r)
    BY <1>1 DEF Submission, Accept
  <1>3. Subs' = 1 .. Len(subs) + 1
    BY <1>1, <1>2 DEF Subs
  <1>4. TypeOK' /\ SubsOK'
    BY <1>3, Accepted
  <1>5. /\ Len(Queue) = Len(taken) + Len(tasks)
        /\ Len(taken) \in Nat /\ Len(tasks) \in Nat
        /\ \A i \in 1 .. Len(taken) + Len(tasks) :
             Queue[i] = IF i <= Len(taken) THEN taken[i] ELSE tasks[i - Len(taken)]
    BY QueueIs DEF IInv
  <1>6. /\ Len(Queue)' = Len(taken) + Len(tasks) + 1
        /\ \A i \in 1 .. Len(taken) + (Len(tasks) + 1) :
             Queue'[i] = IF i <= Len(taken) THEN taken[i] ELSE tasks'[i - Len(taken)]
    <2>1. /\ Len(Queue)' = Len(taken') + Len(tasks')
          /\ \A i \in 1 .. Len(taken') + Len(tasks') :
               Queue'[i] = IF i <= Len(taken') THEN taken'[i] ELSE tasks'[i - Len(taken')]
      <3>1. taken' \in Seq(Subs') /\ tasks' \in Seq(Subs') /\ Queue' = taken' \o tasks'
        BY <1>4 DEF TypeOK, Queue
      <3> DEFINE a == taken' b == tasks' U == Subs'
      <3>2. a \in Seq(U) /\ b \in Seq(U)
        BY <3>1
      <3> HIDE DEF a, b, U
      <3>3. /\ Len(a \o b) = Len(a) + Len(b)
            /\ \A i \in 1 .. Len(a) + Len(b) :
                 (a \o b)[i] = IF i <= Len(a) THEN a[i] ELSE b[i - Len(a)]
        BY <3>2, ConcatProperties
      <3> QED BY <3>1, <3>3 DEF a, b
    <2> QED BY <2>1, <1>5
  <1>7. ASSUME NEW i \in 1 .. Len(Queue) + 1
        PROVE  Queue'[i] = IF i < p THEN Queue[i]
                           ELSE IF i = p THEN Len(subs) + 1 ELSE Queue[i - 1]
    <2>1. CASE i <= Len(taken)
      <3>1. /\ i \in 1 .. Len(taken) + Len(tasks)
            /\ i \in 1 .. Len(taken) + (Len(tasks) + 1) /\ i < p
        BY <2>1, <1>5
      <3>2. Queue[i] = taken[i] /\ Queue'[i] = taken[i]
        BY <3>1, <2>1, <1>5, <1>6
      <3> QED BY <3>1, <3>2
    <2>2. CASE i > Len(taken)
      <3> DEFINE j == i - Len(taken)
      <3>1. /\ j \in 1 .. Len(tasks) + 1 /\ i = Len(taken) + j
            /\ i \in 1 .. Len(taken) + (Len(tasks) + 1) /\ ~(i <= Len(taken))
        BY <2>2, <1>5
      <3>2. Queue'[i] = tasks'[j]
        BY <3>1, <1>6
      <3> HIDE DEF j
      <3>3. CASE j < q
        <4>1. j \in 1 .. Len(tasks)
          BY <3>1, <3>3, <1>5
        <4>2. Queue[i] = tasks[j]
          BY <4>1, <3>1, Behind DEF IInv
        <4>3. tasks'[j] = tasks[j] /\ i < p
          BY <3>1, <3>3, <1>5
        <4> QED BY <4>2, <4>3, <3>2
      <3>4. CASE j = q
        <4>1. tasks'[j] = Len(subs) + 1 /\ i = p
          BY <3>1, <3>4, <1>5
        <4>2. ~(i < p)
          BY <4>1, <1>5
        <4> QED BY <4>1, <4>2, <3>2
      <3>5. CASE j > q
        <4>1. j - 1 \in 1 .. Len(tasks) /\ Len(taken) + (j - 1) = i - 1
          BY <3>5, <3>1, <1>5
        <4>2. Queue[i - 1] = tasks[j - 1]
          BY <4>1, Behind DEF IInv
        <4>3. tasks'[j] = tasks[j - 1]
          BY <3>1, <3>5, <1>5
        <4>4. ~(i < p) /\ i # p
          <5>1. j \in Nat /\ q \in Nat /\ Len(taken) \in Nat
            BY <3>1, <1>5
          <5>2. ~(Len(taken) + j < Len(taken) + q) /\ Len(taken) + j # Len(taken) + q
            BY <5>1, <3>5, Shifted, Zenon
          <5> QED BY <5>2, <3>1, Zenon
        <4> QED BY <4>2, <4>3, <4>4, <3>2
      <3>6. j < q \/ j = q \/ j > q
        BY <3>1, <1>5
      <3> QED BY <3>3, <3>4, <3>5, <3>6
    <2>3. i <= Len(taken) \/ i > Len(taken)
      BY <1>5
    <2> QED BY <2>1, <2>2, <2>3
  <1>8. ASSUME anchor # 0
        PROVE  \E i \in 1 .. Len(Queue) :
                 Queue[i] = anchor /\ IF after THEN i < p ELSE p <= i
    <2>1. PICK k \in 1 .. Len(tasks) : tasks[k] = anchor /\ IF after THEN k < q ELSE q <= k
      BY <1>8
    <2>2. Len(taken) + k \in 1 .. Len(Queue) /\ Queue[Len(taken) + k] = tasks[k]
      BY Behind DEF IInv
    <2>3. IF after THEN Len(taken) + k < p ELSE p <= Len(taken) + k
      BY <2>1, <1>5
    <2> QED BY <2>1, <2>2, <2>3
  <1>9. p \in 1 .. Len(Queue) + 1 /\ Len(Queue)' = Len(Queue) + 1
    BY <1>5, <1>6
  <1>10. r.anchor = anchor /\ r.after = after
    OBVIOUS
  <1> HIDE DEF r, p
  <1>11. Once' /\ Queued' /\ Beside'
    BY <1>2, <1>7, <1>8, <1>9, <1>10, Grown
  <1> QED BY <1>4, <1>11 DEF IInv

LEMMA SubmitInv ==
  ASSUME IInv, NEW e \in Exe, NEW ref \in Exe, NEW after \in BOOLEAN, Submit(e, ref, after)
  PROVE  IInv'
  <1>1. /\ Len(subs) \in Nat /\ Subs = 1 .. Len(subs)
        /\ tasks \in Seq(Subs) /\ Len(tasks) \in Nat /\ DOMAIN tasks = 1 .. Len(tasks)
    BY SubsAre, LenProperties DEF IInv, TypeOK
  <1>2. tasks \in Seq(1 .. Len(subs) + 1) /\ Len(subs) + 1 \in 1 .. Len(subs) + 1
    <2>1. Subs \subseteq 1 .. Len(subs) + 1
      BY <1>1
    <2> QED BY <2>1, <1>1, SeqMonotonic
  <1>3. UNCHANGED <<kind, alive, triggering, ret, taken, ran>>
    BY DEF Submit
  <1>4. CASE tasks' = Append(tasks, Len(subs) + 1) /\ Accept(e, ref, after, 0)
    <2>1. /\ tasks' \in Seq(1 .. Len(subs) + 1) /\ Len(tasks') = Len(tasks) + 1
          /\ \A i \in 1 .. Len(tasks) + 1 :
               tasks'[i] = IF i < Len(tasks) + 1 THEN tasks[i]
                           ELSE IF i = Len(tasks) + 1 THEN Len(subs) + 1 ELSE tasks[i - 1]
      BY <1>1, <1>2, <1>4
    <2>2. 0 \in 0 .. Len(subs) /\ Len(tasks) + 1 \in 1 .. Len(tasks) + 1
      BY <1>1
    <2> DEFINE q == Len(tasks) + 1
    <2>3. q \in 1 .. Len(tasks) + 1
      BY <2>2
    <2> QED BY <1>3, <1>4, <2>1, <2>2, <2>3, Put
  <1>5. CASE /\ Places(ref) # {}
             /\ LET i == Min(Places(ref)) IN
                  /\ tasks' = InsertAt(tasks, NextTo(i, after), Len(subs) + 1)
                  /\ Accept(e, ref, after, tasks[i])
    <2> DEFINE i == Min(Places(ref))
               q == NextTo(i, after)
    <2>1. i \in 1 .. Len(tasks)
      <3>1. Places(ref) \subseteq 1 .. Len(tasks)
        BY <1>1 DEF Places
      <3>2. Places(ref) \in SUBSET Nat
        BY <3>1
      <3> QED BY <3>1, <3>2, <1>5, MinIsIn
    <2>2. tasks' = InsertAt(tasks, q, Len(subs) + 1) /\ Accept(e, ref, after, tasks[i])
      BY <1>5
    <2> HIDE DEF i
    <2>3. q \in 1 .. Len(tasks) + 1 /\ IF after THEN i < q ELSE q <= i
      BY <2>1, <1>1 DEF NextTo
    <2>4. tasks[i] \in 0 .. Len(subs)
      BY <2>1, <1>1, ElementOfSeq
    <2> HIDE DEF q
    <2>5. /\ tasks' \in Seq(1 .. Len(subs) + 1) /\ Len(tasks') = Len(tasks) + 1
          /\ \A k \in 1 .. Len(tasks) + 1 :
               tasks'[k] = IF k < q THEN tasks[k]
                           ELSE IF k = q THEN Len(subs) + 1 ELSE tasks[k - 1]
      <3> DEFINE n == Len(subs) + 1
                 T == 1 .. n
      <3>1. tasks \in Seq(T) /\ n \in T /\ tasks' = InsertAt(tasks, q, n)
        BY <1>2, <2>2
      <3> HIDE DEF n, T
      <3>2. InsertAt(tasks, q, n) \in Seq(T) /\ Len(InsertAt(tasks, q, n)) = Len(tasks) + 1
        BY <2>3, <3>1, Inserted
      <3>3. ASSUME NEW k \in 1 .. Len(tasks) + 1
            PROVE  InsertAt(tasks, q, n)[k] = IF k < q THEN tasks[k]
                                              ELSE IF k = q THEN n ELSE tasks[k - 1]
        <4>1. /\ k < q => InsertAt(tasks, q, n)[k] = tasks[k]
              /\ k = q => InsertAt(tasks, q, n)[k] = n
              /\ k > q => InsertAt(tasks, q, n)[k] = tasks[k - 1]
          BY <2>3, <3>1, InsertedAt
        <4>2. k < q \/ k = q \/ k > q
          BY <1>1, <2>3
        <4>3. CASE k < q
          BY <4>1, <4>3
        <4>4. CASE k = q
          BY <1>1, <2>3, <4>1, <4>4
        <4>5. CASE k > q
          BY <1>1, <2>3, <4>1, <4>5
        <4> QED BY <4>2, <4>3, <4>4, <4>5
      <3> QED BY <3>1, <3>2, <3>3 DEF n, T
    <2> DEFINE anchor == tasks[i]
    <2>6. \E k \in 1 .. Len(tasks) : tasks[k] = anchor /\ IF after THEN k < q ELSE q <= k
      BY <2>1, <2>3
    <2>7. anchor \in 0 .. Len(subs) /\ Accept(e, ref, after, anchor)
      BY <2>2, <2>4
    <2> HIDE DEF anchor
    <2> QED BY <1>3, <2>3, <2>5, <2>6, <2>7, Put
  <1>6. CASE e # ref /\ UNCHANGED tasks /\ Accept(e, ref, after, 0)
    <2> DEFINE r == [exe |-> e, ref |-> ref, after |-> after, anchor |-> 0]
    <2>1. subs' = Append(subs, r)
      BY <1>6 DEF Accept
    <2>2. /\ Subs' = 1 .. Len(subs) + 1 /\ subs'[Len(subs) + 1] = r
          /\ \A s \in Subs : subs'[s] = subs[s]
      BY <2>1, <1>1 DEF Subs, IInv, SubsOK
    <2>3. TypeOK' /\ SubsOK'
      BY <1>1, <1>2, <1>3, <1>6, <2>2, Accepted
    <2>4. Queue' = Queue
      BY <1>3, <1>6 DEF Queue
    <2>5. Once'
      BY <2>4 DEF IInv, Once
    <2>6. Queued'
      <3> SUFFICES ASSUME NEW s \in Subs', subs'[s].exe = subs'[s].ref \/ subs'[s].anchor # 0
                   PROVE  \E i \in 1 .. Len(Queue) : Queue[i] = s
        BY <2>4 DEF Queued
      <3>1. s \in Subs
        BY <2>2, <1>6, <1>1
      <3> QED BY <3>1, <2>2 DEF IInv, Queued
    <2>7. Beside'
      <3> SUFFICES ASSUME NEW s \in Subs', subs'[s].anchor # 0
                   PROVE  \E i, j \in 1 .. Len(Queue) :
                            /\ Queue[i] = subs'[s].anchor /\ Queue[j] = s
                            /\ IF subs'[s].after THEN i < j ELSE j < i
        BY <2>4 DEF Beside
      <3>1. s \in Subs
        BY <2>2, <1>1
      <3> QED BY <3>1, <2>2 DEF IInv, Beside
    <2> QED BY <1>3, <2>3, <2>5, <2>6, <2>7 DEF IInv
  <1> QED BY <1>4, <1>5, <1>6 DEF Submit

\* The first task moves from the list to those taken.
LEMMA TakenFrom ==
  ASSUME IInv, tasks # <<>>, tasks' = RemoveAt(tasks, 1), taken' = Append(taken, tasks[1]),
         UNCHANGED <<kind, alive, subs>>, triggering' \in BOOLEAN, ret' \in {"true", "false"},
         ran' \subseteq ran \cup {tasks[1]}
  PROVE  IInv'
  <1>1. /\ tasks \in Seq(Subs) /\ taken \in Seq(Subs) /\ Subs' = Subs
        /\ tasks[1] \in Subs
    BY ElementOfSeq DEF IInv, TypeOK, Subs
  <1>2. tasks' \in Seq(Subs) /\ taken' \in Seq(Subs) /\ Queue' = Queue
    <2>1. /\ RemoveAt(tasks, 1) \in Seq(Subs) /\ Append(taken, tasks[1]) \in Seq(Subs)
          /\ Append(taken, tasks[1]) \o RemoveAt(tasks, 1) = taken \o tasks
      BY <1>1, Requeued
    <2> QED BY <2>1, Zenon DEF Queue
  <1>3. ran' \subseteq ToSet(taken')
    <2>1. /\ Len(taken) \in Nat /\ DOMAIN taken = 1 .. Len(taken)
          /\ DOMAIN taken' = 1 .. Len(taken) + 1 /\ taken'[Len(taken) + 1] = tasks[1]
          /\ \A i \in 1 .. Len(taken) : taken'[i] = taken[i]
      BY <1>1, LenProperties
    <2> SUFFICES ASSUME NEW s \in ran' PROVE \E i \in 1 .. Len(taken) + 1 : taken'[i] = s
      BY <2>1 DEF ToSet
    <2>2. CASE s = tasks[1]
      BY <2>1, <2>2
    <2>3. CASE s \in ran
      <3>1. PICK i \in 1 .. Len(taken) : taken[i] = s
        BY <2>1, <2>3 DEF IInv, ToSet
      <3>2. i \in 1 .. Len(taken) + 1
        BY <2>1
      <3> QED BY <3>1, <3>2, <2>1
    <2> QED BY <2>2, <2>3
  <1>4. ran' \subseteq Subs'
    BY <1>1 DEF IInv, TypeOK
  <1>5. TypeOK'
    BY <1>1, <1>2, <1>4 DEF IInv, TypeOK
  <1> QED BY <1>2, <1>3, <1>5, Kept DEF IInv

LEMMA NextInv == IInv /\ [Next]_execVars => IInv'
  <1> SUFFICES ASSUME IInv, [Next]_execVars PROVE IInv'
    OBVIOUS
  <1>1. ASSUME NEW e \in Exe, NEW ref \in Exe, NEW after \in BOOLEAN, Submit(e, ref, after)
        PROVE  IInv'
    BY <1>1, SubmitInv
  <1>2. CASE RunTask
    <2>1. ret' \in {"true", "false"}
      BY <1>2 DEF RunTask
    <2>2. /\ tasks # <<>> /\ tasks' = RemoveAt(tasks, 1) /\ taken' = Append(taken, tasks[1])
          /\ UNCHANGED <<kind, alive, triggering, subs>> /\ ran' = ran \cup {tasks[1]}
      BY <1>2 DEF RunTask, TakeTask, Taken
    <2>3. triggering' \in BOOLEAN
      BY <2>2 DEF IInv, TypeOK
    <2> QED BY <2>1, <2>2, <2>3, TakenFrom
  <1>3. CASE DeadTask
    <2>1. /\ tasks # <<>> /\ tasks' = RemoveAt(tasks, 1) /\ taken' = Append(taken, tasks[1])
          /\ triggering' = FALSE /\ ret' = "false" /\ UNCHANGED <<kind, alive, subs, ran>>
      BY <1>3 DEF DeadTask, AfterDeadTask, Taken
    <2> QED BY <2>1, TakenFrom
  <1>4. ASSUME UNCHANGED <<kind, tasks, subs, taken, ran>>, alive' \subseteq alive,
               triggering' \in BOOLEAN, ret' \in {"true", "false"}
        PROVE  IInv'
    <2>1. Queue' = Queue
      BY <1>4 DEF Queue
    <2>2. TypeOK'
      BY <1>4 DEF IInv, TypeOK, Subs
    <2> QED BY <1>4, <2>1, <2>2, Kept DEF IInv
  <1>5. CASE StartTrigger
    <2>1. ret' \in {"true", "false"}
      BY <1>5 DEF StartTrigger, InitialRet
    <2> QED BY <1>4, <1>5, <2>1 DEF StartTrigger
  <1>6. CASE EndTrigger
    BY <1>4, <1>6 DEF EndTrigger, IInv, TypeOK
  <1>7. ASSUME NEW e \in Exe, GiveUp(e)
        PROVE  IInv'
    BY <1>4, <1>7 DEF GiveUp, IInv, TypeOK
  <1>8. CASE UNCHANGED execVars
    BY <1>4, <1>8 DEF execVars, IInv, TypeOK
  <1> QED BY <1>1, <1>2, <1>3, <1>5, <1>6, <1>7, <1>8 DEF Next

\* The order of the queue, its types, and that the executables that ran have been taken, hold
\* in every state.
THEOREM Invariance == Spec => []IInv
  BY InitInv, NextInv, PTL DEF Spec

\* The list and the tasks taken name accepted submissions only, and a submission was put
\* next to an older one.
THEOREM TypeCorrect == Spec => []TypeOK
  <1>1. IInv => TypeOK
    BY DEF IInv
  <1> QED BY <1>1, Invariance, PTL

\* Every submission that found its place waits once or has been taken once, whatever other
\* threads submit before and behind it, and however triggers end.
THEOREM EachQueuedOnce == Spec => []QueuedOnce
  <1>1. IInv => QueuedOnce
    <2> SUFFICES ASSUME IInv PROVE QueuedOnce
      OBVIOUS
    <2>1. taken \in Seq(Subs) /\ tasks \in Seq(Subs)
      BY DEF IInv, TypeOK
    <2> DEFINE all == tasks \o taken
               Place(i) == IF i <= Len(tasks) THEN Len(taken) + i ELSE i - Len(tasks)
    <2>2. /\ Len(all) = Len(tasks) + Len(taken) /\ DOMAIN all = 1 .. Len(tasks) + Len(taken)
          /\ Len(tasks) \in Nat /\ Len(taken) \in Nat
          /\ \A i \in 1 .. Len(tasks) + Len(taken) :
               all[i] = IF i <= Len(tasks) THEN tasks[i] ELSE taken[i - Len(tasks)]
      BY <2>1, ConcatProperties, LenProperties
    <2> HIDE DEF all
    <2>3. ASSUME NEW i \in 1 .. Len(all)
          PROVE  Place(i) \in 1 .. Len(Queue) /\ Queue[Place(i)] = all[i]
      <3>1. CASE i <= Len(tasks)
        <4>1. i \in 1 .. Len(tasks)
          BY <3>1, <2>2
        <4> QED BY <4>1, <3>1, <2>2, Behind DEF IInv
      <3>2. CASE ~(i <= Len(tasks))
        <4>1. i - Len(tasks) \in 1 .. Len(taken)
          BY <3>2, <2>2
        <4>2. /\ i - Len(tasks) \in 1 .. Len(taken) + Len(tasks)
              /\ i - Len(tasks) <= Len(taken)
          BY <4>1, <2>2
        <4>3. Queue[i - Len(tasks)] = taken[i - Len(tasks)]
          BY <4>2, QueueIs DEF IInv
        <4>4. Len(Queue) = Len(taken) + Len(tasks)
          BY QueueIs DEF IInv
        <4> QED BY <3>2, <4>2, <4>3, <4>4, <2>2
      <3> QED BY <3>1, <3>2
    <2>4. ASSUME NEW i \in 1 .. Len(Queue)
          PROVE  \E k \in 1 .. Len(all) : Place(k) = i
      <3>1. Len(Queue) = Len(taken) + Len(tasks)
        BY QueueIs DEF IInv
      <3>2. CASE i <= Len(taken)
        <4>1. i + Len(tasks) \in 1 .. Len(all) /\ Place(i + Len(tasks)) = i
          BY <3>1, <3>2, <2>2
        <4> QED BY <4>1
      <3>3. CASE ~(i <= Len(taken))
        <4>1. i - Len(taken) \in 1 .. Len(all) /\ Place(i - Len(taken)) = i
          BY <3>1, <3>3, <2>2
        <4> QED BY <4>1
      <3> QED BY <3>2, <3>3
    <2>5. ASSUME NEW a \in 1 .. Len(all), NEW b \in 1 .. Len(all), Place(a) = Place(b)
          PROVE  a = b
      BY <2>2, <2>5
    <2> HIDE DEF Place
    <2>6. IsInjective(all)
      <3> SUFFICES ASSUME NEW a \in 1 .. Len(all), NEW b \in 1 .. Len(all), all[a] = all[b]
                   PROVE  a = b
        BY <2>2 DEF IsInjective
      <3>1. Place(a) = Place(b)
        BY <2>3 DEF IInv, Once
      <3> QED BY <3>1, <2>5
    <2>7. ASSUME NEW s \in Subs, subs[s].exe = subs[s].ref \/ subs[s].anchor # 0
          PROVE  Contains(all, s)
      <3>1. PICK i \in 1 .. Len(Queue) : Queue[i] = s
        BY <2>7 DEF IInv, Queued
      <3>2. PICK k \in 1 .. Len(all) : Place(k) = i
        BY <2>4
      <3> QED BY <3>1, <3>2, <2>3 DEF Contains
    <2> QED BY <2>6, <2>7 DEF IInv, QueuedOnce, all
  <1> QED BY <1>1, Invariance, PTL

\* What Trigger has taken is a front of the queue: a task that has been taken follows the
\* one it was submitted after, and is followed by the one it was submitted before.
THEOREM OrderIsKept == Spec => []InRequestedOrder
  <1>1. IInv => InRequestedOrder
    <2> SUFFICES ASSUME IInv, NEW s \in Subs, subs[s].anchor # 0
                 PROVE  /\ subs[s].after /\ Contains(taken, s) => TakenBefore(subs[s].anchor, s)
                        /\ ~subs[s].after /\ Contains(taken, subs[s].anchor)
                             => TakenBefore(s, subs[s].anchor)
      BY DEF InRequestedOrder
    <2>1. /\ Len(taken) \in Nat /\ DOMAIN taken = 1 .. Len(taken)
          /\ \A i \in 1 .. Len(taken) : i \in 1 .. Len(Queue) /\ Queue[i] = taken[i]
      <3>1. /\ Len(Queue) = Len(taken) + Len(tasks)
            /\ Len(taken) \in Nat /\ Len(tasks) \in Nat
            /\ \A i \in 1 .. Len(taken) + Len(tasks) :
                 Queue[i] = IF i <= Len(taken) THEN taken[i] ELSE tasks[i - Len(taken)]
        BY QueueIs DEF IInv
      <3>2. DOMAIN taken = 1 .. Len(taken)
        BY LenProperties DEF IInv, TypeOK
      <3>3. ASSUME NEW i \in 1 .. Len(taken)
            PROVE  i \in 1 .. Len(Queue) /\ Queue[i] = taken[i]
        BY <3>1
      <3> QED BY <3>1, <3>2, <3>3
    <2>2. PICK i \in 1 .. Len(Queue), j \in 1 .. Len(Queue) :
            /\ Queue[i] = subs[s].anchor /\ Queue[j] = s
            /\ IF subs[s].after THEN i < j ELSE j < i
      BY DEF IInv, Beside
    <2>3. ASSUME NEW k \in 1 .. Len(Queue), NEW l \in 1 .. Len(Queue), k < l,
                 Contains(taken, Queue[l])
          PROVE  TakenBefore(Queue[k], Queue[l])
      <3>1. PICK m \in 1 .. Len(taken) : taken[m] = Queue[l]
        BY <2>3 DEF Contains
      <3>2. m = l
        BY <3>1, <2>1 DEF IInv, Once
      <3>3. k \in 1 .. Len(taken) /\ taken[k] = Queue[k]
        BY <3>2, <2>1, <2>3
      <3>4. ASSUME NEW n \in 1 .. k - 1 PROVE taken[n] # Queue[l]
        <4>1. n \in 1 .. Len(taken) /\ n # l
          BY <3>3, <2>1, <2>3
        <4> QED BY <4>1, <2>1 DEF IInv, Once
      <3> QED BY <3>3, <3>4, <2>1 DEF TakenBefore
    <2> QED BY <2>2, <2>3
  <1> QED BY <1>1, Invariance, PTL
====
