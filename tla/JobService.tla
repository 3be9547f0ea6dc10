---- MODULE JobService ----
(***************************************************************************)
(* What vip::Device promises to its users, without threads, locks or       *)
(* condition variables: jobs start in the order in which they were         *)
(* accepted, each at most once, at most Slots at a time; a job that has    *)
(* not started can be removed, the last one of its graph first; and the    *)
(* service closes only when every job accepted before the close was asked  *)
(* for has finished or was removed.                                        *)
(***************************************************************************)
EXTENDS Integers, Sequences, FiniteSets

CONSTANTS Job, Graph, GraphOf, Slots

VARIABLES pending, running, done, dropped, due, phase

serviceVars == <<pending, running, done, dropped, due, phase>>

Pending == {pending[i] : i \in DOMAIN pending}

ServiceInit ==
  /\ pending = <<>> /\ running = {} /\ done = {} /\ dropped = {}
  /\ due = {} /\ phase = "open"

Accept(j) ==
  /\ j \notin Pending \cup running \cup done \cup dropped
  /\ pending' = Append(pending, j)
  /\ UNCHANGED <<running, done, dropped, due, phase>>

Start ==
  /\ phase # "closed" /\ pending # <<>> /\ Cardinality(running) < Slots
  /\ running' = running \cup {Head(pending)}
  /\ pending' = Tail(pending)
  /\ UNCHANGED <<done, dropped, due, phase>>

Finish(j) ==
  /\ j \in running
  /\ running' = running \ {j} /\ done' = done \cup {j}
  /\ UNCHANGED <<pending, dropped, due, phase>>

Drop(i) ==
  /\ i \in DOMAIN pending
  /\ \A k \in DOMAIN pending : GraphOf[pending[k]] = GraphOf[pending[i]] => k <= i
  /\ pending' = SubSeq(pending, 1, i - 1) \o SubSeq(pending, i + 1, Len(pending))
  /\ dropped' = dropped \cup {pending[i]}
  /\ UNCHANGED <<running, done, due, phase>>

AskClose ==
  /\ phase = "open"
  /\ phase' = "closing" /\ due' = Pending \cup running
  /\ UNCHANGED <<pending, running, done, dropped>>

Close ==
  /\ phase = "closing" /\ running = {}
  /\ due \subseteq done \cup dropped
  /\ phase' = "closed"
  /\ UNCHANGED <<pending, running, done, dropped, due>>

ServiceNext ==
  \/ \E j \in Job : Accept(j) \/ Finish(j)
  \/ Start \/ AskClose \/ Close
  \/ \E i \in DOMAIN pending : Drop(i)

Service == ServiceInit /\ [][ServiceNext]_serviceVars
====
