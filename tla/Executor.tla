---- MODULE Executor ----
(***************************************************************************)
(* tim::vx::platform: the list of tasks of an executor, native or lite.    *)
(* Executables are submitted before, after or without regard to another    *)
(* one; Trigger runs the list from its front.  The list holds weak         *)
(* pointers: the application, or another thread of it, may give up an      *)
(* executable at any time.                                                 *)
(***************************************************************************)
EXTENDS Naturals, Sequences, SequencesExt, FiniteSetsExt

CONSTANTS Exe,        \* executables
          MaxSubmits  \* bound: submissions that are accepted

ASSUME SubmitsAssumption == MaxSubmits \in Nat

VARIABLES
  kind,        \* "native" or "lite"
  tasks,       \* tasks_: submissions, each an index of subs
  alive,       \* executables somebody holds a shared_ptr to
  triggering,  \* Trigger is running
  ret,         \* what it will return, or has returned
  \* history
  subs,        \* the accepted submissions: exe, ref, after, anchor, the submission
               \* they were put next to (0: none)
  taken,       \* the submissions Trigger has taken off the list, in order
  ran          \* those whose executable ran

execVars == <<kind, tasks, alive, triggering, ret, subs, taken, ran>>

Init ==
  /\ kind \in {"native", "lite"}
  /\ tasks = <<>> /\ alive = Exe
  /\ triggering = FALSE /\ ret = "false"
  /\ subs = <<>> /\ taken = <<>> /\ ran = {}

\* The places of the list where ref is found.
Places(ref) == {i \in DOMAIN tasks : subs[tasks[i]].exe = ref /\ ref \in alive}

\* mutant: after and before are mixed up
NextTo_Before(i, after) == i

\* Where the new task goes when ref is at place i.
NextTo(i, after) == IF after THEN i + 1 ELSE i

Accept(e, ref, after, anchor) ==
  subs' = Append(subs, [exe |-> e, ref |-> ref, after |-> after, anchor |-> anchor])

\* Submit after Verify has succeeded (when it fails Submit returns false and the list
\* stays as it is).  It returns true: the task is put at the end for the executable itself,
\* next to the first task of ref, or nowhere when ref is not in the list.
Submit(e, ref, after) ==
  /\ ~triggering /\ {e, ref} \subseteq alive /\ Len(subs) < MaxSubmits
  /\ \/ /\ e = ref
        /\ tasks' = Append(tasks, Len(subs) + 1)
        /\ Accept(e, ref, after, 0)
     \/ /\ e # ref /\ Places(ref) # {}
        /\ LET i == Min(Places(ref)) IN
             /\ tasks' = InsertAt(tasks, NextTo(i, after), Len(subs) + 1)
             /\ Accept(e, ref, after, tasks[i])
     \/ /\ e # ref /\ Places(ref) = {}
        /\ UNCHANGED tasks
        /\ Accept(e, ref, after, 0)
  /\ UNCHANGED <<kind, alive, triggering, ret, taken, ran>>

\* What Trigger returns for an empty list.
InitialRet == IF kind = "lite" THEN "true" ELSE "false"

StartTrigger ==
  /\ ~triggering
  /\ triggering' = TRUE
  /\ ret' = InitialRet
  /\ UNCHANGED <<kind, tasks, alive, subs, taken, ran>>

\* The place of the list the next task is taken from.
Taken == 1

TakeTask ==
  /\ triggering /\ tasks # <<>>
  /\ tasks' = RemoveAt(tasks, Taken)
  /\ taken' = Append(taken, tasks[Taken])

\* A native executor keeps what the last task returned, a lite one does not look.
RunTask ==
  /\ TakeTask
  /\ subs[tasks[Taken]].exe \in alive
  /\ ran' = ran \cup {tasks[Taken]}
  /\ ret' \in IF kind = "native" THEN {"true", "false"} ELSE {"true"}
  /\ UNCHANGED <<kind, alive, triggering, subs>>

\* mutant: the task is left in the list when its executable is gone
AfterDeadTask_Kept == tasks

\* mutant: the list is given up
AfterDeadTask_Cleared == <<>>

\* The list when the executable of the first task is gone.
AfterDeadTask == RemoveAt(tasks, Taken)

\* Trigger returns false, and the tasks behind stay.
DeadTask ==
  /\ triggering /\ tasks # <<>>
  /\ subs[tasks[Taken]].exe \notin alive
  /\ tasks' = AfterDeadTask
  /\ taken' = Append(taken, tasks[Taken])
  /\ triggering' = FALSE /\ ret' = "false"
  /\ UNCHANGED <<kind, alive, subs, ran>>

EndTrigger ==
  /\ triggering /\ tasks = <<>>
  /\ triggering' = FALSE
  /\ UNCHANGED <<kind, tasks, alive, ret, subs, taken, ran>>

\* The last shared_ptr to an executable is dropped.
GiveUp(e) ==
  /\ e \in alive
  /\ alive' = alive \ {e}
  /\ UNCHANGED <<kind, tasks, triggering, ret, subs, taken, ran>>

Next ==
  \/ \E e, ref \in Exe, after \in BOOLEAN : Submit(e, ref, after)
  \/ \E e \in Exe : GiveUp(e)
  \/ StartTrigger \/ RunTask \/ DeadTask \/ EndTrigger

Spec == Init /\ [][Next]_execVars

\* Trigger goes on until it returns, and the application triggers again and again.
FairSpec == Spec /\ WF_execVars(StartTrigger \/ RunTask \/ DeadTask \/ EndTrigger)

-----------------------------------------------------------------------------

Subs == DOMAIN subs

TypeOK ==
  /\ kind \in {"native", "lite"}
  /\ tasks \in Seq(Subs) /\ taken \in Seq(Subs) /\ ran \subseteq Subs
  /\ alive \subseteq Exe
  /\ triggering \in BOOLEAN /\ ret \in {"true", "false"}
  /\ \A s \in Subs : subs[s].exe \in Exe /\ subs[s].ref \in Exe
                     /\ subs[s].after \in BOOLEAN /\ subs[s].anchor \in 0 .. s - 1

\* Submission s has been taken, and before u if u has been taken too.
TakenBefore(s, u) ==
  \E i \in DOMAIN taken : taken[i] = s /\ \A j \in 1 .. i - 1 : taken[j] # u

\* Later submissions and interrupted triggers never turn around two tasks one of
\* which was submitted before or after the other.
InRequestedOrder ==
  \A s \in Subs : LET a == subs[s].anchor IN
    a # 0 =>
      /\ subs[s].after /\ Contains(taken, s) => TakenBefore(a, s)
      /\ ~subs[s].after /\ Contains(taken, a) => TakenBefore(s, a)

\* A submission that found its place is in the list once or has been taken once,
\* whatever became of other executables, and one that ran has been taken.
QueuedOnce ==
  /\ IsInjective(tasks \o taken)
  /\ \A s \in Subs : subs[s].exe = subs[s].ref \/ subs[s].anchor # 0 =>
       Contains(tasks \o taken, s)
  /\ ran \subseteq ToSet(taken)

\* A task whose executable stays runs in the end, although the tasks before it may
\* end one Trigger after the other.
QueuedRuns ==
  \A s \in 1 .. MaxSubmits :
    s \in Subs /\ Contains(tasks, s) ~> s \in ran \/ (s \in Subs => subs[s].exe \notin alive)
====
