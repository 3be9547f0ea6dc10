---- MODULE GraphImpl ----
(***************************************************************************)
(* tim::vx::GraphImpl: threads that call Compile, CompileToBinary and Run  *)
(* on one graph, in any order and again after a failure.  Inputs and       *)
(* outputs, set-up and verification are each done by the first thread that *)
(* gets there, under a std::call_once for which the others wait.           *)
(*                                                                         *)
(* The body of setup_once_ is GraphSetup, step by step.                    *)
(***************************************************************************)
EXTENDS GraphSetup

CONSTANTS Thread,    \* the threads that use the graph
          MaxCalls   \* bound: calls of each thread

ASSUME CallsAssumption == MaxCalls \in Nat

VARIABLES
  setio_once, setup_once, verify_once,  \* std::once_flag: "no", "busy", "done"
  tpc, call, tstatus,  \* per thread: where it is, what it called, bool status
  calls,               \* calls each thread has begun
  \* history
  verified,            \* what vsi_nn_VerifyGraph returned: "none", "ok", "failed"
  verifier             \* the threads whose current call verified the graph itself

onceVars == <<setio_once, setup_once, verify_once>>
threadVars == <<tpc, call, tstatus, calls>>
historyVars == <<verified, verifier>>
implVars == <<setupVars, onceVars, threadVars, historyVars>>

Call == {"Compile", "CompileToBinary", "Run"}
TPC == {"idle", "setio", "setup", "inSetup", "setupDone", "verify", "inVerify",
        "compiled", "processing", "generating", "returned"}

ImplInit ==
  /\ Init /\ sort = TRUE
  /\ setio_once = "no" /\ setup_once = "no" /\ verify_once = "no"
  /\ tpc = [t \in Thread |-> "idle"]
  /\ call = [t \in Thread |-> "Compile"]
  /\ tstatus = [t \in Thread |-> TRUE]
  /\ calls = [t \in Thread |-> 0]
  /\ verified = "none" /\ verifier = {}

Goto(t, p) == tpc' = [tpc EXCEPT ![t] = p]

\* A thread calls into the graph; Setup starts with status true.
Begin(t) ==
  /\ tpc[t] \in {"idle", "returned"} /\ calls[t] < MaxCalls
  /\ \E c \in Call : call' = [call EXCEPT ![t] = c]
  /\ calls' = [calls EXCEPT ![t] = @ + 1]
  /\ tstatus' = [tstatus EXCEPT ![t] = TRUE]
  /\ verifier' = verifier \ {t}
  /\ Goto(t, "setio")
  /\ UNCHANGED <<setupVars, onceVars, verified>>

\* setio_once_: vsi_nn_SetGraphInputs and vsi_nn_SetGraphOutputs, which fail for
\* a graph without outputs.
SetIO(t) ==
  /\ tpc[t] = "setio"
  /\ setio_once' = "done"
  /\ IF setio_once = "no"
       THEN \E ok \in BOOLEAN : tstatus' = [tstatus EXCEPT ![t] = ok]
       ELSE UNCHANGED tstatus
  /\ Goto(t, "setup")
  /\ UNCHANGED <<setupVars, setup_once, verify_once, call, calls, historyVars>>

\* mutant: the once_flag of the set-up is a plain flag that is set afterwards
MayEnterSetup_Unguarded == setup_once # "done"

\* The first thread runs the body of setup_once_.
MayEnterSetup == setup_once = "no"

EnterSetup(t) ==
  /\ tpc[t] = "setup" /\ MayEnterSetup
  /\ setup_once' = "busy"
  /\ phase' = "optimize" /\ nodes_list' = <<>> /\ pos' = 0 /\ status' = "failure"
  /\ Goto(t, "inSetup")
  /\ UNCHANGED <<graph, sort, shaped, created, precise, built, oom, lost, setio_once,
                 verify_once, call, tstatus, calls, historyVars>>

SetupProgress(t) ==
  /\ tpc[t] = "inSetup"
  /\ SetupStep
  /\ UNCHANGED <<onceVars, threadVars, historyVars>>

\* The status Setup returns is that of vsi_nn_SetupGraph and overwrites that of
\* setio_once_.
LeaveSetup(t) ==
  /\ tpc[t] = "inSetup" /\ phase = "done"
  /\ setup_once' = "done"
  /\ tstatus' = [tstatus EXCEPT ![t] = status = "success"]
  /\ Goto(t, "setupDone")
  /\ UNCHANGED <<setupVars, setio_once, verify_once, call, calls, historyVars>>

\* mutant: a thread does not wait for the one in setup_once_
SetupPassable_Busy == setup_once # "no"

\* mutant: the waiting threads wait for a success
SetupPassable_Success == setup_once = "done" /\ status = "success"

\* call_once returns to the other threads when the body has returned.
SetupPassable == setup_once = "done"

SkipSetup(t) ==
  /\ tpc[t] = "setup" /\ SetupPassable
  /\ Goto(t, "setupDone")
  /\ UNCHANGED <<setupVars, onceVars, call, tstatus, calls, historyVars>>

\* Compile and Run go on whatever Setup returned; CompileToBinary does not.
AfterSetup(t) ==
  /\ tpc[t] = "setupDone"
  /\ Goto(t, IF call[t] # "CompileToBinary" THEN "verify"
             ELSE IF tstatus[t] THEN "generating" ELSE "returned")
  /\ UNCHANGED <<setupVars, onceVars, call, tstatus, calls, historyVars>>

EnterVerify(t) ==
  /\ tpc[t] = "verify" /\ verify_once = "no"
  /\ verify_once' = "busy"
  /\ Goto(t, "inVerify")
  /\ UNCHANGED <<setupVars, setio_once, setup_once, call, tstatus, calls, historyVars>>

\* mutant: the verdict is not stored
VerifyStatus_Ignored(t, ok) == tstatus[t]

\* The status Compile returns is that of vsi_nn_VerifyGraph.
VerifyStatus(t, ok) == ok

LeaveVerify(t) ==
  /\ tpc[t] = "inVerify"
  /\ verify_once' = "done"
  /\ \E ok \in BOOLEAN :
       /\ verified' = IF ok THEN "ok" ELSE "failed"
       /\ tstatus' = [tstatus EXCEPT ![t] = VerifyStatus(t, ok)]
  /\ verifier' = verifier \cup {t}
  /\ Goto(t, "compiled")
  /\ UNCHANGED <<setupVars, setio_once, setup_once, call, calls>>

SkipVerify(t) ==
  /\ tpc[t] = "verify" /\ verify_once = "done"
  /\ Goto(t, "compiled")
  /\ UNCHANGED <<setupVars, onceVars, call, tstatus, calls, historyVars>>

\* Run calls vsi_nn_RunGraph when its Compile returned true.
AfterCompile(t) ==
  /\ tpc[t] = "compiled"
  /\ Goto(t, IF call[t] = "Run" /\ tstatus[t] THEN "processing" ELSE "returned")
  /\ UNCHANGED <<setupVars, onceVars, call, tstatus, calls, historyVars>>

\* vxProcessGraph or vxGenerateNBG returns.
Finish(t) ==
  /\ tpc[t] \in {"processing", "generating"}
  /\ \E ok \in BOOLEAN : tstatus' = [tstatus EXCEPT ![t] = ok]
  /\ Goto(t, "returned")
  /\ UNCHANGED <<setupVars, onceVars, call, calls, historyVars>>

InCall(t) ==
  \/ SetIO(t) \/ EnterSetup(t) \/ SetupProgress(t) \/ LeaveSetup(t) \/ SkipSetup(t)
  \/ AfterSetup(t) \/ EnterVerify(t) \/ LeaveVerify(t) \/ SkipVerify(t)
  \/ AfterCompile(t) \/ Finish(t)

ImplNext == \E t \in Thread : Begin(t) \/ InCall(t)

ImplSpec == ImplInit /\ [][ImplNext]_implVars

\* A thread in a call runs; nobody has to make another call.
ImplFairSpec == ImplSpec /\ \A t \in Thread : WF_implVars(InCall(t))

-----------------------------------------------------------------------------

ImplTypeOK ==
  /\ TypeOK
  /\ {setio_once, setup_once, verify_once} \subseteq {"no", "busy", "done"}
  /\ tpc \in [Thread -> TPC] /\ call \in [Thread -> Call]
  /\ tstatus \in [Thread -> BOOLEAN] /\ calls \in [Thread -> 0 .. MaxCalls]
  /\ verified \in {"none", "ok", "failed"} /\ verifier \subseteq Thread

\* The once_flags keep the phases of the graph apart: one thread sets it up, one
\* verifies it, nobody verifies, runs or exports it while it is being set up, and
\* nobody runs it while it is being verified.
PhasesApart ==
  \A t \in Thread :
    /\ tpc[t] \in {"inSetup", "inVerify"} => \A u \in Thread : tpc[u] = tpc[t] => u = t
    /\ tpc[t] \in {"inVerify", "processing", "generating"} =>
         \A u \in Thread : tpc[u] # "inSetup"
    /\ tpc[t] = "processing" => \A u \in Thread : tpc[u] # "inVerify"

\* The call that verified the graph reports the verdict: Compile returns it, and
\* Run does not run a graph it found invalid.
VerifierReports ==
  \A t \in verifier :
    /\ tpc[t] = "returned" /\ call[t] = "Compile" => (tstatus[t] <=> verified = "ok")
    /\ tpc[t] = "processing" => verified = "ok"

\* Whatever the threads call and however often, the graph sees one run of
\* vsi_nn_SetupGraph: GraphImpl implements GraphSetup.
OneSetup == Spec

\* Every call returns, although the threads wait for each other.
CallsReturn ==
  \A t \in Thread : tpc[t] \notin {"idle", "returned"} ~> tpc[t] = "returned"

====
