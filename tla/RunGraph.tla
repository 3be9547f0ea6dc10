---- MODULE RunGraph ----
(***************************************************************************)
(* vsi_nn_RunGraph on a graph with NBG nodes whose tensors are swapped     *)
(* between runs: _check_swapped_tensors sets the parameters of the nodes   *)
(* anew, one vxSetParameterByIndex at a time, before vxProcessGraph.       *)
(*                                                                         *)
(* A parameter is one place of the sequence Params: the tensors of the NBG *)
(* nodes in the order of the scan, for each node its inputs, then its      *)
(* outputs.  A node works on the memory its parameter had when it was set. *)
(***************************************************************************)
EXTENDS TensorHandle, Sequences

CONSTANTS
  Params,      \* the tensor of each parameter
  FirstHandle, \* the memory each tensor is created with
  MaxSwaps     \* bound: swaps

ASSUME ParamsAssumption ==
  /\ Params \in Seq(Tensor) /\ MaxSwaps \in Nat
  /\ FirstHandle \in [Tensor -> Buffer]
  /\ \A t, u \in Tensor : FirstHandle[t] = FirstHandle[u] => t = u

VARIABLES
  bound,        \* the memory each parameter of a vx node stands for
  is_feature_on, is_cached, cache_list,  \* swap_handle_cache; cache items are parameters
  run,          \* "idle", "replay" (of the list), "scan", "process"
  at,           \* the place in the list or the scan
  swaps         \* number of swaps, for the bound

cacheVars == <<is_feature_on, is_cached, cache_list>>
runVars == <<run, at>>
graphVars == <<tensorVars, bound, cacheVars, runVars, swaps>>

Param == DOMAIN Params

\* The tensors are there and the graph has been set up.
GraphInit ==
  /\ state = [t \in Tensor |-> "live"]
  /\ vxhandle = FirstHandle /\ handle = FirstHandle
  /\ is_handle_malloc_by_ovxlib = [t \in Tensor |-> FirstHandle[t] \in OvxBuffer]
  /\ is_swapped = [t \in Tensor |-> FALSE]
  /\ made = {FirstHandle[t] : t \in Tensor} \cap OvxBuffer
  /\ freed = [b \in Buffer |-> 0] /\ out = {} /\ lost = {}
  /\ bound = [k \in Param |-> FirstHandle[Params[k]]]
  /\ is_feature_on = FALSE /\ is_cached = FALSE /\ cache_list = <<>>
  /\ run = "idle" /\ at = 1 /\ swaps = 0

\* vsi_nn_SwapTensorHandle and vsi_nn_SwapTensorHandleWithCache; the second turns
\* the cache on, whether the swap succeeds or not.
Swap(t0, t1, cache) ==
  /\ run = "idle" /\ swaps < MaxSwaps /\ t0 # t1
  /\ swaps' = swaps + 1
  /\ is_feature_on' = (is_feature_on \/ cache)
  /\ SwapTensorHandle(t0, t1) \/ UNCHANGED tensorVars
  /\ UNCHANGED <<bound, is_cached, cache_list, runVars>>

\* mutant: the list is used as soon as there is one
Replays_AnyList == is_feature_on /\ cache_list # <<>>

Replays == is_feature_on /\ is_cached

StartRun ==
  /\ run = "idle"
  /\ run' = IF Replays THEN "replay" ELSE "scan"
  /\ at' = 1
  /\ UNCHANGED <<tensorVars, bound, cacheVars, swaps>>

\* vxSetParameterByIndex of parameter k.
SetParameter(k) == bound' = [bound EXCEPT ![k] = vxhandle[Params[k]]]

\* mutant: the flag is cleared for the tensors that a failure leaves unset
FlagsIfRunFails_Cleared(t) == [is_swapped EXCEPT ![t] = FALSE]

\* The flags when setting a parameter of t has failed.
FlagsIfRunFails(t) == is_swapped

\* The parameter is not one of a swapped tensor.
ScanPast ==
  /\ run = "scan" /\ at <= Len(Params)
  /\ ~is_swapped[Params[at]]
  /\ at' = at + 1
  /\ UNCHANGED <<tensorVars, bound, cacheVars, run, swaps>>

\* vsi_nn_LinkListPushStart.
Pushed(k) == <<k>> \o cache_list

\* _set_parameter_for_swap_handle; without memory for an item it still returns the
\* success of vxSetParameterByIndex.
ScanSets ==
  /\ run = "scan" /\ at <= Len(Params)
  /\ is_swapped[Params[at]]
  /\ SetParameter(at)
  /\ is_swapped' = [is_swapped EXCEPT ![Params[at]] = FALSE]
  /\ cache_list' \in IF is_feature_on THEN {Pushed(at), cache_list} ELSE {cache_list}
  /\ at' = at + 1
  /\ UNCHANGED <<state, vxhandle, handle, is_handle_malloc_by_ovxlib, bufferVars,
                 is_feature_on, is_cached, run, swaps>>

\* vxSetParameterByIndex fails, and with it the run.
ScanFails ==
  /\ run = "scan" /\ at <= Len(Params)
  /\ is_swapped[Params[at]]
  /\ is_swapped' = FlagsIfRunFails(Params[at])
  /\ run' = "idle"
  /\ UNCHANGED <<state, vxhandle, handle, is_handle_malloc_by_ovxlib, bufferVars, bound,
                 cacheVars, at, swaps>>

ScanEnds ==
  /\ run = "scan" /\ at > Len(Params)
  /\ is_cached' = (is_cached \/ cache_list # <<>>)
  /\ run' = "process"
  /\ UNCHANGED <<tensorVars, bound, is_feature_on, cache_list, at, swaps>>

\* An item of the list, whatever is_swapped says.
ReplaySets ==
  /\ run = "replay" /\ at <= Len(cache_list)
  /\ SetParameter(cache_list[at])
  /\ at' = at + 1
  /\ UNCHANGED <<tensorVars, cacheVars, run, swaps>>

ReplayFails ==
  /\ run = "replay" /\ at <= Len(cache_list)
  /\ run' = "idle"
  /\ UNCHANGED <<tensorVars, bound, cacheVars, at, swaps>>

ReplayEnds ==
  /\ run = "replay" /\ at > Len(cache_list)
  /\ run' = "process"
  /\ UNCHANGED <<tensorVars, bound, cacheVars, at, swaps>>

\* vxProcessGraph returns.
Process ==
  /\ run = "process"
  /\ run' = "idle"
  /\ UNCHANGED <<tensorVars, bound, cacheVars, at, swaps>>

GraphNext ==
  \/ \E t0, t1 \in Tensor, cache \in BOOLEAN : Swap(t0, t1, cache)
  \/ StartRun \/ ScanPast \/ ScanSets \/ ScanFails \/ ScanEnds
  \/ ReplaySets \/ ReplayFails \/ ReplayEnds \/ Process

GraphSpec == GraphInit /\ [][GraphNext]_graphVars

-----------------------------------------------------------------------------

GraphTypeOK ==
  /\ TypeOK
  /\ bound \in [Param -> Buffer]
  /\ is_feature_on \in BOOLEAN /\ is_cached \in BOOLEAN /\ cache_list \in Seq(Param)
  /\ run \in {"idle", "replay", "scan", "process"}
  /\ at \in 1 .. Len(Params) + Len(cache_list) + 1 /\ swaps \in 0 .. MaxSwaps

\* A parameter whose node works on other memory than its tensor has.
Stale(k) == bound[k] # vxhandle[Params[k]]

\* Why a parameter may be stale when the graph is processed: the tensor is also an
\* earlier parameter, for which its flag was cleared, or the list that is replayed
\* does not have the parameter.
Shared(k) == \E j \in 1 .. k - 1 : Params[j] = Params[k]
Uncached(k) == is_cached /\ \A i \in DOMAIN cache_list : cache_list[i] # k

\* After any sequence of swaps, failed runs and retries, a run that gets to
\* vxProcessGraph works on the memory the tensors have now, with these exceptions.
StaleForAReason ==
  run = "process" => \A k \in Param : Stale(k) => Shared(k) \/ Uncached(k)

\* Between runs too, a stale parameter is known to be one: its tensor is flagged,
\* or the next run replays the list, or it is a shared parameter.
StaleIsKnown ==
  run = "idle" => \A k \in Param : Stale(k) =>
    is_swapped[Params[k]] \/ Replays \/ Shared(k)
====
