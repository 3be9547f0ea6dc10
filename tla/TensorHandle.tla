---- MODULE TensorHandle ----
(***************************************************************************)
(* Tensors created from a handle: the memory behind each, who allocated it *)
(* and who frees it, through creation, swaps and release.                  *)
(*                                                                         *)
(* ovxlib keeps its own copy of the pointer (handle) beside the one in the *)
(* driver (vxhandle), and a flag that says whether ovxlib allocated it     *)
(* (is_handle_malloc_by_ovxlib).  The application is one that keeps the    *)
(* rules of vsi_nn_tensor_util.h: it passes the flag truthfully and frees  *)
(* only what it allocated.                                                 *)
(***************************************************************************)
EXTENDS Naturals

CONSTANTS
  Tensor,      \* tensors created with is_created_from_handle
  AppBuffer,   \* aligned buffers of the application
  OvxBuffer,   \* the buffers ovxlib will allocate; their number is a bound
  Size,        \* bytes of a tensor
  BufferSize,  \* bytes of a buffer
  NULL

Buffer == AppBuffer \cup OvxBuffer

ASSUME BufferAssumption ==
  /\ AppBuffer \cap OvxBuffer = {} /\ NULL \notin Buffer
  /\ Size \in [Tensor -> Nat] /\ BufferSize \in [Buffer -> Nat]

VARIABLES
  state,       \* "none", "unsized" (no vx tensor yet), "live", "released", "stuck"
  vxhandle,    \* the driver's pointer
  handle,      \* ovxlib's copy
  is_handle_malloc_by_ovxlib,
  is_swapped,
  \* history
  made,        \* buffers ovxlib has allocated
  freed,       \* [Buffer -> Nat]: how often ovxlib has freed each
  out,         \* buffers a swap has handed to the application
  lost         \* buffers no pointer was kept to, by a call that failed

handleVars == <<state, vxhandle, handle, is_handle_malloc_by_ovxlib, is_swapped>>
bufferVars == <<made, freed, out, lost>>
tensorVars == <<handleVars, bufferVars>>

Init ==
  /\ state = [t \in Tensor |-> "none"]
  /\ vxhandle = [t \in Tensor |-> NULL] /\ handle = [t \in Tensor |-> NULL]
  /\ is_handle_malloc_by_ovxlib = [t \in Tensor |-> FALSE]
  /\ is_swapped = [t \in Tensor |-> FALSE]
  /\ made = {} /\ freed = [b \in Buffer |-> 0] /\ out = {} /\ lost = {}

\* The memory of a tensor created with data: the buffer given, or a new one.
MemoryFor(t, data) ==
  IF data # NULL THEN {data}
  ELSE {b \in OvxBuffer \ made : BufferSize[b] = Size[t]}

\* mutant: the flag is what the attributes said, whatever was allocated
MallocFlag_AsGiven(data) == FALSE

\* The flag after creation.
MallocFlag(data) == data = NULL

\* _init_tensor succeeds with memory b; when only vxFlushHandle fails the tensor
\* is there all the same, without ovxlib's copy of the pointer.
InitTensor(t, data, b) ==
  /\ state' = [state EXCEPT ![t] = "live"]
  /\ vxhandle' = [vxhandle EXCEPT ![t] = b]
  /\ \E copy \in {b, NULL} : handle' = [handle EXCEPT ![t] = copy]
  /\ is_handle_malloc_by_ovxlib' = [is_handle_malloc_by_ovxlib EXCEPT ![t] = MallocFlag(data)]
  /\ made' = made \cup ({b} \cap OvxBuffer)
  /\ UNCHANGED <<is_swapped, freed, out, lost>>

\* vxCreateTensorAddressing or vxCreateTensorFromHandle fails: memory allocated
\* for the tensor is not freed, and a tensor that is kept has its flag set.
InitTensorFails(t, b) ==
  /\ made' = made \cup ({b} \cap OvxBuffer)
  /\ lost' = lost \cup ({b} \cap OvxBuffer)
  /\ is_handle_malloc_by_ovxlib' =
       IF state[t] = "unsized" THEN [is_handle_malloc_by_ovxlib EXCEPT ![t] = TRUE]
       ELSE is_handle_malloc_by_ovxlib
  /\ UNCHANGED <<state, vxhandle, handle, is_swapped, freed, out>>

\* vsi_nn_CreateTensorFromHandle for a tensor with dimensions.
CreateTensorFromHandle(t) ==
  /\ state[t] = "none"
  /\ \E data \in {b \in AppBuffer : BufferSize[b] = Size[t]} \cup {NULL} :
       \E b \in MemoryFor(t, data) : InitTensor(t, data, b) \/ InitTensorFails(t, b)

\* The same for a tensor of unknown dimensions: no vx tensor, data is not kept.
CreateUnsized(t) ==
  /\ state[t] = "none"
  /\ state' = [state EXCEPT ![t] = "unsized"]
  /\ UNCHANGED <<vxhandle, handle, is_handle_malloc_by_ovxlib, is_swapped, bufferVars>>

\* vsi_nn_TensorReinit, once the dimensions are known.
TensorReinit(t) ==
  /\ state[t] = "unsized"
  /\ \E b \in MemoryFor(t, NULL) : InitTensor(t, NULL, b) \/ InitTensorFails(t, b)

\* What the application may pass as new_ptr: its buffers, buffers of ovxlib that
\* a swap has handed to it and that have not gone back, NULL.
NewPointers(t) == {b \in AppBuffer \cup out : BufferSize[b] = Size[t]} \cup {NULL}

FlagAfterSwap(t, new) == new \in OvxBuffer

\* The buffer of ovxlib that comes back in old_ptr; after a swap with NULL the
\* application has had it before.
HandedOver(t) == IF is_handle_malloc_by_ovxlib[t] THEN {vxhandle[t]} ELSE {}

\* vsi_nn_SwapHandle succeeds.  For new_ptr NULL the driver may keep its pointer.
SwapHandle(t) ==
  /\ state[t] = "live"
  /\ \E new \in NewPointers(t) :
       /\ \E kept \in IF new = NULL THEN {NULL, vxhandle[t]} ELSE {new} :
            vxhandle' = [vxhandle EXCEPT ![t] = kept]
       /\ handle' = [handle EXCEPT ![t] = new]
       /\ is_handle_malloc_by_ovxlib' =
            [is_handle_malloc_by_ovxlib EXCEPT ![t] = FlagAfterSwap(t, new)]
       /\ out' = (out \cup HandedOver(t)) \ {new}
  /\ UNCHANGED <<state, is_swapped, made, freed, lost>>

Exchange(f, t0, t1) == [f EXCEPT ![t0] = f[t1], ![t1] = f[t0]]

\* mutant: the flag stays with the tensor
FlagsExchanged_Not(t0, t1) == is_handle_malloc_by_ovxlib

FlagsExchanged(t0, t1) == Exchange(is_handle_malloc_by_ovxlib, t0, t1)

\* mutant: ovxlib's copies are not exchanged
HandlesExchanged_First(t0, t1) == [handle EXCEPT ![t0] = handle[t1]]

HandlesExchanged(t0, t1) == Exchange(handle, t0, t1)

\* Both sizes are computed from tensor0.
SizesAgree(t0, t1) == Size[t0] = Size[t0]

\* vsi_nn_SwapTensorHandle succeeds.
SwapTensorHandle(t0, t1) ==
  /\ state[t0] = "live" /\ state[t1] = "live"
  /\ SizesAgree(t0, t1)
  /\ vxhandle' = Exchange(vxhandle, t0, t1)
  /\ handle' = HandlesExchanged(t0, t1)
  /\ is_handle_malloc_by_ovxlib' = FlagsExchanged(t0, t1)
  /\ is_swapped' = [is_swapped EXCEPT ![t0] = TRUE, ![t1] = TRUE]
  /\ UNCHANGED <<state, bufferVars>>

\* mutant: what the tensor holds is freed, whoever allocated it
FreesMemory_Always(t) == vxhandle[t] # NULL

FreesMemory(t) == is_handle_malloc_by_ovxlib[t]

\* vsi_nn_ReleaseTensor, which asks the driver for the pointer.
ReleaseTensor(t) ==
  /\ state[t] \in {"unsized", "live"}
  /\ state' = [state EXCEPT ![t] = "released"]
  /\ IF state[t] = "live" /\ FreesMemory(t)
       THEN freed' = [freed EXCEPT ![vxhandle[t]] = @ + 1]
       ELSE UNCHANGED freed
  /\ UNCHANGED <<vxhandle, handle, is_handle_malloc_by_ovxlib, is_swapped, made, out, lost>>

\* The driver does not hand over the pointer: vsi_nn_ReleaseTensor returns with the
\* vx tensor and its memory in place.
ReleaseGivesUp(t) ==
  /\ state[t] = "live" /\ FreesMemory(t)
  /\ state' = [state EXCEPT ![t] = "stuck"]
  /\ lost' = lost \cup {vxhandle[t]}
  /\ UNCHANGED <<vxhandle, handle, is_handle_malloc_by_ovxlib, is_swapped, made, freed, out>>

Next ==
  \/ \E t \in Tensor :
       \/ CreateTensorFromHandle(t) \/ CreateUnsized(t) \/ TensorReinit(t)
       \/ SwapHandle(t) \/ ReleaseTensor(t) \/ ReleaseGivesUp(t)
  \/ \E t0, t1 \in Tensor : SwapTensorHandle(t0, t1)

Spec == Init /\ [][Next]_tensorVars

-----------------------------------------------------------------------------

TypeOK ==
  /\ state \in [Tensor -> {"none", "unsized", "live", "released", "stuck"}]
  /\ vxhandle \in [Tensor -> Buffer \cup {NULL}] /\ handle \in [Tensor -> Buffer \cup {NULL}]
  /\ is_handle_malloc_by_ovxlib \in [Tensor -> BOOLEAN]
  /\ is_swapped \in [Tensor -> BOOLEAN]
  /\ made \subseteq OvxBuffer /\ out \subseteq made /\ lost \subseteq made
  /\ freed \in [Buffer -> Nat]

\* The tensors whose release will free buffer b.
Owners(b) == {t \in Tensor : /\ state[t] = "live" /\ is_handle_malloc_by_ovxlib[t]
                             /\ vxhandle[t] = b}

\* The flag says what release relies on, wherever swaps have carried the memory: a
\* tensor that will free its memory holds memory of ovxlib, and no other does.
FlagTellsOwner ==
  \A t \in Tensor : state[t] = "live" /\ is_handle_malloc_by_ovxlib[t] =>
    vxhandle[t] \in OvxBuffer /\ Owners(vxhandle[t]) = {t}

\* ovxlib frees a buffer at most once, never one of the application's, and none
\* that a tensor owns or that the application has been handed.
FreedOnce ==
  \A b \in Buffer : freed[b] > 0 =>
    freed[b] = 1 /\ b \in OvxBuffer /\ Owners(b) = {} /\ b \notin out

\* No buffer of ovxlib disappears: it was freed, or exactly one tensor will free
\* it, or the application has it, or a call failed and lost it.
NoSilentLeak ==
  \A b \in made : freed[b] = 1 \/ Owners(b) # {} \/ b \in out \/ b \in lost

\* ovxlib's copy of a pointer, which vsi_nn_GetTensorHandle hands out, is the
\* driver's, or missing.
CopyIsTrue ==
  \A t \in Tensor : state[t] = "live" => handle[t] \in {NULL, vxhandle[t]}

\* vsi_nn_SwapTensorHandle reports an error for tensors whose memory sizes are not
\* equal, so that the memory of a tensor always holds it.
MemoryFits ==
  \A t \in Tensor : state[t] = "live" /\ vxhandle[t] # NULL =>
    BufferSize[vxhandle[t]] >= Size[t]
====
