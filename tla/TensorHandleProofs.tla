---- MODULE TensorHandleProofs ----
(***************************************************************************)
(* The memory of tensors, for any tensors, buffers and sizes: who owns it, *)
(* and what a run works on after any swaps.  The invariant of the first    *)
(* part says where a buffer of ovxlib is: never allocated, held by the one *)
(* tensor that will free it, with the application, freed once, or lost by  *)
(* a call that failed.                                                     *)
(***************************************************************************)
EXTENDS RunGraph, TLAPS

\* t will free its memory.
Held(t) == state[t] = "live" /\ is_handle_malloc_by_ovxlib[t]

\* What a tensor holds was allocated, is nobody else's, and is not freed yet.
HeldIsOwned ==
  \A t \in Tensor : Held(t) =>
    /\ vxhandle[t] \in made /\ vxhandle[t] \notin out
    /\ freed[vxhandle[t]] = 0
    /\ \A u \in Tensor : Held(u) /\ vxhandle[u] = vxhandle[t] => u = t

\* Where the buffers are that no tensor holds.
FreedAreGone ==
  /\ \A b \in Buffer : freed[b] \in {0, 1} /\ (b \notin made => freed[b] = 0)
  /\ \A b \in out : freed[b] = 0

IInv == TypeOK /\ HeldIsOwned /\ FreedAreGone /\ NoSilentLeak

USE BufferAssumption

\* The buffers of the two sides are apart, and NULL is none of them.
LEMMA Apart == /\ OvxBuffer \subseteq Buffer /\ AppBuffer \subseteq Buffer
               /\ NULL \notin OvxBuffer /\ NULL \notin AppBuffer
               /\ \A b \in AppBuffer : b \notin OvxBuffer
  BY DEF Buffer

\* A buffer is free of owners exactly if no tensor holds it.
LEMMA OwnersHold ==
  \A b : /\ Owners(b) = {t \in Tensor : Held(t) /\ vxhandle[t] = b}
         /\ Owners(b) # {} <=> \E t \in Tensor : Held(t) /\ vxhandle[t] = b
  BY DEF Owners, Held

\* The invariant gives the properties about the memory.
LEMMA InvImplies == IInv => FlagTellsOwner /\ FreedOnce
  <1> SUFFICES ASSUME IInv PROVE FlagTellsOwner /\ FreedOnce
    OBVIOUS
  <1> USE DEF IInv
  <1>1. FlagTellsOwner
    <2> SUFFICES ASSUME NEW t \in Tensor, Held(t)
                 PROVE  vxhandle[t] \in OvxBuffer /\ Owners(vxhandle[t]) = {t}
      BY DEF FlagTellsOwner, Held
    <2>1. vxhandle[t] \in OvxBuffer
      BY DEF HeldIsOwned, TypeOK
    <2>2. Owners(vxhandle[t]) = {t}
      BY OwnersHold DEF HeldIsOwned
    <2> QED BY <2>1, <2>2
  <1>2. FreedOnce
    <2> SUFFICES ASSUME NEW b \in Buffer, freed[b] > 0
                 PROVE  freed[b] = 1 /\ b \in OvxBuffer /\ Owners(b) = {} /\ b \notin out
      BY DEF FreedOnce
    <2>1. freed[b] = 1 /\ b \in made /\ b \notin out
      BY DEF FreedAreGone
    <2>2. b \in OvxBuffer
      BY <2>1 DEF TypeOK
    <2>3. Owners(b) = {}
      BY <2>1, OwnersHold DEF HeldIsOwned
    <2> QED BY <2>1, <2>2, <2>3
  <1> QED BY <1>1, <1>2

LEMMA InitInv == Init => IInv
  <1> SUFFICES ASSUME Init PROVE IInv
    OBVIOUS
  <1>1. TypeOK
    BY DEF Init, TypeOK
  <1>2. HeldIsOwned
    BY DEF Init, HeldIsOwned, Held
  <1>3. FreedAreGone
    BY DEF Init, FreedAreGone
  <1>4. NoSilentLeak
    BY DEF Init, NoSilentLeak
  <1> QED BY <1>1, <1>2, <1>3, <1>4 DEF IInv

\* A tensor that is not there yet gets its memory.
LEMMA InitTensorInv ==
  ASSUME IInv, NEW t \in Tensor, state[t] \in {"none", "unsized"},
         NEW data \in AppBuffer \cup {NULL}, NEW b \in MemoryFor(t, data),
         InitTensor(t, data, b)
  PROVE  IInv'
  <1> USE DEF IInv
  <1>1. /\ data = NULL => b \in OvxBuffer /\ b \notin made
        /\ data # NULL => b = data /\ b \in AppBuffer
    BY Apart DEF MemoryFor
  <1>2. b \in Buffer
    BY <1>1, Apart
  <1>3. PICK copy \in {b, NULL} : handle' = [handle EXCEPT ![t] = copy]
    BY DEF InitTensor
  <1>4. TypeOK'
    BY <1>1, <1>2, <1>3, Apart DEF InitTensor, TypeOK, MallocFlag
  <1>5. \A u \in Tensor : u # t =>
          (Held(u)' <=> Held(u)) /\ vxhandle'[u] = vxhandle[u]
    BY DEF InitTensor, Held, TypeOK
  <1>6. (Held(t)' <=> data = NULL) /\ vxhandle'[t] = b
    BY DEF InitTensor, Held, TypeOK, MallocFlag
  <1>7. made' = made \cup ({b} \cap OvxBuffer) /\ out' = out /\ freed' = freed /\ lost' = lost
    BY DEF InitTensor
  <1>8. ~Held(t)
    BY DEF Held
  <1>9. HeldIsOwned'
    BY <1>1, <1>2, <1>5, <1>6, <1>7, <1>8 DEF HeldIsOwned, TypeOK, FreedAreGone
  <1>10. FreedAreGone'
    BY <1>1, <1>7 DEF FreedAreGone
  <1>11. NoSilentLeak'
    <2> SUFFICES ASSUME NEW c \in made'
                 PROVE  (freed'[c] = 1 \/ Owners(c)' # {} \/ c \in out' \/ c \in lost')
      BY DEF NoSilentLeak
    <2>1. CASE c \in made
      BY <2>1, <1>5, <1>7, <1>8, OwnersHold DEF NoSilentLeak, Owners, Held
    <2>2. CASE c \notin made
      <3>1. c = b /\ Held(t)'
        BY <2>2, <1>1, <1>6, <1>7, Apart
      <3> QED BY <3>1, <1>6 DEF Owners, Held
    <2> QED BY <2>1, <2>2
  <1> QED BY <1>4, <1>9, <1>10, <1>11

\* The same, failing.
LEMMA InitTensorFailsInv ==
  ASSUME IInv, NEW t \in Tensor, state[t] \in {"none", "unsized"},
         NEW data \in AppBuffer \cup {NULL}, NEW b \in MemoryFor(t, data),
         InitTensorFails(t, b)
  PROVE  IInv'
  <1> USE DEF IInv
  <1>1. b \in OvxBuffer => b \notin made
    BY Apart DEF MemoryFor
  <1>2. TypeOK'
    BY Apart DEF InitTensorFails, TypeOK
  <1>3. \A u \in Tensor : (Held(u)' <=> Held(u)) /\ vxhandle'[u] = vxhandle[u]
    BY DEF InitTensorFails, Held, TypeOK
  <1>4. /\ made' = made \cup ({b} \cap OvxBuffer) /\ lost' = lost \cup ({b} \cap OvxBuffer)
        /\ out' = out /\ freed' = freed
    BY DEF InitTensorFails
  <1>5. HeldIsOwned'
    BY <1>3, <1>4 DEF HeldIsOwned
  <1>6. FreedAreGone'
    BY <1>4 DEF FreedAreGone
  <1>7. NoSilentLeak'
    BY <1>3, <1>4, OwnersHold DEF NoSilentLeak, Owners, Held
  <1> QED BY <1>2, <1>5, <1>6, <1>7

\* vsi_nn_SwapHandle: the new memory comes in, the old goes to the application.
LEMMA SwapHandleInv == ASSUME IInv, NEW t \in Tensor, SwapHandle(t) PROVE IInv'
  <1> USE DEF IInv
  <1>1. PICK new \in NewPointers(t) :
          /\ \E kept \in IF new = NULL THEN {NULL, vxhandle[t]} ELSE {new} :
               vxhandle' = [vxhandle EXCEPT ![t] = kept]
          /\ handle' = [handle EXCEPT ![t] = new]
          /\ is_handle_malloc_by_ovxlib' =
               [is_handle_malloc_by_ovxlib EXCEPT ![t] = FlagAfterSwap(t, new)]
          /\ out' = (out \cup HandedOver(t)) \ {new}
    BY DEF SwapHandle
  <1>2. /\ state[t] = "live" /\ state' = state /\ is_swapped' = is_swapped
        /\ made' = made /\ freed' = freed /\ lost' = lost
    BY DEF SwapHandle
  <1>3. new \in AppBuffer \cup out \cup {NULL}
    BY DEF NewPointers
  <1>4. new \in Buffer \cup {NULL} /\ (new \in OvxBuffer => new \in out)
    BY <1>3, Apart DEF TypeOK
  <1>5. HandedOver(t) = IF Held(t) THEN {vxhandle[t]} ELSE {}
    BY <1>2 DEF HandedOver, Held
  <1>6. TypeOK'
    <2>1. vxhandle' \in [Tensor -> Buffer \cup {NULL}] /\ handle' \in [Tensor -> Buffer \cup {NULL}]
      BY <1>1, <1>4 DEF TypeOK
    <2>2. is_handle_malloc_by_ovxlib' \in [Tensor -> BOOLEAN]
      BY <1>1 DEF TypeOK, FlagAfterSwap
    <2>3. out' \subseteq made
      BY <1>1, <1>5 DEF TypeOK, HeldIsOwned
    <2> QED BY <2>1, <2>2, <2>3, <1>2 DEF TypeOK
  <1>7. \A u \in Tensor : u # t => (Held(u)' <=> Held(u)) /\ vxhandle'[u] = vxhandle[u]
    BY <1>1, <1>2 DEF Held, TypeOK
  <1>8. (Held(t)' <=> new \in OvxBuffer) /\ (new \in OvxBuffer => vxhandle'[t] = new)
    BY <1>1, <1>2, Apart DEF Held, TypeOK, FlagAfterSwap
  <1>9. HeldIsOwned'
    <2> SUFFICES ASSUME NEW u \in Tensor, Held(u)'
                 PROVE  /\ vxhandle'[u] \in made /\ vxhandle'[u] \notin out'
                        /\ freed[vxhandle'[u]] = 0
                        /\ \A v \in Tensor : Held(v)' /\ vxhandle'[v] = vxhandle'[u] => v = u
      BY <1>2 DEF HeldIsOwned
    <2>1. CASE u = t
      <3>1. new \in out /\ vxhandle'[u] = new
        BY <2>1, <1>4, <1>8
      <3>2. \A v \in Tensor : Held(v) => vxhandle[v] # new
        BY <3>1 DEF HeldIsOwned
      <3> QED BY <2>1, <3>1, <3>2, <1>1, <1>7 DEF TypeOK, FreedAreGone
    <2>2. CASE u # t
      <3>1. Held(u) /\ vxhandle'[u] = vxhandle[u]
        BY <2>2, <1>7
      <3>2. vxhandle[u] \notin HandedOver(t)
        BY <3>1, <2>2, <1>5 DEF HeldIsOwned
      <3>3. vxhandle[u] \notin out'
        BY <3>1, <3>2, <1>1 DEF HeldIsOwned
      <3>4. \A v \in Tensor : Held(v)' /\ vxhandle'[v] = vxhandle[u] => v = u
        BY <3>1, <1>4, <1>7, <1>8 DEF HeldIsOwned
      <3> QED BY <3>1, <3>3, <3>4 DEF HeldIsOwned
    <2> QED BY <2>1, <2>2
  <1>10. FreedAreGone'
    BY <1>1, <1>2, <1>5 DEF FreedAreGone, HeldIsOwned
  <1>11. NoSilentLeak'
    <2> SUFFICES ASSUME NEW b \in made
                 PROVE  freed[b] = 1 \/ Owners(b)' # {} \/ b \in out' \/ b \in lost
      BY <1>2 DEF NoSilentLeak
    <2> USE OwnersHold
    <2>1. CASE b = new
      <3>1. Held(t)' /\ vxhandle'[t] = b
        BY <2>1, <1>8 DEF TypeOK
      <3> QED BY <3>1 DEF Owners, Held
    <2>2. CASE b # new /\ Held(t) /\ vxhandle[t] = b
      BY <2>2, <1>1, <1>5
    <2>3. CASE b # new /\ \E u \in Tensor : u # t /\ Held(u) /\ vxhandle[u] = b
      BY <2>3, <1>7 DEF Owners, Held
    <2>4. CASE b # new /\ ~\E u \in Tensor : Held(u) /\ vxhandle[u] = b
      BY <2>4, <1>1 DEF NoSilentLeak
    <2> QED BY <2>1, <2>2, <2>3, <2>4
  <1> QED BY <1>6, <1>9, <1>10, <1>11

\* The tensor that holds what u held before an exchange.
Other(u, t0, t1) == IF u = t0 THEN t1 ELSE IF u = t1 THEN t0 ELSE u

\* vsi_nn_SwapTensorHandle: memory and flag move together.
LEMMA SwapTensorHandleInv ==
  ASSUME IInv, NEW t0 \in Tensor, NEW t1 \in Tensor, SwapTensorHandle(t0, t1)
  PROVE  IInv'
  <1> USE DEF IInv
  <1>1. /\ state[t0] = "live" /\ state[t1] = "live" /\ state' = state
        /\ vxhandle' = Exchange(vxhandle, t0, t1)
        /\ handle' = Exchange(handle, t0, t1)
        /\ is_handle_malloc_by_ovxlib' = Exchange(is_handle_malloc_by_ovxlib, t0, t1)
        /\ made' = made /\ freed' = freed /\ lost' = lost /\ out' = out
        /\ is_swapped' = [is_swapped EXCEPT ![t0] = TRUE, ![t1] = TRUE]
    BY DEF SwapTensorHandle, FlagsExchanged, HandlesExchanged, bufferVars
  <1>2. TypeOK'
    BY <1>1 DEF TypeOK, Exchange
  <1>3. \A u \in Tensor : /\ Other(u, t0, t1) \in Tensor
                          /\ Other(Other(u, t0, t1), t0, t1) = u
    BY DEF Other
  <1>4. \A u \in Tensor : /\ Held(u)' <=> Held(Other(u, t0, t1))
                          /\ vxhandle'[u] = vxhandle[Other(u, t0, t1)]
    <2>1. \A u \in Tensor :
            /\ vxhandle'[u] = vxhandle[Other(u, t0, t1)]
            /\ is_handle_malloc_by_ovxlib'[u] = is_handle_malloc_by_ovxlib[Other(u, t0, t1)]
      BY <1>1 DEF TypeOK, Exchange, Other
    <2>2. \A u \in Tensor : state'[u] = "live" <=> state[Other(u, t0, t1)] = "live"
      BY <1>1 DEF Other
    <2> QED BY <2>1, <2>2 DEF Held
  <1>5. HeldIsOwned'
    BY <1>1, <1>3, <1>4 DEF HeldIsOwned
  <1>6. FreedAreGone'
    BY <1>1 DEF FreedAreGone
  <1>7. NoSilentLeak'
    <2> SUFFICES ASSUME NEW b \in made, NEW u \in Tensor, Held(u), vxhandle[u] = b
                 PROVE  Owners(b)' # {}
      BY <1>1, OwnersHold DEF NoSilentLeak
    <2>1. Held(Other(u, t0, t1))' /\ vxhandle'[Other(u, t0, t1)] = b
      BY <1>3, <1>4
    <2> QED BY <2>1, <1>3 DEF Owners, Held
  <1> QED BY <1>2, <1>5, <1>6, <1>7

\* The last step of a tensor: its memory is freed, or stays where it is for ever.
LEMMA LeaveInv ==
  ASSUME IInv, NEW t \in Tensor, ReleaseTensor(t) \/ ReleaseGivesUp(t)
  PROVE  IInv'
  <1> USE DEF IInv
  <1>1. /\ state' \in [Tensor -> {"none", "unsized", "live", "released", "stuck"}]
        /\ \A u \in Tensor : u # t => state'[u] = state[u]
        /\ state'[t] # "live"
    BY DEF ReleaseTensor, ReleaseGivesUp, TypeOK
  <1>2. UNCHANGED <<vxhandle, handle, is_handle_malloc_by_ovxlib, is_swapped, made, out>>
    BY DEF ReleaseTensor, ReleaseGivesUp
  <1>3. \A u \in Tensor : (Held(u)' <=> Held(u) /\ u # t) /\ vxhandle'[u] = vxhandle[u]
    BY <1>1, <1>2 DEF Held
  <1>4. CASE Held(t) /\ ReleaseTensor(t)
    <2>1. freed' = [freed EXCEPT ![vxhandle[t]] = @ + 1] /\ lost' = lost
      BY <1>4 DEF ReleaseTensor, FreesMemory, Held
    <2>2. vxhandle[t] \in made /\ vxhandle[t] \in Buffer /\ freed[vxhandle[t]] = 0
      BY <1>4, Apart DEF HeldIsOwned, TypeOK
    <2>3. /\ freed' \in [Buffer -> Nat] /\ freed'[vxhandle[t]] = 1
          /\ \A b \in Buffer : b # vxhandle[t] => freed'[b] = freed[b]
      BY <2>1, <2>2 DEF TypeOK
    <2>4. TypeOK'
      BY <1>1, <1>2, <2>1, <2>3 DEF TypeOK
    <2>5. HeldIsOwned'
      <3> SUFFICES ASSUME NEW u \in Tensor, Held(u), u # t
                   PROVE  freed'[vxhandle[u]] = 0
        BY <1>2, <1>3 DEF HeldIsOwned
      <3>1. vxhandle[u] # vxhandle[t] /\ vxhandle[u] \in Buffer /\ freed[vxhandle[u]] = 0
        BY <1>4, Apart DEF HeldIsOwned, TypeOK
      <3> QED BY <3>1, <2>3
    <2>6. FreedAreGone'
      <3>1. \A b \in out : b \in Buffer /\ b # vxhandle[t]
        BY <1>4, Apart DEF HeldIsOwned, TypeOK
      <3> QED BY <3>1, <1>2, <2>2, <2>3 DEF FreedAreGone
    <2>7. NoSilentLeak'
      <3> SUFFICES ASSUME NEW b \in made, b # vxhandle[t]
                   PROVE  freed'[b] = 1 \/ Owners(b)' # {} \/ b \in out \/ b \in lost
        BY <1>2, <2>1, <2>3 DEF NoSilentLeak
      <3>1. b \in Buffer
        BY Apart DEF TypeOK
      <3>2. freed[b] = 1 \/ (\E u \in Tensor : Held(u) /\ vxhandle[u] = b) \/ b \in out \/ b \in lost
        BY OwnersHold DEF NoSilentLeak
      <3>3. ASSUME NEW u \in Tensor, Held(u), vxhandle[u] = b PROVE Owners(b)' # {}
        BY <3>3, <1>3 DEF Owners, Held
      <3> QED BY <3>1, <3>2, <3>3, <2>3
    <2> QED BY <2>4, <2>5, <2>6, <2>7
  <1>5. CASE ~(Held(t) /\ ReleaseTensor(t))
    <2>1. /\ freed' = freed
          /\ lost' = lost \/ (Held(t) /\ lost' = lost \cup {vxhandle[t]})
      BY <1>5 DEF ReleaseTensor, ReleaseGivesUp, FreesMemory, Held
    <2>2. Held(t) => vxhandle[t] \in lost'
      BY <1>5, <2>1 DEF ReleaseTensor, ReleaseGivesUp, FreesMemory, Held
    <2>3. TypeOK'
      BY <1>1, <1>2, <2>1 DEF TypeOK, HeldIsOwned
    <2>4. HeldIsOwned'
      BY <1>2, <1>3, <2>1 DEF HeldIsOwned
    <2>5. FreedAreGone'
      BY <1>2, <2>1 DEF FreedAreGone
    <2>6. NoSilentLeak'
      <3> SUFFICES ASSUME NEW b \in made
                   PROVE  freed[b] = 1 \/ Owners(b)' # {} \/ b \in out \/ b \in lost'
        BY <1>2, <2>1 DEF NoSilentLeak
      <3>1. freed[b] = 1 \/ (\E u \in Tensor : Held(u) /\ vxhandle[u] = b) \/ b \in out \/ b \in lost
        BY OwnersHold DEF NoSilentLeak
      <3>2. ASSUME NEW u \in Tensor, Held(u), vxhandle[u] = b, u # t PROVE Owners(b)' # {}
        BY <3>2, <1>3 DEF Owners, Held
      <3> QED BY <3>1, <3>2, <2>1, <2>2
    <2> QED BY <2>3, <2>4, <2>5, <2>6
  <1> QED BY <1>4, <1>5

\* vsi_nn_CreateTensorFromHandle without dimensions touches no memory.
LEMMA CreateUnsizedInv == ASSUME IInv, NEW t \in Tensor, CreateUnsized(t) PROVE IInv'
  <1> USE DEF IInv
  <1>1. /\ state[t] = "none" /\ state' = [state EXCEPT ![t] = "unsized"]
        /\ UNCHANGED <<vxhandle, handle, is_handle_malloc_by_ovxlib, is_swapped,
                       made, freed, out, lost>>
    BY DEF CreateUnsized, bufferVars
  <1>2. TypeOK'
    BY <1>1 DEF TypeOK
  <1>3. \A u \in Tensor : Held(u)' <=> Held(u)
    BY <1>1 DEF Held, TypeOK
  <1>4. HeldIsOwned' /\ FreedAreGone'
    BY <1>1, <1>3 DEF HeldIsOwned, FreedAreGone
  <1>5. NoSilentLeak'
    BY <1>1, <1>3, OwnersHold DEF NoSilentLeak, Owners, Held
  <1> QED BY <1>2, <1>4, <1>5

LEMMA NextInv == IInv /\ [Next]_tensorVars => IInv'
  <1> SUFFICES ASSUME IInv, [Next]_tensorVars PROVE IInv'
    OBVIOUS
  <1>1. ASSUME NEW t \in Tensor, CreateTensorFromHandle(t) PROVE IInv'
    <2>1. PICK data \in AppBuffer \cup {NULL} :
            \E b \in MemoryFor(t, data) : InitTensor(t, data, b) \/ InitTensorFails(t, b)
      BY <1>1 DEF CreateTensorFromHandle
    <2>2. state[t] \in {"none", "unsized"}
      BY <1>1 DEF CreateTensorFromHandle
    <2> QED BY <2>1, <2>2, InitTensorInv, InitTensorFailsInv
  <1>2. ASSUME NEW t \in Tensor, TensorReinit(t) PROVE IInv'
    <2>1. PICK b \in MemoryFor(t, NULL) : InitTensor(t, NULL, b) \/ InitTensorFails(t, b)
      BY <1>2 DEF TensorReinit
    <2>2. state[t] \in {"none", "unsized"}
      BY <1>2 DEF TensorReinit
    <2> QED BY <2>1, <2>2, InitTensorInv, InitTensorFailsInv
  <1>3. CASE UNCHANGED tensorVars
    BY <1>3 DEF tensorVars, handleVars, bufferVars, IInv, TypeOK, HeldIsOwned, FreedAreGone,
             NoSilentLeak, Owners, Held
  <1> QED BY <1>1, <1>2, <1>3, CreateUnsizedInv, SwapHandleInv, SwapTensorHandleInv, LeaveInv
          DEF Next

THEOREM Invariance == Spec => []IInv
  BY InitInv, NextInv, PTL DEF Spec

\* Every variable has its type, whatever the tensors and buffers.
THEOREM TypeCorrect == Spec => []TypeOK
  <1>1. IInv => TypeOK
    BY DEF IInv
  <1> QED BY <1>1, Invariance, PTL

\* After any creations, swaps and releases the flag tells who frees the memory.
THEOREM FlagFollowsMemory == Spec => []FlagTellsOwner
  BY InvImplies, Invariance, PTL

\* No buffer is freed twice, and none that is in use.
THEOREM NeverFreedTwice == Spec => []FreedOnce
  BY InvImplies, Invariance, PTL

\* Every buffer ovxlib has allocated is accounted for.
THEOREM NothingLeaks == Spec => []NoSilentLeak
  <1>1. IInv => NoSilentLeak
    BY DEF IInv
  <1> QED BY <1>1, Invariance, PTL

\* ovxlib's copy of a pointer follows the driver's through every call.
THEOREM CopyFollowsDriver == Spec => []CopyIsTrue
  <1>1. Init => CopyIsTrue
    BY DEF Init, CopyIsTrue
  <1>2. IInv /\ CopyIsTrue /\ [Next]_tensorVars => CopyIsTrue'
    <2> SUFFICES ASSUME TypeOK, CopyIsTrue, [Next]_tensorVars PROVE CopyIsTrue'
      BY DEF IInv
    <2>0. vxhandle \in [Tensor -> Buffer \cup {NULL}] /\ handle \in [Tensor -> Buffer \cup {NULL}]
      BY DEF TypeOK
    <2> USE DEF CopyIsTrue
    <2>1. ASSUME NEW t \in Tensor, NEW data, NEW b, InitTensor(t, data, b) PROVE CopyIsTrue'
      BY <2>1 DEF InitTensor, TypeOK
    <2>2. ASSUME NEW t \in Tensor, NEW b, InitTensorFails(t, b) PROVE CopyIsTrue'
      BY <2>2 DEF InitTensorFails
    <2>3. ASSUME NEW t \in Tensor, CreateUnsized(t) PROVE CopyIsTrue'
      BY <2>3 DEF CreateUnsized, TypeOK
    <2>4. ASSUME NEW t \in Tensor, SwapHandle(t) PROVE CopyIsTrue'
      BY <2>4 DEF SwapHandle, TypeOK
    <2>5. ASSUME NEW t0 \in Tensor, NEW t1 \in Tensor, SwapTensorHandle(t0, t1) PROVE CopyIsTrue'
      <3>1. /\ state[t0] = "live" /\ state[t1] = "live" /\ state' = state
            /\ vxhandle' = Exchange(vxhandle, t0, t1)
            /\ handle' = Exchange(handle, t0, t1)
        BY <2>5 DEF SwapTensorHandle, HandlesExchanged
      <3>2. \A u \in Tensor : vxhandle'[u] = vxhandle[Other(u, t0, t1)]
        BY <3>1, <2>0 DEF Exchange, Other
      <3>3. \A u \in Tensor : handle'[u] = handle[Other(u, t0, t1)]
        BY <3>1, <2>0 DEF Exchange, Other
      <3> QED BY <3>1, <3>2, <3>3 DEF Other
    <2>6. ASSUME NEW t \in Tensor, ReleaseTensor(t) \/ ReleaseGivesUp(t) PROVE CopyIsTrue'
      BY <2>6 DEF ReleaseTensor, ReleaseGivesUp, TypeOK
    <2>7. CASE UNCHANGED tensorVars
      BY <2>7 DEF tensorVars, handleVars
    <2> QED BY <2>1, <2>2, <2>3, <2>4, <2>5, <2>6, <2>7
            DEF Next, CreateTensorFromHandle, TensorReinit
  <1> QED BY <1>1, <1>2, Invariance, PTL DEF Spec

-----------------------------------------------------------------------------
\* Runs: what a run works on after any sequence of swaps, failed runs and retries, for
\* any parameters, tensors and number of swaps.

\* A tensor of a graph always has memory.
HasMemory == vxhandle \in [Tensor -> Buffer]

\* A parameter that is stale will be set anew, unless it is a shared one.
Known == \A k \in Param : Stale(k) => is_swapped[Params[k]] \/ Replays \/ Shared(k)

\* The scan has left no flag behind it.
Scanning == run = "scan" => ~Replays /\ \A k \in Param : k < at => ~is_swapped[Params[k]]

\* The replay has set the parameters of the items behind it.
Replaying ==
  run = "replay" => Replays /\ \A i \in DOMAIN cache_list : i < at => ~Stale(cache_list[i])

GInv == GraphTypeOK /\ HasMemory /\ Known /\ Scanning /\ Replaying /\ StaleForAReason

USE BufferAssumption, ParamsAssumption

LEMMA Parameters == /\ Param = 1 .. Len(Params) /\ Len(Params) \in Nat
                    /\ \A k \in Param : Params[k] \in Tensor /\ k \in Nat \ {0}
  BY DEF Param

LEMMA GraphInitInv == GraphInit => GInv
  <1> SUFFICES ASSUME GraphInit PROVE GInv
    OBVIOUS
  <1> USE DEF GraphInit
  <1>1. GraphTypeOK
    <2>1. TypeOK
      BY DEF TypeOK, Buffer
    <2>2. bound \in [Param -> Buffer]
      BY Parameters
    <2>3. cache_list \in Seq(Param) /\ Len(cache_list) = 0
      OBVIOUS
    <2>4. at \in 1 .. Len(Params) + Len(cache_list) + 1 /\ swaps \in 0 .. MaxSwaps
      BY <2>3, Parameters
    <2> QED BY <2>1, <2>2, <2>3, <2>4 DEF GraphTypeOK
  <1>2. \A k \in Param : ~Stale(k)
    BY DEF Stale
  <1> QED BY <1>1, <1>2 DEF GInv, HasMemory, Known, Scanning, Replaying, StaleForAReason

\* A swap flags the two tensors whose parameters become stale.
LEMMA SwapInv ==
  ASSUME GInv, NEW t0 \in Tensor, NEW t1 \in Tensor, NEW cache \in BOOLEAN, Swap(t0, t1, cache)
  PROVE  GInv'
  <1> USE DEF GInv
  <1>1. /\ run = "idle" /\ swaps < MaxSwaps /\ swaps' = swaps + 1
        /\ is_feature_on' = (is_feature_on \/ cache)
        /\ UNCHANGED <<bound, is_cached, cache_list, run, at>>
    BY DEF Swap, runVars
  <1>2. CASE UNCHANGED tensorVars
    <2>1. /\ UNCHANGED <<state, vxhandle, handle, is_handle_malloc_by_ovxlib, is_swapped>>
          /\ UNCHANGED <<made, freed, out, lost>>
      BY <1>2 DEF tensorVars, handleVars, bufferVars
    <2>2. GraphTypeOK' /\ HasMemory'
      BY <1>1, <2>1 DEF GraphTypeOK, TypeOK, HasMemory
    <2>3. Known'
      BY <1>1, <2>1 DEF Known, Stale, Replays, Shared
    <2> QED BY <1>1, <2>2, <2>3 DEF Scanning, Replaying, StaleForAReason
  <1>3. CASE SwapTensorHandle(t0, t1)
    <2>1. /\ vxhandle' = Exchange(vxhandle, t0, t1)
          /\ handle' = Exchange(handle, t0, t1)
          /\ is_handle_malloc_by_ovxlib' = Exchange(is_handle_malloc_by_ovxlib, t0, t1)
          /\ is_swapped' = [is_swapped EXCEPT ![t0] = TRUE, ![t1] = TRUE]
          /\ UNCHANGED <<state, made, freed, out, lost>>
      BY <1>3 DEF SwapTensorHandle, FlagsExchanged, HandlesExchanged, bufferVars
    <2>2. TypeOK' /\ HasMemory'
      BY <2>1 DEF GraphTypeOK, TypeOK, HasMemory, Exchange
    <2>3. GraphTypeOK'
      BY <1>1, <2>2 DEF GraphTypeOK
    <2>4. \A t \in Tensor : /\ is_swapped'[t] \/ vxhandle'[t] = vxhandle[t]
                            /\ is_swapped[t] => is_swapped'[t]
      BY <2>1 DEF GraphTypeOK, TypeOK, Exchange
    <2>5. Known'
      BY <1>1, <2>4, Parameters DEF Known, Stale, Replays, Shared
    <2> QED BY <1>1, <2>2, <2>3, <2>5 DEF Scanning, Replaying, StaleForAReason
  <1> QED BY <1>2, <1>3 DEF Swap

\* The scan sets a parameter, the first one of its tensor that is flagged.
LEMMA ScanSetsInv == ASSUME GInv, ScanSets PROVE GInv'
  <1> USE DEF GInv
  <1>1. /\ run = "scan" /\ at <= Len(Params) /\ is_swapped[Params[at]]
        /\ bound' = [bound EXCEPT ![at] = vxhandle[Params[at]]]
        /\ is_swapped' = [is_swapped EXCEPT ![Params[at]] = FALSE]
        /\ cache_list' = Pushed(at) \/ cache_list' = cache_list
        /\ at' = at + 1
        /\ UNCHANGED <<state, vxhandle, handle, is_handle_malloc_by_ovxlib, made, freed, out,
                       lost, is_feature_on, is_cached, run, swaps>>
    BY DEF ScanSets, SetParameter, bufferVars
  <1>2. at \in Param /\ Params[at] \in Tensor /\ at \in Nat
    <2>1. at \in Nat \ {0}
      BY DEF GraphTypeOK
    <2> QED BY <2>1, <1>1, Parameters
  <1>3. cache_list' \in Seq(Param) /\ Len(cache_list') >= Len(cache_list)
    <2>1. cache_list \in Seq(Param) /\ <<at>> \in Seq(Param) /\ Len(<<at>>) = 1
      BY <1>2 DEF GraphTypeOK
    <2>2. Pushed(at) \in Seq(Param) /\ Len(Pushed(at)) = 1 + Len(cache_list)
      BY <2>1 DEF Pushed
    <2> QED BY <1>1, <2>1, <2>2
  <1>4. GraphTypeOK' /\ HasMemory'
    <2>1. TypeOK' /\ HasMemory'
      BY <1>1 DEF GraphTypeOK, TypeOK, HasMemory
    <2>2. bound' \in [Param -> Buffer]
      BY <1>1, <1>2 DEF GraphTypeOK, HasMemory
    <2>3. at' \in 1 .. Len(Params) + Len(cache_list') + 1
      BY <1>1, <1>2, <1>3, Parameters DEF GraphTypeOK
    <2> QED BY <1>1, <1>3, <2>1, <2>2, <2>3 DEF GraphTypeOK
  <1>5. ~Replays /\ ~Replays'
    BY <1>1 DEF Scanning, Replays
  <1>6. Known'
    <2> SUFFICES ASSUME NEW k \in Param, Stale(k)', ~Shared(k) PROVE is_swapped'[Params[k]]
      BY <1>1 DEF Known, Shared
    <2>1. k # at /\ Stale(k)
      BY <1>1, <1>2 DEF Stale, GraphTypeOK
    <2>2. is_swapped[Params[k]]
      BY <2>1, <1>5 DEF Known
    <2>3. Params[k] # Params[at]
      <3>1. CASE k < at
        BY <3>1, <2>2, <1>1 DEF Scanning
      <3>2. CASE at < k
        BY <3>2, <1>2, Parameters DEF Shared
      <3> QED BY <3>1, <3>2, <2>1, <1>2, Parameters
    <2> QED BY <2>2, <2>3, <1>1, Parameters DEF GraphTypeOK, TypeOK
  <1>7. Scanning'
    <2> SUFFICES ASSUME NEW k \in Param, k < at + 1 PROVE ~is_swapped'[Params[k]]
      BY <1>1, <1>5 DEF Scanning
    <2>1. CASE k = at
      BY <2>1, <1>1, <1>2 DEF GraphTypeOK, TypeOK
    <2>2. CASE k < at
      BY <2>2, <1>1, <1>2, Parameters DEF Scanning, GraphTypeOK, TypeOK
    <2> QED BY <2>1, <2>2, <1>2, Parameters
  <1> QED BY <1>1, <1>4, <1>6, <1>7 DEF Replaying, StaleForAReason

\* The replay sets the parameter of the next item.
LEMMA ReplaySetsInv == ASSUME GInv, ReplaySets PROVE GInv'
  <1> USE DEF GInv
  <1>1. /\ run = "replay" /\ at <= Len(cache_list) /\ at' = at + 1
        /\ bound' = [bound EXCEPT ![cache_list[at]] = vxhandle[Params[cache_list[at]]]]
        /\ UNCHANGED <<state, vxhandle, handle, is_handle_malloc_by_ovxlib, is_swapped, made,
                       freed, out, lost, is_feature_on, is_cached, cache_list, run, swaps>>
    BY DEF ReplaySets, SetParameter, tensorVars, handleVars, bufferVars, cacheVars
  <1>2. at \in DOMAIN cache_list /\ cache_list[at] \in Param /\ at \in Nat
    BY <1>1 DEF GraphTypeOK
  <1>3. Params[cache_list[at]] \in Tensor
    BY <1>2, Parameters
  <1>4. GraphTypeOK' /\ HasMemory'
    <2>1. TypeOK' /\ HasMemory'
      BY <1>1 DEF GraphTypeOK, TypeOK, HasMemory
    <2>2. bound' \in [Param -> Buffer]
      BY <1>1, <1>2, <1>3 DEF GraphTypeOK, HasMemory
    <2>3. Len(cache_list) \in Nat
      BY DEF GraphTypeOK
    <2>4. at' \in 1 .. Len(Params) + Len(cache_list') + 1
      BY <1>1, <1>2, <2>3, Parameters
    <2> QED BY <1>1, <2>1, <2>2, <2>4 DEF GraphTypeOK
  <1>5. \A k \in Param : Stale(k)' => Stale(k) /\ k # cache_list[at]
    BY <1>1, <1>2 DEF Stale, GraphTypeOK
  <1>6. Known'
    BY <1>1, <1>5 DEF Known, Replays, Shared
  <1>7. Replaying'
    <2> SUFFICES ASSUME NEW i \in DOMAIN cache_list, i < at + 1 PROVE ~Stale(cache_list[i])'
      BY <1>1 DEF Replaying, Replays
    <2>1. i \in Nat /\ cache_list[i] \in Param
      BY DEF GraphTypeOK
    <2>2. CASE i = at
      BY <2>2, <1>1, <1>2, <1>5 DEF Stale
    <2>3. CASE i < at
      BY <2>1, <2>3, <1>1, <1>5 DEF Replaying, Stale
    <2> QED BY <2>1, <2>2, <2>3, <1>2
  <1> QED BY <1>1, <1>4, <1>6, <1>7 DEF Scanning, StaleForAReason

\* The scan is over: every parameter is set that is not a shared one.
LEMMA ScanEndsInv == ASSUME GInv, ScanEnds PROVE GInv'
  <1> USE DEF GInv
  <1>1. /\ run = "scan" /\ at > Len(Params) /\ run' = "process"
        /\ is_cached' = (is_cached \/ cache_list # <<>>)
        /\ UNCHANGED <<state, vxhandle, handle, is_handle_malloc_by_ovxlib, is_swapped, made,
                       freed, out, lost, bound, is_feature_on, cache_list, at, swaps>>
    BY DEF ScanEnds, tensorVars, handleVars, bufferVars
  <1>2. GraphTypeOK' /\ HasMemory'
    BY <1>1 DEF GraphTypeOK, TypeOK, HasMemory
  <1>3. \A k \in Param : Stale(k) => Shared(k)
    <2> SUFFICES ASSUME NEW k \in Param PROVE ~is_swapped[Params[k]] /\ ~Replays
      BY DEF Known
    <2>1. k < at
      BY <1>1, Parameters DEF GraphTypeOK
    <2> QED BY <2>1, <1>1 DEF Scanning
  <1>4. Known' /\ StaleForAReason'
    BY <1>1, <1>3 DEF Known, StaleForAReason, Stale, Shared
  <1> QED BY <1>1, <1>2, <1>4 DEF Scanning, Replaying

\* The replay is over: every parameter of the list is set.
LEMMA ReplayEndsInv == ASSUME GInv, ReplayEnds PROVE GInv'
  <1> USE DEF GInv
  <1>1. /\ run = "replay" /\ at > Len(cache_list) /\ run' = "process"
        /\ UNCHANGED <<state, vxhandle, handle, is_handle_malloc_by_ovxlib, is_swapped, made,
                       freed, out, lost, bound, is_feature_on, is_cached, cache_list, at, swaps>>
    BY DEF ReplayEnds, tensorVars, handleVars, bufferVars, cacheVars
  <1>2. GraphTypeOK' /\ HasMemory'
    BY <1>1 DEF GraphTypeOK, TypeOK, HasMemory
  <1>3. Known'
    BY <1>1 DEF Known, Stale, Replays, Shared
  <1>4. \A i \in DOMAIN cache_list : ~Stale(cache_list[i])
    <2>1. \A i \in DOMAIN cache_list : i < at
      BY <1>1 DEF GraphTypeOK
    <2> QED BY <2>1, <1>1 DEF Replaying
  <1>5. StaleForAReason'
    <2> SUFFICES ASSUME NEW k \in Param, Stale(k) PROVE Uncached(k)
      BY <1>1 DEF StaleForAReason, Stale, Shared, Uncached
    <2>1. is_cached
      BY <1>1 DEF Replaying, Replays
    <2> QED BY <2>1, <1>4 DEF Uncached
  <1> QED BY <1>1, <1>2, <1>3, <1>5 DEF Scanning, Replaying

\* The remaining steps leave memory, flags and parameters as they are.
LEMMA OtherStepsInv ==
  ASSUME GInv,
         StartRun \/ ScanPast \/ ScanFails \/ ReplayFails \/ Process \/ UNCHANGED graphVars
  PROVE  GInv'
  <1> USE DEF GInv
  <1>1. UNCHANGED <<state, vxhandle, handle, is_handle_malloc_by_ovxlib, is_swapped, made,
                    freed, out, lost, bound, is_feature_on, is_cached, cache_list, swaps>>
    BY DEF StartRun, ScanPast, ScanFails, FlagsIfRunFails, ReplayFails, Process, graphVars,
           tensorVars, handleVars, bufferVars, cacheVars
  <1>2. Known' /\ HasMemory' /\ TypeOK'
    BY <1>1 DEF Known, Stale, Replays, Shared, HasMemory, GraphTypeOK, TypeOK
  <1>3. /\ run' \in {"idle", "replay", "scan", "process"}
        /\ at' \in 1 .. Len(Params) + Len(cache_list) + 1
    <2>1. /\ run \in {"idle", "replay", "scan", "process"}
          /\ at \in 1 .. Len(Params) + Len(cache_list) + 1
          /\ Len(Params) \in Nat /\ Len(cache_list) \in Nat
      BY Parameters DEF GraphTypeOK
    <2>2. CASE StartRun
      BY <2>1, <2>2 DEF StartRun
    <2>3. CASE ScanPast
      BY <2>1, <2>3 DEF ScanPast
    <2>4. CASE ScanFails \/ ReplayFails \/ Process
      BY <2>1, <2>4 DEF ScanFails, ReplayFails, Process
    <2>5. CASE UNCHANGED graphVars
      BY <2>1, <2>5 DEF graphVars, runVars
    <2> QED BY <2>2, <2>3, <2>4, <2>5
  <1>4. GraphTypeOK'
    BY <1>1, <1>2, <1>3 DEF GraphTypeOK
  <1>5. CASE StartRun
    <2>1. /\ at' = 1 /\ run' = IF Replays THEN "replay" ELSE "scan"
      BY <1>5 DEF StartRun
    <2>2. Scanning'
      BY <2>1, <1>1, Parameters DEF Scanning, Replays
    <2>3. Replaying'
      BY <2>1, <1>1 DEF Replaying, Replays, GraphTypeOK
    <2> QED BY <2>1, <2>2, <2>3, <1>2, <1>4 DEF StaleForAReason
  <1>6. CASE ScanPast
    <2>1. run = "scan" /\ run' = "scan" /\ at' = at + 1 /\ ~is_swapped[Params[at]]
      BY <1>6 DEF ScanPast
    <2>2. Scanning'
      <3> SUFFICES ASSUME NEW k \in Param, k < at + 1 PROVE ~is_swapped[Params[k]]
        BY <2>1, <1>1 DEF Scanning, Replays
      <3>1. k = at \/ k < at
        BY Parameters DEF GraphTypeOK
      <3> QED BY <3>1, <2>1 DEF Scanning
    <2> QED BY <2>1, <2>2, <1>2, <1>4 DEF Replaying, StaleForAReason
  <1>7. CASE ScanFails \/ ReplayFails \/ Process
    <2>1. run' = "idle"
      BY <1>7 DEF ScanFails, ReplayFails, Process
    <2> QED BY <2>1, <1>2, <1>4 DEF Scanning, Replaying, StaleForAReason
  <1>8. CASE UNCHANGED graphVars
    BY <1>8, <1>1, <1>2, <1>4
       DEF graphVars, runVars, Scanning, Replaying, StaleForAReason, Stale, Shared, Uncached, Replays
  <1> QED BY <1>5, <1>6, <1>7, <1>8

LEMMA GraphNextInv == GInv /\ [GraphNext]_graphVars => GInv'
  BY SwapInv, ScanSetsInv, ReplaySetsInv, ScanEndsInv, ReplayEndsInv, OtherStepsInv
     DEF GraphNext

THEOREM GraphInvariance == GraphSpec => []GInv
  BY GraphInitInv, GraphNextInv, PTL DEF GraphSpec

\* Every variable has its type, in every graph.
THEOREM GraphTypeCorrect == GraphSpec => []GraphTypeOK
  <1>1. GInv => GraphTypeOK
    BY DEF GInv
  <1> QED BY <1>1, GraphInvariance, PTL

\* Whatever was swapped, and whichever runs have failed, vxProcessGraph works on old
\* memory only for a shared parameter, or one the replayed list does not have.
THEOREM ProcessesKnownMemory == GraphSpec => []StaleForAReason
  <1>1. GInv => StaleForAReason
    BY DEF GInv
  <1> QED BY <1>1, GraphInvariance, PTL

\* A failed run leaves no parameter behind that the next one would not set.
THEOREM FailuresAreRemembered == GraphSpec => []StaleIsKnown
  <1>1. GInv => StaleIsKnown
    BY DEF GInv, Known, StaleIsKnown
  <1> QED BY <1>1, GraphInvariance, PTL
====
