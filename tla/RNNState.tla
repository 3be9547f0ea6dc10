---- MODULE RNNState ----
(***************************************************************************)
(* The state a recurrent graph carries from one run to the next: the       *)
(* connections of vsi_nn_SetupRNNConnections, fed before a run and saved   *)
(* after it, by exchanging the memory of output and input or through a     *)
(* buffer.  A call is the list of the steps it has still to make; a step   *)
(* may fail, and ends its call.  Memory holds the number of the inference  *)
(* that wrote it.                                                          *)
(***************************************************************************)
EXTENDS Naturals, Sequences, SequencesExt

CONSTANTS Connection,
          Inputs,      \* number of input tensors of a connection
          Swappable,   \* connections of two tensors created from handles
          Lists,       \* lists of connections an application sets up
          MaxRuns, MaxCalls  \* bounds of a run

ASSUME ConnectionAssumption ==
  /\ Inputs \in [Connection -> Nat \ {0}]
  /\ \A c \in Swappable : c \in Connection /\ Inputs[c] = 1
  /\ \A l \in Lists : l \in Seq(Connection) /\ IsInjective(l)
  /\ MaxRuns \in Nat /\ MaxCalls \in Nat

VARIABLES
  rnn_wksp,      \* whether there is a workspace
  is_first_run,
  connections,   \* external_connection_list
  buffer,        \* data of a connection's buffer, or Nothing
  input, output, \* contents of the tensors of a connection
  todo,          \* steps of the running call
  cursor,        \* connection the step is at
  pending,       \* a scheduled run is waited for
  inferences,    \* inferences so far
  saved,         \* history: the inference a connection's buffer was saved after
  since_setup,   \* history: inferences since the state was set up or reset
  disturbed,     \* history: since the last good run a call failed, or fed twice
  calls

vars == <<rnn_wksp, is_first_run, connections, buffer, input, output, todo, cursor,
          pending, inferences, saved, since_setup, disturbed, calls>>

\* Contents that no inference wrote.
Zero == 0
App == MaxRuns + 1      \* by the application
Garbage == MaxRuns + 2
Nothing == MaxRuns + 3  \* no data at all

AllInputs(c, v) == [i \in 1 .. Inputs[c] |-> v]

Init ==
  /\ rnn_wksp = FALSE /\ is_first_run = FALSE /\ connections = <<>>
  /\ buffer = [c \in Connection |-> Nothing]
  /\ input = [c \in Connection |-> AllInputs(c, App)]
  /\ output = [c \in Connection |-> Garbage]
  /\ todo = <<>> /\ cursor = 1 /\ pending = FALSE
  /\ inferences = 0 /\ since_setup = 0 /\ calls = 0
  /\ saved = [c \in Connection |-> Nothing] /\ disturbed = FALSE

Listed(c) == c \in Range(connections)
Idle == todo = <<>> /\ ~pending
Called == calls < MaxCalls /\ calls' = calls + 1

\* vsi_nn_rnn_InitWksp: a connection that cannot be set up ends the list, and a buffer
\* that cannot be allocated is not noticed.  n connections are set up.
SetupRNNConnections(list, n, unallocated) ==
  /\ Idle /\ Called
  /\ rnn_wksp' = TRUE /\ is_first_run' = TRUE
  /\ connections' = SubSeq(list, 1, n)
  /\ buffer' = [c \in Connection |->
       IF c \in Range(SubSeq(list, 1, n)) \ (Swappable \cup unallocated) THEN Zero ELSE Nothing]
  /\ input' = [c \in Connection |-> AllInputs(c, App)]
  /\ saved' = [c \in Connection |-> Nothing] /\ since_setup' = 0 /\ disturbed' = FALSE
  /\ UNCHANGED <<output, todo, cursor, pending, inferences>>

\* vsi_nn_rnn_ResetBuffers: n connections are gone through; the n-th may fail.  The
\* application may write the inputs again, or leave what the last run was fed.
ResetRNNBuffers == \E n \in 0 .. Len(connections) : \E writes, ok \in BOOLEAN :
  LET reset == {c \in Range(SubSeq(connections, 1, n)) : c \notin Swappable}
      lost == IF ok THEN {} ELSE {connections[n]}
  IN  /\ Idle /\ rnn_wksp /\ Called
      /\ IF ok THEN n = Len(connections) ELSE n > 0 /\ connections[n] \notin Swappable
      /\ is_first_run' = TRUE
      /\ buffer' = [c \in Connection |-> CASE c \in lost -> Nothing
                                           [] c \in reset \ lost -> Zero
                                           [] OTHER -> buffer[c]]
      /\ input' = IF writes THEN [c \in Connection |-> AllInputs(c, App)] ELSE input
      /\ saved' = [c \in Connection |-> Nothing] /\ since_setup' = 0 /\ disturbed' = FALSE
      /\ UNCHANGED <<rnn_wksp, connections, output, todo, cursor, pending, inferences>>

-----------------------------------------------------------------------------
\* Calls.

RunSteps == <<"feed", "process", "save">>
Call(steps) ==
  /\ Called /\ inferences < MaxRuns /\ rnn_wksp
  /\ todo' = steps /\ cursor' = 1
  /\ UNCHANGED <<rnn_wksp, is_first_run, connections, buffer, input, output, pending,
                 inferences, saved, since_setup>>

RunGraph == Idle /\ Call(RunSteps) /\ UNCHANGED disturbed

\* vsi_nn_rnn_RunGraph feeds and saves around a run that feeds and saves.
RnnRunGraph ==
  Idle /\ Call(<<"feed", "feed", "process", "save", "save">>) /\ disturbed' = TRUE

AsyncRunGraph == Idle /\ Call(<<"feed", "schedule">>) /\ UNCHANGED disturbed

AsyncRunWait ==
  /\ pending /\ todo = <<>>
  /\ todo' = <<"process", "save">> /\ cursor' = 1 /\ pending' = FALSE
  /\ UNCHANGED <<rnn_wksp, is_first_run, connections, buffer, input, output, inferences,
                 saved, since_setup, disturbed, calls>>

\* mutant: the call goes on
Fails_GoOn ==
  /\ disturbed' = TRUE /\ todo' = Tail(todo) /\ cursor' = 1
  /\ UNCHANGED <<rnn_wksp, connections, calls>>

\* A step fails, and with it the call.
Fails ==
  /\ disturbed' = TRUE /\ todo' = <<>> /\ cursor' = 1
  /\ UNCHANGED <<rnn_wksp, connections, calls>>

\* The step is done with one connection, or over.
NextConnection ==
  /\ cursor' = cursor + 1
  /\ UNCHANGED <<rnn_wksp, connections, todo, calls, disturbed>>
StepDone ==
  /\ todo' = Tail(todo) /\ cursor' = 1
  /\ disturbed' = (disturbed /\ Len(todo) > 1)
  /\ UNCHANGED <<rnn_wksp, connections, calls>>

At(step) == todo # <<>> /\ Head(todo) = step

-----------------------------------------------------------------------------
\* vsi_nn_rnn_feed_internal_state.

\* mutant: the flag stays
FeedFirst_Again ==
  /\ At("feed") /\ is_first_run
  /\ is_first_run' = TRUE
  /\ StepDone
  /\ UNCHANGED <<buffer, input, output, pending, inferences, saved, since_setup>>

FeedFirst ==
  /\ At("feed") /\ is_first_run
  /\ is_first_run' = FALSE
  /\ StepDone
  /\ UNCHANGED <<buffer, input, output, pending, inferences, saved, since_setup>>

FeedSwap == \E ok \in BOOLEAN :
  /\ At("feed") /\ ~is_first_run /\ cursor <= Len(connections)
  /\ LET c == connections[cursor]
     IN  /\ c \in Swappable
         /\ IF ok THEN /\ input' = [input EXCEPT ![c] = <<output[c]>>]
                       /\ output' = [output EXCEPT ![c] = input[c][1]]
                       /\ NextConnection
                  ELSE Fails /\ UNCHANGED <<input, output>>
  /\ UNCHANGED <<is_first_run, buffer, pending, inferences, saved, since_setup>>

\* The buffer is copied to n inputs.
FeedCopy ==
  /\ At("feed") /\ ~is_first_run /\ cursor <= Len(connections)
  /\ LET c == connections[cursor]
     IN  /\ c \notin Swappable
         /\ \E n \in 0 .. Inputs[c] :
              /\ n > 0 => buffer[c] # Nothing
              /\ input' = [input EXCEPT ![c] =
                             [i \in 1 .. Inputs[c] |-> IF i <= n THEN buffer[c] ELSE @[i]]]
              /\ IF n = Inputs[c] THEN NextConnection ELSE Fails
  /\ UNCHANGED <<is_first_run, buffer, output, pending, inferences, saved, since_setup>>

FeedDone ==
  /\ At("feed") /\ ~is_first_run /\ cursor > Len(connections)
  /\ StepDone
  /\ UNCHANGED <<is_first_run, buffer, input, output, pending, inferences, saved, since_setup>>

-----------------------------------------------------------------------------
\* vxProcessGraph, or vxScheduleGraph and vxWaitGraph: a run that fails may have
\* written its outputs.  The step begins with _check_swapped_tensors, which may fail too.

Process == \E ok \in BOOLEAN :
  /\ At("process")
  /\ IF ok
     THEN /\ inferences' = inferences + 1 /\ since_setup' = since_setup + 1
          /\ output' = [c \in Connection |-> inferences + 1]
          /\ StepDone
     ELSE /\ output' \in {output, [c \in Connection |-> Garbage]}
          /\ Fails
          /\ UNCHANGED <<inferences, since_setup>>
  /\ UNCHANGED <<is_first_run, buffer, input, pending, saved>>

Schedule == \E ok \in BOOLEAN :
  /\ At("schedule")
  /\ pending' = ok
  /\ IF ok THEN todo' = <<>> /\ cursor' = 1 /\ UNCHANGED <<rnn_wksp, connections, calls, disturbed>>
           ELSE Fails
  /\ UNCHANGED <<is_first_run, buffer, input, output, inferences, saved, since_setup>>

-----------------------------------------------------------------------------
\* vsi_nn_rnn_save_internal_state.

SaveConnection == \E ok \in BOOLEAN :
  /\ At("save") /\ cursor <= Len(connections)
  /\ LET c == connections[cursor]
     IN  CASE c \in Swappable -> ok /\ NextConnection /\ UNCHANGED <<buffer, saved>>
           [] c \notin Swappable /\ ok /\ buffer[c] # Nothing ->
                /\ buffer' = [buffer EXCEPT ![c] = output[c]]
                /\ saved' = [saved EXCEPT ![c] = inferences]
                /\ NextConnection
           [] OTHER -> Fails /\ UNCHANGED <<buffer, saved>>
  /\ UNCHANGED <<is_first_run, input, output, pending, inferences, since_setup>>

SaveDone ==
  /\ At("save") /\ cursor > Len(connections)
  /\ StepDone
  /\ UNCHANGED <<is_first_run, buffer, input, output, pending, inferences, saved, since_setup>>

Next ==
  \/ \E list \in Lists : \E n \in 0 .. Len(list) :
       \E unallocated \in SUBSET (Connection \ Swappable) :
         SetupRNNConnections(list, n, unallocated)
  \/ ResetRNNBuffers
  \/ RunGraph \/ RnnRunGraph \/ AsyncRunGraph \/ AsyncRunWait
  \/ FeedFirst \/ FeedSwap \/ FeedCopy \/ FeedDone
  \/ Process \/ Schedule \/ SaveConnection \/ SaveDone

Spec == Init /\ [][Next]_vars

-----------------------------------------------------------------------------

\* An inference begins.
Begins == At("process")

\* Every input of every connection holds what the inference before left in the output,
\* through synchronous and asynchronous runs, swaps and buffers.  The exceptions: the
\* first run after a set-up or a reset, and a call since the last good run that failed,
\* or went through vsi_nn_rnn_RunGraph.
StateCarriesOver ==
  Begins /\ since_setup > 0 /\ ~disturbed =>
    \A c \in Range(connections) : input[c] = AllInputs(c, inferences)

\* A state that was saved to a buffer outlives every failure: the next inference gets
\* it, whatever was fed halfway and whatever a failed run has left in the outputs.
SavedStateSurvives ==
  Begins => \A c \in Range(connections) \ Swappable :
    saved[c] = inferences => input[c] = AllInputs(c, inferences)
====
