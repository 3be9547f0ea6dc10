---- MODULE RNNStateProofs ----
(***************************************************************************)
(* The state that recurrent graphs carry over, for any connections, lists  *)
(* of them and numbers of runs.  The invariant follows a call through its  *)
(* steps: where the state is before a feed, how far the feed has got, that *)
(* it stays fed until the inference, and how far the save has got.         *)
(***************************************************************************)
EXTENDS RNNState, SequenceTheorems, TLAPS

\* What is left of a call.
Plans == {<<"feed", "feed", "process", "save", "save">>, <<"feed", "process", "save", "save">>,
          <<"process", "save", "save">>, <<"save", "save">>, <<"feed", "process", "save">>,
          <<"process", "save">>, <<"save">>, <<"feed", "schedule">>, <<"schedule">>, <<>>}

Kinds ==
  /\ rnn_wksp \in BOOLEAN /\ is_first_run \in BOOLEAN /\ pending \in BOOLEAN
  /\ disturbed \in BOOLEAN
  /\ connections \in Seq(Connection) /\ IsInjective(connections)
  /\ buffer \in [Connection -> Nat] /\ saved \in [Connection -> Nat]
  /\ output \in [Connection -> Nat]
  /\ DOMAIN input = Connection
  /\ \A c \in Connection : input[c] \in [1 .. Inputs[c] -> Nat]
  /\ todo \in Plans /\ cursor \in Nat \ {0}
  /\ inferences \in Nat /\ since_setup \in Nat

\* The inputs wait for the inference.
Loaded == At("process") \/ At("schedule") \/ pending

\* The bound of runs keeps the numbers of inferences apart from other contents.
Counted ==
  /\ inferences <= MaxRuns
  /\ Loaded \/ At("feed") => inferences < MaxRuns

Ordered ==
  /\ pending => todo = <<>>
  /\ Len(todo) = 5 => disturbed
  /\ is_first_run => since_setup = 0 /\ \A c \in Connection : saved[c] = Nothing
  /\ Loaded \/ At("save") => ~is_first_run

Places == 1 .. Len(connections)
Buffered(k) == connections[k] \notin Swappable

\* The buffer holds what was saved.
BufferIsSaved ==
  \A c \in Connection \ Swappable : saved[c] # Nothing => buffer[c] = saved[c]

\* The inference has written the outputs, and the save got as far as the cursor.
Saving ==
  At("save") =>
    /\ \A c \in Connection : output[c] = inferences
    /\ \A k \in Places : k < cursor /\ Buffered(k) => buffer[connections[k]] = inferences

\* A connection that is at place k has got what was saved.
Fed(k) ==
  Buffered(k) /\ saved[connections[k]] # Nothing =>
    input[connections[k]] = AllInputs(connections[k], saved[connections[k]])

Feeding ==
  /\ At("feed") /\ ~is_first_run => \A k \in Places : k < cursor => Fed(k)
  /\ Loaded => \A k \in Places : Fed(k)

\* What is to be fed comes from the last inference, or what was fed.
Source(c) == IF c \in Swappable THEN output[c] = inferences ELSE buffer[c] = inferences
Current(c) == input[c] = AllInputs(c, inferences)

Carrying ==
  ~disturbed /\ since_setup > 0 =>
    /\ Idle => \A k \in Places : Source(connections[k])
    /\ At("feed") => \A k \in Places :
         IF k < cursor THEN Current(connections[k]) ELSE Source(connections[k])
    /\ Loaded => \A k \in Places : Current(connections[k])

IInv == Kinds /\ Counted /\ Ordered /\ BufferIsSaved /\ Saving /\ Feeding /\ Carrying

-----------------------------------------------------------------------------

\* A feed is followed by a second one, the inference or its scheduling; an inference by a
\* save; and a save by a second one or nothing.
GoesOn(p) ==
  /\ Tail(p) \in Plans /\ Len(Tail(p)) # 5
  /\ Head(p) = "feed" =>
       /\ Tail(p) # <<>> /\ Len(p) > 1 /\ Head(Tail(p)) \in {"feed", "process", "schedule"}
       /\ Head(Tail(p)) = "feed" => Len(p) = 5
  /\ Head(p) = "process" => Tail(p) # <<>> /\ Len(p) > 1 /\ Head(Tail(p)) = "save"
  /\ Head(p) = "save" => Tail(p) = <<>> \/ Head(Tail(p)) = "save"

LEMMA PlanSteps == ASSUME NEW p \in Plans, p # <<>> PROVE GoesOn(p)
  <1>1. CASE p = <<"feed", "feed", "process", "save", "save">>
    <2>1. Tail(p) = <<"feed", "process", "save", "save">>
      BY <1>1
    <2> QED BY <1>1, <2>1 DEF Plans, GoesOn
  <1>2. CASE p = <<"feed", "process", "save", "save">>
    <2>1. Tail(p) = <<"process", "save", "save">>
      BY <1>2
    <2> QED BY <1>2, <2>1 DEF Plans, GoesOn
  <1>3. CASE p = <<"process", "save", "save">>
    <2>1. Tail(p) = <<"save", "save">>
      BY <1>3
    <2> QED BY <1>3, <2>1 DEF Plans, GoesOn
  <1>4. CASE p = <<"save", "save">>
    <2>1. Tail(p) = <<"save">>
      BY <1>4
    <2> QED BY <1>4, <2>1 DEF Plans, GoesOn
  <1>5. CASE p = <<"feed", "process", "save">>
    <2>1. Tail(p) = <<"process", "save">>
      BY <1>5
    <2> QED BY <1>5, <2>1 DEF Plans, GoesOn
  <1>6. CASE p = <<"process", "save">>
    <2>1. Tail(p) = <<"save">>
      BY <1>6
    <2> QED BY <1>6, <2>1 DEF Plans, GoesOn
  <1>7. CASE p = <<"save">>
    <2>1. Tail(p) = <<>>
      BY <1>7
    <2> QED BY <1>7, <2>1 DEF Plans, GoesOn
  <1>8. CASE p = <<"feed", "schedule">>
    <2>1. Tail(p) = <<"schedule">>
      BY <1>8
    <2> QED BY <1>8, <2>1 DEF Plans, GoesOn
  <1>9. CASE p = <<"schedule">>
    <2>1. Tail(p) = <<>>
      BY <1>9
    <2> QED BY <1>9, <2>1 DEF Plans, GoesOn
  <1> QED BY <1>1, <1>2, <1>3, <1>4, <1>5, <1>6, <1>7, <1>8, <1>9 DEF Plans

LEMMA AfterFeed ==
  ASSUME IInv, At("feed"), StepDone
  PROVE  /\ todo' \in Plans /\ todo' # <<>> /\ ~At("save")' /\ disturbed' = disturbed
         /\ Len(todo') # 5 /\ cursor' = 1
         /\ At("feed")' => disturbed
  <1>1. todo \in Plans /\ todo # <<>> /\ Head(todo) = "feed" /\ disturbed \in BOOLEAN
    BY DEF IInv, Kinds, At
  <1>2. /\ Tail(todo) \in Plans /\ Tail(todo) # <<>> /\ Len(todo) > 1 /\ Len(Tail(todo)) # 5
        /\ Head(Tail(todo)) \in {"feed", "process", "schedule"}
        /\ Head(Tail(todo)) = "feed" => Len(todo) = 5
    <2>1. GoesOn(todo)
      BY <1>1, PlanSteps
    <2> QED BY <1>1, <2>1 DEF GoesOn
  <1>3. todo' = Tail(todo) /\ cursor' = 1 /\ disturbed' = disturbed
    BY <1>1, <1>2 DEF StepDone
  <1> QED BY <1>2, <1>3 DEF At, IInv, Ordered

LEMMA AfterProcess ==
  ASSUME IInv, At("process"), StepDone
  PROVE  /\ todo' \in Plans /\ At("save")' /\ disturbed' = disturbed
         /\ Len(todo') # 5 /\ cursor' = 1
  <1>1. todo \in Plans /\ todo # <<>> /\ Head(todo) = "process" /\ disturbed \in BOOLEAN
    BY DEF IInv, Kinds, At
  <1>2. /\ Tail(todo) \in Plans /\ Tail(todo) # <<>> /\ Len(todo) > 1 /\ Len(Tail(todo)) # 5
        /\ Head(Tail(todo)) = "save"
    <2>1. GoesOn(todo)
      BY <1>1, PlanSteps
    <2> QED BY <1>1, <2>1 DEF GoesOn
  <1>3. todo' = Tail(todo) /\ cursor' = 1 /\ disturbed' = disturbed
    BY <1>1, <1>2 DEF StepDone
  <1> QED BY <1>2, <1>3 DEF At

LEMMA AfterSave ==
  ASSUME IInv, At("save"), StepDone
  PROVE  /\ todo' \in Plans /\ Len(todo') # 5 /\ cursor' = 1 /\ disturbed' \in BOOLEAN
         /\ todo' # <<>> => At("save")'
  <1>1. todo \in Plans /\ todo # <<>> /\ Head(todo) = "save"
    BY DEF IInv, Kinds, At
  <1>2. /\ Tail(todo) \in Plans /\ Len(Tail(todo)) # 5
        /\ Tail(todo) # <<>> => Head(Tail(todo)) = "save"
    <2>1. GoesOn(todo)
      BY <1>1, PlanSteps
    <2> QED BY <1>1, <2>1 DEF GoesOn
  <1>3. todo' = Tail(todo) /\ cursor' = 1 /\ disturbed' \in BOOLEAN
    BY DEF StepDone
  <1> QED BY <1>2, <1>3 DEF At

\* A call that fails leaves nothing to be fed or saved, and nothing to be relied on.
LEMMA AfterFailure ==
  ASSUME IInv, Fails, pending' = FALSE,
         is_first_run' = is_first_run, since_setup' = since_setup,
         UNCHANGED <<inferences, saved>>, BufferIsSaved',
         buffer' \in [Connection -> Nat], output' \in [Connection -> Nat],
         DOMAIN input' = Connection, \A c \in Connection : input'[c] \in [1 .. Inputs[c] -> Nat]
  PROVE  IInv'
  <1>1. todo' = <<>> /\ cursor' = 1 /\ disturbed' = TRUE /\ UNCHANGED <<rnn_wksp, connections>>
    BY DEF Fails
  <1>2. todo' \in Plans /\ Len(todo') # 5
    BY <1>1 DEF Plans
  <1>3. ~Loaded' /\ ~At("feed")' /\ ~At("save")'
    BY <1>1 DEF Loaded, At
  <1>4. Kinds'
    BY <1>1, <1>2 DEF IInv, Kinds
  <1>5. Ordered' /\ Counted'
    BY <1>1, <1>2, <1>3 DEF IInv, Ordered, Counted
  <1> QED BY <1>1, <1>3, <1>4, <1>5 DEF IInv, Saving, Feeding, Carrying

-----------------------------------------------------------------------------

USE ConnectionAssumption

LEMMA ContentsAreNat == Zero \in Nat /\ App \in Nat /\ Garbage \in Nat /\ Nothing \in Nat
  BY DEF Zero, App, Garbage, Nothing

LEMMA AllInputsType ==
  ASSUME NEW c \in Connection, NEW v \in Nat PROVE AllInputs(c, v) \in [1 .. Inputs[c] -> Nat]
  BY DEF AllInputs

LEMMA PlacesAre ==
  ASSUME IInv PROVE /\ Len(connections) \in Nat
                    /\ \A k \in Places : connections[k] \in Connection
                    /\ \A k, l \in Places : connections[k] = connections[l] => k = l
                    /\ Range(connections) = {connections[k] : k \in Places}
  <1>1. connections \in Seq(Connection) /\ IsInjective(connections)
    BY DEF IInv, Kinds
  <1>2. Len(connections) \in Nat /\ DOMAIN connections = Places
    BY <1>1, LenProperties DEF Places
  <1>3. \A k \in Places : connections[k] \in Connection
    BY <1>1, ElementOfSeq DEF Places
  <1> QED BY <1>1, <1>2, <1>3 DEF IsInjective, Range

LEMMA InitInv == Init => IInv
  <1> SUFFICES ASSUME Init PROVE IInv
    OBVIOUS
  <1>1. todo = <<>> /\ pending = FALSE /\ connections = <<>>
    BY DEF Init
  <1>2. ~Loaded /\ ~At("feed") /\ ~At("save") /\ Places = {} /\ todo \in Plans /\ Len(todo) # 5
    BY <1>1 DEF Loaded, At, Places, Plans
  <1>3. \A c \in Connection : AllInputs(c, App) \in [1 .. Inputs[c] -> Nat]
    BY ContentsAreNat, AllInputsType
  <1>4. connections \in Seq(Connection) /\ IsInjective(connections)
    BY <1>1 DEF IsInjective
  <1>5. Kinds
    BY <1>2, <1>3, <1>4, ContentsAreNat DEF Init, Kinds
  <1>6. BufferIsSaved /\ Counted /\ Ordered
    BY <1>1, <1>2 DEF Init, BufferIsSaved, Counted, Ordered
  <1> QED BY <1>2, <1>5, <1>6 DEF Init, IInv, Saving, Feeding, Carrying

\* Between calls, with nothing saved and no inference to be carried over.
LEMMA StartsAfresh ==
  ASSUME Idle, UNCHANGED <<todo, cursor, pending, output, inferences>>, IInv,
         rnn_wksp' = TRUE, is_first_run' = TRUE, disturbed' = FALSE, since_setup' = 0,
         saved' = [c \in Connection |-> Nothing],
         connections' \in Seq(Connection), IsInjective(connections)',
         buffer' \in [Connection -> Nat], DOMAIN input' = Connection,
         \A c \in Connection : input'[c] \in [1 .. Inputs[c] -> Nat]
  PROVE  IInv'
  <1>1. ~Loaded' /\ ~At("feed")' /\ ~At("save")' /\ todo' = <<>> /\ pending' = FALSE
    BY DEF Idle, Loaded, At, IInv, Kinds
  <1>2. Kinds'
    BY <1>1, ContentsAreNat DEF IInv, Kinds
  <1>3. Counted' /\ Ordered' /\ BufferIsSaved'
    BY <1>1 DEF IInv, Counted, Ordered, BufferIsSaved
  <1> QED BY <1>1, <1>2, <1>3 DEF IInv, Saving, Feeding, Carrying

LEMMA SetupInv ==
  ASSUME IInv, NEW list \in Lists, NEW n \in 0 .. Len(list),
         NEW unallocated \in SUBSET (Connection \ Swappable),
         SetupRNNConnections(list, n, unallocated)
  PROVE  IInv'
  <1> USE DEF SetupRNNConnections
  <1>1. list \in Seq(Connection) /\ IsInjective(list)
    OBVIOUS
  <1>2. /\ SubSeq(list, 1, n) \in Seq(Connection) /\ Len(SubSeq(list, 1, n)) = n
        /\ \A i \in 1 .. n : SubSeq(list, 1, n)[i] = list[i]
    BY <1>1, SubSeqProperties
  <1>3. IsInjective(SubSeq(list, 1, n))
    <2>1. DOMAIN SubSeq(list, 1, n) = 1 .. n /\ 1 .. n \subseteq DOMAIN list
      BY <1>1, <1>2, LenProperties
    <2> QED BY <1>1, <1>2, <2>1 DEF IsInjective
  <1>4. buffer' \in [Connection -> Nat]
    BY ContentsAreNat
  <1>5. /\ DOMAIN input' = Connection
        /\ \A c \in Connection : input'[c] \in [1 .. Inputs[c] -> Nat]
    BY ContentsAreNat, AllInputsType
  <1> QED BY <1>2, <1>3, <1>4, <1>5, StartsAfresh

LEMMA ResetInv == IInv /\ ResetRNNBuffers => IInv'
  <1> SUFFICES ASSUME IInv, ResetRNNBuffers PROVE IInv'
    OBVIOUS
  <1>0. PICK n \in 0 .. Len(connections), writes \in BOOLEAN, ok \in BOOLEAN :
          /\ Idle /\ rnn_wksp /\ is_first_run' = TRUE
          /\ LET reset == {c \in Range(SubSeq(connections, 1, n)) : c \notin Swappable}
                 lost == IF ok THEN {} ELSE {connections[n]}
             IN  buffer' = [c \in Connection |-> CASE c \in lost -> Nothing
                                                   [] c \in reset \ lost -> Zero
                                                   [] OTHER -> buffer[c]]
          /\ input' = IF writes THEN [c \in Connection |-> AllInputs(c, App)] ELSE input
          /\ saved' = [c \in Connection |-> Nothing]
          /\ since_setup' = 0 /\ disturbed' = FALSE
          /\ UNCHANGED <<rnn_wksp, connections, output, todo, cursor, pending, inferences>>
    BY DEF ResetRNNBuffers
  <1>1. buffer' \in [Connection -> Nat]
    <2>1. \A c \in Connection : buffer[c] \in Nat
      BY DEF IInv, Kinds
    <2> QED BY <1>0, <2>1, ContentsAreNat
  <1>2. DOMAIN input' = Connection /\ \A c \in Connection : input'[c] \in [1 .. Inputs[c] -> Nat]
    <2>1. CASE writes
      BY <1>0, <2>1, ContentsAreNat, AllInputsType
    <2>2. CASE ~writes
      BY <1>0, <2>2 DEF IInv, Kinds
    <2> QED BY <2>1, <2>2
  <1>3. connections' \in Seq(Connection) /\ IsInjective(connections)' /\ rnn_wksp' = TRUE
    BY <1>0 DEF IInv, Kinds
  <1> QED BY <1>0, <1>1, <1>2, <1>3, StartsAfresh

-----------------------------------------------------------------------------
\* Calls begin.

LEMMA CallInv ==
  ASSUME IInv, Idle, NEW steps \in Plans, Call(steps), disturbed' \in BOOLEAN,
         steps # <<>>, Head(steps) = "feed", Len(steps) = 5 => disturbed', ~disturbed' => ~disturbed
  PROVE  IInv'
  <1>1. /\ todo' = steps /\ cursor' = 1 /\ inferences < MaxRuns
        /\ UNCHANGED <<rnn_wksp, is_first_run, connections, buffer, input, output, pending,
                       inferences, saved, since_setup>>
    BY DEF Call
  <1>2. ~pending' /\ ~Loaded' /\ ~At("save")' /\ todo' # <<>>
    BY <1>1 DEF Idle, Loaded, At
  <1>3. Kinds'
    BY <1>1 DEF IInv, Kinds
  <1>4. Counted' /\ Ordered' /\ BufferIsSaved'
    BY <1>1, <1>2 DEF IInv, Counted, Ordered, BufferIsSaved
  <1>5. Saving' /\ Feeding'
    BY <1>1, <1>2, PlacesAre DEF Saving, Feeding, Places
  <1>6. Carrying'
    <2> SUFFICES ASSUME ~disturbed', since_setup > 0, NEW k \in Places
                 PROVE  Source(connections[k])'
      BY <1>1, <1>2, PlacesAre DEF Carrying, Idle, Places
    <2>1. Source(connections[k])
      BY DEF IInv, Carrying
    <2> QED BY <1>1, <2>1 DEF Source
  <1> QED BY <1>3, <1>4, <1>5, <1>6 DEF IInv

LEMMA CallsInv == IInv /\ (RunGraph \/ RnnRunGraph \/ AsyncRunGraph) => IInv'
  <1> SUFFICES ASSUME IInv, RunGraph \/ RnnRunGraph \/ AsyncRunGraph PROVE IInv'
    OBVIOUS
  <1>1. CASE RunGraph
    <2> DEFINE steps == RunSteps
    <2>1. steps \in Plans /\ Len(steps) = 3 /\ steps # <<>> /\ Head(steps) = "feed"
      BY DEF RunSteps, Plans
    <2>2. Call(steps) /\ Idle /\ disturbed' = disturbed
      BY <1>1 DEF RunGraph
    <2> HIDE DEF steps
    <2>3. disturbed \in BOOLEAN
      BY DEF IInv, Kinds
    <2> QED BY <2>1, <2>2, <2>3, CallInv
  <1>2. CASE RnnRunGraph
    <2> DEFINE twice == <<"feed", "feed", "process", "save", "save">>
    <2>2. twice \in Plans /\ twice # <<>> /\ Head(twice) = "feed"
      BY DEF Plans
    <2>3. Call(twice) /\ Idle /\ disturbed' = TRUE
      BY <1>2 DEF RnnRunGraph
    <2> HIDE DEF twice
    <2> QED BY <2>2, <2>3, CallInv
  <1>3. CASE AsyncRunGraph
    <2> DEFINE steps == <<"feed", "schedule">>
    <2>1. steps \in Plans /\ Len(steps) = 2 /\ steps # <<>> /\ Head(steps) = "feed"
      BY DEF Plans
    <2>2. Call(steps) /\ Idle /\ disturbed' = disturbed
      BY <1>3 DEF AsyncRunGraph
    <2> HIDE DEF steps
    <2>3. disturbed \in BOOLEAN
      BY DEF IInv, Kinds
    <2> QED BY <2>1, <2>2, <2>3, CallInv
  <1> QED BY <1>1, <1>2, <1>3

\* What was fed stays fed while a scheduled run is waited for.
LEMMA WaitInv == IInv /\ AsyncRunWait => IInv'
  <1> SUFFICES ASSUME IInv, AsyncRunWait PROVE IInv'
    OBVIOUS
  <1>1. /\ pending /\ todo' = <<"process", "save">> /\ cursor' = 1 /\ pending' = FALSE
        /\ UNCHANGED <<rnn_wksp, is_first_run, connections, buffer, input, output, inferences,
                       saved, since_setup, disturbed>>
    BY DEF AsyncRunWait
  <1>2. /\ todo' \in Plans /\ Len(todo') = 2 /\ Loaded /\ Loaded' /\ ~At("feed")' /\ ~At("save")'
        /\ todo' # <<>>
    BY <1>1 DEF Plans, Loaded, At
  <1>3. Kinds'
    <2>1. cursor' \in Nat \ {0}
      BY <1>1
    <2>2. pending' \in BOOLEAN
      BY <1>1, Zenon
    <2> QED BY <1>1, <1>2, <2>1, <2>2 DEF IInv, Kinds
  <1>6. Counted' /\ Ordered' /\ BufferIsSaved' /\ Saving'
    BY <1>1, <1>2 DEF IInv, Counted, Ordered, BufferIsSaved, Saving
  <1>4. Feeding'
    <2>1. \A k \in Places : Fed(k)
      BY <1>2 DEF IInv, Feeding
    <2> QED BY <1>1, <1>2, <2>1 DEF Feeding, Fed, Places, Buffered
  <1>5. Carrying'
    <2> SUFFICES ASSUME ~disturbed, since_setup > 0, NEW k \in Places
                 PROVE  Current(connections[k])'
      BY <1>1, <1>2 DEF Carrying, Idle, Places
    <2>1. Current(connections[k])
      BY <1>2 DEF IInv, Carrying
    <2> QED BY <1>1, <2>1 DEF Current
  <1> QED BY <1>3, <1>4, <1>5, <1>6 DEF IInv

-----------------------------------------------------------------------------
\* The steps of a feed.

\* A feed ends when every connection is fed, or has nothing to be fed.
LEMMA FeedEnds ==
  ASSUME IInv, At("feed"), StepDone, is_first_run' = FALSE,
         UNCHANGED <<buffer, input, output, pending, inferences, saved, since_setup>>,
         \A k \in Places : Fed(k),
         ~disturbed /\ since_setup > 0 => \A k \in Places : Current(connections[k])
  PROVE  IInv'
  <1>1. /\ todo' \in Plans /\ todo' # <<>> /\ ~At("save")' /\ disturbed' = disturbed
        /\ Len(todo') # 5 /\ cursor' = 1 /\ (At("feed")' => disturbed)
    BY AfterFeed
  <1>2. UNCHANGED <<rnn_wksp, connections>> /\ todo # <<>> /\ pending = FALSE
    BY DEF StepDone, At, IInv, Ordered, Kinds
  <1>3. Kinds'
    <2>1. cursor' \in Nat \ {0} /\ disturbed' \in BOOLEAN
      BY <1>1 DEF IInv, Kinds
    <2> QED BY <1>1, <1>2, <2>1 DEF IInv, Kinds
  <1>4. Counted' /\ Ordered' /\ BufferIsSaved' /\ Saving'
    BY <1>1, <1>2 DEF IInv, Counted, Ordered, BufferIsSaved, Saving
  <1>5. Feeding'
    BY <1>1, <1>2, PlacesAre DEF Feeding, Fed, Places, Buffered
  <1>6. Carrying'
    BY <1>1, <1>2 DEF Carrying, Current, Places, Idle
  <1> QED BY <1>3, <1>4, <1>5, <1>6 DEF IInv

LEMMA FeedFirstInv == IInv /\ FeedFirst => IInv'
  <1> SUFFICES ASSUME IInv, FeedFirst PROVE IInv'
    OBVIOUS
  <1>1. since_setup = 0 /\ \A c \in Connection : saved[c] = Nothing
    BY DEF IInv, Ordered, FeedFirst
  <1>2. \A k \in Places : Fed(k)
    BY <1>1, PlacesAre DEF Fed
  <1>3. ~(since_setup > 0)
    BY <1>1
  <1> QED BY <1>2, <1>3, FeedEnds DEF FeedFirst

LEMMA FeedDoneInv == IInv /\ FeedDone => IInv'
  <1> SUFFICES ASSUME IInv, FeedDone PROVE IInv'
    OBVIOUS
  <1>1. \A k \in Places : k < cursor
    BY PlacesAre DEF FeedDone, Places, IInv, Kinds
  <1>2. \A k \in Places : Fed(k)
    BY <1>1 DEF IInv, Feeding, FeedDone
  <1>3. ~disturbed /\ since_setup > 0 => \A k \in Places : Current(connections[k])
    BY <1>1 DEF IInv, Carrying, FeedDone
  <1>4. is_first_run' = FALSE
    BY DEF FeedDone, IInv, Kinds
  <1> QED BY <1>2, <1>3, <1>4, FeedEnds DEF FeedDone

\* One connection is fed, and the others are as they were.
LEMMA FeedsOne ==
  ASSUME IInv, At("feed"), ~is_first_run, cursor <= Len(connections), NextConnection,
         UNCHANGED <<is_first_run, buffer, pending, inferences, saved, since_setup>>,
         output' \in [Connection -> Nat], DOMAIN input' = Connection,
         \A c \in Connection : input'[c] \in [1 .. Inputs[c] -> Nat],
         \A c \in Connection \ {connections[cursor]} : input'[c] = input[c] /\ output'[c] = output[c],
         connections[cursor] \notin Swappable =>
           input'[connections[cursor]] = AllInputs(connections[cursor], buffer[connections[cursor]]),
         connections[cursor] \in Swappable =>
           input'[connections[cursor]] = AllInputs(connections[cursor], output[connections[cursor]])
  PROVE  IInv'
  <1>1. /\ cursor' = cursor + 1 /\ UNCHANGED <<rnn_wksp, connections, todo, disturbed>>
        /\ cursor \in Places /\ Places' = Places
    BY PlacesAre DEF NextConnection, IInv, Kinds, Places
  <1>2. At("feed")' /\ ~Loaded' /\ ~At("save")' /\ ~Loaded /\ ~Idle'
    BY <1>1 DEF At, Loaded, IInv, Ordered, Idle
  <1>3. Kinds'
    <2>1. cursor' \in Nat \ {0} /\ todo' \in Plans /\ disturbed' \in BOOLEAN
      BY <1>1 DEF IInv, Kinds
    <2> QED BY <1>1, <2>1 DEF IInv, Kinds
  <1>4. Counted' /\ Ordered' /\ BufferIsSaved' /\ Saving'
    BY <1>1, <1>2 DEF IInv, Counted, Ordered, BufferIsSaved, Saving
  <1>5. ASSUME NEW k \in Places, k # cursor
        PROVE  /\ connections[k] \in Connection \ {connections[cursor]}
               /\ k < cursor' => k < cursor
    <2>1. connections[k] # connections[cursor] /\ connections[k] \in Connection
      BY <1>1, <1>5, PlacesAre
    <2>2. cursor \in Nat /\ k \in Nat /\ cursor' = cursor + 1
      BY <1>1 DEF Places
    <2> QED BY <2>1, <2>2, <1>5
  <1>6. Feeding'
    <2> SUFFICES ASSUME NEW k \in Places, k < cursor' PROVE Fed(k)'
      BY <1>1, <1>2 DEF Feeding
    <2>1. CASE k = cursor
      <3>1. connections[k] \in Connection
        BY PlacesAre
      <3> QED BY <2>1, <3>1, <1>1 DEF Fed, Buffered, IInv, BufferIsSaved
    <2>2. CASE k # cursor
      <3>1. Fed(k)
        BY <2>2, <1>5 DEF IInv, Feeding
      <3> QED BY <2>2, <3>1, <1>1, <1>5 DEF Fed, Buffered
    <2> QED BY <2>1, <2>2
  <1>7. Carrying'
    <2> SUFFICES ASSUME ~disturbed, since_setup > 0, NEW k \in Places
                 PROVE  (IF k < cursor THEN Current(connections[k]) ELSE Source(connections[k]))'
      BY <1>1, <1>2 DEF Carrying
    <2>1. IF k < cursor THEN Current(connections[k]) ELSE Source(connections[k])
      BY DEF IInv, Carrying
    <2>2. CASE k = cursor
      <3>1. k < cursor' /\ ~(k < cursor)
        BY <1>1, <2>2 DEF Places
      <3> QED BY <2>1, <2>2, <3>1, <1>1 DEF Source, Current
    <2>3. CASE k # cursor
      <3>1. k < cursor' <=> k < cursor
        BY <1>1, <2>3, <1>5 DEF Places, IInv, Kinds
      <3> QED BY <2>1, <2>3, <3>1, <1>1, <1>5 DEF Source, Current
    <2> QED BY <2>2, <2>3
  <1> QED BY <1>3, <1>4, <1>6, <1>7 DEF IInv

LEMMA FeedSwapInv == IInv /\ FeedSwap => IInv'
  <1> SUFFICES ASSUME IInv, FeedSwap PROVE IInv'
    OBVIOUS
  <1> DEFINE c == connections[cursor]
  <1>1. /\ At("feed") /\ ~is_first_run /\ cursor <= Len(connections) /\ c \in Swappable
        /\ UNCHANGED <<is_first_run, buffer, pending, inferences, saved, since_setup>>
        /\ \/ /\ input' = [input EXCEPT ![c] = <<output[c]>>]
              /\ output' = [output EXCEPT ![c] = input[c][1]]
              /\ NextConnection
           \/ Fails /\ UNCHANGED <<input, output>>
    BY DEF FeedSwap
  <1>2. c \in Connection /\ Inputs[c] = 1
    BY <1>1
  <1>3. CASE Fails /\ UNCHANGED <<input, output>>
    <2>1. pending' = FALSE /\ BufferIsSaved'
      BY <1>1 DEF IInv, Kinds, Ordered, At, BufferIsSaved
    <2> QED BY <1>1, <1>3, <2>1, AfterFailure DEF IInv, Kinds
  <1>4. CASE /\ input' = [input EXCEPT ![c] = <<output[c]>>]
             /\ output' = [output EXCEPT ![c] = input[c][1]]
             /\ NextConnection
    <2>1. output[c] \in Nat /\ input[c][1] \in Nat
      <3>1. output \in [Connection -> Nat] /\ input[c] \in [1 .. Inputs[c] -> Nat]
        BY <1>2 DEF IInv, Kinds
      <3>2. 1 \in 1 .. Inputs[c]
        BY <1>2
      <3> HIDE DEF c
      <3>3. input[c][1] \in Nat
        BY <3>1, <3>2
      <3> QED BY <1>2, <3>1, <3>3
    <2>2. <<output[c]>> = AllInputs(c, output[c])
      BY <1>2 DEF AllInputs
    <2>3. AllInputs(c, output[c]) \in [1 .. Inputs[c] -> Nat]
      BY <1>2, <2>1, AllInputsType
    <2>4. /\ DOMAIN input = Connection /\ output \in [Connection -> Nat]
          /\ \A d \in Connection : input[d] \in [1 .. Inputs[d] -> Nat]
      BY DEF IInv, Kinds
    <2>5. /\ output' \in [Connection -> Nat] /\ DOMAIN input' = Connection
          /\ input'[c] = AllInputs(c, output[c])
          /\ \A d \in Connection \ {c} : input'[d] = input[d] /\ output'[d] = output[d]
      BY <1>2, <1>4, <2>1, <2>2, <2>4
    <2>6. \A d \in Connection : input'[d] \in [1 .. Inputs[d] -> Nat]
      BY <2>3, <2>4, <2>5
    <2> QED BY <1>1, <1>4, <2>5, <2>6, FeedsOne
  <1> QED BY <1>1, <1>3, <1>4

LEMMA FeedCopyInv == IInv /\ FeedCopy => IInv'
  <1> SUFFICES ASSUME IInv, FeedCopy PROVE IInv'
    OBVIOUS
  <1> DEFINE c == connections[cursor]
             Copied(n) == [i \in 1 .. Inputs[c] |-> IF i <= n THEN buffer[c] ELSE input[c][i]]
  <1>1. /\ At("feed") /\ ~is_first_run /\ cursor <= Len(connections) /\ c \notin Swappable
        /\ UNCHANGED <<is_first_run, buffer, output, pending, inferences, saved, since_setup>>
    BY DEF FeedCopy
  <1>2. /\ c \in Connection /\ Inputs[c] \in Nat /\ buffer[c] \in Nat
        /\ DOMAIN input = Connection
        /\ \A d \in Connection : input[d] \in [1 .. Inputs[d] -> Nat]
    BY <1>1, PlacesAre DEF Places, IInv, Kinds
  <1>3. PICK n \in 0 .. Inputs[c] : /\ input' = [input EXCEPT ![c] = Copied(n)]
                                    /\ IF n = Inputs[c] THEN NextConnection ELSE Fails
    BY <1>2 DEF FeedCopy
  <1>4. Copied(n) \in [1 .. Inputs[c] -> Nat]
    BY <1>2
  <1> HIDE DEF Copied
  <1>5. /\ DOMAIN input' = Connection /\ input'[c] = Copied(n)
        /\ \A d \in Connection \ {c} : input'[d] = input[d]
    BY <1>2, <1>3
  <1>6. \A d \in Connection : input'[d] \in [1 .. Inputs[d] -> Nat]
    BY <1>2, <1>4, <1>5
  <1>7. CASE n = Inputs[c]
    <2>1. Copied(n) = AllInputs(c, buffer[c])
      BY <1>2, <1>7 DEF Copied, AllInputs
    <2>2. output' \in [Connection -> Nat] /\ \A d \in Connection : output'[d] = output[d]
      BY <1>1 DEF IInv, Kinds
    <2>3. NextConnection
      BY <1>3, <1>7
    <2> QED BY <1>1, <1>5, <1>6, <2>1, <2>2, <2>3, FeedsOne
  <1>8. CASE n # Inputs[c]
    <2>1. pending' = FALSE /\ BufferIsSaved'
      BY <1>1 DEF IInv, Kinds, Ordered, At, BufferIsSaved
    <2>2. buffer' \in [Connection -> Nat] /\ output' \in [Connection -> Nat] /\ Fails
      BY <1>1, <1>3, <1>8 DEF IInv, Kinds
    <2> QED BY <1>1, <1>5, <1>6, <2>1, <2>2, AfterFailure
  <1> QED BY <1>7, <1>8

-----------------------------------------------------------------------------
\* The inference, and the save.

LEMMA ProcessInv == IInv /\ Process => IInv'
  <1> SUFFICES ASSUME IInv, Process PROVE IInv'
    OBVIOUS
  <1>1. /\ At("process") /\ UNCHANGED <<is_first_run, buffer, input, pending, saved>>
        /\ \/ /\ inferences' = inferences + 1 /\ since_setup' = since_setup + 1
              /\ output' = [c \in Connection |-> inferences + 1]
              /\ StepDone
           \/ /\ output' \in {output, [c \in Connection |-> Garbage]}
              /\ Fails /\ UNCHANGED <<inferences, since_setup>>
    BY DEF Process
  <1>2. pending = FALSE /\ BufferIsSaved' /\ Loaded
    BY <1>1 DEF IInv, Kinds, Ordered, At, BufferIsSaved, Loaded
  <1>3. CASE /\ output' \in {output, [c \in Connection |-> Garbage]}
             /\ Fails /\ UNCHANGED <<inferences, since_setup>>
    <2>1. output' \in [Connection -> Nat]
      BY <1>3, ContentsAreNat DEF IInv, Kinds
    <2> QED BY <1>1, <1>2, <1>3, <2>1, AfterFailure DEF IInv, Kinds
  <1>4. CASE /\ inferences' = inferences + 1 /\ since_setup' = since_setup + 1
             /\ output' = [c \in Connection |-> inferences + 1]
             /\ StepDone
    <2>1. /\ todo' \in Plans /\ At("save")' /\ disturbed' = disturbed
          /\ Len(todo') # 5 /\ cursor' = 1
      BY <1>1, <1>4, AfterProcess
    <2>2. UNCHANGED <<rnn_wksp, connections>> /\ inferences \in Nat /\ since_setup \in Nat
      BY <1>4 DEF StepDone, IInv, Kinds
    <2>3. ~Loaded' /\ ~At("feed")' /\ ~Idle'
      BY <1>1, <1>2, <2>1 DEF Loaded, At, Idle
    <2>4. Kinds'
      <3>1. cursor' \in Nat \ {0} /\ output' \in [Connection -> Nat]
        BY <1>4, <2>1, <2>2
      <3>2. inferences' \in Nat /\ since_setup' \in Nat
        BY <1>4, <2>2
      <3> QED BY <1>1, <2>1, <2>2, <3>1, <3>2 DEF IInv, Kinds
    <2>5. Counted'
      BY <1>2, <1>4, <2>2, <2>3 DEF IInv, Counted
    <2>6. Ordered'
      BY <1>1, <1>2, <2>1, <2>2 DEF IInv, Ordered
    <2>7. Saving'
      BY <1>4, <2>1, <2>2, PlacesAre DEF Saving, Places
    <2> QED BY <1>2, <2>3, <2>4, <2>5, <2>6, <2>7 DEF IInv, Feeding, Carrying
  <1> QED BY <1>1, <1>3, <1>4

LEMMA ScheduleInv == IInv /\ Schedule => IInv'
  <1> SUFFICES ASSUME IInv, Schedule PROVE IInv'
    OBVIOUS
  <1>1. /\ At("schedule")
        /\ UNCHANGED <<is_first_run, buffer, input, output, inferences, saved, since_setup>>
        /\ \/ /\ pending' = TRUE /\ todo' = <<>> /\ cursor' = 1
              /\ UNCHANGED <<rnn_wksp, connections, disturbed>>
           \/ pending' = FALSE /\ Fails
    BY DEF Schedule
  <1>2. BufferIsSaved' /\ Loaded
    BY <1>1 DEF IInv, BufferIsSaved, Loaded
  <1>3. CASE pending' = FALSE /\ Fails
    BY <1>1, <1>2, <1>3, AfterFailure DEF IInv, Kinds
  <1>4. CASE /\ pending' = TRUE /\ todo' = <<>> /\ cursor' = 1
             /\ UNCHANGED <<rnn_wksp, connections, disturbed>>
    <2>1. Loaded' /\ ~At("feed")' /\ ~At("save")' /\ ~Idle' /\ todo' \in Plans /\ Len(todo') # 5
      BY <1>4 DEF Loaded, At, Idle, Plans
    <2>2. Kinds'
      <3>1. cursor' \in Nat \ {0}
        BY <1>4
      <3>2. pending' \in BOOLEAN
        BY <1>4, Zenon
      <3> QED BY <1>1, <1>4, <2>1, <3>1, <3>2 DEF IInv, Kinds
    <2>3. Counted' /\ Ordered' /\ Saving'
      BY <1>1, <1>2, <1>4, <2>1 DEF IInv, Counted, Ordered, Saving
    <2>4. Feeding'
      <3>1. \A k \in Places : Fed(k)
        BY <1>2 DEF IInv, Feeding
      <3> QED BY <1>1, <1>4, <2>1, <3>1 DEF Feeding, Fed, Places, Buffered
    <2>5. Carrying'
      <3> SUFFICES ASSUME ~disturbed, since_setup > 0, NEW k \in Places
                   PROVE  Current(connections[k])'
        BY <1>1, <1>4, <2>1 DEF Carrying, Places
      <3>1. Current(connections[k])
        BY <1>2 DEF IInv, Carrying
      <3> QED BY <1>1, <1>4, <3>1 DEF Current
    <2> QED BY <1>2, <2>2, <2>3, <2>4, <2>5 DEF IInv
  <1> QED BY <1>1, <1>3, <1>4

LEMMA SaveConnectionInv == IInv /\ SaveConnection => IInv'
  <1> SUFFICES ASSUME IInv, SaveConnection PROVE IInv'
    OBVIOUS
  <1> DEFINE c == connections[cursor]
  <1>1. /\ At("save") /\ cursor <= Len(connections)
        /\ UNCHANGED <<is_first_run, input, output, pending, inferences, since_setup>>
        /\ \/ c \in Swappable /\ NextConnection /\ UNCHANGED <<buffer, saved>>
           \/ /\ c \notin Swappable
              /\ buffer' = [buffer EXCEPT ![c] = output[c]]
              /\ saved' = [saved EXCEPT ![c] = inferences]
              /\ NextConnection
           \/ Fails /\ UNCHANGED <<buffer, saved>>
    BY DEF SaveConnection
  <1>2. /\ cursor \in Places /\ c \in Connection /\ pending = FALSE /\ ~is_first_run
        /\ output[c] = inferences /\ inferences \in Nat
    BY <1>1, PlacesAre DEF Places, IInv, Kinds, Ordered, At, Saving
  <1>3. CASE Fails /\ UNCHANGED <<buffer, saved>>
    <2>1. BufferIsSaved'
      BY <1>3 DEF IInv, BufferIsSaved
    <2> QED BY <1>1, <1>2, <1>3, <2>1, AfterFailure DEF IInv, Kinds
  <1>4. ASSUME NextConnection, buffer' \in [Connection -> Nat], saved' \in [Connection -> Nat],
               \A d \in Connection \ {c} : buffer'[d] = buffer[d] /\ saved'[d] = saved[d],
               c \notin Swappable => buffer'[c] = inferences /\ saved'[c] = inferences,
               c \in Swappable => buffer'[c] = buffer[c] /\ saved'[c] = saved[c]
        PROVE  IInv'
    <2>1. /\ cursor' = cursor + 1 /\ UNCHANGED <<rnn_wksp, connections, todo, disturbed>>
          /\ Places' = Places
      BY <1>4 DEF NextConnection, Places
    <2>2. At("save")' /\ ~Loaded' /\ ~At("feed")' /\ ~Idle'
      BY <1>1, <1>2, <2>1 DEF At, Loaded, Idle
    <2>3. Kinds'
      <3>1. cursor' \in Nat \ {0} /\ todo' \in Plans /\ disturbed' \in BOOLEAN
        BY <2>1 DEF IInv, Kinds
      <3> QED BY <1>1, <1>4, <2>1, <3>1 DEF IInv, Kinds
    <2>4. Counted' /\ Ordered'
      BY <1>1, <1>2, <2>1, <2>2 DEF IInv, Counted, Ordered
    <2>5. BufferIsSaved'
      BY <1>4 DEF IInv, BufferIsSaved
    <2>6. Saving'
      <3> SUFFICES ASSUME NEW k \in Places, k < cursor', Buffered(k)
                   PROVE  buffer'[connections[k]] = inferences
        BY <1>1, <2>1 DEF Saving, IInv, Buffered
      <3>1. CASE k = cursor
        BY <3>1, <1>4 DEF Buffered
      <3>2. CASE k # cursor
        <4>1. k < cursor
          BY <3>2, <2>1, <1>2 DEF Places
        <4>2. connections[k] \in Connection \ {c} /\ buffer[connections[k]] = inferences
          BY <3>2, <4>1, <1>1, <1>2, PlacesAre DEF IInv, Saving
        <4> QED BY <4>2, <1>4
      <3> QED BY <3>1, <3>2
    <2> QED BY <2>2, <2>3, <2>4, <2>5, <2>6 DEF IInv, Feeding, Carrying
  <1>5. CASE c \in Swappable /\ NextConnection /\ UNCHANGED <<buffer, saved>>
    BY <1>4, <1>5 DEF IInv, Kinds
  <1>6. CASE /\ c \notin Swappable
             /\ buffer' = [buffer EXCEPT ![c] = output[c]]
             /\ saved' = [saved EXCEPT ![c] = inferences]
             /\ NextConnection
    <2>1. buffer \in [Connection -> Nat] /\ saved \in [Connection -> Nat]
      BY DEF IInv, Kinds
    <2>2. /\ buffer' \in [Connection -> Nat] /\ saved' \in [Connection -> Nat]
          /\ \A d \in Connection \ {c} : buffer'[d] = buffer[d] /\ saved'[d] = saved[d]
          /\ buffer'[c] = inferences /\ saved'[c] = inferences
      BY <1>2, <1>6, <2>1
    <2> QED BY <1>4, <1>6, <2>2
  <1> QED BY <1>1, <1>3, <1>5, <1>6

LEMMA SaveDoneInv == IInv /\ SaveDone => IInv'
  <1> SUFFICES ASSUME IInv, SaveDone PROVE IInv'
    OBVIOUS
  <1>1. /\ At("save") /\ cursor > Len(connections) /\ StepDone
        /\ UNCHANGED <<is_first_run, buffer, input, output, pending, inferences, saved,
                       since_setup, rnn_wksp, connections>>
    BY DEF SaveDone, StepDone
  <1>2. /\ todo' \in Plans /\ Len(todo') # 5 /\ cursor' = 1 /\ disturbed' \in BOOLEAN
        /\ todo' # <<>> => At("save")'
    BY <1>1, AfterSave
  <1>3. pending = FALSE /\ ~is_first_run
    BY <1>1 DEF IInv, Kinds, Ordered, At
  <1>4. ~Loaded' /\ ~At("feed")'
    BY <1>1, <1>2, <1>3 DEF Loaded, At
  <1>5. Kinds'
    <2>1. cursor' \in Nat \ {0}
      BY <1>2
    <2> QED BY <1>1, <1>2, <2>1 DEF IInv, Kinds
  <1>6. Counted' /\ Ordered' /\ BufferIsSaved'
    BY <1>1, <1>2, <1>3, <1>4 DEF IInv, Counted, Ordered, BufferIsSaved
  <1>7. /\ \A c \in Connection : output[c] = inferences
        /\ \A k \in Places : Buffered(k) => buffer[connections[k]] = inferences
    <2>1. \A k \in Places : k < cursor
      BY <1>1, PlacesAre DEF Places, IInv, Kinds
    <2> QED BY <1>1, <2>1 DEF IInv, Saving
  <1>8. Saving'
    BY <1>1, <1>2, <1>7, PlacesAre DEF Saving, Places
  <1>9. Carrying'
    <2>1. \A k \in Places : Source(connections[k])
      BY <1>7, PlacesAre DEF Source, Buffered
    <2> QED BY <1>1, <1>4, <2>1 DEF Carrying, Source, Places
  <1> QED BY <1>4, <1>5, <1>6, <1>8, <1>9 DEF IInv, Feeding

-----------------------------------------------------------------------------

LEMMA NextInv == IInv /\ [Next]_vars => IInv'
  <1> SUFFICES ASSUME IInv, [Next]_vars PROVE IInv'
    OBVIOUS
  <1>1. CASE UNCHANGED vars
    BY <1>1 DEF vars, IInv, Kinds, Counted, Ordered, BufferIsSaved, Saving, Feeding, Carrying,
                Loaded, At, Idle, Places, Buffered, Fed, Source, Current
  <1> QED BY <1>1, SetupInv, ResetInv, CallsInv, WaitInv, FeedFirstInv, FeedSwapInv, FeedCopyInv,
             FeedDoneInv, ProcessInv, ScheduleInv, SaveConnectionInv, SaveDoneInv DEF Next

\* Where the state is at every step of every call.
THEOREM Invariance == Spec => []IInv
  BY InitInv, NextInv, PTL DEF Spec

\* Nothing but a first run, a failed call or a doubly fed one lets an inference begin
\* with anything but the outputs of the inference before.
THEOREM StateIsCarried == Spec => []StateCarriesOver
  <1>1. IInv => StateCarriesOver
    BY PlacesAre DEF IInv, StateCarriesOver, Begins, Carrying, Current, Loaded
  <1> QED BY <1>1, Invariance, PTL

\* What was saved to a buffer is fed to the next inference, whatever fails in between.
THEOREM SavedIsFed == Spec => []SavedStateSurvives
  <1>1. IInv => SavedStateSurvives
    <2> SUFFICES ASSUME IInv, Begins, NEW k \in Places, Buffered(k),
                        saved[connections[k]] = inferences
                 PROVE  input[connections[k]] = AllInputs(connections[k], inferences)
      BY PlacesAre DEF SavedStateSurvives, Buffered
    <2>1. inferences # Nothing
      BY DEF IInv, Kinds, Counted, Nothing
    <2>2. Fed(k)
      BY DEF IInv, Feeding, Begins, Loaded
    <2> QED BY <2>1, <2>2 DEF Fed
  <1> QED BY <1>1, Invariance, PTL
====
