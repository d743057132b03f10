--------------------------- MODULE PendingInputStore ---------------------------
(***************************************************************************)
(* The rows of one session as src/main/session/data/pendingInputStore.ts   *)
(* keeps them: a state column, a mode column and an integer queue_order,   *)
(* which is null (0 here) for a steer row.  The order of the lane is what  *)
(* sorting by queue_order gives, and every deletion, conversion and move   *)
(* renumbers the rows.  PendingInputRows says what this is meant to be: a  *)
(* sequence.  The refinement below shows that it is.                       *)
(***************************************************************************)
EXTENDS PendingInputTable

VARIABLE queue_order

storeVars == <<st, mode, queue_order>>

Null == 0
WaitingStates == {"pending", "blocked", "retry"}

StoreInit ==
  /\ st = [i \in Ids |-> "unused"]
  /\ mode = [i \in Ids |-> "queue"]
  /\ queue_order = [i \in Ids |-> Null]

-----------------------------------------------------------------------------
(* Reading the lane.                                                       *)

(* getQueueRows: by queue_order, then by created_at.  A row goes behind   *)
(* all the rows that precede it.  (A live queue row always has an order,   *)
(* OrdersAreSlots, so a comparison with null is left out.)                 *)
QueueRowsOf(s, m) == {i \in Ids : m[i] = "queue" /\ s[i] \in Live}

Precedes(q, i, j) == q[i] < q[j] \/ (q[i] = q[j] /\ i < j)

InOrder(rows, q) ==
  [n \in 1..Cardinality(rows) |->
     CHOOSE i \in rows : Cardinality({j \in rows : Precedes(q, j, i)}) = n - 1]

QueueRows == QueueRowsOf(st, mode)
GetQueueRows == InOrder(QueueRows, queue_order)
GetWaitingQueueRows == InOrder({i \in QueueRows : st[i] \in WaitingStates}, queue_order)

GetNextQueueOrder ==
  IF QueueRows = {} THEN 1
  ELSE Max({queue_order[i] : i \in QueueRows}) + 1

-----------------------------------------------------------------------------
(* Mutant: the waiting rows are numbered first, the claimed ones behind. *)
ResequencedInFront(s, m, q, waiting) ==
  LET claimed == InOrder({i \in QueueRowsOf(s, m) : s[i] \notin WaitingStates}, q)
      placed  == waiting \o claimed
  IN  [i \in Ids |-> IF \E n \in DOMAIN placed : placed[n] = i
                     THEN CHOOSE n \in DOMAIN placed : placed[n] = i
                     ELSE q[i]]

(* Renumbering: resequenceQueueRows with the rows as s and m leave them.   *)
(* Waiting rows fill the waiting places in the order given, any other row  *)
(* keeps its own.                                                          *)
Resequenced(s, m, q, waiting) ==
  LET all == InOrder(QueueRowsOf(s, m), q)
      nth(n) == Cardinality({k \in 1..n : s[all[k]] \in WaitingStates})
      placed == [n \in DOMAIN all |->
                   IF s[all[n]] \in WaitingStates THEN waiting[nth(n)] ELSE all[n]]
  IN  [i \in Ids |-> IF \E n \in DOMAIN placed : placed[n] = i
                     THEN CHOOSE n \in DOMAIN placed : placed[n] = i
                     ELSE q[i]]

ResequenceQueue(s, m, q) ==
  Resequenced(s, m, q, InOrder({i \in QueueRowsOf(s, m) : s[i] \in WaitingStates}, q))

-----------------------------------------------------------------------------
(* The store's operations.                                                 *)

CreateQueueInputWithState(i, s) ==
  /\ IsFresh(i)
  /\ st' = [st EXCEPT ![i] = s]
  /\ mode' = [mode EXCEPT ![i] = "queue"]
  /\ queue_order' = [queue_order EXCEPT ![i] = GetNextQueueOrder]

StoreCreateSteerInput(i) ==
  /\ IsFresh(i)
  /\ st' = [st EXCEPT ![i] = "pending"]
  /\ mode' = [mode EXCEPT ![i] = "steer"]
  /\ UNCHANGED queue_order

(* claimQueueInput and claimSteerInput *)
Claim(i) ==
  /\ st[i] = "pending"
  /\ st' = [st EXCEPT ![i] = "claimed"]
  /\ UNCHANGED <<mode, queue_order>>

(* releaseClaimedQueueInput, ...ForRetry, releaseClaimedInput *)
ReleaseClaimed(i, s) ==
  /\ st[i] = "claimed"
  /\ s = "retry" => mode[i] = "queue"
  /\ st' = [st EXCEPT ![i] = s]
  /\ UNCHANGED <<mode, queue_order>>

BlockClaimedInput(i) ==
  /\ st[i] = "claimed"
  /\ st' = [st EXCEPT ![i] = "blocked"]
  /\ UNCHANGED <<mode, queue_order>>

(* updateQueueInput, retryReleasedQueueInput, retryBlockedInput and        *)
(* degradeBlockedInput: the row waits again where it stood.                *)
WaitAgain(i) ==
  /\ (mode[i] = "queue" /\ st[i] \in WaitingStates) \/ st[i] = "blocked"
  /\ st' = [st EXCEPT ![i] = "pending"]
  /\ UNCHANGED <<mode, queue_order>>

StoreMoveQueueInput(i, toIndex) ==
  LET waiting == GetWaitingQueueRows
      clamped == IF toIndex < Len(waiting) THEN toIndex ELSE Len(waiting) - 1
  IN  /\ i \in QueueRows /\ st[i] \in WaitingStates
      /\ st[waiting[1]] # "retry"
      /\ waiting[clamped + 1] # i
      /\ queue_order' = Resequenced(st, mode, queue_order,
                          InsertAt(RemoveFirst(waiting, i), clamped + 1, i))
      /\ UNCHANGED <<st, mode>>

StoreConvertQueueInputToSteer(i) ==
  /\ mode[i] = "queue" /\ st[i] = "pending"
  /\ mode' = [mode EXCEPT ![i] = "steer"]
  /\ queue_order' = ResequenceQueue(st, mode', [queue_order EXCEPT ![i] = Null])
  /\ UNCHANGED st

(* Behind the queue, in the state the row is in. *)
StoreConvertSteerInputToQueue(i) ==
  /\ mode[i] = "steer" /\ st[i] \in Live
  /\ mode' = [mode EXCEPT ![i] = "queue"]
  /\ queue_order' = ResequenceQueue(st, mode',
                      [queue_order EXCEPT ![i] = GetNextQueueOrder])
  /\ UNCHANGED st

(* Mutant: no renumbering after a deletion. *)
DeleteLeavesGap(i) ==
  /\ mode[i] = "queue" /\ st[i] \in Live
  /\ st' = [st EXCEPT ![i] = "gone"]
  /\ UNCHANGED <<mode, queue_order>>

(* deleteInput and consumeQueueInput *)
DeleteInput(i) ==
  /\ mode[i] = "queue" /\ st[i] \in Live
  /\ st' = [st EXCEPT ![i] = "gone"]
  /\ queue_order' = ResequenceQueue(st', mode, queue_order)
  /\ UNCHANGED mode

ConsumeSteerInput(i) ==
  /\ mode[i] = "steer" /\ st[i] \in Live
  /\ st' = [st EXCEPT ![i] = "gone"]
  /\ UNCHANGED <<mode, queue_order>>

StoreDeleteBySession ==
  /\ st' = [i \in Ids |-> IF st[i] \in Live THEN "gone" ELSE st[i]]
  /\ UNCHANGED <<mode, queue_order>>

StoreNext ==
  \/ StoreDeleteBySession
  \/ \E i \in Ids :
      \/ \E s \in {"pending", "claimed", "retry"} : CreateQueueInputWithState(i, s)
      \/ StoreCreateSteerInput(i)
      \/ Claim(i)
      \/ \E s \in {"pending", "retry"} : ReleaseClaimed(i, s)
      \/ BlockClaimedInput(i)
      \/ WaitAgain(i)
      \/ \E toIndex \in 0..Cardinality(QueueRows) : StoreMoveQueueInput(i, toIndex)
      \/ StoreConvertQueueInputToSteer(i)
      \/ StoreConvertSteerInputToQueue(i)
      \/ DeleteInput(i)
      \/ ConsumeSteerInput(i)

StoreSpec == StoreInit /\ [][StoreNext]_storeVars

-----------------------------------------------------------------------------

StoreTypeOK ==
  /\ st \in [Ids -> RowStates]
  /\ mode \in [Ids -> {"queue", "steer"}]
  /\ queue_order \in [Ids -> Nat]

(* The live queue rows are numbered 1, 2, ... without gap or duplicate, so *)
(* created_at never decides between two of them and the number handed to a *)
(* new row is always the next one.                                         *)
OrdersAreSlots == {queue_order[i] : i \in QueueRows} = 1..Cardinality(QueueRows)

(* Each row has its type and each live queue row its slot.                 *)
StoreConsistent == StoreTypeOK /\ OrdersAreSlots

(* Seen through its sort order, the table is the sequence PendingInputRows *)
(* describes: no renumbering ever reorders, drops or duplicates a row that *)
(* the operation does not name.                                            *)
Rows == INSTANCE PendingInputRows WITH queue <- GetQueueRows
RowsRefined == Rows!RowsSpec

=============================================================================
