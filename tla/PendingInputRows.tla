--------------------------- MODULE PendingInputRows ---------------------------
(***************************************************************************)
(* The durable waiting lane of one session: the rows of the table          *)
(* deepchat_pending_inputs as src/main/session/data/pendingInputStore.ts   *)
(* and pendingInputs.ts read and write them.  An operator below is one     *)
(* SQLite transaction of the store.                                        *)
(***************************************************************************)
EXTENDS PendingInputTable

VARIABLE
  queue    \* the live queue rows in queue_order, claimed ones included

rowVars == <<st, mode, queue>>

NoInput == 0

RowsInit ==
  /\ st = [i \in Ids |-> "unused"]
  /\ mode = [i \in Ids |-> "queue"]
  /\ queue = <<>>

-----------------------------------------------------------------------------
(* What the store answers.                                                 *)

(* Row i is in the waiting queue: a queue row nobody has claimed. *)
IsWaiting(i) == mode[i] = "queue" /\ st[i] \in {"pending", "blocked", "retry"}

(* Row i is the first waiting queue row, whatever its state. *)
IsHead(i) ==
  \E n \in DOMAIN queue :
    /\ queue[n] = i
    /\ IsWaiting(i)
    /\ \A k \in 1..(n - 1) : ~IsWaiting(queue[k])

(* getNextPendingQueueInput: the head, and only if it is pending. *)
IsNextQueued(i) == IsHead(i) /\ st[i] = "pending"

WaitingSteer(i) == mode[i] = "steer" /\ st[i] \in {"pending", "blocked"}

(* getNextPendingSteerInput: the oldest waiting steer row. *)
IsNextSteer(i) ==
  /\ WaitingSteer(i) /\ st[i] = "pending"
  /\ \A j \in Ids : WaitingSteer(j) => i <= j

HasPendingTurnInput == \E i \in Ids : IsNextSteer(i) \/ IsNextQueued(i)
HasBlockingInput    == \E i \in Ids : st[i] = "blocked"
HasClaimedInput     == \E i \in Ids : st[i] = "claimed"
HasRetryRequired    == \E i \in Ids : IsWaiting(i) /\ st[i] = "retry"
IsAtCapacity        == Cardinality({i \in Ids : IsWaiting(i)}) >= Capacity

-----------------------------------------------------------------------------
(* What the store writes.                                                  *)

(* createQueueInputWithState: a new queue row goes behind all the others. *)
CreateQueueInput(i, s) ==
  /\ IsFresh(i)
  /\ st' = [st EXCEPT ![i] = s]
  /\ mode' = [mode EXCEPT ![i] = "queue"]
  /\ queue' = Append(queue, i)

CreateSteerInput(i) ==
  /\ IsFresh(i)
  /\ st' = [st EXCEPT ![i] = "pending"]
  /\ mode' = [mode EXCEPT ![i] = "steer"]
  /\ UNCHANGED queue

(* A queue row keeps its queue_order through a claim. *)
ClaimInput(i) ==
  /\ st[i] = "pending"
  /\ st' = [st EXCEPT ![i] = "claimed"]
  /\ UNCHANGED <<mode, queue>>

(* consumeQueueInput deletes the row, consumeSteerInput marks it. *)
ConsumeInput(i) ==
  /\ st' = [st EXCEPT ![i] = "gone"]
  /\ queue' = IF mode[i] = "queue" THEN RemoveFirst(queue, i) ELSE queue
  /\ UNCHANGED mode

(* A row that stays live, in its place: released, blocked, retried, edited. *)
RestateInput(i, s) ==
  /\ st' = [st EXCEPT ![i] = s]
  /\ UNCHANGED <<mode, queue>>

(* Mutant: the row keeps its queue_order. *)
ConvertKeepsQueueOrder(i) ==
  /\ st' = [st EXCEPT ![i] = "pending"]
  /\ mode' = [mode EXCEPT ![i] = "steer"]
  /\ UNCHANGED queue

(* A claimed or pending queue row turns into a pending steer row. *)
ConvertQueueInputToSteer(i) ==
  /\ st' = [st EXCEPT ![i] = "pending"]
  /\ mode' = [mode EXCEPT ![i] = "steer"]
  /\ queue' = RemoveFirst(queue, i)

(* A steer row goes back to the end of the queue. *)
ConvertSteerInputToQueue(i) ==
  /\ mode' = [mode EXCEPT ![i] = "queue"]
  /\ queue' = Append(queue, i)
  /\ UNCHANGED st

DeleteBySession ==
  /\ st' = [i \in Ids |-> IF st[i] \in Live THEN "gone" ELSE st[i]]
  /\ queue' = <<>>
  /\ UNCHANGED mode

(* moveQueueInput: waiting rows trade the waiting slots among themselves,  *)
(* a claimed row keeps its slot.  to is the slot of the waiting row at the *)
(* clamped target index; i goes there, and the waiting rows between its    *)
(* old slot and the new one each go to the next slot.                      *)
MoveQueueInput(i, to) ==
  LET slots   == {n \in DOMAIN queue : IsWaiting(queue[n])}
      from    == CHOOSE n \in DOMAIN queue : queue[n] = i
      next(n) == IF to < from THEN Max({k \in slots : k < n})
                              ELSE Min({k \in slots : k > n})
      moved   == {n \in slots : (to < n /\ n <= from) \/ (from <= n /\ n < to)}
  IN  /\ IsWaiting(i)
      /\ \A j \in Ids : IsHead(j) => st[j] # "retry"
      /\ to \in slots /\ queue[to] # i
      /\ queue' = [n \in DOMAIN queue |->
                     IF n = to THEN i
                     ELSE IF n \in moved THEN queue[next(n)]
                     ELSE queue[n]]
      /\ UNCHANGED <<st, mode>>

-----------------------------------------------------------------------------
(* The lane as a state machine of its own: what any caller may make of it  *)
(* with one transaction of the store.                                      *)

RowsNext ==
  \/ DeleteBySession
  \/ \E i \in Ids :
      \/ \E s \in {"pending", "claimed", "retry"} : CreateQueueInput(i, s)
      \/ CreateSteerInput(i)
      \/ ClaimInput(i)
      \/ st[i] \in Live /\ ConsumeInput(i)
      \/ \E s \in {"pending", "blocked", "retry"} :
           /\ st[i] \in Live
           /\ mode[i] = "steer" => s # "retry"
           /\ RestateInput(i, s)
      \/ mode[i] = "queue" /\ st[i] = "pending" /\ ConvertQueueInputToSteer(i)
      \/ mode[i] = "steer" /\ st[i] \in Live /\ ConvertSteerInputToQueue(i)
      \/ \E to \in 1..Len(queue) : MoveQueueInput(i, to)

RowsSpec == RowsInit /\ [][RowsNext]_rowVars

=============================================================================
