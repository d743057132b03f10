------------------------- MODULE InvocationAdmission -------------------------
(***************************************************************************)
(* agent/invocationAdmission.ts: how many agents compute at a time.  A     *)
(* delegated turn holds a lease; the lease is active while it holds one of *)
(* Capacity permits, and at most Limit of them per owner (the parent       *)
(* session).  Requests that cannot be granted wait in a queue per owner,   *)
(* and the owners take turns in a ring.                                    *)
(*                                                                         *)
(* A step is the code between two turns of the microtask queue: a granted  *)
(* or rejected acquisition (acq "granted", "rejected") is seen by the      *)
(* lease one step later (then), and forgotten by it one step after that    *)
(* (finally, acq "ending").  Meanwhile the lease may be suspended,         *)
(* released or resumed again.  Left out: observations, and the settled     *)
(* check of dispatch, for every path that settles a waiter also takes it   *)
(* out of its queue.                                                       *)
(***************************************************************************)
EXTENDS Naturals, FiniteSets, SequencesExt

CONSTANTS Leases, Owners,
          OwnerOf,      \* the parent session of a lease
          Limit,        \* maxActiveForOwner of a lease
          Capacity, MaxPending,
          Calls         \* bound: of suspend, release, abort and stop, who makes them,
                        \* and whether the admission is closed

ASSUME LeasesAreFinite == IsFiniteSet(Leases)
ASSUME AdmissionAssumption ==
    /\ OwnerOf \in [Leases -> Owners]
    /\ Capacity \in Nat \ {0} /\ MaxPending \in Nat
    /\ Limit \in [Leases -> 1..Capacity]
    /\ Calls \in [suspend : SUBSET Leases, release : SUBSET Leases, abort : SUBSET Leases,
                  stop : SUBSET Leases, close : BOOLEAN]

VARIABLES
    queue,      \* ownerQueues
    ring,       \* ownerRing
    active,     \* permits handed out
    byOwner,    \* activeByOwner
    pending,    \* the counter of waiters
    closed,
    lease,      \* currentState of a lease
    acq,        \* where the lease's acquisition is
    aborted,    \* its controller was aborted
    again,      \* a resume call waits for that acquisition to end
    stopped     \* the signal the lease was created with was aborted

admission == <<queue, ring, active, byOwner, pending>>
leases == <<lease, acq, aborted, again, stopped>>
vars == <<admission, closed, leases>>

Eligible(q, by, o) == q[o] # <<>> /\ by[o] < Limit[Head(q[o])]
-----------------------------------------------------------------------------
(* The admission, as a record that dispatch passes from turn to turn.      *)

Now == [queue |-> queue, ring |-> ring, active |-> active, byOwner |-> byOwner,
        pending |-> pending, acq |-> acq]

Granted(s, l) ==
    [s EXCEPT !.active = @ + 1, !.byOwner[OwnerOf[l]] = @ + 1, !.acq[l] = "granted"]

(* One turn of the inner loop: the owner at the front of the ring.         *)
RingTurn(s) ==
    LET o == Head(s.ring)
        q == Tail(s.queue[o])
    IN  IF ~Eligible(s.queue, s.byOwner, o)
        THEN [s EXCEPT !.ring = Append(Tail(@), o)]
        ELSE [Granted(s, Head(s.queue[o])) EXCEPT
                !.pending = @ - 1, !.queue[o] = q,
                !.ring = IF q = <<>> THEN Tail(@) ELSE Append(Tail(@), o)]

(* A round of the ring: the turns it makes, one for each owner that is in  *)
(* the ring when it begins.                                                *)
Turn(s) == IF s.active < Capacity THEN RingTurn(s) ELSE s
Turns(s) ==
    LET turn[i \in 0..Len(s.ring)] == IF i = 0 THEN s ELSE Turn(turn[i - 1]) IN turn
Round(s) == IF s.active < Capacity /\ s.pending > 0 THEN Turns(s)[Len(s.ring)] ELSE s

(* A round that grants nothing leaves the ring as it was, and every other  *)
(* round hands out a permit: Capacity rounds are all the rounds there are. *)
Rounds(s) ==
    LET round[k \in 0..Capacity] == IF k = 0 THEN s ELSE Round(round[k - 1]) IN round
Dispatch(s) == Rounds(s)[Capacity]

Become(after) ==
    \E s \in {after} :
      /\ queue' = s.queue /\ ring' = s.ring /\ active' = s.active
      /\ byOwner' = s.byOwner /\ pending' = s.pending /\ acq' = s.acq

Enqueued(s, l) ==
    LET o == OwnerOf[l]
    IN  [s EXCEPT !.queue[o] = Append(@, l), !.pending = @ + 1, !.acq[l] = "queued",
                  !.ring = IF s.queue[o] = <<>> THEN Append(@, o) ELSE @]

(* acquire: closed, aborted, granted at once, full, queued.                *)
Acquire(s, l, isAborted) ==
    IF closed \/ isAborted THEN [s EXCEPT !.acq[l] = "rejected"]
    ELSE IF /\ s.active < Capacity /\ s.pending = 0
            /\ s.byOwner[OwnerOf[l]] < Limit[l]
         THEN Granted(s, l)
    ELSE IF s.pending >= MaxPending THEN [s EXCEPT !.acq[l] = "rejected"]
    ELSE Dispatch(Enqueued(s, l))

(* releaseWithReason: a permit is given back.                              *)
ReleaseWithoutDispatch(s, l) ==
    [s EXCEPT !.active = @ - 1, !.byOwner[OwnerOf[l]] = @ - 1]
ReleasePermit(s, l) == Dispatch(ReleaseWithoutDispatch(s, l))

(* abortWaiter: nothing happens unless the acquisition still waits.  (Mutant: *)
(* the owner leaves the ring although others of it wait.)                     *)
WithoutOwner(s, l) ==
    [s EXCEPT !.queue[OwnerOf[l]] = RemoveFirst(@, l), !.ring = RemoveFirst(@, OwnerOf[l])]
Without(s, l) ==
    LET o == OwnerOf[l]
        q == RemoveFirst(s.queue[o], l)
    IN  [s EXCEPT !.queue[o] = q, !.ring = IF q = <<>> THEN RemoveFirst(@, o) ELSE @]
AbortWaiter(s, l) ==
    IF s.acq[l] # "queued" THEN s
    ELSE Dispatch([Without(s, l) EXCEPT !.pending = @ - 1, !.acq[l] = "rejected"])
-----------------------------------------------------------------------------
Init ==
    /\ queue = [o \in Owners |-> <<>>] /\ ring = <<>>
    /\ active = 0 /\ byOwner = [o \in Owners |-> 0] /\ pending = 0
    /\ closed = FALSE
    /\ lease = [l \in Leases |-> "suspended"]
    /\ acq = [l \in Leases |-> "none"]
    /\ aborted = [l \in Leases |-> FALSE] /\ again = [l \in Leases |-> FALSE]
    /\ stopped = [l \in Leases |-> FALSE]

(* A new acquisition.  forwardAbortSignals aborts its controller at once   *)
(* when the lease's own signal was aborted before.                         *)
StartAcquisition(l) ==
    /\ lease' = [lease EXCEPT ![l] = "acquiring"]
    /\ aborted' = [aborted EXCEPT ![l] = stopped[l]]
    /\ Become(Acquire(Now, l, stopped[l]))

(* resume on a suspended or acquiring lease; the other two return at once. *)
Resume(l) ==
    /\ lease[l] \in {"suspended", "acquiring"}
    /\ \/ /\ acq[l] = "none"
          /\ StartAcquisition(l)
          /\ UNCHANGED again
       \/ /\ acq[l] # "none" /\ lease[l] = "acquiring"
          /\ UNCHANGED <<admission, lease, acq, aborted, again>>
       \/ /\ acq[l] # "none" /\ lease[l] = "suspended"
          /\ again' = [again EXCEPT ![l] = TRUE]
          /\ UNCHANGED <<admission, lease, acq, aborted>>
    /\ UNCHANGED <<closed, stopped>>

PermitArrivesUnlessAborted(l) ==
    /\ acq[l] = "granted"
    /\ IF aborted[l] \/ lease[l] # "acquiring"
       THEN /\ Become([Now EXCEPT !.acq[l] = "rejected"])
            /\ UNCHANGED lease
       ELSE /\ Become([Now EXCEPT !.acq[l] = "ending"])
            /\ lease' = [lease EXCEPT ![l] = "active"]
    /\ UNCHANGED <<closed, aborted, again, stopped>>

(* then: the permit arrives at a lease that may not want it any more.      *)
PermitArrives(l) ==
    /\ acq[l] = "granted"
    /\ IF aborted[l] \/ lease[l] # "acquiring"
       THEN /\ Become(ReleasePermit([Now EXCEPT !.acq[l] = "rejected"], l))
            /\ UNCHANGED lease
       ELSE /\ Become([Now EXCEPT !.acq[l] = "ending"])
            /\ lease' = [lease EXCEPT ![l] = "active"]
    /\ UNCHANGED <<closed, aborted, again, stopped>>
(* finally: the lease forgets the acquisition.                             *)
AcquisitionEnds(l) ==
    /\ acq[l] \in {"rejected", "ending"}
    /\ acq' = [acq EXCEPT ![l] = "none"]
    /\ lease' = [lease EXCEPT ![l] = IF @ = "acquiring" THEN "suspended" ELSE @]
    /\ aborted' = [aborted EXCEPT ![l] = FALSE]
    /\ UNCHANGED <<admission, closed, again, stopped>>

(* The resume call that waited for the end is made again.                  *)
ResumeAgain(l) ==
    /\ again[l] /\ acq[l] = "none"
    /\ again' = [again EXCEPT ![l] = FALSE]
    /\ IF lease[l] = "suspended" THEN StartAcquisition(l)
       ELSE UNCHANGED <<admission, lease, acq, aborted>>
    /\ UNCHANGED <<closed, stopped>>

(* suspend and release: an active lease gives its permit back, any other   *)
(* aborts its acquisition.                                                 *)
LetGo(l, to) ==
    /\ lease' = [lease EXCEPT ![l] = to]
    /\ IF lease[l] = "active"
       THEN /\ Become(ReleasePermit(Now, l))
            /\ UNCHANGED aborted
       ELSE /\ Become(AbortWaiter(Now, l))
            /\ aborted' = [aborted EXCEPT ![l] = acq[l] # "none"]

(* suspend does nothing to a lease that is suspended already.              *)
Suspend(l) ==
    /\ l \in Calls.suspend /\ lease[l] # "released"
    /\ IF lease[l] = "suspended" THEN UNCHANGED <<admission, lease, acq, aborted>>
       ELSE LetGo(l, "suspended")
    /\ UNCHANGED <<closed, again, stopped>>

Release(l) ==
    /\ l \in Calls.release /\ lease[l] # "released"
    /\ LetGo(l, "released")
    /\ UNCHANGED <<closed, again, stopped>>

(* The signal of one resume call, or of the lease itself, is aborted while *)
(* its acquisition listens.                                                *)
SignalAborts(l, forGood) ==
    /\ l \in IF forGood THEN Calls.stop ELSE Calls.abort
    /\ ~stopped[l] /\ lease[l] # "released"
    /\ forGood \/ acq[l] # "none"
    /\ stopped' = [stopped EXCEPT ![l] = forGood]
    /\ aborted' = [aborted EXCEPT ![l] = acq[l] # "none"]
    /\ Become(AbortWaiter(Now, l))
    /\ UNCHANGED <<closed, lease, again>>

Close ==
    /\ Calls.close /\ ~closed
    /\ closed' = TRUE
    /\ Become([Now EXCEPT !.queue = [o \in Owners |-> <<>>], !.ring = <<>>, !.pending = 0,
                          !.acq = [l \in Leases |-> IF @[l] = "queued" THEN "rejected"
                                                    ELSE @[l]]])
    /\ UNCHANGED <<lease, aborted, again, stopped>>

Next ==
    \/ Close
    \/ \E l \in Leases :
         \/ Resume(l) \/ PermitArrives(l) \/ AcquisitionEnds(l) \/ ResumeAgain(l)
         \/ Suspend(l) \/ Release(l)
         \/ \E forGood \in BOOLEAN : SignalAborts(l, forGood)

Spec == Init /\ [][Next]_vars

(* The microtask queue is fair, and a turn that computes pauses or ends    *)
(* some time (its provider calls have time limits): settle releases the    *)
(* lease, a waiting interaction suspends it.                               *)
Stops(l) == lease[l] = "active" /\ (Suspend(l) \/ Release(l))
FairSpec ==
    /\ Spec
    /\ \A l \in Leases :
         /\ WF_vars(PermitArrives(l) \/ AcquisitionEnds(l) \/ ResumeAgain(l))
         /\ WF_vars(Stops(l))
-----------------------------------------------------------------------------
(* Properties                                                              *)

(* Every counter, queue and lease stays in its type: the counters of       *)
(* permits and waiters neither fall below zero nor pass their limits.      *)
TypeOK ==
    /\ queue \in [Owners -> Seq(Leases)] /\ ring \in Seq(Owners)
    /\ active \in 0..Capacity
    /\ byOwner \in [Owners -> 0..Capacity]
    /\ pending \in 0..MaxPending
    /\ closed \in BOOLEAN
    /\ lease \in [Leases -> {"suspended", "acquiring", "active", "released"}]
    /\ acq \in [Leases -> {"none", "queued", "granted", "rejected", "ending"}]
    /\ {aborted, again, stopped} \subseteq [Leases -> BOOLEAN]

(* Every permit that is counted is in the hands of an active lease or on   *)
(* its way to one, and none is counted twice or kept by a lease that was   *)
(* suspended or released while its permit arrived.                         *)
Holders == {l \in Leases : lease[l] = "active" \/ acq[l] = "granted"}
PermitsAreHeld ==
    /\ active = Cardinality(Holders)
    /\ \A o \in Owners : byOwner[o] = Cardinality({l \in Holders : OwnerOf[l] = o})

(* Queues, ring, counter and acquisitions agree: the waiters are exactly   *)
(* the queued acquisitions, each in the queue of its owner, and the ring   *)
(* holds each owner that has waiters once.                                 *)
QueuesAgree ==
    /\ \A o \in Owners :
         /\ ToSet(queue[o]) = {l \in Leases : acq[l] = "queued" /\ OwnerOf[l] = o}
         /\ IsInjective(queue[o])
    /\ ToSet(ring) = {o \in Owners : queue[o] # <<>>} /\ IsInjective(ring)
    /\ pending = Cardinality({l \in Leases : acq[l] = "queued"})

(* Permits, counters, queues and leases tell one story, through every      *)
(* abort, suspension and arrival.                                          *)
Consistent == TypeOK /\ PermitsAreHeld /\ QueuesAgree

(* No permit lies idle while the first waiter of some owner could have it, *)
(* whichever of release, abort, suspension or arrival came last.           *)
NoIdlePermit ==
    active < Capacity => \A o \in Owners : ~Eligible(queue, byOwner, o)

(* Every resume call comes to an end: its acquisition is granted or        *)
(* rejected and the lease forgets it.                                      *)
ResumeEnds == \A l \in Leases : []<>(acq[l] = "none")
=============================================================================
