------------------------ MODULE StartupWorkloadProofs ------------------------
(***************************************************************************)
(* Theorems about the startup coordinator, for any tasks, targets, phases, *)
(* lanes, keys and nesting and any number of runs: the counts of the lanes *)
(* are exact and their limits hold, no lane stands idle, and the work of a *)
(* run that was replaced resolves no promise.                              *)
(***************************************************************************)
EXTENDS StartupWorkload, FiniteSetTheorems, WellFoundedInduction, TLAPS

\* The tasks that wait are those in the queue, and their numbers tell them apart.
QueueIsOrdered ==
  /\ \A t \in Tasks : t \in DOMAIN pendingTasks <=> st[t] = "pending"
  /\ \A t \in DOMAIN pendingTasks : pendingTasks[t] <= sequence
  /\ \A t, u \in DOMAIN pendingTasks : pendingTasks[t] = pendingTasks[u] => t = u

\* No run is older than the last one, and a target without a run has none.
RunsAreNumbered ==
  /\ \A t \in Tasks : runOf[t] <= runSequence
  /\ \A g \in Targets : run[g] <= runSequence

IsCurrent(t) == runOf[t] # 0 /\ runOf[t] = run[Target[t]]

\* Where a task stands tells whether it is of a current run, and what its promise is.
TaskMatches(t) ==
  /\ st[t] \in {"pending", "running"} => IsCurrent(t) /\ t \in inFlight /\ promise[t] = "open"
  /\ st[t] \in {"new", "joined"} => runOf[t] = 0 /\ promise[t] = "open"
  /\ st[t] = "aborted" => ~IsCurrent(t) /\ promise[t] = "rejected"
  /\ st[t] = "over" => promise[t] # "open" /\ (IsCurrent(t) => t \notin inFlight)

LanesAreKept == CountsAreExact /\ CapsHold /\ NoIdleLane

WorkloadInv ==
  /\ TypeOK /\ QueueIsOrdered /\ RunsAreNumbered /\ (\A t \in Tasks : TaskMatches(t))
  /\ LanesAreKept

(***************************************************************************)
(* The order in which tasks are picked.                                    *)
(***************************************************************************)

\* Waiting tasks, each with a number of its own.
IsQueue(waiting) ==
  /\ DOMAIN waiting \subseteq Tasks /\ waiting \in [DOMAIN waiting -> Nat]
  /\ \A t, u \in DOMAIN waiting : waiting[t] = waiting[u] => t = u

Lane(S, r) == {t \in S : Resource[t] = r}

LEMMA ConstantFacts ==
  /\ \A r \in Resources : MaxConcurrency[r] \in Nat \ {0}
  /\ \A t \in Tasks : Resource[t] \in Resources /\ Priority[Phase[t]] \in Nat
  /\ \A t, u \in Tasks : Priority[Phase[t]] = Priority[Phase[u]] => Phase[t] = Phase[u]
  /\ \A t, u \in Tasks : Phase[t] = "interactive" => ~(Priority[Phase[u]] < Priority[Phase[t]])
<1>1. \A r \in Resources : MaxConcurrency[r] \in Nat \ {0}
  BY DEF Resources, MaxConcurrency
<1>2. /\ Priority["interactive"] = 0 /\ Priority["deferred"] = 1 /\ Priority["background"] = 2
  BY DEF Priority
<1>3. \A t \in Tasks : /\ Resource[t] \in Resources
                      /\ Phase[t] \in {"interactive", "deferred", "background"}
  BY AttributesAssumption
<1> QED
  BY <1>1, <1>2, <1>3

\* A set of naturals has a least element.
LEMMA LeastExists ==
  ASSUME NEW S, S \subseteq Nat, S # {}
  PROVE  \E x \in S : \A y \in S : x <= y
<1>1. PICK x \in S : \A y \in S : ~(<<y, x>> \in OpToRel(<, Nat))
  BY NatLessThanWellFounded, WFMin
<1>2. ASSUME NEW y \in S, y < x PROVE FALSE
  <2>1. <<y, x>> \in OpToRel(<, Nat)
    BY <1>2 DEF OpToRel
  <2> QED
    BY <1>1, <2>1
<1> QED
  BY <1>2

\* Before is a strict total order.
LEMMA BeforeIsOrder ==
  ASSUME NEW waiting, IsQueue(waiting)
  PROVE  \A t, u \in DOMAIN waiting :
           /\ ~Before(t, t, waiting)
           /\ t # u => Before(t, u, waiting) \/ Before(u, t, waiting)
           /\ \A v \in DOMAIN waiting :
                Before(t, u, waiting) /\ Before(u, v, waiting) => Before(t, v, waiting)
<1> SUFFICES ASSUME NEW t \in DOMAIN waiting, NEW u \in DOMAIN waiting, NEW v \in DOMAIN waiting
             PROVE  /\ ~Before(t, t, waiting)
                    /\ t # u => Before(t, u, waiting) \/ Before(u, t, waiting)
                    /\ Before(t, u, waiting) /\ Before(u, v, waiting) => Before(t, v, waiting)
  OBVIOUS
<1>1. /\ t \in Tasks /\ u \in Tasks /\ v \in Tasks
      /\ waiting[t] \in Nat /\ waiting[u] \in Nat /\ waiting[v] \in Nat
      /\ waiting[t] = waiting[u] => t = u
  BY DEF IsQueue
<1>2. /\ Priority[Phase[t]] \in Nat /\ Priority[Phase[u]] \in Nat /\ Priority[Phase[v]] \in Nat
      /\ Priority[Phase[t]] = Priority[Phase[u]] => Phase[t] = Phase[u]
  BY <1>1, ConstantFacts
<1> QED
  BY <1>1, <1>2 DEF Before

\* What is ahead of a task is finite, and less than what is ahead of a task behind it.
LEMMA AheadGrows ==
  ASSUME NEW waiting, IsQueue(waiting), NEW t \in DOMAIN waiting
  PROVE  /\ IsFiniteSet(Ahead(t, waiting)) /\ Cardinality(Ahead(t, waiting)) \in Nat
         /\ \A u \in Ahead(t, waiting) :
              Cardinality(Ahead(u, waiting)) < Cardinality(Ahead(t, waiting))
<1>1. ASSUME NEW u \in DOMAIN waiting
      PROVE  IsFiniteSet(Ahead(u, waiting)) /\ Cardinality(Ahead(u, waiting)) \in Nat
  <2>1. Ahead(u, waiting) \in SUBSET Tasks
    BY DEF Ahead, IsQueue
  <2>2. IsFiniteSet(Ahead(u, waiting))
    BY <2>1, TasksAreFinite, FS_Subset
  <2> QED
    BY <2>2, FS_CardinalityType
<1>2. ASSUME NEW u \in Ahead(t, waiting)
      PROVE  Cardinality(Ahead(u, waiting)) < Cardinality(Ahead(t, waiting))
  <2>1. u \in DOMAIN waiting /\ Resource[u] = Resource[t] /\ Before(u, t, waiting)
    BY DEF Ahead
  <2>2. Ahead(u, waiting) \in SUBSET Ahead(t, waiting)
    BY <2>1, BeforeIsOrder DEF Ahead
  <2>3. u \notin Ahead(u, waiting)
    BY <2>1, BeforeIsOrder DEF Ahead
  <2>4. /\ Cardinality(Ahead(u, waiting)) <= Cardinality(Ahead(t, waiting))
        /\ Cardinality(Ahead(u, waiting)) # Cardinality(Ahead(t, waiting))
    BY <1>1, <2>2, <2>3, FS_Subset
  <2> QED
    BY <1>1, <2>1, <2>4
<1> QED
  BY <1>1, <1>2

\* A task that pump leaves waiting is not interactive, and its lane is full.
LEMMA LanesAreFilled ==
  ASSUME NEW waiting, IsQueue(waiting), NEW counts \in [Resources -> Nat], NEW r \in Resources,
         NEW t \in Lane(DOMAIN waiting, r), t \notin Picked(waiting, counts)
  PROVE  /\ Phase[t] # "interactive"
         /\ counts[r] + Cardinality(Lane(Picked(waiting, counts), r)) >= MaxConcurrency[r]
<1> DEFINE left == {u \in Lane(DOMAIN waiting, r) : u \notin Picked(waiting, counts)}
           sizes == {Cardinality(Ahead(u, waiting)) : u \in left}
<1>1. left \subseteq DOMAIN waiting /\ t \in left
  BY DEF Lane
<1>2. sizes \subseteq Nat /\ sizes # {}
  BY <1>1, AheadGrows
<1>3. PICK u \in left : \A v \in left :
        Cardinality(Ahead(u, waiting)) <= Cardinality(Ahead(v, waiting))
  <2> HIDE DEF left
  <2>1. \E x \in sizes : \A y \in sizes : x <= y
    BY <1>2, LeastExists
  <2> QED
    BY <2>1
\* Nothing that is left is ahead of the first that is left.
<1>4. Ahead(u, waiting) \subseteq Lane(Picked(waiting, counts), r)
  <2>1. ASSUME NEW v \in Ahead(u, waiting), v \in left PROVE FALSE
    <3>1. Cardinality(Ahead(v, waiting)) < Cardinality(Ahead(u, waiting))
      BY <1>1, AheadGrows
    <3>2. Cardinality(Ahead(u, waiting)) <= Cardinality(Ahead(v, waiting))
      BY <1>3, <2>1
    <3>3. Cardinality(Ahead(u, waiting)) \in Nat /\ Cardinality(Ahead(v, waiting)) \in Nat
      BY <1>1, <2>1, AheadGrows
    <3> QED
      BY <3>1, <3>2, <3>3
  <2>2. ASSUME NEW v \in Ahead(u, waiting) PROVE v \in Lane(DOMAIN waiting, r)
    BY DEF Ahead, Lane
  <2> QED
    BY <2>1, <2>2 DEF Lane
<1>5. /\ Ahead(u, waiting) \in SUBSET Lane(Picked(waiting, counts), r)
      /\ IsFiniteSet(Lane(Picked(waiting, counts), r))
      /\ Cardinality(Lane(Picked(waiting, counts), r)) \in Nat
  <2>1. Lane(Picked(waiting, counts), r) \in SUBSET Tasks
    BY DEF Lane, Picked, IsQueue
  <2>2. IsFiniteSet(Lane(Picked(waiting, counts), r))
    BY <2>1, TasksAreFinite, FS_Subset
  <2> QED
    BY <1>4, <2>2, FS_CardinalityType
<1>6. Cardinality(Ahead(u, waiting)) <= Cardinality(Lane(Picked(waiting, counts), r))
  BY <1>5, FS_Subset
<1>7. ~HasPlace(u, waiting, counts) /\ Resource[u] = r
  BY DEF Picked, Lane
<1>8. counts[r] + Cardinality(Ahead(u, waiting)) >= MaxConcurrency[r]
  <2>1. Cardinality(Ahead(u, waiting)) \in Nat /\ counts[r] \in Nat /\ MaxConcurrency[r] \in Nat
    BY <1>1, AheadGrows, ConstantFacts
  <2> QED
    BY <1>7, <2>1 DEF HasPlace
<1>9. Cardinality(Ahead(u, waiting)) \in Nat /\ counts[r] \in Nat /\ MaxConcurrency[r] \in Nat
  BY <1>1, AheadGrows, ConstantFacts
<1>10. Phase[t] # "interactive"
  BY DEF Picked, Lane
<1> QED
  BY <1>5, <1>6, <1>8, <1>9, <1>10

\* If pump picks a task that is not interactive, all it picks of that lane find a place.
LEMMA PlacesAreKept ==
  ASSUME NEW waiting, IsQueue(waiting), NEW counts \in [Resources -> Nat], NEW r \in Resources,
         NEW t \in Lane(Picked(waiting, counts), r), Phase[t] # "interactive"
  PROVE  counts[r] + Cardinality(Lane(Picked(waiting, counts), r)) <= MaxConcurrency[r]
<1> DEFINE picked == {u \in Lane(Picked(waiting, counts), r) : Phase[u] # "interactive"}
           size(u) == Cardinality(Ahead(u, waiting))
           rest == {MaxConcurrency[r] - size(u) : u \in picked}
<1>1. picked \subseteq DOMAIN waiting /\ t \in picked
  BY DEF Lane, Picked
<1>2. counts[r] \in Nat /\ MaxConcurrency[r] \in Nat /\ \A u \in DOMAIN waiting : size(u) \in Nat
  BY AheadGrows, ConstantFacts
<1>3. \A u \in picked : counts[r] + size(u) < MaxConcurrency[r]
  BY DEF Lane, Picked, HasPlace
<1>4. PICK u \in picked : \A v \in picked : size(v) <= size(u)
  <2> HIDE DEF picked, size
  <2>1. rest \subseteq Nat /\ rest # {}
    BY <1>1, <1>2, <1>3
  <2>2. PICK x \in rest : \A y \in rest : x <= y
    BY <2>1, LeastExists
  <2>3. PICK u \in picked : x = MaxConcurrency[r] - size(u)
    BY <2>2
  <2>4. ASSUME NEW v \in picked PROVE size(v) <= size(u)
    <3>1. MaxConcurrency[r] - size(u) <= MaxConcurrency[r] - size(v)
      BY <2>2, <2>3
    <3> QED
      BY <1>1, <1>2, <3>1
  <2> QED
    BY <2>4
\* All that is picked of the lane is ahead of the last that is picked.
<1>5. ASSUME NEW v \in Lane(Picked(waiting, counts), r), v # u
      PROVE  v \in Ahead(u, waiting)
  <2>1. v \in DOMAIN waiting /\ Resource[v] = Resource[u] /\ u \in DOMAIN waiting
        /\ v \in Tasks /\ u \in Tasks
    BY DEF Lane, Picked, IsQueue
  <2>2. ASSUME Before(u, v, waiting) PROVE FALSE
    <3>1. u \in Ahead(v, waiting)
      BY <2>1, <2>2 DEF Ahead
    <3>2. size(u) < size(v)
      BY <2>1, <3>1, AheadGrows
    <3>3. Phase[v] # "interactive"
      <4>1. Phase[u] # "interactive"
        OBVIOUS
      <4>2. Priority[Phase[u]] < Priority[Phase[v]] \/ Phase[u] = Phase[v]
        BY <2>2 DEF Before
      <4> QED
        BY <2>1, <4>1, <4>2, ConstantFacts
    <3>4. size(v) <= size(u)
      BY <1>4, <3>3
    <3> HIDE DEF size
    <3> QED
      BY <1>2, <2>1, <3>2, <3>4
  <2>3. Before(v, u, waiting)
    BY <1>5, <2>1, <2>2, BeforeIsOrder
  <2> QED
    BY <2>1, <2>3 DEF Ahead
<1>6. u \in DOMAIN waiting /\ IsFiniteSet(Ahead(u, waiting))
  BY <1>1, AheadGrows
<1>7. Lane(Picked(waiting, counts), r) \in SUBSET (Ahead(u, waiting) \cup {u})
  BY <1>5
<1>8. /\ IsFiniteSet(Ahead(u, waiting) \cup {u})
      /\ Cardinality(Ahead(u, waiting) \cup {u}) <= size(u) + 1
  <2>1. /\ IsFiniteSet(Ahead(u, waiting) \cup {u})
        /\ Cardinality(Ahead(u, waiting) \cup {u}) \in {size(u), size(u) + 1}
    BY <1>6, FS_AddElement
  <2> HIDE DEF size
  <2> QED
    BY <1>2, <1>6, <2>1
<1>9. /\ Cardinality(Lane(Picked(waiting, counts), r)) <= Cardinality(Ahead(u, waiting) \cup {u})
      /\ Cardinality(Lane(Picked(waiting, counts), r)) \in Nat
      /\ Cardinality(Ahead(u, waiting) \cup {u}) \in Nat
  BY <1>7, <1>8, FS_Subset, FS_CardinalityType
<1>10. counts[r] + size(u) < MaxConcurrency[r] /\ size(u) \in Nat
  BY <1>2, <1>3, <1>6
<1> HIDE DEF size
<1> QED
  BY <1>2, <1>8, <1>9, <1>10

(***************************************************************************)
(* What pump makes of the lanes.                                           *)
(***************************************************************************)

AtWork(state, r) == {t \in Tasks : state[t] \in {"running", "aborted"} /\ Resource[t] = r}
Capped(state, r) == {t \in AtWork(state, r) : Phase[t] # "interactive"}

\* The lanes are kept by what the coordinator has when it pumps.
Balanced(state, waiting, counts) ==
  /\ state \in [Tasks -> States] /\ IsQueue(waiting) /\ counts \in [Resources -> Nat]
  /\ \A t \in Tasks : t \in DOMAIN waiting <=> state[t] = "pending"
  /\ \A r \in Resources : /\ counts[r] = Cardinality(AtWork(state, r))
                          /\ Cardinality(Capped(state, r)) <= MaxConcurrency[r]

LEMMA PumpIsSafe ==
  ASSUME NEW state, NEW waiting, NEW counts, Balanced(state, waiting, counts),
         Pump(state, waiting, counts)
  PROVE  /\ Balanced(st', pendingTasks', runningCounts') /\ LanesAreKept'
         /\ \A t \in Tasks : st'[t] = state[t] \/ (state[t] = "pending" /\ st'[t] = "running")
         /\ pendingTasks' = Without(waiting, Picked(waiting, counts))
<1> DEFINE picked == Picked(waiting, counts)
<1>1. /\ state \in [Tasks -> States] /\ IsQueue(waiting) /\ counts \in [Resources -> Nat]
      /\ \A t \in Tasks : t \in DOMAIN waiting <=> state[t] = "pending"
      /\ \A r \in Resources : /\ counts[r] = Cardinality(AtWork(state, r))
                              /\ Cardinality(Capped(state, r)) <= MaxConcurrency[r]
  BY DEF Balanced
<1>2. picked \subseteq DOMAIN waiting /\ picked \subseteq Tasks
  BY <1>1 DEF Picked, IsQueue
<1>3. /\ st' = [t \in Tasks |-> IF t \in picked THEN "running" ELSE state[t]]
      /\ pendingTasks' = Without(waiting, picked)
      /\ runningCounts' = [r \in Resources |-> counts[r] + Cardinality(Lane(picked, r))]
  BY DEF Pump, Lane
<1>4. \A r \in Resources :
        (\E t \in Lane(picked, r) : Phase[t] # "interactive") =>
           counts[r] + Cardinality(Lane(picked, r)) <= MaxConcurrency[r]
  BY <1>1, PlacesAreKept
<1>5. \A r \in Resources : \A t \in Lane(DOMAIN waiting, r) :
        t \notin picked => /\ Phase[t] # "interactive"
                           /\ counts[r] + Cardinality(Lane(picked, r)) >= MaxConcurrency[r]
  BY <1>1, LanesAreFilled
<1> HIDE DEF picked
<1>6. /\ st' \in [Tasks -> States]
      /\ \A t \in Tasks : st'[t] = state[t] \/ (state[t] = "pending" /\ st'[t] = "running")
  BY <1>1, <1>2, <1>3 DEF States
<1>7. /\ DOMAIN pendingTasks' = DOMAIN waiting \ picked
      /\ \A t \in DOMAIN pendingTasks' : pendingTasks'[t] = waiting[t]
      /\ IsQueue(pendingTasks')
  <2>1. /\ DOMAIN pendingTasks' = DOMAIN waiting \ picked
        /\ \A t \in DOMAIN waiting \ picked : pendingTasks'[t] = waiting[t]
    BY <1>3 DEF Without
  <2>2. pendingTasks' \in [DOMAIN waiting \ picked -> Nat]
    BY <1>1, <1>3 DEF Without, IsQueue
  <2> QED
    BY <1>1, <2>1, <2>2 DEF IsQueue
<1>8. \A t \in Tasks : t \in DOMAIN pendingTasks' <=> st'[t] = "pending"
  BY <1>1, <1>2, <1>3, <1>7
\* The lane of each kind after the step.
<1>9. ASSUME NEW r \in Resources
      PROVE  /\ IsFiniteSet(Lane(picked, r)) /\ Cardinality(Lane(picked, r)) \in Nat
             /\ AtWork(st', r) = AtWork(state, r) \cup Lane(picked, r)
             /\ Cardinality(AtWork(st', r)) = counts[r] + Cardinality(Lane(picked, r))
             /\ Cardinality(Capped(st', r)) <= MaxConcurrency[r]
  <2>1. Lane(picked, r) \in SUBSET Tasks /\ AtWork(state, r) \in SUBSET Tasks
    BY <1>2 DEF Lane, AtWork
  <2>2. /\ IsFiniteSet(Lane(picked, r)) /\ Cardinality(Lane(picked, r)) \in Nat
        /\ IsFiniteSet(AtWork(state, r)) /\ Cardinality(AtWork(state, r)) \in Nat
    BY <2>1, TasksAreFinite, FS_Subset, FS_CardinalityType
  <2>3. AtWork(st', r) = AtWork(state, r) \cup Lane(picked, r)
    BY <1>2, <1>3 DEF AtWork, Lane
  <2>4. AtWork(state, r) \cap Lane(picked, r) = {}
    BY <1>1, <1>2 DEF AtWork, Lane
  <2>5. /\ IsFiniteSet(AtWork(st', r))
        /\ Cardinality(AtWork(st', r)) =
             Cardinality(AtWork(state, r)) + Cardinality(Lane(picked, r))
    <3>1. /\ IsFiniteSet(AtWork(state, r) \cup Lane(picked, r))
          /\ Cardinality(AtWork(state, r) \cup Lane(picked, r)) =
               Cardinality(AtWork(state, r)) + Cardinality(Lane(picked, r))
                 - Cardinality(AtWork(state, r) \cap Lane(picked, r))
      BY <2>2, FS_Union
    <3>2. Cardinality(AtWork(state, r) \cap Lane(picked, r)) = 0
      BY <2>4, FS_EmptySet
    <3> QED
      BY <2>2, <2>3, <3>1, <3>2
  <2>6. Cardinality(Capped(st', r)) <= MaxConcurrency[r]
    <3>1. CASE \E t \in Lane(picked, r) : Phase[t] # "interactive"
      <4>1. counts[r] + Cardinality(Lane(picked, r)) <= MaxConcurrency[r]
        BY <1>4, <3>1
      <4>2. Capped(st', r) \in SUBSET AtWork(st', r)
        BY DEF Capped
      <4>3. /\ Cardinality(Capped(st', r)) <= Cardinality(AtWork(st', r))
            /\ Cardinality(Capped(st', r)) \in Nat /\ Cardinality(AtWork(st', r)) \in Nat
        BY <2>5, <4>2, FS_Subset, FS_CardinalityType
      <4>4. Cardinality(AtWork(st', r)) <= MaxConcurrency[r] /\ MaxConcurrency[r] \in Nat
        BY <1>1, <2>5, <4>1, ConstantFacts
      <4> QED
        BY <4>3, <4>4
    <3>2. CASE \A t \in Lane(picked, r) : Phase[t] = "interactive"
      <4>1. Capped(st', r) = Capped(state, r)
        BY <2>3, <3>2 DEF Capped
      <4> QED
        BY <1>1, <4>1
    <3> QED
      BY <3>1, <3>2
  <2> QED
    BY <1>1, <2>2, <2>3, <2>5, <2>6
<1>10. /\ runningCounts' \in [Resources -> Nat]
       /\ \A r \in Resources : /\ runningCounts'[r] = Cardinality(AtWork(st', r))
                               /\ runningCounts'[r] = counts[r] + Cardinality(Lane(picked, r))
  BY <1>1, <1>3, <1>9
<1>11. Balanced(st', pendingTasks', runningCounts')
  BY <1>6, <1>7, <1>8, <1>9, <1>10 DEF Balanced
<1>12. CountsAreExact'
  BY <1>10 DEF CountsAreExact, Working, AtWork
<1>13. CapsHold'
  BY <1>9 DEF CapsHold, Working, Capped, AtWork
<1>14. NoIdleLane'
  <2>1. ASSUME NEW t \in DOMAIN pendingTasks'
        PROVE  /\ Phase[t] # "interactive"
               /\ runningCounts'[Resource[t]] >= MaxConcurrency[Resource[t]]
    <3>1. t \in DOMAIN waiting /\ t \notin picked /\ t \in Tasks
      BY <1>1, <1>7 DEF IsQueue
    <3>2. PICK r \in Resources : r = Resource[t]
      BY <3>1, ConstantFacts
    <3>3. t \in Lane(DOMAIN waiting, r)
      BY <3>1, <3>2 DEF Lane
    <3> QED
      BY <1>5, <1>10, <3>1, <3>2, <3>3
  <2> QED
    BY <2>1 DEF NoIdleLane
<1>15. pendingTasks' = Without(waiting, Picked(waiting, counts))
  BY <1>3 DEF picked
<1> QED
  BY <1>6, <1>11, <1>12, <1>13, <1>14, <1>15 DEF LanesAreKept

\* The invariant says that the lanes are balanced.
LEMMA InvIsBalanced ==
  ASSUME WorkloadInv
  PROVE  /\ Balanced(st, pendingTasks, runningCounts)
         /\ \A t \in Tasks : TaskMatches(t)
         /\ \A t \in DOMAIN pendingTasks : pendingTasks[t] <= sequence
         /\ sequence \in Nat
<1>1. IsQueue(pendingTasks)
  BY DEF WorkloadInv, TypeOK, QueueIsOrdered, IsQueue
<1>2. \A r \in Resources : /\ runningCounts[r] = Cardinality(AtWork(st, r))
                           /\ Cardinality(Capped(st, r)) <= MaxConcurrency[r]
  BY DEF WorkloadInv, LanesAreKept, CountsAreExact, CapsHold, Working, AtWork, Capped
<1> QED
  BY <1>1, <1>2 DEF WorkloadInv, TypeOK, QueueIsOrdered, Balanced

(***************************************************************************)
(* Types and the invariant: one lemma per group of steps.                  *)
(***************************************************************************)

\* A task is queued, for the current run of its target.
LEMMA PushIsSafe ==
  ASSUME WorkloadInv, NEW t \in Tasks, NEW state \in [Tasks -> States],
         \A u \in Tasks : state[u] = st[u] \/ (st[u] = "new" /\ state[u] = "joined"),
         st[t] = "new", run[Target[t]] # 0, Push(t, state),
         UNCHANGED <<run, runSequence, promise>>, follows' \in [Tasks -> Tasks]
  PROVE  WorkloadInv'
<1> DEFINE queued == [state EXCEPT ![t] = "pending"]
           waiting == [u \in DOMAIN pendingTasks \cup {t} |->
                         IF u = t THEN sequence + 1 ELSE pendingTasks[u]]
<1>1. /\ TypeOK /\ RunsAreNumbered /\ Balanced(st, pendingTasks, runningCounts)
      /\ \A u \in Tasks : TaskMatches(u)
      /\ \A u \in DOMAIN pendingTasks : pendingTasks[u] <= sequence
      /\ sequence \in Nat
  BY InvIsBalanced DEF WorkloadInv
<1>2. /\ runOf' = [runOf EXCEPT ![t] = run[Target[t]]] /\ inFlight' = inFlight \cup {t}
      /\ sequence' = sequence + 1 /\ Pump(queued, waiting, runningCounts)
  BY DEF Push
<1>3. /\ queued \in [Tasks -> States] /\ queued[t] = "pending"
      /\ \A u \in Tasks \ {t} : queued[u] = state[u]
  BY DEF States
<1>4. /\ DOMAIN waiting = DOMAIN pendingTasks \cup {t} /\ waiting[t] = sequence + 1
      /\ \A u \in DOMAIN pendingTasks : u # t /\ waiting[u] = pendingTasks[u]
      /\ \A u \in DOMAIN waiting : waiting[u] \in Nat /\ waiting[u] <= sequence + 1
  <2>1. t \notin DOMAIN pendingTasks
    BY <1>1 DEF Balanced
  <2>2. \A u \in DOMAIN pendingTasks : pendingTasks[u] \in Nat
    BY <1>1 DEF Balanced, IsQueue
  <2> QED
    BY <1>1, <2>1, <2>2
<1>5. IsQueue(waiting)
  <2>1. waiting \in [DOMAIN waiting -> Nat]
    BY <1>4
  <2>2. \A u \in DOMAIN pendingTasks : waiting[u] # waiting[t]
    <3>1. \A u \in DOMAIN pendingTasks : pendingTasks[u] \in Nat
      BY <1>1 DEF Balanced, IsQueue
    <3> HIDE DEF waiting
    <3> QED
      BY <1>1, <1>4, <3>1
  <2> HIDE DEF waiting
  <2>3. \A u, v \in DOMAIN waiting : waiting[u] = waiting[v] => u = v
    BY <1>1, <1>4, <2>2 DEF Balanced, IsQueue
  <2> QED
    BY <1>1, <1>4, <2>1, <2>3 DEF Balanced, IsQueue
<1> HIDE DEF queued, waiting
<1>6. Balanced(queued, waiting, runningCounts)
  <2>1. \A u \in Tasks : u \in DOMAIN waiting <=> queued[u] = "pending"
    BY <1>1, <1>3, <1>4 DEF Balanced
  <2>2. \A r \in Resources : /\ AtWork(queued, r) = AtWork(st, r)
                             /\ Capped(queued, r) = Capped(st, r)
    BY <1>3 DEF AtWork, Capped
  <2> QED
    BY <1>1, <1>3, <1>5, <2>1, <2>2 DEF Balanced
<1>7. /\ Balanced(st', pendingTasks', runningCounts') /\ LanesAreKept'
      /\ \A u \in Tasks : st'[u] = queued[u] \/ (queued[u] = "pending" /\ st'[u] = "running")
      /\ pendingTasks' = Without(waiting, Picked(waiting, runningCounts))
  BY <1>2, <1>6, PumpIsSafe
<1>8. QueueIsOrdered'
  <2>1. /\ DOMAIN pendingTasks' \subseteq DOMAIN waiting
        /\ \A u \in DOMAIN pendingTasks' : pendingTasks'[u] = waiting[u]
    BY <1>7 DEF Without
  <2> QED
    BY <1>2, <1>4, <1>7, <2>1 DEF QueueIsOrdered, Balanced, IsQueue
<1>9. runOf'[t] = run[Target[t]] /\ \A u \in Tasks \ {t} : runOf'[u] = runOf[u]
  BY <1>1, <1>2 DEF TypeOK
<1>10. Target[t] \in Targets /\ run[Target[t]] \in Nat
  BY <1>1, AttributesAssumption DEF TypeOK
<1>11. TypeOK'
  <2>1. /\ st' \in [Tasks -> States] /\ runningCounts' \in [Resources -> Nat]
        /\ DOMAIN pendingTasks' \subseteq Tasks
        /\ pendingTasks' \in [DOMAIN pendingTasks' -> Nat]
    BY <1>7 DEF Balanced, IsQueue
  <2>2. /\ run' \in [Targets -> Nat] /\ runSequence' \in Nat
        /\ promise' \in [Tasks -> {"open"} \cup Outcomes]
        /\ inFlight' \subseteq Tasks /\ sequence' \in Nat
    BY <1>1, <1>2 DEF TypeOK
  <2>3. runOf' \in [Tasks -> Nat]
    BY <1>1, <1>2, <1>10 DEF TypeOK
  <2> QED
    BY <2>1, <2>2, <2>3 DEF TypeOK
<1>12. RunsAreNumbered'
  BY <1>1, <1>9, <1>10 DEF RunsAreNumbered
<1>13. ASSUME NEW u \in Tasks PROVE TaskMatches(u)'
  <2>1. CASE u = t
    <3>1. st'[t] \in {"pending", "running"} /\ promise'[t] = "open" /\ t \in inFlight'
      BY <1>1, <1>2, <1>3, <1>7 DEF TaskMatches
    <3> QED
      BY <1>9, <2>1, <3>1 DEF TaskMatches, IsCurrent
  <2>2. CASE u # t
    <3>1. TaskMatches(u) /\ runOf'[u] = runOf[u] /\ (u \in inFlight' <=> u \in inFlight)
      BY <1>1, <1>2, <1>9, <2>2
    <3>2. \/ st'[u] = st[u] \/ (st[u] = "new" /\ st'[u] = "joined")
          \/ st[u] = "pending" /\ st'[u] = "running"
      BY <1>3, <1>7, <2>2
    <3> QED
      BY <3>1, <3>2 DEF TaskMatches, IsCurrent
  <2> QED
    BY <2>1, <2>2
<1> QED
  BY <1>7, <1>8, <1>11, <1>12, <1>13 DEF WorkloadInv

\* A task joins another, or is refused.
LEMMA AsideIsSafe ==
  ASSUME WorkloadInv, NEW t \in Tasks, st[t] = "new", NEW state \in {"joined", "over"},
         st' = [st EXCEPT ![t] = state],
         promise' = IF state = "over" THEN [promise EXCEPT ![t] = "rejected"] ELSE promise,
         follows' \in [Tasks -> Tasks],
         UNCHANGED <<run, runSequence, runOf, queue, runningCounts, inFlight>>
  PROVE  WorkloadInv'
<1>1. TypeOK /\ QueueIsOrdered /\ RunsAreNumbered /\ LanesAreKept
      /\ \A u \in Tasks : TaskMatches(u)
  BY DEF WorkloadInv
<1>2. UNCHANGED <<run, runSequence, runOf, pendingTasks, sequence, runningCounts, inFlight>>
  BY DEF queue
<1>3. st'[t] = state /\ \A u \in Tasks \ {t} : st'[u] = st[u] /\ promise'[u] = promise[u]
  BY <1>1 DEF TypeOK
<1>4. promise'[t] = IF state = "over" THEN "rejected" ELSE promise[t]
  BY <1>1 DEF TypeOK
<1>5. st' \in [Tasks -> States] /\ promise' \in [Tasks -> {"open"} \cup Outcomes]
  <2>1. "over" \in States /\ "joined" \in States /\ "rejected" \in Outcomes
    BY DEF States, Outcomes
  <2> QED
    BY <1>1, <2>1 DEF TypeOK
<1>6. TypeOK'
  BY <1>1, <1>2, <1>5 DEF TypeOK
<1>7. QueueIsOrdered' /\ RunsAreNumbered'
  <2>1. \A u \in Tasks : st'[u] = "pending" <=> st[u] = "pending"
    BY <1>3
  <2> QED
    BY <1>1, <1>2, <2>1 DEF QueueIsOrdered, RunsAreNumbered
<1>8. LanesAreKept'
  <2>1. \A r \in Resources : Working(r)' = Working(r)
    BY <1>3 DEF Working
  <2> QED
    BY <1>1, <1>2, <2>1 DEF LanesAreKept, CountsAreExact, CapsHold, NoIdleLane
<1>9. ASSUME NEW u \in Tasks PROVE TaskMatches(u)'
  <2>1. TaskMatches(u)
    BY <1>1
  <2>2. CASE u = t
    <3>1. runOf[t] = 0 /\ promise[t] = "open"
      BY <2>1, <2>2 DEF TaskMatches
    <3>2. ~IsCurrent(t)'
      BY <1>2, <3>1 DEF IsCurrent
    <3> QED
      BY <1>2, <1>3, <1>4, <2>2, <3>1, <3>2 DEF TaskMatches
  <2>3. CASE u # t
    BY <1>2, <1>3, <2>1, <2>3 DEF TaskMatches, IsCurrent
  <2> QED
    BY <2>2, <2>3
<1> QED
  BY <1>6, <1>7, <1>8, <1>9 DEF WorkloadInv

\* scheduleTask, from its caller or from the work of another task.
LEMMA EnqueueIsSafe ==
  ASSUME WorkloadInv, NEW t \in Tasks, st[t] = "new", Enqueue(t)
  PROVE  WorkloadInv'
<1> DEFINE existing == {u \in inFlight : runOf[u] = run[Target[t]] /\ Key[u] = Key[t]}
<1>1. TypeOK
  BY DEF WorkloadInv
<1>2. CASE existing # {}
  <2>1. /\ \E u \in existing : follows' = [follows EXCEPT ![t] = follows[u]]
        /\ st' = [st EXCEPT ![t] = "joined"]
        /\ UNCHANGED <<run, runSequence, runOf, queue, runningCounts, inFlight, promise>>
    BY <1>2 DEF Enqueue
  <2>2. follows' \in [Tasks -> Tasks]
    BY <1>1, <2>1 DEF TypeOK
  <2> QED
    BY <2>1, <2>2, AsideIsSafe
<1>3. CASE existing = {}
  <2>1. Push(t, st) /\ UNCHANGED <<run, runSequence, promise, follows>> /\ run[Target[t]] # 0
    BY <1>3 DEF Enqueue
  <2>2. st \in [Tasks -> States] /\ follows' \in [Tasks -> Tasks]
    BY <1>1, <2>1 DEF TypeOK
  <2> QED
    BY <2>1, <2>2, PushIsSafe
<1> QED
  BY <1>2, <1>3

LEMMA ScheduleIsSafe ==
  ASSUME WorkloadInv, NEW t \in Tasks, ScheduleTask(t) \/ WhenIdle(t) \/ ScheduleNested(t)
  PROVE  WorkloadInv'
<1>1. TypeOK /\ None \notin Tasks /\ Nested[t] \in Tasks \cup {None}
  BY TasksAreFinite, AttributesAssumption DEF WorkloadInv
<1>2. ASSUME NEW u \in Tasks, st[u] = "new", RejectStale(u) PROVE WorkloadInv'
  <2>1. follows' \in [Tasks -> Tasks]
    BY <1>1, <1>2 DEF RejectStale, TypeOK
  <2> QED
    BY <1>2, <2>1, AsideIsSafe DEF RejectStale
<1>3. CASE ScheduleTask(t)
  BY <1>2, <1>3, EnqueueIsSafe DEF ScheduleTask
<1>4. CASE ScheduleNested(t)
  <2>1. PICK u \in Tasks : u = Nested[t]
    BY <1>1, <1>4 DEF ScheduleNested
  <2>2. st[u] = "new" /\ (Enqueue(u) \/ RejectStale(u))
    BY <1>4, <2>1 DEF ScheduleNested
  <2> QED
    BY <1>2, <2>2, EnqueueIsSafe
<1>5. CASE WhenIdle(t)
  <2>1. CASE ~IsIdle
    BY <1>5, <2>1, EnqueueIsSafe DEF WhenIdle
  <2>2. CASE IsIdle
    <3>1. PICK n \in Tasks : n = Nested[t]
      BY <1>1, <1>5 DEF WhenIdle
    <3> DEFINE state == [st EXCEPT ![t] = "joined"]
    <3>2. /\ st[t] = "new" /\ run[Target[n]] # 0 /\ st[n] = "new"
          /\ follows' = [follows EXCEPT ![t] = n] /\ Push(n, state)
          /\ UNCHANGED <<run, runSequence, promise>>
      BY <1>5, <2>2, <3>1 DEF WhenIdle
    <3>3. /\ state \in [Tasks -> States] /\ follows' \in [Tasks -> Tasks]
          /\ \A u \in Tasks : state[u] = st[u] \/ (st[u] = "new" /\ state[u] = "joined")
      BY <1>1, <3>2 DEF TypeOK, States
    <3> HIDE DEF state
    <3> QED
      BY <3>2, <3>3, PushIsSafe
  <2> QED
    BY <2>1, <2>2
<1> QED
  BY <1>3, <1>4, <1>5

\* A run is replaced or cancelled: its tasks are rejected, and those at work keep their places.
LEMMA CancelIsSafe ==
  ASSUME WorkloadInv, NEW g \in Targets, CreateRun(g) \/ CancelTarget(g)
  PROVE  WorkloadInv'
<1> DEFINE gone == Cancelled(g)
<1>1. /\ TypeOK /\ QueueIsOrdered /\ RunsAreNumbered /\ LanesAreKept
      /\ \A t \in Tasks : TaskMatches(t)
  BY DEF WorkloadInv
<1>2. PICK number \in {0, runSequence + 1} :
        run' = [run EXCEPT ![g] = number] /\ runSequence' \in {runSequence, runSequence + 1}
        /\ (number # 0 => runSequence' = runSequence + 1)
  BY DEF CreateRun, CancelTarget
<1>3. /\ CancelTasks(g)
      /\ UNCHANGED <<runOf, sequence, follows, runningCounts, inFlight>>
  BY DEF CreateRun, CancelTarget
<1>4. /\ st' = [t \in Tasks |-> IF t \notin gone THEN st[t]
                                ELSE IF st[t] = "running" THEN "aborted" ELSE "over"]
      /\ pendingTasks' = Without(pendingTasks, gone)
      /\ promise' = [t \in Tasks |-> IF t \in gone THEN "rejected" ELSE promise[t]]
  BY <1>3 DEF CancelTasks
<1>5. \A t \in Tasks : t \in gone <=> /\ Target[t] = g /\ runOf[t] = run[g]
                                      /\ st[t] \in {"pending", "running"}
  BY DEF Cancelled
<1> HIDE DEF gone
<1>6. run'[g] = number /\ \A h \in Targets \ {g} : run'[h] = run[h]
  BY <1>1, <1>2 DEF TypeOK
<1>7. runSequence \in Nat /\ \A t \in Tasks : runOf[t] \in Nat /\ runOf[t] <= runSequence
  BY <1>1 DEF TypeOK, RunsAreNumbered
<1>8. TypeOK'
  <2>1. "aborted" \in States /\ "over" \in States /\ "rejected" \in Outcomes
    BY DEF States, Outcomes
  <2>2. st' \in [Tasks -> States] /\ promise' \in [Tasks -> {"open"} \cup Outcomes]
    BY <1>1, <1>4, <2>1 DEF TypeOK
  <2>3. run' \in [Targets -> Nat] /\ runSequence' \in Nat
    BY <1>1, <1>2, <1>7 DEF TypeOK
  <2>4. /\ DOMAIN pendingTasks' \subseteq Tasks
        /\ pendingTasks' \in [DOMAIN pendingTasks' -> Nat]
    <3>1. DOMAIN pendingTasks' = DOMAIN pendingTasks \ gone
      BY <1>4 DEF Without
    <3>2. pendingTasks' \in [DOMAIN pendingTasks \ gone -> Nat]
      BY <1>1, <1>4 DEF Without, TypeOK
    <3> QED
      BY <1>1, <3>1, <3>2 DEF TypeOK
  <2> QED
    BY <1>1, <1>3, <2>2, <2>3, <2>4 DEF TypeOK
<1>9. /\ DOMAIN pendingTasks' = DOMAIN pendingTasks \ gone
      /\ \A t \in DOMAIN pendingTasks' : pendingTasks'[t] = pendingTasks[t]
  BY <1>4 DEF Without
<1>10. QueueIsOrdered'
  <2>1. \A t \in Tasks : st'[t] = "pending" <=> st[t] = "pending" /\ t \notin gone
    BY <1>4
  <2> QED
    BY <1>1, <1>3, <1>9, <2>1 DEF QueueIsOrdered
<1>11. RunsAreNumbered'
  <2>1. \A t \in Tasks : runOf'[t] <= runSequence'
    BY <1>2, <1>3, <1>7
  <2>2. \A h \in Targets : run[h] \in Nat /\ run[h] <= runSequence
    BY <1>1 DEF TypeOK, RunsAreNumbered
  <2>3. \A h \in Targets : run'[h] <= runSequence'
    BY <1>2, <1>6, <1>7, <2>2
  <2> QED
    BY <2>1, <2>3 DEF RunsAreNumbered
<1>12. LanesAreKept'
  <2>1. \A r \in Resources : Working(r)' = Working(r)
    <3>1. ASSUME NEW t \in Tasks
          PROVE  st'[t] \in {"running", "aborted"} <=> st[t] \in {"running", "aborted"}
      BY <1>4, <1>5
    <3> QED
      BY <3>1 DEF Working
  <2> QED
    BY <1>1, <1>3, <1>9, <2>1 DEF LanesAreKept, CountsAreExact, CapsHold, NoIdleLane
<1>13. ASSUME NEW t \in Tasks PROVE TaskMatches(t)'
  <2>1. TaskMatches(t) /\ Target[t] \in Targets
    BY <1>1, AttributesAssumption
  <2>2. CASE Target[t] = g
    <3>1. ~IsCurrent(t)'
      BY <1>2, <1>3, <1>6, <1>7, <2>2 DEF IsCurrent
    <3>2. st'[t] \notin {"pending", "running"}
      BY <1>4, <1>5, <2>1, <2>2 DEF TaskMatches, IsCurrent
    <3>3. \/ t \in gone /\ st'[t] \in {"aborted", "over"} /\ promise'[t] = "rejected"
          \/ t \notin gone /\ st'[t] = st[t] /\ promise'[t] = promise[t]
      BY <1>4
    <3> QED
      BY <1>3, <2>1, <3>1, <3>2, <3>3 DEF TaskMatches
  <2>3. CASE Target[t] # g
    <3>1. st'[t] = st[t] /\ promise'[t] = promise[t]
      BY <1>4, <1>5, <2>3
    <3>2. IsCurrent(t)' <=> IsCurrent(t)
      BY <1>3, <1>6, <2>1, <2>3 DEF IsCurrent
    <3> QED
      BY <1>3, <2>1, <3>1, <3>2 DEF TaskMatches
  <2> QED
    BY <2>2, <2>3
<1> QED
  BY <1>8, <1>10, <1>11, <1>12, <1>13 DEF WorkloadInv

\* The work of a task returns.
LEMMA ReturnIsSafe ==
  ASSUME WorkloadInv, NEW t \in Tasks, NEW outcome \in Outcomes, TaskReturns(t, outcome)
  PROVE  WorkloadInv'
<1> DEFINE state == [st EXCEPT ![t] = "over"]
           counts == [runningCounts EXCEPT ![Resource[t]] = @ - 1]
<1>1. /\ TypeOK /\ RunsAreNumbered /\ Balanced(st, pendingTasks, runningCounts)
      /\ \A u \in Tasks : TaskMatches(u)
      /\ \A u \in DOMAIN pendingTasks : pendingTasks[u] <= sequence
      /\ sequence \in Nat
  BY InvIsBalanced DEF WorkloadInv
<1>2. /\ st[t] \in {"running", "aborted"}
      /\ promise' = [promise EXCEPT ![t] = IF st[t] = "aborted" THEN "rejected" ELSE outcome]
      /\ inFlight' = inFlight \ {t} /\ Pump(state, pendingTasks, counts)
      /\ UNCHANGED <<run, runSequence, runOf, sequence, follows>>
  BY DEF TaskReturns
<1>3. state \in [Tasks -> States] /\ state[t] = "over" /\ \A u \in Tasks \ {t} : state[u] = st[u]
  BY <1>1 DEF TypeOK, States
<1>4. PICK q \in Resources : q = Resource[t]
  BY ConstantFacts
<1>5. \A r \in Resources : counts[r] = IF r = q THEN runningCounts[r] - 1 ELSE runningCounts[r]
  BY <1>1, <1>4 DEF Balanced
<1>6. DOMAIN counts = Resources /\ counts = [r \in Resources |-> counts[r]]
  BY <1>1 DEF Balanced
<1> HIDE DEF state, counts
<1>7. ASSUME NEW r \in Resources
      PROVE  /\ counts[r] \in Nat /\ counts[r] = Cardinality(AtWork(state, r))
             /\ Cardinality(Capped(state, r)) <= MaxConcurrency[r]
  <2>1. AtWork(state, r) = AtWork(st, r) \ {t} /\ Capped(state, r) = Capped(st, r) \ {t}
    BY <1>3 DEF AtWork, Capped
  <2>2. /\ IsFiniteSet(AtWork(st, r)) /\ IsFiniteSet(Capped(st, r))
        /\ IsFiniteSet(AtWork(state, r))
    <3>1. /\ AtWork(st, r) \in SUBSET Tasks /\ Capped(st, r) \in SUBSET Tasks
          /\ AtWork(state, r) \in SUBSET Tasks
      BY DEF AtWork, Capped
    <3> QED
      BY <3>1, TasksAreFinite, FS_Subset
  <2>3. t \in AtWork(st, r) <=> r = q
    BY <1>2, <1>4 DEF AtWork
  <2>4. Cardinality(AtWork(state, r)) =
          IF r = q THEN Cardinality(AtWork(st, r)) - 1 ELSE Cardinality(AtWork(st, r))
    BY <2>1, <2>2, <2>3, FS_RemoveElement
  <2>5. Cardinality(AtWork(state, r)) \in Nat
    BY <2>2, FS_CardinalityType
  <2>6. /\ Cardinality(Capped(state, r)) <= Cardinality(Capped(st, r))
        /\ Cardinality(Capped(state, r)) \in Nat /\ Cardinality(Capped(st, r)) \in Nat
    <3>1. Capped(state, r) \in SUBSET Capped(st, r)
      BY <2>1
    <3> QED
      BY <2>2, <3>1, FS_Subset, FS_CardinalityType
  <2>7. /\ Cardinality(Capped(st, r)) <= MaxConcurrency[r] /\ MaxConcurrency[r] \in Nat
        /\ runningCounts[r] = Cardinality(AtWork(st, r))
    BY <1>1, ConstantFacts DEF Balanced
  <2> QED
    BY <1>5, <2>4, <2>5, <2>6, <2>7
<1>8. Balanced(state, pendingTasks, counts)
  <2>1. counts \in [Resources -> Nat]
    BY <1>6, <1>7
  <2>2. \A u \in Tasks : u \in DOMAIN pendingTasks <=> state[u] = "pending"
    BY <1>1, <1>2, <1>3 DEF Balanced
  <2> QED
    BY <1>1, <1>3, <1>7, <2>1, <2>2 DEF Balanced
<1>9. /\ Balanced(st', pendingTasks', runningCounts') /\ LanesAreKept'
      /\ \A u \in Tasks : st'[u] = state[u] \/ (state[u] = "pending" /\ st'[u] = "running")
      /\ pendingTasks' = Without(pendingTasks, Picked(pendingTasks, counts))
  BY <1>2, <1>8, PumpIsSafe
<1>10. QueueIsOrdered'
  <2>1. /\ DOMAIN pendingTasks' \subseteq DOMAIN pendingTasks
        /\ \A u \in DOMAIN pendingTasks' : pendingTasks'[u] = pendingTasks[u]
    BY <1>9 DEF Without
  <2> QED
    BY <1>1, <1>2, <1>9, <2>1 DEF QueueIsOrdered, Balanced, IsQueue
<1>11. TypeOK'
  <2>1. /\ st' \in [Tasks -> States] /\ runningCounts' \in [Resources -> Nat]
        /\ DOMAIN pendingTasks' \subseteq Tasks
        /\ pendingTasks' \in [DOMAIN pendingTasks' -> Nat]
    BY <1>9 DEF Balanced, IsQueue
  <2>2. /\ run' \in [Targets -> Nat] /\ runSequence' \in Nat /\ runOf' \in [Tasks -> Nat]
        /\ follows' \in [Tasks -> Tasks] /\ inFlight' \subseteq Tasks /\ sequence' \in Nat
    BY <1>1, <1>2 DEF TypeOK
  <2>3. promise' \in [Tasks -> {"open"} \cup Outcomes]
    BY <1>1, <1>2 DEF TypeOK, Outcomes
  <2> QED
    BY <2>1, <2>2, <2>3 DEF TypeOK
<1>12. RunsAreNumbered'
  BY <1>1, <1>2 DEF RunsAreNumbered
<1>13. ASSUME NEW u \in Tasks PROVE TaskMatches(u)'
  <2>1. TaskMatches(u) /\ (IsCurrent(u)' <=> IsCurrent(u))
    BY <1>1, <1>2 DEF IsCurrent
  <2>2. CASE u = t
    <3>1. st'[t] = "over" /\ promise'[t] # "open" /\ t \notin inFlight'
      BY <1>1, <1>2, <1>3, <1>9 DEF TypeOK, Outcomes
    <3> QED
      BY <2>2, <3>1 DEF TaskMatches
  <2>3. CASE u # t
    <3>1. /\ promise'[u] = promise[u] /\ (u \in inFlight' <=> u \in inFlight)
          /\ runOf'[u] = runOf[u]
          /\ st'[u] = st[u] \/ (st[u] = "pending" /\ st'[u] = "running")
      BY <1>1, <1>2, <1>3, <1>9, <2>3 DEF TypeOK
    <3> QED
      BY <2>1, <3>1 DEF TaskMatches
  <2> QED
    BY <2>2, <2>3
<1> QED
  BY <1>9, <1>10, <1>11, <1>12, <1>13 DEF WorkloadInv

LEMMA WorkloadInductive == ASSUME WorkloadInv, [Next]_vars PROVE WorkloadInv'
<1>1. CASE UNCHANGED vars
  <2>1. UNCHANGED <<run, runSequence, st, runOf, pendingTasks, sequence, follows, promise,
                    runningCounts, inFlight>>
    BY <1>1 DEF vars, queue
  <2> QED
    BY <2>1
    DEF WorkloadInv, TypeOK, QueueIsOrdered, RunsAreNumbered, TaskMatches, IsCurrent, LanesAreKept,
        CountsAreExact, CapsHold, NoIdleLane, Working
<1>2. CASE Next
  BY <1>2, CancelIsSafe, ScheduleIsSafe, ReturnIsSafe DEF Next
<1> QED
  BY <1>1, <1>2

LEMMA WorkloadInit == Init => WorkloadInv
<1> SUFFICES ASSUME Init PROVE WorkloadInv
  OBVIOUS
<1>1. /\ run = [g \in Targets |-> 0] /\ runSequence = 0
      /\ st = [t \in Tasks |-> "new"] /\ runOf = [t \in Tasks |-> 0]
      /\ DOMAIN pendingTasks = {} /\ pendingTasks = [t \in {} |-> 0] /\ sequence = 0
      /\ follows = [t \in Tasks |-> t] /\ promise = [t \in Tasks |-> "open"]
      /\ runningCounts = [r \in Resources |-> 0] /\ inFlight = {}
  BY DEF Init
<1>2. TypeOK
  <2>1. "new" \in States
    BY DEF States
  <2> QED
    BY <1>1, <2>1 DEF TypeOK
<1>3. QueueIsOrdered /\ RunsAreNumbered
  BY <1>1 DEF QueueIsOrdered, RunsAreNumbered
<1>4. \A t \in Tasks : TaskMatches(t)
  BY <1>1 DEF TaskMatches
<1>5. \A r \in Resources : Working(r) = {}
  BY <1>1 DEF Working
<1>6. CountsAreExact
  BY <1>1, <1>5, FS_EmptySet DEF CountsAreExact
<1>7. CapsHold
  <2>1. ASSUME NEW r \in Resources
        PROVE  Cardinality({t \in Working(r) : Phase[t] # "interactive"}) <= MaxConcurrency[r]
    <3>1. {t \in Working(r) : Phase[t] # "interactive"} = {}
      BY <1>5
    <3>2. Cardinality({t \in Working(r) : Phase[t] # "interactive"}) = 0
      BY <3>1, FS_EmptySet
    <3> QED
      BY <3>2, ConstantFacts
  <2> QED
    BY <2>1 DEF CapsHold
<1>8. NoIdleLane
  BY <1>1 DEF NoIdleLane
<1> QED
  BY <1>2, <1>3, <1>4, <1>6, <1>7, <1>8 DEF WorkloadInv, LanesAreKept

(***************************************************************************)
(* The theorems.                                                           *)
(***************************************************************************)

\* The counts of the lanes are the tasks whose work has not returned, aborted ones included, the
\* limits hold for all but interactive tasks, and who joins a task gets an open promise.
THEOREM WorkloadIsConsistent == Spec => []Consistent
<1>1. WorkloadInv => Consistent
  <2>1. ASSUME WorkloadInv PROVE JoinedIsInFlight
    <3>1. ASSUME NEW t \in Tasks, IsCurrent(t)
          PROVE  t \in inFlight <=> promise[t] = "open"
      <4>1. TaskMatches(t) /\ st[t] \in States
        BY <2>1 DEF WorkloadInv, TypeOK
      <4> QED
        BY <3>1, <4>1 DEF TaskMatches, IsCurrent, States
    <3> QED
      BY <3>1 DEF JoinedIsInFlight, IsCurrent
  <2> QED
    BY <2>1 DEF WorkloadInv, LanesAreKept, Consistent
<1> QED
  BY WorkloadInit, WorkloadInductive, <1>1, PTL DEF Spec

\* No lane stands idle while a task waits for it, and no interactive task waits, whatever was
\* cancelled, returned or scheduled last.
THEOREM LanesAreNeverIdle == Spec => []NoIdleLane
<1>1. WorkloadInv => NoIdleLane
  BY DEF WorkloadInv, LanesAreKept
<1> QED
  BY WorkloadInit, WorkloadInductive, <1>1, PTL DEF Spec

\* A promise is resolved by the work of a task of the current run alone.
THEOREM CancelledIsNeverResolved == Spec => CancelledStaysCancelled
<1> DEFINE Lawful == \A t \in Tasks :
             promise[t] = "open" /\ promise'[t] = "resolved" => runOf[t] = run[Target[t]]
<1>1. ASSUME WorkloadInv, [Next]_vars PROVE [Lawful]_vars
  <2>1. promise \in [Tasks -> {"open"} \cup Outcomes] /\ \A t \in Tasks : TaskMatches(t)
    BY <1>1 DEF WorkloadInv, TypeOK
  <2>2. CASE \E g \in Targets : CreateRun(g) \/ CancelTarget(g)
    BY <2>2 DEF CreateRun, CancelTarget, CancelTasks
  <2>3. CASE \E t \in Tasks : ScheduleTask(t) \/ WhenIdle(t) \/ ScheduleNested(t)
    <3>1. promise' = promise \/ \E u : promise' = [promise EXCEPT ![u] = "rejected"]
      BY <2>3 DEF ScheduleTask, WhenIdle, ScheduleNested, Enqueue, RejectStale
    <3> QED
      BY <2>1, <3>1
  <2>4. ASSUME NEW t \in Tasks, NEW outcome \in Outcomes, TaskReturns(t, outcome)
        PROVE  Lawful
    <3>1. /\ st[t] \in {"running", "aborted"}
          /\ promise' = [promise EXCEPT ![t] = IF st[t] = "aborted" THEN "rejected" ELSE outcome]
      BY <2>4 DEF TaskReturns
    <3>2. CASE st[t] = "running"
      <4>1. runOf[t] = run[Target[t]]
        BY <2>1, <3>2 DEF TaskMatches, IsCurrent
      <4> QED
        BY <2>1, <3>1, <4>1
    <3>3. CASE st[t] = "aborted"
      BY <2>1, <3>1, <3>3
    <3> QED
      BY <3>1, <3>2, <3>3
  <2>5. CASE UNCHANGED vars
    BY <2>5
  <2> QED
    BY <1>1, <2>2, <2>3, <2>4, <2>5 DEF Next
<1> QED
  BY WorkloadInit, WorkloadInductive, <1>1, PTL DEF Spec, CancelledStaysCancelled

=============================================================================
