---------------------- MODULE InvocationAdmissionProofs ----------------------
(***************************************************************************)
(* Theorems about the admission of invocations, for any leases, owners,    *)
(* limits and capacity: the permits counted are those held or on their     *)
(* way, the queues agree with the acquisitions that wait, and no permit is *)
(* idle while somebody could have it.                                      *)
(***************************************************************************)
EXTENDS InvocationAdmission, FiniteSetTheorems, SequenceTheorems, WellFoundedInduction, TLAPS

\* What holds of 0 and of each number after one it holds of, holds up to n.
LEMMA HoldsUpTo ==
  ASSUME NEW n \in Nat, NEW S, 0 \in S, \A i \in 0..n : i < n /\ i \in S => i + 1 \in S
  PROVE  \A i \in 0..n : i \in S
<1> DEFINE Bad == {i \in 0..n : i \notin S}
<1> SUFFICES ASSUME Bad # {} PROVE FALSE
  OBVIOUS
<1>1. Bad \subseteq Nat
  OBVIOUS
<1>2. PICK x \in Bad : \A y \in Bad : ~(<<y, x>> \in OpToRel(<, Nat))
  BY <1>1, NatLessThanWellFounded, WFMin
<1>3. x \in 0..n /\ x \notin S /\ x # 0
  BY <1>2
<1>4. x - 1 \in 0..n /\ x - 1 < x /\ x - 1 < n /\ (x - 1) + 1 = x
  BY <1>3
<1>5. x - 1 \notin Bad
  <2>1. <<x - 1, x>> \in OpToRel(<, Nat)
    BY <1>3, <1>4 DEF OpToRel
  <2> QED
    BY <1>2, <2>1
<1> QED
  BY <1>3, <1>4, <1>5

\* The turns of a round are what their recursive definition says.
LEMMA TurnsUnfold ==
  ASSUME NEW s, Len(s.ring) \in Nat
  PROVE  Turns(s) = [i \in 0..Len(s.ring) |-> IF i = 0 THEN s ELSE Turn(Turns(s)[i - 1])]
<1> DEFINE n == Len(s.ring)
           Unfolds(g, k) == g = [i \in 0..k |-> IF i = 0 THEN s ELSE Turn(g[i - 1])]
           S == {k \in 0..n : \E g : Unfolds(g, k)}
<1>1. n \in Nat
  OBVIOUS
<1>2. 0 \in S
  <2>1. Unfolds([i \in 0..0 |-> s], 0)
    OBVIOUS
  <2>2. 0 \in 0..n
    BY <1>1
  <2> QED
    BY <2>1, <2>2
<1>3. ASSUME NEW k \in 0..n, k < n, k \in S PROVE k + 1 \in S
  <2>1. PICK g : Unfolds(g, k)
    BY <1>3
  <2> DEFINE h == [i \in 0..(k + 1) |-> IF i = 0 THEN s ELSE Turn(g[i - 1])]
  <2>2. \A i \in 0..k : h[i] = g[i]
    BY <2>1
  <2>3. \A i \in 0..(k + 1) : i # 0 => i - 1 \in 0..k
    OBVIOUS
  <2>4. Unfolds(h, k + 1)
    BY <2>2, <2>3
  <2>5. k + 1 \in 0..n
    BY <1>1, <1>3
  <2> HIDE DEF h, Unfolds
  <2> QED
    BY <2>4, <2>5
<1>4. n \in S
  <2> HIDE DEF S, n
  <2>1. \A k \in 0..n : k < n /\ k \in S => k + 1 \in S
    BY <1>3
  <2>2. \A k \in 0..n : k \in S
    BY <1>1, <1>2, <2>1, HoldsUpTo
  <2> QED
    BY <1>1, <2>2
<1> HIDE DEF Unfolds, n
<1>5. \E g : Unfolds(g, n)
  BY <1>4
<1>6. Unfolds(Turns(s), n)
  BY <1>5 DEF Turns, Unfolds, n
<1> QED
  BY <1>6 DEF Unfolds, n

(***************************************************************************)
(* Sequences that list the elements of a set, each once.                   *)
(***************************************************************************)

Lists(q, U, R) ==
  /\ q \in Seq(U)
  /\ \A m, n \in DOMAIN q : q[m] = q[n] => m = n
  /\ \A x \in U : (\E n \in DOMAIN q : q[n] = x) <=> x \in R

\* The sequence is empty exactly when the set is.
LEMMA ListIsEmpty ==
  ASSUME NEW U, NEW q, NEW R, Lists(q, U, R), R \subseteq U
  PROVE  q = <<>> <=> R = {}
<1>1. q \in Seq(U) /\ DOMAIN q = 1..Len(q) /\ Len(q) \in Nat
  BY DEF Lists
<1>2. ASSUME q = <<>> PROVE R = {}
  BY <1>2 DEF Lists
<1>3. ASSUME R = {} PROVE q = <<>>
  <2>1. DOMAIN q = {}
    BY <1>1, <1>3 DEF Lists
  <2>2. Len(q) = 0
    BY <1>1, <2>1
  <2> QED
    BY <1>1, <2>2
<1> QED
  BY <1>2, <1>3

\* An element at the end.
LEMMA ListAppends ==
  ASSUME NEW U, NEW q, NEW R, Lists(q, U, R), NEW x \in U, x \notin R
  PROVE  Lists(Append(q, x), U, R \cup {x})
<1> DEFINE a == Append(q, x)
<1>1. q \in Seq(U) /\ Len(q) \in Nat /\ DOMAIN q = 1..Len(q)
  BY DEF Lists
<1>2. /\ a \in Seq(U) /\ DOMAIN a = 1..(Len(q) + 1)
      /\ \A n \in 1..Len(q) : a[n] = q[n]
      /\ a[Len(q) + 1] = x
  BY <1>1, AppendProperties
<1> HIDE DEF a
<1>3. \A n \in 1..Len(q) : q[n] # x /\ q[n] \in U
  BY <1>1 DEF Lists
<1>4. \A n \in DOMAIN a : n \in 1..Len(q) \/ n = Len(q) + 1
  BY <1>1, <1>2
<1>5. \A m, n \in DOMAIN a : a[m] = a[n] => m = n
  BY <1>1, <1>2, <1>3, <1>4 DEF Lists
<1>6. \A j \in U : (\E n \in DOMAIN a : a[n] = j) <=> j \in R \cup {x}
  <2>1. ASSUME NEW j \in U, j \in R PROVE \E n \in DOMAIN a : a[n] = j
    <3>1. PICK n \in 1..Len(q) : q[n] = j
      BY <1>1, <2>1 DEF Lists
    <3> QED
      BY <1>1, <1>2, <3>1
  <2>2. Len(q) + 1 \in DOMAIN a
    BY <1>1, <1>2
  <2>3. ASSUME NEW n \in DOMAIN a, NEW j \in U, a[n] = j PROVE j \in R \cup {x}
    BY <1>1, <1>2, <1>4, <2>3 DEF Lists
  <2> QED
    BY <1>2, <2>1, <2>2, <2>3
<1> QED
  BY <1>2, <1>5, <1>6 DEF Lists, a

\* A sequence without its element at k.
LEMMA RemovedAt ==
  ASSUME NEW S, NEW q \in Seq(S), NEW k \in 1..Len(q)
  PROVE  /\ RemoveAt(q, k) \in Seq(S)
         /\ DOMAIN RemoveAt(q, k) = 1..(Len(q) - 1)
         /\ \A n \in 1..(Len(q) - 1) :
              RemoveAt(q, k)[n] = IF n < k THEN q[n] ELSE q[n + 1]
<1> DEFINE front == SubSeq(q, 1, k - 1)
           back  == SubSeq(q, k + 1, Len(q))
<1>1. Len(q) \in Nat /\ \A n \in 1..Len(q) : q[n] \in S
  OBVIOUS
<1>2. /\ front \in Seq(S) /\ Len(front) = k - 1
      /\ \A n \in 1..(k - 1) : front[n] = q[n]
  BY <1>1, SubSeqProperties
<1>3. /\ back \in Seq(S) /\ Len(back) = Len(q) - k
      /\ \A n \in 1..(Len(q) - k) : back[n] = q[k + n]
  BY <1>1, SubSeqProperties
<1>4. RemoveAt(q, k) = front \o back
  BY DEF RemoveAt
<1> HIDE DEF front, back
<1>5. /\ front \o back \in Seq(S) /\ Len(front \o back) = Len(front) + Len(back)
      /\ \A n \in 1..(Len(front) + Len(back)) :
           (front \o back)[n] = IF n <= Len(front) THEN front[n] ELSE back[n - Len(front)]
  BY <1>2, <1>3, ConcatProperties
<1>6. Len(front) + Len(back) = Len(q) - 1 /\ Len(q) - 1 \in Nat /\ k \in Nat
  BY <1>1, <1>2, <1>3
<1>7. ASSUME NEW n \in 1..(Len(q) - 1)
      PROVE  (front \o back)[n] = IF n < k THEN q[n] ELSE q[n + 1]
  <2>1. (front \o back)[n] = IF n <= k - 1 THEN front[n] ELSE back[n - (k - 1)]
    BY <1>2, <1>5, <1>6
  <2>2. CASE n < k
    BY <1>2, <1>6, <2>1, <2>2
  <2>3. CASE ~(n < k)
    <3>1. n - (k - 1) \in 1..(Len(q) - k) /\ k + (n - (k - 1)) = n + 1 /\ ~(n <= k - 1)
      BY <1>1, <1>6, <2>3
    <3> QED
      BY <1>3, <2>1, <2>3, <3>1
  <2> QED
    BY <2>2, <2>3
<1>8. DOMAIN (front \o back) = 1..(Len(q) - 1)
  BY <1>5, <1>6
<1> QED
  BY <1>4, <1>5, <1>7, <1>8

\* The element leaves, the others keep their order.
LEMMA ListLosesPlace ==
  ASSUME NEW U, NEW q, NEW R, Lists(q, U, R), NEW k \in DOMAIN q, NEW r, r \in Seq(U),
         DOMAIN r = 1..(Len(q) - 1),
         \A n \in 1..(Len(q) - 1) : r[n] = IF n < k THEN q[n] ELSE q[n + 1]
  PROVE  Lists(r, U, R \ {q[k]})
<1>1. q \in Seq(U) /\ Len(q) \in Nat /\ DOMAIN q = 1..Len(q)
  BY DEF Lists
<1>2. \A m, n \in DOMAIN q : q[m] = q[n] => m = n
  BY DEF Lists
<1>3. ASSUME NEW m \in DOMAIN r, NEW n \in DOMAIN r, r[m] = r[n] PROVE m = n
  <2>1. /\ m \in Nat /\ n \in Nat /\ k \in Nat
        /\ m \in 1..(Len(q) - 1) /\ n \in 1..(Len(q) - 1)
        /\ m \in DOMAIN q /\ m + 1 \in DOMAIN q /\ n \in DOMAIN q /\ n + 1 \in DOMAIN q
    BY <1>1
  <2>2. r[m] = (IF m < k THEN q[m] ELSE q[m + 1]) /\ r[n] = (IF n < k THEN q[n] ELSE q[n + 1])
    BY <2>1
  <2>3. (IF m < k THEN m ELSE m + 1) = (IF n < k THEN n ELSE n + 1)
    BY <1>2, <1>3, <2>1, <2>2
  <2> QED
    BY <2>1, <2>3
<1>4. ASSUME NEW j \in U, j \in R, j # q[k] PROVE \E n \in DOMAIN r : r[n] = j
  <2>1. PICK n \in 1..Len(q) : q[n] = j
    BY <1>1, <1>4 DEF Lists
  <2>2. n # k
    BY <1>4, <2>1
  <2>3. CASE n < k
    BY <1>1, <2>1, <2>3
  <2>4. CASE n > k
    <3>1. n - 1 \in DOMAIN r /\ r[n - 1] = q[n]
      BY <1>1, <2>4
    <3> QED
      BY <2>1, <3>1
  <2> QED
    BY <1>1, <2>2, <2>3, <2>4
<1>5. ASSUME NEW j \in U, NEW n \in DOMAIN r, r[n] = j PROVE j \in R /\ j # q[k]
  <2>1. PICK m \in DOMAIN q : m # k /\ q[m] = j
    BY <1>1, <1>5, SMTT(30)
  <2> QED
    BY <1>2, <2>1 DEF Lists
<1>6. \A j \in U : (\E n \in DOMAIN r : r[n] = j) <=> j \in R \ {q[k]}
  BY <1>4, <1>5
<1> QED
  BY <1>3, <1>6 DEF Lists

\* Removing an element by its value.
LEMMA ListRemoves ==
  ASSUME NEW U, NEW q, NEW R, Lists(q, U, R), NEW x \in U, x \in R
  PROVE  Lists(RemoveFirst(q, x), U, R \ {x})
<1>1. PICK k \in DOMAIN q : q[k] = x
  BY DEF Lists
<1>2. q \in Seq(U) /\ DOMAIN q = 1..Len(q) /\ k \in 1..Len(q)
  BY DEF Lists
<1>3. {n \in 1..Len(q) : q[n] = x} = {k}
  BY <1>1, <1>2 DEF Lists
<1>4. Min({k}) = k
  BY <1>2 DEF Min
<1>5. SelectInSeq(q, LAMBDA v : v = x) = k
  BY <1>3, <1>4 DEF SelectInSeq
<1>6. RemoveFirst(q, x) = RemoveAt(q, k)
  BY <1>1, <1>2, <1>5 DEF RemoveFirst
<1>7. /\ RemoveAt(q, k) \in Seq(U) /\ DOMAIN RemoveAt(q, k) = 1..(Len(q) - 1)
      /\ \A n \in 1..(Len(q) - 1) : RemoveAt(q, k)[n] = IF n < k THEN q[n] ELSE q[n + 1]
  BY <1>2, RemovedAt
<1> QED
  BY <1>1, <1>6, <1>7, ListLosesPlace

\* Taking the first element.
LEMMA ListLosesHead ==
  ASSUME NEW U, NEW q, NEW R, Lists(q, U, R), R \subseteq U, q # <<>>
  PROVE  /\ Head(q) \in R /\ Lists(Tail(q), U, R \ {Head(q)})
         /\ Len(Tail(q)) = Len(q) - 1 /\ Len(q) \in Nat \ {0}
<1>1. q \in Seq(U) /\ DOMAIN q = 1..Len(q) /\ Len(q) \in Nat /\ Head(q) = q[1]
  BY DEF Lists
<1>2. 1 \in DOMAIN q /\ Len(q) # 0
  BY <1>1
<1>3. q[1] \in R
  BY <1>1, <1>2 DEF Lists
<1>4. /\ Tail(q) \in Seq(U) /\ Len(Tail(q)) = Len(q) - 1
      /\ \A n \in 1..(Len(q) - 1) : Tail(q)[n] = q[n + 1]
  BY <1>1, HeadTailProperties
<1>5. DOMAIN Tail(q) = 1..(Len(q) - 1)
  BY <1>4
<1>6. \A n \in 1..(Len(q) - 1) : Tail(q)[n] = IF n < 1 THEN q[n] ELSE q[n + 1]
  BY <1>4
<1>7. Lists(Tail(q), U, R \ {q[1]})
  BY <1>2, <1>4, <1>5, <1>6, ListLosesPlace
<1> QED
  BY <1>1, <1>2, <1>3, <1>4, <1>7

\* The first element goes to the end.
LEMMA ListTurns ==
  ASSUME NEW U, NEW q, NEW R, Lists(q, U, R), R \subseteq U, q # <<>>
  PROVE  /\ Lists(Append(Tail(q), Head(q)), U, R)
         /\ Len(Append(Tail(q), Head(q))) = Len(q)
<1>1. /\ Head(q) \in R /\ Lists(Tail(q), U, R \ {Head(q)})
      /\ Len(Tail(q)) = Len(q) - 1 /\ Len(q) \in Nat \ {0}
  BY ListLosesHead
<1>2. Lists(Append(Tail(q), Head(q)), U, (R \ {Head(q)}) \cup {Head(q)})
  BY <1>1, ListAppends
<1>3. (R \ {Head(q)}) \cup {Head(q)} = R
  BY <1>1
<1>4. Tail(q) \in Seq(U) /\ Head(q) \in U
  BY <1>1 DEF Lists
<1>5. Len(Append(Tail(q), Head(q))) = Len(Tail(q)) + 1
  BY <1>4
<1>6. Len(Append(Tail(q), Head(q))) = Len(q)
  BY <1>1, <1>5
<1>7. Lists(Append(Tail(q), Head(q)), U, R)
  BY <1>2, <1>3
<1> QED
  BY <1>6, <1>7

(***************************************************************************)
(* A state of the admission, as dispatch passes it on, and the leases that *)
(* are active.                                                             *)
(***************************************************************************)

Acqs == {"none", "queued", "granted", "rejected", "ending"}

Admissions ==
  [queue : [Owners -> Seq(Leases)], ring : Seq(Owners), active : Nat,
   byOwner : [Owners -> Nat], pending : Nat, acq : [Leases -> Acqs]]

Queued(s) == {l \in Leases : s.acq[l] = "queued"}
Holding(s, act) == act \cup {l \in Leases : s.acq[l] = "granted"}
Of(H, o) == {l \in H : OwnerOf[l] = o}

\* An active lease has no acquisition under way.
Apart(s, act) == act \subseteq Leases /\ \A l \in act : s.acq[l] \notin {"queued", "granted"}

\* The permits counted are those held or on their way.
PermitsMatch(s, act) ==
  /\ s.active = Cardinality(Holding(s, act)) /\ s.active <= Capacity
  /\ \A o \in Owners : s.byOwner[o] = Cardinality(Of(Holding(s, act), o))

\* The queues list the acquisitions that wait, the ring lists the owners of such.
OwnersWaiting(s) == {o \in Owners : s.queue[o] # <<>>}
QueuesMatch(s) ==
  /\ \A o \in Owners : Lists(s.queue[o], Leases, Of(Queued(s), o))
  /\ Lists(s.ring, Owners, OwnersWaiting(s))
  /\ s.pending = Cardinality(Queued(s)) /\ s.pending <= MaxPending

Sound(s, act) == s \in Admissions /\ Apart(s, act) /\ PermitsMatch(s, act) /\ QueuesMatch(s)

\* No permit that the first waiter of an owner could have is idle.
NoIdle(s) == s.active < Capacity => \A o \in Owners : ~Eligible(s.queue, s.byOwner, o)

\* The assumptions, in the form in which they are used.
LEMMA ConstantFacts ==
  /\ Capacity \in Nat \ {0} /\ MaxPending \in Nat
  /\ \A l \in Leases : OwnerOf[l] \in Owners /\ Limit[l] \in Nat
BY AdmissionAssumption

\* The parts of a state.
LEMMA AdmissionParts ==
  ASSUME NEW s \in Admissions
  PROVE  /\ s.queue \in [Owners -> Seq(Leases)] /\ s.ring \in Seq(Owners) /\ s.active \in Nat
         /\ s.byOwner \in [Owners -> Nat] /\ s.pending \in Nat /\ s.acq \in [Leases -> Acqs]
BY DEF Admissions

\* What granting a permit does to the state.
LEMMA GrantedParts ==
  ASSUME NEW s \in Admissions, NEW l \in Leases
  PROVE  /\ Granted(s, l) \in Admissions
         /\ Granted(s, l).queue = s.queue /\ Granted(s, l).ring = s.ring
         /\ Granted(s, l).pending = s.pending /\ Granted(s, l).active = s.active + 1
         /\ Granted(s, l).byOwner = [s.byOwner EXCEPT ![OwnerOf[l]] = @ + 1]
         /\ Granted(s, l).acq = [s.acq EXCEPT ![l] = "granted"]
<1> DEFINE a == s.active + 1
           b == [s.byOwner EXCEPT ![OwnerOf[l]] = @ + 1]
           c == [s.acq EXCEPT ![l] = "granted"]
<1>1. Granted(s, l) = [s EXCEPT !.active = a, !.byOwner = b, !.acq = c]
  BY DEF Granted, Admissions
<1>2. a \in Nat /\ b \in [Owners -> Nat] /\ c \in [Leases -> Acqs]
  <2>1. a \in Nat
    BY AdmissionParts
  <2>2. b \in [Owners -> Nat]
    BY AdmissionParts, ConstantFacts
  <2>3. c \in [Leases -> Acqs]
    BY AdmissionParts DEF Acqs
  <2> QED
    BY <2>1, <2>2, <2>3
<1> HIDE DEF a, b, c
<1> DEFINE r == [s EXCEPT !.active = a, !.byOwner = b, !.acq = c]
<1>3. /\ r \in Admissions /\ r.queue = s.queue /\ r.ring = s.ring /\ r.active = a
      /\ r.byOwner = b /\ r.pending = s.pending /\ r.acq = c
  BY <1>2 DEF Admissions
<1> QED
  BY <1>1, <1>3 DEF a, b, c

\* A permit is handed to a lease that had none.
LEMMA PermitIsGiven ==
  ASSUME NEW s \in Admissions, NEW act, Apart(s, act), PermitsMatch(s, act), s.active < Capacity,
         NEW l \in Leases, l \notin act, s.acq[l] # "granted",
         NEW r \in Admissions, r.active = s.active + 1, r.acq = [s.acq EXCEPT ![l] = "granted"],
         r.byOwner = [s.byOwner EXCEPT ![OwnerOf[l]] = @ + 1]
  PROVE  Apart(r, act) /\ PermitsMatch(r, act)
<1> DEFINE H == Holding(s, act)
<1>1. s.acq \in [Leases -> Acqs] /\ s.byOwner \in [Owners -> Nat] /\ s.active \in Nat
  BY AdmissionParts
<1>2. /\ H \subseteq Leases /\ IsFiniteSet(H) /\ l \notin H /\ OwnerOf[l] \in Owners
      /\ \A o \in Owners : Of(H, o) \subseteq H /\ IsFiniteSet(Of(H, o))
  <2>1. H \subseteq Leases /\ l \notin H /\ OwnerOf[l] \in Owners
    BY ConstantFacts DEF Holding, Apart
  <2>2. \A o \in Owners : Of(H, o) \subseteq H
    BY DEF Of
  <2> QED
    BY <2>1, <2>2, LeasesAreFinite, FS_Subset
<1>3. Holding(r, act) = H \cup {l}
  BY <1>1 DEF Holding
<1>4. Cardinality(H \cup {l}) = Cardinality(H) + 1
  BY <1>2, FS_AddElement
<1>5. ASSUME NEW o \in Owners PROVE r.byOwner[o] = Cardinality(Of(H \cup {l}, o))
  <2>1. s.byOwner[o] = Cardinality(Of(H, o))
    BY DEF PermitsMatch
  <2>2. CASE OwnerOf[l] = o
    <3>1. Of(H \cup {l}, o) = Of(H, o) \cup {l} /\ l \notin Of(H, o)
      BY <1>2, <2>2 DEF Of
    <3>2. Cardinality(Of(H \cup {l}, o)) = Cardinality(Of(H, o)) + 1
      BY <1>2, <3>1, FS_AddElement
    <3> QED
      BY <1>1, <2>1, <2>2, <3>2
  <2>3. CASE OwnerOf[l] # o
    <3>1. Of(H \cup {l}, o) = Of(H, o)
      BY <2>3 DEF Of
    <3> QED
      BY <1>1, <1>2, <2>1, <2>3, <3>1
  <2> QED
    BY <2>2, <2>3
<1>6. r.active = Cardinality(H \cup {l}) /\ r.active <= Capacity
  BY <1>1, <1>4, ConstantFacts DEF PermitsMatch
<1>7. Apart(r, act)
  BY <1>1 DEF Apart
<1> HIDE DEF H
<1> QED
  BY <1>3, <1>5, <1>6, <1>7 DEF PermitsMatch

\* A permit is given back by a lease that holds it no longer.
LEMMA PermitIsReturned ==
  ASSUME NEW s \in Admissions, NEW act, Apart(s, act), PermitsMatch(s, act),
         NEW l \in Holding(s, act),
         NEW r, r.active = s.active - 1,
         r.byOwner = [s.byOwner EXCEPT ![OwnerOf[l]] = @ - 1],
         NEW rest, Holding(r, rest) = Holding(s, act) \ {l}
  PROVE  PermitsMatch(r, rest) /\ s.active \in Nat \ {0} /\ s.byOwner[OwnerOf[l]] \in Nat \ {0}
<1> DEFINE H == Holding(s, act)
<1>1. s.acq \in [Leases -> Acqs] /\ s.byOwner \in [Owners -> Nat] /\ s.active \in Nat
  BY AdmissionParts
<1>2. /\ H \subseteq Leases /\ IsFiniteSet(H) /\ l \in H /\ OwnerOf[l] \in Owners
      /\ \A o \in Owners : Of(H, o) \subseteq H /\ IsFiniteSet(Of(H, o))
  <2>1. H \subseteq Leases /\ OwnerOf[l] \in Owners
    BY ConstantFacts DEF Holding, Apart
  <2>2. \A o \in Owners : Of(H, o) \subseteq H
    BY DEF Of
  <2> QED
    BY <2>1, <2>2, LeasesAreFinite, FS_Subset
<1>4. Cardinality(H \ {l}) = Cardinality(H) - 1 /\ Cardinality(H \ {l}) \in Nat
  BY <1>2, FS_RemoveElement, FS_CardinalityType
<1>5. ASSUME NEW o \in Owners
      PROVE  /\ r.byOwner[o] = Cardinality(Of(H \ {l}, o))
             /\ OwnerOf[l] = o => s.byOwner[o] # 0
  <2>1. s.byOwner[o] = Cardinality(Of(H, o))
    BY DEF PermitsMatch
  <2>2. CASE OwnerOf[l] = o
    <3>1. Of(H \ {l}, o) = Of(H, o) \ {l} /\ l \in Of(H, o)
      BY <1>2, <2>2 DEF Of
    <3>2. IsFiniteSet(Of(H, o))
      BY <1>2
    <3> HIDE DEF H
    <3>3. /\ IsFiniteSet(Of(H, o) \ {l})
          /\ Cardinality(Of(H, o) \ {l}) = Cardinality(Of(H, o)) - 1
      BY <3>1, <3>2, FS_RemoveElement
    <3>4. Cardinality(Of(H, o) \ {l}) \in Nat
      BY <3>3, FS_CardinalityType
    <3>5. r.byOwner[o] = s.byOwner[o] - 1
      BY <1>1, <2>2
    <3>6. Cardinality(Of(H \ {l}, o)) = s.byOwner[o] - 1 /\ s.byOwner[o] - 1 \in Nat
      BY <2>1, <3>1, <3>3, <3>4
    <3>7. s.byOwner[o] \in Nat
      BY <1>1
    <3> QED
      BY <3>5, <3>6, <3>7
  <2>3. CASE OwnerOf[l] # o
    <3>1. Of(H \ {l}, o) = Of(H, o)
      BY <2>3 DEF Of
    <3> QED
      BY <1>1, <1>2, <2>1, <2>3, <3>1
  <2> QED
    BY <2>2, <2>3
<1>6. /\ r.active = Cardinality(H \ {l}) /\ r.active <= Capacity /\ s.active # 0
  BY <1>1, <1>4, ConstantFacts DEF PermitsMatch
<1> HIDE DEF H
<1>7. Holding(r, rest) = H \ {l}
  BY DEF H
<1>8. PermitsMatch(r, rest)
  BY <1>5, <1>6, <1>7 DEF PermitsMatch
<1> QED
  BY <1>1, <1>2, <1>5, <1>6, <1>8

\* Without waiters no queue has one.
LEMMA NobodyWaits ==
  ASSUME NEW s, NEW act, Sound(s, act), s.pending = 0
  PROVE  NoIdle(s)
<1>1. Queued(s) = {}
  <2>1. IsFiniteSet(Queued(s)) /\ Cardinality(Queued(s)) = 0
    BY LeasesAreFinite, FS_Subset DEF Queued, Sound, QueuesMatch
  <2> QED
    BY <2>1, FS_EmptySet
<1>2. ASSUME NEW o \in Owners PROVE s.queue[o] = <<>>
  <2>1. Lists(s.queue[o], Leases, Of(Queued(s), o)) /\ Of(Queued(s), o) = {}
    BY <1>1 DEF Sound, QueuesMatch, Of
  <2> QED
    BY <2>1, ListIsEmpty
<1> QED
  BY <1>2 DEF NoIdle, Eligible

(***************************************************************************)
(* Dispatch.                                                               *)
(***************************************************************************)

\* An owner that may not have a permit now goes to the back of the ring.
LEMMA RingTurnPasses ==
  ASSUME NEW s, NEW act, Sound(s, act), s.ring # <<>>,
         ~Eligible(s.queue, s.byOwner, Head(s.ring))
  PROVE  /\ RingTurn(s) = [s EXCEPT !.ring = Append(Tail(s.ring), Head(s.ring))]
         /\ Sound(RingTurn(s), act) /\ Len(RingTurn(s).ring) = Len(s.ring)
<1> DEFINE r == [s EXCEPT !.ring = Append(Tail(s.ring), Head(s.ring))]
<1>1. RingTurn(s) = r
  BY DEF RingTurn
<1>2. /\ s \in Admissions /\ Lists(s.ring, Owners, OwnersWaiting(s))
      /\ OwnersWaiting(s) \subseteq Owners
  BY DEF Sound, QueuesMatch, OwnersWaiting
<1>3. /\ Lists(Append(Tail(s.ring), Head(s.ring)), Owners, OwnersWaiting(s))
      /\ Len(Append(Tail(s.ring), Head(s.ring))) = Len(s.ring)
  BY <1>2, ListTurns
<1>4. Append(Tail(s.ring), Head(s.ring)) \in Seq(Owners)
  BY <1>3 DEF Lists
<1>5. /\ r \in Admissions /\ r.ring = Append(Tail(s.ring), Head(s.ring))
      /\ r.queue = s.queue /\ r.active = s.active /\ r.byOwner = s.byOwner
      /\ r.pending = s.pending /\ r.acq = s.acq
  BY <1>2, <1>4 DEF Admissions
<1> HIDE DEF r
<1>6. /\ Queued(r) = Queued(s) /\ Holding(r, act) = Holding(s, act)
      /\ OwnersWaiting(r) = OwnersWaiting(s)
  BY <1>5 DEF Queued, Holding, OwnersWaiting
<1>7. Apart(r, act) /\ PermitsMatch(r, act)
  BY <1>5, <1>6 DEF Sound, Apart, PermitsMatch
<1>8. QueuesMatch(r)
  BY <1>3, <1>5, <1>6 DEF Sound, QueuesMatch
<1>9. Sound(r, act) /\ Len(r.ring) = Len(s.ring)
  BY <1>3, <1>5, <1>7, <1>8 DEF Sound
<1> QED
  BY <1>1, <1>9 DEF r

\* The first waiter of an eligible owner gets a permit.
LEMMA RingTurnGrants ==
  ASSUME NEW s, NEW act, Sound(s, act), s.ring # <<>>, s.active < Capacity,
         Eligible(s.queue, s.byOwner, Head(s.ring))
  PROVE  /\ Sound(RingTurn(s), act) /\ Len(RingTurn(s).ring) >= Len(s.ring) - 1
         /\ RingTurn(s).active = s.active + 1
<1> DEFINE o == Head(s.ring)
           l == Head(s.queue[o])
           q == Tail(s.queue[o])
           g == IF q = <<>> THEN Tail(s.ring) ELSE Append(Tail(s.ring), o)
           r == [Granted(s, l) EXCEPT !.pending = @ - 1, !.queue[o] = q, !.ring = g]
<1>1. /\ s \in Admissions /\ Apart(s, act) /\ PermitsMatch(s, act)
      /\ Lists(s.ring, Owners, OwnersWaiting(s)) /\ OwnersWaiting(s) \subseteq Owners
  BY DEF Sound, QueuesMatch, OwnersWaiting
<1>2. /\ o \in OwnersWaiting(s) /\ Lists(Tail(s.ring), Owners, OwnersWaiting(s) \ {o})
      /\ Len(Tail(s.ring)) = Len(s.ring) - 1 /\ Len(s.ring) \in Nat \ {0}
  BY <1>1, ListLosesHead
<1>3. /\ Lists(Append(Tail(s.ring), o), Owners, OwnersWaiting(s))
      /\ Len(Append(Tail(s.ring), o)) = Len(s.ring)
  BY <1>1, ListTurns
<1>4. /\ o \in Owners /\ s.queue[o] # <<>> /\ Lists(s.queue[o], Leases, Of(Queued(s), o))
      /\ Of(Queued(s), o) \subseteq Leases
  BY <1>2 DEF OwnersWaiting, Sound, QueuesMatch, Of, Queued
<1>5. l \in Of(Queued(s), o) /\ Lists(q, Leases, Of(Queued(s), o) \ {l})
  BY <1>4, ListLosesHead
<1>6. l \in Leases /\ OwnerOf[l] = o /\ s.acq[l] = "queued" /\ l \in Queued(s) /\ l \notin act
  BY <1>1, <1>5 DEF Of, Queued, Apart
<1>7. /\ Granted(s, l) \in Admissions
      /\ Granted(s, l).queue = s.queue /\ Granted(s, l).ring = s.ring
      /\ Granted(s, l).pending = s.pending /\ Granted(s, l).active = s.active + 1
      /\ Granted(s, l).byOwner = [s.byOwner EXCEPT ![OwnerOf[l]] = @ + 1]
      /\ Granted(s, l).acq = [s.acq EXCEPT ![l] = "granted"]
  BY <1>1, <1>6, GrantedParts
<1>8. IsFiniteSet(Queued(s)) /\ s.pending = Cardinality(Queued(s)) /\ s.pending <= MaxPending
  BY LeasesAreFinite, FS_Subset DEF Queued, Sound, QueuesMatch
<1>9. Cardinality(Queued(s) \ {l}) = s.pending - 1 /\ Cardinality(Queued(s) \ {l}) \in Nat
  <2>1. l \in Queued(s) /\ IsFiniteSet(Queued(s)) /\ s.pending = Cardinality(Queued(s))
    BY <1>6, <1>8
  <2> HIDE DEF l
  <2>2. /\ IsFiniteSet(Queued(s) \ {l})
        /\ Cardinality(Queued(s) \ {l}) = Cardinality(Queued(s)) - 1
    BY <2>1, FS_RemoveElement
  <2>3. Cardinality(Queued(s) \ {l}) \in Nat
    BY <2>2, FS_CardinalityType
  <2> QED
    BY <2>1, <2>2, <2>3
<1>10. q \in Seq(Leases) /\ g \in Seq(Owners)
  BY <1>2, <1>3, <1>5 DEF Lists
<1>11. RingTurn(s) = r
  BY <1>7 DEF RingTurn
<1> HIDE DEF g, q, l, o
<1>12. /\ r \in Admissions
       /\ r.queue = [s.queue EXCEPT ![o] = q] /\ r.ring = g
       /\ r.active = s.active + 1 /\ r.byOwner = [s.byOwner EXCEPT ![OwnerOf[l]] = @ + 1]
       /\ r.pending = s.pending - 1 /\ r.acq = [s.acq EXCEPT ![l] = "granted"]
  <2>1. o \in Owners /\ s.pending - 1 \in Nat
    BY <1>4, <1>9
  <2> DEFINE d == Granted(s, l)
             e == [d EXCEPT !.pending = d.pending - 1, !.queue[o] = q, !.ring = g]
  <2>2. d \in Admissions /\ d.pending - 1 \in Nat
    BY <1>7, <2>1
  <2> HIDE DEF d
  <2>3. /\ e \in Admissions /\ e.queue = [d.queue EXCEPT ![o] = q] /\ e.ring = g
        /\ e.active = d.active /\ e.byOwner = d.byOwner /\ e.pending = d.pending - 1
        /\ e.acq = d.acq
    BY <1>10, <2>1, <2>2 DEF Admissions
  <2>4. r = e
    BY DEF d
  <2> HIDE DEF e
  <2> QED
    BY <1>7, <2>3, <2>4 DEF d
<1> HIDE DEF r
<1>13. Apart(r, act) /\ PermitsMatch(r, act)
  BY <1>1, <1>6, <1>12, PermitIsGiven
<1>14. Queued(r) = Queued(s) \ {l}
  BY <1>1, <1>6, <1>12, AdmissionParts DEF Queued
<1>15. \A p \in Owners : r.queue[p] = IF p = o THEN q ELSE s.queue[p]
  <2>1. s.queue \in [Owners -> Seq(Leases)]
    BY <1>1, AdmissionParts
  <2> QED
    BY <1>12, <2>1
<1>16. ASSUME NEW p \in Owners PROVE Lists(r.queue[p], Leases, Of(Queued(r), p))
  <2>1. CASE p = o
    <3>1. r.queue[p] = q
      BY <1>15, <2>1
    <3>2. Of(Queued(r), p) = Of(Queued(s), o) \ {l}
      BY <1>14, <2>1 DEF Of
    <3> QED
      BY <1>5, <3>1, <3>2
  <2>2. CASE p # o
    <3>1. r.queue[p] = s.queue[p]
      BY <1>15, <2>2
    <3>2. Of(Queued(r), p) = Of(Queued(s), p)
      BY <1>6, <1>14, <2>2 DEF Of
    <3> QED
      BY <3>1, <3>2 DEF Sound, QueuesMatch
  <2> QED
    BY <2>1, <2>2
<1>17. Lists(r.ring, Owners, OwnersWaiting(r)) /\ Len(r.ring) >= Len(s.ring) - 1
  <2>1. r.queue[o] = q /\ \A p \in Owners : p # o => r.queue[p] = s.queue[p]
    BY <1>4, <1>15
  <2>2. CASE q = <<>>
    <3>1. OwnersWaiting(r) = OwnersWaiting(s) \ {o}
      BY <2>1, <2>2 DEF OwnersWaiting
    <3> QED
      BY <1>2, <1>12, <2>2, <3>1 DEF g
  <2>3. CASE q # <<>>
    <3>1. OwnersWaiting(r) = OwnersWaiting(s)
      BY <1>2, <2>1, <2>3 DEF OwnersWaiting
    <3>2. Lists(r.ring, Owners, OwnersWaiting(r))
      BY <1>3, <1>12, <2>3, <3>1 DEF g
    <3>3. Len(r.ring) = Len(s.ring)
      BY <1>3, <1>12, <2>3 DEF g
    <3> QED
      BY <1>2, <3>2, <3>3
  <2> QED
    BY <2>2, <2>3
<1>18. r.pending = Cardinality(Queued(r)) /\ r.pending <= MaxPending
  <2>1. s.pending \in Nat
    BY <1>1, AdmissionParts
  <2> QED
    BY <1>8, <1>9, <1>12, <1>14, <2>1, ConstantFacts
<1>19. Sound(r, act)
  BY <1>12, <1>13, <1>16, <1>17, <1>18 DEF Sound, QueuesMatch
<1> QED
  BY <1>12, <1>17, <1>19, <1>11

\* So are the rounds of a dispatch.
LEMMA RoundsUnfold ==
  ASSUME NEW s
  PROVE  Rounds(s) = [i \in 0..Capacity |-> IF i = 0 THEN s ELSE Round(Rounds(s)[i - 1])]
<1> DEFINE n == Capacity
           Unfolds(g, k) == g = [i \in 0..k |-> IF i = 0 THEN s ELSE Round(g[i - 1])]
           S == {k \in 0..n : \E g : Unfolds(g, k)}
<1>1. n \in Nat
  BY ConstantFacts
<1>2. 0 \in S
  <2>1. Unfolds([i \in 0..0 |-> s], 0)
    OBVIOUS
  <2>2. 0 \in 0..n
    BY <1>1
  <2> QED
    BY <2>1, <2>2
<1>3. ASSUME NEW k \in 0..n, k < n, k \in S PROVE k + 1 \in S
  <2>1. PICK g : Unfolds(g, k)
    BY <1>3
  <2> DEFINE h == [i \in 0..(k + 1) |-> IF i = 0 THEN s ELSE Round(g[i - 1])]
  <2>2. \A i \in 0..k : h[i] = g[i]
    BY <2>1
  <2>3. \A i \in 0..(k + 1) : i # 0 => i - 1 \in 0..k
    OBVIOUS
  <2>4. Unfolds(h, k + 1)
    BY <2>2, <2>3
  <2>5. k + 1 \in 0..n
    BY <1>1, <1>3
  <2> HIDE DEF h, Unfolds
  <2> QED
    BY <2>4, <2>5
<1>4. n \in S
  <2> HIDE DEF S, n
  <2>1. \A k \in 0..n : k < n /\ k \in S => k + 1 \in S
    BY <1>3
  <2>2. \A k \in 0..n : k \in S
    BY <1>1, <1>2, <2>1, HoldsUpTo
  <2> QED
    BY <1>1, <2>2
<1> HIDE DEF Unfolds, n
<1>5. \E g : Unfolds(g, n)
  BY <1>4
<1>6. Unfolds(Rounds(s), n)
  BY <1>5 DEF Rounds, Unfolds, n
<1> QED
  BY <1>6 DEF Unfolds, n

\* One turn, when the ring is not empty unless all permits are out.
LEMMA TurnIsSound ==
  ASSUME NEW s, NEW act, Sound(s, act), s.active < Capacity => s.ring # <<>>
  PROVE  /\ Sound(Turn(s), act) /\ Len(Turn(s).ring) >= Len(s.ring) - 1
         /\ Turn(s).active >= s.active
<1>1. s.active \in Nat /\ Len(s.ring) \in Nat
  BY AdmissionParts DEF Sound
<1>2. CASE ~(s.active < Capacity)
  BY <1>1, <1>2 DEF Turn
<1>3. CASE s.active < Capacity /\ Eligible(s.queue, s.byOwner, Head(s.ring))
  <2>1. Turn(s) = RingTurn(s) /\ s.ring # <<>>
    BY <1>3 DEF Turn
  <2>2. /\ Sound(RingTurn(s), act) /\ Len(RingTurn(s).ring) >= Len(s.ring) - 1
        /\ RingTurn(s).active = s.active + 1
    BY <1>3, <2>1, RingTurnGrants
  <2>3. s.active + 1 >= s.active
    BY <1>1
  <2> QED
    BY <2>1, <2>2, <2>3
<1>4. CASE s.active < Capacity /\ ~Eligible(s.queue, s.byOwner, Head(s.ring))
  <2>1. /\ Sound(RingTurn(s), act) /\ Len(RingTurn(s).ring) = Len(s.ring)
        /\ RingTurn(s) = [s EXCEPT !.ring = Append(Tail(s.ring), Head(s.ring))]
    BY <1>4, RingTurnPasses
  <2>2. RingTurn(s).active = s.active
    BY <2>1 DEF Sound, Admissions
  <2> QED
    BY <1>1, <1>4, <2>1, <2>2 DEF Turn
<1> QED
  BY <1>2, <1>3, <1>4

\* A ring after i of its owners went to the back.
Turned(g, i) == [j \in 1..Len(g) |-> g[IF j + i <= Len(g) THEN j + i ELSE j + i - Len(g)]]

\* One more owner goes to the back.
LEMMA TurnedOnce ==
  ASSUME NEW U, NEW g \in Seq(U), NEW i \in 0..Len(g), i < Len(g)
  PROVE  /\ Head(Turned(g, i)) = g[i + 1]
         /\ Append(Tail(Turned(g, i)), Head(Turned(g, i))) = Turned(g, i + 1)
<1> DEFINE n == Len(g)
           h == Turned(g, i)
<1>1. n \in Nat /\ i \in Nat /\ i + 1 \in 1..n /\ \A j \in 1..n : g[j] \in U
  OBVIOUS
<1>2. h \in [1..n -> U]
  BY <1>1 DEF Turned
<1>3. h \in Seq(U) /\ Len(h) = n /\ h # <<>>
  BY <1>1, <1>2
<1>4. \A j \in 1..n : h[j] = g[IF j + i <= n THEN j + i ELSE j + i - n]
  BY DEF Turned
<1> HIDE DEF h
<1>5. Head(h) = g[i + 1]
  <2>1. 1 \in 1..n /\ 1 + i <= n /\ 1 + i = i + 1
    BY <1>1
  <2>2. h[1] = g[i + 1]
    BY <1>4, <2>1
  <2> QED
    BY <1>3, <2>2
<1>6. /\ Tail(h) \in Seq(U) /\ Len(Tail(h)) = n - 1 /\ Head(h) \in U
      /\ \A j \in 1..(n - 1) : Tail(h)[j] = h[j + 1]
  BY <1>1, <1>3, <1>5, HeadTailProperties
<1> DEFINE a == Append(Tail(h), Head(h))
<1>7. /\ a \in Seq(U) /\ Len(a) = n /\ DOMAIN a = 1..n
      /\ \A j \in 1..(n - 1) : a[j] = h[j + 1]
      /\ a[n] = g[i + 1]
  BY <1>1, <1>5, <1>6, AppendProperties
<1> HIDE DEF a
<1>8. ASSUME NEW j \in 1..n
      PROVE  a[j] = g[IF j + (i + 1) <= n THEN j + (i + 1) ELSE j + (i + 1) - n]
  <2>1. CASE j = n
    <3>1. ~(j + (i + 1) <= n) /\ j + (i + 1) - n = i + 1
      BY <1>1, <2>1
    <3> QED
      BY <1>7, <2>1, <3>1
  <2>2. CASE j # n
    <3>1. j \in 1..(n - 1) /\ j + 1 \in 1..n /\ (j + 1) + i = j + (i + 1)
      BY <1>1, <2>2
    <3> QED
      BY <1>4, <1>7, <3>1
  <2> QED
    BY <2>1, <2>2
<1>9. a = [j \in 1..n |-> g[IF j + (i + 1) <= n THEN j + (i + 1) ELSE j + (i + 1) - n]]
  BY <1>7, <1>8
<1>10. a = Turned(g, i + 1)
  BY <1>9 DEF Turned
<1> QED
  BY <1>5, <1>10 DEF a, h

\* A round hands out a permit, unless nobody could have one.
LEMMA RoundIsSound ==
  ASSUME NEW s, NEW act, Sound(s, act)
  PROVE  /\ Sound(Round(s), act)
         /\ NoIdle(Round(s)) \/ (Round(s).active > s.active /\ ~NoIdle(s))
<1>1. /\ s \in Admissions /\ s.active \in Nat /\ s.ring \in Seq(Owners) /\ Len(s.ring) \in Nat
      /\ s.pending \in Nat /\ s.byOwner \in [Owners -> Nat]
  BY AdmissionParts DEF Sound
<1>2. CASE ~(s.active < Capacity)
  BY <1>2 DEF Round, NoIdle
<1>3. CASE ~(s.pending > 0)
  <2>1. s.pending = 0 /\ Round(s) = s
    BY <1>1, <1>3 DEF Round
  <2> QED
    BY <2>1, NobodyWaits
<1>4. CASE s.active < Capacity /\ s.pending > 0
  <2> DEFINE n == Len(s.ring)
             t == Turns(s)
             Same(i) == /\ t[i].queue = s.queue /\ t[i].byOwner = s.byOwner
                        /\ t[i].active = s.active /\ t[i].ring = Turned(s.ring, i)
                        /\ \A j \in 1..i : ~Eligible(s.queue, s.byOwner, s.ring[j])
             T(i) == /\ Sound(t[i], act) /\ Len(t[i].ring) >= n - i
                     /\ Same(i) \/ (t[i].active > s.active /\ ~NoIdle(s))
             S == {i \in 0..n : T(i)}
  <2>1. /\ t[0] = s
        /\ \A i \in 0..n : i < n => t[i + 1] = Turn(t[i])
    <3>1. t = [i \in 0..n |-> IF i = 0 THEN s ELSE Turn(t[i - 1])]
      BY <1>1, TurnsUnfold
    <3> HIDE DEF t
    <3>2. t[0] = s
      BY <1>1, <3>1
    <3>3. ASSUME NEW i \in 0..n, i < n PROVE t[i + 1] = Turn(t[i])
      <4>1. i + 1 \in 0..n /\ i + 1 # 0 /\ (i + 1) - 1 = i
        BY <1>1, <3>3
      <4> QED
        BY <3>1, <4>1
    <3> QED
      BY <3>2, <3>3
  <2> HIDE DEF t
  <2>2. 0 \in S
    <3>1. Turned(s.ring, 0) = s.ring
      BY <1>1 DEF Turned
    <3>2. Same(0)
      BY <2>1, <3>1
    <3>3. Len(t[0].ring) >= n - 0 /\ 0 \in 0..n
      BY <1>1, <2>1
    <3> HIDE DEF Same
    <3> QED
      BY <2>1, <3>2, <3>3
  <2>3. ASSUME NEW i \in 0..n, i < n, T(i) PROVE T(i + 1)
    <3>1. t[i + 1] = Turn(t[i])
      BY <2>1, <2>3
    <3> DEFINE u == t[i]
               v == t[i + 1]
    <3>2. /\ Sound(u, act) /\ Len(u.ring) >= n - i
          /\ u.active \in Nat /\ u.ring \in Seq(Owners) /\ Len(u.ring) \in Nat
      BY <2>3, AdmissionParts DEF Sound
    <3>3. u.ring # <<>>
      BY <1>1, <2>3, <3>2
    <3>4. Sound(v, act) /\ Len(v.ring) >= Len(u.ring) - 1 /\ v.active >= u.active
      BY <3>1, <3>2, <3>3, TurnIsSound
    <3>5. Len(v.ring) \in Nat /\ v.active \in Nat
      BY <3>4, AdmissionParts DEF Sound
    <3>6. Len(v.ring) >= n - (i + 1)
      <4>1. n \in Nat /\ i \in Nat
        BY <1>1
      <4> HIDE DEF u, v, n
      <4> QED
        BY <3>2, <3>4, <3>5, <4>1
    <3>7. CASE u.active > s.active /\ ~NoIdle(s)
      <4>1. v.active > s.active
        BY <1>1, <3>2, <3>4, <3>5, <3>7
      <4> HIDE DEF Same
      <4> QED
        BY <3>4, <3>6, <3>7, <4>1
    <3>8. CASE Same(i)
      <4>1. /\ u.queue = s.queue /\ u.byOwner = s.byOwner /\ u.active = s.active
            /\ u.ring = Turned(s.ring, i)
            /\ \A j \in 1..i : ~Eligible(s.queue, s.byOwner, s.ring[j])
        BY <3>8
      <4>2. /\ Head(u.ring) = s.ring[i + 1]
            /\ Append(Tail(u.ring), Head(u.ring)) = Turned(s.ring, i + 1)
        BY <1>1, <2>3, <4>1, TurnedOnce
      <4>3. v = RingTurn(u)
        BY <1>4, <3>1, <4>1 DEF Turn
      <4>4. CASE Eligible(s.queue, s.byOwner, s.ring[i + 1])
        <5>1. v.active = u.active + 1
          BY <1>4, <3>2, <3>3, <4>1, <4>2, <4>3, <4>4, RingTurnGrants
        <5>2. v.active > s.active
          BY <1>1, <4>1, <5>1
        <5>3. i + 1 \in 1..n
          BY <1>1, <2>3
        <5>4. s.ring[i + 1] \in Owners
          BY <1>1, <5>3
        <5>5. ~NoIdle(s)
          BY <1>4, <4>4, <5>4 DEF NoIdle
        <5> HIDE DEF Same
        <5> QED
          BY <3>4, <3>6, <5>2, <5>5
      <4>5. CASE ~Eligible(s.queue, s.byOwner, s.ring[i + 1])
        <5>1. v = [u EXCEPT !.ring = Turned(s.ring, i + 1)]
          BY <3>2, <3>3, <4>1, <4>2, <4>3, <4>5, RingTurnPasses
        <5>2. /\ v.queue = s.queue /\ v.byOwner = s.byOwner /\ v.active = s.active
              /\ v.ring = Turned(s.ring, i + 1)
          BY <3>2, <4>1, <5>1 DEF Sound, Admissions
        <5>3. \A j \in 1..(i + 1) : j \in 1..i \/ j = i + 1
          BY <2>3
        <5>4. Same(i + 1)
          BY <4>1, <4>5, <5>2, <5>3
        <5> HIDE DEF Same
        <5> QED
          BY <3>4, <3>6, <5>4
      <4> QED
        BY <4>4, <4>5
    <3> HIDE DEF Same, u, v
    <3> QED
      BY <2>3, <3>7, <3>8 DEF u
  <2>4. T(n)
    <3>1. n \in Nat /\ 0 \in S /\ \A i \in 0..n : i < n /\ i \in S => i + 1 \in S
      BY <1>1, <2>2, <2>3
    <3> HIDE DEF S, n
    <3>2. n \in S
      BY <3>1, HoldsUpTo
    <3> QED
      BY <3>2 DEF S
  <2>5. Round(s) = t[n]
    BY <1>4 DEF Round, t
  <2>6. CASE Same(n)
    <3>1. ASSUME NEW o \in Owners, Eligible(s.queue, s.byOwner, o) PROVE FALSE
      <4>1. o \in OwnersWaiting(s)
        BY <3>1 DEF Eligible, OwnersWaiting
      <4>2. PICK j \in DOMAIN s.ring : s.ring[j] = o
        BY <4>1 DEF Sound, QueuesMatch, Lists
      <4>3. j \in 1..n
        BY <1>1, <4>2
      <4> QED
        BY <2>6, <3>1, <4>2, <4>3
    <3>2. NoIdle(t[n])
      BY <2>6, <3>1 DEF NoIdle
    <3> HIDE DEF Same
    <3> QED
      BY <2>4, <2>5, <3>2
  <2>7. CASE t[n].active > s.active /\ ~NoIdle(s)
    <3> HIDE DEF Same
    <3> QED
      BY <2>4, <2>5, <2>7
  <2> HIDE DEF Same
  <2> QED
    BY <2>4, <2>6, <2>7
<1> QED
  BY <1>2, <1>3, <1>4

\* Dispatch leaves no permit idle.
LEMMA DispatchIsSound ==
  ASSUME NEW s, NEW act, Sound(s, act)
  PROVE  Sound(Dispatch(s), act) /\ NoIdle(Dispatch(s))
<1> DEFINE t == Rounds(s)
           T(k) == Sound(t[k], act) /\ (t[k].active >= k \/ NoIdle(t[k]))
           S == {k \in 0..Capacity : T(k)}
<1>1. Capacity \in Nat
  BY ConstantFacts
<1>2. t[0] = s /\ \A k \in 0..Capacity : k < Capacity => t[k + 1] = Round(t[k])
  <2>1. t = [k \in 0..Capacity |-> IF k = 0 THEN s ELSE Round(t[k - 1])]
    BY RoundsUnfold
  <2> HIDE DEF t
  <2>2. t[0] = s
    BY <1>1, <2>1
  <2>3. ASSUME NEW k \in 0..Capacity, k < Capacity PROVE t[k + 1] = Round(t[k])
    <3>1. k + 1 \in 0..Capacity /\ k + 1 # 0 /\ (k + 1) - 1 = k
      BY <1>1, <2>3
    <3> QED
      BY <2>1, <3>1
  <2> QED
    BY <2>2, <2>3
<1> HIDE DEF t
<1>3. 0 \in S
  <2>1. s.active \in Nat
    BY AdmissionParts DEF Sound
  <2> QED
    BY <1>1, <1>2, <2>1
<1>4. ASSUME NEW k \in 0..Capacity, k < Capacity, T(k) PROVE T(k + 1)
  <2>1. /\ Sound(t[k + 1], act)
        /\ NoIdle(t[k + 1]) \/ (t[k + 1].active > t[k].active /\ ~NoIdle(t[k]))
    BY <1>2, <1>4, RoundIsSound
  <2>2. t[k].active \in Nat /\ t[k + 1].active \in Nat
    BY <1>4, <2>1, AdmissionParts DEF Sound
  <2>3. ASSUME ~NoIdle(t[k + 1]) PROVE t[k + 1].active >= k + 1
    <3>1. t[k].active >= k /\ t[k + 1].active > t[k].active
      BY <1>4, <2>1, <2>3
    <3> QED
      BY <1>4, <2>2, <3>1
  <2> QED
    BY <2>1, <2>3
<1>5. T(Capacity)
  <2>1. \A k \in 0..Capacity : k < Capacity /\ k \in S => k + 1 \in S
    BY <1>1, <1>4
  <2> HIDE DEF S
  <2>2. Capacity \in S
    BY <1>1, <1>3, <2>1, HoldsUpTo
  <2> QED
    BY <2>2 DEF S
<1>6. ASSUME t[Capacity].active >= Capacity PROVE NoIdle(t[Capacity])
  <2>1. t[Capacity].active \in Nat
    BY <1>5, AdmissionParts DEF Sound
  <2> QED
    BY <1>1, <1>6, <2>1 DEF NoIdle
<1> QED
  BY <1>5, <1>6 DEF Dispatch, t

(***************************************************************************)
(* The calls of the admission.                                             *)
(***************************************************************************)

\* What a state says is what its parts say.
LEMMA SoundByParts ==
  ASSUME NEW s, NEW act, Sound(s, act), NEW r \in Admissions, NEW rest, Apart(r, rest),
         Holding(r, rest) = Holding(s, act), Queued(r) = Queued(s),
         r.queue = s.queue, r.ring = s.ring, r.active = s.active, r.byOwner = s.byOwner,
         r.pending = s.pending
  PROVE  Sound(r, rest) /\ (NoIdle(s) => NoIdle(r))
<1>1. PermitsMatch(r, rest)
  BY DEF Sound, PermitsMatch
<1>2. OwnersWaiting(r) = OwnersWaiting(s)
  BY DEF OwnersWaiting
<1>3. QueuesMatch(r)
  BY <1>2 DEF Sound, QueuesMatch
<1>4. NoIdle(s) => NoIdle(r)
  BY DEF NoIdle
<1> QED
  BY <1>1, <1>3, <1>4 DEF Sound

\* An acquisition moves between places where it neither waits nor has a permit.
LEMMA AsideIsSound ==
  ASSUME NEW s, NEW act, Sound(s, act), NEW l \in Leases, s.acq[l] \notin {"queued", "granted"},
         NEW a \in Acqs, a \notin {"queued", "granted"}
  PROVE  /\ Sound([s EXCEPT !.acq[l] = a], act)
         /\ NoIdle(s) => NoIdle([s EXCEPT !.acq[l] = a])
<1> DEFINE r == [s EXCEPT !.acq[l] = a]
<1>1. s \in Admissions /\ s.acq \in [Leases -> Acqs]
  BY AdmissionParts DEF Sound
<1>2. /\ r \in Admissions /\ r.queue = s.queue /\ r.ring = s.ring /\ r.active = s.active
      /\ r.byOwner = s.byOwner /\ r.pending = s.pending /\ r.acq = [s.acq EXCEPT ![l] = a]
  BY <1>1 DEF Admissions
<1> HIDE DEF r
<1>3. Holding(r, act) = Holding(s, act) /\ Queued(r) = Queued(s)
  BY <1>1, <1>2 DEF Holding, Queued
<1>4. Apart(r, act)
  BY <1>1, <1>2 DEF Sound, Apart
<1>5. Sound(r, act) /\ (NoIdle(s) => NoIdle(r))
  BY <1>2, <1>3, <1>4, SoundByParts
<1> QED
  BY <1>5 DEF r

\* An acquisition joins the queue of its owner.
LEMMA EnqueuedIsSound ==
  ASSUME NEW s, NEW act, Sound(s, act), NEW l \in Leases, l \notin act,
         s.acq[l] \notin {"queued", "granted"}, s.pending < MaxPending
  PROVE  Sound(Enqueued(s, l), act)
<1> DEFINE o == OwnerOf[l]
           q == Append(s.queue[o], l)
           g == IF s.queue[o] = <<>> THEN Append(s.ring, o) ELSE s.ring
           r == [s EXCEPT !.queue[o] = q, !.pending = s.pending + 1, !.acq[l] = "queued",
                          !.ring = g]
<1>1. /\ s \in Admissions /\ s.acq \in [Leases -> Acqs] /\ s.queue \in [Owners -> Seq(Leases)]
      /\ s.pending \in Nat /\ s.ring \in Seq(Owners) /\ o \in Owners
  BY AdmissionParts, ConstantFacts DEF Sound
<1>2. /\ Lists(s.queue[o], Leases, Of(Queued(s), o)) /\ l \notin Queued(s)
      /\ Lists(s.ring, Owners, OwnersWaiting(s))
  BY <1>1 DEF Sound, QueuesMatch, Queued
<1>3. Lists(q, Leases, Of(Queued(s), o) \cup {l})
  BY <1>2, ListAppends DEF Of
<1>4. Lists(g, Owners, OwnersWaiting(s) \cup {o})
  <2>1. CASE s.queue[o] = <<>>
    <3>1. o \notin OwnersWaiting(s)
      BY <2>1 DEF OwnersWaiting
    <3> QED
      BY <1>1, <1>2, <2>1, <3>1, ListAppends
  <2>2. CASE s.queue[o] # <<>>
    <3>1. OwnersWaiting(s) \cup {o} = OwnersWaiting(s)
      BY <1>1, <2>2 DEF OwnersWaiting
    <3> QED
      BY <1>2, <2>2, <3>1
  <2> QED
    BY <2>1, <2>2
<1>5. Enqueued(s, l) = r
  BY <1>1 DEF Enqueued
<1>6. q \in Seq(Leases) /\ g \in Seq(Owners) /\ q # <<>>
  <2>1. s.queue[o] \in Seq(Leases)
    BY <1>1
  <2> QED
    BY <1>1, <1>3, <1>4, <2>1 DEF Lists
<1> HIDE DEF o, q, g
<1>7. /\ r \in Admissions /\ r.queue = [s.queue EXCEPT ![o] = q] /\ r.ring = g
      /\ r.active = s.active /\ r.byOwner = s.byOwner /\ r.pending = s.pending + 1
      /\ r.acq = [s.acq EXCEPT ![l] = "queued"]
  <2>1. s.pending + 1 \in Nat /\ "queued" \in Acqs
    BY <1>1 DEF Acqs
  <2>2. [s.acq EXCEPT ![l] = "queued"] \in [Leases -> Acqs]
    BY <1>1, <2>1
  <2>3. [s.queue EXCEPT ![o] = q] \in [Owners -> Seq(Leases)]
    BY <1>1, <1>6
  <2> QED
    BY <1>1, <1>6, <2>1, <2>2, <2>3 DEF Admissions
<1> HIDE DEF r
<1>8. Apart(r, act)
  BY <1>1, <1>7 DEF Sound, Apart
<1>9. PermitsMatch(r, act)
  <2>1. Holding(r, act) = Holding(s, act)
    BY <1>1, <1>7 DEF Holding
  <2> QED
    BY <1>7, <2>1 DEF Sound, PermitsMatch
<1>10. Queued(r) = Queued(s) \cup {l}
  BY <1>1, <1>7 DEF Queued
<1>11. ASSUME NEW p \in Owners PROVE Lists(r.queue[p], Leases, Of(Queued(r), p))
  <2>1. CASE p = o
    <3>1. r.queue[p] = q /\ Of(Queued(r), p) = Of(Queued(s), o) \cup {l}
      BY <1>1, <1>7, <1>10, <2>1 DEF Of, o
    <3> QED
      BY <1>3, <3>1
  <2>2. CASE p # o
    <3>1. r.queue[p] = s.queue[p] /\ Of(Queued(r), p) = Of(Queued(s), p)
      BY <1>1, <1>7, <1>10, <2>2 DEF Of, o
    <3> QED
      BY <3>1 DEF Sound, QueuesMatch
  <2> QED
    BY <2>1, <2>2
<1>12. OwnersWaiting(r) = OwnersWaiting(s) \cup {o}
  BY <1>1, <1>6, <1>7 DEF OwnersWaiting
<1>13. r.pending = Cardinality(Queued(r)) /\ r.pending <= MaxPending
  <2>1. IsFiniteSet(Queued(s))
    BY LeasesAreFinite, FS_Subset DEF Queued
  <2>2. Cardinality(Queued(s) \cup {l}) = Cardinality(Queued(s)) + 1
    BY <1>2, <2>1, FS_AddElement
  <2>3. s.pending = Cardinality(Queued(s))
    BY DEF Sound, QueuesMatch
  <2> QED
    BY <1>1, <1>7, <1>10, <2>2, <2>3, ConstantFacts
<1>14. QueuesMatch(r)
  BY <1>4, <1>7, <1>11, <1>12, <1>13 DEF QueuesMatch
<1> QED
  BY <1>5, <1>7, <1>8, <1>9, <1>14 DEF Sound

\* acquire.
LEMMA AcquireIsSound ==
  ASSUME NEW s, NEW act, Sound(s, act), NoIdle(s), NEW l \in Leases, l \notin act,
         s.acq[l] = "none", NEW b \in BOOLEAN
  PROVE  Sound(Acquire(s, l, b), act) /\ NoIdle(Acquire(s, l, b))
<1>1. /\ s \in Admissions /\ s.pending \in Nat /\ MaxPending \in Nat
      /\ s.active \in Nat /\ s.acq \in [Leases -> Acqs]
  BY AdmissionParts, ConstantFacts DEF Sound
<1> DEFINE r == [s EXCEPT !.acq[l] = "rejected"]
<1>2. Sound(r, act) /\ NoIdle(r)
  <2>1. "rejected" \in Acqs /\ "rejected" \notin {"queued", "granted"}
    BY DEF Acqs
  <2>2. s.acq[l] \notin {"queued", "granted"}
    OBVIOUS
  <2> QED
    BY <2>1, <2>2, AsideIsSound
<1>3. ASSUME s.active < Capacity, s.pending = 0
      PROVE  Sound(Granted(s, l), act) /\ NoIdle(Granted(s, l))
  <2> DEFINE g == Granted(s, l)
  <2>1. /\ g \in Admissions /\ g.queue = s.queue /\ g.ring = s.ring
        /\ g.pending = s.pending /\ g.active = s.active + 1
        /\ g.byOwner = [s.byOwner EXCEPT ![OwnerOf[l]] = @ + 1]
        /\ g.acq = [s.acq EXCEPT ![l] = "granted"]
    BY <1>1, GrantedParts
  <2> HIDE DEF g
  <2>2. s.acq[l] # "granted" /\ Apart(s, act) /\ PermitsMatch(s, act)
    BY DEF Sound
  <2>3. Apart(g, act) /\ PermitsMatch(g, act)
    BY <1>1, <1>3, <2>1, <2>2, PermitIsGiven
  <2>4. Queued(g) = Queued(s) /\ OwnersWaiting(g) = OwnersWaiting(s)
    BY <1>1, <2>1 DEF Queued, OwnersWaiting
  <2>5. QueuesMatch(g)
    BY <2>1, <2>4 DEF Sound, QueuesMatch
  <2>6. Sound(g, act)
    BY <2>1, <2>3, <2>5 DEF Sound
  <2>7. NoIdle(g)
    BY <1>3, <2>1, <2>6, NobodyWaits
  <2> QED
    BY <2>6, <2>7 DEF g
<1>4. ASSUME ~(s.pending >= MaxPending)
      PROVE  Sound(Dispatch(Enqueued(s, l)), act) /\ NoIdle(Dispatch(Enqueued(s, l)))
  <2>1. s.pending < MaxPending /\ s.acq[l] \notin {"queued", "granted"}
    BY <1>1, <1>4
  <2>2. Sound(Enqueued(s, l), act)
    BY <2>1, EnqueuedIsSound
  <2> QED
    BY <2>2, DispatchIsSound
<1> QED
  BY <1>2, <1>3, <1>4 DEF Acquire

\* abortWaiter: an acquisition leaves the queue of its owner.
LEMMA AbortIsSound ==
  ASSUME NEW s, NEW act, Sound(s, act), NoIdle(s), NEW l \in Leases
  PROVE  Sound(AbortWaiter(s, l), act) /\ NoIdle(AbortWaiter(s, l))
<1>1. CASE s.acq[l] # "queued"
  BY <1>1 DEF AbortWaiter
<1>2. CASE s.acq[l] = "queued"
  <2> DEFINE o == OwnerOf[l]
             q == RemoveFirst(s.queue[o], l)
             g == IF q = <<>> THEN RemoveFirst(s.ring, o) ELSE s.ring
             w == [s EXCEPT !.queue[o] = q, !.ring = g]
             r == [w EXCEPT !.pending = w.pending - 1, !.acq[l] = "rejected"]
  <2>1. /\ s \in Admissions /\ s.acq \in [Leases -> Acqs] /\ s.queue \in [Owners -> Seq(Leases)]
        /\ s.pending \in Nat /\ s.ring \in Seq(Owners) /\ o \in Owners
    BY AdmissionParts, ConstantFacts DEF Sound
  <2>2. /\ Lists(s.queue[o], Leases, Of(Queued(s), o)) /\ l \in Of(Queued(s), o) /\ l \in Queued(s)
        /\ Of(Queued(s), o) \subseteq Leases /\ Lists(s.ring, Owners, OwnersWaiting(s))
    BY <1>2, <2>1 DEF Sound, QueuesMatch, Queued, Of
  <2>3. Lists(q, Leases, Of(Queued(s), o) \ {l})
    BY <2>2, ListRemoves
  <2>4. o \in OwnersWaiting(s)
    <3>1. s.queue[o] # <<>>
      BY <2>2, ListIsEmpty
    <3> QED
      BY <2>1, <3>1 DEF OwnersWaiting
  <2>5. Lists(g, Owners, IF q = <<>> THEN OwnersWaiting(s) \ {o} ELSE OwnersWaiting(s))
    BY <2>1, <2>2, <2>4, ListRemoves
  <2>6. AbortWaiter(s, l) = Dispatch(r)
    <3>1. Without(s, l) = w
      BY <2>1 DEF Without
    <3> QED
      BY <1>2, <3>1 DEF AbortWaiter
  <2>7. q \in Seq(Leases) /\ g \in Seq(Owners)
    BY <2>3, <2>5 DEF Lists
  <2> HIDE DEF o, q, g
  <2>8. /\ w \in Admissions /\ w.queue = [s.queue EXCEPT ![o] = q] /\ w.ring = g
        /\ w.active = s.active /\ w.byOwner = s.byOwner /\ w.pending = s.pending /\ w.acq = s.acq
    BY <2>1, <2>7 DEF Admissions
  <2> HIDE DEF w
  <2>9. Cardinality(Queued(s) \ {l}) = s.pending - 1 /\ s.pending - 1 \in Nat
    <3>1. IsFiniteSet(Queued(s)) /\ s.pending = Cardinality(Queued(s))
      BY LeasesAreFinite, FS_Subset DEF Queued, Sound, QueuesMatch
    <3>2. /\ IsFiniteSet(Queued(s) \ {l})
          /\ Cardinality(Queued(s) \ {l}) = Cardinality(Queued(s)) - 1
      BY <2>2, <3>1, FS_RemoveElement
    <3>3. Cardinality(Queued(s) \ {l}) \in Nat
      BY <3>2, FS_CardinalityType
    <3> QED
      BY <3>1, <3>2, <3>3
  <2>10. /\ r \in Admissions /\ r.queue = [s.queue EXCEPT ![o] = q] /\ r.ring = g
         /\ r.active = s.active /\ r.byOwner = s.byOwner /\ r.pending = s.pending - 1
         /\ r.acq = [s.acq EXCEPT ![l] = "rejected"]
    BY <2>8, <2>9 DEF Admissions, Acqs
  <2> HIDE DEF r
  <2>11. Apart(r, act)
    BY <2>1, <2>10 DEF Sound, Apart
  <2>12. PermitsMatch(r, act)
    <3>1. Holding(r, act) = Holding(s, act)
      BY <1>2, <2>1, <2>10 DEF Holding
    <3> QED
      BY <2>10, <3>1 DEF Sound, PermitsMatch
  <2>13. Queued(r) = Queued(s) \ {l}
    BY <2>1, <2>10 DEF Queued
  <2>14. ASSUME NEW p \in Owners PROVE Lists(r.queue[p], Leases, Of(Queued(r), p))
    <3>1. CASE p = o
      <4>1. r.queue[p] = q /\ Of(Queued(r), p) = Of(Queued(s), o) \ {l}
        BY <2>1, <2>10, <2>13, <3>1 DEF Of
      <4> QED
        BY <2>3, <4>1
    <3>2. CASE p # o
      <4>1. r.queue[p] = s.queue[p] /\ Of(Queued(r), p) = Of(Queued(s), p)
        BY <2>1, <2>10, <2>13, <3>2 DEF Of, o
      <4> QED
        BY <4>1 DEF Sound, QueuesMatch
    <3> QED
      BY <3>1, <3>2
  <2>15. OwnersWaiting(r) = IF q = <<>> THEN OwnersWaiting(s) \ {o} ELSE OwnersWaiting(s)
    BY <2>1, <2>4, <2>10 DEF OwnersWaiting
  <2>16. r.pending = Cardinality(Queued(r)) /\ r.pending <= MaxPending
    <3>1. s.pending <= MaxPending
      BY DEF Sound, QueuesMatch
    <3> QED
      BY <2>1, <2>9, <2>10, <2>13, <3>1, ConstantFacts
  <2>17. QueuesMatch(r)
    BY <2>5, <2>10, <2>14, <2>15, <2>16 DEF QueuesMatch
  <2>18. Sound(r, act)
    BY <2>10, <2>11, <2>12, <2>17 DEF Sound
  <2> QED
    BY <2>6, <2>18, DispatchIsSound
<1> QED
  BY <1>1, <1>2

\* releaseWithReason: s is the state as it was, r the one in which the lease has let go.
LEMMA ReleaseIsSound ==
  ASSUME NEW s, NEW act, Sound(s, act), NEW l \in Holding(s, act),
         NEW r \in Admissions, NEW rest, Apart(r, rest),
         Holding(r, rest) = Holding(s, act) \ {l}, Queued(r) = Queued(s),
         r.queue = s.queue, r.ring = s.ring, r.active = s.active, r.byOwner = s.byOwner,
         r.pending = s.pending
  PROVE  Sound(ReleasePermit(r, l), rest) /\ NoIdle(ReleasePermit(r, l))
<1> DEFINE a == s.active - 1
           b == [s.byOwner EXCEPT ![OwnerOf[l]] = @ - 1]
           d == [r EXCEPT !.active = a, !.byOwner = b]
<1>1. /\ s \in Admissions /\ Apart(s, act) /\ PermitsMatch(s, act)
      /\ s.byOwner \in [Owners -> Nat] /\ s.active \in Nat
  BY AdmissionParts DEF Sound
<1>2. d.active = a /\ d.byOwner = b /\ Holding(d, rest) = Holding(s, act) \ {l}
  BY DEF Admissions, Holding
<1>3. PermitsMatch(d, rest) /\ s.active \in Nat \ {0} /\ s.byOwner[OwnerOf[l]] \in Nat \ {0}
  <2> HIDE DEF d
  <2> QED
    BY <1>1, <1>2, PermitIsReturned
<1>4. a \in Nat /\ b \in [Owners -> Nat]
  <2>1. a \in Nat
    BY <1>3
  <2>2. s.byOwner[OwnerOf[l]] - 1 \in Nat
    BY <1>3
  <2>3. b \in [Owners -> Nat]
    BY <1>1, <2>2
  <2> QED
    BY <2>1, <2>3
<1>5. ReleaseWithoutDispatch(r, l) = d
  BY DEF ReleaseWithoutDispatch, Admissions
<1> HIDE DEF a, b
<1>6. /\ d \in Admissions /\ d.queue = s.queue /\ d.ring = s.ring /\ d.pending = s.pending
      /\ d.acq = r.acq
  BY <1>4 DEF Admissions
<1> HIDE DEF d
<1>7. Apart(d, rest)
  BY <1>6 DEF Apart
<1>8. Queued(d) = Queued(s) /\ OwnersWaiting(d) = OwnersWaiting(s)
  BY <1>6 DEF Queued, OwnersWaiting
<1>9. QueuesMatch(d)
  BY <1>6, <1>8 DEF Sound, QueuesMatch
<1>10. Sound(d, rest)
  BY <1>3, <1>6, <1>7, <1>9 DEF Sound
<1> QED
  BY <1>5, <1>10, DispatchIsSound DEF ReleasePermit

(***************************************************************************)
(* The invariant and the steps.                                            *)
(***************************************************************************)

ActiveLeases == {l \in Leases : lease[l] = "active"}

LeaseTypes ==
  /\ lease \in [Leases -> {"suspended", "acquiring", "active", "released"}]
  /\ aborted \in [Leases -> BOOLEAN] /\ again \in [Leases -> BOOLEAN]
  /\ stopped \in [Leases -> BOOLEAN] /\ closed \in BOOLEAN

AdmissionInv == LeaseTypes /\ Sound(Now, ActiveLeases) /\ NoIdle(Now)

\* The parts of Now.
LEMMA NowIs ==
  /\ Now.queue = queue /\ Now.ring = ring /\ Now.active = active /\ Now.byOwner = byOwner
  /\ Now.pending = pending /\ Now.acq = acq
BY DEF Now

\* A step to a sound state without idle permits keeps the invariant.
LEMMA StepTo ==
  ASSUME NEW v, Become(v), Sound(v, ActiveLeases'), NoIdle(v), LeaseTypes'
  PROVE  AdmissionInv'
<1>1. v \in Admissions
  BY DEF Sound
<1>2. Now' = v
  BY <1>1 DEF Become, Now, Admissions
<1> QED
  BY <1>2 DEF AdmissionInv

\* A step that leaves the admission alone.
LEMMA StepAside ==
  ASSUME AdmissionInv, UNCHANGED <<admission, acq>>, ActiveLeases' = ActiveLeases, LeaseTypes'
  PROVE  AdmissionInv'
<1>1. Now' = Now
  BY DEF Now, admission
<1> QED
  BY <1>1 DEF AdmissionInv

\* A lease that starts an acquisition.
LEMMA StartIsSafe ==
  ASSUME AdmissionInv, NEW l \in Leases, lease[l] # "active", acq[l] = "none",
         StartAcquisition(l), again' \in [Leases -> BOOLEAN], UNCHANGED <<closed, stopped>>
  PROVE  AdmissionInv'
<1>1. LeaseTypes'
  BY DEF AdmissionInv, LeaseTypes, StartAcquisition
<1>2. ActiveLeases' = ActiveLeases /\ l \notin ActiveLeases
  BY DEF AdmissionInv, LeaseTypes, StartAcquisition, ActiveLeases
<1>3. Sound(Now, ActiveLeases) /\ NoIdle(Now) /\ Now.acq[l] = "none" /\ stopped[l] \in BOOLEAN
  BY NowIs DEF AdmissionInv, LeaseTypes
<1>4. Sound(Acquire(Now, l, stopped[l]), ActiveLeases) /\ NoIdle(Acquire(Now, l, stopped[l]))
  BY <1>2, <1>3, AcquireIsSound
<1> QED
  BY <1>1, <1>2, <1>4, StepTo DEF StartAcquisition

\* A resume begins an acquisition, joins one, or waits for its end.
LEMMA ResumeIsSafe ==
  ASSUME AdmissionInv, NEW l \in Leases, Resume(l)
  PROVE  AdmissionInv'
<1>1. CASE acq[l] = "none"
  <2>1. lease[l] # "active" /\ StartAcquisition(l) /\ UNCHANGED <<again, closed, stopped>>
    BY <1>1 DEF Resume
  <2>2. again' \in [Leases -> BOOLEAN]
    BY <2>1 DEF AdmissionInv, LeaseTypes
  <2> QED
    BY <1>1, <2>1, <2>2, StartIsSafe
<1>2. CASE acq[l] # "none"
  <2>1. /\ UNCHANGED <<admission, lease, acq, aborted, closed, stopped>>
        /\ again' = again \/ again' = [again EXCEPT ![l] = TRUE]
    BY <1>2 DEF Resume
  <2>2. LeaseTypes' /\ ActiveLeases' = ActiveLeases
    BY <2>1 DEF AdmissionInv, LeaseTypes, ActiveLeases
  <2> QED
    BY <2>1, <2>2, StepAside
<1> QED
  BY <1>1, <1>2

\* A permit arrives at a lease that wants it, or is given back.
LEMMA PermitArrivesIsSafe ==
  ASSUME AdmissionInv, NEW l \in Leases, PermitArrives(l)
  PROVE  AdmissionInv'
<1>1. /\ Sound(Now, ActiveLeases) /\ NoIdle(Now) /\ Now \in Admissions /\ Now.acq[l] = "granted"
      /\ Now.acq \in [Leases -> Acqs] /\ Apart(Now, ActiveLeases) /\ l \notin ActiveLeases
  BY NowIs, AdmissionParts DEF AdmissionInv, PermitArrives, Sound, Apart
<1>2. CASE aborted[l] \/ lease[l] # "acquiring"
  <2> DEFINE r == [Now EXCEPT !.acq[l] = "rejected"]
  <2>1. /\ Become(ReleasePermit(r, l)) /\ UNCHANGED <<lease, closed, aborted, again, stopped>>
    BY <1>2 DEF PermitArrives
  <2>2. LeaseTypes' /\ ActiveLeases' = ActiveLeases
    BY <2>1 DEF AdmissionInv, LeaseTypes, ActiveLeases
  <2>3. /\ r \in Admissions /\ r.queue = Now.queue /\ r.ring = Now.ring
        /\ r.active = Now.active /\ r.byOwner = Now.byOwner /\ r.pending = Now.pending
        /\ r.acq = [Now.acq EXCEPT ![l] = "rejected"]
    BY <1>1 DEF Admissions, Acqs
  <2> HIDE DEF r
  <2>4. Apart(r, ActiveLeases)
    BY <1>1, <2>3 DEF Apart
  <2>5. /\ Holding(r, ActiveLeases) = Holding(Now, ActiveLeases) \ {l}
        /\ Queued(r) = Queued(Now) /\ l \in Holding(Now, ActiveLeases)
    BY <1>1, <2>3 DEF Holding, Queued
  <2>6. Sound(ReleasePermit(r, l), ActiveLeases) /\ NoIdle(ReleasePermit(r, l))
    BY <1>1, <2>3, <2>4, <2>5, ReleaseIsSound
  <2> QED
    BY <2>1, <2>2, <2>6, StepTo
<1>3. CASE ~(aborted[l] \/ lease[l] # "acquiring")
  <2> DEFINE r == [Now EXCEPT !.acq[l] = "ending"]
  <2>1. /\ Become(r) /\ lease' = [lease EXCEPT ![l] = "active"]
        /\ UNCHANGED <<closed, aborted, again, stopped>>
    BY <1>3 DEF PermitArrives
  <2>2. LeaseTypes' /\ ActiveLeases' = ActiveLeases \cup {l}
    BY <2>1 DEF AdmissionInv, LeaseTypes, ActiveLeases
  <2>3. /\ r \in Admissions /\ r.queue = Now.queue /\ r.ring = Now.ring
        /\ r.active = Now.active /\ r.byOwner = Now.byOwner /\ r.pending = Now.pending
        /\ r.acq = [Now.acq EXCEPT ![l] = "ending"]
    BY <1>1 DEF Admissions, Acqs
  <2> HIDE DEF r
  <2>4. Apart(r, ActiveLeases \cup {l})
    BY <1>1, <2>3 DEF Apart
  <2>5. /\ Holding(r, ActiveLeases \cup {l}) = Holding(Now, ActiveLeases)
        /\ Queued(r) = Queued(Now)
    BY <1>1, <2>3 DEF Holding, Queued
  <2>6. Sound(r, ActiveLeases \cup {l}) /\ NoIdle(r)
    BY <1>1, <2>3, <2>4, <2>5, SoundByParts
  <2> QED
    BY <2>1, <2>2, <2>6, StepTo
<1> QED
  BY <1>2, <1>3

\* The lease forgets its acquisition.
LEMMA EndIsSafe ==
  ASSUME AdmissionInv, NEW l \in Leases, AcquisitionEnds(l)
  PROVE  AdmissionInv'
<1> DEFINE v == [Now EXCEPT !.acq[l] = "none"]
<1>1. /\ Sound(Now, ActiveLeases) /\ NoIdle(Now) /\ Now.acq[l] \notin {"queued", "granted"}
      /\ "none" \in Acqs /\ "none" \notin {"queued", "granted"}
  BY NowIs DEF AdmissionInv, AcquisitionEnds, Acqs
<1>2. Sound(v, ActiveLeases) /\ NoIdle(v)
  BY <1>1, AsideIsSound
<1>3. LeaseTypes' /\ ActiveLeases' = ActiveLeases
  BY DEF AdmissionInv, LeaseTypes, ActiveLeases, AcquisitionEnds
<1>4. Become(v)
  <2>1. /\ v.queue = queue /\ v.ring = ring /\ v.active = active /\ v.byOwner = byOwner
        /\ v.pending = pending /\ v.acq = [acq EXCEPT ![l] = "none"]
    BY DEF Now
  <2> HIDE DEF v
  <2> QED
    BY <2>1 DEF Become, AcquisitionEnds, admission
<1> HIDE DEF v
<1> QED
  BY <1>2, <1>3, <1>4, StepTo

\* A resume that waited begins an acquisition.
LEMMA ResumeAgainIsSafe ==
  ASSUME AdmissionInv, NEW l \in Leases, ResumeAgain(l)
  PROVE  AdmissionInv'
<1>1. again' \in [Leases -> BOOLEAN] /\ acq[l] = "none" /\ UNCHANGED <<closed, stopped>>
  BY DEF AdmissionInv, LeaseTypes, ResumeAgain
<1>2. CASE lease[l] = "suspended"
  <2>1. StartAcquisition(l) /\ lease[l] # "active"
    BY <1>2 DEF ResumeAgain
  <2> QED
    BY <1>1, <2>1, StartIsSafe
<1>3. CASE lease[l] # "suspended"
  <2>1. UNCHANGED <<admission, lease, acq, aborted>>
    BY <1>3 DEF ResumeAgain
  <2>2. LeaseTypes' /\ ActiveLeases' = ActiveLeases
    BY <1>1, <2>1 DEF AdmissionInv, LeaseTypes, ActiveLeases
  <2> QED
    BY <2>1, <2>2, StepAside
<1> QED
  BY <1>2, <1>3

\* A lease gives its permit back, or leaves its queue.
LEMMA LetGoIsSafe ==
  ASSUME AdmissionInv, NEW l \in Leases, NEW to \in {"suspended", "released"}, LetGo(l, to),
         UNCHANGED <<closed, again, stopped>>
  PROVE  AdmissionInv'
<1>1. /\ Sound(Now, ActiveLeases) /\ NoIdle(Now) /\ Now \in Admissions
      /\ Apart(Now, ActiveLeases) /\ lease' = [lease EXCEPT ![l] = to]
  BY DEF AdmissionInv, LetGo, Sound
<1>2. ActiveLeases' = ActiveLeases \ {l}
  BY <1>1 DEF AdmissionInv, LeaseTypes, ActiveLeases
<1>3. LeaseTypes'
  <2>1. aborted' = aborted \/ aborted' = [aborted EXCEPT ![l] = acq[l] # "none"]
    BY DEF LetGo
  <2>2. aborted' \in [Leases -> BOOLEAN]
    BY <2>1 DEF AdmissionInv, LeaseTypes
  <2> QED
    BY <1>1, <2>2 DEF AdmissionInv, LeaseTypes
<1>4. CASE lease[l] = "active"
  <2>1. Become(ReleasePermit(Now, l)) /\ l \in ActiveLeases
    BY <1>4 DEF LetGo, ActiveLeases
  <2>2. Apart(Now, ActiveLeases \ {l}) /\ l \in Holding(Now, ActiveLeases)
    BY <1>1, <2>1 DEF Apart, Holding
  <2>3. Holding(Now, ActiveLeases \ {l}) = Holding(Now, ActiveLeases) \ {l}
    BY <1>1, <2>1 DEF Apart, Holding
  <2>4. Sound(ReleasePermit(Now, l), ActiveLeases \ {l}) /\ NoIdle(ReleasePermit(Now, l))
    BY <1>1, <2>2, <2>3, ReleaseIsSound
  <2> QED
    BY <1>2, <1>3, <2>1, <2>4, StepTo
<1>5. CASE lease[l] # "active"
  <2>1. Become(AbortWaiter(Now, l)) /\ ActiveLeases \ {l} = ActiveLeases
    BY <1>5 DEF LetGo, ActiveLeases
  <2>2. Sound(AbortWaiter(Now, l), ActiveLeases) /\ NoIdle(AbortWaiter(Now, l))
    BY <1>1, AbortIsSound
  <2> QED
    BY <1>2, <1>3, <2>1, <2>2, StepTo
<1> QED
  BY <1>4, <1>5

\* suspend and release.
LEMMA SuspendIsSafe ==
  ASSUME AdmissionInv, NEW l \in Leases, Suspend(l) \/ Release(l)
  PROVE  AdmissionInv'
<1>1. CASE UNCHANGED <<admission, lease, acq, aborted>> /\ UNCHANGED <<closed, again, stopped>>
  <2>1. LeaseTypes' /\ ActiveLeases' = ActiveLeases
    BY <1>1 DEF AdmissionInv, LeaseTypes, ActiveLeases
  <2> QED
    BY <1>1, <2>1, StepAside
<1>2. CASE (LetGo(l, "suspended") \/ LetGo(l, "released")) /\ UNCHANGED <<closed, again, stopped>>
  BY <1>2, LetGoIsSafe
<1> QED
  BY <1>1, <1>2 DEF Suspend, Release

\* A signal is aborted.
LEMMA SignalIsSafe ==
  ASSUME AdmissionInv, NEW l \in Leases, NEW forGood \in BOOLEAN, SignalAborts(l, forGood)
  PROVE  AdmissionInv'
<1>1. /\ Sound(Now, ActiveLeases) /\ NoIdle(Now)
      /\ Become(AbortWaiter(Now, l)) /\ UNCHANGED <<closed, lease, again>>
      /\ stopped' = [stopped EXCEPT ![l] = forGood]
      /\ aborted' = [aborted EXCEPT ![l] = acq[l] # "none"]
  BY DEF AdmissionInv, SignalAborts
<1>2. Sound(AbortWaiter(Now, l), ActiveLeases) /\ NoIdle(AbortWaiter(Now, l))
  BY <1>1, AbortIsSound
<1>3. LeaseTypes' /\ ActiveLeases' = ActiveLeases
  BY <1>1 DEF AdmissionInv, LeaseTypes, ActiveLeases
<1> QED
  BY <1>1, <1>2, <1>3, StepTo

\* When no owner has waiters, nobody is in the ring.
LEMMA NoWaiters ==
  ASSUME NEW q \in [Owners -> Seq(Leases)], \A o \in Owners : q[o] = <<>>
  PROVE  /\ \A o \in Owners : Lists(q[o], Leases, {})
         /\ Lists(<<>>, Owners, {o \in Owners : q[o] # <<>>})
<1>1. \A U : Lists(<<>>, U, {})
  BY DEF Lists
<1>2. {o \in Owners : q[o] # <<>>} = {}
  OBVIOUS
<1> QED
  BY <1>1, <1>2

\* All that wait are rejected.
LEMMA CloseIsSafe ==
  ASSUME AdmissionInv, Close
  PROVE  AdmissionInv'
<1> DEFINE q == [o \in Owners |-> <<>>]
           a == [l \in Leases |-> IF acq[l] = "queued" THEN "rejected" ELSE acq[l]]
           v == [queue |-> q, ring |-> <<>>, active |-> active, byOwner |-> byOwner,
                 pending |-> 0, acq |-> a]
<1>1. /\ Sound(Now, ActiveLeases) /\ Now \in Admissions /\ acq \in [Leases -> Acqs]
      /\ active \in Nat /\ byOwner \in [Owners -> Nat]
  <2>1. Sound(Now, ActiveLeases) /\ Now \in Admissions
    BY DEF AdmissionInv, Sound
  <2> QED
    BY <2>1, NowIs, AdmissionParts
<1>2. Become(v) /\ UNCHANGED <<lease, aborted, again, stopped>> /\ closed' = TRUE
  <2> DEFINE w == [Now EXCEPT !.queue = q, !.ring = <<>>, !.pending = 0,
                   !.acq = [l \in Leases |-> IF @[l] = "queued" THEN "rejected" ELSE @[l]]]
  <2>1. /\ Become(w) /\ UNCHANGED <<lease, aborted, again, stopped>> /\ closed' = TRUE
    BY DEF Close
  <2>2. /\ w.queue = q /\ w.ring = <<>> /\ w.active = active /\ w.byOwner = byOwner
        /\ w.pending = 0 /\ w.acq = a
    BY DEF Now
  <2> HIDE DEF w, q, a
  <2> QED
    BY <2>1, <2>2 DEF Become
<1>3. LeaseTypes' /\ ActiveLeases' = ActiveLeases
  BY <1>2 DEF AdmissionInv, LeaseTypes, ActiveLeases
<1>4. q \in [Owners -> Seq(Leases)] /\ a \in [Leases -> Acqs] /\ <<>> \in Seq(Owners)
  BY <1>1 DEF Acqs
<1>5. v \in Admissions
  BY <1>1, <1>4 DEF Admissions
<1>6. /\ v.queue = q /\ v.ring = <<>> /\ v.active = active /\ v.byOwner = byOwner
      /\ v.pending = 0 /\ v.acq = a
  OBVIOUS
<1> HIDE DEF v
<1>7. Queued(v) = {} /\ Holding(v, ActiveLeases) = Holding(Now, ActiveLeases)
  BY <1>1, <1>6, NowIs DEF Queued, Holding
<1>8. Apart(v, ActiveLeases)
  BY <1>1, <1>6, NowIs DEF Sound, Apart
<1>9. PermitsMatch(v, ActiveLeases)
  BY <1>1, <1>6, <1>7, NowIs DEF Sound, PermitsMatch
<1>10. QueuesMatch(v)
  <2>1. /\ \A o \in Owners : Lists(q[o], Leases, {})
        /\ Lists(<<>>, Owners, {o \in Owners : q[o] # <<>>})
    BY <1>4, NoWaiters
  <2>2. \A o \in Owners : Of(Queued(v), o) = {}
    BY <1>7 DEF Of
  <2>3. v.pending = Cardinality(Queued(v)) /\ v.pending <= MaxPending
    BY <1>6, <1>7, FS_EmptySet, ConstantFacts
  <2> HIDE DEF q
  <2> QED
    BY <1>6, <2>1, <2>2, <2>3 DEF QueuesMatch, OwnersWaiting
<1>11. Sound(v, ActiveLeases)
  BY <1>5, <1>8, <1>9, <1>10 DEF Sound
<1>12. NoIdle(v)
  BY <1>6, <1>11, NobodyWaits
<1> QED
  BY <1>2, <1>3, <1>11, <1>12, StepTo

\* Every step keeps the invariant.
LEMMA AdmissionInductive == AdmissionInv /\ [Next]_vars => AdmissionInv'
<1> SUFFICES ASSUME AdmissionInv, [Next]_vars PROVE AdmissionInv'
  OBVIOUS
<1>1. CASE UNCHANGED vars
  <2>1. UNCHANGED <<admission, acq>> /\ LeaseTypes' /\ ActiveLeases' = ActiveLeases
    BY <1>1 DEF vars, leases, AdmissionInv, LeaseTypes, ActiveLeases
  <2> QED
    BY <2>1, StepAside
<1>2. CASE Close
  BY <1>2, CloseIsSafe
<1>3. ASSUME NEW l \in Leases, Resume(l) PROVE AdmissionInv'
  BY <1>3, ResumeIsSafe
<1>4. ASSUME NEW l \in Leases, PermitArrives(l) PROVE AdmissionInv'
  BY <1>4, PermitArrivesIsSafe
<1>5. ASSUME NEW l \in Leases, AcquisitionEnds(l) PROVE AdmissionInv'
  BY <1>5, EndIsSafe
<1>6. ASSUME NEW l \in Leases, ResumeAgain(l) PROVE AdmissionInv'
  BY <1>6, ResumeAgainIsSafe
<1>7. ASSUME NEW l \in Leases, Suspend(l) \/ Release(l) PROVE AdmissionInv'
  BY <1>7, SuspendIsSafe
<1>8. ASSUME NEW l \in Leases, NEW forGood \in BOOLEAN, SignalAborts(l, forGood)
      PROVE  AdmissionInv'
  BY <1>8, SignalIsSafe
<1> QED
  BY <1>1, <1>2, <1>3, <1>4, <1>5, <1>6, <1>7, <1>8 DEF Next

\* The invariant holds at the start.
LEMMA AdmissionInit == Init => AdmissionInv
<1> SUFFICES ASSUME Init PROVE AdmissionInv
  OBVIOUS
<1>1. LeaseTypes /\ ActiveLeases = {}
  BY DEF Init, LeaseTypes, ActiveLeases
<1>2. Now \in Admissions
  BY DEF Init, Now, Admissions, Acqs
<1>3. Queued(Now) = {} /\ Holding(Now, {}) = {} /\ \A o \in Owners : Of({}, o) = {}
  BY NowIs DEF Init, Queued, Holding, Of
<1>4. Apart(Now, {})
  BY DEF Apart
<1>5. PermitsMatch(Now, {})
  <2>1. Now.active = 0 /\ Now.byOwner = [o \in Owners |-> 0]
    BY NowIs DEF Init
  <2>2. Cardinality({}) = 0
    BY FS_EmptySet
  <2>3. Now.active = Cardinality(Holding(Now, {})) /\ Now.active <= Capacity
    BY <1>3, <2>1, <2>2, ConstantFacts
  <2>4. \A o \in Owners : Now.byOwner[o] = Cardinality(Of(Holding(Now, {}), o))
    BY <1>3, <2>1, <2>2
  <2> QED
    BY <2>3, <2>4 DEF PermitsMatch
<1>6. QueuesMatch(Now)
  <2>1. queue \in [Owners -> Seq(Leases)] /\ \A o \in Owners : queue[o] = <<>>
    BY DEF Init
  <2>2. /\ \A o \in Owners : Lists(queue[o], Leases, {})
        /\ Lists(<<>>, Owners, {o \in Owners : queue[o] # <<>>})
    BY <2>1, NoWaiters
  <2>3. Now.pending = Cardinality(Queued(Now)) /\ Now.pending <= MaxPending
    BY <1>3, NowIs, FS_EmptySet, ConstantFacts DEF Init
  <2>4. Now.ring = <<>> /\ Now.queue = queue
    BY NowIs DEF Init
  <2> QED
    BY <1>3, <2>2, <2>3, <2>4 DEF QueuesMatch, OwnersWaiting
<1>7. Sound(Now, {})
  BY <1>2, <1>4, <1>5, <1>6 DEF Sound
<1>8. NoIdle(Now)
  BY <1>7, NowIs, NobodyWaits DEF Init
<1> QED
  BY <1>1, <1>7, <1>8 DEF AdmissionInv

(***************************************************************************)
(* The theorems.                                                           *)
(***************************************************************************)

\* The counts of permits are those held by active leases or on their way to a lease, within
\* the limits, and queues, ring and counter list the acquisitions that wait.
THEOREM AdmissionIsConsistent == Spec => []Consistent
<1>1. AdmissionInv => Consistent
  <2> SUFFICES ASSUME AdmissionInv PROVE Consistent
    OBVIOUS
  <2>1. /\ Now \in Admissions /\ Apart(Now, ActiveLeases) /\ PermitsMatch(Now, ActiveLeases)
        /\ QueuesMatch(Now) /\ LeaseTypes
    BY DEF AdmissionInv, Sound
  <2>2. /\ queue \in [Owners -> Seq(Leases)] /\ ring \in Seq(Owners) /\ active \in Nat
        /\ byOwner \in [Owners -> Nat] /\ pending \in Nat /\ acq \in [Leases -> Acqs]
    BY <2>1, NowIs, AdmissionParts
  <2>3. Holding(Now, ActiveLeases) = Holders
    BY NowIs DEF Holding, Holders, ActiveLeases
  <2>4. PermitsAreHeld
    BY <2>1, <2>3, NowIs DEF PermitsMatch, PermitsAreHeld, Of
  <2>5. active <= Capacity /\ pending <= MaxPending
    BY <2>1, NowIs DEF PermitsMatch, QueuesMatch
  <2>6. ASSUME NEW o \in Owners PROVE byOwner[o] <= active
    <3>1. {l \in Holders : OwnerOf[l] = o} \subseteq Holders /\ IsFiniteSet(Holders)
      BY LeasesAreFinite, FS_Subset DEF Holders
    <3>2. Cardinality({l \in Holders : OwnerOf[l] = o}) <= Cardinality(Holders)
      BY <3>1, FS_Subset
    <3> QED
      BY <2>4, <3>2 DEF PermitsAreHeld
  <2>7. TypeOK
    <3>1. active \in 0..Capacity /\ pending \in 0..MaxPending
      BY <2>2, <2>5, ConstantFacts
    <3>2. byOwner \in [Owners -> 0..Capacity]
      BY <2>2, <2>5, <2>6, ConstantFacts
    <3> QED
      BY <2>1, <2>2, <3>1, <3>2 DEF TypeOK, LeaseTypes, Acqs
  <2>8. ASSUME NEW U, NEW q, NEW R, R \subseteq U, Lists(q, U, R)
        PROVE  ToSet(q) = R /\ IsInjective(q)
    <3>1. \A n \in DOMAIN q : q[n] \in U
      BY <2>8 DEF Lists
    <3> QED
      BY <2>8, <3>1 DEF Lists, ToSet, IsInjective
  <2>9. QueuesAgree
    <3>1. ASSUME NEW o \in Owners
          PROVE  /\ ToSet(queue[o]) = {l \in Leases : acq[l] = "queued" /\ OwnerOf[l] = o}
                 /\ IsInjective(queue[o])
      <4>1. Lists(queue[o], Leases, Of(Queued(Now), o)) /\ Of(Queued(Now), o) \subseteq Leases
        BY <2>1, NowIs DEF QueuesMatch, Of, Queued
      <4>2. Of(Queued(Now), o) = {l \in Leases : acq[l] = "queued" /\ OwnerOf[l] = o}
        BY NowIs DEF Of, Queued
      <4> QED
        BY <2>8, <4>1, <4>2
    <3>2. ToSet(ring) = {o \in Owners : queue[o] # <<>>} /\ IsInjective(ring)
      BY <2>1, <2>8, NowIs DEF QueuesMatch, OwnersWaiting
    <3>3. pending = Cardinality({l \in Leases : acq[l] = "queued"})
      BY <2>1, NowIs DEF QueuesMatch, Queued
    <3> QED
      BY <3>1, <3>2, <3>3 DEF QueuesAgree
  <2> QED
    BY <2>4, <2>7, <2>9 DEF Consistent
<1> QED
  BY AdmissionInit, AdmissionInductive, <1>1, PTL DEF Spec

\* No permit is idle while the first waiter of some owner could have it.
THEOREM PermitsAreNeverIdle == Spec => []NoIdlePermit
<1>1. AdmissionInv => NoIdlePermit
  BY NowIs DEF AdmissionInv, NoIdle, NoIdlePermit
<1> QED
  BY AdmissionInit, AdmissionInductive, <1>1, PTL DEF Spec

==============================================================================
