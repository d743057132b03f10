------------------------ MODULE OperationGateProofs ------------------------
(***************************************************************************)
(* The gates for every set of keys and every finite set of calls: counters *)
(* are exact, a deletion is alone, and every step is a step of the room    *)
(* with one door or leaves it as it is.                                    *)
(***************************************************************************)
EXTENDS OperationGate, FiniteSetTheorems, TLAPS


\* A deletion that got past its drain found no operation, and none can have entered since.
DrainedIsEmpty ==
  \A k \in Keys : \A c \in Calls :
    place[k][c] \in {"woken", "deleting"} => Operating(k) = {}

GateIInv == GateTypeOK /\ CounterIsExact /\ ClosedByOne /\ NoLostDrain /\ DrainedIsEmpty

-----------------------------------------------------------------------------
\* The operations of a key are a finite set, whose size is zero only for the empty set.
LEMMA OperatingIsFinite ==
  ASSUME NEW k \in Keys
  PROVE  /\ IsFiniteSet(Operating(k))
         /\ Cardinality(Operating(k)) \in Nat
         /\ Cardinality(Operating(k)) = 0 <=> Operating(k) = {}
<1>1. Operating(k) \subseteq Calls BY DEF Operating
<1>2. IsFiniteSet(Operating(k)) BY <1>1, CallsAreFinite, FS_Subset
<1> QED BY <1>2, FS_CardinalityType, FS_EmptySet

\* Entering adds one operation to its key and none to another.
LEMMA EnterAdds ==
  ASSUME GateTypeOK, NEW k \in Keys, NEW c \in Calls, RunOperation(k, c)
  PROVE  /\ Operating(k)' = Operating(k) \cup {c} /\ c \notin Operating(k)
         /\ \A j \in Keys \ {k} : Operating(j)' = Operating(j)
         /\ \A j \in Keys : Closers(j)' = Closers(j)
<1>0. place \in [Keys -> [Calls -> Places]] BY DEF GateTypeOK
<1>1. \A j \in Keys, d \in Calls :
        place'[j][d] = IF j = k /\ d = c THEN "operating" ELSE place[j][d]
  BY <1>0 DEF RunOperation
<1>2. place[k][c] = "out" BY DEF RunOperation
<1> QED BY <1>1, <1>2 DEF Operating, Closers, Closing

\* What the end of an operation does to the place of every call.
LEMMA FinishMoves ==
  ASSUME GateTypeOK, NEW k \in Keys, NEW c \in Calls, FinishOperation(k, c)
  PROVE  \A j \in Keys, d \in Calls :
           place'[j][d] = IF j # k THEN place[j][d]
                          ELSE IF d = c THEN "out"
                          ELSE IF active[k] = 1 /\ d \in waiters[k] THEN "woken"
                          ELSE place[k][d]
<1>0. place \in [Keys -> [Calls -> Places]] BY DEF GateTypeOK
<1> DEFINE drained == IF active[k] = 1 THEN waiters[k] ELSE {}
<1>1. place' = [place EXCEPT ![k] =
                  [d \in Calls |-> IF d = c THEN "out"
                                   ELSE IF d \in drained THEN "woken" ELSE @[d]]]
  BY DEF FinishOperation
<1> QED BY <1>0, <1>1

\* Leaving removes one operation; a waiter that is resolved stays a closer.
LEMMA FinishRemoves ==
  ASSUME GateTypeOK, NoLostDrain, NEW k \in Keys, NEW c \in Calls, FinishOperation(k, c)
  PROVE  /\ Operating(k)' = Operating(k) \ {c} /\ c \in Operating(k)
         /\ \A j \in Keys \ {k} : Operating(j)' = Operating(j)
         /\ \A j \in Keys : Closers(j)' = Closers(j)
<1>1. place[k][c] = "operating" BY DEF FinishOperation
<1>2. \A d \in Calls : d \in waiters[k] <=> place[k][d] = "draining" BY DEF NoLostDrain
<1> QED BY <1>1, <1>2, FinishMoves DEF Operating, Closers, Closing

-----------------------------------------------------------------------------
\* The typing of the gate, on its own: it needs no other invariant except that
\* a counter of a key with an operation is not zero.
LEMMA GateTypeStep ==
  ASSUME GateIInv, [GateNext]_gateVars
  PROVE  GateTypeOK'
<1> USE DEF GateTypeOK
<1>0. /\ active \in [Keys -> Nat] /\ deleting \in SUBSET Keys
      /\ waiters \in [Keys -> SUBSET Calls] /\ place \in [Keys -> [Calls -> Places]]
  BY DEF GateIInv
<1>1. ASSUME NEW k \in Keys, NEW c \in Calls, RunOperation(k, c) PROVE GateTypeOK'
  BY <1>0, <1>1 DEF RunOperation, Places
<1>2. ASSUME NEW k \in Keys, NEW c \in Calls, FinishOperation(k, c) PROVE GateTypeOK'
  <2>1. active[k] = Cardinality(Operating(k)) BY DEF GateIInv, CounterIsExact
  <2>2. c \in Operating(k) BY <1>2 DEF FinishOperation, Operating
  <2>3. active[k] \in Nat /\ active[k] # 0 BY <2>1, <2>2, OperatingIsFinite
  <2>4. active' \in [Keys -> Nat]
    <3>1. active' = [active EXCEPT ![k] = @ - 1] BY <1>2 DEF FinishOperation
    <3>2. active[k] - 1 \in Nat BY <2>3
    <3> QED BY <1>0, <3>1, <3>2
  <2>5. place' \in [Keys -> [Calls -> Places]]
    <3> DEFINE drained == IF active[k] = 1 THEN waiters[k] ELSE {}
    <3>1. place' = [place EXCEPT ![k] =
                      [d \in Calls |-> IF d = c THEN "out"
                                       ELSE IF d \in drained THEN "woken" ELSE @[d]]]
      BY <1>2 DEF FinishOperation
    <3> QED BY <1>0, <3>1 DEF Places, Closing
  <2>6. waiters' \in [Keys -> SUBSET Calls] /\ deleting' \in SUBSET Keys
    BY <1>0, <1>2 DEF FinishOperation
  <2> QED BY <2>4, <2>5, <2>6
<1>3. ASSUME NEW k \in Keys, NEW c \in Calls, RunDeletion(k, c) PROVE GateTypeOK'
  <2>1. active' = active /\ deleting' = deleting \cup {k} BY <1>3 DEF RunDeletion
  <2>2. PICK p \in {"woken", "draining"} : place' = [place EXCEPT ![k][c] = p]
    BY <1>3 DEF RunDeletion
  <2>3. waiters' = waiters \/ waiters' = [waiters EXCEPT ![k] = @ \cup {c}]
    BY <1>3 DEF RunDeletion
  <2>4. place' \in [Keys -> [Calls -> Places]] BY <1>0, <2>2 DEF Places, Closing
  <2>5. waiters' \in [Keys -> SUBSET Calls] BY <1>0, <2>3
  <2> QED BY <1>0, <2>1, <2>4, <2>5
<1>4. ASSUME NEW k \in Keys, NEW c \in Calls, StartDeletion(k, c) PROVE GateTypeOK'
  BY <1>0, <1>4 DEF StartDeletion, Places, Closing
<1>5. ASSUME NEW k \in Keys, NEW c \in Calls, DrainExpires(k, c) PROVE GateTypeOK'
  BY <1>0, <1>5 DEF DrainExpires, Places, Closing
<1>6. ASSUME NEW k \in Keys, NEW c \in Calls, EndDeletion(k, c) PROVE GateTypeOK'
  BY <1>0, <1>6 DEF EndDeletion, Places, Closing
<1>7. CASE UNCHANGED gateVars BY <1>0, <1>7 DEF gateVars
<1> QED BY <1>1, <1>2, <1>3, <1>4, <1>5, <1>6, <1>7 DEF GateNext

\* An operation that enters is counted, and finds the key open.
LEMMA RunOperationKeeps ==
  ASSUME GateIInv, NEW k \in Keys, NEW c \in Calls, RunOperation(k, c)
  PROVE  CounterIsExact' /\ ClosedByOne' /\ NoLostDrain' /\ DrainedIsEmpty'
<1>0. /\ GateTypeOK /\ CounterIsExact /\ ClosedByOne /\ NoLostDrain /\ DrainedIsEmpty
  BY DEF GateIInv
<1>1. place \in [Keys -> [Calls -> Places]] /\ active \in [Keys -> Nat] BY <1>0 DEF GateTypeOK
<1>2. /\ k \notin deleting /\ deleting' = deleting /\ waiters' = waiters
      /\ active' = [active EXCEPT ![k] = @ + 1]
      /\ place' = [place EXCEPT ![k][c] = "operating"] /\ place[k][c] = "out"
  BY DEF RunOperation
<1>3. /\ Operating(k)' = Operating(k) \cup {c} /\ c \notin Operating(k)
      /\ \A j \in Keys \ {k} : Operating(j)' = Operating(j)
      /\ \A j \in Keys : Closers(j)' = Closers(j)
  BY <1>0, EnterAdds
<1>4. CounterIsExact'
  <2>1. Cardinality(Operating(k) \cup {c}) = Cardinality(Operating(k)) + 1
    BY <1>3, OperatingIsFinite, FS_AddElement
  <2> QED BY <1>0, <1>1, <1>2, <1>3, <2>1 DEF CounterIsExact
<1>5. ClosedByOne' BY <1>0, <1>2, <1>3 DEF ClosedByOne
<1>6. NoLostDrain'
  <2>1. \A j \in Keys, d \in Calls : place'[j][d] = "draining" <=> place[j][d] = "draining"
    BY <1>1, <1>2
  <2> QED BY <1>0, <1>2, <1>3, <2>1 DEF NoLostDrain
<1>7. DrainedIsEmpty'
  <2>1. \A d \in Calls : place[k][d] \notin Closing
    BY <1>0, <1>2 DEF ClosedByOne, Closers
  <2>2. \A j \in Keys, d \in Calls : place'[j][d] \in {"woken", "deleting"} =>
          /\ j # k /\ place[j][d] \in {"woken", "deleting"}
    BY <1>1, <1>2, <2>1 DEF Closing
  <2> QED BY <1>0, <1>3, <2>2 DEF DrainedIsEmpty
<1> QED BY <1>4, <1>5, <1>6, <1>7

\* The last operation to end resolves the deletion that waits, and leaves nobody inside.
LEMMA FinishOperationKeeps ==
  ASSUME GateIInv, NEW k \in Keys, NEW c \in Calls, FinishOperation(k, c)
  PROVE  CounterIsExact' /\ ClosedByOne' /\ NoLostDrain' /\ DrainedIsEmpty'
<1>0. /\ GateTypeOK /\ CounterIsExact /\ ClosedByOne /\ NoLostDrain /\ DrainedIsEmpty
  BY DEF GateIInv
<1>1. /\ place \in [Keys -> [Calls -> Places]] /\ active \in [Keys -> Nat]
      /\ waiters \in [Keys -> SUBSET Calls]
  BY <1>0 DEF GateTypeOK
<1>2. /\ deleting' = deleting /\ place[k][c] = "operating"
      /\ active' = [active EXCEPT ![k] = @ - 1]
      /\ waiters' = [waiters EXCEPT ![k] = IF active[k] = 1 THEN {} ELSE @]
  BY <1>1 DEF FinishOperation
<1>3. /\ Operating(k)' = Operating(k) \ {c} /\ c \in Operating(k)
      /\ \A j \in Keys \ {k} : Operating(j)' = Operating(j)
      /\ \A j \in Keys : Closers(j)' = Closers(j)
  BY <1>0, FinishRemoves
<1>p. \A j \in Keys, d \in Calls :
        place'[j][d] = IF j # k THEN place[j][d]
                       ELSE IF d = c THEN "out"
                       ELSE IF active[k] = 1 /\ d \in waiters[k] THEN "woken"
                       ELSE place[k][d]
  BY <1>0, FinishMoves
<1>c. Cardinality(Operating(k)') = active[k] - 1
  BY <1>0, <1>3, OperatingIsFinite, FS_RemoveElement, ZenonT(30) DEF CounterIsExact
<1>e. active[k] = 1 <=> Operating(k)' = {}
  <2>1. IsFiniteSet(Operating(k)')
    BY <1>3, OperatingIsFinite, FS_RemoveElement
  <2> QED BY <1>c, <2>1, <1>1, FS_EmptySet
<1>4. CounterIsExact' BY <1>0, <1>1, <1>2, <1>3, <1>c DEF CounterIsExact
<1>5. ClosedByOne' BY <1>0, <1>2, <1>3 DEF ClosedByOne
<1>6. NoLostDrain'
  <2>1. ASSUME NEW j \in Keys
        PROVE  /\ waiters'[j] = {d \in Calls : place'[j][d] = "draining"}
               /\ waiters'[j] # {} => Operating(j)' # {}
    <3>1. CASE j # k
      BY <1>0, <1>1, <1>2, <1>3, <1>p, <3>1 DEF NoLostDrain
    <3>2. CASE j = k /\ active[k] = 1
      <4>1. waiters'[k] = {} BY <1>1, <1>2, <3>2
      <4>2. \A d \in Calls : place[k][d] = "draining" => d \in waiters[k]
        BY <1>0 DEF NoLostDrain
      <4>3. \A d \in Calls : place'[k][d] # "draining" BY <1>p, <3>2, <4>2
      <4> QED BY <3>2, <4>1, <4>3
    <3>3. CASE j = k /\ active[k] # 1
      <4>1. waiters'[k] = waiters[k] BY <1>1, <1>2, <3>3
      <4>2. \A d \in Calls : place'[k][d] = "draining" <=> place[k][d] = "draining"
        BY <1>2, <1>p, <3>3
      <4>3. Operating(k)' # {} BY <1>e, <3>3
      <4> QED BY <1>0, <3>3, <4>1, <4>2, <4>3 DEF NoLostDrain
    <3> QED BY <3>1, <3>2, <3>3
  <2> QED BY <2>1 DEF NoLostDrain
<1>7. DrainedIsEmpty'
  <2>1. ASSUME NEW j \in Keys, NEW d \in Calls, place'[j][d] \in {"woken", "deleting"}
        PROVE  Operating(j)' = {}
    <3>1. CASE j # k BY <1>0, <1>3, <1>p, <2>1, <3>1 DEF DrainedIsEmpty
    <3>2. CASE j = k /\ active[k] = 1 BY <1>e, <3>2
    <3>3. CASE j = k /\ active[k] # 1
      <4>1. place[k][d] \in {"woken", "deleting"} BY <1>p, <2>1, <3>3
      <4> QED BY <1>0, <1>3, <4>1 DEF DrainedIsEmpty
    <3> QED BY <3>1, <3>2, <3>3
  <2> QED BY <2>1 DEF DrainedIsEmpty
<1> QED BY <1>4, <1>5, <1>6, <1>7

\* The steps of a deletion move one closer and no operation.
LEMMA DeletionKeeps ==
  ASSUME GateIInv, NEW k \in Keys, NEW c \in Calls,
         \/ RunDeletion(k, c) \/ StartDeletion(k, c)
         \/ DrainExpires(k, c) \/ EndDeletion(k, c)
  PROVE  CounterIsExact' /\ ClosedByOne' /\ NoLostDrain' /\ DrainedIsEmpty'
<1>0. /\ GateTypeOK /\ CounterIsExact /\ ClosedByOne /\ NoLostDrain /\ DrainedIsEmpty
  BY DEF GateIInv
<1>1. /\ place \in [Keys -> [Calls -> Places]] /\ active \in [Keys -> Nat]
      /\ waiters \in [Keys -> SUBSET Calls]
  BY <1>0 DEF GateTypeOK
<1>2. active' = active BY DEF RunDeletion, StartDeletion, DrainExpires, EndDeletion
<1>3. PICK p \in Places \ {"operating"} :
        place' = [place EXCEPT ![k][c] = p] /\ place[k][c] # "operating"
  BY DEF RunDeletion, StartDeletion, DrainExpires, EndDeletion, Places, Closing
<1>p. \A j \in Keys, d \in Calls :
        place'[j][d] = IF j = k /\ d = c THEN p ELSE place[j][d]
  BY <1>1, <1>3
<1>o. \A j \in Keys : Operating(j)' = Operating(j) BY <1>3, <1>p DEF Operating
<1>4. CounterIsExact' BY <1>0, <1>2, <1>o DEF CounterIsExact
<1>z. active[k] = 0 => Operating(k) = {}
  BY <1>0, OperatingIsFinite DEF CounterIsExact
<1>5. CASE RunDeletion(k, c)
  <2>1. /\ k \notin deleting /\ deleting' = deleting \cup {k} /\ place[k][c] = "out"
        /\ active[k] = 0 => p = "woken" /\ waiters' = waiters
        /\ active[k] # 0 => p = "draining" /\ waiters' = [waiters EXCEPT ![k] = @ \cup {c}]
    BY <1>1, <1>3, <1>5, <1>p DEF RunDeletion
  <2>2. \A d \in Calls : place[k][d] \notin Closing BY <1>0, <2>1 DEF ClosedByOne, Closers
  <2>3. Closers(k)' = {c} BY <1>p, <2>1, <2>2 DEF Closers, Closing
  <2>4. \A j \in Keys \ {k} : Closers(j)' = Closers(j) BY <1>p DEF Closers
  <2>5. ClosedByOne' BY <1>0, <2>1, <2>3, <2>4 DEF ClosedByOne
  <2>6. NoLostDrain'
    <3>1. ASSUME NEW j \in Keys
          PROVE  /\ waiters'[j] = {d \in Calls : place'[j][d] = "draining"}
                 /\ waiters'[j] # {} => Operating(j)' # {}
      <4>1. CASE j # k BY <1>0, <1>1, <1>o, <1>p, <2>1, <4>1 DEF NoLostDrain
      <4>2. CASE j = k /\ active[k] = 0
        BY <1>0, <1>1, <1>o, <1>p, <2>1, <4>2 DEF NoLostDrain
      <4>3. CASE j = k /\ active[k] # 0
        <5>1. active[k] = Cardinality(Operating(k)) BY <1>0 DEF CounterIsExact
        <5>2. Operating(k) # {} BY <4>3, <5>1, OperatingIsFinite
        <5>3. waiters'[k] = waiters[k] \cup {c} BY <1>1, <2>1, <4>3
        <5>4. waiters[k] = {d \in Calls : place[k][d] = "draining"} BY <1>0 DEF NoLostDrain
        <5> QED BY <1>o, <1>p, <2>1, <4>3, <5>2, <5>3, <5>4
      <4> QED BY <4>1, <4>2, <4>3
    <3> QED BY <3>1 DEF NoLostDrain
  <2>7. DrainedIsEmpty' BY <1>0, <1>o, <1>p, <1>z, <2>1 DEF DrainedIsEmpty
  <2> QED BY <1>4, <2>5, <2>6, <2>7
<1>6. CASE StartDeletion(k, c)
  <2>1. /\ place[k][c] = "woken" /\ p = "deleting" /\ deleting' = deleting /\ waiters' = waiters
    BY <1>1, <1>3, <1>6, <1>p DEF StartDeletion
  <2>2. \A j \in Keys : Closers(j)' = Closers(j) BY <1>p, <2>1 DEF Closers, Closing
  <2>3. ClosedByOne' BY <1>0, <2>1, <2>2 DEF ClosedByOne
  <2>4. NoLostDrain' BY <1>0, <1>o, <1>p, <2>1 DEF NoLostDrain
  <2>5. DrainedIsEmpty' BY <1>0, <1>o, <1>p, <2>1 DEF DrainedIsEmpty
  <2> QED BY <1>4, <2>3, <2>4, <2>5
<1>7. CASE DrainExpires(k, c)
  <2>1. /\ place[k][c] = "draining" /\ p = "expired" /\ deleting' = deleting
        /\ waiters' = [waiters EXCEPT ![k] = @ \ {c}]
    BY <1>1, <1>3, <1>7, <1>p DEF DrainExpires
  <2>2. \A j \in Keys : Closers(j)' = Closers(j) BY <1>p, <2>1 DEF Closers, Closing
  <2>3. ClosedByOne' BY <1>0, <2>1, <2>2 DEF ClosedByOne
  <2>4. NoLostDrain' BY <1>0, <1>1, <1>o, <1>p, <2>1 DEF NoLostDrain
  <2>5. DrainedIsEmpty' BY <1>0, <1>o, <1>p, <2>1 DEF DrainedIsEmpty
  <2> QED BY <1>4, <2>3, <2>4, <2>5
<1>8. CASE EndDeletion(k, c)
  <2>1. /\ place[k][c] \in {"deleting", "expired"} /\ p = "out"
        /\ deleting' = deleting \ {k} /\ waiters' = waiters
    BY <1>1, <1>3, <1>8, <1>p DEF EndDeletion
  <2>2. c \in Closers(k) BY <2>1 DEF Closers, Closing
  <2>3. Closers(k)' = {} BY <1>0, <1>p, <2>1, <2>2 DEF ClosedByOne, Closers, Closing
  <2>4. \A j \in Keys \ {k} : Closers(j)' = Closers(j) BY <1>p DEF Closers
  <2>5. ClosedByOne' BY <1>0, <2>1, <2>3, <2>4 DEF ClosedByOne
  <2>6. NoLostDrain' BY <1>0, <1>o, <1>p, <2>1 DEF NoLostDrain
  <2>7. DrainedIsEmpty' BY <1>0, <1>o, <1>p, <2>1 DEF DrainedIsEmpty
  <2> QED BY <1>4, <2>5, <2>6, <2>7
<1> QED BY <1>5, <1>6, <1>7, <1>8

\* The strengthened invariant holds at first and is kept by every step.
LEMMA GateInductive ==
  /\ GateInit => GateIInv
  /\ GateIInv /\ [GateNext]_gateVars => GateIInv'
<1>1. ASSUME GateInit PROVE GateIInv
  <2>1. \A k \in Keys : Operating(k) = {} /\ Closers(k) = {}
    BY <1>1 DEF GateInit, Operating, Closers, Closing
  <2>2. GateTypeOK BY <1>1 DEF GateInit, GateTypeOK, Places
  <2>3. CounterIsExact BY <1>1, <2>1, FS_EmptySet DEF GateInit, CounterIsExact
  <2>4. ClosedByOne /\ DrainedIsEmpty /\ NoLostDrain
    BY <1>1, <2>1 DEF GateInit, ClosedByOne, DrainedIsEmpty, NoLostDrain
  <2> QED BY <2>2, <2>3, <2>4 DEF GateIInv
<1>2. ASSUME GateIInv, [GateNext]_gateVars PROVE GateIInv'
  <2>1. GateTypeOK' BY <1>2, GateTypeStep
  <2>2. CASE UNCHANGED gateVars
    BY <1>2, <2>1, <2>2 DEF GateIInv, gateVars, CounterIsExact, ClosedByOne, NoLostDrain,
       DrainedIsEmpty, Operating, Closers
  <2>3. ASSUME NEW k \in Keys, NEW c \in Calls,
               \/ RunOperation(k, c) \/ FinishOperation(k, c) \/ RunDeletion(k, c)
               \/ StartDeletion(k, c) \/ DrainExpires(k, c) \/ EndDeletion(k, c)
        PROVE  CounterIsExact' /\ ClosedByOne' /\ NoLostDrain' /\ DrainedIsEmpty'
    BY <1>2, <2>3, RunOperationKeeps, FinishOperationKeeps, DeletionKeeps
  <2> QED BY <1>2, <2>1, <2>2, <2>3 DEF GateNext, GateIInv
<1> QED BY <1>1, <1>2

\* A step of call c at key k moves c there, and at most wakes those that drain.
MovesOne(k, c, to) ==
  /\ place'[k][c] \in to
  /\ \A j \in Keys, d \in Calls : j # k \/ d # c =>
       \/ place'[j][d] = place[j][d]
       \/ d # c /\ place[j][d] = "draining" /\ place'[j][d] = "woken"

\* Where each step of the gate takes its call.
LEMMA GateMoves ==
  ASSUME GateIInv, NEW k \in Keys, NEW c \in Calls
  PROVE  /\ RunOperation(k, c) => MovesOne(k, c, {"operating"})
         /\ FinishOperation(k, c) => MovesOne(k, c, {"out"})
         /\ RunDeletion(k, c) => MovesOne(k, c, {"draining", "woken"})
         /\ StartDeletion(k, c) => MovesOne(k, c, {"deleting"})
         /\ DrainExpires(k, c) => MovesOne(k, c, {"expired"})
         /\ EndDeletion(k, c) => MovesOne(k, c, {"out"})
<1>1. place \in [Keys -> [Calls -> Places]]
  BY DEF GateIInv, GateTypeOK
<1>2. ASSUME FinishOperation(k, c) PROVE MovesOne(k, c, {"out"})
  <2>1. \A j \in Keys, d \in Calls :
          place'[j][d] = IF j # k THEN place[j][d]
                         ELSE IF d = c THEN "out"
                         ELSE IF active[k] = 1 /\ d \in waiters[k] THEN "woken"
                         ELSE place[k][d]
    BY <1>2, FinishMoves DEF GateIInv
  <2>2. \A d \in Calls : d \in waiters[k] => place[k][d] = "draining"
    BY DEF GateIInv, NoLostDrain
  <2> QED
    BY <2>1, <2>2 DEF MovesOne
<1>3. ASSUME RunDeletion(k, c) PROVE MovesOne(k, c, {"draining", "woken"})
  <2>1. PICK p \in {"draining", "woken"} : place' = [place EXCEPT ![k][c] = p]
    BY <1>3 DEF RunDeletion
  <2> QED
    BY <1>1, <2>1 DEF MovesOne
<1>4. /\ RunOperation(k, c) => MovesOne(k, c, {"operating"})
      /\ StartDeletion(k, c) => MovesOne(k, c, {"deleting"})
      /\ DrainExpires(k, c) => MovesOne(k, c, {"expired"})
      /\ EndDeletion(k, c) => MovesOne(k, c, {"out"})
  BY <1>1 DEF RunOperation, StartDeletion, DrainExpires, EndDeletion, MovesOne
<1> QED
  BY <1>2, <1>3, <1>4

\* The gate keeps its types, its counters, its marks and its waiters, for any keys and calls.
THEOREM GateTypeCorrect == GateSpec => []GateTypeOK
<1>1. GateIInv => GateTypeOK BY DEF GateIInv
<1> QED BY <1>1, GateInductive, PTL DEF GateSpec

\* While a deletion of an agent or session is inside, no operation of it is.
THEOREM DeletionExcludesOperations == GateSpec => []DeletionIsAlone
<1>1. GateIInv => DeletionIsAlone BY DEF GateIInv, DrainedIsEmpty, DeletionIsAlone
<1> QED BY <1>1, GateInductive, PTL DEF GateSpec

\* A key is closed exactly while one call deletes it: the mark never leaks.
THEOREM ClosedExactlyWhileDeleting == GateSpec => []ClosedByOne
<1>1. GateIInv => ClosedByOne BY DEF GateIInv
<1> QED BY <1>1, GateInductive, PTL DEF GateSpec

\* A deletion that waits is registered and has an operation to wait for.
THEOREM DrainsAreNeverLost == GateSpec => []NoLostDrain
<1>1. GateIInv => NoLostDrain BY DEF GateIInv
<1> QED BY <1>1, GateInductive, PTL DEF GateSpec

\* The counter of a key is the number of its operations.
THEOREM CountersAreExact == GateSpec => []CounterIsExact
<1>1. GateIInv => CounterIsExact BY DEF GateIInv
<1> QED BY <1>1, GateInductive, PTL DEF GateSpec

-----------------------------------------------------------------------------
\* The refinement mapping: who is inside, who closed the door, and whether it is alone.
Inside == [k \in Keys |-> Operating(k)]
Closer == [k \in Keys |-> OneOf(Closers(k))]
Alone == [k \in Keys |-> \E c \in Calls : place[k][c] = "deleting"]

\* An open key has no closer; a closed one has the call that closed it.
LEMMA OneOfIsMember ==
  /\ OneOf({}) = Nobody
  /\ \A c \in Calls : OneOf({c}) = c
BY DEF OneOf

\* Every step of the gate is a step of the room, or leaves the room as it is.
LEMMA GateStepRefines ==
  ASSUME GateIInv, [GateNext]_gateVars
  PROVE  [Room!RoomNext]_(Room!roomVars)
<1>0. /\ GateTypeOK /\ ClosedByOne /\ NoLostDrain /\ DrainedIsEmpty BY DEF GateIInv
<1>t. place \in [Keys -> [Calls -> Places]] BY <1>0 DEF GateTypeOK
<1>1. ASSUME NEW k \in Keys, NEW c \in Calls, RunOperation(k, c) PROVE Room!Admit(k, c)
  <2>1. /\ Operating(k)' = Operating(k) \cup {c} /\ c \notin Operating(k)
        /\ \A j \in Keys \ {k} : Operating(j)' = Operating(j)
        /\ \A j \in Keys : Closers(j)' = Closers(j)
    BY <1>0, <1>1, EnterAdds
  <2>2. \A j \in Keys, d \in Calls :
          place'[j][d] = IF j = k /\ d = c THEN "operating" ELSE place[j][d]
    BY <1>t, <1>1 DEF RunOperation
  <2>3. place[k][c] = "out" /\ k \notin deleting BY <1>1 DEF RunOperation
  <2>4. Closers(k) = {} BY <1>0, <2>3 DEF ClosedByOne
  <2>5. Closer[k] = Nobody BY <2>4, OneOfIsMember DEF Closer
  <2>6. Inside' = [Inside EXCEPT ![k] = @ \cup {c}] BY <2>1 DEF Inside
  <2>7. \A j \in Keys, d \in Calls : place'[j][d] = "deleting" <=> place[j][d] = "deleting"
    BY <2>2, <2>3
  <2>8. Alone' = Alone BY <2>7 DEF Alone
  <2>9. Closer' = Closer BY <2>1 DEF Closer
  <2>10. c \notin Inside[k] BY <2>1 DEF Inside
  <2> QED BY <2>5, <2>6, <2>8, <2>9, <2>10 DEF Room!Admit, Inside, Closer, Alone
<1>2. ASSUME NEW k \in Keys, NEW c \in Calls, FinishOperation(k, c) PROVE Room!Depart(k, c)
  <2>1. /\ Operating(k)' = Operating(k) \ {c} /\ c \in Operating(k)
        /\ \A j \in Keys \ {k} : Operating(j)' = Operating(j)
        /\ \A j \in Keys : Closers(j)' = Closers(j)
    BY <1>0, <1>2, FinishRemoves
  <2>2. \A d \in Calls : d \in waiters[k] <=> place[k][d] = "draining" BY <1>0 DEF NoLostDrain
  <2>3. place[k][c] = "operating" BY <1>2 DEF FinishOperation
  <2>4. \A j \in Keys, d \in Calls : place'[j][d] = "deleting" <=> place[j][d] = "deleting"
    BY <1>0, <1>2, <2>2, <2>3, FinishMoves
  <2>5. Alone' = Alone BY <2>4 DEF Alone
  <2>6. Closer' = Closer BY <2>1 DEF Closer
  <2>7. Inside' = [Inside EXCEPT ![k] = @ \ {c}] BY <2>1 DEF Inside
  <2>8. c \in Inside[k] BY <2>1 DEF Inside
  <2> QED BY <2>5, <2>6, <2>7, <2>8 DEF Room!Depart, Inside, Closer, Alone
<1>3. ASSUME NEW k \in Keys, NEW c \in Calls, RunDeletion(k, c) PROVE Room!CloseDoor(k, c)
  <2>1. PICK p \in {"woken", "draining"} : place' = [place EXCEPT ![k][c] = p]
    BY <1>3 DEF RunDeletion
  <2>2. place[k][c] = "out" /\ k \notin deleting BY <1>3 DEF RunDeletion
  <2>3. \A j \in Keys, d \in Calls : place'[j][d] = IF j = k /\ d = c THEN p ELSE place[j][d]
    BY <1>t, <2>1
  <2>4. Closers(k) = {} BY <1>0, <2>2 DEF ClosedByOne
  <2>5. Inside' = Inside BY <2>2, <2>3 DEF Operating, Inside
  <2>6. \A j \in Keys, d \in Calls : place'[j][d] = "deleting" <=> place[j][d] = "deleting"
    BY <2>2, <2>3
  <2>7. Alone' = Alone BY <2>6 DEF Alone
  <2>8. Closer[k] = Nobody BY <2>4, OneOfIsMember DEF Closer
  <2>9. Closers(k)' = {c}
    <3>1. \A d \in Calls : place[k][d] \notin Closing BY <2>4 DEF Closers
    <3>2. \A d \in Calls : place'[k][d] \in Closing <=> d = c BY <2>3, <3>1 DEF Closing
    <3> QED BY <3>2 DEF Closers, Closing
  <2>10. \A j \in Keys \ {k} : Closers(j)' = Closers(j) BY <2>3 DEF Closers
  <2>11. Closer' = [Closer EXCEPT ![k] = c] BY <2>9, <2>10, OneOfIsMember DEF Closer
  <2> QED BY <2>5, <2>7, <2>8, <2>11 DEF Room!CloseDoor, Inside, Closer, Alone
<1>4. ASSUME NEW k \in Keys, NEW c \in Calls, StartDeletion(k, c) PROVE Room!HaveAlone(k)
  <2>1. place[k][c] = "woken" BY <1>4 DEF StartDeletion
  <2>2. \A j \in Keys, d \in Calls :
          place'[j][d] = IF j = k /\ d = c THEN "deleting" ELSE place[j][d]
    BY <1>t, <1>4 DEF StartDeletion
  <2>3. \A j \in Keys : Operating(j)' = Operating(j) BY <2>1, <2>2 DEF Operating
  <2>4. \A j \in Keys : Closers(j)' = Closers(j) BY <2>1, <2>2 DEF Closers, Closing
  <2>5. Operating(k) = {} BY <1>0, <2>1 DEF DrainedIsEmpty
  <2>6. c \in Closers(k) BY <2>1 DEF Closers, Closing
  <2>7. Closers(k) = {c} BY <1>0, <2>6 DEF ClosedByOne
  <2>8. Closer[k] # Nobody BY <2>7, OneOfIsMember, CallsAreFinite DEF Closer
  <2>9. \A d \in Calls : place[k][d] # "deleting"
    <3>1. \A d \in Calls : place[k][d] = "deleting" => d = c BY <2>7 DEF Closers, Closing
    <3> QED BY <2>1, <3>1
  <2>10. Alone[k] = FALSE BY <2>9 DEF Alone
  <2>11. \A j \in Keys : Alone'[j] = IF j = k THEN TRUE ELSE Alone[j] BY <2>2 DEF Alone
  <2>12. Alone' = [Alone EXCEPT ![k] = TRUE] BY <2>11 DEF Alone
  <2>13. Inside' = Inside /\ Closer' = Closer BY <2>3, <2>4 DEF Inside, Closer
  <2>14. Inside[k] = {} BY <2>5 DEF Inside
  <2> QED BY <2>8, <2>10, <2>12, <2>13, <2>14 DEF Room!HaveAlone, Inside, Closer, Alone
<1>5. ASSUME NEW k \in Keys, NEW c \in Calls, DrainExpires(k, c) PROVE UNCHANGED Room!roomVars
  <2>1. place[k][c] = "draining" BY <1>5 DEF DrainExpires
  <2>2. \A j \in Keys, d \in Calls :
          place'[j][d] = IF j = k /\ d = c THEN "expired" ELSE place[j][d]
    BY <1>t, <1>5 DEF DrainExpires
  <2>3. \A j \in Keys : Operating(j)' = Operating(j) BY <2>1, <2>2 DEF Operating
  <2>4. \A j \in Keys : Closers(j)' = Closers(j) BY <2>1, <2>2 DEF Closers, Closing
  <2>5. \A j \in Keys, d \in Calls : place'[j][d] = "deleting" <=> place[j][d] = "deleting"
    BY <2>1, <2>2
  <2>6. Inside' = Inside /\ Closer' = Closer /\ Alone' = Alone
    BY <2>3, <2>4, <2>5 DEF Inside, Closer, Alone
  <2> QED BY <2>6 DEF Room!roomVars, Inside, Closer, Alone
<1>6. ASSUME NEW k \in Keys, NEW c \in Calls, EndDeletion(k, c) PROVE Room!OpenDoor(k)
  <2>1. place[k][c] \in {"deleting", "expired"} BY <1>6 DEF EndDeletion
  <2>2. \A j \in Keys, d \in Calls : place'[j][d] = IF j = k /\ d = c THEN "out" ELSE place[j][d]
    BY <1>t, <1>6 DEF EndDeletion
  <2>3. \A j \in Keys : Operating(j)' = Operating(j) BY <2>1, <2>2 DEF Operating
  <2>4. c \in Closers(k) BY <2>1 DEF Closers, Closing
  <2>5. Closers(k) = {c} BY <1>0, <2>4 DEF ClosedByOne
  <2>6. Closer[k] # Nobody BY <2>5, OneOfIsMember, CallsAreFinite DEF Closer
  <2>7. Closers(k)' = {}
    <3>1. \A d \in Calls : place[k][d] \in Closing => d = c BY <2>5 DEF Closers
    <3>2. \A d \in Calls : place'[k][d] \notin Closing BY <2>2, <3>1 DEF Closing
    <3> QED BY <3>2 DEF Closers, Closing
  <2>8. \A j \in Keys \ {k} : Closers(j)' = Closers(j) BY <2>2 DEF Closers
  <2>9. Closer' = [Closer EXCEPT ![k] = Nobody] BY <2>7, <2>8, OneOfIsMember DEF Closer
  <2>10. \A d \in Calls : place'[k][d] # "deleting"
    <3>1. \A d \in Calls : place[k][d] = "deleting" => d = c BY <2>5 DEF Closers, Closing
    <3> QED BY <2>2, <3>1
  <2>11. \A j \in Keys : Alone'[j] = IF j = k THEN FALSE ELSE Alone[j] BY <2>2, <2>10 DEF Alone
  <2>12. Alone' = [Alone EXCEPT ![k] = FALSE] BY <2>11 DEF Alone
  <2>13. Inside' = Inside BY <2>3 DEF Inside
  <2> QED BY <2>6, <2>9, <2>12, <2>13 DEF Room!OpenDoor, Inside, Closer, Alone
<1>7. CASE UNCHANGED gateVars
  <2>1. Inside' = Inside /\ Closer' = Closer /\ Alone' = Alone
    BY <1>7 DEF gateVars, Inside, Closer, Alone, Operating, Closers
  <2> QED BY <2>1 DEF Room!roomVars, Inside, Closer, Alone
<1> QED BY <1>1, <1>2, <1>3, <1>4, <1>5, <1>6, <1>7 DEF GateNext, Room!RoomNext

\* Both gates implement the room with one door, for any keys and calls.
THEOREM GateRefinesRoom == GateSpec => GateKeepsPromise
<1>1. GateInit => Room!RoomInit
  <2> SUFFICES ASSUME GateInit PROVE Room!RoomInit OBVIOUS
  <2>1. \A k \in Keys : Operating(k) = {} /\ Closers(k) = {}
    BY DEF GateInit, Operating, Closers, Closing
  <2>2. \A k \in Keys, c \in Calls : place[k][c] # "deleting" BY DEF GateInit
  <2> QED BY <2>1, <2>2, OneOfIsMember DEF Room!RoomInit
<1>2. GateIInv /\ [GateNext]_gateVars => [Room!RoomNext]_(Room!roomVars)
  BY GateStepRefines
<1> QED BY <1>1, <1>2, GateInductive, PTL DEF GateSpec, GateKeepsPromise, Room!RoomSpec
=============================================================================
