------------------------ MODULE ApprovalBrokerProofs ------------------------
(***************************************************************************)
(* The approval broker, for any callers, requests and limits: every wait   *)
(* is registered at an open request, an aborted caller is attached to      *)
(* nothing, nobody passes by a request that is due, and an approval is     *)
(* spent once.  The methods of the broker are functions of a world, the    *)
(* map with the places of the callers, and so are the lemmas about them.   *)
(***************************************************************************)
EXTENDS ApprovalBroker, TLAPS

Entries == [status : {"free", "pending", "approved", "gone"}, owner : Callers \cup {None},
            settlers : SUBSET Callers, signals : SUBSET Callers, due : BOOLEAN]
Places == {"out", "shown", "presenting", "waiting", "allowed", "refused"}
Worlds == [pending : [Requests -> Entries], at : [Callers -> Places]]
Asked == [Callers -> Requests \cup {None}]

IsLive(w, r) == w.pending[r].status \in {"pending", "approved"}

\* An open request has an owner; any other holds no promise, listener or timer.
Bare(w) ==
  \A r \in Requests :
    IF IsLive(w, r) THEN w.pending[r].owner \in Callers
    ELSE w.pending[r].settlers = {} /\ w.pending[r].signals = {} /\ ~w.pending[r].due

\* The promises of a request are those of its waiting callers, which are of the kind of its
\* owner; a call of the model returns instead of waiting, and a call of the command line
\* waits for its own request only.
Registered(w, rq) ==
  /\ \A r \in Requests, c \in Callers :
       c \in w.pending[r].settlers =>
         /\ w.pending[r].status = "pending" /\ w.at[c] = "waiting" /\ rq[c] = r
         /\ Kind[c] # "model" /\ Kind[w.pending[r].owner] = Kind[c]
         /\ Kind[c] = "cli" => w.pending[r].owner = c
  /\ \A c \in Callers :
       w.at[c] = "waiting" => rq[c] \in Requests /\ c \in w.pending[rq[c]].settlers

\* Listeners are on open requests, for callers that were not aborted.
Attached(w, ab) ==
  \A r \in Requests, c \in Callers : c \in w.pending[r].signals => IsLive(w, r) /\ c \notin ab

\* What the places of the callers that do not wait say of their requests.
Placed(w, rq) ==
  \A c \in Callers :
    /\ w.at[c] = "shown" => Kind[c] = "model"
    /\ w.at[c] = "presenting" =>
         /\ Kind[c] = "cli" /\ rq[c] \in Requests /\ w.pending[rq[c]].status # "free"
         /\ IsLive(w, rq[c]) => w.pending[rq[c]].owner = c
    /\ w.at[c] = "allowed" => rq[c] \in Requests /\ w.pending[rq[c]].status = "gone"

Sound(w, rq, ab) ==
  /\ w \in Worlds /\ rq \in Asked /\ ab \subseteq Callers
  /\ Bare(w) /\ Registered(w, rq) /\ Attached(w, ab) /\ Placed(w, rq)

BrokerInv == Sound(World, req, aborted)

-----------------------------------------------------------------------------
(* What a step does for the promise of one-shot approvals: it closes some  *)
(* requests and may open one, or it lets callers pass by one request.      *)

\* From world w with requests rq to world v with sq; o is the request that may be opened.
Quiet(w, v, rq, sq, o) ==
  /\ \A r \in Requests :
       \/ v.pending[r].status = w.pending[r].status
       \/ v.pending[r].status = "gone" /\ w.pending[r].status # "gone"
       \/ r = o /\ w.pending[r].status = "free" /\ v.pending[r].status = "pending"
  /\ \A c \in Callers :
       /\ v.at[c] = "allowed" <=> w.at[c] = "allowed"
       /\ w.at[c] = "allowed" => sq[c] = rq[c]

\* Request g lets the callers P pass: those that wait as it is approved, or one that comes
\* later.
Granted(w, v, rq, sq, g, P) ==
  /\ g \in Requests /\ P \subseteq Callers /\ ~w.pending[g].due
  /\ \/ /\ w.pending[g].status = "pending"
        /\ v.pending[g].status = IF P = {} THEN "approved" ELSE "gone"
        /\ P \subseteq {c \in Callers : Kind[c] = "app"} \/ \E c \in P : P = {c}
     \/ /\ w.pending[g].status = "approved" /\ v.pending[g].status = "gone"
        /\ \E c \in P : P = {c}
  /\ \A r \in Requests \ {g} :
       \/ v.pending[r].status = w.pending[r].status
       \/ v.pending[r].status = "gone" /\ w.pending[r].status # "gone"
  /\ \A c \in Callers :
       /\ v.at[c] = "allowed" <=> w.at[c] = "allowed" \/ c \in P
       /\ w.at[c] = "allowed" => c \notin P /\ sq[c] = rq[c]
       /\ c \in P => sq[c] = g

Lawful(w, v, rq, sq) ==
  (\E o \in Requests \cup {None} : Quiet(w, v, rq, sq, o))
  \/ \E g \in Requests, P \in SUBSET Callers : Granted(w, v, rq, sq, g, P)

-----------------------------------------------------------------------------
(* Entries.                                                                *)

LEMMA LiveIsOpen == \A w, r : r \in Live(w) <=> r \in Requests /\ IsLive(w, r)
BY DEF Live, IsLive

LEMMA FreeEntry == Free \in Entries
BY DEF Free, Entries

LEMMA GoneEntry ==
  ASSUME NEW entry \in Entries
  PROVE  /\ Gone(entry) \in Entries /\ Gone(entry).status = "gone"
         /\ Gone(entry).settlers = {} /\ Gone(entry).signals = {} /\ ~Gone(entry).due
BY DEF Gone, Free, Entries

-----------------------------------------------------------------------------
(* Refusals.                                                               *)

\* What refusing leaves of a request and of a caller.
LEMMA RefuseFields ==
  ASSUME NEW w \in Worlds, NEW R \in SUBSET Requests
  PROVE  /\ Refuse(w, R) \in Worlds
         /\ \A r \in R : Refuse(w, R).pending[r] = Gone(w.pending[r])
         /\ \A r \in Requests \ R : Refuse(w, R).pending[r] = w.pending[r]
         /\ \A c \in Callers :
              Refuse(w, R).at[c] = IF \E r \in R : c \in w.pending[r].settlers THEN "refused"
                                   ELSE w.at[c]
<1>1. \A r \in Requests : Gone(w.pending[r]) \in Entries
  BY GoneEntry DEF Worlds
<1> QED
  BY <1>1 DEF Refuse, Worlds, Places

\* Refusing any requests leaves nobody waiting without one.
LEMMA RefuseIsSound ==
  ASSUME NEW w, NEW rq, NEW ab, Sound(w, rq, ab), NEW R \in SUBSET Requests
  PROVE  Sound(Refuse(w, R), rq, ab)
<1> DEFINE v == Refuse(w, R)
<1>1. w \in Worlds /\ rq \in Asked /\ ab \subseteq Callers
      /\ Bare(w) /\ Registered(w, rq) /\ Attached(w, ab) /\ Placed(w, rq)
  BY DEF Sound
<1>2. /\ v \in Worlds
      /\ \A r \in R : /\ v.pending[r].status = "gone" /\ v.pending[r].settlers = {}
                      /\ v.pending[r].signals = {} /\ ~v.pending[r].due
      /\ \A r \in Requests \ R : v.pending[r] = w.pending[r]
      /\ \A c \in Callers : v.at[c] = IF \E r \in R : c \in w.pending[r].settlers THEN "refused"
                                      ELSE w.at[c]
  BY <1>1, RefuseFields, GoneEntry DEF Worlds
<1> HIDE DEF v
<1>3. Bare(v)
  BY <1>1, <1>2 DEF Bare, IsLive
<1>4. Registered(v, rq)
  BY <1>1, <1>2 DEF Registered
<1>5. Attached(v, ab)
  BY <1>1, <1>2 DEF Attached, IsLive
<1>6. Placed(v, rq)
  BY <1>1, <1>2 DEF Placed, IsLive
<1> QED
  BY <1>1, <1>2, <1>3, <1>4, <1>5, <1>6 DEF Sound, v

LEMMA PruneIsSound ==
  ASSUME NEW w, NEW rq, NEW ab, Sound(w, rq, ab)
  PROVE  /\ Sound(PruneExpired(w), rq, ab)
         /\ \A r \in Live(PruneExpired(w)) : ~PruneExpired(w).pending[r].due
         /\ \A c \in Callers : w.at[c] # "waiting" => PruneExpired(w).at[c] = w.at[c]
         /\ \A r \in Requests : PruneExpired(w).pending[r] # w.pending[r] =>
              r \in Live(w) /\ PruneExpired(w).pending[r].status = "gone"
<1> DEFINE due == {r \in Live(w) : w.pending[r].due}
<1>1. due \in SUBSET Requests
  BY DEF Live
<1>2. PruneExpired(w) = Refuse(w, due)
  BY DEF PruneExpired
<1>3. w \in Worlds /\ Registered(w, rq)
  BY DEF Sound
<1>4. /\ \A r \in due : Refuse(w, due).pending[r].status = "gone"
      /\ \A r \in Requests \ due : Refuse(w, due).pending[r] = w.pending[r]
      /\ \A c \in Callers : w.at[c] # "waiting" => Refuse(w, due).at[c] = w.at[c]
  BY <1>1, <1>3, RefuseFields, GoneEntry DEF Worlds, Registered
<1>5. Sound(PruneExpired(w), rq, ab)
  BY <1>1, <1>2, RefuseIsSound
<1> QED
  BY <1>1, <1>2, <1>4, <1>5 DEF Live

-----------------------------------------------------------------------------
(* Answers.                                                                *)

\* A caller that does not wait may be refused.
LEMMA LeaveIsSound ==
  ASSUME NEW w, NEW rq, NEW ab, Sound(w, rq, ab), NEW c \in Callers, w.at[c] # "waiting"
  PROVE  Sound([w EXCEPT !.at[c] = "refused"], rq, ab)
<1> DEFINE v == [w EXCEPT !.at[c] = "refused"]
<1>1. w \in Worlds /\ rq \in Asked /\ ab \subseteq Callers
      /\ Bare(w) /\ Registered(w, rq) /\ Attached(w, ab) /\ Placed(w, rq)
  BY DEF Sound
<1>2. /\ v \in Worlds /\ v.pending = w.pending
      /\ \A d \in Callers : v.at[d] = IF d = c THEN "refused" ELSE w.at[d]
  BY <1>1 DEF Worlds, Places
<1> HIDE DEF v
<1>3. Bare(v) /\ Attached(v, ab)
  BY <1>1, <1>2 DEF Bare, Attached, IsLive
<1>4. Registered(v, rq)
  BY <1>1, <1>2 DEF Registered
<1>5. Placed(v, rq)
  BY <1>1, <1>2 DEF Placed, IsLive
<1> QED
  BY <1>1, <1>2, <1>3, <1>4, <1>5 DEF Sound, v

\* An approval that nobody waits for lets one caller pass, and is spent.
LEMMA PassIsSound ==
  ASSUME NEW w, NEW rq, NEW ab, Sound(w, rq, ab), NEW c \in Callers,
         w.at[c] \notin {"waiting", "allowed"},
         NEW r \in Requests, w.pending[r].status = "approved"
  PROVE  LET passed == DeletePending([w EXCEPT !.at[c] = "allowed"], r) IN
         /\ Sound(passed, [rq EXCEPT ![c] = r], ab)
         /\ ~w.pending[r].due => Granted(w, passed, rq, [rq EXCEPT ![c] = r], r, {c})
<1> DEFINE v == DeletePending([w EXCEPT !.at[c] = "allowed"], r)
           sq == [rq EXCEPT ![c] = r]
<1>1. w \in Worlds /\ rq \in Asked /\ ab \subseteq Callers
      /\ Bare(w) /\ Registered(w, rq) /\ Attached(w, ab) /\ Placed(w, rq)
  BY DEF Sound
<1>2. w.pending[r] \in Entries /\ Gone(w.pending[r]) \in Entries
  BY <1>1, GoneEntry DEF Worlds
<1>3. /\ v \in Worlds
      /\ v.pending[r] = Gone(w.pending[r])
      /\ \A q \in Requests : q # r => v.pending[q] = w.pending[q]
      /\ \A d \in Callers : v.at[d] = IF d = c THEN "allowed" ELSE w.at[d]
  BY <1>1, <1>2 DEF DeletePending, Worlds, Places
<1>4. /\ v.pending[r].status = "gone" /\ v.pending[r].settlers = {}
      /\ v.pending[r].signals = {} /\ ~v.pending[r].due
  BY <1>2, <1>3, GoneEntry
<1>5. sq \in Asked /\ \A d \in Callers : sq[d] = IF d = c THEN r ELSE rq[d]
  BY <1>1 DEF Asked
<1> HIDE DEF v, sq
<1>6. Bare(v)
  BY <1>1, <1>3, <1>4 DEF Bare, IsLive
<1>7. Registered(v, sq)
  BY <1>1, <1>3, <1>4, <1>5 DEF Registered
<1>8. Attached(v, ab)
  BY <1>1, <1>3, <1>4 DEF Attached, IsLive
<1>9. Placed(v, sq)
  BY <1>1, <1>3, <1>4, <1>5 DEF Placed, IsLive
<1>10. ~w.pending[r].due => Granted(w, v, rq, sq, r, {c})
  BY <1>3, <1>4, <1>5 DEF Granted
<1> QED
  BY <1>1, <1>3, <1>5, <1>6, <1>7, <1>8, <1>9, <1>10 DEF Sound, v, sq

\* The user's approval answers who waits; if nobody does it stays for one caller to come.
LEMMA ApproveIsSound ==
  ASSUME NEW w, NEW rq, NEW ab, Sound(w, rq, ab),
         NEW r \in Requests, w.pending[r].status = "pending"
  PROVE  LET settled == Settle(w, r, "allowed") IN
         /\ w.pending[r].settlers # {} =>
              /\ Kind[w.pending[r].owner] # "model"
              /\ Sound(DeletePending(settled, r), rq, ab)
              /\ ~w.pending[r].due =>
                   Granted(w, DeletePending(settled, r), rq, rq, r, w.pending[r].settlers)
         /\ w.pending[r].settlers = {} =>
              LET kept == [settled EXCEPT !.pending[r].status = "approved"] IN
              /\ Sound(kept, rq, ab)
              /\ ~w.pending[r].due => Granted(w, kept, rq, rq, r, {})
<1> DEFINE settled == Settle(w, r, "allowed")
           v == DeletePending(settled, r)
           u == [settled EXCEPT !.pending[r].status = "approved"]
           emptied == [w.pending[r] EXCEPT !.settlers = {}]
           approved == [w.pending[r] EXCEPT !.settlers = {}, !.status = "approved"]
<1>1. w \in Worlds /\ rq \in Asked /\ ab \subseteq Callers
      /\ Bare(w) /\ Registered(w, rq) /\ Attached(w, ab) /\ Placed(w, rq)
  BY DEF Sound
<1>2. /\ w.pending[r] \in Entries /\ emptied \in Entries /\ approved \in Entries
      /\ Gone(emptied) \in Entries
  <2>1. w.pending[r] \in Entries
    BY <1>1 DEF Worlds
  <2>2. emptied \in Entries
    BY <2>1 DEF Entries
  <2>3. approved \in Entries
    BY <2>1 DEF Entries
  <2> QED
    BY <2>1, <2>2, <2>3, GoneEntry
<1>3. /\ settled \in Worlds /\ settled.pending[r] = emptied
      /\ \A q \in Requests : q # r => settled.pending[q] = w.pending[q]
      /\ \A d \in Callers :
           settled.at[d] = IF d \in w.pending[r].settlers THEN "allowed" ELSE w.at[d]
  BY <1>1, <1>2 DEF Settle, Worlds, Places
<1>4. ASSUME w.pending[r].settlers # {}
      PROVE  /\ Kind[w.pending[r].owner] # "model" /\ Sound(v, rq, ab)
             /\ ~w.pending[r].due => Granted(w, v, rq, rq, r, w.pending[r].settlers)
  <2>1. /\ v \in Worlds /\ v.pending[r] = Gone(emptied) /\ v.at = settled.at
        /\ \A q \in Requests : q # r => v.pending[q] = w.pending[q]
    BY <1>2, <1>3 DEF DeletePending, Worlds
  <2>2. /\ v.pending[r].status = "gone" /\ v.pending[r].settlers = {}
        /\ v.pending[r].signals = {} /\ ~v.pending[r].due
    BY <1>2, <2>1, GoneEntry
  <2>3. \A d \in Callers : v.at[d] = IF d \in w.pending[r].settlers THEN "allowed" ELSE w.at[d]
    BY <1>3, <2>1
  <2>4. Kind[w.pending[r].owner] # "model"
    BY <1>1, <1>2, <1>4 DEF Registered, Entries
  <2> HIDE DEF v, settled, emptied, approved
  <2>5. Bare(v)
    BY <1>1, <2>1, <2>2 DEF Bare, IsLive
  <2>6. Registered(v, rq)
    BY <1>1, <2>1, <2>2, <2>3 DEF Registered
  <2>7. Attached(v, ab)
    BY <1>1, <2>1, <2>2 DEF Attached, IsLive
  <2>8. Placed(v, rq)
    BY <1>1, <2>1, <2>2, <2>3 DEF Placed, Registered, IsLive
  <2>9. w.pending[r].settlers \subseteq {c \in Callers : Kind[c] = "app"}
        \/ \E c \in w.pending[r].settlers : w.pending[r].settlers = {c}
    <3>1. ASSUME NEW c \in w.pending[r].settlers, Kind[c] # "app"
          PROVE  w.pending[r].settlers = {c}
      <4>1. w.pending[r].settlers \subseteq Callers
        BY <1>2 DEF Entries
      <4>2. Kind[c] = "cli" /\ w.pending[r].owner = c
        BY <1>1, <3>1, <4>1, KindAssumption DEF Registered
      <4>3. \A d \in w.pending[r].settlers : Kind[d] = "cli" /\ w.pending[r].owner = d
        BY <1>1, <4>1, <4>2 DEF Registered
      <4> QED
        BY <4>2, <4>3
    <3> QED
      BY <1>2, <3>1 DEF Entries
  <2>10. ~w.pending[r].due => Granted(w, v, rq, rq, r, w.pending[r].settlers)
    <3>1. /\ w.pending[r].settlers \subseteq Callers
          /\ \A c \in w.pending[r].settlers : w.at[c] = "waiting" /\ rq[c] = r
      BY <1>1, <1>2 DEF Entries, Registered
    <3> QED
      BY <1>4, <2>1, <2>2, <2>3, <2>9, <3>1 DEF Granted
  <2> QED
    BY <1>1, <2>1, <2>4, <2>5, <2>6, <2>7, <2>8, <2>10 DEF Sound
<1>5. ASSUME w.pending[r].settlers = {}
      PROVE  Sound(u, rq, ab) /\ (~w.pending[r].due => Granted(w, u, rq, rq, r, {}))
  <2>1. /\ u \in Worlds /\ u.pending[r] = approved /\ u.at = settled.at
        /\ \A q \in Requests : q # r => u.pending[q] = w.pending[q]
    BY <1>2, <1>3 DEF Worlds
  <2>2. /\ u.pending[r].status = "approved" /\ u.pending[r].settlers = {}
        /\ u.pending[r].owner = w.pending[r].owner /\ u.pending[r].signals = w.pending[r].signals
    <3>1. /\ approved.status = "approved" /\ approved.settlers = {}
          /\ approved.owner = w.pending[r].owner /\ approved.signals = w.pending[r].signals
      BY <1>2 DEF Entries
    <3> QED
      BY <2>1, <3>1
  <2>3. \A d \in Callers : u.at[d] = w.at[d]
    BY <1>3, <1>5, <2>1
  <2> HIDE DEF u, settled, emptied, approved
  <2>5. Bare(u)
    BY <1>1, <2>1, <2>2 DEF Bare, IsLive
  <2>6. Registered(u, rq)
    BY <1>1, <1>5, <2>1, <2>2, <2>3 DEF Registered
  <2>7. Attached(u, ab)
    BY <1>1, <2>1, <2>2 DEF Attached, IsLive
  <2>8. Placed(u, rq)
    BY <1>1, <2>1, <2>2, <2>3 DEF Placed, IsLive
  <2>9. ~w.pending[r].due => Granted(w, u, rq, rq, r, {})
    BY <2>1, <2>2, <2>3 DEF Granted
  <2> QED
    BY <1>1, <2>1, <2>5, <2>6, <2>7, <2>8, <2>9 DEF Sound
<1> QED
  BY <1>4, <1>5

-----------------------------------------------------------------------------
(* Questions.                                                              *)

\* Whoever asks joins a request of the same binding or opens one, and waits or is shown it.
LEMMA AskIsSound ==
  ASSUME NEW w, NEW rq, NEW ab, Sound(w, rq, ab), NEW c \in Callers,
         w.at[c] \in {"out", "shown"}, Kind[c] = "app" \/ c \notin ab,
         NEW r \in Requests, r \in Existing(w, c) \/ w.pending[r].status = "free"
  PROVE  /\ Sound(Asks(w, c, r), [rq EXCEPT ![c] = r], ab)
         /\ Quiet(w, Asks(w, c, r), rq, [rq EXCEPT ![c] = r], r)
         /\ Asks(w, c, r).pending[r].status = "pending"
<1> DEFINE entry == IF r \in Existing(w, c) THEN w.pending[r]
                    ELSE [Free EXCEPT !.status = "pending", !.owner = c]
           signals == IF Kind[c] = "app" THEN entry.signals ELSE entry.signals \cup {c}
           settlers == IF Kind[c] = "app" THEN entry.settlers \cup {c} ELSE entry.settlers
           v == Asks(w, c, r)
           sq == [rq EXCEPT ![c] = r]
<1>1. w \in Worlds /\ rq \in Asked /\ ab \subseteq Callers
      /\ Bare(w) /\ Registered(w, rq) /\ Attached(w, ab) /\ Placed(w, rq)
      /\ w.pending[r] \in Entries /\ Kind[c] \in {"model", "app", "cli"}
  BY KindAssumption DEF Sound, Worlds
<1>2. /\ entry \in Entries /\ entry.status = "pending" /\ entry.owner \in Callers
      /\ Kind[entry.owner] = Kind[c] /\ (Kind[c] = "cli" => entry.owner = c)
      /\ r \in Existing(w, c) => entry = w.pending[r]
      /\ r \notin Existing(w, c) => entry.settlers = {} /\ entry.signals = {}
  <2>1. CASE r \in Existing(w, c)
    BY <1>1, <2>1 DEF Existing, SameBinding, Bare, IsLive
  <2>2. CASE r \notin Existing(w, c)
    BY <2>2 DEF Free, Entries
  <2> QED
    BY <2>1, <2>2
<1>3. /\ v \in Worlds
      /\ \A q \in Requests : q # r => v.pending[q] = w.pending[q]
      /\ \A d \in Callers : v.at[d] = IF d = c THEN AfterCreate(c) ELSE w.at[d]
      /\ v.pending[r].status = "pending" /\ v.pending[r].owner = entry.owner
      /\ v.pending[r].settlers = settlers /\ v.pending[r].signals = signals
      /\ v.pending[r].due = entry.due
  <2> DEFINE opened == IF r \in Existing(w, c) THEN w
                       ELSE [w EXCEPT !.pending[r] =
                               [Free EXCEPT !.status = "pending", !.owner = c]]
             attached == AttachAbort(opened, r, c)
             placed == [attached EXCEPT !.at[c] = AfterCreate(c)]
  <2>1. /\ opened \in Worlds /\ opened.at = w.at /\ opened.pending[r] = entry
        /\ \A q \in Requests : q # r => opened.pending[q] = w.pending[q]
    BY <1>1, <1>2 DEF Worlds
  <2>2. [entry EXCEPT !.signals = entry.signals \cup {c}] \in Entries
    BY <1>2 DEF Entries
  <2> HIDE DEF opened, entry
  <2>3. /\ attached \in Worlds /\ attached.at = w.at
        /\ attached.pending[r] = [entry EXCEPT !.signals = signals]
        /\ \A q \in Requests : q # r => attached.pending[q] = w.pending[q]
    BY <1>2, <2>1, <2>2 DEF AttachAbort, Worlds, Entries
  <2>4. AfterCreate(c) \in Places
    BY DEF AfterCreate, Places
  <2> HIDE DEF attached, signals
  <2>5. /\ placed \in Worlds /\ placed.pending = attached.pending
        /\ \A d \in Callers : placed.at[d] = IF d = c THEN AfterCreate(c) ELSE w.at[d]
    BY <1>1, <2>3, <2>4 DEF Worlds
  <2>6. /\ placed.pending[r] \in Entries
        /\ placed.pending[r].status = "pending" /\ placed.pending[r].owner = entry.owner
        /\ placed.pending[r].settlers = entry.settlers
        /\ placed.pending[r].signals = signals /\ placed.pending[r].due = entry.due
    <3>1. placed.pending[r] = [entry EXCEPT !.signals = signals]
      BY <2>3, <2>5
    <3>2. placed.pending[r] \in Entries
      BY <2>5 DEF Worlds
    <3> QED
      BY <1>2, <3>1, <3>2 DEF Entries
  <2>7. v = IF Kind[c] = "app" THEN [placed EXCEPT !.pending[r].settlers = @ \cup {c}] ELSE placed
    BY DEF Asks, opened, attached
  <2> HIDE DEF placed, v
  <2>8. CASE Kind[c] # "app"
    BY <2>3, <2>5, <2>6, <2>7, <2>8
  <2>9. CASE Kind[c] = "app"
    <3> DEFINE answered == [placed.pending[r] EXCEPT
                              !.settlers = placed.pending[r].settlers \cup {c}]
    <3>1. /\ answered \in Entries
          /\ answered.status = "pending" /\ answered.owner = placed.pending[r].owner
          /\ answered.settlers = placed.pending[r].settlers \cup {c}
          /\ answered.signals = signals /\ answered.due = placed.pending[r].due
      BY <2>6 DEF Entries
    <3>2. v = [placed EXCEPT !.pending[r] = answered]
      BY <2>7, <2>9
    <3> HIDE DEF answered
    <3>3. /\ v \in Worlds /\ v.at = placed.at /\ v.pending[r] = answered
          /\ \A q \in Requests : q # r => v.pending[q] = placed.pending[q]
      BY <2>5, <3>1, <3>2 DEF Worlds
    <3>4. \A q \in Requests : q # r => v.pending[q] = w.pending[q]
      BY <2>3, <2>5, <3>3
    <3>5. \A d \in Callers : v.at[d] = IF d = c THEN AfterCreate(c) ELSE w.at[d]
      BY <2>5, <3>3
    <3>6. settlers = entry.settlers \cup {c}
      BY <2>9
    <3>7. /\ v.pending[r].status = "pending" /\ v.pending[r].owner = entry.owner
          /\ v.pending[r].settlers = settlers /\ v.pending[r].signals = signals
          /\ v.pending[r].due = entry.due
      BY <2>6, <3>1, <3>3, <3>6
    <3> QED
      BY <3>3, <3>4, <3>5, <3>7
  <2> QED
    BY <2>8, <2>9
<1>4. sq \in Asked /\ \A d \in Callers : sq[d] = IF d = c THEN r ELSE rq[d]
  BY <1>1 DEF Asked
<1>5. /\ AfterCreate(c) = "shown" => Kind[c] = "model"
      /\ AfterCreate(c) = "presenting" => Kind[c] = "cli"
      /\ AfterCreate(c) = "waiting" <=> Kind[c] = "app"
      /\ AfterCreate(c) # "allowed"
  BY <1>1 DEF AfterCreate
\* Nothing that is free or joined has a listener or a promise of an open request elsewhere.
<1>6. /\ \A d \in Callers : d \in entry.settlers =>
           /\ w.at[d] = "waiting" /\ rq[d] = r /\ Kind[d] # "model" /\ Kind[entry.owner] = Kind[d]
           /\ Kind[d] = "cli" => entry.owner = d
      /\ \A d \in Callers : d \in entry.signals => d \notin ab
      /\ \A d \in Callers : w.at[d] = "waiting" /\ rq[d] = r => d \in entry.settlers
      /\ w.pending[r].status # "gone"
      /\ \A d \in Callers : w.at[d] = "presenting" => rq[d] # r
  <2>1. CASE r \in Existing(w, c)
    <3>1. /\ entry = w.pending[r] /\ w.pending[r].status = "pending" /\ Kind[c] # "cli"
          /\ Kind[entry.owner] = Kind[c]
      BY <1>2, <2>1 DEF Existing
    <3> HIDE DEF entry
    <3>2. \A d \in Callers : d \in entry.settlers =>
           /\ w.at[d] = "waiting" /\ rq[d] = r /\ Kind[d] # "model" /\ Kind[entry.owner] = Kind[d]
           /\ Kind[d] = "cli" => entry.owner = d
      BY <1>1, <3>1 DEF Registered
    <3>3. \A d \in Callers : d \in entry.signals => d \notin ab
      BY <1>1, <3>1 DEF Attached
    <3>4. \A d \in Callers : w.at[d] = "waiting" /\ rq[d] = r => d \in entry.settlers
      BY <1>1, <3>1 DEF Registered
    <3>5. \A d \in Callers : w.at[d] = "presenting" => rq[d] # r
      <4>1. ASSUME NEW d \in Callers, w.at[d] = "presenting", rq[d] = r PROVE FALSE
        <5>1. Kind[d] = "cli" /\ (IsLive(w, r) => w.pending[r].owner = d)
          BY <1>1, <4>1 DEF Placed
        <5> QED
          BY <3>1, <5>1 DEF IsLive
      <4> QED
        BY <4>1
    <3> QED
      BY <3>1, <3>2, <3>3, <3>4, <3>5
  <2>2. CASE r \notin Existing(w, c)
    BY <1>1, <1>2, <2>2 DEF Registered, Placed, Bare, IsLive
  <2> QED
    BY <2>1, <2>2
<1> HIDE DEF v, sq, entry
<1>7. Bare(v)
  BY <1>1, <1>2, <1>3 DEF Bare, IsLive
<1>8. Registered(v, sq)
  BY <1>1, <1>2, <1>3, <1>4, <1>5, <1>6 DEF Registered
<1>9. Attached(v, ab)
  BY <1>1, <1>3, <1>6 DEF Attached, IsLive
<1>10. Placed(v, sq)
  BY <1>1, <1>2, <1>3, <1>4, <1>5, <1>6 DEF Placed, IsLive
<1>11. Quiet(w, v, rq, sq, r)
  <2>1. entry.status = w.pending[r].status \/ w.pending[r].status = "free"
    BY <1>1, <1>2
  <2> QED
    BY <1>2, <1>3, <1>4, <1>5, <2>1 DEF Quiet
<1> QED
  BY <1>1, <1>3, <1>4, <1>7, <1>8, <1>9, <1>10, <1>11 DEF Sound, v, sq

\* The caller of the command line waits for the request that was presented.
LEMMA WaitIsSound ==
  ASSUME NEW w, NEW rq, NEW ab, Sound(w, rq, ab), NEW c \in Callers, c \notin ab,
         w.at[c] = "presenting", w.pending[rq[c]].status = "pending"
  PROVE  LET r == rq[c]
             waits == AttachAbort([w EXCEPT !.pending[r].settlers = @ \cup {c},
                                            !.at[c] = "waiting"], r, c)
         IN  Sound(waits, rq, ab) /\ Quiet(w, waits, rq, rq, None)
<1> DEFINE r == rq[c]
           waited == [w EXCEPT !.pending[r].settlers = @ \cup {c}, !.at[c] = "waiting"]
           v == AttachAbort(waited, r, c)
           settled == [w.pending[r] EXCEPT !.settlers = w.pending[r].settlers \cup {c}]
           heard == [settled EXCEPT !.signals = settled.signals \cup {c}]
<1>1. w \in Worlds /\ rq \in Asked /\ ab \subseteq Callers
      /\ Bare(w) /\ Registered(w, rq) /\ Attached(w, ab) /\ Placed(w, rq)
  BY DEF Sound
<1>2. Kind[c] = "cli" /\ r \in Requests /\ w.pending[r].owner = c
  BY <1>1 DEF Placed, IsLive
<1> HIDE DEF r
<1>3. w.pending[r] \in Entries
  BY <1>1, <1>2 DEF Worlds
<1>4. /\ settled \in Entries /\ settled.settlers = w.pending[r].settlers \cup {c}
      /\ settled.status = "pending" /\ settled.owner = c
      /\ settled.signals = w.pending[r].signals
  BY <1>2, <1>3 DEF Entries, r
<1>5. /\ waited \in Worlds /\ waited.pending[r] = settled
      /\ \A q \in Requests : q # r => waited.pending[q] = w.pending[q]
      /\ \A d \in Callers : waited.at[d] = IF d = c THEN "waiting" ELSE w.at[d]
  <2> DEFINE joined == [w EXCEPT !.pending[r] = settled]
  <2>1. waited = [joined EXCEPT !.at[c] = "waiting"]
    OBVIOUS
  <2> HIDE DEF settled, waited
  <2>2. /\ joined \in Worlds /\ joined.pending[r] = settled /\ joined.at = w.at
        /\ \A q \in Requests : q # r => joined.pending[q] = w.pending[q]
    BY <1>1, <1>2, <1>4 DEF Worlds
  <2> HIDE DEF joined
  <2> QED
    BY <1>1, <2>1, <2>2 DEF Worlds, Places
<1>6. /\ heard \in Entries /\ heard.settlers = w.pending[r].settlers \cup {c}
      /\ heard.status = "pending" /\ heard.owner = c
      /\ heard.signals = w.pending[r].signals \cup {c}
  BY <1>4 DEF Entries
<1>7. v = [waited EXCEPT !.pending[r] = heard]
  BY <1>2, <1>5 DEF AttachAbort
<1> HIDE DEF v, heard, settled, waited
<1>9. /\ v \in Worlds /\ v.pending[r] = heard
      /\ \A q \in Requests : q # r => v.pending[q] = w.pending[q]
      /\ \A d \in Callers : v.at[d] = IF d = c THEN "waiting" ELSE w.at[d]
  BY <1>2, <1>5, <1>6, <1>7 DEF Worlds
<1>10. w.pending[r].status = "pending" /\ rq[c] = r
  BY DEF r
<1>11. Bare(v)
  BY <1>1, <1>6, <1>9 DEF Bare, IsLive
<1>12. Registered(v, rq)
  BY <1>1, <1>2, <1>6, <1>9, <1>10 DEF Registered
<1>13. Attached(v, ab)
  BY <1>1, <1>6, <1>9, <1>10 DEF Attached, IsLive
<1>14. Placed(v, rq)
  BY <1>1, <1>2, <1>6, <1>9, <1>10 DEF Placed, IsLive
<1>15. Quiet(w, v, rq, rq, None)
  <2>1. w.at[c] = "presenting"
    OBVIOUS
  <2> QED
    BY <1>6, <1>9, <1>10, <2>1 DEF Quiet
<1> QED
  BY <1>1, <1>9, <1>11, <1>12, <1>13, <1>14, <1>15 DEF Sound, v, waited, r

\* The time of an open request runs out; the signal of a caller without listeners is aborted.
LEMMA DueIsSound ==
  ASSUME NEW w, NEW rq, NEW ab, Sound(w, rq, ab), NEW r \in Live(w)
  PROVE  Sound([w EXCEPT !.pending[r].due = TRUE], rq, ab)
<1> DEFINE late == [w.pending[r] EXCEPT !.due = TRUE]
           v == [w EXCEPT !.pending[r].due = TRUE]
<1>1. w \in Worlds /\ rq \in Asked /\ ab \subseteq Callers
      /\ Bare(w) /\ Registered(w, rq) /\ Attached(w, ab) /\ Placed(w, rq)
  BY DEF Sound
<1>2. r \in Requests /\ IsLive(w, r)
  BY LiveIsOpen
<1>3. w.pending[r] \in Entries
  BY <1>1, <1>2 DEF Worlds
<1>4. /\ late \in Entries /\ late.settlers = w.pending[r].settlers
      /\ late.status = w.pending[r].status /\ late.owner = w.pending[r].owner
      /\ late.signals = w.pending[r].signals
  BY <1>3 DEF Entries
<1>5. v = [w EXCEPT !.pending[r] = late]
  OBVIOUS
<1> HIDE DEF late, v
<1>6. /\ v \in Worlds /\ v.pending[r] = late /\ v.at = w.at
      /\ \A q \in Requests : q # r => v.pending[q] = w.pending[q]
  BY <1>1, <1>2, <1>4, <1>5 DEF Worlds
<1>7. Bare(v)
  BY <1>1, <1>2, <1>4, <1>6 DEF Bare, IsLive
<1>8. Registered(v, rq)
  BY <1>1, <1>4, <1>6 DEF Registered
<1>9. Attached(v, ab)
  BY <1>1, <1>4, <1>6 DEF Attached, IsLive
<1>10. Placed(v, rq)
  BY <1>1, <1>4, <1>6 DEF Placed, IsLive
<1> QED
  BY <1>1, <1>6, <1>7, <1>8, <1>9, <1>10 DEF Sound, v

LEMMA DetachedMayAbort ==
  ASSUME NEW w, NEW rq, NEW ab, Sound(w, rq, ab), NEW c \in Callers,
         \A r \in Requests : c \notin w.pending[r].signals
  PROVE  Sound(w, rq, ab \cup {c})
BY DEF Sound, Attached

-----------------------------------------------------------------------------
(* Quiet steps.                                                            *)

LEMMA StandingStillIsQuiet == \A w, rq : Quiet(w, w, rq, rq, None)
BY DEF Quiet

LEMMA QuietThenQuiet ==
  ASSUME NEW w, NEW v, NEW u, NEW rq, NEW sq, NEW o,
         Quiet(w, v, rq, rq, None), Quiet(v, u, rq, sq, o), None \notin Requests
  PROVE  Quiet(w, u, rq, sq, o)
BY DEF Quiet

LEMMA RefuseIsQuiet ==
  ASSUME NEW w, NEW rq, NEW ab, Sound(w, rq, ab), NEW R \in SUBSET Requests,
         \A r \in R : w.pending[r].status # "gone"
  PROVE  Quiet(w, Refuse(w, R), rq, rq, None)
<1>1. w \in Worlds /\ Registered(w, rq) /\ \A r \in Requests : w.pending[r] \in Entries
  BY DEF Sound, Worlds
<1>2. /\ \A r \in R : Refuse(w, R).pending[r].status = "gone"
      /\ \A r \in Requests \ R : Refuse(w, R).pending[r] = w.pending[r]
      /\ \A c \in Callers :
           Refuse(w, R).at[c] = IF \E r \in R : c \in w.pending[r].settlers THEN "refused"
                                ELSE w.at[c]
  BY <1>1, RefuseFields, GoneEntry
<1> QED
  BY <1>1, <1>2 DEF Quiet, Registered

LEMMA PruneIsQuiet ==
  ASSUME NEW w, NEW rq, NEW ab, Sound(w, rq, ab)
  PROVE  Quiet(w, PruneExpired(w), rq, rq, None)
BY RefuseIsQuiet DEF PruneExpired, Live

\* What follows a pruning is lawful if it is lawful from the pruned world.
LEMMA PruneThenLawful ==
  ASSUME NEW w, NEW v, NEW rq, NEW sq, NEW ab, Sound(w, rq, ab),
         Lawful(PruneExpired(w), v, rq, sq)
  PROVE  Lawful(w, v, rq, sq)
<1> DEFINE p == PruneExpired(w)
<1>1. Quiet(w, p, rq, rq, None) /\ None \notin Requests
  BY PruneIsQuiet, CallersAssumption
<1>2. \A r \in Requests : p.pending[r] = w.pending[r] \/ p.pending[r].status = "gone"
  BY PruneIsSound
<1> HIDE DEF p
<1>3. ASSUME NEW o \in Requests \cup {None}, Quiet(p, v, rq, sq, o)
      PROVE  Quiet(w, v, rq, sq, o)
  BY <1>1, <1>3, QuietThenQuiet
<1>4. ASSUME NEW g \in Requests, NEW P \in SUBSET Callers, Granted(p, v, rq, sq, g, P)
      PROVE  Granted(w, v, rq, sq, g, P)
  BY <1>1, <1>2, <1>4 DEF Quiet, Granted
<1> QED
  BY <1>3, <1>4 DEF Lawful, p

-----------------------------------------------------------------------------
(* The steps.                                                              *)

\* What each step keeps and does.
Kept == BrokerInv' /\ Lawful(World, World', req, req')

\* A step whose world is sound and lawful keeps the invariant.
LEMMA StepTo ==
  ASSUME NEW v, Becomes(v), Sound(v, req', aborted'), Lawful(World, v, req, req')
  PROVE  Kept
<1>1. v \in Worlds
  BY DEF Sound
<1>2. World' = v
  BY <1>1 DEF Becomes, World, Worlds
<1> QED
  BY <1>2 DEF Kept, BrokerInv

LEMMA PrunedWorld ==
  ASSUME BrokerInv
  PROVE  Sound(World, req, aborted) /\ Sound(PruneExpired(World), req, aborted)
         /\ World.at = at /\ World.pending = pending
BY PruneIsSound DEF BrokerInv, World

\* create, from a pruned world.
LEMMA CreateInStep ==
  ASSUME BrokerInv, NEW c \in Callers, at[c] \in {"out", "shown"}, c \notin aborted,
         CreateIn(PruneExpired(World), c), aborted' = aborted
  PROVE  Kept
<1> DEFINE w == PruneExpired(World)
<1>1. /\ Sound(World, req, aborted) /\ Sound(w, req, aborted)
      /\ w.at[c] \in {"out", "shown"} /\ req \in Asked
  <2>1. World.at[c] # "waiting"
    BY DEF World
  <2> QED
    BY <2>1, PrunedWorld, PruneIsSound DEF Sound
<1>2. ASSUME NEW v, NEW o \in Requests \cup {None}, Quiet(w, v, req, req', o)
      PROVE  Lawful(World, v, req, req')
  BY <1>1, <1>2, PruneThenLawful DEF Lawful
<1> HIDE DEF w
<1>3. CASE Existing(w, c) = {} /\ Cardinality(InScope(w, Scope[c])) >= MaxPending
  <2> DEFINE v == [w EXCEPT !.at[c] = "refused"]
  <2>1. Becomes(v) /\ req' = req
    BY <1>3 DEF CreateIn, w
  <2>2. Sound(v, req, aborted)
    BY <1>1, LeaveIsSound
  <2>3. Quiet(w, v, req, req, None)
    BY <1>1 DEF Quiet, Sound, Worlds
  <2> HIDE DEF v
  <2> QED
    BY <1>2, <2>1, <2>2, <2>3, StepTo
<1>4. CASE ~(Existing(w, c) = {} /\ Cardinality(InScope(w, Scope[c])) >= MaxPending)
  <2>1. PICK r \in IF Existing(w, c) # {} THEN Existing(w, c) ELSE NewIds(w) :
          Becomes(Asks(w, c, r)) /\ req' = [req EXCEPT ![c] = r]
    BY <1>4 DEF CreateIn, w
  <2>2. r \in Requests /\ (r \in Existing(w, c) \/ w.pending[r].status = "free")
    BY DEF Existing, NewIds
  <2>3. Sound(Asks(w, c, r), req', aborted) /\ Quiet(w, Asks(w, c, r), req, req', r)
    BY <1>1, <2>1, <2>2, AskIsSound
  <2> QED
    BY <1>2, <2>1, <2>2, <2>3, StepTo
<1> QED
  BY <1>3, <1>4

\* A refusal of open requests after a pruning, or without one, is a step.
LEMMA RefusalStep ==
  ASSUME BrokerInv, NEW w, w \in {World, PruneExpired(World)}, UNCHANGED <<req, aborted>>,
         NEW R \in SUBSET Live(w), Becomes(Refuse(w, R))
  PROVE  Kept
<1>1. R \in SUBSET Requests /\ \A r \in R : w.pending[r].status # "gone"
  BY DEF Live
<1>2. Sound(World, req, aborted) /\ Sound(w, req, aborted)
  BY PrunedWorld
<1>3. Sound(Refuse(w, R), req', aborted') /\ Quiet(w, Refuse(w, R), req, req', None)
  BY <1>1, <1>2, RefuseIsSound, RefuseIsQuiet
<1>4. Lawful(World, Refuse(w, R), req, req')
  BY <1>2, <1>3, PruneThenLawful DEF Lawful
<1> QED
  BY <1>3, <1>4, StepTo

\* requestAppDecision that cannot show the request.
LEMMA UnshownStep ==
  ASSUME BrokerInv, NEW c \in Callers, CreateUnshown(c)
  PROVE  Kept
<1> DEFINE w == PruneExpired(World)
<1>1. /\ Sound(World, req, aborted) /\ Sound(w, req, aborted)
      /\ w.at[c] = "out" /\ Kind[c] = "app" /\ aborted' = aborted
  <2>1. World.at[c] = "out"
    BY DEF World, CreateUnshown
  <2> QED
    BY <2>1, PrunedWorld, PruneIsSound DEF CreateUnshown
<1>2. PICK r \in IF Existing(w, c) # {} THEN Existing(w, c) ELSE NewIds(w) :
        Becomes(Refuse(Asks(w, c, r), {r})) /\ req' = [req EXCEPT ![c] = r]
  BY DEF CreateUnshown
<1> HIDE DEF w
<1>3. r \in Requests /\ (r \in Existing(w, c) \/ w.pending[r].status = "free")
  BY DEF Existing, NewIds
<1> DEFINE a == Asks(w, c, r)
           v == Refuse(a, {r})
<1>4. Sound(a, req', aborted) /\ Quiet(w, a, req, req', r)
  BY <1>1, <1>2, <1>3, AskIsSound
<1>5. Sound(v, req', aborted)
  BY <1>3, <1>4, RefuseIsSound
<1>6. Quiet(w, v, req, req', None)
  <2>1. a.pending[r].status = "pending" /\ w.pending[r].status # "gone"
    BY <1>1, <1>3, AskIsSound DEF Existing
  <2>2. Quiet(a, v, req', req', None)
    BY <1>3, <1>4, <2>1, RefuseIsQuiet
  <2>3. v.pending[r].status = "gone"
    BY <1>3, <1>4, RefuseFields, GoneEntry DEF Sound, Worlds
  <2> HIDE DEF a, v
  <2> QED
    BY <1>3, <1>4, <2>1, <2>2, <2>3, CallersAssumption DEF Quiet
<1>7. Lawful(World, v, req, req')
  BY <1>1, <1>6, PruneThenLawful DEF Lawful, w
<1> QED
  BY <1>1, <1>2, <1>5, <1>7, StepTo

LEMMA AuthorizeStep ==
  ASSUME BrokerInv, NEW c \in Callers, AuthorizeExecution(c)
  PROVE  Kept
<1> DEFINE w == PruneExpired(World)
           approved == {r \in Requests : /\ w.pending[r].status = "approved"
                                         /\ SameBinding(w.pending[r].owner, c)}
<1>1. CASE approved = {}
  BY <1>1, CreateInStep DEF AuthorizeExecution
<1>2. CASE approved # {}
  <2>1. PICK r \in approved :
          /\ Becomes(DeletePending([w EXCEPT !.at[c] = "allowed"], r))
          /\ req' = [req EXCEPT ![c] = r] /\ aborted' = aborted
    BY <1>2 DEF AuthorizeExecution
  <2>2. World.at[c] = "shown"
    BY DEF World, AuthorizeExecution
  <2>3. /\ Sound(World, req, aborted) /\ Sound(w, req, aborted)
        /\ w.at[c] = "shown" /\ ~w.pending[r].due
    BY <2>2, PrunedWorld, PruneIsSound DEF Live
  <2> DEFINE v == DeletePending([w EXCEPT !.at[c] = "allowed"], r)
  <2> HIDE DEF w
  <2>4. Sound(v, req', aborted') /\ Granted(w, v, req, req', r, {c})
    BY <2>1, <2>3, PassIsSound
  <2>5. Lawful(World, v, req, req')
    BY <2>3, <2>4, PruneThenLawful DEF Lawful, w
  <2> QED
    BY <2>1, <2>4, <2>5, StepTo
<1> QED
  BY <1>1, <1>2

\* wait, after the request was presented.
LEMMA WaitStep ==
  ASSUME BrokerInv, NEW c \in Callers, Wait(c)
  PROVE  Kept
<1> DEFINE w == PruneExpired(World)
           r == req[c]
           left == [w EXCEPT !.at[c] = "refused"]
<1>1. World.at[c] = "presenting" /\ UNCHANGED <<req, aborted>>
  BY DEF World, Wait
<1>2. Sound(World, req, aborted) /\ Sound(w, req, aborted) /\ w.at[c] = "presenting"
  BY <1>1, PrunedWorld, PruneIsSound
<1>3. r \in Requests
  BY <1>2 DEF Sound, Placed
<1>4. /\ r \in Live(w) <=> w.pending[r].status \in {"pending", "approved"}
      /\ r \in Live(w) => ~w.pending[r].due
  BY <1>2, <1>3, PrunedWorld, PruneIsSound DEF Live
<1>5. Sound(left, req, aborted) /\ Quiet(w, left, req, req, None)
  <2>1. Sound(left, req, aborted)
    BY <1>2, LeaveIsSound
  <2>2. /\ left.pending = w.pending
        /\ \A d \in Callers : left.at[d] = IF d = c THEN "refused" ELSE w.at[d]
    BY <1>2 DEF Sound, Worlds
  <2> QED
    BY <1>2, <2>1, <2>2 DEF Quiet
<1>6. ASSUME NEW v, Becomes(v), Sound(v, req, aborted),
             \/ Quiet(w, v, req, req, None)
             \/ \E P \in SUBSET Callers : Granted(w, v, req, req, r, P)
      PROVE  Kept
  BY <1>1, <1>2, <1>3, <1>6, PruneThenLawful, StepTo DEF Lawful
<1> DEFINE passed == DeletePending([w EXCEPT !.at[c] = "allowed"], r)
           waits == AttachAbort([w EXCEPT !.pending[r].settlers = @ \cup {c}, !.at[c] = "waiting"],
                                r, c)
<1>7. \/ r \notin Live(w) /\ Becomes(left)
      \/ r \in Live(w) /\ Becomes(Refuse(left, {r}))
      \/ w.pending[r].status = "approved" /\ Becomes(passed)
      \/ w.pending[r].status = "pending" /\ c \notin aborted /\ Becomes(waits)
  <2> HIDE DEF left, passed, waits
  <2>1. CASE r \notin Live(w)
    BY <1>4, <2>1 DEF Wait, left
  <2>2. CASE r \in Live(w) /\ c \in aborted
    BY <1>4, <2>2 DEF Wait, left
  <2>3. CASE w.pending[r].status = "approved" /\ c \notin aborted
    BY <1>4, <2>3 DEF Wait, passed
  <2>4. CASE w.pending[r].status = "pending" /\ c \notin aborted
    BY <1>4, <2>4 DEF Wait, waits
  <2> QED
    BY <1>4, <2>1, <2>2, <2>3, <2>4
<1> HIDE DEF w
<1>8. CASE r \notin Live(w) /\ Becomes(left)
  BY <1>5, <1>6, <1>8
<1>9. CASE r \in Live(w) /\ Becomes(Refuse(left, {r}))
  <2>1. left.pending[r].status # "gone"
    BY <1>2, <1>4, <1>9 DEF Sound, Worlds
  <2> HIDE DEF left
  <2>2. /\ Sound(Refuse(left, {r}), req, aborted)
        /\ Quiet(left, Refuse(left, {r}), req, req, None)
    BY <1>3, <1>5, <2>1, RefuseIsSound, RefuseIsQuiet
  <2>3. Quiet(w, Refuse(left, {r}), req, req, None)
    BY <1>5, <2>2, QuietThenQuiet, CallersAssumption
  <2> QED
    BY <1>6, <1>9, <2>2, <2>3
<1>10. CASE w.pending[r].status = "approved" /\ Becomes(passed)
  <2>1. [req EXCEPT ![c] = r] = req
    BY <1>2 DEF Sound, Asked
  <2>2. Sound(passed, req, aborted) /\ Granted(w, passed, req, req, r, {c})
    BY <1>2, <1>3, <1>4, <1>10, <2>1, PassIsSound
  <2> HIDE DEF passed
  <2> QED
    BY <1>6, <1>10, <2>2
<1>11. CASE w.pending[r].status = "pending" /\ c \notin aborted /\ Becomes(waits)
  <2>1. Sound(waits, req, aborted) /\ Quiet(w, waits, req, req, None)
    BY <1>2, <1>11, WaitIsSound
  <2> HIDE DEF waits
  <2> QED
    BY <1>6, <1>11, <2>1
<1> QED
  BY <1>7, <1>8, <1>9, <1>10, <1>11

LEMMA PresentFailsStep ==
  ASSUME BrokerInv, NEW c \in Callers, PresentFails(c)
  PROVE  Kept
<1> DEFINE w == PruneExpired(World)
           left == [w EXCEPT !.at[c] = "refused"]
           R == {req[c]} \cap Live(w)
<1>1. World.at[c] = "presenting" /\ UNCHANGED <<req, aborted>> /\ Becomes(Refuse(left, R))
  BY DEF World, PresentFails
<1>2. Sound(World, req, aborted) /\ Sound(w, req, aborted) /\ w.at[c] = "presenting"
  BY <1>1, PrunedWorld, PruneIsSound
<1> HIDE DEF w
<1>3. /\ left.pending = w.pending
      /\ \A d \in Callers : left.at[d] = IF d = c THEN "refused" ELSE w.at[d]
  BY <1>2 DEF Sound, Worlds
<1>4. Sound(left, req, aborted) /\ Quiet(w, left, req, req, None)
  BY <1>2, <1>3, LeaveIsSound DEF Quiet
<1>5. R \in SUBSET Requests /\ \A r \in R : left.pending[r].status # "gone"
  BY <1>3 DEF Live
<1> HIDE DEF left, R
<1>6. Sound(Refuse(left, R), req, aborted) /\ Quiet(left, Refuse(left, R), req, req, None)
  BY <1>4, <1>5, RefuseIsSound, RefuseIsQuiet
<1>7. Quiet(w, Refuse(left, R), req, req, None)
  BY <1>4, <1>6, QuietThenQuiet, CallersAssumption
<1>8. Lawful(World, Refuse(left, R), req, req')
  BY <1>1, <1>2, <1>7, PruneThenLawful DEF Lawful, w
<1> QED
  BY <1>1, <1>6, <1>8, StepTo

\* resolve, approved: the waiting callers pass, or the approval is kept for one.
LEMMA ApproveStep ==
  ASSUME BrokerInv, NEW r \in Requests, ResolveApproved(r)
  PROVE  Kept
<1> DEFINE w == PruneExpired(World)
           settled == Settle(w, r, "allowed")
           spent == DeletePending(settled, r)
           stays == [settled EXCEPT !.pending[r].status = "approved"]
<1>1. UNCHANGED <<req, aborted>> /\ Sound(World, req, aborted) /\ Sound(w, req, aborted)
  BY PrunedWorld DEF ResolveApproved
<1>2. w.pending[r].status = "pending" => ~w.pending[r].due
  BY <1>1, PruneIsSound DEF Live
<1>3. ASSUME NEW v, Becomes(v), Sound(v, req, aborted), Lawful(w, v, req, req)
      PROVE  Kept
  BY <1>1, <1>3, PruneThenLawful, StepTo
<1>4. CASE w.pending[r].status # "pending"
  <2>1. Becomes(w)
    BY <1>4 DEF ResolveApproved
  <2>2. Lawful(w, w, req, req)
    BY StandingStillIsQuiet DEF Lawful
  <2> HIDE DEF w
  <2> QED
    BY <1>1, <1>3, <2>1, <2>2
<1>5. CASE w.pending[r].status = "pending" /\ w.pending[r].settlers # {}
  <2>1. /\ Kind[w.pending[r].owner] # "model" /\ Sound(spent, req, aborted)
        /\ Granted(w, spent, req, req, r, w.pending[r].settlers)
    BY <1>1, <1>2, <1>5, ApproveIsSound
  <2>2. Becomes(spent)
    BY <1>5, <2>1 DEF ResolveApproved
  <2>3. Lawful(w, spent, req, req)
    <3>1. w.pending[r].settlers \in SUBSET Callers
      BY <1>1 DEF Sound, Worlds, Entries
    <3> HIDE DEF w, spent
    <3> QED
      BY <2>1, <3>1 DEF Lawful
  <2> HIDE DEF w, spent
  <2> QED
    BY <1>3, <2>1, <2>2, <2>3
<1>6. CASE w.pending[r].status = "pending" /\ w.pending[r].settlers = {}
  <2>1. Sound(stays, req, aborted) /\ Granted(w, stays, req, req, r, {})
    BY <1>1, <1>2, <1>6, ApproveIsSound
  <2>2. Becomes(stays)
    BY <1>6 DEF ResolveApproved
  <2> HIDE DEF w, stays
  <2>3. Lawful(w, stays, req, req)
    BY <2>1 DEF Lawful
  <2> QED
    BY <1>3, <2>1, <2>2, <2>3
<1> QED
  BY <1>4, <1>5, <1>6

\* An abort detaches the caller from every request, and refuses it if it does not wait.
LEMMA AbortStep ==
  ASSUME BrokerInv, NEW c \in Callers, Abort(c)
  PROVE  Kept
<1> DEFINE attached == {r \in Live(World) : c \in pending[r].signals}
           w == IF attached = {} THEN World ELSE PruneExpired(World)
           v == Refuse(w, attached \cap Live(w))
           left == [v EXCEPT !.at[c] = "refused"]
<1>1. /\ Sound(World, req, aborted) /\ Sound(w, req, aborted) /\ w \in {World, PruneExpired(World)}
      /\ World.at = at /\ World.pending = pending
  BY PrunedWorld
<1>2. /\ \A r \in Requests : w.pending[r] = pending[r] \/ w.pending[r].status = "gone"
      /\ \A d \in Callers : at[d] # "waiting" => w.at[d] = at[d]
  BY <1>1, PruneIsSound
<1>3. aborted' = aborted \cup {c} /\ req' = req
      /\ Becomes(IF at[c] = "shown" THEN left ELSE v)
  BY DEF Abort
<1>4. \A r \in Requests : c \in w.pending[r].signals => r \in attached \cap Live(w)
  BY <1>1, <1>2 DEF Sound, Bare, Live, IsLive
<1>5. attached \cap Live(w) \in SUBSET Requests
      /\ \A r \in attached \cap Live(w) : w.pending[r].status # "gone"
  BY DEF Live
<1> HIDE DEF w, attached
<1>6. Sound(v, req, aborted) /\ Quiet(w, v, req, req, None)
  BY <1>1, <1>5, RefuseIsSound, RefuseIsQuiet
<1>7. \A r \in Requests : c \notin v.pending[r].signals
  BY <1>1, <1>4, <1>5, RefuseFields, GoneEntry DEF Sound, Worlds
<1>8. Sound(v, req, aborted')
  BY <1>3, <1>6, <1>7, DetachedMayAbort
<1>9. ASSUME NEW u, Quiet(w, u, req, req, None) PROVE Lawful(World, u, req, req')
  BY <1>1, <1>3, <1>9, PruneThenLawful DEF Lawful
<1>10. CASE at[c] # "shown"
  BY <1>3, <1>6, <1>8, <1>9, <1>10, StepTo
<1>11. CASE at[c] = "shown"
  <2>1. v.at[c] = "shown"
    <3>1. w.at[c] = "shown"
      BY <1>2, <1>11
    <3> QED
      BY <1>1, <1>5, <3>1, RefuseFields DEF Sound, Registered
  <2> HIDE DEF v
  <2>2. /\ left.pending = v.pending
        /\ \A d \in Callers : left.at[d] = IF d = c THEN "refused" ELSE v.at[d]
    BY <1>8 DEF Sound, Worlds
  <2>3. Sound(left, req', aborted') /\ Quiet(v, left, req, req, None)
    BY <1>3, <1>8, <2>1, <2>2, LeaveIsSound DEF Quiet
  <2>4. Quiet(w, left, req, req, None)
    BY <1>6, <2>3, QuietThenQuiet, CallersAssumption
  <2>5. Becomes(left)
    BY <1>3, <1>11
  <2> HIDE DEF left
  <2> QED
    BY <1>9, <2>3, <2>4, <2>5, StepTo
<1> QED
  BY <1>10, <1>11

LEMMA TimePassesStep ==
  ASSUME BrokerInv, NEW r \in Requests, TimePasses(r)
  PROVE  Kept
<1> DEFINE v == [World EXCEPT !.pending[r].due = TRUE]
<1>1. Sound(World, req, aborted) /\ r \in Live(World) /\ UNCHANGED <<req, aborted>>
  BY PrunedWorld DEF TimePasses
<1>2. Sound(v, req', aborted')
  BY <1>1, DueIsSound
<1>3. Becomes(v)
  BY DEF TimePasses, Becomes, World
<1>4. /\ v.at = World.at
      /\ \A q \in Requests : v.pending[q].status = World.pending[q].status
  BY <1>1 DEF Sound, Worlds, Entries
<1>5. Lawful(World, v, req, req')
  BY <1>1, <1>4 DEF Quiet, Lawful
<1> QED
  BY <1>2, <1>3, <1>5, StepTo

LEMMA RefusalsStep ==
  ASSUME BrokerInv,
         \/ \E r \in Requests : ResolveDenied(r) \/ Expire(r)
         \/ \E c \in Callers : CancelScope(Scope[c])
         \/ \E kinds \in {{"model", "app"}, {"cli"}, {"model", "app", "cli"}} : ClearMatching(kinds)
  PROVE  Kept
<1>1. ASSUME NEW r \in Requests, ResolveDenied(r) PROVE Kept
  BY <1>1, RefusalStep DEF ResolveDenied
<1>2. ASSUME NEW r \in Requests, Expire(r) PROVE Kept
  BY <1>2, RefusalStep DEF Expire
<1>3. ASSUME NEW c \in Callers, CancelScope(Scope[c]) PROVE Kept
  <2> DEFINE w == IF InScope(World, Scope[c]) = {} THEN World ELSE PruneExpired(World)
  <2>1. w \in {World, PruneExpired(World)} /\ InScope(w, Scope[c]) \in SUBSET Live(w)
    BY DEF InScope
  <2>2. Becomes(Refuse(w, InScope(w, Scope[c]))) /\ UNCHANGED <<req, aborted>>
    BY <1>3 DEF CancelScope
  <2> HIDE DEF w
  <2> QED
    BY <2>1, <2>2, RefusalStep
<1>4. ASSUME NEW kinds, ClearMatching(kinds) PROVE Kept
  BY <1>4, RefusalStep DEF ClearMatching
<1> QED
  BY <1>1, <1>2, <1>3, <1>4

LEMMA BrokerInvInit == Init => BrokerInv
<1> SUFFICES ASSUME Init PROVE BrokerInv
  OBVIOUS
<1>1. World \in Worlds /\ req \in Asked /\ aborted \subseteq Callers
  BY FreeEntry DEF Init, World, Worlds, Places, Asked
<1>2. Bare(World) /\ Attached(World, aborted)
  BY DEF Init, World, Bare, Attached, IsLive, Free
<1>3. Registered(World, req) /\ Placed(World, req)
  BY DEF Init, World, Registered, Placed, Free
<1> QED
  BY <1>1, <1>2, <1>3 DEF BrokerInv, Sound

LEMMA EveryStep == ASSUME BrokerInv, [Next]_vars PROVE Kept
<1>1. ASSUME NEW c \in Callers, Create(c) PROVE Kept
  BY <1>1, CreateInStep DEF Create
<1>2. CASE UNCHANGED vars
  <2>1. World' = World /\ req' = req /\ aborted' = aborted
    BY <1>2 DEF vars, World
  <2> QED
    BY <2>1, StandingStillIsQuiet DEF Kept, BrokerInv, Lawful
<1> QED
  BY <1>1, <1>2, UnshownStep, AuthorizeStep, WaitStep, PresentFailsStep, AbortStep, ApproveStep,
     TimePassesStep, RefusalsStep DEF Next

-----------------------------------------------------------------------------
(* The theorems.                                                           *)

LEMMA AlwaysKept == Spec => []BrokerInv /\ [][Kept]_vars
<1>1. Spec => []BrokerInv
  <2>1. BrokerInv /\ [Next]_vars => BrokerInv'
    BY EveryStep DEF Kept
  <2> QED
    BY <2>1, BrokerInvInit, PTL DEF Spec
<1>2. BrokerInv /\ [Next]_vars => [Kept]_vars
  BY EveryStep
<1> QED
  BY <1>1, <1>2, PTL DEF Spec

\* Requests and callers agree (approvalBroker.ts:120): through approvals, denials, aborts, time
\* limits and resets in any order every caller that waits is registered at an open request
\* that is its own, and who was aborted is attached to nothing.
THEOREM RequestsAndCallersAgree == Spec => []Consistent
<1>1. BrokerInv => Consistent
  <2> SUFFICES ASSUME BrokerInv PROVE Consistent
    OBVIOUS
  <2>1. /\ World \in Worlds /\ req \in Asked /\ aborted \subseteq Callers
        /\ Bare(World) /\ Registered(World, req) /\ Attached(World, aborted)
        /\ World.pending = pending /\ World.at = at
    BY DEF BrokerInv, Sound, World
  <2>2. TypeOK
    <3>1. /\ pending \in [Requests -> Entries] /\ at \in [Callers -> Places]
          /\ req \in [Callers -> Requests \cup {None}] /\ aborted \subseteq Callers
      BY <2>1 DEF Worlds, Asked
    <3>2. \A r \in Requests : pending[r].status \in {"free", "gone"} =>
            pending[r].settlers = {} /\ pending[r].signals = {} /\ ~pending[r].due
      BY <2>1 DEF Bare, IsLive
    <3> QED
      BY <3>1, <3>2 DEF TypeOK, Entries, Places
  <2>3. WaitersAreRegistered
    BY <2>1 DEF WaitersAreRegistered, Registered
  <2>4. AbortedIsDetached
    BY <2>1, LiveIsOpen DEF AbortedIsDetached, Attached
  <2> QED
    BY <2>2, <2>3, <2>4 DEF Consistent
<1> QED
  BY <1>1, AlwaysKept, PTL

\* Approvals do not outlive their time (approvalBroker.ts:326): nobody passes by a request that
\* is due, however late its timer is.
THEOREM LateApprovalsAreVoid == Spec => NoLateGrant
<1>1. ASSUME [Kept]_vars, NEW c \in Callers, at[c] # "allowed", at'[c] = "allowed"
      PROVE  ~pending[req'[c]].due
  <2>1. Lawful(World, World', req, req')
    BY <1>1 DEF Kept, vars
  <2>2. World.at = at /\ World'.at = at' /\ World.pending = pending
    BY DEF World
  <2>3. PICK g \in Requests, P \in SUBSET Callers : Granted(World, World', req, req', g, P)
    BY <1>1, <2>1, <2>2 DEF Lawful, Quiet
  <2> QED
    BY <1>1, <2>2, <2>3 DEF Granted
<1>2. [Kept]_vars => [\A c \in Callers :
        at[c] # "allowed" /\ at'[c] = "allowed" => ~pending[req'[c]].due]_vars
  BY <1>1
<1> QED
  BY <1>2, AlwaysKept, PTL DEF NoLateGrant

-----------------------------------------------------------------------------
(* The broker implements the one-shot approval: its map and its callers,   *)
(* seen as what was asked, approved or closed and who passed.              *)

Seen(s) == CASE s = "free" -> "none" [] s = "pending" -> "asked" [] s = "approved" -> "approved"
             [] OTHER -> "closed"

LEMMA WhatIsSeen ==
  /\ \A r \in Requests : Status[r] = Seen(pending[r].status)
  /\ \A r \in Requests : Status'[r] = Seen(pending'[r].status)
BY DEF Status, Seen

LEMMA StatusIsFunction == Status' = [r \in Requests |-> Status'[r]]
BY DEF Status

LEMMA InitIsPromised == Init => Promise!ApprovalInit
<1> SUFFICES ASSUME Init PROVE Promise!ApprovalInit
  OBVIOUS
<1>1. Status = [r \in Requests |-> "none"]
  BY DEF Init, Free, Status
<1>2. Passed = [r \in Requests |-> {}]
  BY DEF Init, Passed
<1> QED
  BY <1>1, <1>2 DEF Promise!ApprovalInit

\* Requests that are closed, or one that is opened.
LEMMA QuietIsPromised ==
  ASSUME BrokerInv, BrokerInv', NEW o \in Requests \cup {None}, Quiet(World, World', req, req', o)
  PROVE  Promise!ApprovalNext
<1> DEFINE R == {r \in Requests : Status[r] # "closed" /\ Status'[r] = "closed"}
           new == {r \in Requests : Status[r] = "none" /\ Status'[r] = "asked"}
<1>1. /\ \A r \in Requests : pending[r].status \in {"free", "pending", "approved", "gone"}
      /\ \A r \in Requests : pending'[r].status \in {"free", "pending", "approved", "gone"}
  BY DEF BrokerInv, Sound, Worlds, Entries, World
<1>2. \A r \in Requests :
        \/ pending'[r].status = pending[r].status
        \/ pending'[r].status = "gone" /\ pending[r].status # "gone"
        \/ r = o /\ pending[r].status = "free" /\ pending'[r].status = "pending"
  BY DEF Quiet, World
<1>3. new \in {{}} \cup {{r} : r \in Requests}
  <2>1. new \subseteq {o}
    BY <1>1, <1>2, WhatIsSeen DEF Seen
  <2> QED
    BY <2>1
<1>4. Status' = [r \in Requests |-> IF r \in R THEN "closed"
                                    ELSE IF r \in new THEN "asked" ELSE Status[r]]
  <2>1. \A r \in Requests : Status'[r] = IF r \in R THEN "closed"
                                         ELSE IF r \in new THEN "asked" ELSE Status[r]
    BY <1>1, <1>2, WhatIsSeen DEF Seen
  <2> HIDE DEF R, new
  <2> QED
    BY <2>1, StatusIsFunction
<1>5. Passed' = Passed
  BY DEF Quiet, World, Passed
<1>6. R \in SUBSET {r \in Requests : Status[r] # "closed"}
  OBVIOUS
<1>7. Promise!Refuse(R, new)
  BY <1>4, <1>5 DEF Promise!Refuse
<1> HIDE DEF R, new
<1> QED
  BY <1>3, <1>6, <1>7 DEF Promise!ApprovalNext

\* A request that lets callers pass.
LEMMA GrantIsPromised ==
  ASSUME BrokerInv, BrokerInv', NEW g \in Requests, NEW P \in SUBSET Callers,
         Granted(World, World', req, req', g, P)
  PROVE  Promise!ApprovalNext
<1> DEFINE R == {r \in Requests \ {g} : Status[r] # "closed" /\ Status'[r] = "closed"}
<1>1. /\ \A r \in Requests : pending[r].status \in {"free", "pending", "approved", "gone"}
      /\ \A r \in Requests : pending'[r].status \in {"free", "pending", "approved", "gone"}
  BY DEF BrokerInv, Sound, Worlds, Entries, World
<1>2. \A r \in Requests \ {g} :
        \/ pending'[r].status = pending[r].status
        \/ pending'[r].status = "gone" /\ pending[r].status # "gone"
  BY DEF Granted, World
<1>3. /\ \A c \in Callers : /\ at'[c] = "allowed" <=> at[c] = "allowed" \/ c \in P
                            /\ at[c] = "allowed" => c \notin P /\ req'[c] = req[c]
                            /\ c \in P => req'[c] = g
      /\ \A c \in Callers : at[c] = "allowed" => req[c] # g
  BY DEF Granted, World, BrokerInv, Sound, Placed
<1>4. Passed' = [Passed EXCEPT ![g] = P]
  <2>1. \A r \in Requests : {c \in Callers : at'[c] = "allowed" /\ req'[c] = r}
          = IF r = g THEN P ELSE {c \in Callers : at[c] = "allowed" /\ req[c] = r}
    BY <1>3
  <2> QED
    BY <2>1 DEF Passed
<1>5. \A r \in Requests \ {g} : Status'[r] = IF r \in R THEN "closed" ELSE Status[r]
  BY <1>1, <1>2, WhatIsSeen DEF Seen
<1>6. R \in SUBSET {r \in Requests : Status[r] # "closed"} /\ g \in Requests \ R
  OBVIOUS
<1> HIDE DEF R
<1>7. ASSUME pending[g].status = "pending",
             pending'[g].status = IF P = {} THEN "approved" ELSE "gone",
             P \subseteq {c \in Callers : Kind[c] = "app"} \/ \E c \in P : P = {c}
      PROVE  Promise!Approve(R, g)
  <2>1. Status[g] = "asked" /\ Status'[g] = IF P = {} THEN "approved" ELSE "closed"
    BY <1>7, WhatIsSeen DEF Seen
  <2>2. P \subseteq {c \in Callers : Kind[c] = "app"} \/ \A c, d \in P : c = d
    BY <1>7
  <2>3. Status' = [q \in Requests |-> IF q = g THEN IF P = {} THEN "approved" ELSE "closed"
                                      ELSE IF q \in R THEN "closed" ELSE Status[q]]
    BY <1>5, <2>1, StatusIsFunction
  <2>4. P \in SUBSET Callers
    OBVIOUS
  <2> QED
    BY <1>4, <2>1, <2>2, <2>3, <2>4 DEF Promise!Approve
<1>8. ASSUME pending[g].status = "approved", pending'[g].status = "gone", NEW c \in P, P = {c}
      PROVE  Promise!Spend(R, g)
  <2>1. Status[g] = "approved" /\ Status'[g] = "closed"
    BY <1>8, WhatIsSeen DEF Seen
  <2>2. Status' = [q \in Requests |-> IF q \in R \cup {g} THEN "closed" ELSE Status[q]]
    BY <1>5, <2>1, StatusIsFunction
  <2> QED
    BY <1>4, <1>8, <2>1, <2>2 DEF Promise!Spend
<1> QED
  BY <1>6, <1>7, <1>8 DEF Promise!ApprovalNext, Granted, World

\* The broker implements the one-shot approval (approvalBroker.ts:144): an approval lets pass
\* the callers that wait for it, more than one only of an app, or one caller that comes later,
\* and is then spent; a closed request lets nobody pass.
THEOREM ApprovalsAreOneShot == Spec => ApprovalIsOneShot
<1>1. BrokerInv /\ BrokerInv' /\ [Kept]_vars => [Promise!ApprovalNext]_(Promise!approvalVars)
  <2>1. ASSUME BrokerInv, BrokerInv', Kept PROVE Promise!ApprovalNext
    BY <2>1, QuietIsPromised, GrantIsPromised DEF Kept, Lawful
  <2>2. ASSUME UNCHANGED vars PROVE UNCHANGED Promise!approvalVars
    BY <2>2 DEF vars, Promise!approvalVars, Status, Passed
  <2> QED
    BY <2>1, <2>2
<1> QED
  BY <1>1, InitIsPromised, AlwaysKept, PTL
     DEF Spec, ApprovalIsOneShot, Promise!ApprovalSpec
=============================================================================
