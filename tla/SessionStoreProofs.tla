------------------------- MODULE SessionStoreProofs -------------------------
(***************************************************************************)
(* Proofs about SessionStore and the loop of SessionSweep, for any set of  *)
(* sessions and any limits.                                                *)
(***************************************************************************)
EXTENDS SessionSweep, FiniteSetTheorems, WellFoundedInduction, TLAPS

\* What is picked of the order: exactly the kept ids, once each, in the order
\* they had.
LEMMA PickKeeps ==
  ASSUME TypeOK, OrderListsStore,
         NEW kept \in SUBSET DOMAIN byID,
         NEW pos \in Picks(kept),
         NEW q, q = [i \in DOMAIN pos |-> order[pos[i]]]
  PROVE  /\ q \in Seq(Sid)
         /\ kept = {q[i] : i \in DOMAIN q}
         /\ \A i, j \in DOMAIN q : q[i] = q[j] => i = j
         /\ \A s, t \in kept : Precedes(s, t, order) => Precedes(s, t, q)
         /\ \A s, t : Precedes(s, t, q) => Precedes(s, t, order)
<1>1. /\ pos \in [1 .. Cardinality(kept) -> DOMAIN order]
      /\ \A i, j \in DOMAIN pos : i < j => pos[i] < pos[j]
      /\ kept = {order[pos[i]] : i \in DOMAIN pos}
      /\ q = [i \in DOMAIN pos |-> order[pos[i]]]
  BY DEF Picks
<1>2. Cardinality(kept) \in Nat
  BY StoreAssumption, FS_Subset, FS_CardinalityType DEF TypeOK
<1>3. order \in Seq(Sid) /\ DOMAIN order \subseteq Nat
  BY DEF TypeOK
<1>4. q \in Seq(Sid)
  <2>1. \A i \in 1 .. Cardinality(kept) : order[pos[i]] \in Sid
    BY <1>1, <1>3
  <2> QED
    BY <1>1, <1>2, <2>1
<1>5. DOMAIN q = DOMAIN pos /\ DOMAIN pos = 1 .. Cardinality(kept)
  BY <1>1
<1>6. kept = {q[i] : i \in DOMAIN q}
  BY <1>1, <1>5
<1>7. \A i, j \in DOMAIN q : q[i] = q[j] => i = j
  <2> SUFFICES ASSUME NEW i \in DOMAIN q, NEW j \in DOMAIN q,
                      q[i] = q[j]
               PROVE  i = j
    OBVIOUS
  <2>1. pos[i] = pos[j]
    BY <1>1, <1>5 DEF OrderListsStore
  <2>2. i \in Nat /\ j \in Nat
    BY <1>2, <1>5
  <2>3. pos[i] \in Nat
    BY <1>1, <1>3, <1>5
  <2> QED
    BY <1>1, <1>5, <2>1, <2>2, <2>3
<1>8. ASSUME NEW s \in kept, NEW t \in kept, Precedes(s, t, order)
      PROVE  Precedes(s, t, q)
  <2>1. PICK i, j \in DOMAIN order : i < j /\ order[i] = s /\ order[j] = t
    BY <1>8 DEF Precedes
  <2>2. PICK a \in DOMAIN pos : order[pos[a]] = s
    BY <1>1
  <2>3. PICK b \in DOMAIN pos : order[pos[b]] = t
    BY <1>1
  <2>4. pos[a] = i /\ pos[b] = j
    BY <1>1, <2>1, <2>2, <2>3 DEF OrderListsStore
  <2>5. a \in Nat /\ b \in Nat /\ i \in Nat /\ j \in Nat
    BY <1>2, <1>3, <1>5, <2>1
  <2>6. a < b
    BY <1>1, <2>1, <2>4, <2>5
  <2> QED
    BY <1>1, <1>5, <2>2, <2>3, <2>6 DEF Precedes
<1>9. ASSUME NEW s, NEW t, Precedes(s, t, q) PROVE Precedes(s, t, order)
  <2>1. PICK i, j \in DOMAIN q : i < j /\ q[i] = s /\ q[j] = t
    BY <1>9 DEF Precedes
  <2>2. /\ pos[i] \in DOMAIN order /\ pos[j] \in DOMAIN order /\ pos[i] < pos[j]
        /\ order[pos[i]] = s /\ order[pos[j]] = t
    BY <1>1, <1>5, <2>1
  <2> QED
    BY <2>2 DEF Precedes
<1> QED
  BY <1>4, <1>6, <1>7, <1>8, <1>9

LEMMA RetainKeeps ==
  ASSUME TypeOK, OrderListsStore,
         NEW kept \in SUBSET DOMAIN byID,
         Retain(kept)
  PROVE  /\ order' \in Seq(Sid)
         /\ kept = {order'[i] : i \in DOMAIN order'}
         /\ \A i, j \in DOMAIN order' : order'[i] = order'[j] => i = j
         /\ \A s, t \in kept : Precedes(s, t, order) => Precedes(s, t, order')
<1> SUFFICES ASSUME NEW q, q = order'
             PROVE  /\ q \in Seq(Sid)
                    /\ kept = {q[i] : i \in DOMAIN q}
                    /\ \A i, j \in DOMAIN q : q[i] = q[j] => i = j
                    /\ \A s, t \in kept : Precedes(s, t, order) => Precedes(s, t, q)
  OBVIOUS
<1>1. PICK pos \in Picks(kept) : q = [i \in DOMAIN pos |-> order[pos[i]]]
  BY DEF Retain
<1> QED
  BY <1>1, PickKeeps

\* Recording a session keeps the list in step with the map and puts a new
\* session behind the others.
LEMMA PutKeeps ==
  ASSUME TypeOK, OrderListsStore, NEW s \in Sid, NEW session \in Session,
         Put(s, session)
  PROVE  TypeOK' /\ OrderListsStore'
<1>1. TypeOK'
  <2>1. DOMAIN byID' = DOMAIN byID \cup {s}
    BY DEF Put
  <2>2. byID' \in [DOMAIN byID' -> Session]
    BY <2>1 DEF Put, TypeOK
  <2>3. order' \in Seq(Sid) /\ sinceSweep' \in 0 .. SweepEvery
    BY DEF Put, TypeOK
  <2> QED
    BY <2>1, <2>2, <2>3 DEF TypeOK
<1>2. CASE Known(s)
  <2>1. order' = order /\ DOMAIN byID' = DOMAIN byID
    BY <1>2 DEF Put, Known
  <2> QED
    BY <1>1, <2>1 DEF OrderListsStore
<1>3. CASE ~Known(s)
  <2>1. /\ order' = Append(order, s)
        /\ DOMAIN byID' = DOMAIN byID \cup {s}
    BY <1>3 DEF Put
  <2>2. /\ Len(order) \in Nat
        /\ DOMAIN order = 1 .. Len(order)
        /\ DOMAIN order' = 1 .. Len(order) + 1
        /\ \A i \in DOMAIN order : order'[i] = order[i]
        /\ order'[Len(order) + 1] = s
    BY <2>1 DEF TypeOK
  <2>3. \A i \in DOMAIN order : order[i] # s
    BY <1>3 DEF OrderListsStore, Known
  <2>4. \A i \in DOMAIN order' : i \in DOMAIN order \/ i = Len(order) + 1
    BY <2>2
  <2>5. DOMAIN byID' = {order'[i] : i \in DOMAIN order'}
    BY <2>1, <2>2, <2>4 DEF OrderListsStore
  <2>6. \A i, j \in DOMAIN order' : order'[i] = order'[j] => i = j
    BY <2>2, <2>3, <2>4 DEF OrderListsStore
  <2> QED
    BY <1>1, <2>5, <2>6 DEF OrderListsStore
<1> QED
  BY <1>1, <1>2, <1>3

LEMMA EnsuredType ==
  ASSUME TypeOK, NEW s \in Sid, NEW p \in Project \cup {NoProject},
         NEW st \in State, NEW c \in Call
  PROVE  /\ [Ensured(s, p) EXCEPT !.state = st, !.call = c] \in Session
         /\ [Ensured(s, p) EXCEPT !.state = st] \in Session
BY DEF TypeOK, Ensured, Session, Known, State
-----------------------------------------------------------------------------
(***************************************************************************)
(* The type invariant and the agreement of map and list.                   *)
(***************************************************************************)
Shape == TypeOK /\ OrderListsStore

LEMMA UpsertShape ==
  ASSUME Shape, NEW s \in Sid, NEW p \in Project \cup {NoProject},
         NEW st \in State, NEW c \in Call, Upsert(s, p, st, c)
  PROVE  Shape'
BY EnsuredType, PutKeeps DEF Shape, Upsert

LEMMA TouchShape ==
  ASSUME Shape, NEW s \in Sid, NEW p \in Project \cup {NoProject},
         NEW st \in State, Touch(s, p, st)
  PROVE  Shape'
<1>1. [Ensured(s, p) EXCEPT !.state = st] \in Session
  BY DEF Shape, TypeOK, Ensured, Session, Known, State
<1> QED
  BY <1>1, PutKeeps DEF Shape, Touch

LEMMA SetStateShape ==
  ASSUME Shape, NEW s \in Sid, NEW st \in State, SetState(s, st)
  PROVE  Shape'
<1>1. byID' \in [DOMAIN byID -> Session] /\ DOMAIN byID' = DOMAIN byID
  BY DEF Shape, TypeOK, SetState, Session
<1> QED
  BY <1>1 DEF Shape, TypeOK, OrderListsStore, SetState

LEMMA RemoveShape ==
  ASSUME Shape, NEW s \in Sid, Remove(s)
  PROVE  Shape'
<1>1. DOMAIN byID' = DOMAIN byID \ {s} /\ byID' \in [DOMAIN byID' -> Session]
  BY DEF Shape, TypeOK, Remove
<1>2. /\ order' \in Seq(Sid)
      /\ DOMAIN byID \ {s} = {order'[i] : i \in DOMAIN order'}
      /\ \A i, j \in DOMAIN order' : order'[i] = order'[j] => i = j
  BY RetainKeeps DEF Shape, Remove
<1>3. sinceSweep' = sinceSweep
  BY DEF Remove
<1> QED
  BY <1>1, <1>2, <1>3 DEF Shape, TypeOK, OrderListsStore

LEMMA SweepShape ==
  ASSUME Shape, Sweep
  PROVE  Shape'
<1>1. DOMAIN byID' = DOMAIN byID \ Dead
  BY DEF Sweep
<1>2. ASSUME NEW s \in DOMAIN byID'
      PROVE  byID'[s] \in Session
  <2>1. byID[s] \in Session /\ [byID[s] EXCEPT !.state = "idle"] \in Session
    BY <1>1 DEF Shape, TypeOK, Session, State
  <2> QED
    BY <1>1, <2>1 DEF Sweep
<1>3. byID' \in [DOMAIN byID' -> Session]
  BY <1>1, <1>2 DEF Sweep
<1>4. /\ order' \in Seq(Sid)
      /\ DOMAIN byID \ Dead = {order'[i] : i \in DOMAIN order'}
      /\ \A i, j \in DOMAIN order' : order'[i] = order'[j] => i = j
  BY RetainKeeps DEF Shape, Sweep
<1>5. sinceSweep' \in 0 .. SweepEvery
  BY StoreAssumption DEF Sweep
<1> QED
  BY <1>1, <1>3, <1>4, <1>5 DEF Shape, TypeOK, OrderListsStore

LEMMA TickShape ==
  ASSUME Shape, Tick
  PROVE  Shape'
<1>1. DOMAIN byID' = DOMAIN byID /\ byID' \in [DOMAIN byID -> Session]
  BY DEF Shape, TypeOK, Tick, Session
<1>2. sinceSweep' \in 0 .. SweepEvery
  BY StoreAssumption DEF Shape, TypeOK, Tick
<1> QED
  BY <1>1, <1>2 DEF Shape, TypeOK, OrderListsStore, Tick

LEMMA StateMembers ==
  /\ "working" \in State /\ "idle" \in State
  /\ State \ {"idle"} \subseteq State /\ {"idle", "working"} \subseteq State
BY DEF State

LEMMA ShapeStep == Shape /\ [Next]_vars => Shape'
<1> SUFFICES ASSUME Shape, [Next]_vars PROVE Shape'
  OBVIOUS
<1>1. ASSUME NEW s \in Sid, Hook(s) PROVE Shape'
  <2>1. ASSUME NEW p \in Project \cup {NoProject}, NEW c \in Call,
               NEW st \in State \ {"idle"}, Upsert(s, p, st, c)
        PROVE  Shape'
    BY <2>1, UpsertShape, StateMembers
  <2>2. ASSUME NEW p \in Project \cup {NoProject},
               NEW st \in {"idle", "working"}, Touch(s, p, st)
        PROVE  Shape'
    BY <2>2, TouchShape, StateMembers
  <2>3. ASSUME NEW st \in {"idle", "working"}, SetState(s, st) PROVE Shape'
    BY <2>3, SetStateShape, StateMembers
  <2>4. CASE Remove(s)
    BY <2>4, RemoveShape
  <2>5. ASSUME NEW p \in Project \cup {NoProject}, TouchLiveness(s, p)
        PROVE  Shape'
    BY <2>5, TouchShape, StateMembers DEF TouchLiveness
  <2> QED
    BY <1>1, <2>1, <2>2, <2>3, <2>4, <2>5 DEF Hook
<1>2. CASE Sweep
  BY <1>2, SweepShape
<1>3. CASE Tick
  BY <1>3, TickShape
<1>4. CASE UNCHANGED vars
  BY <1>4 DEF vars, Shape, TypeOK, OrderListsStore
<1> QED
  BY <1>1, <1>2, <1>3, <1>4 DEF Next

LEMMA ShapeInit == Init => Shape
<1> SUFFICES ASSUME Init PROVE Shape
  OBVIOUS
<1>1. DOMAIN byID = {} /\ DOMAIN order = {}
  BY DEF Init
<1>2. order \in Seq(Sid) /\ sinceSweep \in 0 .. SweepEvery
  BY StoreAssumption DEF Init
<1>3. byID \in [DOMAIN byID -> Session]
  BY <1>1 DEF Init
<1> QED
  BY <1>1, <1>2, <1>3 DEF Shape, TypeOK, OrderListsStore

\* The store's variables keep their types.
THEOREM StoreTypeOK == Spec => []TypeOK
<1>1. Shape => TypeOK
  BY DEF Shape
<1> QED
  BY <1>1, ShapeInit, ShapeStep, PTL DEF Spec

\* byID and order agree after every operation, for any number of sessions:
\* each known session has one row, each row a known session.
THEOREM OrderAgreesWithMap == Spec => []OrderListsStore
<1>1. Shape => OrderListsStore
  BY DEF Shape
<1> QED
  BY <1>1, ShapeInit, ShapeStep, PTL DEF Spec
-----------------------------------------------------------------------------
(***************************************************************************)
(* How long a cue is shown.  CuesExpire is not inductive: between two      *)
(* sweeps a cue may be older than its limit, but only by the time that has *)
(* passed since the last one.                                              *)
(***************************************************************************)
CueAge ==
  \A s \in DOMAIN byID :
    /\ byID[s].age <= MaxAge + sinceSweep
    /\ byID[s].state = "blocked" => byID[s].age <= BlockedSilence + sinceSweep
    /\ byID[s].state = "working" => byID[s].age <= WorkingSilence + sinceSweep

LEMMA FreshCueAge ==
  ASSUME Shape, CueAge, NEW s, NEW session, session.age = 0, Put(s, session)
  PROVE  CueAge'
<1>1. sinceSweep \in Nat /\ sinceSweep' = sinceSweep
  BY StoreAssumption DEF Shape, TypeOK, Put
<1>2. \A x \in DOMAIN byID' : byID'[x].age = 0 \/ (x \in DOMAIN byID /\ byID'[x] = byID[x])
  BY DEF Put
<1> QED
  BY <1>1, <1>2, StoreAssumption DEF CueAge

LEMMA EnsuredAge ==
  ASSUME Shape, NEW s, NEW p, NEW st, NEW c
  PROVE  /\ [Ensured(s, p) EXCEPT !.state = st, !.call = c].age = 0
         /\ [Ensured(s, p) EXCEPT !.state = st].age = 0
<1>1. CASE Known(s)
  <2>1. byID[s] \in Session
    BY <1>1 DEF Shape, TypeOK, Known
  <2> QED
    BY <1>1, <2>1 DEF Ensured, Session
<1>2. CASE ~Known(s)
  BY <1>2 DEF Ensured
<1> QED
  BY <1>1, <1>2

LEMMA CueAgeStep == Shape /\ CueAge /\ [Next]_vars => CueAge'
<1> SUFFICES ASSUME Shape, CueAge, [Next]_vars PROVE CueAge'
  OBVIOUS
<1> USE StoreAssumption
<1>0. sinceSweep \in Nat /\ \A s \in DOMAIN byID : byID[s] \in Session /\ byID[s].age \in Nat
  BY DEF Shape, TypeOK, Session
<1>1. ASSUME NEW s \in Sid, Hook(s) PROVE CueAge'
  <2>1. ASSUME NEW p, NEW c, NEW st, Upsert(s, p, st, c) PROVE CueAge'
    <3>1. [Ensured(s, p) EXCEPT !.state = st, !.call = c].age = 0
      BY EnsuredAge
    <3> QED
      BY <2>1, <3>1, FreshCueAge DEF Upsert
  <2>2. ASSUME NEW p, NEW st, Touch(s, p, st) PROVE CueAge'
    BY <2>2, EnsuredAge, FreshCueAge DEF Touch
  <2>3. ASSUME NEW st, SetState(s, st) PROVE CueAge'
    <3>1. \A x \in DOMAIN byID' : x \in DOMAIN byID /\ (byID'[x].age = 0 \/ byID'[x] = byID[x])
      BY <2>3, <1>0 DEF SetState, Session
    <3>2. sinceSweep' = sinceSweep
      BY <2>3 DEF SetState
    <3> QED
      BY <3>1, <3>2, <1>0 DEF CueAge
  <2>4. CASE Remove(s)
    BY <2>4 DEF Remove, CueAge
  <2>5. ASSUME NEW p, TouchLiveness(s, p) PROVE CueAge'
    BY <2>5, EnsuredAge, FreshCueAge DEF TouchLiveness, Touch
  <2> QED
    BY <1>1, <2>1, <2>2, <2>3, <2>4, <2>5 DEF Hook
<1>2. CASE Sweep
  <2> SUFFICES ASSUME NEW x \in DOMAIN byID' PROVE CueAge!(x)'
    BY DEF CueAge
  <2>1. x \in DOMAIN byID /\ byID[x].age <= MaxAge
    BY <1>0, <1>2 DEF Sweep, Dead, Silent
  <2>2. sinceSweep' = 0 /\ byID'[x].age = byID[x].age
    BY <1>0, <1>2, <2>1 DEF Sweep, Session
  <2>3. CASE Stale(x)
    BY <1>0, <1>2, <2>1, <2>2, <2>3 DEF Sweep, Session
  <2>4. CASE ~Stale(x)
    BY <1>0, <1>2, <2>1, <2>2, <2>4 DEF Sweep, Stale, Silent
  <2> QED
    BY <2>3, <2>4
<1>3. CASE Tick
  <2>1. \A x \in DOMAIN byID' :
           x \in DOMAIN byID /\ byID'[x].age = byID[x].age + 1 /\ byID'[x].state = byID[x].state
    BY <1>0, <1>3 DEF Tick, Session
  <2> QED
    BY <1>0, <1>3, <2>1 DEF Tick, CueAge
<1>4. CASE UNCHANGED vars
  BY <1>4 DEF vars, CueAge
<1> QED
  BY <1>1, <1>2, <1>3, <1>4 DEF Next

LEMMA CueAgeBounds == Shape /\ CueAge => CuesExpire
<1> SUFFICES ASSUME Shape, CueAge, NEW s \in DOMAIN byID PROVE CuesExpire!(s)
  BY DEF CuesExpire
<1>1. sinceSweep \in Nat /\ sinceSweep <= SweepEvery /\ byID[s].age \in Nat
  BY StoreAssumption DEF Shape, TypeOK, Session
<1> QED
  BY <1>1, StoreAssumption DEF CueAge

\* A cue that nothing refreshes is gone one sweep period after its limit at
\* the latest, and no session is kept longer than MaxAge and a period: what
\* the three timers of daemon.Config promise, for any values of them.
THEOREM CuesDoExpire == Spec => []CuesExpire
<1>1. Init => CueAge
  BY DEF Init, CueAge
<1> QED
  BY <1>1, CueAgeBounds, ShapeInit, ShapeStep, CueAgeStep, PTL DEF Spec
-----------------------------------------------------------------------------
(***************************************************************************)
(* The rows of the list.                                                   *)
(***************************************************************************)
LEMMA PutKeepsRows ==
  ASSUME Shape, NEW s, NEW session, Put(s, session),
         NEW x, NEW y, Precedes(x, y, order)
  PROVE  Precedes(x, y, order')
<1>1. PICK i, j \in DOMAIN order : i < j /\ order[i] = x /\ order[j] = y
  BY DEF Precedes
<1>2. order' = order \/ order' = Append(order, s)
  BY DEF Put
<1>3. i \in DOMAIN order' /\ j \in DOMAIN order' /\ order'[i] = x /\ order'[j] = y
  BY <1>1, <1>2 DEF Shape, TypeOK
<1> QED
  BY <1>1, <1>3 DEF Precedes

\* Two sessions never change places in the list while both are known.
THEOREM RowsDoKeepTheirOrder == Spec => RowsKeepTheirOrder
<1> DEFINE Kept == \A s, t \in DOMAIN byID \cap DOMAIN byID' :
                     Precedes(s, t, order) => Precedes(s, t, order')
<1>1. Shape /\ [Next]_vars => [Kept]_vars
  <2> SUFFICES ASSUME Shape, Next,
                      NEW x \in DOMAIN byID \cap DOMAIN byID',
                      NEW y \in DOMAIN byID \cap DOMAIN byID',
                      Precedes(x, y, order)
               PROVE  Precedes(x, y, order')
    OBVIOUS
  <2>1. ASSUME NEW s \in Sid, Hook(s) PROVE Precedes(x, y, order')
    <3>1. CASE Remove(s)
      <4>1. x \in DOMAIN byID \ {s} /\ y \in DOMAIN byID \ {s}
        BY <3>1 DEF Remove
      <4> QED
        BY <3>1, <4>1, RetainKeeps DEF Remove, Shape
    <3>2. ASSUME NEW st, SetState(s, st) PROVE Precedes(x, y, order')
      BY <3>2 DEF SetState
    <3> QED
      BY <2>1, <3>1, <3>2, PutKeepsRows DEF Hook, Upsert, Touch, TouchLiveness
  <2>2. CASE Sweep
    <3>1. x \in DOMAIN byID \ Dead /\ y \in DOMAIN byID \ Dead
      BY <2>2 DEF Sweep
    <3> QED
      BY <2>2, <3>1, RetainKeeps DEF Sweep, Shape
  <2>3. CASE Tick
    BY <2>3 DEF Tick
  <2> QED
    BY <2>1, <2>2, <2>3 DEF Next
<1> QED
  BY <1>1, ShapeInit, ShapeStep, PTL DEF Spec, RowsKeepTheirOrder
-----------------------------------------------------------------------------
(***************************************************************************)
(* The store implements Roster: what is left of it when the labels, the    *)
(* ages and the order of the rows are not looked at.                       *)
(***************************************************************************)
View == [s \in Sid |-> IF Known(s)
                       THEN [state |-> byID[s].state, call |-> byID[s].call]
                       ELSE [state |-> "absent", call |-> NoCall]]

LEMMA SameWords ==
  Untimed!State = State /\ Untimed!Absent = [state |-> "absent", call |-> NoCall]
BY DEF Untimed!State, State, Untimed!Absent

LEMMA ViewAt ==
  ASSUME NEW s \in Sid
  PROVE  /\ Known(s) => View[s] = [state |-> byID[s].state, call |-> byID[s].call]
         /\ ~Known(s) => View[s] = Untimed!Absent
BY SameWords DEF View

\* Only the entry of s changes.
LEMMA PutView ==
  ASSUME NEW s \in Sid, NEW session, Put(s, session)
  PROVE  View' = [View EXCEPT ![s] = [state |-> session.state, call |-> session.call]]
BY DEF Put, View, Known

LEMMA EnsuredFields ==
  ASSUME Shape, NEW s \in Sid, NEW p, NEW st, NEW c
  PROVE  /\ [Ensured(s, p) EXCEPT !.state = st, !.call = c].state = st
         /\ [Ensured(s, p) EXCEPT !.state = st, !.call = c].call = c
         /\ [Ensured(s, p) EXCEPT !.state = st].state = st
         /\ [Ensured(s, p) EXCEPT !.state = st].call =
              IF Known(s) THEN byID[s].call ELSE NoCall
<1>1. CASE Known(s)
  <2>1. byID[s] \in Session
    BY <1>1 DEF Shape, TypeOK, Known
  <2> QED
    BY <1>1, <2>1 DEF Ensured, Session
<1>2. CASE ~Known(s)
  BY <1>2 DEF Ensured
<1> QED
  BY <1>1, <1>2

LEMMA KnownIsShown ==
  ASSUME Shape, NEW s \in Sid
  PROVE  Untimed!Known(s) <=> Known(s)
<1>1. Known(s) => byID[s].state # "absent"
  BY DEF Shape, TypeOK, Session, Known, State
<1> QED
  BY <1>1, ViewAt, SameWords DEF Untimed!Known, View

LEMMA TouchView ==
  ASSUME Shape, NEW s \in Sid, NEW p, NEW st, Touch(s, p, st)
  PROVE  Untimed!Touch(s, st)
<1> DEFINE now == [Ensured(s, p) EXCEPT !.state = st]
           call == IF Known(s) THEN byID[s].call ELSE NoCall
<1>1. now.state = st /\ now.call = call
  BY EnsuredFields
<1>2. View' = [View EXCEPT ![s] = [state |-> st, call |-> call]]
  BY <1>1, PutView DEF Touch
<1>3. [Untimed!Ensured(s) EXCEPT !.state = st] = [state |-> st, call |-> call]
  <2>1. CASE Known(s)
    BY <2>1, ViewAt, KnownIsShown DEF Untimed!Ensured, View
  <2>2. CASE ~Known(s)
    BY <2>2, KnownIsShown DEF Untimed!Ensured
  <2> QED
    BY <2>1, <2>2
<1> QED
  BY <1>2, <1>3 DEF Untimed!Touch, View

LEMMA HookView ==
  ASSUME Shape, NEW s \in Sid, Hook(s)
  PROVE  Untimed!RosterNext
<1>1. ASSUME NEW p \in Project \cup {NoProject}, NEW c \in Call,
             NEW st \in State \ {"idle"}, Upsert(s, p, st, c)
      PROVE  Untimed!RosterNext
  <2> DEFINE now == [Ensured(s, p) EXCEPT !.state = st, !.call = c]
  <2>1. now.state = st /\ now.call = c
    BY EnsuredFields
  <2>2. View' = [View EXCEPT ![s] = [state |-> st, call |-> c]]
    BY <1>1, <2>1, PutView DEF Upsert
  <2>3. Untimed!Upsert(s, st, c)
    BY <2>2 DEF Untimed!Upsert, View
  <2> QED
    BY <2>3, SameWords DEF Untimed!RosterNext
<1>2. ASSUME NEW p \in Project \cup {NoProject}, NEW st \in {"idle", "working"},
             Touch(s, p, st)
      PROVE  Untimed!RosterNext
  BY <1>2, TouchView DEF Untimed!RosterNext
<1>3. ASSUME NEW st \in {"idle", "working"}, SetState(s, st)
      PROVE  Untimed!RosterNext
  <2>1. Known(s) /\ byID[s] \in Session
    BY <1>3 DEF Shape, TypeOK, SetState, Known
  <2>2. View' = [View EXCEPT ![s] = [state |-> st, call |-> byID[s].call]]
    BY <1>3, <2>1 DEF SetState, View, Known, Session
  <2>3. [View EXCEPT ![s].state = st] = [View EXCEPT ![s] = [state |-> st, call |-> byID[s].call]]
    <3>1. View[s] = [state |-> byID[s].state, call |-> byID[s].call]
      BY <2>1, ViewAt
    <3>2. [View[s] EXCEPT !.state = st] = [state |-> st, call |-> byID[s].call]
      BY <3>1
    <3> HIDE DEF View
    <3> QED
      BY <3>2
  <2>4. Untimed!SetState(s, st)
    BY <2>1, <2>2, <2>3, KnownIsShown DEF Untimed!SetState, View
  <2> QED
    BY <2>4 DEF Untimed!RosterNext
<1>4. ASSUME NEW p \in Project \cup {NoProject}, TouchLiveness(s, p)
      PROVE  Untimed!RosterNext
  <2>1. Untimed!Touch(s, "working")
    BY <1>4, TouchView DEF TouchLiveness
  <2> QED
    BY <2>1 DEF Untimed!RosterNext
<1>5. CASE Remove(s)
  <2>1. View' = [View EXCEPT ![s] = Untimed!Absent]
    BY <1>5, SameWords DEF Remove, View, Known
  <2>2. Untimed!Drop(s)
    BY <2>1 DEF Untimed!Drop, View
  <2> QED
    BY <2>2 DEF Untimed!RosterNext
<1> QED
  BY <1>1, <1>2, <1>3, <1>4, <1>5 DEF Hook

\* What the sweeper does is a decay, in one pass or session by session.
LEMMA DecayView ==
  ASSUME Shape, NEW gone \in SUBSET Sid, NEW quiet \in SUBSET DOMAIN byID,
         \A s \in quiet : Stale(s),
         byID' = [s \in DOMAIN byID \ gone |->
                    IF s \in quiet THEN [byID[s] EXCEPT !.state = "idle"] ELSE byID[s]]
  PROVE  Untimed!RosterNext
<1>1. quiet \in SUBSET Sid /\ \A s \in DOMAIN byID : s \in Sid /\ byID[s] \in Session
  BY DEF Shape, TypeOK
<1>2. \A s \in quiet : View[s].state \in {"working", "blocked"}
  <2> SUFFICES ASSUME NEW s \in quiet PROVE View[s].state \in {"working", "blocked"}
    OBVIOUS
  <2>1. s \in Sid /\ Known(s) /\ byID[s].state \in {"working", "blocked"}
    BY <1>1 DEF Stale, Known
  <2>2. View[s] = [state |-> byID[s].state, call |-> byID[s].call]
    BY <2>1, ViewAt
  <2> QED
    BY <2>1, <2>2
<1>3. ASSUME NEW s \in Sid
      PROVE  View'[s] = IF s \in gone THEN Untimed!Absent
                        ELSE IF s \in quiet THEN [View[s] EXCEPT !.state = "idle"]
                        ELSE View[s]
  <2>1. CASE s \in gone
    BY <2>1, SameWords DEF View, Known
  <2>2. CASE s \notin gone /\ s \in quiet
    <3>1. View'[s] = [state |-> "idle", call |-> byID[s].call]
      BY <1>1, <2>2 DEF View, Known, Session
    <3>2. View[s] = [state |-> byID[s].state, call |-> byID[s].call]
      BY <2>2, ViewAt DEF Known
    <3> QED
      BY <2>2, <3>1, <3>2
  <2>3. CASE s \notin gone /\ s \notin quiet
    BY <2>3 DEF View, Known
  <2> QED
    BY <2>1, <2>2, <2>3
<1>4. View' = [s \in Sid |-> IF s \in gone THEN Untimed!Absent
                             ELSE IF s \in quiet THEN [View[s] EXCEPT !.state = "idle"]
                             ELSE View[s]]
  <2>1. View' = [s \in Sid |-> View'[s]]
    BY DEF View
  <2> QED
    BY <1>3, <2>1
<1>5. Untimed!Decay(gone, quiet)
  BY <1>2, <1>4 DEF Untimed!Decay, View
<1> QED
  BY <1>1, <1>5 DEF Untimed!RosterNext

LEMMA TickView ==
  ASSUME Shape, Tick
  PROVE  View' = View
<1>1. /\ DOMAIN byID' = DOMAIN byID
      /\ \A s \in DOMAIN byID : byID'[s].state = byID[s].state /\ byID'[s].call = byID[s].call
  BY DEF Shape, TypeOK, Session, Tick
<1> QED
  BY <1>1 DEF View, Known

LEMMA ViewInit == Init => Untimed!RosterInit
<1> SUFFICES ASSUME Init PROVE Untimed!RosterInit
  OBVIOUS
<1>1. \A s \in Sid : ~Known(s)
  BY DEF Init, Known
<1> QED
  BY <1>1, SameWords DEF Untimed!RosterInit

LEMMA ViewStep == Shape /\ [Next]_vars => [Untimed!RosterNext]_View
<1> SUFFICES ASSUME Shape, [Next]_vars PROVE [Untimed!RosterNext]_View
  OBVIOUS
<1>1. ASSUME NEW s \in Sid, Hook(s) PROVE Untimed!RosterNext
  BY <1>1, HookView
<1>2. CASE Sweep
  <2> DEFINE quiet == {s \in DOMAIN byID : Stale(s)}
  <2>1. Dead \in SUBSET Sid
    BY DEF Dead, Shape, TypeOK
  <2>2. byID' = [s \in DOMAIN byID \ Dead |->
                   IF s \in quiet THEN [byID[s] EXCEPT !.state = "idle"] ELSE byID[s]]
    BY <1>2 DEF Sweep
  <2> QED
    BY <2>1, <2>2, DecayView
<1>3. CASE Tick
  BY <1>3, TickView
<1>4. CASE UNCHANGED vars
  BY <1>4 DEF vars, View, Known
<1> QED
  BY <1>1, <1>2, <1>3, <1>4 DEF Next

\* What the store shows to the daemon, with the clock, the labels and the order of the
\* rows left out, is the roster Bridge is built on: for the sweep that takes one step,
\* and for the loop that walks the list while the mutex is held.
THEOREM StoreIsARoster == Spec => KeepsRosterPromise
<1>1. Shape /\ [Next]_vars => [Untimed!RosterNext]_View
  BY ViewStep
<1> QED
  BY <1>1, ShapeInit, ShapeStep, ViewInit, PTL
     DEF Spec, KeepsRosterPromise, Untimed!RosterSpec, View
-----------------------------------------------------------------------------
(***************************************************************************)
(* The loop of the sweep.  While it runs, the entries it has passed are    *)
(* neither dead nor stale.                                                 *)
(***************************************************************************)
LoopShape ==
  /\ Shape
  /\ at \in 0 .. Len(order) + 1
  /\ at > 0 => sinceSweep = SweepEvery
  /\ \A j \in DOMAIN order : j < at => order[j] \notin Dead /\ ~Stale(order[j])

\* The row at the index is taken out: those behind it move up by one.
LEMMA DropFacts ==
  ASSUME LoopShape, SweepDrop
  PROVE  /\ at \in 1 .. Len(order) /\ order[at] \in DOMAIN byID
         /\ order' \in Seq(Sid) /\ Len(order') = Len(order) - 1
         /\ DOMAIN order' = 1 .. Len(order) - 1 /\ DOMAIN order = 1 .. Len(order)
         /\ Len(order) \in Nat
         /\ \A i \in DOMAIN order' : order'[i] = IF i < at THEN order[i] ELSE order[i + 1]
<1>1. order \in Seq(Sid) /\ at \in 1 .. Len(order) /\ Len(order) \in Nat
  BY DEF LoopShape, Shape, TypeOK, SweepDrop
<1>2. order' = SubSeq(order, 1, at - 1) \o SubSeq(order, at + 1, Len(order))
  BY DEF SweepDrop, S!RemoveAt
<1>3. order[at] \in DOMAIN byID
  BY <1>1 DEF LoopShape, Shape, OrderListsStore
<1> DEFINE front == SubSeq(order, 1, at - 1)
           back == SubSeq(order, at + 1, Len(order))
<1>4. /\ front \in Seq(Sid) /\ Len(front) = at - 1
      /\ \A i \in 1 .. at - 1 : front[i] = order[i]
  BY <1>1
<1>5. /\ back \in Seq(Sid) /\ Len(back) = Len(order) - at
      /\ \A i \in 1 .. Len(order) - at : back[i] = order[at + i]
  BY <1>1
<1> HIDE DEF front, back
<1>6. /\ front \o back \in Seq(Sid)
      /\ Len(front \o back) = Len(order) - 1
      /\ \A i \in 1 .. Len(order) - 1 :
           (front \o back)[i] = IF i < at THEN order[i] ELSE order[i + 1]
  <2>1. /\ front \o back \in Seq(Sid)
        /\ Len(front \o back) = Len(front) + Len(back)
        /\ \A i \in 1 .. Len(front) + Len(back) :
             (front \o back)[i] = IF i <= Len(front) THEN front[i] ELSE back[i - Len(front)]
    BY <1>4, <1>5
  <2>2. Len(front) + Len(back) = Len(order) - 1
    BY <1>1, <1>4, <1>5
  <2>3. ASSUME NEW i \in 1 .. Len(order) - 1
        PROVE  (front \o back)[i] = IF i < at THEN order[i] ELSE order[i + 1]
    <3>1. CASE i < at
      BY <1>1, <1>4, <2>1, <2>2, <3>1
    <3>2. CASE ~(i < at)
      <4>1. i - (at - 1) \in 1 .. Len(order) - at /\ at + (i - (at - 1)) = i + 1
        BY <1>1, <3>2
      <4>2. (front \o back)[i] = back[i - (at - 1)]
        BY <1>1, <1>4, <2>1, <2>2, <3>2
      <4> QED
        BY <1>5, <3>2, <4>1, <4>2
    <3> QED
      BY <3>1, <3>2
  <2> QED
    BY <2>1, <2>2, <2>3
<1>7. order' = front \o back
  BY <1>2 DEF front, back
<1>8. DOMAIN order' = 1 .. Len(order) - 1 /\ DOMAIN order = 1 .. Len(order)
  BY <1>1, <1>6, <1>7
<1> QED
  BY <1>1, <1>3, <1>6, <1>7, <1>8

LEMMA DropShape ==
  ASSUME LoopShape, SweepDrop
  PROVE  Shape'
<1> DEFINE s == order[at]
<1>1. DOMAIN byID' = DOMAIN byID \ {s} /\ byID' \in [DOMAIN byID' -> Session]
  BY DEF LoopShape, Shape, TypeOK, SweepDrop
<1>2. \A i, j \in DOMAIN order' : order'[i] = order'[j] => i = j
  <2> SUFFICES ASSUME NEW i \in DOMAIN order', NEW j \in DOMAIN order',
                      order'[i] = order'[j]
               PROVE  i = j
    OBVIOUS
  <2> DEFINE was(k) == IF k < at THEN k ELSE k + 1
  <2>1. /\ was(i) \in DOMAIN order /\ order'[i] = order[was(i)]
        /\ was(j) \in DOMAIN order /\ order'[j] = order[was(j)]
    BY DropFacts
  <2>2. was(i) = was(j)
    BY <2>1 DEF LoopShape, Shape, OrderListsStore
  <2> QED
    BY <2>2, DropFacts
<1>3. DOMAIN byID' = {order'[i] : i \in DOMAIN order'}
  <2>1. ASSUME NEW i \in DOMAIN order' PROVE order'[i] \in DOMAIN byID'
    <3>1. PICK k \in DOMAIN order : k # at /\ order'[i] = order[k]
      BY DropFacts
    <3> QED
      BY <1>1, <3>1, DropFacts DEF LoopShape, Shape, OrderListsStore
  <2>2. ASSUME NEW x \in DOMAIN byID' PROVE \E i \in DOMAIN order' : order'[i] = x
    <3>1. PICK k \in DOMAIN order : order[k] = x /\ k # at
      BY <1>1 DEF LoopShape, Shape, OrderListsStore
    <3>2. CASE k < at
      <4>1. k \in DOMAIN order' /\ order'[k] = x
        BY <3>1, <3>2, DropFacts
      <4> QED
        BY <4>1
    <3>3. CASE k > at
      <4>1. k - 1 \in DOMAIN order' /\ order'[k - 1] = x
        BY <3>1, <3>3, DropFacts
      <4> QED
        BY <4>1
    <3> QED
      BY <3>1, <3>2, <3>3, DropFacts
  <2> QED
    BY <2>1, <2>2
<1>4. sinceSweep' \in 0 .. SweepEvery
  BY DEF LoopShape, Shape, TypeOK, SweepDrop
<1> QED
  BY <1>1, <1>2, <1>3, <1>4, DropFacts DEF LoopShape, Shape, TypeOK, OrderListsStore

LEMMA KeepShape ==
  ASSUME LoopShape, SweepKeep
  PROVE  /\ Shape' /\ DOMAIN byID' = DOMAIN byID /\ order[at] \in DOMAIN byID
         /\ at \in 1 .. Len(order) /\ Len(order) \in Nat
         /\ \A s \in DOMAIN byID :
              /\ byID'[s].age = byID[s].age
              /\ byID'[s] = IF s = order[at] /\ Stale(s)
                            THEN [byID[s] EXCEPT !.state = "idle"] ELSE byID[s]
<1>1. order \in Seq(Sid) /\ at \in 1 .. Len(order) /\ order[at] \in DOMAIN byID
  BY DEF LoopShape, Shape, TypeOK, OrderListsStore, SweepKeep
<1>2. DOMAIN byID' = DOMAIN byID
  BY DEF SweepKeep
<1>3. ASSUME NEW s \in DOMAIN byID
      PROVE  /\ byID'[s] = IF s = order[at] /\ Stale(s)
                           THEN [byID[s] EXCEPT !.state = "idle"] ELSE byID[s]
             /\ byID'[s] \in Session
             /\ byID'[s].age = byID[s].age
  <2>1. byID[s] \in Session
    BY DEF LoopShape, Shape, TypeOK
  <2>2. byID'[s] = IF s = order[at] /\ Stale(s)
                   THEN [byID[s] EXCEPT !.state = "idle"] ELSE byID[s]
    BY DEF SweepKeep
  <2> QED
    BY <2>1, <2>2, StateMembers DEF Session
<1>4. byID' \in [DOMAIN byID -> Session]
  <2>1. byID' = [s \in DOMAIN byID' |-> byID'[s]]
    BY DEF SweepKeep, LoopShape, Shape, TypeOK
  <2> QED
    BY <1>2, <1>3, <2>1
<1>5. order' = order /\ sinceSweep' = sinceSweep
  BY DEF SweepKeep
<1>6. Shape'
  BY <1>2, <1>4, <1>5 DEF LoopShape, Shape, TypeOK, OrderListsStore
<1> QED
  BY <1>1, <1>2, <1>3, <1>6

\* Entries that stay as they are stay past the index.
LEMMA LoopShapeStep == LoopShape /\ [LoopNext]_loopVars => LoopShape'
<1> SUFFICES ASSUME LoopShape, [LoopNext]_loopVars PROVE LoopShape'
  OBVIOUS
<1> USE StoreAssumption
<1>0. Len(order) \in Nat /\ DOMAIN order = 1 .. Len(order) /\ at \in Nat
  BY DEF LoopShape, Shape, TypeOK
<1>1. ASSUME Next, at = 0, UNCHANGED at PROVE LoopShape'
  <2>1. Shape'
    BY <1>1, ShapeStep DEF LoopShape
  <2>2. at' \in 0 .. Len(order') + 1 /\ \A j \in DOMAIN order' : ~(j < at')
    BY <1>1, <2>1 DEF Shape, TypeOK
  <2> QED
    BY <1>1, <2>1, <2>2 DEF LoopShape
<1>2. CASE SweepBegin
  BY <1>0, <1>2 DEF SweepBegin, LoopShape, Shape, TypeOK, OrderListsStore, Session
<1>3. CASE SweepDrop
  <2>1. Shape' /\ at' = at /\ sinceSweep' = sinceSweep
    BY <1>3, DropShape DEF SweepDrop
  <2>2. at' \in 0 .. Len(order') + 1
    BY <1>3, <2>1, DropFacts
  <2>3. ASSUME NEW j \in DOMAIN order', j < at'
        PROVE  (order[j] \notin Dead /\ ~Stale(order[j]))'
    <3>1. j \in DOMAIN order /\ j < at /\ order'[j] = order[j]
      BY <1>3, <2>1, <2>3, DropFacts
    <3>2. order[j] \notin Dead /\ ~Stale(order[j]) /\ order[j] \in DOMAIN byID
      BY <3>1 DEF LoopShape, Shape, OrderListsStore
    <3>3. order'[j] \in DOMAIN byID' /\ byID'[order'[j]] = byID[order[j]]
      BY <1>3, <3>1, <3>2 DEF SweepDrop
    <3> QED
      BY <3>1, <3>2, <3>3 DEF Dead, Stale, Silent
  <2> QED
    BY <1>3, <2>1, <2>2, <2>3 DEF LoopShape
<1>4. CASE SweepKeep
  <2>1. Shape' /\ at' = at + 1 /\ UNCHANGED <<order, sinceSweep>> /\ at \in 1 .. Len(order)
    BY <1>4, KeepShape DEF SweepKeep
  <2>2. ASSUME NEW j \in DOMAIN order', j < at'
        PROVE  (order[j] \notin Dead /\ ~Stale(order[j]))'
    <3> DEFINE s == order[j]
    <3>1. s \in DOMAIN byID /\ j \in DOMAIN order /\ byID[s] \in Session
      BY <2>1 DEF LoopShape, Shape, OrderListsStore, TypeOK
    <3>2. byID'[s].age = byID[s].age /\ s \in DOMAIN byID'
      BY <1>4, <3>1, KeepShape
    <3>3. CASE j = at
      <4>1. s \notin Dead
        BY <1>4, <3>3 DEF SweepKeep
      <4>2. Stale(s) => byID'[s].state = "idle"
        BY <1>4, <3>1, <3>3, KeepShape DEF Session
      <4>3. ~Stale(s) => byID'[s] = byID[s]
        BY <1>4, <3>1, <3>3, KeepShape
      <4> QED
        BY <2>1, <3>1, <3>2, <4>1, <4>2, <4>3 DEF Dead, Stale, Silent
    <3>4. CASE j # at
      <4>1. s # order[at] /\ j < at
        BY <1>0, <2>1, <2>2, <3>1, <3>4 DEF LoopShape, Shape, OrderListsStore
      <4>2. byID'[s] = byID[s] /\ s \notin Dead /\ ~Stale(s)
        BY <1>4, <3>1, <4>1, KeepShape DEF LoopShape
      <4> QED
        BY <2>1, <3>1, <3>2, <4>2 DEF Dead, Stale, Silent
    <3> QED
      BY <3>3, <3>4
  <2> QED
    BY <1>0, <2>1, <2>2 DEF LoopShape
<1>5. CASE SweepEnd
  BY <1>0, <1>5 DEF SweepEnd, LoopShape, Shape, TypeOK, OrderListsStore, Session
<1>6. CASE UNCHANGED loopVars
  BY <1>6 DEF loopVars, LoopShape, Shape, TypeOK, OrderListsStore, Dead, Stale, Silent
<1> QED
  BY <1>1, <1>2, <1>3, <1>4, <1>5, <1>6 DEF LoopNext, Between, SweepStep, Next

LEMMA LoopShapeInit == LoopInit => LoopShape
<1> SUFFICES ASSUME LoopInit PROVE LoopShape
  OBVIOUS
<1>1. Shape
  BY ShapeInit DEF LoopInit
<1> QED
  BY <1>1 DEF LoopInit, Init, LoopShape

\* Map and list agree after every single step of the loop that deletes under its own
\* feet, for any number of sessions.
THEOREM LoopOrderAgrees == LoopSpec => []OrderListsStore
<1>1. LoopShape => OrderListsStore
  BY DEF LoopShape, Shape
<1> QED
  BY <1>1, LoopShapeInit, LoopShapeStep, PTL DEF LoopSpec

LEMMA LoopCueAgeStep == LoopShape /\ CueAge /\ [LoopNext]_loopVars => CueAge'
<1> SUFFICES ASSUME LoopShape, CueAge, [LoopNext]_loopVars PROVE CueAge'
  OBVIOUS
<1>0. Shape /\ sinceSweep \in Nat /\ \A s \in DOMAIN byID : byID[s] \in Session /\ byID[s].age \in Nat
  BY StoreAssumption DEF LoopShape, Shape, TypeOK, Session
<1>1. CASE Next
  BY <1>0, <1>1, CueAgeStep
<1>2. CASE SweepBegin
  BY <1>2 DEF SweepBegin, CueAge
<1>3. CASE SweepDrop
  BY <1>3 DEF SweepDrop, CueAge
<1>4. CASE SweepKeep
  <2>1. \A s \in DOMAIN byID' :
          /\ s \in DOMAIN byID /\ byID'[s].age = byID[s].age
          /\ byID'[s].state \in {byID[s].state, "idle"}
    BY <1>0, <1>4, KeepShape DEF Session
  <2> QED
    BY <1>4, <2>1 DEF SweepKeep, CueAge
<1>5. CASE SweepEnd
  <2> SUFFICES ASSUME NEW s \in DOMAIN byID PROVE CueAge!(s)'
    BY <1>5 DEF CueAge, SweepEnd
  <2>1. PICK j \in DOMAIN order : order[j] = s
    BY <1>0 DEF Shape, OrderListsStore
  <2>2. j < at
    BY <1>0, <1>5, <2>1 DEF SweepEnd, LoopShape, Shape, TypeOK
  <2>3. s \notin Dead /\ ~Stale(s)
    BY <2>1, <2>2 DEF LoopShape
  <2> QED
    BY <1>0, <1>5, <2>3, StoreAssumption DEF SweepEnd, Dead, Stale, Silent
<1>6. CASE UNCHANGED loopVars
  BY <1>6 DEF loopVars, CueAge
<1> QED
  BY <1>1, <1>2, <1>3, <1>4, <1>5, <1>6 DEF LoopNext, Between, SweepStep, Next

\* The limits hold at every step of the loop too: it misses no session that is due.
THEOREM LoopCuesExpire == LoopSpec => []CuesExpire
<1>1. LoopInit => CueAge
  BY DEF LoopInit, Init, CueAge
<1>2. LoopShape /\ CueAge => CuesExpire
  BY CueAgeBounds DEF LoopShape
<1> QED
  BY <1>1, <1>2, LoopShapeInit, LoopShapeStep, LoopCueAgeStep, PTL DEF LoopSpec

\* Only a hook of its own session, or its age, takes a waiting cue down.
THEOREM CuesGoOutForAReason == LoopSpec => CueGoesOutForAReason
<1> DEFINE Out(s) == s \notin DOMAIN byID' \/ byID'[s].state \notin Waiting
           Reason(s) == \/ Between(Hook(s))
                        \/ byID[s].age > MaxAge
                        \/ byID[s].state = "blocked" /\ byID[s].age > BlockedSilence
<1>1. ASSUME LoopShape, [LoopNext]_loopVars, NEW s \in DOMAIN byID,
             byID[s].state \in Waiting, Out(s)
      PROVE  Reason(s)
  <2>0. Shape /\ s \in Sid /\ byID[s] \in Session
    BY <1>1 DEF LoopShape, Shape, TypeOK
  <2>1. ASSUME NEW x \in Sid, Between(Hook(x)) PROVE Reason(s)
    <3>1. CASE x = s
      BY <2>1, <3>1
    <3>2. CASE x # s
      <4>1. s \in DOMAIN byID' /\ byID'[s] = byID[s]
        BY <2>1, <3>2 DEF Between, Hook, Upsert, Touch, TouchLiveness, SetState, Remove, Put
      <4> QED
        BY <1>1, <4>1
    <3> QED
      BY <3>1, <3>2
  <2>2. CASE Tick
    BY <1>1, <2>0, <2>2 DEF Tick, Session
  <2>3. CASE SweepDrop
    <3>1. s = order[at]
      BY <1>1, <2>3 DEF SweepDrop
    <3> QED
      BY <2>3, <3>1 DEF SweepDrop, Dead, Silent
  <2>4. CASE SweepKeep
    <3>1. s = order[at] /\ Stale(s)
      BY <1>1, <2>4, KeepShape
    <3> QED
      BY <1>1, <3>1 DEF Stale, Silent, Waiting
  <2>5. CASE SweepBegin \/ SweepEnd \/ UNCHANGED loopVars
    BY <1>1, <2>5 DEF SweepBegin, SweepEnd, loopVars
  <2> QED
    BY <1>1, <2>1, <2>2, <2>3, <2>4, <2>5 DEF LoopNext, Between, SweepStep
<1>2. LoopShape /\ [LoopNext]_loopVars =>
        [\A s \in DOMAIN byID : byID[s].state \in Waiting /\ Out(s) => Reason(s)]_loopVars
  BY <1>1
<1> QED
  BY <1>2, LoopShapeInit, LoopShapeStep, PTL DEF LoopSpec, CueGoesOutForAReason

\* The loop, walking the list while it deletes from it, shows the daemon nothing but a
\* roster that decays.
THEOREM LoopIsARoster == LoopSpec => KeepsRosterPromise
<1>1. ASSUME LoopShape, [LoopNext]_loopVars PROVE [Untimed!RosterNext]_View
  <2>1. Shape
    BY <1>1 DEF LoopShape
  <2>2. CASE Next
    BY <2>1, <2>2, ViewStep
  <2>3. CASE SweepDrop
    <3> DEFINE gone == {order[at]}
               quiet == {}
    <3>1. gone \in SUBSET Sid
      BY <1>1, <2>3, DropFacts DEF LoopShape, Shape, TypeOK
    <3>2. byID' = [s \in DOMAIN byID \ gone |->
                     IF s \in quiet THEN [byID[s] EXCEPT !.state = "idle"] ELSE byID[s]]
      BY <2>3 DEF SweepDrop
    <3>3. quiet \in SUBSET DOMAIN byID /\ \A s \in quiet : Stale(s)
      OBVIOUS
    <3> HIDE DEF gone, quiet
    <3> QED
      BY <2>1, <3>1, <3>2, <3>3, DecayView
  <2>4. CASE SweepKeep
    <3> DEFINE quiet == {s \in DOMAIN byID : s = order[at] /\ Stale(s)}
    <3>1. byID' = [s \in DOMAIN byID \ {} |->
                     IF s \in quiet THEN [byID[s] EXCEPT !.state = "idle"] ELSE byID[s]]
      <4>1. byID' = [s \in DOMAIN byID |-> byID'[s]]
        BY <1>1, <2>4 DEF SweepKeep, LoopShape, Shape, TypeOK
      <4>2. \A s \in DOMAIN byID :
              byID'[s] = IF s \in quiet THEN [byID[s] EXCEPT !.state = "idle"] ELSE byID[s]
        BY <1>1, <2>4, KeepShape
      <4> QED
        BY <4>1, <4>2
    <3>2. \A s \in quiet : Stale(s)
      OBVIOUS
    <3> HIDE DEF quiet
    <3>3. quiet \in SUBSET DOMAIN byID
      BY DEF quiet
    <3> QED
      BY <2>1, <3>1, <3>2, <3>3, DecayView
  <2>5. CASE SweepBegin \/ SweepEnd \/ UNCHANGED loopVars
    <3>1. byID' = byID
      BY <2>5 DEF SweepBegin, SweepEnd, loopVars
    <3> QED
      BY <3>1 DEF View, Known
  <2> QED
    BY <1>1, <2>2, <2>3, <2>4, <2>5 DEF LoopNext, Between, SweepStep, Next
<1>2. LoopInit => Untimed!RosterInit
  BY ViewInit DEF LoopInit
<1> QED
  BY <1>1, <1>2, LoopShapeInit, LoopShapeStep, PTL
     DEF LoopSpec, KeepsRosterPromise, Untimed!RosterSpec, View
-----------------------------------------------------------------------------
(***************************************************************************)
(* The loop implements the sweep that takes one step.  Two facts about     *)
(* lists carry it: any of its ids can be picked out in order, and a list   *)
(* is known by what it holds and what precedes what.  Both are inductions, *)
(* over the natural numbers as a set: their least elements are enough.     *)
(***************************************************************************)
LEMMA LeastOf ==
  ASSUME NEW T, T \subseteq Nat, T # {}
  PROVE  \E x \in T : \A y \in T : x <= y
<1> DEFINE R == OpToRel(<, Nat)
<1>1. IsWellFoundedOn(R, Nat)
  BY NatLessThanWellFounded
<1>2. \A x, y \in Nat : <<y, x>> \in R <=> y < x
  BY DEF OpToRel
<1> HIDE DEF R
<1>3. PICK x \in T : \A y \in T : <<y, x>> \notin R
  BY <1>1, WFMin
<1>4. ASSUME NEW y \in T PROVE x <= y
  <2>1. ~(y < x)
    BY <1>2, <1>3
  <2> QED
    BY <2>1
<1> QED
  BY <1>4

LEMMA InductionOn ==
  ASSUME NEW T, 0 \in T, \A n \in Nat : n \in T => n + 1 \in T
  PROVE  Nat \subseteq T
<1> SUFFICES ASSUME Nat \ T # {} PROVE FALSE
  OBVIOUS
<1>1. PICK x \in Nat \ T : \A y \in Nat \ T : x <= y
  BY LeastOf
<1>2. x # 0 /\ x - 1 \in Nat
  BY <1>1
<1>3. x - 1 \in T
  BY <1>1, <1>2
<1> QED
  BY <1>1, <1>2, <1>3

LEMMA PicksExist ==
  ASSUME Shape, NEW kept \in SUBSET DOMAIN byID
  PROVE  Picks(kept) # {}
<1> DEFINE Upto(n) == {order[j] : j \in 1 .. n}
           Fits(n, m, pos) ==
             /\ pos \in [1 .. m -> 1 .. n]
             /\ \A i, j \in 1 .. m : i < j => pos[i] < pos[j]
             /\ {order[pos[i]] : i \in 1 .. m} = kept \cap Upto(n)
           T == {n \in Nat : n <= Len(order) => \E m \in Nat : \E pos : Fits(n, m, pos)}
<1>0. order \in Seq(Sid) /\ Len(order) \in Nat /\ DOMAIN order = 1 .. Len(order)
  BY DEF Shape, TypeOK
<1>1. 0 \in T
  <2>1. Fits(0, 0, [i \in 1 .. 0 |-> 0])
    OBVIOUS
  <2> HIDE DEF Fits
  <2>2. \E m \in Nat : \E pos : Fits(0, m, pos)
    BY <2>1
  <2> QED
    BY <2>2
<1>2. ASSUME NEW n \in Nat, n \in T, n + 1 <= Len(order)
      PROVE  \E m \in Nat : \E pos : Fits(n + 1, m, pos)
  <2>1. PICK m \in Nat : \E pos : Fits(n, m, pos)
    <3> HIDE DEF Fits
    <3>1. n <= Len(order)
      BY <1>0, <1>2
    <3> QED
      BY <1>2, <3>1
  <2>2. PICK pos : Fits(n, m, pos)
    BY <2>1
  <2>3. CASE order[n + 1] \notin kept
    <3>1. kept \cap Upto(n + 1) = kept \cap Upto(n)
      BY <2>3
    <3>2. pos \in [1 .. m -> 1 .. n + 1]
      BY <2>2
    <3>3. Fits(n + 1, m, pos)
      BY <2>2, <3>1, <3>2
    <3> HIDE DEF Fits
    <3> QED
      BY <3>3
  <2>4. CASE order[n + 1] \in kept
    <3> DEFINE more == [i \in 1 .. m + 1 |-> IF i <= m THEN pos[i] ELSE n + 1]
    <3>1. kept \cap Upto(n + 1) = (kept \cap Upto(n)) \cup {order[n + 1]}
      BY <2>4
    <3>2. more \in [1 .. m + 1 -> 1 .. n + 1]
      BY <2>2
    <3>3. \A i, j \in 1 .. m + 1 : i < j => more[i] < more[j]
      BY <2>2
    <3>4. {order[more[i]] : i \in 1 .. m + 1} = {order[pos[i]] : i \in 1 .. m} \cup {order[n + 1]}
      <4>1. \A i \in 1 .. m : i \in 1 .. m + 1 /\ more[i] = pos[i]
        OBVIOUS
      <4>2. m + 1 \in 1 .. m + 1 /\ more[m + 1] = n + 1
        OBVIOUS
      <4>3. \A i \in 1 .. m + 1 : i \in 1 .. m \/ i = m + 1
        OBVIOUS
      <4> HIDE DEF more
      <4> QED
        BY <4>1, <4>2, <4>3
    <3>5. Fits(n + 1, m + 1, more)
      BY <2>2, <3>1, <3>2, <3>3, <3>4
    <3> HIDE DEF Fits
    <3> QED
      BY <3>5
  <2> QED
    BY <2>3, <2>4
<1>3. PICK m \in Nat : \E pos : Fits(Len(order), m, pos)
  <2> HIDE DEF Fits
  <2>1. \A n \in Nat : n \in T => n + 1 \in T
    BY <1>2
  <2>2. Len(order) \in T
    <3> HIDE DEF T
    <3> QED
      BY <1>0, <1>1, <2>1, InductionOn
  <2> QED
    BY <1>0, <2>2
<1>4. PICK pos : Fits(Len(order), m, pos)
  BY <1>3
<1>5. kept = {order[pos[i]] : i \in 1 .. m}
  BY <1>0, <1>4 DEF Shape, OrderListsStore
<1>6. Cardinality(kept) = m
  <2> DEFINE f == [i \in 1 .. m |-> order[pos[i]]]
  <2>1. f \in [1 .. m -> kept] /\ \A x \in kept : \E i \in 1 .. m : f[i] = x
    BY <1>5
  <2>2. \A i, j \in 1 .. m : f[i] = f[j] => i = j
    BY <1>0, <1>4 DEF Shape, OrderListsStore
  <2>3. f \in Bijection(1 .. m, kept)
    BY <2>1, <2>2 DEF Bijection, Injection, Surjection, IsInjective
  <2>4. IsFiniteSet(1 .. m) /\ Cardinality(1 .. m) = m
    BY FS_Interval
  <2> QED
    BY <2>3, <2>4, FS_Bijection DEF ExistsBijection
<1>7. pos \in Picks(kept)
  BY <1>0, <1>4, <1>5, <1>6 DEF Picks
<1> QED
  BY <1>7

LEMMA SameRows ==
  ASSUME NEW D, NEW p \in Seq(D), NEW q \in Seq(D),
         \A i, j \in DOMAIN p : p[i] = p[j] => i = j,
         \A i, j \in DOMAIN q : q[i] = q[j] => i = j,
         {p[i] : i \in DOMAIN p} = {q[i] : i \in DOMAIN q},
         \A x, y : Precedes(x, y, p) => Precedes(x, y, q)
  PROVE  p = q
<1>1. /\ Len(p) \in Nat /\ DOMAIN p = 1 .. Len(p)
      /\ Len(q) \in Nat /\ DOMAIN q = 1 .. Len(q)
  OBVIOUS
<1>0. /\ \A i \in DOMAIN p : \E j \in DOMAIN q : q[j] = p[i]
      /\ \A j \in DOMAIN q : \E i \in DOMAIN p : p[i] = q[j]
  <2>1. \A i \in DOMAIN p : p[i] \in {q[j] : j \in DOMAIN q}
    OBVIOUS
  <2>2. \A j \in DOMAIN q : q[j] \in {p[i] : i \in DOMAIN p}
    OBVIOUS
  <2> QED
    BY <2>1, <2>2
<1>2. \A i \in DOMAIN p : i \in DOMAIN q /\ p[i] = q[i]
  <2> DEFINE Apart == {i \in DOMAIN p : i \notin DOMAIN q \/ p[i] # q[i]}
  <2> SUFFICES ASSUME Apart # {} PROVE FALSE
    OBVIOUS
  <2>1. PICK i \in Apart : \A k \in Apart : i <= k
    <3>1. Apart \subseteq Nat
      BY <1>1
    <3> HIDE DEF Apart
    <3> QED
      BY <3>1, LeastOf
  <2>2. i \in DOMAIN p /\ \A k \in DOMAIN p : k < i => k \in DOMAIN q /\ p[k] = q[k]
    BY <1>1, <2>1
  <2>3. PICK j \in DOMAIN q : q[j] = p[i]
    BY <1>0, <2>2
  <2>4. j > i
    <3>1. j # i
      BY <2>1, <2>3
    <3>2. ~(j < i)
      <4> SUFFICES ASSUME j < i PROVE FALSE
        OBVIOUS
      <4>1. j \in DOMAIN p /\ p[j] = q[j]
        BY <1>1, <2>2
      <4> QED
        BY <2>2, <2>3, <3>1, <4>1
    <3> QED
      BY <1>1, <2>2, <3>1, <3>2
  <2>5. i \in DOMAIN q
    BY <1>1, <2>2, <2>4
  <2>6. PICK k \in DOMAIN p : p[k] = q[i]
    BY <1>0, <2>5
  <2>7. k > i
    <3>1. k # i
      BY <2>1, <2>5, <2>6
    <3>2. ~(k < i)
      <4> SUFFICES ASSUME k < i PROVE FALSE
        OBVIOUS
      <4>1. k \in DOMAIN q /\ q[k] = q[i]
        BY <2>2, <2>6
      <4> QED
        BY <2>5, <3>1, <4>1
    <3> QED
      BY <1>1, <2>2, <3>1, <3>2
  <2>8. Precedes(p[i], q[i], p)
    BY <1>1, <2>2, <2>6, <2>7 DEF Precedes
  <2>9. PICK a, b \in DOMAIN q : a < b /\ q[a] = p[i] /\ q[b] = q[i]
    <3>1. Precedes(p[i], q[i], q)
      BY <2>8
    <3> QED
      BY <3>1 DEF Precedes
  <2>10. a = j /\ b = i
    BY <2>3, <2>5, <2>9
  <2> QED
    BY <1>1, <2>2, <2>4, <2>9, <2>10
<1>3. Len(p) = Len(q)
  <2>1. Len(p) <= Len(q)
    BY <1>1, <1>2
  <2>2. ~(Len(p) < Len(q))
    <3> SUFFICES ASSUME Len(p) < Len(q) PROVE FALSE
      OBVIOUS
    <3>1. Len(p) + 1 \in DOMAIN q
      BY <1>1
    <3>2. PICK k \in DOMAIN p : p[k] = q[Len(p) + 1]
      BY <1>0, <3>1
    <3>3. k \in DOMAIN q /\ q[k] = q[Len(p) + 1] /\ k # Len(p) + 1
      BY <1>1, <1>2, <3>2
    <3> QED
      BY <3>1, <3>3
  <2>3. Len(p) \in Nat /\ Len(q) \in Nat
    OBVIOUS
  <2> DEFINE m == Len(p)
             n == Len(q)
  <2> HIDE DEF m, n
  <2>4. m \in Nat /\ n \in Nat /\ m <= n /\ ~(m < n)
    BY <2>1, <2>2, <2>3 DEF m, n
  <2>5. m = n
    BY <2>4
  <2> QED
    BY <2>5 DEF m, n
<1> QED
  BY <1>1, <1>2, <1>3

\* What is left of the order: the ids of the outcome, in the order they have.
LEMMA SurvivorsFacts ==
  Shape => /\ Survivors \in Seq(Sid)
           /\ DOMAIN Outcome = {Survivors[i] : i \in DOMAIN Survivors}
           /\ \A i, j \in DOMAIN Survivors : Survivors[i] = Survivors[j] => i = j
           /\ \A x, y \in DOMAIN Outcome : Precedes(x, y, order) => Precedes(x, y, Survivors)
           /\ \A x, y : Precedes(x, y, Survivors) => Precedes(x, y, order)
<1> HAVE Shape
<1> DEFINE kept == DOMAIN Outcome
           pos == CHOOSE p \in Picks(kept) : TRUE
<1>1. kept \in SUBSET DOMAIN byID
  BY DEF Outcome
<1> HIDE DEF kept
<1>2. pos \in Picks(kept)
  BY <1>1, PicksExist
<1>3. Survivors = [i \in DOMAIN pos |-> order[pos[i]]]
  BY DEF Survivors, kept
<1> HIDE DEF pos
<1>4. /\ Survivors \in Seq(Sid)
      /\ kept = {Survivors[i] : i \in DOMAIN Survivors}
      /\ \A i, j \in DOMAIN Survivors : Survivors[i] = Survivors[j] => i = j
      /\ \A x, y \in kept : Precedes(x, y, order) => Precedes(x, y, Survivors)
      /\ \A x, y : Precedes(x, y, Survivors) => Precedes(x, y, order)
  BY <1>1, <1>2, <1>3, PickKeeps DEF Shape
<1> QED
  BY <1>4 DEF kept

\* While the mutex is free the store is mapped to itself.
LEMMA AtRest == Shape /\ at = 0 => Outcome = byID /\ Survivors = order
<1> SUFFICES ASSUME Shape, at = 0 PROVE Outcome = byID /\ Survivors = order
  OBVIOUS
<1>1. Ahead = {}
  BY DEF Ahead
<1>2. Outcome = byID
  BY <1>1 DEF Outcome, Shape, TypeOK
<1>3. Survivors = order
  <2>1. /\ order \in Seq(Sid) /\ Survivors \in Seq(Sid)
        /\ {order[i] : i \in DOMAIN order} = {Survivors[i] : i \in DOMAIN Survivors}
        /\ \A i, j \in DOMAIN order : order[i] = order[j] => i = j
        /\ \A i, j \in DOMAIN Survivors : Survivors[i] = Survivors[j] => i = j
    BY <1>2, SurvivorsFacts DEF Shape, TypeOK, OrderListsStore
  <2>2. ASSUME NEW x, NEW y, Precedes(x, y, order) PROVE Precedes(x, y, Survivors)
    <3>1. x \in DOMAIN byID /\ y \in DOMAIN byID
      BY <2>2 DEF Precedes, Shape, OrderListsStore
    <3> QED
      BY <1>2, <2>2, <3>1, SurvivorsFacts
  <2> QED
    BY <2>1, <2>2, SameRows
<1> QED
  BY <1>2, <1>3

LEMMA AtRestNext == (Shape /\ at = 0 => Outcome = byID /\ Survivors = order)'
BY AtRest, PTL

LEMMA SurvivorsNext ==
  (Shape => /\ Survivors \in Seq(Sid)
            /\ DOMAIN Outcome = {Survivors[i] : i \in DOMAIN Survivors}
            /\ \A i, j \in DOMAIN Survivors : Survivors[i] = Survivors[j] => i = j
            /\ \A x, y \in DOMAIN Outcome : Precedes(x, y, order) => Precedes(x, y, Survivors)
            /\ \A x, y : Precedes(x, y, Survivors) => Precedes(x, y, order))'
BY SurvivorsFacts, PTL

\* The dead row goes: what the loop will leave is the same as before.
LEMMA DropIsNothing ==
  ASSUME LoopShape, SweepDrop
  PROVE  Outcome' = Outcome /\ Survivors' = Survivors
<1> DEFINE gone == order[at]
<1>0. Shape /\ Shape' /\ at' = at /\ Len(order) \in Nat /\ at \in 1 .. Len(order)
  BY DropShape, DropFacts DEF LoopShape, SweepDrop
<1>1. gone \in Ahead /\ gone \in Dead /\ gone \in DOMAIN byID
  BY <1>0, DropFacts DEF Ahead, SweepDrop
<1>2. Ahead' = Ahead \ {gone}
  <2>1. ASSUME NEW x \in Ahead' PROVE x \in Ahead \ {gone}
    <3>1. PICK i \in DOMAIN order' : i >= at /\ order'[i] = x
      BY <1>0, <2>1 DEF Ahead
    <3>2. i + 1 \in DOMAIN order /\ i + 1 >= at /\ order[i + 1] = x
      BY <1>0, <3>1, DropFacts
    <3>3. i + 1 # at
      BY <1>0, <3>1, DropFacts
    <3> QED
      BY <1>0, <3>2, <3>3, DropFacts DEF Ahead, Shape, OrderListsStore
  <2>2. ASSUME NEW x \in Ahead, x # gone PROVE x \in Ahead'
    <3>1. PICK i \in DOMAIN order : i >= at /\ order[i] = x
      BY <1>0, <2>2 DEF Ahead
    <3>2. i > at
      BY <1>0, <2>2, <3>1, DropFacts
    <3>3. i - 1 \in DOMAIN order' /\ i - 1 >= at /\ order'[i - 1] = x
      BY <1>0, <3>1, <3>2, DropFacts
    <3> QED
      BY <1>0, <3>3 DEF Ahead
  <2> QED
    BY <2>1, <2>2, <1>0, DropFacts DEF Ahead
<1>3. /\ DOMAIN byID' = DOMAIN byID \ {gone}
      /\ \A s \in DOMAIN byID' : byID'[s] = byID[s] /\ (Stale(s)' <=> Stale(s))
  BY DEF SweepDrop, Stale, Silent
<1>4. Dead' = Dead \ {gone}
  BY <1>3 DEF Dead, Silent
<1>5. Outcome' = Outcome
  <2>1. DOMAIN byID' \ (Dead' \cap Ahead') = DOMAIN byID \ (Dead \cap Ahead)
    BY <1>1, <1>2, <1>3, <1>4
  <2>2. \A s \in DOMAIN byID \ (Dead \cap Ahead) :
          /\ s # gone /\ byID'[s] = byID[s] /\ (s \in Ahead' <=> s \in Ahead)
          /\ (Stale(s)' <=> Stale(s))
    BY <1>1, <1>2, <1>3
  <2> QED
    BY <2>1, <2>2 DEF Outcome
<1>6. \A x, y : Precedes(x, y, Survivors) => Precedes(x, y, Survivors')
  <2> SUFFICES ASSUME NEW x, NEW y, Precedes(x, y, Survivors)
               PROVE  Precedes(x, y, Survivors')
    OBVIOUS
  <2>1. x \in DOMAIN Outcome /\ y \in DOMAIN Outcome /\ Precedes(x, y, order)
    <3>1. \A i \in DOMAIN Survivors : Survivors[i] \in DOMAIN Outcome
      BY <1>0, SurvivorsFacts
    <3>2. Precedes(x, y, order)
      BY <1>0, SurvivorsFacts
    <3> QED
      BY <3>1, <3>2 DEF Precedes
  <2>2. x # gone /\ y # gone
    BY <1>1, <2>1 DEF Outcome
  <2>3. PICK i, j \in DOMAIN order : i < j /\ order[i] = x /\ order[j] = y
    BY <2>1 DEF Precedes
  <2>4. i # at /\ j # at
    BY <2>2, <2>3
  <2> DEFINE now(k) == IF k < at THEN k ELSE k - 1
  <2>5. /\ now(i) \in DOMAIN order' /\ order'[now(i)] = x
        /\ now(j) \in DOMAIN order' /\ order'[now(j)] = y
        /\ now(i) < now(j)
    <3>1. ASSUME NEW k \in DOMAIN order, k # at
          PROVE  now(k) \in DOMAIN order' /\ order'[now(k)] = order[k]
      <4>1. k \in 1 .. Len(order)
        BY DropFacts
      <4>2. CASE k < at
        BY <1>0, <4>1, <4>2, DropFacts
      <4>3. CASE k > at
        <5>1. k - 1 \in DOMAIN order' /\ ~(k - 1 < at) /\ (k - 1) + 1 = k
          BY <1>0, <4>1, <4>3, DropFacts
        <5> QED
          BY <1>0, <4>1, <4>3, <5>1, DropFacts
      <4> QED
        BY <1>0, <3>1, <4>1, <4>2, <4>3
    <3>2. now(i) < now(j)
      BY <1>0, <2>3, <2>4, DropFacts
    <3> QED
      BY <2>3, <2>4, <3>1, <3>2
  <2>6. Precedes(x, y, order')
    BY <2>5 DEF Precedes
  <2> QED
    BY <1>0, <1>5, <2>1, <2>6, SurvivorsNext
<1>7. Survivors' = Survivors
  <2> SUFFICES ASSUME NEW q, q = Survivors' PROVE q = Survivors
    OBVIOUS
  <2>1. /\ Survivors \in Seq(Sid) /\ q \in Seq(Sid)
        /\ {Survivors[i] : i \in DOMAIN Survivors} = {q[i] : i \in DOMAIN q}
        /\ \A i, j \in DOMAIN Survivors : Survivors[i] = Survivors[j] => i = j
        /\ \A i, j \in DOMAIN q : q[i] = q[j] => i = j
    BY <1>0, <1>5, SurvivorsFacts, SurvivorsNext
  <2>2. \A x, y : Precedes(x, y, Survivors) => Precedes(x, y, q)
    BY <1>6
  <2> QED
    BY <2>1, <2>2, SameRows
<1> QED
  BY <1>5, <1>7

\* Dropped or kept, a row the loop passes changes nothing of the outcome.
LEMMA KeepIsNothing ==
  ASSUME LoopShape, SweepKeep
  PROVE  Outcome' = Outcome /\ Survivors' = Survivors
<1> DEFINE seen == order[at]
<1>0. Shape /\ at \in 1 .. Len(order) /\ Len(order) \in Nat /\ seen \in DOMAIN byID
      /\ order' = order /\ at' = at + 1 /\ sinceSweep' = sinceSweep
      /\ seen \notin Dead /\ DOMAIN byID' = DOMAIN byID /\ DOMAIN order = 1 .. Len(order)
  BY KeepShape DEF LoopShape, Shape, TypeOK, SweepKeep
<1>1. Ahead' = Ahead \ {seen} /\ seen \in Ahead
  BY <1>0 DEF Ahead, Shape, OrderListsStore
<1>2. \A s \in DOMAIN byID : byID'[s].age = byID[s].age
  BY KeepShape
<1>3. Dead' = Dead
  BY <1>0, <1>2 DEF Dead, Silent
<1>4. \A s \in DOMAIN byID : s # seen => byID'[s] = byID[s] /\ (Stale(s)' <=> Stale(s))
  <2>1. \A s \in DOMAIN byID : s # seen => byID'[s] = byID[s]
    BY KeepShape
  <2> QED
    BY <2>1 DEF Stale, Silent
<1>5. DOMAIN byID' \ (Dead' \cap Ahead') = DOMAIN byID \ (Dead \cap Ahead)
  BY <1>0, <1>1, <1>3
<1>6. ASSUME NEW s \in DOMAIN byID
      PROVE  (IF s \in Ahead' /\ Stale(s)' THEN [byID'[s] EXCEPT !.state = "idle"] ELSE byID'[s])
             = IF s \in Ahead /\ Stale(s) THEN [byID[s] EXCEPT !.state = "idle"] ELSE byID[s]
  <2>1. CASE s = seen
    <3>1. byID'[s] = IF Stale(s) THEN [byID[s] EXCEPT !.state = "idle"] ELSE byID[s]
      BY <2>1, KeepShape
    <3> QED
      BY <1>1, <2>1, <3>1
  <2>2. CASE s # seen
    BY <1>1, <1>4, <2>2
  <2> QED
    BY <2>1, <2>2
<1>7. Outcome' = Outcome
  BY <1>0, <1>5, <1>6 DEF Outcome
<1>8. Survivors' = Survivors
  BY <1>0, <1>7 DEF Survivors, Picks
<1> QED
  BY <1>7, <1>8

\* The mapping changes no choice of positions while it changes no row.
LEMMA SamePicks ==
  ASSUME Survivors = order, NEW kept
  PROVE  Atomic!Picks(kept) = Picks(kept)
<1> DEFINE Picked(pos, rows) ==
      /\ pos \in [1 .. Cardinality(kept) -> DOMAIN rows]
      /\ \A i, j \in DOMAIN pos : i < j => pos[i] < pos[j]
      /\ kept = {rows[pos[i]] : i \in DOMAIN pos}
<1>1. ASSUME NEW pos PROVE pos \in Picks(kept) <=> Picked(pos, order)
  BY DEF Picks
<1>2. ASSUME NEW pos PROVE pos \in Atomic!Picks(kept) <=> Picked(pos, Survivors)
  <2>1. Atomic!Cardinality(kept) = Cardinality(kept)
    BY Zenon DEF Atomic!Cardinality, Cardinality
  <2> QED
    BY <2>1 DEF Atomic!Picks
<1> HIDE DEF Picked
<1>3. ASSUME NEW pos PROVE pos \in Atomic!Picks(kept) <=> pos \in Picks(kept)
  BY <1>1, <1>2
<1> QED
  BY <1>3

\* When the loop starts it is as good as done.
LEMMA BeginIsSweep ==
  ASSUME LoopShape, SweepBegin
  PROVE  Atomic!Sweep
<1>0. Shape /\ Shape' /\ at = 0 /\ at' = 1 /\ UNCHANGED <<byID, order, sinceSweep>>
      /\ sinceSweep = SweepEvery /\ DOMAIN order = 1 .. Len(order) /\ Len(order) \in Nat
  BY DEF LoopShape, Shape, TypeOK, OrderListsStore, Session, SweepBegin
<1>1. Outcome = byID /\ Survivors = order
  BY <1>0, AtRest
<1>2. Ahead' = DOMAIN byID
  BY <1>0 DEF Ahead, Shape, OrderListsStore
<1>3. Dead' = Dead /\ \A s : Stale(s)' <=> Stale(s)
  BY <1>0 DEF Dead, Stale, Silent
<1>4. Outcome' = [s \in DOMAIN byID \ Dead |->
                    IF Stale(s) THEN [byID[s] EXCEPT !.state = "idle"] ELSE byID[s]]
  <2>1. DOMAIN byID' \ (Dead' \cap Ahead') = DOMAIN byID \ Dead
    BY <1>0, <1>2, <1>3 DEF Dead
  <2> QED
    BY <1>0, <1>2, <1>3, <2>1 DEF Outcome
<1>5. Atomic!Dead = Dead /\ \A s : Atomic!Stale(s) <=> Stale(s)
  BY <1>1 DEF Dead, Stale, Silent, Atomic!Dead, Atomic!Stale, Atomic!Silent
<1>6. \E pos \in Picks(DOMAIN byID \ Dead) : Survivors' = [i \in DOMAIN pos |-> order[pos[i]]]
  <2> DEFINE pos == CHOOSE p \in Picks(DOMAIN byID \ Dead) : TRUE
  <2>1. DOMAIN Outcome' = DOMAIN byID \ Dead
    BY <1>4
  <2>2. Survivors' = [i \in DOMAIN pos |-> order[pos[i]]]
    BY <1>0, <2>1 DEF Survivors, Picks
  <2>3. pos \in Picks(DOMAIN byID \ Dead)
    BY <1>0, PicksExist
  <2> HIDE DEF pos
  <2> QED
    BY <2>2, <2>3
<1>7. \A kept : Atomic!Picks(kept) = Picks(kept)
  BY <1>1, SamePicks
<1>8. Atomic!Retain(DOMAIN Outcome \ Atomic!Dead)
  BY <1>1, <1>5, <1>6, <1>7 DEF Atomic!Retain
<1> QED
  BY <1>0, <1>1, <1>4, <1>5, <1>8 DEF Atomic!Sweep

\* The others run while the mutex is free.
LEMMA HookIsHook ==
  ASSUME Outcome = byID, Outcome' = byID', Survivors = order, Survivors' = order',
         at = 0, at' = 0, NEW s \in Sid, Hook(s)
  PROVE  Atomic!Hook(s)
<1>1. Atomic!State = State /\ Atomic!Waiting = Waiting /\ (Atomic!Known(s) <=> Known(s))
  BY DEF Atomic!State, State, Atomic!Waiting, Waiting, Atomic!Known, Known
<1>2. \A p : Atomic!Ensured(s, p) = Ensured(s, p)
  BY <1>1 DEF Atomic!Ensured, Ensured
<1>3. \A session : Put(s, session) => Atomic!Put(s, session)
  BY <1>1 DEF Atomic!Put, Put
<1>4. \A p, st, c : Upsert(s, p, st, c) => Atomic!Upsert(s, p, st, c)
  BY <1>2, <1>3 DEF Atomic!Upsert, Upsert
<1>5. \A p, st : Touch(s, p, st) => Atomic!Touch(s, p, st)
  BY <1>2, <1>3 DEF Atomic!Touch, Touch
<1>6. \A st : SetState(s, st) => Atomic!SetState(s, st)
  BY <1>1 DEF Atomic!SetState, SetState
<1>7. \A p : TouchLiveness(s, p) => Atomic!TouchLiveness(s, p)
  BY <1>1, <1>5 DEF Atomic!TouchLiveness, TouchLiveness, Atomic!FreshCue, FreshCue
<1>8. Remove(s) => Atomic!Remove(s)
  <2>1. \A kept : Atomic!Picks(kept) = Picks(kept)
    BY SamePicks
  <2>2. \A kept : Retain(kept) => Atomic!Retain(kept)
    BY <2>1 DEF Retain, Atomic!Retain
  <2> QED
    BY <1>1, <2>2 DEF Remove, Atomic!Remove
<1> QED
  BY <1>1, <1>4, <1>5, <1>6, <1>7, <1>8 DEF Hook, Atomic!Hook

LEMMA LoopStepIsStep ==
  ASSUME LoopShape, LoopShape', [LoopNext]_loopVars
  PROVE  [Atomic!Next]_(Atomic!vars)
<1>0. Shape /\ Shape'
  BY DEF LoopShape
<1>2. CASE SweepBegin
  BY <1>2, BeginIsSweep DEF Atomic!Next
<1>3. CASE SweepDrop \/ SweepKeep
  <2>1. Outcome' = Outcome /\ Survivors' = Survivors
    BY <1>3, DropIsNothing, KeepIsNothing
  <2>2. at # 0 /\ at' # 0
    BY <1>0, <1>3 DEF SweepDrop, SweepKeep, Shape, TypeOK
  <2> QED
    BY <2>1, <2>2 DEF Atomic!vars
<1>4. CASE SweepEnd
  <2>1. Outcome' = byID' /\ Survivors' = order' /\ UNCHANGED <<byID, order>>
        /\ at' = 0 /\ sinceSweep' = 0 /\ at # 0
    BY <1>0, <1>4, AtRestNext DEF SweepEnd, Shape, TypeOK
  <2>2. Ahead = {}
    <3>1. at \in Nat /\ Len(order) \in Nat /\ DOMAIN order = 1 .. Len(order) /\ at > Len(order)
      BY <1>0, <1>4 DEF LoopShape, SweepEnd, Shape, TypeOK
    <3>2. \A j \in DOMAIN order : ~ (j >= at)
      BY <3>1
    <3> QED
      BY <3>2 DEF Ahead
  <2>3. Outcome = byID
    BY <1>0, <2>2 DEF Outcome, Shape, TypeOK
  <2>4. Outcome' = Outcome /\ UNCHANGED order
    BY <2>1, <2>3
  <2>5. Survivors' = Survivors
    BY <2>4 DEF Survivors, Picks
  <2> QED
    BY <2>1, <2>4, <2>5 DEF Atomic!vars
<1>5. CASE UNCHANGED loopVars
  <2>1. Ahead' = Ahead /\ Dead' = Dead /\ \A s : Stale(s)' <=> Stale(s)
    BY <1>5 DEF loopVars, Ahead, Dead, Stale, Silent
  <2>2. Outcome' = Outcome
    BY <1>5, <2>1 DEF loopVars, Outcome
  <2>3. Survivors' = Survivors
    BY <1>5, <2>2 DEF loopVars, Survivors, Picks
  <2> QED
    BY <1>5, <2>2, <2>3 DEF loopVars, Atomic!vars
<1>1. CASE UNCHANGED at /\ at = 0 /\ (Tick \/ \E s \in Sid : Hook(s))
  <2>1. Outcome = byID /\ Outcome' = byID' /\ Survivors = order /\ Survivors' = order'
    BY <1>0, <1>1, AtRest, AtRestNext
  <2>2. ASSUME NEW s \in Sid, Hook(s) PROVE Atomic!Hook(s)
    BY <1>1, <2>1, <2>2, HookIsHook
  <2>3. Tick => Atomic!Tick
    BY <1>1, <2>1 DEF Tick, Atomic!Tick
  <2> QED
    BY <1>1, <2>2, <2>3 DEF Atomic!Next
<1> QED
  BY <1>1, <1>2, <1>3, <1>4, <1>5 DEF LoopNext, Between, SweepStep

LEMMA LoopInitIsInit == LoopInit => Atomic!Init
<1> SUFFICES ASSUME LoopInit PROVE Atomic!Init
  OBVIOUS
<1>1. Outcome = byID /\ Survivors = order
  BY AtRest, LoopShapeInit DEF LoopInit, LoopShape
<1> QED
  BY <1>1 DEF LoopInit, Init, Atomic!Init

\* The loop that walks the list by index and deletes from it, with the index taken back
\* after each deletion, has the effect of the sweep that takes one step: for any number
\* of sessions, whichever of them are due, and in whatever order they are listed.
THEOREM LoopHasOneEffect == LoopSpec => LoopIsOneSweep
<1>1. LoopShape /\ LoopShape' /\ [LoopNext]_loopVars => [Atomic!Next]_(Atomic!vars)
  BY LoopStepIsStep
<1> QED
  BY <1>1, LoopInitIsInit, LoopShapeInit, LoopShapeStep, PTL
     DEF LoopSpec, LoopIsOneSweep, Atomic!Spec
=============================================================================
