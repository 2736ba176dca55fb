----------------------------- MODULE DialProofs -----------------------------
(***************************************************************************)
(* Proofs about Dial: for any sessions, any size of the table and of the   *)
(* message queue, whatever the bridge sends and the user does, the dial    *)
(* keeps its queue of prompts sound and loses no prompt.                   *)
(*                                                                         *)
(* The one argument that is not local: a prompt always finds a place in    *)
(* the queue, because the queue holds different sessions of the table and  *)
(* the table holds at most MaxSessions.                                    *)
(***************************************************************************)
EXTENDS Dial, FiniteSetTheorems, TLAPS

SessionState == {"none", "permission_request", "working", "idle"}

\* A queue of different sessions, all of them in the table.
Distinct(q) == \A i, j \in DOMAIN q : q[i] = q[j] => i = j
InTable(ss, q) == \A i \in DOMAIN q : ss[q[i]] # "none"

(***************************************************************************)
(* The operations of the queue.                                            *)
(***************************************************************************)
LEMMA WithoutIsSound ==
  ASSUME NEW q \in Seq(Sid), NEW s \in Sid, Distinct(q)
  PROVE  /\ Without(q, s) \in Seq(Sid)
         /\ Distinct(Without(q, s))
         /\ \A x \in Sid : Queued(Without(q, s), x) <=> Queued(q, x) /\ x # s
<1>1. CASE ~Queued(q, s)
  BY <1>1 DEF Without, Queued, Distinct
<1>2. CASE Queued(q, s)
  <2> DEFINE i == CHOOSE k \in DOMAIN q : q[k] = s
             r == [j \in 1..(Len(q) - 1) |-> q[IF j < i THEN j ELSE j + 1]]
  <2>1. i \in DOMAIN q /\ q[i] = s
    BY <1>2 DEF Queued
  <2>2. Without(q, s) = r
    BY <1>2 DEF Without
  <2> HIDE DEF i
  <2>3. i \in 1..Len(q) /\ Len(q) \in Nat /\ Len(q) - 1 \in Nat
    BY <2>1
  <2>4. \A j \in 1..(Len(q) - 1) : r[j] = q[IF j < i THEN j ELSE j + 1] /\ r[j] \in Sid
    BY <2>3
  <2>5. r \in Seq(Sid) /\ DOMAIN r = 1..(Len(q) - 1)
    BY <2>3, <2>4
  <2>6. Distinct(r)
    BY <2>3, <2>4, <2>5 DEF Distinct
  <2>7. ASSUME NEW x \in Sid, Queued(r, x) PROVE Queued(q, x) /\ x # s
    <3>1. PICK j \in 1..(Len(q) - 1) : r[j] = x
      BY <2>5, <2>7 DEF Queued
    <3>2. PICK k \in DOMAIN q : k # i /\ q[k] = x
      BY <2>3, <2>4, <3>1
    <3> QED
      BY <2>1, <3>2 DEF Queued, Distinct
  <2>8. ASSUME NEW x \in Sid, Queued(q, x), x # s PROVE Queued(r, x)
    <3>1. PICK k \in 1..Len(q) : q[k] = x /\ k # i
      BY <2>1, <2>8 DEF Queued
    <3>2. CASE k < i
      BY <2>3, <2>4, <2>5, <3>1, <3>2 DEF Queued
    <3>3. CASE k > i
      <4>1. k - 1 \in 1..(Len(q) - 1) /\ ~(k - 1 < i) /\ (k - 1) + 1 = k
        BY <2>3, <3>1, <3>3
      <4> QED
        BY <2>4, <2>5, <3>1, <4>1 DEF Queued
    <3> QED
      BY <2>3, <3>1, <3>2, <3>3
  <2> QED
    BY <2>2, <2>5, <2>6, <2>7, <2>8
<1> QED
  BY <1>1, <1>2

\* The sessions of a queue are as many as its entries.
LEMMA QueueFits ==
  ASSUME NEW q \in Seq(Sid), NEW T, IsFiniteSet(T), Distinct(q),
         \A i \in DOMAIN q : q[i] \in T
  PROVE  Len(q) <= Cardinality(T)
<1>1. q \in Injection(1..Len(q), T)
  BY DEF Distinct, Injection, IsInjective
<1>2. Cardinality(1..Len(q)) = Len(q)
  <2>1. Len(q) \in Nat /\ 1 \in Int /\ Len(q) \in Int
    OBVIOUS
  <2>2. Cardinality(1..Len(q)) = IF 1 > Len(q) THEN 0 ELSE Len(q) - 1 + 1
    BY <2>1, FS_Interval
  <2> QED
    BY <2>1, <2>2
<1> QED
  BY <1>1, <1>2, FS_Injection

LEMMA EnqueuedIsSound ==
  ASSUME NEW ss, NEW q \in Seq(Sid), NEW s \in Sid, Distinct(q), InTable(ss, q),
         ss[s] # "none", IsFiniteSet(Active(ss)), Cardinality(Active(ss)) <= MaxSessions
  PROVE  /\ Enqueued(q, s) \in Seq(Sid)
         /\ Distinct(Enqueued(q, s)) /\ InTable(ss, Enqueued(q, s))
         /\ \A x \in Sid : Queued(Enqueued(q, s), x) <=> Queued(q, x) \/ x = s
<1>1. CASE Queued(q, s)
  BY <1>1 DEF Enqueued, Queued
<1>2. CASE ~Queued(q, s)
  <2> DEFINE T == Active(ss) \ {s}
  <2>1. IsFiniteSet(T) /\ Cardinality(T) = Cardinality(Active(ss)) - 1
    BY FS_RemoveElement DEF Active
  <2>2. \A i \in DOMAIN q : q[i] \in T
    BY <1>2 DEF InTable, Active, Queued
  <2>3. Len(q) <= Cardinality(T)
    BY <2>1, <2>2, QueueFits
  <2>4. Cardinality(Active(ss)) \in Nat
    BY FS_CardinalityType
  <2>5. Len(q) < MaxSessions
    BY <2>1, <2>3, <2>4, DialAssumption
  <2>6. Enqueued(q, s) = Append(q, s)
    BY <1>2, <2>5, DialAssumption DEF Enqueued
  <2>7. /\ Append(q, s) \in Seq(Sid)
        /\ DOMAIN Append(q, s) = 1..(Len(q) + 1)
        /\ Append(q, s)[Len(q) + 1] = s
        /\ \A i \in 1..Len(q) : Append(q, s)[i] = q[i]
    OBVIOUS
  <2>8. Distinct(Append(q, s))
    BY <1>2, <2>7 DEF Distinct, Queued
  <2>9. InTable(ss, Append(q, s))
    BY <2>7 DEF InTable
  <2>10. \A x \in Sid : Queued(Append(q, s), x) <=> Queued(q, x) \/ x = s
    BY <2>7 DEF Queued
  <2> QED
    BY <2>6, <2>7, <2>8, <2>9, <2>10
<1> QED
  BY <1>1, <1>2

\* With every session that asks in the queue, what is shown next leaves none out.
LEMMA ShowNextIsSound ==
  ASSUME NEW ss, NEW q \in Seq(Sid), Distinct(q), InTable(ss, q),
         \A s \in Sid : Asks(ss, s) => Queued(q, s), PermShowNext(ss, q)
  PROVE  /\ permQueue' \in Seq(Sid) /\ currentPermSid' \in Sid \cup {NoSid}
         /\ appState' \in AppState /\ picked' = "none"
         /\ Distinct(permQueue') /\ InTable(ss, permQueue')
         /\ currentPermSid' # NoSid => ss[currentPermSid'] # "none"
         /\ \A s \in Sid : Asks(ss, s) => s = currentPermSid' \/ Queued(permQueue', s)
<1>0. HomeView(ss) \in AppState /\ "PERMISSION" \in AppState
  BY DEF HomeView, AppState
<1>1. CASE \E i \in DOMAIN q :
             /\ Asks(ss, q[i]) /\ \A j \in 1..(i - 1) : ~Asks(ss, q[j])
             /\ currentPermSid' = q[i]
             /\ permQueue' = SubSeq(q, i + 1, Len(q))
             /\ appState' = "PERMISSION"
  <2>1. PICK i \in DOMAIN q :
             /\ Asks(ss, q[i]) /\ \A j \in 1..(i - 1) : ~Asks(ss, q[j])
             /\ currentPermSid' = q[i]
             /\ permQueue' = SubSeq(q, i + 1, Len(q))
             /\ appState' = "PERMISSION"
    BY <1>1
  <2>2. Len(q) \in Nat /\ i \in Nat /\ i \in 1..Len(q)
    OBVIOUS
  <2>3. /\ permQueue' \in Seq(Sid)
        /\ DOMAIN permQueue' = 1..(Len(q) - i)
        /\ \A j \in 1..(Len(q) - i) : permQueue'[j] = q[i + j]
    BY <2>1, <2>2
  <2>4. \A j \in 1..(Len(q) - i) : i + j \in DOMAIN q
    BY <2>2
  <2>5. \A j, k \in 1..(Len(q) - i) : q[i + j] = q[i + k] => i + j = i + k
    BY <2>4 DEF Distinct
  <2>6. \A j, k \in 1..(Len(q) - i) : q[i + j] = q[i + k] => j = k
    BY <2>2, <2>5
  <2>7. Distinct(permQueue')
    BY <2>3, <2>6 DEF Distinct
  <2>8. InTable(ss, permQueue')
    BY <2>3, <2>4 DEF InTable
  <2>9. ASSUME NEW s \in Sid, Asks(ss, s) PROVE s = currentPermSid' \/ Queued(permQueue', s)
    <3>1. PICK k \in 1..Len(q) : q[k] = s
      BY <2>9 DEF Queued
    <3>2. CASE k < i
      BY <2>1, <2>2, <2>9, <3>1, <3>2
    <3>3. CASE k = i
      BY <2>1, <3>1, <3>3
    <3>4. CASE k > i
      <4>1. k - i \in 1..(Len(q) - i) /\ i + (k - i) = k
        BY <2>2, <3>1, <3>4
      <4> QED
        BY <2>3, <3>1, <4>1 DEF Queued
    <3> QED
      BY <2>2, <3>1, <3>2, <3>3, <3>4
  <2>10. ss[currentPermSid'] # "none" /\ currentPermSid' \in Sid
    BY <2>1 DEF InTable
  <2>11. picked' = "none"
    BY DEF PermShowNext
  <2> QED
    BY <1>0, <2>1, <2>3, <2>7, <2>8, <2>9, <2>10, <2>11
<1>2. CASE /\ \A i \in DOMAIN q : ~Asks(ss, q[i])
           /\ currentPermSid' = NoSid /\ permQueue' = << >>
           /\ appState' = HomeView(ss)
  <2>1. \A s \in Sid : ~Asks(ss, s)
    BY <1>2 DEF Queued
  <2>2. picked' = "none"
    BY DEF PermShowNext
  <2> QED
    BY <1>0, <1>2, <2>1, <2>2 DEF Distinct, InTable
<1> QED
  BY <1>1, <1>2 DEF PermShowNext

(***************************************************************************)
(* The invariant.                                                          *)
(***************************************************************************)
\* The table never holds more sessions than it has places.
TableFits ==
  IsFiniteSet(Active(sessions)) /\ Cardinality(Active(sessions)) <= MaxSessions

Sound == TypeOK /\ TableFits /\ QueueIsSound /\ NoPromptLost

LEMMA SoundFacts ==
  ASSUME Sound
  PROVE  /\ sessions \in [Sid -> SessionState] /\ permQueue \in Seq(Sid)
         /\ Distinct(permQueue) /\ InTable(sessions, permQueue)
BY DEF Sound, TypeOK, QueueIsSound, Distinct, InTable, SessionState

\* The same of the next state, put together from its parts.
LEMMA SoundParts ==
  ASSUME Distinct(permQueue'), InTable(sessions', permQueue'),
         currentPermSid' # NoSid => sessions'[currentPermSid'] # "none",
         \A s \in Sid : Asks(sessions', s) => s = currentPermSid' \/ Queued(permQueue', s)
  PROVE  QueueIsSound' /\ NoPromptLost'
BY DEF QueueIsSound, NoPromptLost, Distinct, InTable

LEMMA TableShrinks ==
  ASSUME Sound, Active(sessions') \subseteq Active(sessions)
  PROVE  TableFits'
<1>1. /\ IsFiniteSet(Active(sessions'))
      /\ Cardinality(Active(sessions')) <= Cardinality(Active(sessions))
  BY FS_Subset DEF Sound, TableFits
<1>2. Cardinality(Active(sessions)) \in Nat /\ Cardinality(Active(sessions')) \in Nat
  BY <1>1, FS_CardinalityType DEF Sound, TableFits
<1> QED
  BY <1>1, <1>2, DialAssumption DEF Sound, TableFits

LEMMA TableGrows ==
  ASSUME Sound, NEW s \in Sid, ~NoRoom(s), NEW st \in SessionState \ {"none"},
         sessions' = [sessions EXCEPT ![s] = st]
  PROVE  TableFits'
<1>1. Active(sessions') = Active(sessions) \cup {s}
  BY SoundFacts DEF Active
<1>2. CASE s \in Active(sessions)
  BY <1>1, <1>2, TableShrinks
<1>3. CASE s \notin Active(sessions)
  <2>1. Cardinality(Active(sessions)) \in Nat
    BY FS_CardinalityType DEF Sound, TableFits
  <2>2. Cardinality(Active(sessions)) < MaxSessions
    BY <1>3, <2>1, DialAssumption DEF NoRoom, Active
  <2>3. /\ IsFiniteSet(Active(sessions) \cup {s})
        /\ Cardinality(Active(sessions) \cup {s}) = Cardinality(Active(sessions)) + 1
    BY <1>3, FS_AddElement DEF Sound, TableFits
  <2>4. Cardinality(Active(sessions)) + 1 <= MaxSessions
    BY <2>1, <2>2, DialAssumption
  <2>5. IsFiniteSet(Active(sessions')) /\ Cardinality(Active(sessions')) <= MaxSessions
    BY <1>1, <2>3, <2>4
  <2> QED
    BY <2>5 DEF TableFits
<1> QED
  BY <1>2, <1>3

(***************************************************************************)
(* The steps that change the table, the queue or the prompt's slot.        *)
(***************************************************************************)
\* What a step must give for the types, beside those of the queue.
Rest ==
  /\ phase \in {"drain", "finish", "link", "input", "timers", "draw"}
  /\ otaPrevState \in AppState /\ confirmChoice \in Choice
  /\ sent \in Decision \cup {Nothing}
  /\ bleConnected \in BOOLEAN /\ wasConnected \in BOOLEAN
  /\ rxQueue \in Seq(Message) /\ Len(rxQueue) <= MaxRx
  /\ otaAvail \in BOOLEAN /\ otaStarting \in BOOLEAN
  /\ otaActive \in BOOLEAN /\ otaFinish \in BOOLEAN /\ streaming \in BOOLEAN

LEMMA TypeFacts ==
  ASSUME Sound
  PROVE  Rest /\ appState \in AppState /\ picked \in Choice \cup {"none"}
         /\ currentPermSid \in Sid \cup {NoSid}
BY DEF Sound, TypeOK, Rest

LEMMA TypeParts ==
  ASSUME Rest', appState' \in AppState, sessions' \in [Sid -> SessionState],
         permQueue' \in Seq(Sid), currentPermSid' \in Sid \cup {NoSid},
         picked' \in Choice \cup {"none"}
  PROVE  TypeOK'
BY DEF TypeOK, Rest, SessionState

\* Showing the next prompt, when no session that asks is left out of the queue q.
LEMMA SoundShows ==
  ASSUME Rest', TableFits', sessions' \in [Sid -> SessionState],
         NEW q \in Seq(Sid), Distinct(q), InTable(sessions', q),
         \A s \in Sid : Asks(sessions', s) => Queued(q, s), PermShowNext(sessions', q)
  PROVE  Sound'
<1>1. /\ permQueue' \in Seq(Sid) /\ currentPermSid' \in Sid \cup {NoSid}
      /\ appState' \in AppState /\ picked' = "none"
      /\ Distinct(permQueue') /\ InTable(sessions', permQueue')
      /\ currentPermSid' # NoSid => sessions'[currentPermSid'] # "none"
      /\ \A s \in Sid : Asks(sessions', s) => s = currentPermSid' \/ Queued(permQueue', s)
  BY ShowNextIsSound
<1>2. QueueIsSound' /\ NoPromptLost'
  BY <1>1, SoundParts
<1>3. TypeOK'
  BY <1>1, TypeParts
<1> QED
  BY <1>2, <1>3 DEF Sound

\* With the slot's session out of the table, everyone who asks is queued.
LEMMA AskersQueued ==
  ASSUME Sound, currentPermSid \notin Active(sessions)
  PROVE  \A s \in Sid : Asks(sessions, s) => Queued(permQueue, s)
BY SoundFacts DEF Sound, NoPromptLost, Active, Asks

LEMMA ClosedStep ==
  ASSUME Sound, Rest', NEW s \in Sid, Closed(s)
  PROVE  Sound'
<1> DEFINE q == Without(permQueue, s)
<1>1. /\ sessions' \in [Sid -> SessionState]
      /\ sessions'[s] = "none" /\ \A x \in Sid : x # s => sessions'[x] = sessions[x]
  BY SoundFacts DEF Closed, SessionState
<1>2. TableFits'
  BY <1>1, TableShrinks DEF Active
<1>3. /\ q \in Seq(Sid) /\ Distinct(q)
      /\ \A x \in Sid : Queued(q, x) <=> Queued(permQueue, x) /\ x # s
  BY SoundFacts, WithoutIsSound
<1>4. InTable(sessions', q)
  <2>1. ASSUME NEW i \in DOMAIN q PROVE sessions'[q[i]] # "none"
    <3>1. q[i] \in Sid /\ Queued(q, q[i])
      BY <1>3 DEF Queued
    <3>2. q[i] # s /\ Queued(permQueue, q[i])
      BY <1>3, <3>1
    <3> QED
      BY <1>1, <3>1, <3>2, SoundFacts DEF InTable, Queued
  <2> QED
    BY <2>1 DEF InTable
<1>5. \A x \in Sid : Asks(sessions', x) =>
        x # s /\ (x = currentPermSid \/ Queued(permQueue, x))
  BY <1>1 DEF Sound, NoPromptLost, Asks
<1>6. CASE s = currentPermSid /\ appState = "PERMISSION"
  <2>1. PermShowNext(sessions', q)
    BY <1>6 DEF Closed
  <2>2. \A x \in Sid : Asks(sessions', x) => Queued(q, x)
    BY <1>3, <1>5, <1>6
  <2> QED
    BY <1>1, <1>2, <1>3, <1>4, <2>1, <2>2, SoundShows
<1>7. CASE ~(s = currentPermSid /\ appState = "PERMISSION")
  <2>1. /\ permQueue' = q
        /\ currentPermSid' = IF s = currentPermSid THEN NoSid ELSE currentPermSid
        /\ picked' = IF s = currentPermSid THEN "none" ELSE picked
        /\ SettleHome(sessions')
    BY <1>7 DEF Closed
  <2>2. appState' \in AppState
    BY <2>1 DEF SettleHome, HomeView, AppState, Sound, TypeOK
  <2>3. TypeOK'
    BY <1>1, <1>3, <2>1, <2>2, TypeFacts, TypeParts
  <2>4. currentPermSid' # NoSid => sessions'[currentPermSid'] # "none"
    BY <1>1, <2>1 DEF Sound, QueueIsSound, TypeOK
  <2>5. \A x \in Sid : Asks(sessions', x) => x = currentPermSid' \/ Queued(permQueue', x)
    BY <1>3, <1>5, <2>1
  <2>6. QueueIsSound' /\ NoPromptLost'
    BY <1>3, <1>4, <2>1, <2>4, <2>5, SoundParts
  <2> QED
    BY <1>2, <2>3, <2>6 DEF Sound
<1> QED
  BY <1>6, <1>7

LEMMA AskedStep ==
  ASSUME Sound, Rest', NEW s \in Sid, ~NoRoom(s), Asked(s)
  PROVE  Sound'
<1> DEFINE q == Enqueued(permQueue, s)
<1>1. /\ sessions' \in [Sid -> SessionState]
      /\ sessions'[s] = "permission_request"
      /\ \A x \in Sid : x # s => sessions'[x] = sessions[x]
  BY SoundFacts DEF Asked, SessionState
<1>2. TableFits'
  BY TableGrows DEF Asked, SessionState
<1>3. InTable(sessions', permQueue)
  BY <1>1, SoundFacts DEF InTable
<1>4. /\ q \in Seq(Sid) /\ Distinct(q) /\ InTable(sessions', q)
      /\ \A x \in Sid : Queued(q, x) <=> Queued(permQueue, x) \/ x = s
  BY <1>1, <1>2, <1>3, SoundFacts, EnqueuedIsSound DEF TableFits
<1>5. \A x \in Sid : Asks(sessions', x) => x = currentPermSid \/ Queued(q, x)
  BY <1>1, <1>4 DEF Sound, NoPromptLost, Asks
<1>6. CASE currentPermSid = NoSid
  <2>1. PermShowNext(sessions', q)
    BY <1>6 DEF Asked
  <2>2. \A x \in Sid : Asks(sessions', x) => Queued(q, x)
    BY <1>5, <1>6, DialAssumption
  <2> QED
    BY <1>1, <1>2, <1>4, <2>1, <2>2, SoundShows
<1>7. CASE currentPermSid # NoSid
  <2>1. permQueue' = q /\ UNCHANGED <<currentPermSid, picked, appState>>
    BY <1>7 DEF Asked
  <2>2. TypeOK'
    BY <1>1, <1>4, <2>1, TypeFacts, TypeParts
  <2>3. sessions'[currentPermSid'] # "none"
    BY <1>1, <1>7, <2>1 DEF Sound, QueueIsSound, TypeOK
  <2>4. QueueIsSound' /\ NoPromptLost'
    BY <1>4, <1>5, <2>1, <2>3, SoundParts
  <2> QED
    BY <1>2, <2>2, <2>4 DEF Sound
<1> QED
  BY <1>6, <1>7

\* A session changes to a state in which it does not ask, and the rest stays.
LEMMA UpdatedStep ==
  ASSUME Sound, Rest', NEW s \in Sid, ~NoRoom(s), Updated(s, "working")
  PROVE  Sound'
<1>1. /\ sessions' \in [Sid -> SessionState]
      /\ sessions'[s] = "working"
      /\ \A x \in Sid : x # s => sessions'[x] = sessions[x]
      /\ UNCHANGED <<permQueue, currentPermSid, picked>>
  BY SoundFacts DEF Updated, SessionState, slot
<1>2. TableFits'
  BY TableGrows DEF Updated, SessionState
<1>3. InTable(sessions', permQueue')
  BY <1>1, SoundFacts DEF InTable
<1>4. appState' \in AppState
  BY TypeFacts DEF Updated, SettleHome, HomeView, AppState
<1>5. TypeOK'
  BY <1>1, <1>4, SoundFacts, TypeFacts, TypeParts
<1>6. currentPermSid' # NoSid => sessions'[currentPermSid'] # "none"
  BY <1>1, TypeFacts DEF Sound, QueueIsSound
<1>7. \A x \in Sid : Asks(sessions', x) => x = currentPermSid' \/ Queued(permQueue', x)
  BY <1>1 DEF Sound, NoPromptLost, Asks
<1>8. Distinct(permQueue')
  BY <1>1, SoundFacts
<1> QED
  BY <1>2, <1>3, <1>5, <1>6, <1>7, <1>8, SoundParts DEF Sound

\* The table, the queue and the slot stay as they are.
LEMMA SoundKept ==
  ASSUME Sound, Rest', UNCHANGED <<sessions, permQueue, currentPermSid>>,
         appState' \in AppState, picked' \in Choice \cup {"none"}
  PROVE  Sound'
<1>1. TypeOK'
  BY SoundFacts, TypeFacts, TypeParts
<1> QED
  BY <1>1 DEF Sound, TableFits, QueueIsSound, NoPromptLost, Queued, Asks, Active

\* Power-up and whatever starts over.
LEMMA SoundClears ==
  ASSUME Rest', sessions' = [s \in Sid |-> "none"], permQueue' = << >>,
         currentPermSid' = NoSid, appState' \in AppState, picked' = "none"
  PROVE  Sound'
<1>1. TypeOK'
  BY TypeParts DEF SessionState
<1>2. Active(sessions') = {}
  BY DEF Active
<1>3. TableFits'
  <2>1. IsFiniteSet({}) /\ Cardinality({}) = 0
    BY FS_EmptySet
  <2>2. 0 <= MaxSessions
    BY DialAssumption
  <2>3. IsFiniteSet(Active(sessions')) /\ Cardinality(Active(sessions')) <= MaxSessions
    BY <1>2, <2>1, <2>2
  <2> QED
    BY <2>3 DEF TableFits
<1>4. QueueIsSound' /\ NoPromptLost'
  BY DEF QueueIsSound, NoPromptLost, Asks
<1> QED
  BY <1>1, <1>3, <1>4 DEF Sound

\* The slot's session settles: it asks no more, and the next prompt is shown.
LEMMA SoundSettles ==
  ASSUME Sound, Rest', PermShowNext(sessions', permQueue), NEW st \in {"working", "idle"},
         \/ /\ currentPermSid \in Active(sessions)
            /\ sessions' = [sessions EXCEPT ![currentPermSid] = st]
         \/ currentPermSid \notin Active(sessions) /\ sessions' = sessions
  PROVE  Sound'
<1>1. CASE /\ currentPermSid \in Active(sessions)
           /\ sessions' = [sessions EXCEPT ![currentPermSid] = st]
  <2>1. /\ sessions' \in [Sid -> SessionState]
        /\ sessions'[currentPermSid] = st
        /\ \A x \in Sid : x # currentPermSid => sessions'[x] = sessions[x]
    BY <1>1, SoundFacts DEF SessionState, Active
  <2>2. TableFits'
    BY <1>1, <2>1, TableShrinks DEF Active
  <2>3. InTable(sessions', permQueue)
    BY <2>1, SoundFacts DEF InTable
  <2>4. \A x \in Sid : Asks(sessions', x) => Queued(permQueue, x)
    BY <2>1 DEF Sound, NoPromptLost, Asks
  <2> QED
    BY <2>1, <2>2, <2>3, <2>4, SoundFacts, SoundShows
<1>2. CASE currentPermSid \notin Active(sessions) /\ sessions' = sessions
  <2>1. \A x \in Sid : Asks(sessions', x) => Queued(permQueue, x)
    BY <1>2, AskersQueued
  <2>2. TableFits'
    BY <1>2, TableShrinks
  <2> QED
    BY <1>2, <2>1, <2>2, SoundFacts, SoundShows
<1> QED
  BY <1>1, <1>2

(***************************************************************************)
(* Every step.                                                             *)
(***************************************************************************)
LEMMA SoundInit == Init => Sound
<1> SUFFICES ASSUME Init PROVE Sound
  OBVIOUS
<1>1. TypeOK
  <2>1. << >> \in Seq(Message) /\ Len(<< >>) <= MaxRx /\ << >> \in Seq(Sid)
    BY DialAssumption
  <2> QED
    BY <2>1 DEF Init, TypeOK, AppState, Choice
<1>2. Active(sessions) = {}
  BY DEF Init, Active
<1>3. TableFits
  <2>1. IsFiniteSet({}) /\ Cardinality({}) = 0
    BY FS_EmptySet
  <2>2. 0 <= MaxSessions
    BY DialAssumption
  <2> QED
    BY <1>2, <2>1, <2>2 DEF TableFits
<1>4. QueueIsSound /\ NoPromptLost
  BY DEF Init, QueueIsSound, NoPromptLost, Asks
<1> QED
  BY <1>1, <1>3, <1>4 DEF Sound

LEMMA SoundReboot ==
  ASSUME Reboot
  PROVE  Sound'
<1>1. << >> \in Seq(Message) /\ Len(<< >>) <= MaxRx
  BY DialAssumption
<1>2. Rest'
  BY <1>1 DEF Reboot, Rest, AppState, Choice
<1> QED
  BY <1>2, SoundClears DEF Reboot, AppState

LEMMA SoundHandle ==
  ASSUME Sound, HandleRxMessage
  PROVE  Sound'
<1> DEFINE m == Head(rxQueue)
<1>1. m \in Message /\ rxQueue' \in Seq(Message) /\ Len(rxQueue') <= MaxRx
  BY TypeFacts, DialAssumption DEF HandleRxMessage, Rest
<1>2. m.kind = "session" => m.sid \in Sid /\ m.state \in Told
  BY <1>1 DEF Message
<1>3. CASE m.kind = "offer" /\ Offered(m.newer)
  <2>1. m.newer \in BOOLEAN
    BY <1>1, <1>3 DEF Message
  <2>2. Rest'
    BY <1>1, <1>3, <2>1, TypeFacts DEF HandleRxMessage, Offered, Rest, link
  <2>3. appState' \in AppState
    BY <1>3, TypeFacts DEF Offered, HomeView, AppState
  <2> QED
    BY <1>3, <2>2, <2>3, SoundKept, TypeFacts DEF Offered, slot
<1>4. CASE m.kind = "session" /\ m.state = "closed" /\ Closed(m.sid)
  <2>1. Rest'
    BY <1>1, <1>4, TypeFacts DEF HandleRxMessage, Closed, Rest, link, ota
  <2> QED
    BY <1>2, <1>4, <2>1, ClosedStep
<1>5. CASE UNCHANGED <<sessions, prompt, ota>>
  <2>1. Rest'
    BY <1>1, <1>5, TypeFacts DEF HandleRxMessage, Rest, link, ota
  <2> QED
    BY <1>5, <2>1, SoundKept, TypeFacts DEF prompt, slot
<1>6. CASE /\ m.kind = "session" /\ m.state # "closed" /\ ~NoRoom(m.sid)
           /\ IF m.state = "permission_request" THEN Asked(m.sid)
                                                ELSE Updated(m.sid, m.state)
  <2>1. Rest'
    BY <1>1, <1>6, TypeFacts DEF HandleRxMessage, Asked, Updated, Rest, link, ota
  <2>2. CASE m.state = "permission_request"
    BY <1>2, <1>6, <2>1, <2>2, AskedStep
  <2>3. CASE m.state = "working"
    BY <1>2, <1>6, <2>1, <2>3, UpdatedStep
  <2> QED
    BY <1>2, <1>6, <2>2, <2>3 DEF Told
<1> QED
  BY <1>3, <1>4, <1>5, <1>6 DEF HandleRxMessage

\* Steps that leave the table, the queue and the slot alone.
LEMMA SoundElsewhere ==
  ASSUME Sound,
         \/ Drained \/ InstallFails \/ NoGesture \/ NoTimer \/ InstallTimeOut
         \/ Undo \/ Hold \/ PressMenu \/ PressSetting \/ PressOffer
         \/ OnConnect \/ OnDisconnect \/ OtaBegin \/ OtaEnd \/ OtaDataFails
         \/ \E m \in Message : m.kind \in Kinds /\ OnWrite(m)
         \/ UNCHANGED vars
  PROVE  Sound'
<1> USE DEF prompt, slot, link, ota
<1>1. CASE Drained \/ NoGesture \/ NoTimer \/ InstallTimeOut \/ UNCHANGED vars
  <2>1. Rest' /\ UNCHANGED <<sessions, prompt>>
    BY <1>1, TypeFacts DEF Drained, NoGesture, NoTimer, InstallTimeOut, vars, Rest
  <2> QED
    BY <2>1, SoundKept, TypeFacts
<1>2. CASE InstallFails
  <2>1. Rest' /\ UNCHANGED <<sessions, slot>> /\ appState' \in AppState
    BY <1>2, TypeFacts DEF InstallFails, Rest
  <2> QED
    BY <2>1, SoundKept, TypeFacts
<1>3. ASSUME NEW from, NEW to \in AppState, Turns(from, to),
             otaStarting' \in BOOLEAN, picked' \in Choice \cup {"none"}
      PROVE  Sound'
  <2>1. Rest' /\ UNCHANGED <<sessions, permQueue, currentPermSid>> /\ appState' \in AppState
    BY <1>3, TypeFacts DEF Turns, Rest
  <2> QED
    BY <1>3, <2>1, SoundKept
<1>4. CASE Undo
  BY <1>3, <1>4, TypeFacts DEF Undo, AppState, Rest
<1>5. CASE Hold
  BY <1>3, <1>5, TypeFacts DEF Hold, AppState, Rest
<1>6. CASE PressMenu
  <2>1. PICK to \in Opens \cup {HomeView(sessions)} : Turns("MODE_MENU", to)
    BY <1>6 DEF PressMenu
  <2>2. to \in AppState
    BY DialAssumption DEF Entries, HomeView, AppState
  <2> QED
    BY <1>3, <1>6, <2>1, <2>2, TypeFacts DEF PressMenu, Rest
<1>7. CASE PressSetting
  BY <1>3, <1>7, TypeFacts DEF PressSetting, AppState, Rest
<1>8. CASE PressOffer
  <2>1. HomeView(sessions) \in AppState
    BY DEF HomeView, AppState
  <2> QED
    BY <1>3, <1>8, <2>1, TypeFacts DEF PressOffer, AppState, Rest
<1>9. CASE OnConnect \/ OnDisconnect \/ OtaEnd
  <2>1. Rest' /\ UNCHANGED <<sessions, prompt>>
    BY <1>9, TypeFacts DEF OnConnect, OnDisconnect, OtaEnd, Rest
  <2> QED
    BY <2>1, SoundKept, TypeFacts
<1>10. CASE OtaBegin \/ OtaDataFails
  <2>1. Rest' /\ UNCHANGED <<sessions, slot>> /\ appState' \in AppState
    BY <1>10, TypeFacts DEF OtaBegin, OtaDataFails, Rest, AppState
  <2> QED
    BY <2>1, SoundKept, TypeFacts
<1>11. ASSUME NEW m \in Message, OnWrite(m) PROVE Sound'
  <2>1. rxQueue' \in Seq(Message) /\ Len(rxQueue') <= MaxRx
    BY <1>11, TypeFacts, DialAssumption DEF OnWrite, Rest
  <2>2. Rest' /\ UNCHANGED <<sessions, prompt>>
    BY <1>11, <2>1, TypeFacts DEF OnWrite, Rest
  <2> QED
    BY <2>2, SoundKept, TypeFacts
<1> QED
  BY <1>1, <1>2, <1>4, <1>5, <1>6, <1>7, <1>8, <1>9, <1>10, <1>11

\* Steps that may settle, forget or replace the prompt in the slot.
LEMMA SoundPrompt ==
  ASSUME Sound,
         CheckLink \/ (\E a \in Choices : Pick(a)) \/ CommitDecision \/ PermTimeOut \/ Redraw
  PROVE  Sound'
<1> USE DEF prompt, slot, link, ota
<1>1. CASE CheckLink
  <2>1. CASE wasConnected /\ ~bleConnected
    <3>1. Rest'
      BY <1>1, <2>1, TypeFacts DEF CheckLink, Rest
    <3>2. appState' \in AppState
      BY <1>1, <2>1, TypeFacts DEF CheckLink, AppState
    <3> QED
      BY <1>1, <2>1, <3>1, <3>2, SoundClears DEF CheckLink
  <2>2. CASE ~(wasConnected /\ ~bleConnected)
    <3>1. Rest'
      BY <1>1, <2>2, TypeFacts DEF CheckLink, Rest
    <3> QED
      BY <1>1, <2>2, <3>1, SoundKept, TypeFacts DEF CheckLink
  <2> QED
    BY <2>1, <2>2
<1>2. ASSUME NEW a \in Choices, Pick(a) PROVE Sound'
  <2>1. a \in Choice
    BY DialAssumption
  <2>2. Rest'
    BY <1>2, <2>1, TypeFacts DEF Pick, Rest
  <2>3. CASE currentPermSid \in Active(sessions)
    BY <1>2, <2>1, <2>2, <2>3, SoundKept DEF Pick, AppState
  <2>4. CASE currentPermSid \notin Active(sessions)
    <3>1. sessions' = sessions /\ PermShowNext(sessions, permQueue)
      BY <1>2, <2>4 DEF Pick
    <3>2. PermShowNext(sessions', permQueue)
      BY <3>1
    <3> QED
      BY <2>2, <2>4, <3>1, <3>2, SoundSettles
  <2> QED
    BY <2>3, <2>4
<1>3. CASE CommitDecision
  <2>1. sent' \in Decision \cup {Nothing}
    BY <1>3, TypeFacts DEF CommitDecision, SendDecision, Decision, Active, Rest
  <2>2. Rest'
    BY <1>3, <2>1, TypeFacts DEF CommitDecision, Rest
  <2> QED
    BY <1>3, <2>2, SoundSettles DEF CommitDecision
<1>4. CASE PermTimeOut
  <2>1. sent' \in Decision \cup {Nothing}
    BY <1>4, TypeFacts DEF PermTimeOut, SendDecision, Decision, Rest
  <2>2. Rest'
    BY <1>4, <2>1, TypeFacts DEF PermTimeOut, Rest
  <2>3. CASE currentPermSid = NoSid
    <3>1. currentPermSid \notin Active(sessions)
      BY <2>3, DialAssumption DEF Active
    <3> QED
      BY <1>4, <2>2, <2>3, <3>1, SoundSettles DEF PermTimeOut
  <2>4. CASE currentPermSid # NoSid
    <3>1. currentPermSid \in Active(sessions)
      BY <2>4, TypeFacts DEF Sound, QueueIsSound, Active
    <3>2. sessions' = [sessions EXCEPT ![currentPermSid] = "idle"]
      BY <1>4, <2>4, <3>1 DEF PermTimeOut, Active
    <3> QED
      BY <1>4, <2>2, <3>1, <3>2, SoundSettles DEF PermTimeOut
  <2> QED
    BY <2>3, <2>4
<1>5. CASE Redraw
  <2>1. Rest'
    BY <1>5, TypeFacts DEF Redraw, Rest
  <2>2. CASE appState = "PERMISSION" /\ currentPermSid \notin Active(sessions)
    <3>1. sessions' = sessions /\ PermShowNext(sessions, permQueue)
      BY <1>5, <2>2 DEF Redraw
    <3>2. PermShowNext(sessions', permQueue)
      BY <3>1
    <3> QED
      BY <2>1, <2>2, <3>1, <3>2, SoundSettles
  <2>3. CASE ~(appState = "PERMISSION" /\ currentPermSid \notin Active(sessions))
    BY <1>5, <2>1, <2>3, SoundKept, TypeFacts DEF Redraw
  <2> QED
    BY <2>2, <2>3
<1> QED
  BY <1>1, <1>2, <1>3, <1>4, <1>5

LEMMA SoundStep == Sound /\ [Next]_vars => Sound'
BY SoundHandle, SoundElsewhere, SoundPrompt, SoundReboot
   DEF Next, Round, Press, Timers, Callback, InstallVerified, FactoryReset

\* The variables of the firmware keep their types.
THEOREM DialTypeOK == Spec => []TypeOK
<1>1. Sound => TypeOK
  BY DEF Sound
<1> QED
  BY <1>1, SoundInit, SoundStep, PTL DEF Spec

\* The queue and the slot point only at sessions of the table, none of them twice.
THEOREM QueueStaysSound == Spec => []QueueIsSound
<1>1. Sound => QueueIsSound
  BY DEF Sound
<1> QED
  BY <1>1, SoundInit, SoundStep, PTL DEF Spec

\* A session that asks is always in the slot or in the queue.
THEOREM PromptsAreKept == Spec => []NoPromptLost
<1>1. Sound => NoPromptLost
  BY DEF Sound
<1> QED
  BY <1>1, SoundInit, SoundStep, PTL DEF Spec

(***************************************************************************)
(* What is sent.  The choice in its grace is the one pressed on the prompt *)
(* in the slot, unless a failed update has brought the window back.        *)
(***************************************************************************)
SentIsSpent == phase # "draw" => sent = Nothing

LEMMA SentIsSpentStep == SentIsSpent /\ [Next]_vars => SentIsSpent'
<1> SUFFICES ASSUME SentIsSpent, [Next]_vars PROVE SentIsSpent'
  OBVIOUS
<1> USE DEF SentIsSpent, prompt, slot, link, ota
<1>1. CASE HandleRxMessage \/ Drained \/ NoGesture \/ NoTimer \/ InstallTimeOut \/ UNCHANGED vars
  BY <1>1 DEF HandleRxMessage, Drained, NoGesture, NoTimer, InstallTimeOut, vars
<1>2. CASE InstallVerified \/ InstallFails \/ FactoryReset \/ CheckLink \/ Redraw
  BY <1>2 DEF InstallVerified, InstallFails, FactoryReset, Reboot, CheckLink, Redraw
<1>3. CASE OtaBegin \/ OtaEnd \/ OtaDataFails \/ OnConnect \/ OnDisconnect
           \/ \E m \in Message : m.kind \in Kinds /\ OnWrite(m)
  BY <1>3 DEF OtaBegin, OtaEnd, OtaDataFails, OnConnect, OnDisconnect, OnWrite
<1>4. CASE (\E a \in Choices : Pick(a)) \/ Undo \/ Hold \/ PressMenu \/ PressSetting \/ PressOffer
  BY <1>4 DEF Pick, Undo, Hold, PressMenu, PressSetting, PressOffer, Turns
<1>5. CASE CommitDecision \/ PermTimeOut
  BY <1>5 DEF CommitDecision, PermTimeOut
<1> QED
  BY <1>1, <1>2, <1>3, <1>4, <1>5 DEF Next, Round, Press, Timers, Callback

LEMMA GracedShows ==
  ASSUME NEW ss, NEW q, PermShowNext(ss, q)
  PROVE  appState' # "CONFIRMING"
BY DEF PermShowNext, HomeView

LEMMA GracedStep ==
  ASSUME GraceIsPicked, [Next]_vars, ~InstallFails, ~OtaDataFails
  PROVE  GraceIsPicked'
<1> USE DEF GraceIsPicked, prompt, slot, link, ota
<1>1. CASE HandleRxMessage
  <2> DEFINE m == Head(rxQueue)
  <2>1. CASE m.kind = "offer" /\ Offered(m.newer)
    BY <1>1, <2>1 DEF HandleRxMessage, Offered, HomeView
  <2>2. CASE Closed(m.sid)
    BY <1>1, <2>2, GracedShows DEF HandleRxMessage, Closed, SettleHome, HomeView
  <2>3. CASE UNCHANGED <<sessions, prompt, ota>>
    BY <1>1, <2>3 DEF HandleRxMessage
  <2>4. CASE Asked(m.sid)
    BY <1>1, <2>4, GracedShows DEF HandleRxMessage, Asked
  <2>5. CASE Updated(m.sid, m.state)
    BY <1>1, <2>5 DEF HandleRxMessage, Updated, SettleHome, HomeView
  <2> QED
    BY <1>1, <2>1, <2>2, <2>3, <2>4, <2>5 DEF HandleRxMessage
<1>2. CASE OtaBegin \/ OtaEnd
  BY <1>2 DEF OtaBegin, OtaEnd
<1>3. CASE FactoryReset \/ InstallVerified
  BY <1>3 DEF FactoryReset, InstallVerified, Reboot
<1>4. CASE Drained \/ NoGesture \/ NoTimer \/ InstallTimeOut \/ UNCHANGED vars
  BY <1>4 DEF Drained, NoGesture, NoTimer, InstallTimeOut, vars
<1>5. CASE OnConnect \/ OnDisconnect \/ \E m \in Message : m.kind \in Kinds /\ OnWrite(m)
  BY <1>5 DEF OnConnect, OnDisconnect, OnWrite
<1>6. CASE CheckLink
  BY <1>6 DEF CheckLink
<1>7. CASE \E a \in Choices : Pick(a)
  BY <1>7, GracedShows DEF Pick
<1>8. CASE Undo \/ Hold \/ PressMenu \/ PressSetting \/ PressOffer
  <2>1. appState' # "CONFIRMING"
    BY <1>8, DialAssumption DEF Undo, Hold, PressMenu, PressSetting, PressOffer, Turns,
       HomeView, Entries
  <2> QED
    BY <1>8, <2>1 DEF Undo, Hold, PressMenu, PressSetting, PressOffer, Turns
<1>9. CASE CommitDecision \/ PermTimeOut
  <2>1. appState' # "CONFIRMING"
    BY <1>9, GracedShows DEF CommitDecision, PermTimeOut
  <2> QED
    BY <1>9, <2>1 DEF CommitDecision, PermTimeOut
<1>10. CASE Redraw
  BY <1>10, GracedShows DEF Redraw
<1> QED
  BY <1>1, <1>2, <1>3, <1>4, <1>5, <1>6, <1>7, <1>8, <1>9, <1>10
     DEF Next, Round, Press, Timers, Callback

\* Only what was pressed on the prompt of a session, and not undone, is sent for it,
\* whatever is sent to the dial and held on it, until a failed update has brought
\* back the grace window of another prompt.
THEOREM SentAsPicked == Spec => SendsWhatWasPicked
<1>1. Init => SentIsSpent
  BY DEF Init, SentIsSpent
<1>2. ASSUME SentIsSpent, GraceIsPicked, CommitDecision, sent' # Nothing
      PROVE  sent' = [sid |-> currentPermSid, ans |-> picked]
  <2>1. currentPermSid \in Active(sessions)
    BY <1>2 DEF CommitDecision, SentIsSpent
  <2>2. sent' = [sid |-> currentPermSid, ans |-> confirmChoice]
    BY <1>2, <2>1 DEF CommitDecision, SendDecision
  <2>3. currentPermSid # NoSid
    BY <2>1, DialAssumption DEF Active
  <2> QED
    BY <1>2, <2>2, <2>3 DEF CommitDecision, GraceIsPicked
<1>3. SentIsSpent /\ [Next]_vars =>
        [GraceIsPicked =>
           /\ CommitDecision /\ sent' # Nothing => sent' = [sid |-> currentPermSid, ans |-> picked]
           /\ GraceIsPicked' \/ InstallFails \/ OtaDataFails]_vars
  BY <1>2, GracedStep
<1> QED
  BY <1>1, <1>3, SentIsSpentStep, PTL DEF Spec, SendsWhatWasPicked

(***************************************************************************)
(* Who has the screen.  It leaves a prompt only when the slot and the      *)
(* queue are empty - with NoPromptLost, when no session asks - or by one   *)
(* of the steps PromptsTakeOver names.                                     *)
(***************************************************************************)
LEMMA ShowNextShows ==
  ASSUME NEW ss, NEW q, PermShowNext(ss, q)
  PROVE  PromptOnScreen'
BY DEF PermShowNext, OnPrompt, PromptOnScreen

LEMMA ShownStep ==
  ASSUME TypeOK, PromptOnScreen, [Next]_vars, ~Hold, ~OtaBegin, ~OtaDataFails, ~InstallFails,
         ~(appState = "CONFIRMING" /\ appState' = "OTA_PROMPT")
  PROVE  PromptOnScreen'
<1> USE DEF prompt, slot, link, ota
<1>1. CASE HandleRxMessage
  <2> DEFINE m == Head(rxQueue)
  <2>1. CASE Offered(m.newer)
    <3>1. UNCHANGED <<currentPermSid, permQueue>>
      BY <2>1 DEF Offered
    <3>2. OnPrompt => OnPrompt'
      BY <2>1 DEF Offered, OnPrompt
    <3> QED
      BY <3>1, <3>2 DEF PromptOnScreen
  <2>2. CASE Closed(m.sid)
    <3>1. CASE PermShowNext(sessions', Without(permQueue, m.sid))
      BY <3>1, ShowNextShows
    <3>2. CASE /\ permQueue' = Without(permQueue, m.sid)
               /\ currentPermSid' = IF m.sid = currentPermSid THEN NoSid ELSE currentPermSid
               /\ SettleHome(sessions')
      <4>1. OnPrompt' <=> OnPrompt
        BY <3>2 DEF OnPrompt, SettleHome, HomeView
      <4>2. permQueue = << >> => permQueue' = << >>
        BY <3>2 DEF Without, Queued
      <4> QED
        BY <3>2, <4>1, <4>2 DEF PromptOnScreen
    <3> QED
      BY <2>2, <3>1, <3>2 DEF Closed
  <2>3. CASE UNCHANGED <<sessions, prompt, ota>>
    BY <2>3 DEF PromptOnScreen, OnPrompt
  <2>4. CASE Asked(m.sid)
    BY <2>4, ShowNextShows DEF Asked, PromptOnScreen, OnPrompt
  <2>5. CASE Updated(m.sid, m.state)
    BY <2>5 DEF Updated, SettleHome, HomeView, PromptOnScreen, OnPrompt
  <2> QED
    BY <1>1, <2>1, <2>2, <2>3, <2>4, <2>5 DEF HandleRxMessage
<1>2. CASE InstallVerified \/ FactoryReset
  BY <1>2 DEF InstallVerified, FactoryReset, Reboot, PromptOnScreen
<1>3. CASE Drained \/ NoGesture \/ NoTimer \/ InstallTimeOut \/ OtaEnd \/ UNCHANGED vars
  BY <1>3 DEF Drained, NoGesture, NoTimer, InstallTimeOut, OtaEnd, vars, PromptOnScreen, OnPrompt
<1>4. CASE OnConnect \/ OnDisconnect \/ \E m \in Message : m.kind \in Kinds /\ OnWrite(m)
  BY <1>4 DEF OnConnect, OnDisconnect, OnWrite, PromptOnScreen, OnPrompt
<1>5. CASE CheckLink
  BY <1>5 DEF CheckLink, PromptOnScreen, OnPrompt
<1>6. ASSUME NEW a \in Choices, Pick(a) PROVE PromptOnScreen'
  BY <1>6, ShowNextShows DEF Pick, PromptOnScreen, OnPrompt
<1>7. CASE Undo \/ PressMenu \/ PressSetting \/ PressOffer
  <2>1. UNCHANGED <<currentPermSid, permQueue>>
    BY <1>7 DEF Undo, PressMenu, PressSetting, PressOffer, Turns
  <2>2. OnPrompt => OnPrompt'
    BY <1>7 DEF Undo, PressMenu, PressSetting, PressOffer, Turns, OnPrompt
  <2> QED
    BY <2>1, <2>2 DEF PromptOnScreen
<1>8. CASE CommitDecision \/ PermTimeOut
  BY <1>8, ShowNextShows DEF CommitDecision, PermTimeOut
<1>9. CASE Redraw
  BY <1>9, ShowNextShows DEF Redraw, PromptOnScreen, OnPrompt
<1> QED
  BY <1>1, <1>2, <1>3, <1>4, <1>5, <1>6, <1>7, <1>8, <1>9
     DEF Next, Round, Press, Timers, Callback

\* The monitor is never on the screen while a session asks, whatever the user opens
\* and however the prompts arrive, until a hold, an offer or an update has taken the
\* screen from a prompt; nothing else ever takes it.
THEOREM PromptsHaveTheScreen == Spec => PromptsTakeOver
<1>1. Sound => TypeOK
  BY DEF Sound
<1>2. ASSUME Sound, PromptOnScreen, appState \in {"IDLE", "SESSION_LIST"}
      PROVE  \A s \in Sid : ~Asks(sessions, s)
  BY <1>2, DialAssumption DEF Sound, NoPromptLost, PromptOnScreen, OnPrompt, Queued
<1>3. Sound /\ [Next]_vars =>
        [PromptOnScreen =>
           /\ appState \in {"IDLE", "SESSION_LIST"} => \A s \in Sid : ~Asks(sessions, s)
           /\ \/ PromptOnScreen' \/ Hold
              \/ appState = "CONFIRMING" /\ appState' = "OTA_PROMPT"
              \/ OtaBegin \/ OtaDataFails \/ InstallFails]_vars
  BY <1>1, <1>2, ShownStep
<1> QED
  BY <1>3, SoundInit, SoundStep, PTL DEF Spec, PromptsTakeOver
=============================================================================
