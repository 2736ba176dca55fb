----------------------------- MODULE RosterView -----------------------------
(***************************************************************************)
(* In which order, and under which names, the sessions are listed: on the  *)
(* simulator as the daemon sorts and labels its snapshot, on the Dial as   *)
(* its loop sorts the slots that messages have put the sessions into.      *)
(*                                                                         *)
(* Messages arrive at once here; BleLink has what happens on their way.    *)
(***************************************************************************)
EXTENDS Naturals, Sequences, SequencesExt

CONSTANTS Sid, State, Free,
          ProjectOf, \* the project of a session
          PrefixOf,  \* the first 3 characters of its id
          MaxSlots   \* MAX_SESSIONS

\* What is assumed of the constants.
RosterViewAssumption ==
  /\ State \subseteq {"permission_request", "blocked", "working", "idle"}
  /\ "closed" \notin State /\ Free \notin Sid /\ MaxSlots \in Nat \ {0}

VARIABLES order, \* Store.order
          state, \* of each session in it
          sent,  \* what the bridge has told the Dial of each session
          slots  \* sessions[] of the Dial: the id in each place, or Free

vars == <<order, state, sent, slots>>

Members(rows) == {rows[i] : i \in DOMAIN rows}
Known == Members(order)
InUse(ids) == {i \in DOMAIN ids : ids[i] # Free}
InSlot == InUse(slots)

Init ==
  /\ order = << >> /\ state = [s \in Sid |-> "closed"]
  /\ sent = [s \in Sid |-> "closed"] /\ slots = [i \in 1..MaxSlots |-> Free]
-----------------------------------------------------------------------------
(* The two orders *)

StateRank(st) ==
  CASE st \in {"permission_request", "blocked"} -> 0
    [] st = "working" -> 1
    [] OTHER -> 2

\* The ranks of the rows in S, which list ids in the states of.
Ranks(S, ids, of) == [i \in S |-> StateRank(of[ids[i]])]

\* Where the inner loop of the insertion sort puts row n.
Place(above, rank, n) ==
  Min({k \in 1..(Len(above) + 1) : \A j \in k..Len(above) : rank[above[j]] > rank[n]})

\* The rows up to the last that have a rank, sorted by insertion.
SortedRows(rank, last) ==
  LET rows[n \in 0..last] ==
        IF n = 0 THEN << >>
        ELSE LET above == rows[n - 1] IN
             IF n \notin DOMAIN rank THEN above ELSE InsertAt(above, Place(above, rank, n), n)
  IN  rows[last]

Listed(rows, ids) == [i \in DOMAIN rows |-> ids[rows[i]]]

\* prioritize: sort.SliceStable, which finds what any stable sort does.
Prioritize(ids, of) == Listed(SortedRows(Ranks(DOMAIN ids, ids, of), Len(ids)), ids)

\* drawSessionList: the slots in use.
DialRows(ids, of) == Listed(SortedRows(Ranks(InUse(ids), ids, of), MaxSlots), ids)

\* disambiguate: a suffix for those that share their project.
Label(s) ==
  IF \E r \in Known \ {s} : ProjectOf[r] = ProjectOf[s]
  THEN <<ProjectOf[s], PrefixOf[s]>> ELSE <<ProjectOf[s]>>
-----------------------------------------------------------------------------
\* With a bug: a session that changes state moves to the end.
UpsertLast(s, st) ==
  /\ state' = [state EXCEPT ![s] = st] /\ st # state[s]
  /\ order' = Append(SelectSeq(order, LAMBDA r : r # s), s)
  /\ UNCHANGED <<sent, slots>>

Upsert(s, st) ==
  /\ state' = [state EXCEPT ![s] = st] /\ st # state[s]
  /\ order' = IF s \in Known THEN order ELSE Append(order, s)
  /\ UNCHANGED <<sent, slots>>

Drop(s) ==
  /\ state' = [state EXCEPT ![s] = "closed"]
  /\ \E i \in DOMAIN order : order[i] = s /\ order' = RemoveAt(order, i)
  /\ UNCHANGED <<sent, slots>>

\* removeSession frees the slot.
Close(s) ==
  /\ sent[s] # "closed" /\ s \notin Known /\ sent' = [sent EXCEPT ![s] = "closed"]
  /\ slots' = [i \in DOMAIN slots |-> IF slots[i] = s THEN Free ELSE slots[i]]
  /\ UNCHANGED <<order, state>>

\* With a bug: a session is not looked for before it gets a slot.
SlotTwice(s) ==
  IF InSlot = DOMAIN slots THEN slots ELSE [slots EXCEPT ![Min(DOMAIN slots \ InSlot)] = s]

\* newSession: its own slot, or the first free one, or none.
Slot(s) ==
  IF s \in Members(slots) \/ InSlot = DOMAIN slots THEN slots
  ELSE [slots EXCEPT ![Min(DOMAIN slots \ InSlot)] = s]

\* flush closes what has vanished and goes on after a close that failed; it ranges
\* over maps, so that sessions come in any order, whatever that of the snapshot was.
Send(s) ==
  /\ s \in Known /\ sent[s] # state[s]
  /\ sent' = [sent EXCEPT ![s] = state[s]] /\ slots' = Slot(s)
  /\ UNCHANGED <<order, state>>

\* The link is lost: both sides start afresh.
Reconnect ==
  /\ sent' = [s \in Sid |-> "closed"] /\ slots' = [i \in DOMAIN slots |-> Free]
  /\ UNCHANGED <<order, state>>

Next ==
  \/ \E s \in Sid, st \in State : Upsert(s, st)
  \/ \E s \in Sid : Drop(s) \/ Close(s) \/ Send(s)
  \/ Reconnect

Spec == Init /\ [][Next]_vars
-----------------------------------------------------------------------------
\* Type invariant: no session has two slots.
TypeOK ==
  /\ order \in Seq(Sid) /\ Cardinality(Known) = Len(order)
  /\ state \in [Sid -> State \cup {"closed"}] /\ sent \in [Sid -> State \cup {"closed"}]
  /\ slots \in [1..MaxSlots -> Sid \cup {Free}]
  /\ \A i, j \in InSlot : slots[i] = slots[j] => i = j

\* The pairs of sessions of which the first is listed above the second.
Pairs(rows) == {<<rows[i], rows[j]>> : i, j \in DOMAIN rows}
Above(rows) == UNION {{<<rows[i], rows[j]>> : i \in 1..(j - 1)} : j \in DOMAIN rows}

\* "So rows don't jump around": as long as two sessions keep their tiers, neither
\* a message nor the other sessions change which of them is listed first, on the
\* simulator or on the Dial, a new connection apart.
StayPut(rows, new, was, is) ==
  \A p \in Above(rows) \cap Pairs(new) :
    (\A s \in {p[1], p[2]} : StateRank(was[s]) = StateRank(is[s])) => p \in Above(new)
NoRowJumps ==
  /\ order # order' \/ state # state' =>
       \A old \in {Prioritize(order, state)}, new \in {Prioritize(order', state')} :
         StayPut(old, new, state, state')
  /\ slots # slots' \/ sent # sent' =>
       \A old \in {DialRows(slots, sent)}, new \in {DialRows(slots', sent')} :
         StayPut(old, new, sent, sent')
RowsStayPut == [][NoRowJumps]_vars

\* "Done once here so every device shows the same order".
Synced == sent = state /\ Known = Members(slots) \ {Free}
SameOrder == Synced => DialRows(slots, sent) = Prioritize(order, state)

\* "Makes each session's display name unique".
LabelsAreUnique == \A r, s \in Known : Label(r) = Label(s) => r = s
=============================================================================
