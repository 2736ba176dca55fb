---------------------------- MODULE SessionStore ----------------------------
(***************************************************************************)
(* session.Store with its clock: the sessions by id, their insertion       *)
(* order, and the sweeper goroutine of the daemon that heals stale states. *)
(*                                                                         *)
(* A session keeps its age (now - Updated) in place of the timestamp: only *)
(* differences are ever compared.  Every operation holds the store's mutex *)
(* from its first to its last access, so each one is one action.           *)
(***************************************************************************)
EXTENDS Protocol, Naturals, Sequences, FiniteSets

CONSTANTS NoCall, Project, NoProject,
          Grace,            \* blockedRenderGrace
          BlockedSilence, WorkingSilence, MaxAge,   \* Sweep's three limits
          SweepEvery        \* time units between two ticks of the sweeper

\* daemon.New replaces a limit that is not positive by its default.
ASSUME StoreAssumption ==
  /\ Grace \in Nat
  /\ BlockedSilence \in Nat \ {0}
  /\ WorkingSilence \in Nat \ {0}
  /\ MaxAge \in Nat \ {0}
  /\ SweepEvery \in Nat \ {0}
  /\ NoCall \notin Call
  /\ NoProject \notin Project
  /\ IsFiniteSet(Sid)

VARIABLES byID,        \* id -> session, for the sessions known
          order,       \* their ids, oldest first
          sinceSweep   \* time since the sweeper last ran

vars == <<byID, order, sinceSweep>>

Session == [state : State, call : Call \cup {NoCall},
            project : Project \cup {NoProject}, age : Nat]

Known(s) == s \in DOMAIN byID

Init == byID = << >> /\ order = << >> /\ sinceSweep = 0
-----------------------------------------------------------------------------
\* ensure: the session, created idle when it is new, touched now.  An event
\* without a working directory leaves the label alone.
Ensured(s, p) ==
  LET old == IF Known(s) THEN byID[s]
             ELSE [state |-> "idle", call |-> NoCall,
                   project |-> NoProject, age |-> 0]
  IN  [old EXCEPT !.project = IF p = NoProject THEN @ ELSE p, !.age = 0]

\* With a bug: a known id is listed again.
PutAgain(s, session) ==
  /\ byID' = [x \in DOMAIN byID \cup {s} |-> IF x = s THEN session ELSE byID[x]]
  /\ order' = Append(order, s)
  /\ UNCHANGED sinceSweep

Put(s, session) ==
  /\ byID' = [x \in DOMAIN byID \cup {s} |-> IF x = s THEN session ELSE byID[x]]
  /\ order' = IF Known(s) THEN order ELSE Append(order, s)
  /\ UNCHANGED sinceSweep

\* Only the ids in kept stay, in the order they had.
Picks(kept) ==
  {pos \in [1 .. Cardinality(kept) -> DOMAIN order] :
     /\ \A i, j \in DOMAIN pos : i < j => pos[i] < pos[j]
     /\ kept = {order[pos[i]] : i \in DOMAIN pos}}

Retain(kept) ==
  \E pos \in Picks(kept) : order' = [i \in DOMAIN pos |-> order[pos[i]]]

Upsert(s, p, state, call) ==
  Put(s, [Ensured(s, p) EXCEPT !.state = state, !.call = call])

\* With a bug: the call on the screen is lost.
TouchForgets(s, p, state) == Put(s, [Ensured(s, p) EXCEPT !.state = state, !.call = NoCall])

Touch(s, p, state) == Put(s, [Ensured(s, p) EXCEPT !.state = state])

\* A cue too young to have been answered: the message is part of drawing it.
FreshCue(s) == Known(s) /\ byID[s].state \in Waiting /\ byID[s].age < Grace

TouchLiveness(s, p) == ~FreshCue(s) /\ Touch(s, p, "working")

SetState(s, state) ==
  /\ Known(s)
  /\ byID' = [byID EXCEPT ![s].state = state, ![s].age = 0]
  /\ UNCHANGED <<order, sinceSweep>>

Remove(s) ==
  /\ Known(s)
  /\ byID' = [x \in DOMAIN byID \ {s} |-> byID[x]]
  /\ Retain(DOMAIN byID \ {s})
  /\ UNCHANGED sinceSweep
-----------------------------------------------------------------------------
\* With a bug: the limit itself is too long.
SilentFor(s, limit) == limit > 0 /\ byID[s].age >= limit

Silent(s, limit) == limit > 0 /\ byID[s].age > limit

\* With a bug: blocked is forgotten.
StaleWorking(s) == byID[s].state = "working" /\ Silent(s, WorkingSilence)

Stale(s) == \/ byID[s].state = "blocked" /\ Silent(s, BlockedSilence)
            \/ byID[s].state = "working" /\ Silent(s, WorkingSilence)

Dead == {s \in DOMAIN byID : Silent(s, MaxAge)}

\* One pass over the sessions, as the sweeper makes at each tick.  A demotion
\* leaves the age alone.
Sweep ==
  /\ sinceSweep = SweepEvery
  /\ byID' = [s \in DOMAIN byID \ Dead |->
                IF Stale(s) THEN [byID[s] EXCEPT !.state = "idle"] ELSE byID[s]]
  /\ Retain(DOMAIN byID \ Dead)
  /\ sinceSweep' = 0

\* The ticker is not late: time stops at a due sweep.
Tick ==
  /\ sinceSweep < SweepEvery
  /\ sinceSweep' = sinceSweep + 1
  /\ byID' = [s \in DOMAIN byID |-> [byID[s] EXCEPT !.age = @ + 1]]
  /\ UNCHANGED order
-----------------------------------------------------------------------------
\* A hook, or the handler of one, reaching the store for session s.
Hook(s) ==
  \/ \E p \in Project \cup {NoProject}, c \in Call, st \in State \ {"idle"} :
       Upsert(s, p, st, c)
  \/ \E p \in Project \cup {NoProject}, st \in {"idle", "working"} : Touch(s, p, st)
  \/ \E st \in {"idle", "working"} : SetState(s, st)
  \/ \E p \in Project \cup {NoProject} : TouchLiveness(s, p)
  \/ Remove(s)

Next == (\E s \in Sid : Hook(s)) \/ Sweep \/ Tick

Spec == Init /\ [][Next]_vars
-----------------------------------------------------------------------------
\* Type invariant.
TypeOK ==
  /\ DOMAIN byID \subseteq Sid
  /\ byID \in [DOMAIN byID -> Session]
  /\ order \in Seq(Sid)
  /\ sinceSweep \in 0 .. SweepEvery

\* order lists each known session exactly once: the map and the list, updated
\* separately by ensure, Remove and the in-place deletion of Sweep, agree.
OrderListsStore ==
  /\ DOMAIN byID = {order[i] : i \in DOMAIN order}
  /\ \A i, j \in DOMAIN order : order[i] = order[j] => i = j

\* A cue that nothing refreshed is not shown for longer than its limit and one
\* sweep period, and no session outlives MaxAge by more than a period
\* ("we let transient states time out").
CuesExpire ==
  \A s \in DOMAIN byID :
    /\ byID[s].age <= MaxAge + SweepEvery
    /\ byID[s].state = "blocked" => byID[s].age <= BlockedSilence + SweepEvery
    /\ byID[s].state = "working" => byID[s].age <= WorkingSilence + SweepEvery

\* The rows of two sessions never change places while both are known, whatever
\* is removed around them ("kept in insertion order so the dial's list is
\* stable").
Precedes(s, t, seq) ==
  \E i, j \in DOMAIN seq : i < j /\ seq[i] = s /\ seq[j] = t

RowsKeepTheirOrder ==
  [][\A s, t \in DOMAIN byID \cap DOMAIN byID' :
        Precedes(s, t, order) => Precedes(s, t, order')]_vars

\* The store implements its untimed promise.
Untimed == INSTANCE Roster WITH
  roster <- [s \in Sid |-> IF Known(s)
                           THEN [state |-> byID[s].state, call |-> byID[s].call]
                           ELSE [state |-> "absent", call |-> NoCall]]

KeepsRosterPromise == Untimed!RosterSpec
=============================================================================
