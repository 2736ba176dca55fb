---------------------------- MODULE SessionSweep ----------------------------
(***************************************************************************)
(* The loop inside session.Store.Sweep: it walks the order by index while  *)
(* holding the mutex and deletes entries of the slice under its own feet.  *)
(* It implements the one-step Sweep of SessionStore.                       *)
(***************************************************************************)
EXTENDS SessionStore

S == INSTANCE SequencesExt

VARIABLE at   \* index of the loop in order; 0 while the mutex is free

loopVars == <<byID, order, sinceSweep, at>>

LoopInit == Init /\ at = 0

SweepBegin ==
  /\ at = 0
  /\ sinceSweep = SweepEvery
  /\ at' = 1
  /\ UNCHANGED <<byID, order, sinceSweep>>

\* With a bug: the index is not taken back.
SweepDropSkips ==
  /\ at \in DOMAIN order
  /\ order[at] \in Dead
  /\ byID' = [s \in DOMAIN byID \ {order[at]} |-> byID[s]]
  /\ order' = S!RemoveAt(order, at)
  /\ at' = at + 1
  /\ UNCHANGED sinceSweep

\* Deleting entry i moves its successor to i: the loop takes its index back.
SweepDrop ==
  /\ at \in DOMAIN order
  /\ order[at] \in Dead
  /\ byID' = [s \in DOMAIN byID \ {order[at]} |-> byID[s]]
  /\ order' = S!RemoveAt(order, at)
  /\ UNCHANGED <<sinceSweep, at>>

\* With a bug: a session that is looked at counts as heard of.
SweepKeepStamps ==
  /\ at \in DOMAIN order
  /\ order[at] \notin Dead
  /\ byID' = [byID EXCEPT ![order[at]].age = 0,
                          ![order[at]].state = IF Stale(order[at]) THEN "idle" ELSE @]
  /\ at' = at + 1
  /\ UNCHANGED <<order, sinceSweep>>

\* A demotion leaves the age alone.
SweepKeep ==
  /\ at \in DOMAIN order
  /\ order[at] \notin Dead
  /\ byID' = IF Stale(order[at]) THEN [byID EXCEPT ![order[at]].state = "idle"] ELSE byID
  /\ at' = at + 1
  /\ UNCHANGED <<order, sinceSweep>>

SweepEnd ==
  /\ at > Len(order)
  /\ at' = 0
  /\ sinceSweep' = 0
  /\ UNCHANGED <<byID, order>>

SweepStep == SweepBegin \/ SweepDrop \/ SweepKeep \/ SweepEnd

\* The others wait for the mutex while the loop runs.
Between(A) == at = 0 /\ UNCHANGED at /\ A

LoopNext == Between(Tick) \/ (\E s \in Sid : Between(Hook(s))) \/ SweepStep

LoopSpec == LoopInit /\ [][LoopNext]_loopVars

LoopFairSpec == LoopSpec /\ WF_loopVars(SweepStep) /\ WF_loopVars(Between(Tick))
-----------------------------------------------------------------------------
\* While the loop runs, the store is mapped to what it will leave behind: the
\* entries before the index are done, those from the index on are swept.
Ahead == {order[i] : i \in {j \in DOMAIN order : at > 0 /\ j >= at}}

Outcome == [s \in DOMAIN byID \ (Dead \cap Ahead) |->
              IF s \in Ahead /\ Stale(s) THEN [byID[s] EXCEPT !.state = "idle"]
              ELSE byID[s]]

Survivors ==
  LET pos == CHOOSE p \in Picks(DOMAIN Outcome) : TRUE
  IN  [i \in DOMAIN pos |-> order[pos[i]]]

Atomic == INSTANCE SessionStore WITH
  byID <- Outcome,
  order <- Survivors,
  sinceSweep <- IF at = 0 THEN sinceSweep ELSE 0

\* The loop, index arithmetic included, has the effect of one atomic sweep
\* that keeps the order of the survivors.
LoopIsOneSweep == Atomic!Spec

\* A waiting cue goes out only by a hook of its own session or by a sweep when
\* it is old enough, never by what happens to another session; and a sweep
\* never takes down an approval on the dial before the session is dropped.
CueGoesOutForAReason ==
  [][\A s \in DOMAIN byID :
       LET out == s \notin DOMAIN byID' \/ byID'[s].state \notin Waiting
       IN  byID[s].state \in Waiting /\ out =>
             \/ Between(Hook(s))
             \/ byID[s].age > MaxAge
             \/ byID[s].state = "blocked" /\ byID[s].age > BlockedSilence]_loopVars

\* If the hooks of a session fall silent for good, the session is forgotten
\* for good (a closed terminal, a machine that sleeps).
SilentSessionIsForgotten ==
  \A s \in Sid : <>[][~Between(Hook(s))]_loopVars => <>[](s \notin DOMAIN byID)
=============================================================================
