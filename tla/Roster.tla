------------------------------- MODULE Roster -------------------------------
(***************************************************************************)
(* What session.Store promises to the daemon when time is left out: a cell *)
(* per session, changed by the store's operations, and by a decay that may *)
(* demote or drop a session between any two of them.  SessionStore, which  *)
(* keeps the timestamps, implements this module; Bridge is built on it.    *)
(***************************************************************************)
EXTENDS Protocol

CONSTANT NoCall   \* empty tool and command

ASSUME RosterAssumption == NoCall \notin Call

VARIABLE roster    \* the sessions the bridge knows, by id

Absent == [state |-> "absent", call |-> NoCall]
Cell   == [state : State, call : Call \cup {NoCall}]

Known(s) == roster[s] # Absent

\* ensure: an unknown session starts idle, without a tool or a command.
Ensured(s) == IF Known(s) THEN roster[s] ELSE [state |-> "idle", call |-> NoCall]

RosterInit == roster = [s \in Sid |-> Absent]

Upsert(s, state, call) ==
  roster' = [roster EXCEPT ![s] = [state |-> state, call |-> call]]

Touch(s, state) ==
  roster' = [roster EXCEPT ![s] = [Ensured(s) EXCEPT !.state = state]]

\* A weak liveness signal asserts "working".  Whether it may do so on a
\* waiting session depends on the age of the cue, which is not kept here: the
\* signal that is ignored is a step that changes nothing.
TouchLiveness(s) == Touch(s, "working")

SetState(s, state) ==
  roster' = IF Known(s) THEN [roster EXCEPT ![s].state = state] ELSE roster

Drop(s) == roster' = [roster EXCEPT ![s] = Absent]

\* Sweep: the sessions in gone are dropped, those in quiet fall back to idle.
\* An approval on the dial is never demoted.
Decay(gone, quiet) ==
  /\ \A s \in quiet : roster[s].state \in {"working", "blocked"}
  /\ roster' = [s \in Sid |->
                  IF s \in gone THEN Absent
                  ELSE IF s \in quiet THEN [roster[s] EXCEPT !.state = "idle"]
                  ELSE roster[s]]

RosterNext ==
  \/ \E s \in Sid, c \in Call, st \in State \ {"idle"} : Upsert(s, st, c)
  \/ \E s \in Sid, st \in {"idle", "working"} : Touch(s, st) \/ SetState(s, st)
  \/ \E s \in Sid : TouchLiveness(s) \/ Drop(s)
  \/ \E gone, quiet \in SUBSET Sid : Decay(gone, quiet)

RosterSpec == RosterInit /\ [][RosterNext]_roster
=============================================================================
