------------------------------ MODULE BleLink ------------------------------
(***************************************************************************)
(* How the dial's table follows the bridge's store: broadcasts that hand   *)
(* a snapshot to ble.Device, the writer that sends what differs from the   *)
(* view it last delivered, the connection it does this on, and the queue   *)
(* and the table of the firmware, whose rows the dial changes by itself,   *)
(* too, when it sends an answer.                                           *)
(*                                                                         *)
(* A link may drop at any time, also because the writer gives it up after  *)
(* two failed flushes (resetLink).  Left out: the clock, the usage gauge   *)
(* and offers of an update, which the dial keeps outside its table (Dial   *)
(* and Ota know of offers), a table that is full, and which of the prompts *)
(* that wait is on the screen (Dial has both).                             *)
(***************************************************************************)
EXTENDS Naturals, Sequences

CONSTANTS Session,
          Handler,          \* handlers of hooks, which broadcast as the sweeper does
          View,             \* what a session may look like
          ViewsOf,          \* what each session does look like at times
          TooLong,          \* views whose message outgrows the dial's buffer
          MaxRx             \* capacity of rxQueue

\* No session: the view of a message that closes one.
Absent == [state |-> "closed", command |-> ""]

ASSUME BleAssumption ==
  /\ Session # {}
  /\ View \subseteq [state : STRING, command : STRING] \ {Absent} /\ TooLong \subseteq View
  /\ ViewsOf \in [Session -> SUBSET View]
  /\ MaxRx \in Nat \ {0}

\* No snapshot.
NoSnapshot == << >>

VARIABLES store,   \* what the store holds of each session
          held,    \* the snapshot a handler has taken and not handed over
          pending, \* the snapshot that waits for the writer
          \* the writer: the sessions it has still to write, what it writes of
          \* them, and the one whose write has landed
          todo, cur, landed,
          last,    \* what the dial last confirmed
          conn,    \* "down", "setup" (hasRX) or "up" (connected, too)
          \* the dial
          bleConnected, wasConnected, phase, rxQueue, sessions,
          prompted, \* sessions whose prompt is on the dial's screen or waits for it
          settled,  \* history: sessions whose row the dial has changed by itself since
                    \* it last heard of them
          mislaid   \* history: what the two sides may disagree about, see below

writer == <<todo, cur, landed>>
rows   == <<sessions, prompted, settled>>
dial   == <<wasConnected, phase, rows>>
linkVars == <<store, held, pending, writer, last, conn, bleConnected, dial, rxQueue, mislaid>>

Nowhere == [s \in Session |-> Absent]
Snapshot == [Session -> View \cup {Absent}]

\* The rows the dial may make of one it was told of, and any it may have.
OwnRow(v) == {[v EXCEPT !.state = state] : state \in {"idle", "working"}}
Row == {Absent} \cup View \cup UNION {OwnRow(v) : v \in View}

\* displayEqual: the command is shown in a permission prompt only.
DisplayEqual(v, w) ==
  \/ v = w
  \/ /\ Absent \notin {v, w}
     /\ v.state = w.state /\ v.state # "permission_request"

\* What the dial will show of a session once it has handled what is queued.
About(s) == {i \in DOMAIN rxQueue : rxQueue[i].sid = s}
WillShow(s) ==
  IF About(s) = {} THEN sessions[s]
  ELSE rxQueue[CHOOSE i \in About(s) : \A j \in About(s) : j <= i].view

\* Whether that is v, or what the dial has made of v since it heard of it.
StandsFor(s, v) ==
  IF s \in settled /\ About(s) = {} THEN sessions[s] \in OwnRow(v) ELSE WillShow(s) = v

LinkInit ==
  /\ store = Nowhere /\ held = [h \in Handler |-> NoSnapshot] /\ pending = NoSnapshot
  /\ todo = {} /\ cur = << >> /\ landed = {}
  /\ last = Nowhere /\ conn = "down"
  /\ bleConnected = FALSE /\ wasConnected = FALSE /\ phase = "drain"
  /\ rxQueue = << >> /\ sessions = Nowhere /\ prompted = {} /\ settled = {}
  /\ mislaid = {}
-----------------------------------------------------------------------------
(* The store, and the broadcasts *)

Change ==
  /\ \E s \in Session : \E v \in ViewsOf[s] \cup {Absent} : store' = [store EXCEPT ![s] = v]
  /\ UNCHANGED <<held, pending, writer, last, conn, bleConnected, dial, rxQueue, mislaid>>

\* A tick of the sweeper.  Its broadcast is one step: where another one falls
\* between its two halves, it is taken for the handler's.
Broadcast ==
  /\ pending' = store
  /\ UNCHANGED <<store, held, writer, last, conn, bleConnected, dial, rxQueue, mislaid>>

TakeSnapshot(h) ==
  /\ held[h] = NoSnapshot /\ held' = [held EXCEPT ![h] = store]
  /\ UNCHANGED <<store, pending, writer, last, conn, bleConnected, dial, rxQueue, mislaid>>

\* Update never blocks: the snapshot takes the place of one that waits.
Update(h) ==
  /\ held[h] # NoSnapshot /\ held' = [held EXCEPT ![h] = NoSnapshot]
  /\ pending' = held[h]
  /\ UNCHANGED <<store, writer, last, conn, bleConnected, dial, rxQueue, mislaid>>
-----------------------------------------------------------------------------
(* writer and flush *)

\* flush compares with a copy of last, made as it begins; while there is no
\* connection it does nothing.
Begin ==
  /\ todo = {} /\ pending # NoSnapshot /\ pending' = NoSnapshot
  /\ todo' = {s \in Session : conn = "up" /\ ~DisplayEqual(last[s], pending[s])}
  /\ cur' = [s \in todo' |-> pending[s]]
  /\ UNCHANGED <<store, held, landed, last, conn, bleConnected, dial, rxQueue, mislaid>>

\* Sessions that vanished are closed before anything else is written.
InTurn(s) ==
  /\ landed = {} /\ s \in todo
  /\ cur[s] = Absent \/ \A r \in todo : cur[r] # Absent

DoneWith(s) == todo' = todo \ {s} /\ cur' = [r \in todo' |-> cur[r]]

\* RxCallback drops what outgrows its buffer, and what finds the queue full ...
Kept(s) == cur[s] \notin TooLong /\ Len(rxQueue) < MaxRx

\* ... and the write is acknowledged all the same.
OnWrite(s) ==
  IF Kept(s) THEN rxQueue' = Append(rxQueue, [sid |-> s, view |-> cur[s]])
             ELSE UNCHANGED rxQueue

Write(s) ==
  /\ InTurn(s) /\ conn # "down" /\ bleConnected /\ OnWrite(s)
  /\ landed' = {s}
  /\ mislaid' = IF Kept(s) THEN mislaid \ {s} ELSE mislaid \cup {s}
  /\ UNCHANGED <<store, held, pending, todo, cur, last, conn, bleConnected, dial>>

\* With a bug: what has failed is recorded, too.
WriteFailsRecorded(s) ==
  /\ InTurn(s) /\ DoneWith(s) /\ last' = [last EXCEPT ![s] = cur[s]]
  /\ UNCHANGED <<store, held, pending, landed, conn, bleConnected, dial,
                 rxQueue, mislaid>>

\* A write that fails may have reached the dial all the same.
WriteFails(s) ==
  /\ InTurn(s) /\ DoneWith(s)
  /\ \/ /\ conn # "down" /\ bleConnected /\ Kept(s) /\ OnWrite(s)
        /\ mislaid' = mislaid \cup {s}
     \/ UNCHANGED <<rxQueue, mislaid>>
  /\ UNCHANGED <<store, held, pending, landed, last, conn, bleConnected, dial>>

\* Only what has landed is recorded, whatever became of the connection.
Record(s) ==
  /\ s \in landed /\ landed' = {} /\ DoneWith(s)
  /\ last' = [last EXCEPT ![s] = cur[s]]
  /\ UNCHANGED <<store, held, pending, conn, bleConnected, dial, rxQueue, mislaid>>
-----------------------------------------------------------------------------
(* run: the connection *)

\* A link finds what the one before has left in the queue, and in the table if the
\* dial has not looked in between.
Connect ==
  /\ conn = "down" /\ ~bleConnected /\ bleConnected' = TRUE
  /\ mislaid' = {s \in Session : WillShow(s) # Absent}
  /\ UNCHANGED <<store, held, pending, writer, last, conn, dial, rxQueue>>

\* With a bug: last is not cleared by setup.
SetupKeeps ==
  /\ conn = "down" /\ bleConnected /\ conn' = "setup"
  /\ mislaid' = mislaid \cup landed
  /\ UNCHANGED <<store, held, pending, writer, last, bleConnected, dial, rxQueue>>

\* "Force a full resend": a write that was acknowledged on the link before is
\* recorded all the same, if its flush comes to it only now.
Setup ==
  /\ conn = "down" /\ bleConnected /\ conn' = "setup" /\ last' = Nowhere
  /\ mislaid' = mislaid \cup landed
  /\ UNCHANGED <<store, held, pending, writer, bleConnected, dial, rxQueue>>

Connected ==
  /\ conn = "setup" /\ conn' = "up"
  /\ UNCHANGED <<store, held, pending, writer, last, bleConnected, dial, rxQueue, mislaid>>

Disconnected ==
  /\ conn = "up" /\ ~bleConnected /\ conn' = "down" /\ last' = Nowhere
  /\ UNCHANGED <<store, held, pending, writer, bleConnected, dial, rxQueue, mislaid>>

Drop ==
  /\ bleConnected /\ bleConnected' = FALSE
  /\ UNCHANGED <<store, held, pending, writer, last, conn, dial, rxQueue, mislaid>>
-----------------------------------------------------------------------------
(* The dial: a round drains the queue, looks at the link, and may answer   *)

\* A message that closes a session takes its prompt along.
Handle ==
  /\ phase = "drain" /\ rxQueue # << >> /\ rxQueue' = Tail(rxQueue)
  /\ LET m == Head(rxQueue)
     IN  /\ sessions' = [sessions EXCEPT ![m.sid] = m.view]
         /\ prompted' = CASE m.view.state = "permission_request" -> prompted \cup {m.sid}
                          [] m.view = Absent                     -> prompted \ {m.sid}
                          [] OTHER                               -> prompted
         /\ settled' = settled \ {m.sid}
  /\ UNCHANGED <<store, held, pending, writer, last, conn, bleConnected, wasConnected,
                 phase, mislaid>>

Drained ==
  /\ phase = "drain" /\ rxQueue = << >> /\ phase' = "check"
  /\ UNCHANGED <<store, held, pending, writer, last, conn, bleConnected, wasConnected,
                 rxQueue, rows, mislaid>>

\* The user's choice is sent, or the prompt has timed out, and the dial changes the
\* row by itself: the bridge is not asked, and last is what it was.
Settle(s) ==
  /\ s \in prompted /\ prompted' = prompted \ {s}
  /\ sessions[s] # Absent
  /\ \E row \in OwnRow(sessions[s]) : sessions' = [sessions EXCEPT ![s] = row]
  /\ settled' = settled \cup {s}

\* A link that is gone takes the table with it, but not what is queued ...
CheckLink ==
  /\ phase = "check" /\ phase' = "note"
  /\ IF wasConnected /\ ~bleConnected
     THEN sessions' = Nowhere /\ prompted' = {} /\ settled' = {} ELSE UNCHANGED rows
  /\ UNCHANGED <<store, held, pending, writer, last, conn, bleConnected, wasConnected,
                 rxQueue, mislaid>>

\* ... unless it goes only now, before it is looked at again to be remembered.  Then
\* the timers may settle a prompt, and the round is over.
NoteLink ==
  /\ phase = "note" /\ phase' = "drain" /\ wasConnected' = bleConnected
  /\ UNCHANGED rows \/ \E s \in Session : Settle(s)
  /\ UNCHANGED <<store, held, pending, writer, last, conn, bleConnected, rxQueue, mislaid>>

LinkNext ==
  \/ Change \/ Broadcast \/ \E h \in Handler : TakeSnapshot(h) \/ Update(h)
  \/ Begin \/ \E s \in Session : Write(s) \/ WriteFails(s) \/ Record(s)
  \/ Connect \/ Setup \/ Connected \/ Disconnected \/ Drop
  \/ Handle \/ Drained \/ CheckLink \/ NoteLink

LinkSpec == LinkInit /\ [][LinkNext]_linkVars

\* The ticker, the threads and the loop keep running; on a link that stays up a
\* write that is tried again and again lands at last.
LinkFairSpec ==
  /\ LinkSpec
  /\ WF_linkVars(Broadcast) /\ \A h \in Handler : WF_linkVars(Update(h))
  /\ WF_linkVars(Begin)
  /\ \A s \in Session : /\ WF_linkVars(Write(s) \/ WriteFails(s)) /\ SF_linkVars(Write(s))
                        /\ WF_linkVars(Record(s))
  /\ WF_linkVars(Setup) /\ WF_linkVars(Connected) /\ WF_linkVars(Disconnected)
  /\ WF_linkVars(Handle) /\ WF_linkVars(Drained) /\ WF_linkVars(CheckLink)
  /\ WF_linkVars(NoteLink)
-----------------------------------------------------------------------------
\* Type invariant.
LinkTypeOK ==
  /\ store \in Snapshot /\ last \in Snapshot
  /\ held \in [Handler -> Snapshot \cup {NoSnapshot}] /\ pending \in Snapshot \cup {NoSnapshot}
  /\ todo \subseteq Session /\ cur \in [todo -> View \cup {Absent}]
  /\ landed \subseteq todo /\ \A r, s \in landed : r = s
  /\ conn \in {"down", "setup", "up"}
  /\ bleConnected \in BOOLEAN /\ wasConnected \in BOOLEAN
  /\ phase \in {"drain", "check", "note"}
  /\ rxQueue \in Seq([sid : Session, view : View \cup {Absent}]) /\ Len(rxQueue) <= MaxRx
  /\ sessions \in [Session -> Row]
  /\ prompted \subseteq Session /\ settled \subseteq Session /\ mislaid \subseteq Session

\* "d.last records only what actually landed": from setup on, while the link is up,
\* what the writer takes for delivered is what the dial shows or is about to, but
\* for a write that is not recorded yet.  Where the dial has changed the row since it
\* heard of the session, it shows that view in a state of its own.  Not in the code's
\* power, and so mislaid until the next write: what was acknowledged and then dropped,
\* by a full queue or for its length, what landed though its write failed, and what
\* outlived a lost link, queued, unnoticed, or on its way to be recorded.
LastIsOnTheDial ==
  conn # "down" /\ bleConnected =>
    \A s \in Session \ (mislaid \cup landed) : StandsFor(s, last[s])

\* "Lets a device that just (re)connected catch up": if the store and the link
\* stay as they are, and nothing is mislaid, the dial comes to show the store, or to
\* have answered what it was shown: it is not told again of a row it has changed.
DialCatchesUp ==
  \A s \in Session :
    /\ <>[][UNCHANGED store[s]]_store
    /\ <>[](bleConnected /\ s \notin mislaid)
    => <>[]DisplayEqual(IF s \in settled THEN last[s] ELSE sessions[s], store[s])
=============================================================================
