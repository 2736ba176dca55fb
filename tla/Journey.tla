------------------------------ MODULE Journey -------------------------------
(***************************************************************************)
(* The way of a call through all parts: the daemon's handler, store and    *)
(* router, the writer that sends what differs from the view it last        *)
(* delivered, the prompt on the dial, its grace window, and the answer on  *)
(* its way back.  Each part has a module of its own (Bridge, BleLink,      *)
(* Dial) that takes its steps apart and lets them fail; here a step is as  *)
(* large as its part allows, one session asks, and the question is whether *)
(* the parts fit: calls are answered, time out or are given up, need no    *)
(* asking or find no dial, the link drops and returns, and a snapshot may  *)
(* be handed over when a newer one has been.                               *)
(***************************************************************************)
EXTENDS Naturals, Sequences

CONSTANTS Req,         \* slots for PreToolUse calls, parallel ones of a session
          Nobody,      \* no request, no command, no snapshot
          Cmd,         \* what the calls want to do
          Repeats,     \* whether a call may want what the one before it wanted
          MaxInFlight  \* bound on the messages of either way

View   == [state : {"permission_request", "working", "idle"}, cmd : Cmd]
Ans    == {"allow_once", "reject", "ask"}
Answer == [ans : Ans, about : Cmd]

\* What is assumed of the constants.
JourneyAssumption ==
  /\ Nobody \notin Req \cup Cmd \cup View \cup Answer
  /\ Repeats \in BOOLEAN /\ MaxInFlight \in Nat \ {0}

VARIABLES job,      \* the command of each request that waits
          waiter,   \* the request the router knows
          store,    \* the session in the daemon's store
          held,     \* a snapshot taken and not yet handed to the writer
          pending,  \* the snapshot that waits for the writer
          serial,   \* history: the calls come one at a time, each after the
                    \* answer to the one before, and nothing came between
          conn,     \* the link
          last,     \* the view the writer has delivered
          rxQueue,  \* views the dial has received
          row,      \* the session in the dial's table
          appState, \* the screen
          picked,   \* the answer in its grace, and the command it was picked on
          inflight, \* answers on their way to the daemon
          met       \* history: until the next call comes, what the last one of a series
                    \* wanted, and what the answer it met was given to

daemon == <<job, waiter, store, held, pending, serial>>
dial   == <<row, appState, picked>>
vars   == <<daemon, conn, last, rxQueue, dial, inflight, met>>

Init ==
  /\ job = [r \in Req |-> Nobody] /\ waiter = Nobody
  /\ store = Nobody /\ held = Nobody /\ pending = Nobody /\ serial = TRUE
  /\ conn = FALSE /\ last = Nobody
  /\ rxQueue = << >> /\ row = Nobody /\ appState = "SESSION_LIST" /\ picked = Nobody
  /\ inflight = << >> /\ met = Nobody
-----------------------------------------------------------------------------
(* handlePreToolUse *)

Prompt(c) == [state |-> "permission_request", cmd |-> c]
Asks(v)   == v # Nobody /\ v.state = "permission_request"

\* A store operation and the broadcast that follows it.
Broadcast(view) == store' = view /\ pending' = view

NobodyWaits == \A r \in Req : job[r] = Nobody

\* Nothing of an earlier call is under way, to the dial, on it, or back.
WayIsClear ==
  /\ held = Nobody /\ \A i \in DOMAIN rxQueue : ~Asks(rxQueue[i])
  /\ appState = "SESSION_LIST" /\ inflight = << >>

Arrive(r, c) ==
  /\ job[r] = Nobody /\ conn
  /\ Repeats \/ last # Prompt(c)
  /\ job' = [job EXCEPT ![r] = c]
  /\ waiter' = r
  /\ Broadcast(Prompt(c))
  /\ serial' = (NobodyWaits /\ (serial \/ WayIsClear))
  /\ met' = Nobody
  /\ UNCHANGED <<held, conn, last, rxQueue, dial, inflight>>

\* A call that is not asked about: it is always allowed, ...
Pass(r, c) ==
  /\ job[r] = Nobody
  /\ Broadcast([state |-> "working", cmd |-> c]) /\ serial' = (serial /\ NobodyWaits)
  /\ UNCHANGED <<job, waiter, held, conn, last, rxQueue, dial, inflight, met>>

\* ... or there is no dial; the sweeper may have taken the prompt in between.
NoDevice(r, c) ==
  /\ job[r] = Nobody /\ ~conn
  /\ Broadcast([state |-> "working", cmd |-> c]) /\ serial' = (serial /\ NobodyWaits)
  /\ UNCHANGED held \/ (held = Nobody /\ held' = Prompt(c))
  /\ UNCHANGED <<job, waiter, conn, last, rxQueue, dial, inflight, met>>

Leave(r) ==
  /\ job' = [job EXCEPT ![r] = Nobody]
  /\ waiter' = IF waiter = r THEN Nobody ELSE waiter

StateAfter(a) == IF a = "reject" THEN "idle" ELSE "working"

\* An answer goes to whoever waits, if anybody does.
Deliver ==
  /\ inflight # << >> /\ inflight' = Tail(inflight)
  /\ \/ /\ waiter # Nobody /\ Leave(waiter)
        /\ Broadcast([store EXCEPT !.state = StateAfter(Head(inflight).ans)])
        /\ met' = IF Head(inflight).ans = "ask" \/ ~serial THEN met
                  ELSE [wanted |-> job[waiter], about |-> Head(inflight).about]
        /\ UNCHANGED <<held, serial>>
     \/ waiter = Nobody /\ UNCHANGED <<daemon, met>>
  /\ UNCHANGED <<conn, last, rxQueue, dial>>

TimeOut(r) ==
  /\ job[r] # Nobody /\ Leave(r) /\ serial' = FALSE
  /\ Broadcast([store EXCEPT !.state = "working"])
  /\ UNCHANGED <<held, conn, last, rxQueue, dial, inflight, met>>

\* The client has closed its request: the session is left as it is.
GiveUp(r) ==
  /\ job[r] # Nobody /\ Leave(r) /\ serial' = FALSE
  /\ UNCHANGED <<store, held, pending, conn, last, rxQueue, dial, inflight, met>>

\* The sweeper takes a snapshot on every tick, and hands it over later.
Take ==
  /\ store # Nobody /\ held = Nobody /\ held' = store
  /\ UNCHANGED <<job, waiter, store, pending, serial, conn, last, rxQueue, dial, inflight, met>>

HandOver ==
  /\ held # Nobody /\ held' = Nobody /\ pending' = held
  /\ serial' = (serial /\ held = store)
  /\ UNCHANGED <<job, waiter, store, conn, last, rxQueue, dial, inflight, met>>
-----------------------------------------------------------------------------
(* The link, as both ends see it: neither keeps anything of the other *)

LinkGone ==
  /\ conn /\ conn' = FALSE /\ last' = Nobody /\ rxQueue' = << >>
  /\ row' = Nobody /\ appState' = "SESSION_LIST" /\ picked' = Nobody
  /\ \E n \in 0 .. Len(inflight) : inflight' = SubSeq(inflight, 1, n)
  /\ serial' = (serial /\ NobodyWaits)
  /\ UNCHANGED <<job, waiter, store, held, pending, met>>

LinkBack ==
  /\ ~conn /\ conn' = TRUE
  /\ UNCHANGED <<daemon, last, rxQueue, dial, inflight, met>>
-----------------------------------------------------------------------------
(* flush *)

\* With a bug: a prompt is compared by its state alone.
DisplayEqualByState(v, w) == v = w \/ (Nobody \notin {v, w} /\ v.state = w.state)

\* The command is shown in a prompt only.
DisplayEqual(v, w) ==
  \/ v = w
  \/ Nobody \notin {v, w} /\ v.state = w.state /\ v.state # "permission_request"

Flush ==
  /\ pending # Nobody /\ pending' = Nobody
  /\ IF ~conn \/ DisplayEqual(last, pending) THEN UNCHANGED <<last, rxQueue>>
     ELSE /\ Len(rxQueue) < MaxInFlight
          /\ last' = pending /\ rxQueue' = Append(rxQueue, pending)
  /\ UNCHANGED <<job, waiter, store, held, serial, conn, dial, inflight, met>>
-----------------------------------------------------------------------------
(* The dial: an empty prompt slot takes whoever asks *)

Handle ==
  /\ rxQueue # << >> /\ rxQueue' = Tail(rxQueue) /\ row' = Head(rxQueue)
  /\ appState' = IF Head(rxQueue).state = "permission_request" /\ appState = "SESSION_LIST"
                 THEN "PERMISSION" ELSE appState
  /\ UNCHANGED <<daemon, conn, last, picked, inflight, met>>

Pick(a) ==
  /\ appState = "PERMISSION" /\ appState' = "CONFIRMING"
  /\ picked' = [ans |-> a, about |-> row.cmd]
  /\ UNCHANGED <<daemon, conn, last, rxQueue, row, inflight, met>>

Undo ==
  /\ appState = "CONFIRMING" /\ appState' = "PERMISSION" /\ picked' = Nobody
  /\ UNCHANGED <<daemon, conn, last, rxQueue, row, inflight, met>>

\* The row is changed at once, without waiting for the daemon.
Send(answer, state) ==
  /\ Len(inflight) < MaxInFlight /\ inflight' = Append(inflight, answer)
  /\ row' = [row EXCEPT !.state = state]
  /\ appState' = "SESSION_LIST" /\ picked' = Nobody
  /\ UNCHANGED <<daemon, conn, last, rxQueue, met>>

\* With a bug: the prompt stays until the daemon takes it down.
CommitDecisionStays ==
  /\ appState = "CONFIRMING" /\ appState' = "PERMISSION" /\ picked' = Nobody
  /\ Len(inflight) < MaxInFlight /\ inflight' = Append(inflight, picked)
  /\ UNCHANGED <<daemon, conn, last, rxQueue, row, met>>

CommitDecision ==
  /\ appState = "CONFIRMING"
  /\ Send(picked, StateAfter(picked.ans))

PermTimeOut ==
  /\ appState = "PERMISSION"
  /\ Send([ans |-> "ask", about |-> row.cmd], "idle")

Next ==
  \/ \E r \in Req, c \in Cmd : Arrive(r, c) \/ Pass(r, c) \/ NoDevice(r, c)
  \/ \E r \in Req : TimeOut(r) \/ GiveUp(r)
  \/ Deliver \/ Take \/ HandOver \/ LinkGone \/ LinkBack \/ Flush \/ Handle
  \/ \E a \in {"allow_once", "reject"} : Pick(a)
  \/ Undo \/ CommitDecision \/ PermTimeOut

Spec == Init /\ [][Next]_vars

\* The sweeper ticks, the writer writes, the dial's loop goes round, and its timers run out.
FairSpec ==
  /\ Spec /\ WF_vars(Take) /\ WF_vars(HandOver) /\ WF_vars(Flush) /\ WF_vars(Handle) /\ WF_vars(Deliver)
  /\ SF_vars(CommitDecision) /\ SF_vars(PermTimeOut)
-----------------------------------------------------------------------------
\* Type invariant.
TypeOK ==
  /\ job \in [Req -> Cmd \cup {Nobody}] /\ waiter \in Req \cup {Nobody}
  /\ waiter # Nobody => job[waiter] # Nobody
  /\ store \in View \cup {Nobody} /\ held \in View \cup {Nobody}
  /\ pending \in View \cup {Nobody} /\ serial \in BOOLEAN /\ conn \in BOOLEAN
  /\ last \in View \cup {Nobody} /\ row \in View \cup {Nobody}
  /\ rxQueue \in Seq(View) /\ Len(rxQueue) <= MaxInFlight
  /\ inflight \in Seq(Answer) /\ Len(inflight) <= MaxInFlight
  /\ appState \in {"SESSION_LIST", "PERMISSION", "CONFIRMING"}
  /\ picked \in Answer \cup {Nobody}
  /\ met \in [wanted : Cmd, about : Cmd] \cup {Nobody}

\* "Show the request on the dial and wait for the user's answer": the answer a
\* call gets was given to the command of that call, through the link, the grace
\* window and the router.  This is so for calls that come one at a time, each after
\* the answer to the one before it, if the link holds while they wait and no stale
\* snapshot is handed over; and after a timeout, a client that gives up, a parallel
\* call or a drop, again from the first call to come when the way is clear.  Of
\* other calls it is not: an answer bears the session's name only.
AnswersWhatWasShown == met # Nobody => met.about = met.wanted

Shows(c) == appState \in {"PERMISSION", "CONFIRMING"} /\ row.cmd = c
                                                      /\ row.state = "permission_request"

\* "Each snapshot is the full current state", so that dropping older ones does no
\* harm: every call that waits comes to the dial's screen or has its answer, once
\* the link stays up.
CallsComeToTheDial ==
  <>[]conn => \A r \in Req, c \in Cmd : job[r] = c ~> Shows(c) \/ job[r] # c
=============================================================================
