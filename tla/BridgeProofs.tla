---------------------------- MODULE BridgeProofs ----------------------------
(***************************************************************************)
(* Proofs about Bridge, for any sets of sessions, calls and requests.      *)
(***************************************************************************)
EXTENDS Bridge, FiniteSetTheorems, TLAPS

(***************************************************************************)
(* Types.  A slot in use has a job: without that the job of a request      *)
(* would not have a session.                                               *)
(***************************************************************************)
Slots ==
  \A r \in Req : pc[r] = "idle" <=> job[r] = Nobody

Shape == TypeOK /\ Slots

LEMMA ProtocolFacts ==
  /\ \A a \in Answer : VerdictOf(a) \in Verdict
  /\ \A x : StateAfter(x) \in {"idle", "working"}
  /\ {"idle", "working", "blocked", "permission_request"} = State
BY DEF VerdictOf, StateAfter, Answer, Verdict, State

LEMMA UpsertType ==
  ASSUME roster \in [Sid -> Cell \cup {Absent}], NEW s \in Sid,
         NEW st \in State, NEW c \in Call, Upsert(s, st, c)
  PROVE  roster' \in [Sid -> Cell \cup {Absent}]
BY DEF Upsert, Cell

LEMMA TouchType ==
  ASSUME roster \in [Sid -> Cell \cup {Absent}], NEW s \in Sid,
         NEW st \in State, Touch(s, st)
  PROVE  roster' \in [Sid -> Cell \cup {Absent}]
<1>1. Ensured(s) \in Cell
  BY ProtocolFacts DEF Ensured, Known, Cell
<1> QED
  BY <1>1 DEF Touch, Cell

LEMMA SetStateType ==
  ASSUME roster \in [Sid -> Cell \cup {Absent}], NEW s \in Sid,
         NEW st \in State, SetState(s, st)
  PROVE  roster' \in [Sid -> Cell \cup {Absent}]
<1>1. Known(s) => roster[s] \in Cell
  BY DEF Known
<1> QED
  BY <1>1 DEF SetState, Cell

LEMMA DecayType ==
  ASSUME roster \in [Sid -> Cell \cup {Absent}], NEW gone, NEW quiet,
         Decay(gone, quiet)
  PROVE  roster' \in [Sid -> Cell \cup {Absent}]
<1>1. ASSUME NEW s \in Sid PROVE roster'[s] \in Cell \cup {Absent}
  <2>1. CASE s \in gone
    BY <2>1 DEF Decay
  <2>2. CASE s \notin gone /\ s \in quiet
    <3>1. roster[s] \in Cell
      BY <2>2 DEF Decay, Absent
    <3>2. [roster[s] EXCEPT !.state = "idle"] \in Cell
      BY <3>1, ProtocolFacts DEF Cell
    <3> QED
      BY <2>2, <3>2 DEF Decay
  <2>3. CASE s \notin gone /\ s \notin quiet
    BY <2>3 DEF Decay
  <2> QED
    BY <2>1, <2>2, <2>3
<1> QED
  BY <1>1 DEF Decay

\* The job of a request whose slot is in use.
LEMMA JobFacts ==
  ASSUME Shape, NEW r \in Req, pc[r] # "idle"
  PROVE  job[r] \in Job /\ job[r].sid \in Sid /\ job[r].call \in Call
BY DEF Shape, TypeOK, Slots, Job

LEMMA ShapeInit == Init => Shape
<1> SUFFICES ASSUME Init PROVE Shape
  OBVIOUS
<1>1. inflight \in Seq(Decision) /\ Len(inflight) <= MaxInFlight
  BY BridgeAssumption DEF Init
<1>2. roster \in [Sid -> Cell \cup {Absent}]
  BY DEF Init, RosterInit
<1>3. TypeOK
  BY <1>1, <1>2 DEF Init, TypeOK, PC
<1>4. Slots
  BY DEF Init, Slots
<1> QED
  BY <1>3, <1>4 DEF Shape
\* A step of the goroutine of one request.
LEMMA ShapeRequest ==
  ASSUME Shape, NEW r \in Req,
         Step(r) \/ GiveUp(r) \/ Finish(r) \/ \E s \in Sid, c \in Call : Arrive(r, s, c)
  PROVE  Shape'
<1> USE DEF Shape, TypeOK, Slots, Goto, deviceVars, reqVars, PC
<1>1. ASSUME NEW s \in Sid, NEW c \in Call, Arrive(r, s, c) PROVE Shape'
  <2>1. [sid |-> s, call |-> c] \in Job /\ [sid |-> s, call |-> c] # Nobody
    BY BridgeAssumption DEF Job
  <2> QED
    BY <1>1, <2>1 DEF Arrive
<1>2. CASE ShowRunning(r)
  <2>1. roster' \in [Sid -> Cell \cup {Absent}]
    BY <1>2, JobFacts, UpsertType, ProtocolFacts DEF ShowRunning
  <2> QED
    BY <1>2, <2>1 DEF ShowRunning, Verdict
<1>3. CASE ShowPrompt(r)
  <2>1. roster' \in [Sid -> Cell \cup {Absent}]
    BY <1>3, JobFacts, UpsertType, ProtocolFacts DEF ShowPrompt
  <2> QED
    BY <1>3, <2>1 DEF ShowPrompt
<1>4. CASE ProbeDevice(r)
  BY <1>4 DEF ProbeDevice
<1>5. CASE NoDevice(r)
  <2>1. roster' \in [Sid -> Cell \cup {Absent}]
    BY <1>5, JobFacts, SetStateType, ProtocolFacts DEF NoDevice
  <2> QED
    BY <1>5, <2>1 DEF NoDevice, Verdict
<1>6. CASE Register(r)
  BY <1>6 DEF Register
<1>7. CASE TakeAnswer(r)
  BY <1>7 DEF TakeAnswer, Decision
<1>8. CASE TimeOut(r)
  BY <1>8 DEF TimeOut
<1>9. CASE GiveUp(r)
  BY <1>9 DEF GiveUp
<1>10. CASE Remember(r)
  <2>1. [session |-> job[r].sid, call |-> job[r].call] \in Grant
    BY <1>10, JobFacts DEF Remember, Grant
  <2> QED
    BY <1>10, <2>1 DEF Remember
<1>11. CASE Settle(r)
  <2>1. roster' \in [Sid -> Cell \cup {Absent}]
    BY <1>11, JobFacts, SetStateType, ProtocolFacts DEF Settle
  <2>2. VerdictOf(settled[r]) \in Verdict
    BY DEF VerdictOf, Verdict
  <2> QED
    BY <1>11, <2>1, <2>2 DEF Settle
<1>12. CASE SettleTimeOut(r)
  <2>1. roster' \in [Sid -> Cell \cup {Absent}]
    BY <1>12, JobFacts, SetStateType, ProtocolFacts DEF SettleTimeOut
  <2> QED
    BY <1>12, <2>1 DEF SettleTimeOut, Verdict
<1>13. CASE Cancel(r)
  BY <1>13 DEF Cancel
<1>14. CASE Finish(r)
  BY <1>14 DEF Finish
<1> QED
  BY <1>1, <1>2, <1>3, <1>4, <1>5, <1>6, <1>7, <1>8, <1>9, <1>10, <1>11,
     <1>12, <1>13, <1>14 DEF Step

\* A step of anyone else.
LEMMA ShapeOthers ==
  ASSUME Shape,
         \/ \E s \in Sid : LifecycleHook(s) \/ SessionEnd(s) \/ ForgetGrants(s)
         \/ \E s \in Sid, a \in Offered : UserAnswers(s, a)
         \/ Sweep \/ Connect \/ Disconnect \/ Render \/ Lookup \/ Deliver \/ Restart
         \/ UNCHANGED vars
  PROVE  Shape'
<1> USE DEF Shape, TypeOK, Slots, deviceVars, reqVars
<1>1. ASSUME NEW s \in Sid, LifecycleHook(s) PROVE Shape'
  <2>1. roster' \in [Sid -> Cell \cup {Absent}]
    BY <1>1, UpsertType, TouchType, ProtocolFacts DEF LifecycleHook, TouchLiveness
  <2> QED
    BY <1>1, <2>1 DEF LifecycleHook
<1>2. ASSUME NEW s \in Sid, SessionEnd(s) PROVE Shape'
  BY <1>2 DEF SessionEnd, Drop
<1>3. ASSUME NEW s \in Sid, ForgetGrants(s) PROVE Shape'
  BY <1>3 DEF ForgetGrants
<1>4. ASSUME NEW s \in Sid, NEW a \in Offered, UserAnswers(s, a) PROVE Shape'
  <2>1. [sid |-> s, ans |-> a, about |-> shown[s]] \in Decision
    BY <1>4, BridgeAssumption DEF UserAnswers, Decision
  <2>2. inflight' \in Seq(Decision) /\ Len(inflight') <= MaxInFlight
    BY <1>4, <2>1, BridgeAssumption DEF UserAnswers
  <2> QED
    BY <1>4, <2>2 DEF UserAnswers
<1>5. CASE Sweep
  <2>1. roster' \in [Sid -> Cell \cup {Absent}]
    BY <1>5, DecayType DEF Sweep
  <2> QED
    BY <1>5, <2>1 DEF Sweep
<1>6. CASE Connect
  BY <1>6 DEF Connect
<1>7. CASE Disconnect
  BY <1>7 DEF Disconnect
<1>8. CASE Render
  <2>1. \A s \in Sid : roster[s].call \in Call \cup {NoCall}
    BY DEF Cell, Absent
  <2>2. shown' \in [Sid -> Call \cup {NoCall, Nobody}]
    BY <1>8, <2>1 DEF Render
  <2> QED
    BY <1>8, <2>2 DEF Render
<1>9. CASE Lookup
  <2>1. Head(inflight) \in Decision /\ inflight' \in Seq(Decision) /\ Len(inflight') <= MaxInFlight
    BY <1>9, BridgeAssumption DEF Lookup
  <2>2. waiters[Head(inflight).sid] \in Req \cup {Nobody}
    BY <2>1 DEF Decision
  <2>3. hand' \in [dec : Decision, to : Req] \cup {Nobody}
    BY <1>9, <2>1, <2>2 DEF Lookup
  <2> QED
    BY <1>9, <2>1, <2>3 DEF Lookup
<1>10. CASE Deliver
  <2>1. hand.dec \in Decision /\ hand.to \in Req
    BY <1>10 DEF Deliver
  <2> QED
    BY <1>10, <2>1 DEF Deliver
<1>11. CASE Restart
  <2>1. inflight' \in Seq(Decision) /\ Len(inflight') <= MaxInFlight
    BY <1>11, BridgeAssumption DEF Restart
  <2>2. roster' \in [Sid -> Cell \cup {Absent}]
    BY <1>11 DEF Restart
  <2> QED
    BY <1>11, <2>1, <2>2 DEF Restart, PC
<1>12. CASE UNCHANGED vars
  BY <1>12 DEF vars
<1> QED
  BY <1>1, <1>2, <1>3, <1>4, <1>5, <1>6, <1>7, <1>8, <1>9, <1>10, <1>11, <1>12
LEMMA ShapeStep == Shape /\ [Next]_vars => Shape'
BY ShapeRequest, ShapeOthers DEF Next

\* The variables of the approval loop keep their types.
THEOREM BridgeTypeOK == Spec => []TypeOK
<1>1. Shape => TypeOK
  BY DEF Shape
<1> QED
  BY <1>1, ShapeInit, ShapeStep, PTL DEF Spec

(***************************************************************************)
(* The router and the channels.  Both facts are about who a waiter is, and *)
(* each needs the other's side: an answer on its way was addressed while   *)
(* its request was registered, and a request keeps its job until nothing   *)
(* points at it.                                                           *)
(***************************************************************************)
Routed == Shape /\ WaitersAreLive /\ AnswersStayInSession

LEMMA RoutedInit == Init => Routed
<1> SUFFICES ASSUME Init PROVE Routed
  OBVIOUS
<1>1. WaitersAreLive
  BY DEF Init, WaitersAreLive
<1>2. AnswersStayInSession
  BY DEF Init, AnswersStayInSession
<1> QED
  BY <1>1, <1>2, ShapeInit DEF Routed

\* What the router and the channels depend on does not change.
LEMMA RoutedKept ==
  ASSUME Routed, UNCHANGED <<pc, job, chan, waiters, hand>>
  PROVE  WaitersAreLive' /\ AnswersStayInSession'
BY DEF Routed, WaitersAreLive, AnswersStayInSession

\* A step of one goroutine that leaves the router alone and stays registered.
LEMMA RoutedMoves ==
  ASSUME Routed, NEW r \in Req, NEW to,
         pc' = [pc EXCEPT ![r] = to],
         pc[r] \in {"wait", "remember", "settle", "timedout", "cancel"} =>
           to \in {"wait", "remember", "settle", "timedout", "cancel"},
         UNCHANGED <<job, waiters, hand>>,
         chan' = chan \/ chan' = [chan EXCEPT ![r] = Nobody]
  PROVE  WaitersAreLive' /\ AnswersStayInSession'
<1> USE DEF Routed, Shape, TypeOK
<1>1. WaitersAreLive'
  BY DEF WaitersAreLive
<1>2. AnswersStayInSession'
  BY DEF AnswersStayInSession
<1> QED
  BY <1>1, <1>2

LEMMA RoutedRequest ==
  ASSUME Routed, NEW r \in Req,
         Step(r) \/ GiveUp(r) \/ Finish(r) \/ \E s \in Sid, c \in Call : Arrive(r, s, c)
  PROVE  WaitersAreLive' /\ AnswersStayInSession'
<1> USE DEF Goto, deviceVars, reqVars
<1>0. TypeOK /\ Slots /\ WaitersAreLive /\ AnswersStayInSession
  BY DEF Routed, Shape
<1>1. ASSUME NEW s \in Sid, NEW c \in Call, Arrive(r, s, c)
      PROVE  WaitersAreLive' /\ AnswersStayInSession'
  <2>1. job[r] = Nobody
    BY <1>0, <1>1 DEF Slots, Arrive
  <2>2. chan[r] = Nobody /\ (hand # Nobody => hand.to # r)
    BY <1>0, <2>1 DEF AnswersStayInSession
  <2>3. \A x \in Sid : waiters[x] # r
    BY <1>0, <1>1, BridgeAssumption DEF WaitersAreLive, Arrive
  <2>4. WaitersAreLive'
    BY <1>0, <1>1, <2>3 DEF Arrive, WaitersAreLive, TypeOK
  <2>5. AnswersStayInSession'
    BY <1>0, <1>1, <2>2 DEF Arrive, AnswersStayInSession, TypeOK
  <2> QED
    BY <2>4, <2>5
<1>2. CASE \/ ShowRunning(r) \/ ShowPrompt(r) \/ ProbeDevice(r) \/ NoDevice(r)
           \/ TakeAnswer(r) \/ TimeOut(r) \/ GiveUp(r) \/ Remember(r) \/ Settle(r)
           \/ SettleTimeOut(r)
  BY <1>2, RoutedMoves DEF ShowRunning, ShowPrompt, ProbeDevice, NoDevice,
     TakeAnswer, TimeOut, GiveUp, Remember, Settle, SettleTimeOut
<1>3. CASE Register(r)
  <2>1. WaitersAreLive'
    BY <1>0, <1>3, BridgeAssumption DEF Register, WaitersAreLive, TypeOK
  <2>2. AnswersStayInSession'
    BY <1>0, <1>3 DEF Register, AnswersStayInSession
  <2> QED
    BY <2>1, <2>2
<1>4. CASE Cancel(r)
  <2>1. WaitersAreLive'
    BY <1>0, <1>4 DEF Cancel, WaitersAreLive, TypeOK
  <2>2. AnswersStayInSession'
    BY <1>0, <1>4 DEF Cancel, AnswersStayInSession
  <2> QED
    BY <2>1, <2>2
<1>5. CASE Finish(r)
  <2>1. \A x \in Sid : waiters[x] # r
    BY <1>0, <1>5, BridgeAssumption DEF WaitersAreLive, Finish
  <2>2. WaitersAreLive'
    BY <1>0, <1>5, <2>1 DEF Finish, WaitersAreLive, TypeOK
  <2>3. AnswersStayInSession'
    BY <1>0, <1>5 DEF Finish, AnswersStayInSession, TypeOK
  <2> QED
    BY <2>2, <2>3
<1> QED
  BY <1>1, <1>2, <1>3, <1>4, <1>5 DEF Step

LEMMA RoutedOthers ==
  ASSUME Routed,
         \/ \E s \in Sid : LifecycleHook(s) \/ SessionEnd(s) \/ ForgetGrants(s)
         \/ \E s \in Sid, a \in Offered : UserAnswers(s, a)
         \/ Sweep \/ Connect \/ Disconnect \/ Render \/ Lookup \/ Deliver \/ Restart
         \/ UNCHANGED vars
  PROVE  WaitersAreLive' /\ AnswersStayInSession'
<1>0. TypeOK /\ WaitersAreLive /\ AnswersStayInSession
  BY DEF Routed, Shape
<1>1. CASE \/ \E s \in Sid : LifecycleHook(s) \/ SessionEnd(s) \/ ForgetGrants(s)
           \/ \E s \in Sid, a \in Offered : UserAnswers(s, a)
           \/ Sweep \/ Connect \/ Disconnect \/ Render \/ UNCHANGED vars
  BY <1>1, RoutedKept DEF LifecycleHook, SessionEnd, ForgetGrants, UserAnswers, Sweep,
     Connect, Disconnect, Render, vars, reqVars, deviceVars
<1>2. CASE Lookup
  <2>1. Head(inflight) \in Decision
    BY <1>0, <1>2 DEF Lookup, TypeOK
  <2>2. Head(inflight).sid \in Sid
    BY <2>1 DEF Decision
  <2>3. WaitersAreLive'
    BY <1>0, <1>2 DEF Lookup, WaitersAreLive, reqVars
  <2>4. hand' # Nobody => /\ waiters[Head(inflight).sid] # Nobody
                          /\ hand'.dec = Head(inflight)
                          /\ hand'.to = waiters[Head(inflight).sid]
    BY <1>2 DEF Lookup
  <2>5. \A s \in Sid : waiters[s] # Nobody =>
          job[waiters[s]] # Nobody /\ job[waiters[s]].sid = s
    BY <1>0 DEF WaitersAreLive, Routed, Shape, Slots, TypeOK
  <2>6. AnswersStayInSession'
    BY <1>0, <1>2, <2>2, <2>4, <2>5 DEF Lookup, AnswersStayInSession, reqVars
  <2> QED
    BY <2>3, <2>6
<1>3. CASE Deliver
  <2>1. WaitersAreLive'
    BY <1>0, <1>3 DEF Deliver, WaitersAreLive
  <2>2. AnswersStayInSession'
    BY <1>0, <1>3 DEF Deliver, AnswersStayInSession, TypeOK
  <2> QED
    BY <2>1, <2>2
<1>4. CASE Restart
  BY <1>4 DEF Restart, WaitersAreLive, AnswersStayInSession
<1> QED
  BY <1>1, <1>2, <1>3, <1>4

LEMMA RoutedStep == Routed /\ [Next]_vars => Routed'
BY RoutedRequest, RoutedOthers, ShapeStep DEF Next, Routed

\* The router points only at requests that wait, each of its own session.
THEOREM WaitersStayLive == Spec => []WaitersAreLive
<1>1. Routed => WaitersAreLive
  BY DEF Routed
<1> QED
  BY <1>1, RoutedInit, RoutedStep, PTL DEF Spec

\* An answer never reaches a request of another session.
THEOREM AnswersReachTheirSession == Spec => []AnswersStayInSession
<1>1. Routed => AnswersStayInSession
  BY DEF Routed
<1> QED
  BY <1>1, RoutedInit, RoutedStep, PTL DEF Spec

(***************************************************************************)
(* The cue of an approval, of any one session: it is shown only while a    *)
(* request that asked for it has not settled, unless a client gave up.     *)
(***************************************************************************)
Prompting(s) == roster[s].state = "permission_request"

\* Nobody starts to ask unseen, and nobody stops asking.
LEMMA CueKept ==
  ASSUME NEW s \in Sid, HasAsker(s), AskerOf(s) \subseteq AskerOf(s)',
         Prompting(s)' => Prompting(s)
  PROVE  HasAsker(s)'
BY DEF HasAsker, Prompting

LEMMA SetStateHides ==
  ASSUME roster \in [Sid -> Cell \cup {Absent}], NEW s \in Sid,
         NEW st \in {"idle", "working"}, SetState(s, st)
  PROVE  /\ ~Prompting(s)'
         /\ \A x \in Sid : x # s => roster'[x] = roster[x]
<1>1. Known(s) => roster[s] \in Cell
  BY DEF Known
<1> QED
  BY <1>1 DEF SetState, Prompting, Absent, Known, Cell

\* A goroutine that settles takes the cue of its session away.
LEMMA CueSettles ==
  ASSUME Shape, NEW s \in Sid, HasAsker(s), NEW r \in Req, NEW to, pc[r] # "idle",
         pc' = [pc EXCEPT ![r] = to], UNCHANGED job,
         roster'[job[r].sid].state # "permission_request",
         \A x \in Sid : x # job[r].sid => roster'[x] = roster[x]
  PROVE  HasAsker(s)'
<1>1. CASE s = job[r].sid
  <2>1. roster'[s].state # "permission_request"
    BY <1>1
  <2> QED
    BY <2>1 DEF HasAsker
<1>2. CASE s # job[r].sid
  <2>1. AskerOf(s) \subseteq AskerOf(s)'
    BY <1>2 DEF AskerOf, Shape, TypeOK
  <2>2. Prompting(s)' => Prompting(s)
    BY <1>2 DEF Prompting
  <2> QED
    BY <2>1, <2>2, CueKept
<1> QED
  BY <1>1, <1>2

\* A goroutine that goes on asking keeps its cue answered for.
LEMMA CueMoves ==
  ASSUME Shape, NEW s \in Sid, HasAsker(s), NEW r \in Req, NEW to,
         pc' = [pc EXCEPT ![r] = to], UNCHANGED <<job, roster>>,
         to \in {"probe", "nodevice", "register", "wait", "remember", "settle", "timedout"}
  PROVE  HasAsker(s)'
<1>1. AskerOf(s) \subseteq AskerOf(s)'
  BY DEF AskerOf, Shape, TypeOK
<1> QED
  BY <1>1, CueKept DEF Prompting

LEMMA CueRequest ==
  ASSUME Shape, NEW s \in Sid, HasAsker(s), NEW r \in Req,
         Step(r) \/ Finish(r) \/ \E x \in Sid, c \in Call : Arrive(r, x, c)
  PROVE  HasAsker(s)'
<1> USE DEF Goto, deviceVars, reqVars
<1>0. TypeOK /\ Slots
  BY DEF Shape
<1>1. ASSUME NEW x \in Sid, NEW c \in Call, Arrive(r, x, c) PROVE HasAsker(s)'
  <2>1. r \notin AskerOf(s)
    BY <1>1 DEF AskerOf, Arrive
  <2>2. AskerOf(s) \subseteq AskerOf(s)'
    BY <1>0, <1>1, <2>1 DEF AskerOf, Arrive, TypeOK
  <2> QED
    BY <1>1, <2>2, CueKept DEF Prompting, Arrive
<1>2. CASE ShowRunning(r)
  <2>1. job[r].sid \in Sid
    BY <1>2, JobFacts DEF ShowRunning
  <2> QED
    BY <1>0, <1>2, <2>1, CueSettles DEF ShowRunning, Upsert, Prompting, TypeOK
<1>3. CASE ShowPrompt(r)
  <2>1. job[r].sid \in Sid /\ job[r] # Nobody
    BY <1>0, <1>3, JobFacts DEF ShowPrompt, Slots
  <2>2. r \in AskerOf(job[r].sid)'
    BY <1>0, <1>3, <2>1 DEF ShowPrompt, AskerOf, TypeOK
  <2>3. CASE s = job[r].sid
    <3>1. job' = job
      BY <1>3 DEF ShowPrompt
    <3>2. AskerOf(s)' # {}
      BY <2>2, <2>3, <3>1
    <3> QED
      BY <3>2 DEF HasAsker
  <2>4. CASE s # job[r].sid
    <3>1. Prompting(s)' => Prompting(s)
      BY <1>0, <1>3, <2>1, <2>4 DEF ShowPrompt, Upsert, Prompting, TypeOK
    <3>2. AskerOf(s) \subseteq AskerOf(s)'
      BY <1>0, <1>3 DEF ShowPrompt, AskerOf, TypeOK
    <3> QED
      BY <3>1, <3>2, CueKept
  <2> QED
    BY <2>3, <2>4
<1>4. CASE ProbeDevice(r) \/ Register(r) \/ TakeAnswer(r) \/ TimeOut(r) \/ Remember(r)
  BY <1>4, CueMoves DEF ProbeDevice, Register, TakeAnswer, TimeOut, Remember
<1>5. CASE NoDevice(r) \/ Settle(r) \/ SettleTimeOut(r)
  <2>1. pc[r] # "idle" /\ job[r].sid \in Sid
    BY <1>5, JobFacts DEF NoDevice, Settle, SettleTimeOut
  <2>2. PICK st \in {"idle", "working"} : SetState(job[r].sid, st)
    BY <1>5, ProtocolFacts DEF NoDevice, Settle, SettleTimeOut
  <2>3. /\ roster'[job[r].sid].state # "permission_request"
        /\ \A x \in Sid : x # job[r].sid => roster'[x] = roster[x]
    BY <1>0, <2>1, <2>2, SetStateHides DEF TypeOK, Prompting
  <2> QED
    BY <1>5, <2>1, <2>3, CueSettles DEF NoDevice, Settle, SettleTimeOut
<1>6. CASE Cancel(r) \/ Finish(r)
  <2>1. AskerOf(s) \subseteq AskerOf(s)'
    BY <1>0, <1>6 DEF AskerOf, Cancel, Finish, TypeOK
  <2> QED
    BY <1>6, <2>1, CueKept DEF Prompting, Cancel, Finish
<1> QED
  BY <1>1, <1>2, <1>3, <1>4, <1>5, <1>6 DEF Step

LEMMA CueOthers ==
  ASSUME Shape, NEW s \in Sid, HasAsker(s),
         \/ \E x \in Sid : LifecycleHook(x) \/ SessionEnd(x) \/ ForgetGrants(x)
         \/ \E x \in Sid, a \in Offered : UserAnswers(x, a)
         \/ Sweep \/ Connect \/ Disconnect \/ Render \/ Lookup \/ Deliver \/ Restart
         \/ UNCHANGED vars
  PROVE  HasAsker(s)'
<1> USE DEF deviceVars, reqVars
<1>0. roster \in [Sid -> Cell \cup {Absent}]
  BY DEF Shape, TypeOK
<1>1. ASSUME UNCHANGED <<pc, job>> PROVE AskerOf(s) \subseteq AskerOf(s)'
  BY <1>1 DEF AskerOf
<1>2. ASSUME NEW x \in Sid, LifecycleHook(x) PROVE HasAsker(s)'
  <2>1. Ensured(x) \in Cell
    BY <1>0, ProtocolFacts DEF Ensured, Known, Cell
  <2>2. Prompting(s)' => Prompting(s)
    BY <1>0, <1>2, <2>1 DEF LifecycleHook, Touch, TouchLiveness, Upsert, Prompting, Cell
  <2> QED
    BY <1>1, <1>2, <2>2, CueKept DEF LifecycleHook
<1>3. ASSUME NEW x \in Sid, SessionEnd(x) PROVE HasAsker(s)'
  <2>1. Prompting(s)' => Prompting(s)
    BY <1>0, <1>3 DEF SessionEnd, Drop, Prompting, Absent
  <2> QED
    BY <1>1, <1>3, <2>1, CueKept DEF SessionEnd
<1>4. CASE Sweep
  <2>1. roster[s] # Absent => roster[s] \in Cell
    BY <1>0
  <2>2. PICK gone, quiet : Decay(gone, quiet)
    BY <1>4 DEF Sweep
  <2>3. ASSUME Prompting(s)' PROVE Prompting(s)
    <3>1. CASE s \in gone
      BY <2>2, <2>3, <3>1 DEF Decay, Prompting, Absent
    <3>2. CASE s \notin gone /\ s \in quiet
      <4>1. roster[s] \in Cell
        BY <2>1, <2>2, <3>2 DEF Decay, Absent
      <4>2. roster'[s].state = "idle"
        BY <2>2, <3>2, <4>1 DEF Decay, Cell
      <4> QED
        BY <2>3, <4>2 DEF Prompting
    <3>3. CASE s \notin gone /\ s \notin quiet
      BY <2>2, <2>3, <3>3 DEF Decay, Prompting
    <3> QED
      BY <3>1, <3>2, <3>3
  <2> QED
    BY <1>1, <1>4, <2>3, CueKept DEF Sweep
<1>5. CASE \/ \E x \in Sid : ForgetGrants(x)
           \/ \E x \in Sid, a \in Offered : UserAnswers(x, a)
           \/ Connect \/ Disconnect \/ Render \/ Lookup \/ Deliver \/ UNCHANGED vars
  <2>1. UNCHANGED <<roster, pc, job>>
    BY <1>5 DEF ForgetGrants, UserAnswers, Connect, Disconnect, Render, Lookup, Deliver, vars
  <2> QED
    BY <1>1, <2>1, CueKept DEF Prompting
<1>6. CASE Restart
  BY <1>6 DEF Restart, HasAsker, Absent
<1> QED
  BY <1>2, <1>3, <1>4, <1>5, <1>6

\* A session comes to ask with no request of it open only by a client that gives
\* up: no settlement, hook, sweep, disconnect or restart leaves a prompt behind,
\* whatever the clients do beside it.
THEOREM PromptsKeepTheirAskers == Spec => OnlyGivingUpOrphans
<1> DEFINE Left(s) == \E r \in Req : GiveUp(r) /\ job[r].sid = s
<1>1. ASSUME Shape, NEW s \in Sid, HasAsker(s), Next PROVE HasAsker(s)' \/ Left(s)
  <2>1. CASE \/ \E r \in Req, x \in Sid, c \in Call : Arrive(r, x, c)
             \/ \E r \in Req : Step(r) \/ Finish(r)
    BY <1>1, <2>1, CueRequest
  <2>2. CASE \/ \E x \in Sid : LifecycleHook(x) \/ SessionEnd(x) \/ ForgetGrants(x)
             \/ \E x \in Sid, a \in Offered : UserAnswers(x, a)
             \/ Sweep \/ Connect \/ Disconnect \/ Render \/ Lookup \/ Deliver \/ Restart
    BY <1>1, <2>2, CueOthers
  <2>3. ASSUME NEW r \in Req, GiveUp(r), job[r].sid # s PROVE HasAsker(s)'
    <3>1. AskerOf(s) \subseteq AskerOf(s)'
      BY <1>1, <2>3 DEF GiveUp, Goto, AskerOf, Shape, TypeOK
    <3> QED
      BY <1>1, <2>3, <3>1, CueKept DEF GiveUp, Prompting
  <2> QED
    BY <1>1, <2>1, <2>2, <2>3 DEF Next
<1>2. Shape /\ [Next]_vars =>
        [\A s \in Sid : HasAsker(s) => \/ HasAsker(s)'
                                      \/ \E r \in Req : GiveUp(r) /\ job[r].sid = s]_vars
  <2> SUFFICES ASSUME Shape, [Next]_vars, NEW s \in Sid, HasAsker(s), vars' # vars
               PROVE  HasAsker(s)' \/ Left(s)
    OBVIOUS
  <2> QED
    BY <1>1
<1> QED
  BY <1>2, ShapeInit, ShapeStep, PTL DEF Spec, OnlyGivingUpOrphans
-----------------------------------------------------------------------------
(***************************************************************************)
(* Bridge implements Approval.  An answer of a kind counts as given and    *)
(* not yet used in three places: in flight, in the dispatcher's hand, and  *)
(* in the channel of a request.  What a step does to each count is said    *)
(* first.                                                                  *)
(***************************************************************************)
Of(dec, s, a) == dec.sid = s /\ dec.ans = a

InFlight(q, s, a) == {i \in DOMAIN q : Of(q[i], s, a)}
InChannels(c, s, a) == {r \in Req : c[r] # Nobody /\ Of(c[r], s, a)}
InHand(h, s, a) == IF h # Nobody /\ Of(h.dec, s, a) THEN 1 ELSE 0

LEMMA UnusedParts ==
  ASSUME NEW s, NEW a
  PROVE  Unused(s, a) = Cardinality(InFlight(inflight, s, a)) + InHand(hand, s, a)
                        + Cardinality(InChannels(chan, s, a))
BY DEF Unused, InFlight, InHand, InChannels, Of

LEMMA InFlightFinite ==
  ASSUME NEW D, NEW q \in Seq(D), NEW s, NEW a
  PROVE  IsFiniteSet(InFlight(q, s, a)) /\ Cardinality(InFlight(q, s, a)) \in Nat
<1>1. IsFiniteSet(1 .. Len(q))
  BY FS_Interval
<1>2. InFlight(q, s, a) \in SUBSET (1 .. Len(q))
  BY DEF InFlight
<1> QED
  BY <1>1, <1>2, FS_Subset, FS_CardinalityType

LEMMA InChannelsFinite ==
  ASSUME NEW c, NEW s, NEW a
  PROVE  IsFiniteSet(InChannels(c, s, a)) /\ Cardinality(InChannels(c, s, a)) \in Nat
<1>1. InChannels(c, s, a) \in SUBSET Req
  BY DEF InChannels
<1> QED
  BY <1>1, BridgeAssumption, FS_Subset, FS_CardinalityType

LEMMA UnusedIsNat ==
  ASSUME TypeOK, NEW s, NEW a
  PROVE  Unused(s, a) \in Nat
<1>1. inflight \in Seq(Decision)
  BY DEF TypeOK
<1>2. Cardinality(InFlight(inflight, s, a)) \in Nat
  BY <1>1, InFlightFinite
<1>3. Cardinality(InChannels(chan, s, a)) \in Nat
  BY InChannelsFinite
<1> QED
  BY <1>2, <1>3, UnusedParts DEF InHand

\* One more in flight.
LEMMA InFlightAppend ==
  ASSUME NEW q \in Seq(Decision), NEW dec \in Decision, NEW s, NEW a
  PROVE  Cardinality(InFlight(Append(q, dec), s, a)) =
           Cardinality(InFlight(q, s, a)) + (IF Of(dec, s, a) THEN 1 ELSE 0)
<1> DEFINE more == Append(q, dec)
<1>1. /\ DOMAIN more = 1 .. Len(q) + 1 /\ DOMAIN q = 1 .. Len(q) /\ Len(q) \in Nat
      /\ \A i \in DOMAIN q : more[i] = q[i]
      /\ more[Len(q) + 1] = dec
  OBVIOUS
<1>2. IsFiniteSet(InFlight(q, s, a)) /\ Cardinality(InFlight(q, s, a)) \in Nat
  BY InFlightFinite
<1>3. Len(q) + 1 \notin InFlight(q, s, a)
  BY <1>1 DEF InFlight
<1>4. \A i \in DOMAIN more : i \in DOMAIN q \/ i = Len(q) + 1
  BY <1>1
<1>5. InFlight(more, s, a) = IF Of(dec, s, a) THEN InFlight(q, s, a) \cup {Len(q) + 1}
                             ELSE InFlight(q, s, a)
  BY <1>1, <1>4 DEF InFlight
<1> HIDE DEF more
<1>6. CASE Of(dec, s, a)
  BY <1>2, <1>3, <1>5, <1>6, FS_AddElement DEF more
<1>7. CASE ~Of(dec, s, a)
  BY <1>2, <1>5, <1>7 DEF more
<1> QED
  BY <1>6, <1>7

\* The first is taken: the places of the others move up by one.
LEMMA InFlightTail ==
  ASSUME NEW q \in Seq(Decision), q # << >>, NEW s, NEW a
  PROVE  Cardinality(InFlight(q, s, a)) =
           Cardinality(InFlight(Tail(q), s, a)) + (IF Of(Head(q), s, a) THEN 1 ELSE 0)
<1> DEFINE rest == Tail(q)
           moved == [i \in InFlight(rest, s, a) |-> i + 1]
<1>1. /\ Len(q) \in Nat \ {0} /\ DOMAIN q = 1 .. Len(q) /\ DOMAIN rest = 1 .. Len(q) - 1
      /\ \A i \in DOMAIN rest : rest[i] = q[i + 1]
      /\ Head(q) = q[1]
  OBVIOUS
<1>2. /\ IsFiniteSet(InFlight(q, s, a)) /\ Cardinality(InFlight(q, s, a)) \in Nat
      /\ IsFiniteSet(InFlight(rest, s, a)) /\ Cardinality(InFlight(rest, s, a)) \in Nat
  <2>1. rest \in Seq(Decision)
    OBVIOUS
  <2> QED
    BY <2>1, InFlightFinite
<1>3. moved \in Bijection(InFlight(rest, s, a), InFlight(q, s, a) \ {1})
  <2>1. \A i \in InFlight(rest, s, a) : i \in Nat /\ moved[i] = i + 1
    BY <1>1 DEF InFlight
  <2>2. moved \in [InFlight(rest, s, a) -> InFlight(q, s, a) \ {1}]
    BY <1>1, <2>1 DEF InFlight
  <2>3. \A i, j \in InFlight(rest, s, a) : moved[i] = moved[j] => i = j
    BY <2>1
  <2>4. ASSUME NEW k \in InFlight(q, s, a) \ {1}
        PROVE  \E i \in InFlight(rest, s, a) : moved[i] = k
    <3>1. k \in DOMAIN q /\ k # 1 /\ Of(q[k], s, a)
      BY DEF InFlight
    <3>2. k - 1 \in DOMAIN rest /\ rest[k - 1] = q[k]
      BY <1>1, <3>1
    <3>3. k - 1 \in InFlight(rest, s, a)
      BY <3>1, <3>2 DEF InFlight
    <3> QED
      BY <1>1, <2>1, <3>1, <3>3
  <2> QED
    BY <2>2, <2>3, <2>4 DEF Bijection, Injection, Surjection, IsInjective
<1>4. Cardinality(InFlight(q, s, a) \ {1}) = Cardinality(InFlight(rest, s, a))
  BY <1>2, <1>3, FS_Bijection DEF ExistsBijection
<1>5. Cardinality(InFlight(q, s, a) \ {1}) =
        IF 1 \in InFlight(q, s, a) THEN Cardinality(InFlight(q, s, a)) - 1
                                   ELSE Cardinality(InFlight(q, s, a))
  BY <1>2, FS_RemoveElement
<1>6. 1 \in InFlight(q, s, a) <=> Of(Head(q), s, a)
  BY <1>1 DEF InFlight
<1> QED
  BY <1>2, <1>4, <1>5, <1>6

\* A channel is filled, and emptied.
LEMMA InChannelsFill ==
  ASSUME NEW c, NEW r \in Req, NEW dec \in Decision,
         c[r] = Nobody, NEW d, \A x \in Req : d[x] = IF x = r THEN dec ELSE c[x], NEW s, NEW a
  PROVE  Cardinality(InChannels(d, s, a)) =
           Cardinality(InChannels(c, s, a)) + (IF Of(dec, s, a) THEN 1 ELSE 0)
<1>1. IsFiniteSet(InChannels(c, s, a)) /\ Cardinality(InChannels(c, s, a)) \in Nat
  BY InChannelsFinite
<1>2. r \notin InChannels(c, s, a) /\ dec # Nobody
  BY BridgeAssumption DEF InChannels, Decision
<1>3. InChannels(d, s, a) =
        IF Of(dec, s, a) THEN InChannels(c, s, a) \cup {r} ELSE InChannels(c, s, a)
  BY <1>2 DEF InChannels
<1>4. CASE Of(dec, s, a)
  BY <1>1, <1>2, <1>3, <1>4, FS_AddElement
<1>5. CASE ~Of(dec, s, a)
  BY <1>1, <1>3, <1>5
<1> QED
  BY <1>4, <1>5

LEMMA InChannelsEmpty ==
  ASSUME NEW c, NEW r \in Req,
         NEW d, \A x \in Req : d[x] = IF x = r THEN Nobody ELSE c[x], NEW s, NEW a
  PROVE  /\ c[r] # Nobody /\ Of(c[r], s, a) =>
              Cardinality(InChannels(d, s, a)) = Cardinality(InChannels(c, s, a)) - 1
         /\ ~(c[r] # Nobody /\ Of(c[r], s, a)) =>
              Cardinality(InChannels(d, s, a)) = Cardinality(InChannels(c, s, a))
<1>1. IsFiniteSet(InChannels(c, s, a)) /\ Cardinality(InChannels(c, s, a)) \in Nat
  BY InChannelsFinite
<1>2. InChannels(d, s, a) = InChannels(c, s, a) \ {r}
  BY DEF InChannels
<1>3. r \in InChannels(c, s, a) <=> c[r] # Nobody /\ Of(c[r], s, a)
  BY DEF InChannels
<1>4. Cardinality(InChannels(c, s, a) \ {r}) =
        IF r \in InChannels(c, s, a) THEN Cardinality(InChannels(c, s, a)) - 1
                                     ELSE Cardinality(InChannels(c, s, a))
  BY <1>1, FS_RemoveElement
<1>5. CASE c[r] # Nobody /\ Of(c[r], s, a)
  BY <1>1, <1>2, <1>3, <1>4, <1>5
<1>6. CASE ~(c[r] # Nobody /\ Of(c[r], s, a))
  <2>1. Cardinality(InChannels(d, s, a))
          = Cardinality(InChannels(c, s, a))
    BY <1>2, <1>3, <1>4, <1>6
  <2>2. (IF c[r] # Nobody /\ Of(c[r], s, a) THEN 1 ELSE 0) = 0
    BY <1>6
  <2> QED
    BY <1>1, <2>1, <2>2
<1> QED
  BY <1>5, <1>6

(***************************************************************************)
(* How far a request is, as Approval sees it: what settled it, and whether *)
(* its verdict is written, follow from where its goroutine is.             *)
(***************************************************************************)
Undecided == {"ask", "probe", "register", "wait"}
Returning == {"cancel", "done"}

Progress ==
  \A r \in Req :
    /\ pc[r] \in Undecided \cup {"idle"} => settled[r] = "open"
    /\ pc[r] = "granted" => settled[r] = "grant"
    /\ pc[r] \in {"nodevice", "timedout"} => settled[r] = "fallback"
    /\ pc[r] = "remember" => settled[r] = "always_allow"
    /\ pc[r] = "settle" => settled[r] \in Answer
    /\ pc[r] \notin Returning => reply[r] = "none"
    /\ pc[r] \in Returning => reply[r] # "none" \/ settled[r] = "gone"

LEMMA VerdictIsWritten == \A a : VerdictOf(a) # "none"
BY DEF VerdictOf

LEMMA ProgressRequest ==
  ASSUME Shape, Progress, NEW r \in Req,
         Step(r) \/ GiveUp(r) \/ Finish(r) \/ \E s \in Sid, c \in Call : Arrive(r, s, c)
  PROVE  Progress'
<1> USE DEF Shape, TypeOK, Goto, deviceVars, reqVars, Progress, Undecided, Returning
<1>1. CASE \E s \in Sid, c \in Call : Arrive(r, s, c)
  BY <1>1 DEF Arrive
<1>2. CASE ShowRunning(r)
  BY <1>2 DEF ShowRunning
<1>3. CASE ShowPrompt(r) \/ ProbeDevice(r)
  BY <1>3 DEF ShowPrompt, ProbeDevice
<1>4. CASE NoDevice(r)
  BY <1>4 DEF NoDevice
<1>5. CASE Register(r) \/ TimeOut(r) \/ GiveUp(r)
  BY <1>5 DEF Register, TimeOut, GiveUp
<1>6. CASE TakeAnswer(r)
  <2>1. chan[r].ans \in Answer
    BY <1>6 DEF TakeAnswer, Decision
  <2> QED
    BY <1>6, <2>1 DEF TakeAnswer
<1>7. CASE Remember(r)
  <2>1. "always_allow" \in Answer
    BY DEF Answer
  <2> QED
    BY <1>7, <2>1 DEF Remember
<1>8. CASE Settle(r)
  BY <1>8, VerdictIsWritten DEF Settle
<1>9. CASE SettleTimeOut(r)
  BY <1>9 DEF SettleTimeOut
<1>10. CASE Cancel(r)
  BY <1>10 DEF Cancel
<1>11. CASE Finish(r)
  BY <1>11 DEF Finish
<1> QED
  BY <1>1, <1>2, <1>3, <1>4, <1>5, <1>6, <1>7, <1>8, <1>9, <1>10, <1>11 DEF Step

LEMMA ProgressOthers ==
  ASSUME Progress,
         \/ \E s \in Sid : LifecycleHook(s) \/ SessionEnd(s) \/ ForgetGrants(s)
         \/ \E s \in Sid, a \in Offered : UserAnswers(s, a)
         \/ Sweep \/ Connect \/ Disconnect \/ Render \/ Lookup \/ Deliver \/ Restart
         \/ UNCHANGED vars
  PROVE  Progress'
<1>1. CASE Restart
  BY <1>1 DEF Restart, Progress, Undecided, Returning
<1>2. CASE UNCHANGED <<pc, settled, reply>>
  BY <1>2 DEF Progress
<1> QED
  BY <1>1, <1>2 DEF LifecycleHook, SessionEnd, ForgetGrants, UserAnswers, Sweep, Connect,
     Disconnect, Render, Lookup, Deliver, vars, reqVars

Kept == Routed /\ Progress

LEMMA KeptInit == Init => Kept
BY RoutedInit DEF Kept, Init, Progress, Undecided, Returning

LEMMA KeptStep == Kept /\ [Next]_vars => Kept'
BY RoutedStep, ProgressRequest, ProgressOthers DEF Next, Kept, Routed

(***************************************************************************)
(* Each step of the bridge is one of Approval's, or leaves what Approval   *)
(* sees alone.                                                             *)
(***************************************************************************)
Given == [k \in Sid \X Answer |-> Unused(k[1], k[2])]

\* No answer appears or moves.
LEMMA GivenSame ==
  ASSUME TypeOK, UNCHANGED <<inflight, hand, chan>>
  PROVE  Given' = Given /\ Len(inflight)' <= Len(inflight)
<1>1. \A s, a : Unused(s, a)' = Unused(s, a)
  BY DEF Unused
<1>2. Len(inflight) \in Nat
  BY DEF TypeOK
<1> QED
  BY <1>1, <1>2 DEF Given

\* A request lets its channel go.
LEMMA GivenEmpty ==
  ASSUME TypeOK, NEW r \in Req, UNCHANGED <<inflight, hand>>,
         \A x \in Req : chan'[x] = IF x = r THEN Nobody ELSE chan[x]
  PROVE  \A s, a : /\ Unused(s, a)' \in Nat
                   /\ Unused(s, a)' = Unused(s, a)
                     - (IF chan[r] # Nobody /\ Of(chan[r], s, a) THEN 1 ELSE 0)
<1> SUFFICES ASSUME NEW s, NEW a
             PROVE  /\ Unused(s, a)' \in Nat
                    /\ Unused(s, a)' = Unused(s, a)
                      - (IF chan[r] # Nobody /\ Of(chan[r], s, a) THEN 1 ELSE 0)
  OBVIOUS
<1> DEFINE flying == Cardinality(InFlight(inflight, s, a))
           held == Cardinality(InChannels(chan, s, a))
           used == IF chan[r] # Nobody /\ Of(chan[r], s, a) THEN 1 ELSE 0
<1>1. flying \in Nat /\ held \in Nat /\ InHand(hand, s, a) \in Nat /\ used \in Nat
  BY InFlightFinite, InChannelsFinite DEF InHand, TypeOK
<1>2. Cardinality(InChannels(chan', s, a)) = held - used
  <2>1. CASE chan[r] # Nobody /\ Of(chan[r], s, a)
    BY <2>1, InChannelsEmpty
  <2>2. CASE ~(chan[r] # Nobody /\ Of(chan[r], s, a))
    BY <1>1, <2>2, InChannelsEmpty
  <2> QED
    BY <2>1, <2>2
<1>3. Unused(s, a) = flying + InHand(hand, s, a) + held
  BY UnusedParts
<1>4. Unused(s, a)' = flying + InHand(hand, s, a) + Cardinality(InChannels(chan', s, a))
  BY DEF Unused, InFlight, InHand, InChannels, Of
<1>5. Cardinality(InChannels(chan', s, a)) \in Nat
  BY InChannelsFinite
<1> HIDE DEF flying, held, used
<1>6. Unused(s, a)' \in Nat /\ Unused(s, a)' = Unused(s, a) - used
  BY <1>1, <1>2, <1>3, <1>4, <1>5
<1> QED
  BY <1>6 DEF used

LEMMA GivenFewer ==
  ASSUME TypeOK, \A s \in Sid, a \in Answer : Unused(s, a)' <= Unused(s, a)
  PROVE  \A k \in Sid \X Answer : Given'[k] <= Given[k]
BY DEF Given

\* Uses the answer in its channel, which was given for its session.
LEMMA TakeIsUse ==
  ASSUME Kept, NEW r \in Req, TakeAnswer(r)
  PROVE  Promise!Use(r, chan[r].ans) /\ chan[r].ans \in Answer
<1> SUFFICES ASSUME NEW s, s = job[r].sid, NEW a, a = chan[r].ans
             PROVE  Promise!Use(r, a) /\ a \in Answer
  OBVIOUS
<1>1. TypeOK /\ Slots /\ AnswersStayInSession /\ Progress
  BY DEF Kept, Routed, Shape
<1>2. pc[r] = "wait" /\ job[r] # Nobody /\ chan[r] # Nobody /\ settled[r] = "open"
  BY <1>1 DEF TakeAnswer, Goto, Slots, Progress, Undecided
<1>3. s \in Sid /\ a \in Answer /\ chan[r].sid = s
  BY <1>1, <1>2, JobFacts DEF Kept, Routed, TypeOK, Decision, AnswersStayInSession
<1>4. \A x, y : /\ Unused(x, y)' \in Nat
                 /\ Unused(x, y)' = Unused(x, y) - (IF x = s /\ y = a THEN 1 ELSE 0)
  <2>1. \A q \in Req : chan'[q] = IF q = r THEN Nobody ELSE chan[q]
    BY <1>1 DEF TakeAnswer, TypeOK
  <2>2. UNCHANGED <<inflight, hand>>
    BY DEF TakeAnswer, deviceVars
  <2>3. \A x, y : /\ Unused(x, y)' \in Nat
                  /\ Unused(x, y)' = Unused(x, y)
                     - (IF chan[r] # Nobody /\ Of(chan[r], x, y) THEN 1 ELSE 0)
    BY <1>1, <2>1, <2>2, GivenEmpty
  <2> QED
    BY <1>2, <1>3, <2>3 DEF Of
<1>5. Unused(s, a) \in Nat /\ Unused(s, a)' \in Nat
  BY <1>1, <1>4, UnusedIsNat
<1>6. Unused(s, a) > 0
  <2>1. Unused(s, a)' = Unused(s, a) - 1
    BY <1>4
  <2> QED
    BY <1>5, <2>1
<1>7. \A x \in Sid, y \in Answer : Unused(x, y) \in Nat
  BY <1>1, UnusedIsNat
<1>8. Given' = [Given EXCEPT ![<<s, a>>] = @ - 1]
  <2>1. ASSUME NEW k \in Sid \X Answer
        PROVE  Given'[k] = [Given EXCEPT ![<<s, a>>] = @ - 1][k]
    <3>1. /\ k[1] \in Sid /\ k[2] \in Answer /\ k = <<k[1], k[2]>>
          /\ Given'[k] = Unused(k[1], k[2])' /\ Given[k] = Unused(k[1], k[2])
      BY DEF Given
    <3>2. CASE k[1] = s /\ k[2] = a
      BY <1>3, <1>4, <3>1, <3>2 DEF Given
    <3>3. CASE ~(k[1] = s /\ k[2] = a)
      <4>1. Given'[k] = Given[k]
        BY <1>4, <1>7, <3>1, <3>3
      <4>2. k # <<s, a>>
        BY <3>3
      <4> QED
        BY <4>1, <4>2 DEF Given
    <3> QED
      BY <3>2, <3>3
  <2> QED
    BY <2>1 DEF Given
<1>9. Given[<<s, a>>] = Unused(s, a)
  BY <1>3 DEF Given
<1> QED
  BY <1>2, <1>3, <1>6, <1>8, <1>9 DEF Promise!Use, Promise!Open, TakeAnswer, Given

\* The dispatcher takes the next answer, or drops it for want of a waiter.
LEMMA LookupLoses ==
  ASSUME Kept, Lookup
  PROVE  /\ \A s, a : Unused(s, a)' <= Unused(s, a)
         /\ Len(inflight)' <= Len(inflight)
<1>1. /\ inflight \in Seq(Decision) /\ inflight # << >> /\ hand = Nobody
      /\ UNCHANGED chan /\ inflight' = Tail(inflight)
      /\ hand' # Nobody => hand'.dec = Head(inflight)
  BY DEF Kept, Routed, Shape, TypeOK, Lookup, reqVars
<1>2. ASSUME NEW s, NEW a PROVE Unused(s, a)' <= Unused(s, a)
  <2> DEFINE after == Cardinality(InFlight(Tail(inflight), s, a))
             held == Cardinality(InChannels(chan, s, a))
             first == IF Of(Head(inflight), s, a) THEN 1 ELSE 0
  <2>1. Cardinality(InFlight(inflight, s, a)) = after + first
    BY <1>1, InFlightTail
  <2>2. Unused(s, a) = Cardinality(InFlight(inflight, s, a)) + InHand(hand, s, a) + held
    BY UnusedParts
  <2>3. Unused(s, a)' = after + InHand(hand', s, a) + held
    BY <1>1 DEF Unused, InFlight, InHand, InChannels, Of
  <2>4. InHand(hand, s, a) = 0 /\ InHand(hand', s, a) \in {0, first}
    BY <1>1 DEF InHand
  <2>5. Tail(inflight) \in Seq(Decision)
    BY <1>1
  <2>6. after \in Nat /\ held \in Nat /\ first \in {0, 1}
    BY <2>5, InFlightFinite, InChannelsFinite
  <2> HIDE DEF after, held, first
  <2> QED
    BY <2>1, <2>2, <2>3, <2>4, <2>6
<1> QED
  BY <1>1, <1>2

\* The answer in hand goes to the channel, or nowhere when that is full.
LEMMA DeliverLoses ==
  ASSUME Kept, Deliver
  PROVE  /\ \A s, a : Unused(s, a)' <= Unused(s, a)
         /\ Len(inflight)' <= Len(inflight)
<1>1. /\ hand # Nobody /\ hand' = Nobody /\ UNCHANGED inflight
      /\ hand.dec \in Decision /\ hand.to \in Req /\ Len(inflight) \in Nat
      /\ inflight \in Seq(Decision)
  BY DEF Kept, Routed, Shape, TypeOK, Deliver
<1>2. ASSUME NEW s, NEW a PROVE Unused(s, a)' <= Unused(s, a)
  <2> DEFINE flying == Cardinality(InFlight(inflight, s, a))
             held == Cardinality(InChannels(chan, s, a))
             this == IF Of(hand.dec, s, a) THEN 1 ELSE 0
  <2>1. Cardinality(InChannels(chan', s, a)) \in {held, held + this}
    <3>1. CASE chan[hand.to] # Nobody
      BY <3>1 DEF Deliver
    <3>2. CASE chan[hand.to] = Nobody
      <4>1. \A x \in Req : chan'[x] = IF x = hand.to THEN hand.dec ELSE chan[x]
        BY <1>1, <3>2 DEF Deliver, Kept, Routed, Shape, TypeOK
      <4> QED
        BY <1>1, <3>2, <4>1, InChannelsFill
    <3> QED
      BY <3>1, <3>2
  <2>2. Unused(s, a) = flying + this + held
    BY <1>1, UnusedParts DEF InHand
  <2>3. Unused(s, a)' = flying + Cardinality(InChannels(chan', s, a))
    <3>1. Unused(s, a)' = flying + InHand(hand', s, a) + Cardinality(InChannels(chan', s, a))
      BY <1>1 DEF Unused, InFlight, InHand, InChannels, Of
    <3>2. InHand(hand', s, a) = 0
      BY <1>1 DEF InHand
    <3> QED
      BY <1>1, <3>1, <3>2, InFlightFinite, InChannelsFinite
  <2>4. flying \in Nat /\ held \in Nat /\ this \in {0, 1}
    BY <1>1, InFlightFinite, InChannelsFinite
  <2> HIDE DEF flying, held, this
  <2> QED
    BY <2>1, <2>2, <2>3, <2>4
<1> QED
  BY <1>1, <1>2

\* No answer is left after a restart, and none is given at the start.
LEMMA NoneUnused ==
  ASSUME inflight = << >>, hand = Nobody, \A r \in Req : chan[r] = Nobody
  PROVE  \A s, a : Unused(s, a) = 0
<1> SUFFICES ASSUME NEW s, NEW a PROVE Unused(s, a) = 0
  OBVIOUS
<1>1. InFlight(inflight, s, a) = {} /\ InChannels(chan, s, a) = {}
  BY DEF InFlight, InChannels
<1>2. InHand(hand, s, a) = 0
  BY DEF InHand
<1>3. Unused(s, a) = Cardinality(InFlight(inflight, s, a)) + InHand(hand, s, a)
                     + Cardinality(InChannels(chan, s, a))
  BY UnusedParts
<1> QED
  BY <1>1, <1>2, <1>3, FS_EmptySet

LEMMA RestartLoses ==
  ASSUME Kept, Restart
  PROVE  /\ \A s, a : Unused(s, a)' <= Unused(s, a)
         /\ Len(inflight)' <= Len(inflight)
<1>1. \A s, a : Unused(s, a)' = 0
  <2> SUFFICES ASSUME NEW s, NEW a PROVE Unused(s, a)' = 0
    OBVIOUS
  <2>1. InFlight(inflight', s, a) = {} /\ InChannels(chan', s, a) = {}
    BY DEF InFlight, InChannels, Restart
  <2>2. Unused(s, a)' = Cardinality(InFlight(inflight', s, a)) + InHand(hand', s, a)
                        + Cardinality(InChannels(chan', s, a))
    BY DEF Unused, InFlight, InHand, InChannels, Of
  <2> QED
    BY <2>1, <2>2, FS_EmptySet DEF InHand, Restart
<1>2. \A s, a : Unused(s, a) \in Nat
  BY UnusedIsNat DEF Kept, Routed, Shape
<1>3. Len(inflight') = 0 /\ Len(inflight) \in Nat
  BY DEF Restart, Kept, Routed, Shape, TypeOK
<1> QED
  BY <1>1, <1>2, <1>3

\* Approval speaks of grants and verdicts as the bridge does.
LEMMA SameWords ==
  /\ \A x : Promise!VerdictOf(x) = VerdictOf(x)
  /\ \A g, s : Promise!GrantsOf(g, s) = GrantsOf(g, s)
  /\ \A g, s, c : Promise!AllowedBy(g, s, c) = AllowedBy(g, s, c)
  /\ Promise!Answer = Answer
<1>1. \A x : Promise!VerdictOf(x) = VerdictOf(x)
  BY DEF VerdictOf, Promise!VerdictOf
<1>2. \A g, s : Promise!GrantsOf(g, s) = GrantsOf(g, s)
  BY DEF GrantsOf, Promise!GrantsOf
<1>3. \A g, s, c : Promise!AllowedBy(g, s, c) = AllowedBy(g, s, c)
  <2>1. \A p, q : Promise!TokenPrefix(p, q) = TokenPrefix(p, q)
    BY DEF TokenPrefix, Promise!TokenPrefix
  <2>2. \A g, s, c : Promise!Covers(g, s, c) = Covers(g, s, c)
    BY <2>1 DEF Covers, Promise!Covers
  <2> QED
    BY <2>2 DEF AllowedBy, Promise!AllowedBy
<1>4. Promise!Answer = Answer
  BY DEF Answer, Promise!Answer
<1> QED
  BY <1>1, <1>2, <1>3, <1>4

\* What a goroutine does is Approval's, or cannot be seen there.
LEMMA RequestImplements ==
  ASSUME Kept, NEW r \in Req,
         Step(r) \/ GiveUp(r) \/ Finish(r) \/ \E s \in Sid, c \in Call : Arrive(r, s, c)
  PROVE  [Promise!Next]_(Promise!vars)
<1> USE DEF Goto, deviceVars, reqVars, Given
<1>0. TypeOK /\ Slots /\ Progress
  BY DEF Kept, Routed, Shape
<1>1. ASSUME NEW s \in Sid, NEW c \in Call, Arrive(r, s, c)
      PROVE  Promise!Next
  <2>1. job[r] = Nobody
    BY <1>0, <1>1 DEF Arrive, Slots
  <2>2. Given' = Given /\ Len(inflight)' <= Len(inflight)
    BY <1>0, <1>1, GivenSame DEF Arrive
  <2>3. Promise!Ask(r, s, c)
    BY <1>1, <2>1, <2>2, SameWords DEF Arrive, Promise!Ask
  <2> QED
    BY <2>2, <2>3 DEF Promise!Next, Promise!Work
<1>2. ASSUME NEW q \in Req, Promise!Reply(q), UNCHANGED inflight
      PROVE  Promise!Next
  <2>1. Len(inflight)' <= Len(inflight)
    BY <1>0, <1>2 DEF TypeOK
  <2> QED
    BY <1>2, <2>1 DEF Promise!Next, Promise!Work
<1>3. CASE ShowRunning(r)
  <2>1. job[r] # Nobody /\ reply[r] = "none" /\ settled[r] = "grant"
    BY <1>0, <1>3 DEF ShowRunning, Slots, Progress, Returning
  <2>2. Given' = Given
    BY <1>0, <1>3, GivenSame DEF ShowRunning
  <2> QED
    BY <1>2, <1>3, <2>1, <2>2, SameWords DEF ShowRunning, Promise!Reply
<1>4. CASE NoDevice(r) \/ SettleTimeOut(r)
  <2>1. job[r] # Nobody /\ reply[r] = "none" /\ settled[r] = "fallback"
    BY <1>0, <1>4 DEF NoDevice, SettleTimeOut, Slots, Progress, Returning
  <2>2. Given' = Given
    BY <1>0, <1>4, GivenSame DEF NoDevice, SettleTimeOut
  <2> QED
    BY <1>2, <1>4, <2>1, <2>2, SameWords DEF NoDevice, SettleTimeOut, Promise!Reply
<1>5. CASE Settle(r)
  <2>1. job[r] # Nobody /\ reply[r] = "none" /\ settled[r] \in Answer
    BY <1>0, <1>5 DEF Settle, Slots, Progress, Returning
  <2>2. Given' = Given
    BY <1>0, <1>5, GivenSame DEF Settle
  <2> QED
    BY <1>2, <1>5, <2>1, <2>2, SameWords DEF Settle, Promise!Reply
<1>6. CASE ShowPrompt(r) \/ Register(r) \/ Cancel(r) \/ (ProbeDevice(r) /\ connected)
  <2>1. Given' = Given
    BY <1>0, <1>6, GivenSame DEF ShowPrompt, Register, Cancel, ProbeDevice
  <2>2. UNCHANGED <<job, reply, inflight, grants>>
    BY <1>6 DEF ShowPrompt, Register, Cancel, ProbeDevice
  <2>3. settled' = settled
    BY <1>0, <1>6 DEF ShowPrompt, Register, Cancel, ProbeDevice, TypeOK, Progress, Undecided
  <2> QED
    BY <2>1, <2>2, <2>3 DEF Promise!vars
<1>7. CASE TimeOut(r) \/ GiveUp(r) \/ (ProbeDevice(r) /\ ~connected)
  <2>1. job[r] # Nobody /\ settled[r] = "open"
    BY <1>0, <1>7 DEF TimeOut, GiveUp, ProbeDevice, Slots, Progress, Undecided
  <2>2. Given' = Given /\ Len(inflight)' <= Len(inflight)
    BY <1>0, <1>7, GivenSame DEF TimeOut, GiveUp, ProbeDevice
  <2>3. \A s \in Sid, a \in Answer : Unused(s, a) <= Unused(s, a)
    BY <1>0, UnusedIsNat
  <2>4. Promise!SomeLost
    BY <2>2, <2>3, SameWords DEF Promise!SomeLost
  <2>5. /\ UNCHANGED <<job, reply, grants>>
        /\ settled' = [settled EXCEPT ![r] = "fallback"] \/ settled' = [settled EXCEPT ![r] = "gone"]
    BY <1>7 DEF TimeOut, GiveUp, ProbeDevice
  <2>6. Promise!FallBack(r)
    BY <2>1, <2>4, <2>5 DEF Promise!FallBack, Promise!Open
  <2> QED
    BY <2>2, <2>6 DEF Promise!Next, Promise!Work
<1>8. CASE TakeAnswer(r)
  <2>1. Promise!Use(r, chan[r].ans) /\ chan[r].ans \in Answer
    BY <1>8, TakeIsUse
  <2>2. Len(inflight)' <= Len(inflight)
    BY <1>0, <1>8 DEF TakeAnswer, TypeOK
  <2> QED
    BY <2>1, <2>2, SameWords DEF Promise!Next, Promise!Work
<1>9. CASE Remember(r)
  <2>1. job[r] # Nobody /\ settled[r] = "always_allow"
    BY <1>0, <1>9 DEF Remember, Slots, Progress
  <2>2. Given' = Given /\ Len(inflight)' <= Len(inflight)
    BY <1>0, <1>9, GivenSame DEF Remember
  <2>3. Promise!Remember(r)
    BY <1>9, <2>1, <2>2 DEF Remember, Promise!Remember
  <2> QED
    BY <2>2, <2>3 DEF Promise!Next, Promise!Work
<1>10. CASE Finish(r)
  <2>1. reply[r] # "none" \/ settled[r] = "gone"
    BY <1>0, <1>10 DEF Finish, Progress, Returning
  <2>2. \A s, a : /\ Unused(s, a) \in Nat /\ Unused(s, a)' \in Nat
                  /\ Unused(s, a)' = Unused(s, a)
                       - (IF chan[r] # Nobody /\ Of(chan[r], s, a) THEN 1 ELSE 0)
    <3>1. \A x \in Req : chan'[x] = IF x = r THEN Nobody ELSE chan[x]
      BY <1>0, <1>10 DEF Finish, TypeOK
    <3>2. UNCHANGED <<inflight, hand>>
      BY <1>10 DEF Finish
    <3> QED
      BY <1>0, <3>1, <3>2, GivenEmpty, UnusedIsNat
  <2>3. \A s \in Sid, a \in Answer : Unused(s, a)' <= Unused(s, a)
    BY <2>2
  <2>4. Promise!SomeLost /\ Len(inflight)' <= Len(inflight)
    BY <1>0, <1>10, <2>3, GivenFewer, SameWords DEF Promise!SomeLost, Finish, TypeOK
  <2>5. Promise!Leave(r)
    BY <1>10, <2>1, <2>4 DEF Finish, Promise!Leave
  <2> QED
    BY <2>4, <2>5 DEF Promise!Next, Promise!Work
<1>11. ProbeDevice(r) => (ProbeDevice(r) /\ connected) \/ (ProbeDevice(r) /\ ~connected)
  OBVIOUS
<1> QED
  BY <1>1, <1>3, <1>4, <1>5, <1>6, <1>7, <1>8, <1>9, <1>10, <1>11 DEF Step

\* The user's answer is one more given.
LEMMA SayImplements ==
  ASSUME Kept, NEW s \in Sid, NEW a \in Offered, UserAnswers(s, a)
  PROVE  Promise!Say(s, a) /\ a \in Answer
<1>1. TypeOK /\ a \in Answer
  BY BridgeAssumption DEF Kept, Routed, Shape
<1> DEFINE dec == [sid |-> s, ans |-> a, about |-> shown[s]]
<1>2. dec \in Decision /\ inflight \in Seq(Decision) /\ inflight' = Append(inflight, dec)
  BY <1>1 DEF UserAnswers, TypeOK, Decision
<1>3. \A x, y : Unused(x, y)' = Unused(x, y) + (IF x = s /\ y = a THEN 1 ELSE 0)
  <2> SUFFICES ASSUME NEW x, NEW y
               PROVE  Unused(x, y)' = Unused(x, y) + (IF x = s /\ y = a THEN 1 ELSE 0)
    OBVIOUS
  <2> DEFINE before == Cardinality(InFlight(inflight, x, y))
             held == Cardinality(InChannels(chan, x, y))
             given == IF x = s /\ y = a THEN 1 ELSE 0
  <2>1. Of(dec, x, y) <=> x = s /\ y = a
    BY DEF Of
  <2>2. Cardinality(InFlight(Append(inflight, dec), x, y)) = before + given
    BY <1>2, <2>1, InFlightAppend
  <2>3. Unused(x, y) = before + InHand(hand, x, y) + held
    BY UnusedParts
  <2>4. UNCHANGED <<chan, hand>>
    BY DEF UserAnswers, reqVars
  <2>5. Unused(x, y)' = Cardinality(InFlight(Append(inflight, dec), x, y))
                        + InHand(hand, x, y) + held
    BY <1>2, <2>4 DEF Unused, InFlight, InHand, InChannels, Of
  <2>6. before \in Nat /\ held \in Nat /\ given \in Nat /\ InHand(hand, x, y) \in Nat
    BY <1>2, InFlightFinite, InChannelsFinite DEF InHand
  <2> HIDE DEF before, held, given
  <2>7. Unused(x, y)' = Unused(x, y) + given
    BY <2>2, <2>3, <2>5, <2>6
  <2> QED
    BY <2>7 DEF given
<1>4. \A x, y : Unused(x, y) \in Nat
  BY <1>1, UnusedIsNat
<1>5. Given' = [Given EXCEPT ![<<s, a>>] = @ + 1]
  <2>1. ASSUME NEW k \in Sid \X Answer
        PROVE  Given'[k] = [Given EXCEPT ![<<s, a>>] = @ + 1][k]
    <3>1. /\ k[1] \in Sid /\ k[2] \in Answer /\ k = <<k[1], k[2]>>
          /\ Given'[k] = Unused(k[1], k[2])' /\ Given[k] = Unused(k[1], k[2])
      BY DEF Given
    <3>2. CASE k[1] = s /\ k[2] = a
      BY <1>1, <1>3, <3>1, <3>2 DEF Given
    <3>3. CASE ~(k[1] = s /\ k[2] = a)
      <4>1. Given'[k] = Given[k]
        BY <1>3, <1>4, <3>1, <3>3
      <4>2. k # <<s, a>>
        BY <3>3
      <4> QED
        BY <4>1, <4>2 DEF Given
    <3> QED
      BY <3>2, <3>3
  <2> QED
    BY <2>1 DEF Given
<1>6. Len(inflight)' = Len(inflight) + 1
  BY <1>2
<1> QED
  BY <1>1, <1>5, <1>6 DEF Promise!Say, UserAnswers, reqVars, Given

\* What anyone else does is Approval's, or cannot be seen there.
LEMMA OthersImplement ==
  ASSUME Kept,
         \/ \E s \in Sid : LifecycleHook(s) \/ SessionEnd(s) \/ ForgetGrants(s)
         \/ \E s \in Sid, a \in Offered : UserAnswers(s, a)
         \/ Sweep \/ Connect \/ Disconnect \/ Render \/ Lookup \/ Deliver \/ Restart
         \/ UNCHANGED vars
  PROVE  [Promise!Next]_(Promise!vars)
<1> USE DEF deviceVars, reqVars, Given
<1>0. TypeOK
  BY DEF Kept, Routed, Shape
<1>1. CASE \/ \E s \in Sid : LifecycleHook(s) \/ SessionEnd(s)
           \/ Sweep \/ Connect \/ Disconnect \/ Render \/ UNCHANGED vars
  <2>1. UNCHANGED <<job, chan, settled, reply, grants, inflight, hand>>
    BY <1>1 DEF LifecycleHook, SessionEnd, Sweep, Connect, Disconnect, Render, vars
  <2>2. Given' = Given
    BY <1>0, <2>1, GivenSame
  <2> QED
    BY <2>1, <2>2 DEF Promise!vars
<1>2. ASSUME NEW s \in Sid, ForgetGrants(s) PROVE Promise!Next
  <2>1. Given' = Given /\ Len(inflight)' <= Len(inflight)
    BY <1>0, <1>2, GivenSame DEF ForgetGrants
  <2>2. Promise!Forget(s)
    BY <1>2, <2>1, SameWords DEF ForgetGrants, Promise!Forget
  <2> QED
    BY <2>1, <2>2 DEF Promise!Next, Promise!Work
<1>3. ASSUME NEW s \in Sid, NEW a \in Offered, UserAnswers(s, a) PROVE Promise!Next
  BY <1>3, SayImplements, SameWords DEF Promise!Next
<1>4. ASSUME \A s \in Sid, a \in Answer : Unused(s, a)' <= Unused(s, a),
             Len(inflight)' <= Len(inflight), UNCHANGED <<job, settled, reply, grants>>
      PROVE  Promise!Next
  <2>1. Promise!SomeLost
    BY <1>0, <1>4, GivenFewer, SameWords DEF Promise!SomeLost
  <2> QED
    BY <1>4, <2>1 DEF Promise!Lose, Promise!Next, Promise!Work
<1>5. CASE Lookup
  BY <1>4, <1>5, LookupLoses DEF Lookup
<1>6. CASE Deliver
  BY <1>4, <1>6, DeliverLoses DEF Deliver
<1>7. CASE Restart
  <2>1. Promise!SomeLost /\ Len(inflight)' <= Len(inflight)
    BY <1>0, <1>7, RestartLoses, GivenFewer, SameWords DEF Promise!SomeLost
  <2>2. Promise!Restart
    BY <1>7, <2>1 DEF Restart, Promise!Restart
  <2> QED
    BY <2>1, <2>2 DEF Promise!Next, Promise!Work
<1> QED
  BY <1>1, <1>2, <1>3, <1>5, <1>6, <1>7

LEMMA PromiseInit == Init => Promise!Init
<1> SUFFICES ASSUME Init PROVE Promise!Init
  OBVIOUS
<1>1. \A s, a : Unused(s, a) = 0
  BY NoneUnused DEF Init
<1>2. [k \in Sid \X Answer |-> Unused(k[1], k[2])] = [k \in Sid \X Answer |-> 0]
  BY <1>1
<1> QED
  BY <1>2, SameWords DEF Init, Promise!Init

\* The bridge does what Approval promises, whatever the sessions, calls and requests,
\* and however its goroutines, its dispatcher and its sweeper take turns: an answer
\* settles at most one call, of its own session, every verdict is the one that settled
\* its call, and a grant remembers only a call an "always allow" has settled.
THEOREM BridgeKeepsPromise == Spec => KeepsApprovalPromise
<1>1. Kept /\ [Next]_vars => [Promise!Next]_(Promise!vars)
  BY RequestImplements, OthersImplement DEF Next
<1> QED
  BY <1>1, KeptInit, KeptStep, PromiseInit, PTL DEF Spec, KeepsApprovalPromise, Promise!Spec
=============================================================================
