------------------------------- MODULE Bridge -------------------------------
(***************************************************************************)
(* The approval loop of the daemon: the goroutines of handlePreToolUse,    *)
(* one per request, over the router, the session store and the grants,     *)
(* beside the lifecycle hooks of the same sessions, the sweeper, the       *)
(* dispatcher of the dial's answers, and a device that comes and goes.     *)
(*                                                                         *)
(* A goroutine is cut at every lock it takes: between two of its steps     *)
(* anything else may happen.  A store operation is taken together with the *)
(* broadcast that follows it; the device catches up at any later time      *)
(* (Render).  Saving the grants is the subject of Rules; here it succeeds. *)
(***************************************************************************)
EXTENDS Roster, Grants, FiniteSets

CONSTANTS Req,         \* requests: slots for PreToolUse calls
          Nobody,      \* no request, no job, no answer
          Offered,     \* the answers the device offers
          Events,      \* what else happens to the sessions, of AllEvents
          MaxInFlight, \* capacity of the stream of decisions
          MayGiveUp    \* whether clients close a request they wait on

AllEvents == {"lifecycle", "message", "dialog", "end", "sweep"}

ASSUME BridgeAssumption ==
  /\ Events \subseteq AllEvents
  /\ Offered \subseteq Answer
  /\ MaxInFlight \in Nat \ {0}
  /\ MayGiveUp \in BOOLEAN
  /\ IsFiniteSet(Req) /\ Nobody \notin Req
  /\ Nobody \notin [sid : Sid, call : Call]
  /\ Nobody \notin [sid : Sid, ans : Answer, about : Call \cup {NoCall}]
  /\ Nobody \notin Call \cup {NoCall}

VARIABLES pc,        \* where the goroutine of a request is
          job,       \* its session and call
          chan,      \* the channel, of capacity 1, it waits on
          settled,   \* which case of its select was taken, and with what
          reply,     \* the permission decision written to Claude Code
          waiters,   \* router: session -> the request registered for it
          grants,    \* rules.Store
          ending,    \* sessions of which SessionEnd is removed, not forgotten
          connected, \* dev.Connected
          shown,     \* the call of each session the device shows as asking
          inflight,  \* decisions on their way from the device
          hand       \* the decision dispatch holds, with its channel

vars == <<roster, pc, job, chan, settled, reply, waiters, grants, ending,
          connected, shown, inflight, hand>>

reqVars    == <<pc, job, chan, settled, reply>>
deviceVars == <<connected, shown, inflight, hand>>

Job      == [sid : Sid, call : Call]
\* about: the call that was on the screen
Decision == [sid : Sid, ans : Answer, about : Call \cup {NoCall}]

Init ==
  /\ RosterInit
  /\ pc = [r \in Req |-> "idle"]
  /\ job = [r \in Req |-> Nobody]
  /\ chan = [r \in Req |-> Nobody]
  /\ settled = [r \in Req |-> "open"]
  /\ reply = [r \in Req |-> "none"]
  /\ waiters = [s \in Sid |-> Nobody]
  /\ grants = {} /\ ending = {}
  /\ connected = FALSE
  /\ shown = [s \in Sid |-> Nobody]
  /\ inflight = << >> /\ hand = Nobody

Goto(r, from, to) == pc[r] = from /\ pc' = [pc EXCEPT ![r] = to]
-----------------------------------------------------------------------------
(* handlePreToolUse *)

Arrive(r, s, c) ==
  /\ Goto(r, "idle", IF AllowedBy(grants, s, c) THEN "granted" ELSE "ask")
  /\ job' = [job EXCEPT ![r] = [sid |-> s, call |-> c]]
  /\ settled' = [settled EXCEPT ![r] = IF AllowedBy(grants, s, c) THEN "grant" ELSE "open"]
  /\ UNCHANGED <<roster, chan, reply, waiters, grants, ending, deviceVars>>

\* Always allowed: approve silently and show the tool as running.
ShowRunning(r) ==
  /\ Goto(r, "granted", "done")
  /\ Upsert(job[r].sid, "working", job[r].call)
  /\ reply' = [reply EXCEPT ![r] = "allow"]
  /\ UNCHANGED <<job, chan, settled, waiters, grants, ending, deviceVars>>

ShowPrompt(r) ==
  /\ Goto(r, "ask", "probe")
  /\ Upsert(job[r].sid, "permission_request", job[r].call)
  /\ UNCHANGED <<job, chan, settled, reply, waiters, grants, ending, deviceVars>>

ProbeDevice(r) ==
  /\ Goto(r, "probe", IF connected THEN "register" ELSE "nodevice")
  /\ settled' = [settled EXCEPT ![r] = IF connected THEN "open" ELSE "fallback"]
  /\ UNCHANGED <<roster, job, chan, reply, waiters, grants, ending, deviceVars>>

\* Golden rule: no device to ask, back to the terminal at once.
NoDevice(r) ==
  /\ Goto(r, "nodevice", "done")
  /\ SetState(job[r].sid, "working")
  /\ reply' = [reply EXCEPT ![r] = "ask"]
  /\ UNCHANGED <<job, chan, settled, waiters, grants, ending, deviceVars>>

\* A second request of the session takes the place of the first.
Register(r) ==
  /\ Goto(r, "register", "wait")
  /\ waiters' = [waiters EXCEPT ![job[r].sid] = r]
  /\ UNCHANGED <<roster, job, chan, settled, reply, grants, ending, deviceVars>>

\* With a bug: every answer but "allow once" is remembered.
TakeAnswerForGood(r) ==
  /\ chan[r] # Nobody
  /\ Goto(r, "wait", IF chan[r].ans # "allow_once" THEN "remember" ELSE "settle")
  /\ settled' = [settled EXCEPT ![r] = chan[r].ans]
  /\ chan' = [chan EXCEPT ![r] = Nobody]
  /\ UNCHANGED <<roster, job, reply, waiters, grants, ending, deviceVars>>

\* The three cases of the select; when several are ready any of them is taken.
TakeAnswer(r) ==
  /\ chan[r] # Nobody
  /\ Goto(r, "wait", IF chan[r].ans = "always_allow" THEN "remember" ELSE "settle")
  /\ settled' = [settled EXCEPT ![r] = chan[r].ans]
  /\ chan' = [chan EXCEPT ![r] = Nobody]
  /\ UNCHANGED <<roster, job, reply, waiters, grants, ending, deviceVars>>

\* With a bug: only the request the router knows can time out.
TimeOutRegistered(r) ==
  /\ Goto(r, "wait", "timedout")
  /\ waiters[job[r].sid] = r
  /\ settled' = [settled EXCEPT ![r] = "fallback"]
  /\ UNCHANGED <<roster, job, chan, reply, waiters, grants, ending, deviceVars>>

TimeOut(r) ==
  /\ Goto(r, "wait", "timedout")
  /\ settled' = [settled EXCEPT ![r] = "fallback"]
  /\ UNCHANGED <<roster, job, chan, reply, waiters, grants, ending, deviceVars>>

GiveUp(r) ==
  /\ MayGiveUp
  /\ Goto(r, "wait", "cancel")
  /\ settled' = [settled EXCEPT ![r] = "gone"]
  /\ UNCHANGED <<roster, job, chan, reply, waiters, grants, ending, deviceVars>>

Remember(r) ==
  /\ Goto(r, "remember", "settle")
  /\ grants' = grants \cup {[session |-> job[r].sid, call |-> job[r].call]}
  /\ UNCHANGED <<roster, job, chan, settled, reply, waiters, ending, deviceVars>>

Settle(r) ==
  /\ Goto(r, "settle", "cancel")
  /\ SetState(job[r].sid, StateAfter(settled[r]))
  /\ reply' = [reply EXCEPT ![r] = VerdictOf(settled[r])]
  /\ UNCHANGED <<job, chan, settled, waiters, grants, ending, deviceVars>>

\* With a bug: the prompt is left on the dial.
SettleTimeOutQuiet(r) ==
  /\ Goto(r, "timedout", "cancel")
  /\ reply' = [reply EXCEPT ![r] = "ask"]
  /\ UNCHANGED <<roster, job, chan, settled, waiters, grants, ending, deviceVars>>

SettleTimeOut(r) ==
  /\ Goto(r, "timedout", "cancel")
  /\ SetState(job[r].sid, "working")
  /\ reply' = [reply EXCEPT ![r] = "ask"]
  /\ UNCHANGED <<job, chan, settled, waiters, grants, ending, deviceVars>>

\* With a bug: nothing is deferred.
CancelNothing(r) ==
  /\ Goto(r, "cancel", "done")
  /\ UNCHANGED <<roster, job, chan, settled, reply, waiters, grants, ending, deviceVars>>

\* The deferred cancel: release the waiter, if it is still this request.
Cancel(r) ==
  /\ Goto(r, "cancel", "done")
  /\ waiters' = IF waiters[job[r].sid] = r
                THEN [waiters EXCEPT ![job[r].sid] = Nobody] ELSE waiters
  /\ UNCHANGED <<roster, job, chan, settled, reply, grants, ending, deviceVars>>

\* The slot is free for another request, with a channel of its own: not while
\* the dispatcher still holds the old one.
Finish(r) ==
  /\ hand # Nobody => hand.to # r
  /\ Goto(r, "done", "idle")
  /\ job' = [job EXCEPT ![r] = Nobody]
  /\ chan' = [chan EXCEPT ![r] = Nobody]
  /\ settled' = [settled EXCEPT ![r] = "open"]
  /\ reply' = [reply EXCEPT ![r] = "none"]
  /\ UNCHANGED <<roster, waiters, grants, ending, deviceVars>>

\* What the goroutine does by itself once its request has arrived.
Step(r) ==
  \/ ShowRunning(r) \/ ShowPrompt(r) \/ ProbeDevice(r) \/ NoDevice(r)
  \/ Register(r) \/ TakeAnswer(r) \/ TimeOut(r) \/ Remember(r)
  \/ Settle(r) \/ SettleTimeOut(r) \/ Cancel(r)
-----------------------------------------------------------------------------
(* handleEvent and the sweeper *)

LifecycleHook(s) ==
  /\ \/ "lifecycle" \in Events /\ \E state \in {"idle", "working"} : Touch(s, state)
     \/ "message" \in Events /\ TouchLiveness(s)
     \/ "dialog" \in Events /\ \E c \in Call : Upsert(s, "blocked", c)
  /\ UNCHANGED <<reqVars, waiters, grants, ending, deviceVars>>

\* SessionEnd takes the store's lock, then that of the grants.
SessionEnd(s) ==
  /\ "end" \in Events
  /\ Drop(s)
  /\ ending' = ending \cup {s}
  /\ UNCHANGED <<reqVars, waiters, grants, deviceVars>>

ForgetGrants(s) ==
  /\ s \in ending
  /\ ending' = ending \ {s}
  /\ grants' = grants \ GrantsOf(grants, s)
  /\ UNCHANGED <<roster, reqVars, waiters, deviceVars>>

\* The request timeout (90 s) is shorter than the age at which a session is
\* dropped (1 h): one with a request that shows its prompt stays.
Asking(s) == {r \in Req : job[r] # Nobody /\ job[r].sid = s /\ pc[r] \notin {"ask", "done"}}

Sweep ==
  "sweep" \in Events /\ \E gone \in SUBSET {s \in Sid : Asking(s) = {}}, quiet \in SUBSET Sid :
    /\ Decay(gone, quiet)
    /\ UNCHANGED <<reqVars, waiters, grants, ending, deviceVars>>
-----------------------------------------------------------------------------
(* The device, the fan-in of its decisions, and dispatch *)

Connect ==
  /\ ~connected
  /\ connected' = TRUE
  /\ UNCHANGED <<roster, reqVars, waiters, grants, ending, shown, inflight, hand>>

Disconnect ==
  /\ connected
  /\ connected' = FALSE
  /\ shown' = [s \in Sid |-> Nobody]
  /\ UNCHANGED <<roster, reqVars, waiters, grants, ending, inflight, hand>>

Render ==
  /\ connected
  /\ shown' = [s \in Sid |-> IF roster[s].state = "permission_request"
                             THEN roster[s].call ELSE Nobody]
  /\ UNCHANGED <<roster, reqVars, waiters, grants, ending, connected, inflight, hand>>

\* The user answers what the device shows; the stream drops what it cannot hold.
UserAnswers(s, a) ==
  /\ connected /\ shown[s] # Nobody
  /\ Len(inflight) < MaxInFlight
  /\ inflight' = Append(inflight, [sid |-> s, ans |-> a, about |-> shown[s]])
  /\ UNCHANGED <<roster, reqVars, waiters, grants, ending, connected, shown, hand>>

\* deliver, first half: find the waiter under the router's lock ...
Lookup ==
  /\ hand = Nobody /\ inflight # << >>
  /\ LET dec == Head(inflight)
     IN  hand' = IF waiters[dec.sid] = Nobody THEN Nobody
                 ELSE [dec |-> dec, to |-> waiters[dec.sid]]
  /\ inflight' = Tail(inflight)
  /\ UNCHANGED <<roster, reqVars, waiters, grants, ending, connected, shown>>

\* ... second half: a send that does not block, without the lock.
Deliver ==
  /\ hand # Nobody
  /\ chan' = IF chan[hand.to] = Nobody THEN [chan EXCEPT ![hand.to] = hand.dec] ELSE chan
  /\ hand' = Nobody
  /\ UNCHANGED <<roster, pc, job, settled, reply, waiters, grants, ending,
                 connected, shown, inflight>>
-----------------------------------------------------------------------------
\* The daemon is killed and started again: only the grants are on disk.
Restart ==
  /\ roster' = [s \in Sid |-> Absent]
  /\ pc' = [r \in Req |-> "idle"]
  /\ job' = [r \in Req |-> Nobody]
  /\ chan' = [r \in Req |-> Nobody]
  /\ settled' = [r \in Req |-> "open"]
  /\ reply' = [r \in Req |-> "none"]
  /\ waiters' = [s \in Sid |-> Nobody]
  /\ ending' = {}
  /\ connected' = FALSE
  /\ shown' = [s \in Sid |-> Nobody]
  /\ inflight' = << >> /\ hand' = Nobody
  /\ UNCHANGED grants

Next ==
  \/ \E r \in Req, s \in Sid, c \in Call : Arrive(r, s, c)
  \/ \E r \in Req : Step(r) \/ GiveUp(r) \/ Finish(r)
  \/ \E s \in Sid : LifecycleHook(s) \/ SessionEnd(s) \/ ForgetGrants(s)
  \/ \E s \in Sid, a \in Offered : UserAnswers(s, a)
  \/ Sweep \/ Connect \/ Disconnect \/ Render \/ Lookup \/ Deliver \/ Restart

Spec == Init /\ [][Next]_vars

FairSpec == Spec /\ \A r \in Req : WF_vars(Step(r))
-----------------------------------------------------------------------------
PC == {"idle", "granted", "ask", "probe", "nodevice", "register", "wait",
       "remember", "settle", "timedout", "cancel", "done"}

\* Type invariant.
TypeOK ==
  /\ roster \in [Sid -> Cell \cup {Absent}]
  /\ pc \in [Req -> PC]
  /\ job \in [Req -> Job \cup {Nobody}]
  /\ chan \in [Req -> Decision \cup {Nobody}]
  /\ settled \in [Req -> Answer \cup {"open", "grant", "fallback", "gone"}]
  /\ reply \in [Req -> Verdict \cup {"none"}]
  /\ waiters \in [Sid -> Req \cup {Nobody}]
  /\ grants \in SUBSET Grant
  /\ ending \in SUBSET Sid
  /\ connected \in BOOLEAN
  /\ shown \in [Sid -> Call \cup {NoCall, Nobody}]
  /\ inflight \in Seq(Decision) /\ Len(inflight) <= MaxInFlight
  /\ hand \in [dec : Decision, to : Req] \cup {Nobody}

\* The router never points at a request that has returned, or at one of another
\* session: whatever registers takes itself out again, and only itself.
WaitersAreLive ==
  \A s \in Sid : waiters[s] # Nobody =>
    /\ pc[waiters[s]] \in {"wait", "remember", "settle", "timedout", "cancel"}
    /\ job[waiters[s]].sid = s

\* An answer reaches only requests of the session it was given for, however
\* the waiters change between the lookup and the send.
AnswersStayInSession ==
  /\ \A r \in Req : chan[r] # Nobody => job[r] # Nobody /\ chan[r].sid = job[r].sid
  /\ hand # Nobody => job[hand.to] # Nobody /\ hand.dec.sid = job[hand.to].sid

\* A session is shown as asking the dial only while a request of it is open:
\* whichever request of the session asked last has not settled yet ("that path
\* holds its own request open with its own timeout").
AskerOf(s) == {r \in Req : /\ job[r] # Nobody /\ job[r].sid = s
                           /\ pc[r] \in {"probe", "nodevice", "register", "wait",
                                         "remember", "settle", "timedout"}}

HasAsker(s) == roster[s].state = "permission_request" => AskerOf(s) # {}

PromptHasAsker == \A s \in Sid : HasAsker(s)

\* A client that closes the request it waits on settles nothing and leaves the
\* prompt behind.  Nothing else does, in whatever order the requests of a session,
\* its hooks, the sweeper and the device interleave: a step after which a session
\* asks with no request open, and did not before it, is a client giving up.
OnlyGivingUpOrphans ==
  [][\A s \in Sid : HasAsker(s) => \/ HasAsker(s)'
                                  \/ \E r \in Req : GiveUp(r) /\ job[r].sid = s]_vars

\* The bridge keeps the promise of Approval: an answer is used at most once, for
\* an open call of its own session, the verdict written is the one that settled
\* the call, and a grant remembers a call an "always allow" settled.
Unused(s, a) ==
  LET matches(dec) == dec.sid = s /\ dec.ans = a
  IN  Cardinality({i \in DOMAIN inflight : matches(inflight[i])})
      + (IF hand # Nobody /\ matches(hand.dec) THEN 1 ELSE 0)
      + Cardinality({r \in Req : chan[r] # Nobody /\ matches(chan[r])})

Promise == INSTANCE Approval WITH
  answers <- [k \in Sid \X Answer |-> Unused(k[1], k[2])],
  unheard <- Len(inflight)

KeepsApprovalPromise == Promise!Spec

\* Golden rule: every call that asks gets its answer, with or without a device,
\* even when another request has taken its place in the router.
GoldenRule ==
  \A r \in Req : pc[r] \notin {"idle", "done"} ~> pc[r] \in {"idle", "done"}

\* "When a permission is answered 'always allow', the exact (session, tool,
\* command) is remembered": the call that is granted is the one on the screen.
GrantsWhatWasShown ==
  [][\A r \in Req : TakeAnswer(r) /\ chan[r].ans = "always_allow"
                      => chan[r].about = job[r].call]_vars

\* "Per-session grants die with the session": no grant is given to a session that
\* has ended and has been forgotten.
GrantsDieWithSession ==
  [][\A g \in grants' \ grants : roster[g.session] # Absent \/ g.session \in ending]_vars
=============================================================================
