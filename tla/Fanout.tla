------------------------------- MODULE Fanout -------------------------------
(***************************************************************************)
(* The devices of the daemon taken for one: the simulator's hub, which     *)
(* pushes each snapshot to every browser that watches, and the merging of  *)
(* the answers of all devices into one channel.  What the Dial makes of a  *)
(* snapshot is in BleLink; a device is here only a source of answers.      *)
(***************************************************************************)
EXTENDS Naturals, Sequences

CONSTANTS Client,    \* event streams of browsers
          View,      \* snapshots of the store
          Nothing,   \* none
          Caster,    \* goroutines of handlers, which broadcast as the ticker does
          ClientCap, \* frames a client may be behind (8)
          Device,    \* the hub and the Dial
          DeviceCap, \* capacity of a device's channel of answers (16, 32)
          MergedCap, \* and of the merged one (32)
          MaxGiven   \* bound: answers of a device

ASSUME FanoutAssumption ==
  /\ Nothing \notin View
  /\ ClientCap \in Nat \ {0} /\ DeviceCap \in Nat \ {0} /\ MergedCap \in Nat \ {0}
  /\ MaxGiven \in Nat

VARIABLES store,   \* the view of the store
          held,    \* what a caster has taken of it and not handed over yet
          clients, \* Hub.clients
          last,    \* Hub.last
          frames,  \* the channel of each client
          greet,   \* the copy of last a new client has still to be sent
          page,    \* what its browser shows
          missed,  \* history: clients for which the newest frame was dropped
          given,   \* answers of each device, numbered
          posted,  \* the device's own channel
          inHand,  \* what the goroutine of NewFanout has received of it
          merged,  \* fanout.decisions
          heard    \* the last answer of each device that dispatch received

screen  == <<store, held, clients, last, frames, greet, page, missed>>
answers == <<given, posted, inHand, merged, heard>>
vars    == <<screen, answers>>

Init ==
  /\ store \in View /\ held = [b \in Caster |-> Nothing]
  /\ clients = {} /\ last = Nothing
  /\ frames = [c \in Client |-> << >>] /\ greet = [c \in Client |-> Nothing]
  /\ page = [c \in Client |-> Nothing] /\ missed = {}
  /\ given = [d \in Device |-> 0] /\ posted = [d \in Device |-> << >>]
  /\ inHand = [d \in Device |-> << >>] /\ merged = << >> /\ heard = [d \in Device |-> 0]
-----------------------------------------------------------------------------
(* Snapshots *)

Change ==
  /\ store' \in View
  /\ UNCHANGED <<held, clients, last, frames, greet, page, missed, answers>>

\* broadcast: the store is read first, and the hub's lock taken later.
TakeSnapshot(b) ==
  /\ held[b] = Nothing /\ held' = [held EXCEPT ![b] = store]
  /\ UNCHANGED <<store, clients, last, frames, greet, page, missed, answers>>

HasRoom(c) == Len(frames[c]) < ClientCap

\* Hub.Update: a slow client does without this frame.
Update(v) ==
  /\ last' = v
  /\ frames' = [c \in Client |-> IF c \in clients /\ HasRoom(c)
                                 THEN Append(frames[c], v) ELSE frames[c]]
  /\ missed' = {c \in clients : ~HasRoom(c)}

HandOver(b) ==
  /\ held[b] # Nothing /\ Update(held[b]) /\ held' = [held EXCEPT ![b] = Nothing]
  /\ UNCHANGED <<store, clients, greet, page, answers>>

\* With a bug: the ticker does not repeat a view.
TickIfChanged ==
  /\ store # last /\ Update(store) /\ UNCHANGED <<store, held, clients, greet, page, answers>>

\* The sweeper's tick, every 2 s, whether or not something has changed.
Tick == Update(store) /\ UNCHANGED <<store, held, clients, greet, page, answers>>

\* With a bug: a new client waits for the next frame.
WatchSilent(c) ==
  /\ c \notin clients /\ clients' = clients \cup {c}
  /\ UNCHANGED <<store, held, last, frames, greet, page, missed, answers>>

\* serveEvents registers and reads last under one lock.
Watch(c) ==
  /\ c \notin clients /\ clients' = clients \cup {c}
  /\ greet' = [greet EXCEPT ![c] = last]
  /\ UNCHANGED <<store, held, last, frames, page, missed, answers>>

Greet(c) ==
  /\ greet[c] # Nothing /\ greet' = [greet EXCEPT ![c] = Nothing]
  /\ page' = [page EXCEPT ![c] = greet[c]]
  /\ UNCHANGED <<store, held, clients, last, frames, missed, answers>>

Push(c) ==
  /\ c \in clients /\ greet[c] = Nothing /\ frames[c] # << >>
  /\ page' = [page EXCEPT ![c] = Head(frames[c])]
  /\ frames' = [frames EXCEPT ![c] = Tail(@)]
  /\ UNCHANGED <<store, held, clients, last, greet, missed, answers>>

\* The browser is gone, and its channel with the handler.
Leave(c) ==
  /\ c \in clients /\ clients' = clients \ {c} /\ missed' = missed \ {c}
  /\ frames' = [frames EXCEPT ![c] = << >>] /\ greet' = [greet EXCEPT ![c] = Nothing]
  /\ page' = [page EXCEPT ![c] = Nothing]
  /\ UNCHANGED <<store, held, last, answers>>
-----------------------------------------------------------------------------
(* Answers: whatever finds no room is dropped *)

Offered(q, cap, x) == IF Len(q) < cap THEN Append(q, x) ELSE q

\* serveDecision, or a notification of the Dial.
Give(d) ==
  /\ given[d] < MaxGiven /\ given' = [given EXCEPT ![d] = @ + 1]
  /\ posted' = [posted EXCEPT ![d] = Offered(@, DeviceCap, given'[d])]
  /\ UNCHANGED <<screen, inHand, merged, heard>>

Receive(d) ==
  /\ inHand[d] = << >> /\ posted[d] # << >>
  /\ inHand' = [inHand EXCEPT ![d] = <<Head(posted[d])>>]
  /\ posted' = [posted EXCEPT ![d] = Tail(@)]
  /\ UNCHANGED <<screen, given, merged, heard>>

\* With a bug: what was dropped is tried again, behind what has come since.
ForwardAgain(d) ==
  /\ inHand[d] # << >> /\ inHand' = [inHand EXCEPT ![d] = << >>]
  /\ merged' = Offered(merged, MergedCap, <<d, inHand[d][1]>>)
  /\ posted' = IF merged' = merged THEN [posted EXCEPT ![d] = Append(@, inHand[d][1])]
                                   ELSE posted
  /\ UNCHANGED <<screen, given, heard>>

Forward(d) ==
  /\ inHand[d] # << >> /\ inHand' = [inHand EXCEPT ![d] = << >>]
  /\ merged' = Offered(merged, MergedCap, <<d, inHand[d][1]>>)
  /\ UNCHANGED <<screen, given, posted, heard>>

\* dispatch takes the next.
Dispatch ==
  /\ merged # << >> /\ merged' = Tail(merged)
  /\ heard' = [heard EXCEPT ![Head(merged)[1]] = Head(merged)[2]]
  /\ UNCHANGED <<screen, given, posted, inHand>>

FrameNext ==
  \/ Change \/ Tick \/ \E b \in Caster : TakeSnapshot(b) \/ HandOver(b)
  \/ \E c \in Client : Watch(c) \/ Greet(c) \/ Push(c) \/ Leave(c)

AnswerNext == (\E d \in Device : Give(d) \/ Receive(d) \/ Forward(d)) \/ Dispatch

Next == FrameNext \/ AnswerNext

Spec == Init /\ [][Next]_vars

\* The ticker ticks, handlers go on, and a browser that stays reads on.
FairSpec ==
  /\ Spec /\ WF_vars(Tick)
  /\ \A b \in Caster : WF_vars(HandOver(b))
  /\ \A c \in Client : WF_vars(Greet(c)) /\ WF_vars(Push(c))
-----------------------------------------------------------------------------
\* Type invariant; no channel holds more than it can.
TypeOK ==
  /\ store \in View /\ held \in [Caster -> View \cup {Nothing}]
  /\ clients \subseteq Client /\ missed \subseteq clients /\ last \in View \cup {Nothing}
  /\ frames \in [Client -> Seq(View)] /\ \A c \in Client : Len(frames[c]) <= ClientCap
  /\ greet \in [Client -> View \cup {Nothing}] /\ page \in [Client -> View \cup {Nothing}]
  /\ given \in [Device -> 0..MaxGiven] /\ heard \in [Device -> 0..MaxGiven]
  /\ posted \in [Device -> Seq(1..MaxGiven)] /\ \A d \in Device : Len(posted[d]) <= DeviceCap
  /\ inHand \in [Device -> Seq(1..MaxGiven)] /\ \A d \in Device : Len(inHand[d]) <= 1
  /\ merged \in Seq(Device \X (1..MaxGiven)) /\ Len(merged) <= MergedCap

\* "It'll get the next one": unless the newest frame was dropped for it, what a
\* browser shows once it has read what is on its way is what the hub was last
\* told.  In particular none falls between a client's registration and its start.
WillShow(c) == IF frames[c] # << >> THEN frames[c][Len(frames[c])]
               ELSE IF greet[c] # Nothing THEN greet[c] ELSE page[c]
ClientsFollowHub == \A c \in clients \ missed : WillShow(c) = last

\* "Also lets a device that just (re)connected catch up": a browser that stays
\* comes to show the store once that stops changing, although an older snapshot
\* may be handed over after a newer one, and frames are dropped.
PagesCatchUp ==
  \A c \in Client : <>[](c \in clients) /\ <>[][UNCHANGED store]_vars => <>[](page[c] = store)

\* The merged channel keeps the promise of AnswerStream, whichever goroutine
\* forwards first and wherever an answer is dropped.
Held(q) == {q[i] : i \in DOMAIN q}
Waiting(d) ==
  {x \in 1..MaxGiven : <<d, x>> \in Held(merged)} \cup Held(inHand[d]) \cup Held(posted[d])
Stream == INSTANCE AnswerStream WITH waiting <- [d \in Device |-> Waiting(d)]
AnswersArriveInOrder == Stream!Spec
=============================================================================
