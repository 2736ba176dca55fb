-------------------------------- MODULE Dial --------------------------------
(***************************************************************************)
(* The dial's firmware (firmware/claude-dial/src/main.cpp): one loop over  *)
(* the sessions, the queue of permission prompts and the screen, and the   *)
(* callbacks of the BLE task that run beside it.                           *)
(*                                                                         *)
(* One round of the loop is cut into the phases in which it touches that   *)
(* state; callbacks happen between them.  A round takes at most one        *)
(* gesture: two in one round are two rounds in which nothing arrives.      *)
(* Timers may run out whenever they are looked at.  Left out: wording,     *)
(* sound, drawing, clock and usage messages, the full-screen reader of a   *)
(* command (it swallows one press), and which entry a list has selected (a *)
(* press takes any entry, as after turning to it).                         *)
(***************************************************************************)
EXTENDS Naturals, Sequences, FiniteSets

CONSTANTS Sid,         \* session ids
          NoSid,       \* no session
          MaxSessions, \* MAX_SESSIONS
          MaxRx,       \* capacity of rxQueue
          Choices,     \* the choices the user makes
          Kinds,       \* what the bridge sends, of AllKinds
          HoldOn,      \* the screens on which the user holds the button
          Opens        \* the entries of the menu the user opens

AppState == {"IDLE", "SESSION_LIST", "PERMISSION", "CONFIRMING", "MODE_MENU",
             "BRIGHTNESS", "CLOCK", "OTA", "OTA_PROMPT", "FIRMWARE_INFO",
             "SOUND", "CONNECTION", "RESET_CONFIRM"}
Choice   == {"allow_once", "always_allow", "reject"}
Entries  == {"BRIGHTNESS", "SOUND", "CLOCK", "CONNECTION", "FIRMWARE_INFO", "RESET_CONFIRM"}
AllKinds == {"session", "offer", "image"}

ASSUME DialAssumption ==
  /\ NoSid \notin Sid
  /\ MaxSessions \in Nat \ {0} /\ MaxRx \in Nat \ {0}
  /\ Choices \subseteq Choice
  /\ Kinds \subseteq AllKinds /\ HoldOn \subseteq AppState
  /\ Opens \subseteq Entries

Decision == [sid : Sid, ans : Choice \cup {"ask"}]
\* blocked and idle are handled as working is, done as closed
Told    == {"permission_request", "working", "closed"}
Message == [kind : {"session"}, sid : Sid, state : Told]
           \cup [kind : {"offer"}, newer : BOOLEAN]
Nothing  == [sid |-> NoSid, ans |-> "none"]

VARIABLES phase,          \* what the loop does next
          appState,       \* the screen
          sessions,       \* the state of each session in the table, or "none"
          permQueue,      \* sessions whose prompts wait for the screen
          currentPermSid, \* the session whose prompt has it
          confirmChoice,  \* the choice that waits for the end of its grace
          sent,           \* the decision notified to the bridge this round
          picked,         \* history: what was pressed on its prompt and not undone
          bleConnected, wasConnected, rxQueue,
          streaming,      \* the bridge has begun to send an image and not ended it
          otaAvail, otaStarting, otaActive, otaFinish, otaPrevState

slot == <<permQueue, currentPermSid, picked>>
prompt == <<slot, appState>>
link == <<bleConnected, wasConnected, streaming>>
ota == <<otaAvail, otaStarting, otaActive, otaFinish, otaPrevState>>
vars == <<phase, sessions, prompt, confirmChoice, sent, link, rxQueue, ota>>

Init ==
  /\ phase = "drain" /\ appState = "IDLE"
  /\ sessions = [s \in Sid |-> "none"]
  /\ permQueue = << >> /\ currentPermSid = NoSid
  /\ confirmChoice = "allow_once" /\ picked = "none" /\ sent = Nothing
  /\ bleConnected = FALSE /\ wasConnected = FALSE /\ streaming = FALSE /\ rxQueue = << >>
  /\ otaAvail = FALSE /\ otaStarting = FALSE /\ otaActive = FALSE
  /\ otaFinish = FALSE /\ otaPrevState = "IDLE"

\* A finished update and a factory reset start the firmware anew.
Reboot ==
  /\ phase' = "drain" /\ appState' = "IDLE"
  /\ sessions' = [s \in Sid |-> "none"]
  /\ permQueue' = << >> /\ currentPermSid' = NoSid
  /\ confirmChoice' = "allow_once" /\ picked' = "none" /\ sent' = Nothing
  /\ bleConnected' = FALSE /\ wasConnected' = FALSE /\ streaming' = FALSE /\ rxQueue' = << >>
  /\ otaAvail' = FALSE /\ otaStarting' = FALSE /\ otaActive' = FALSE
  /\ otaFinish' = FALSE /\ otaPrevState' = "IDLE"
-----------------------------------------------------------------------------
(* Sessions and the permission FIFO *)

Active(ss) == {s \in Sid : ss[s] # "none"}
Asks(ss, s) == ss[s] = "permission_request"

HomeView(ss) == IF Active(ss) # {} THEN "SESSION_LIST" ELSE "IDLE"

SettleHome(ss) ==
  appState' = IF appState \in {"IDLE", "SESSION_LIST"} THEN HomeView(ss) ELSE appState

Queued(q, s) == \E i \in DOMAIN q : q[i] = s

Enqueued(q, s) ==
  IF Queued(q, s) \/ Len(q) >= MaxSessions THEN q ELSE Append(q, s)

\* Taking an entry out moves up those behind it; a session has at most one.
Without(q, s) ==
  IF ~Queued(q, s) THEN q
  ELSE LET i == CHOOSE k \in DOMAIN q : q[k] = s
       IN  [j \in 1..(Len(q) - 1) |-> q[IF j < i THEN j ELSE j + 1]]

\* With a bug: only the first entry is looked at.
PermShowHead(ss, q) ==
  /\ picked' = "none"
  /\ \/ /\ q # << >> /\ Asks(ss, Head(q))
        /\ currentPermSid' = Head(q) /\ permQueue' = Tail(q)
        /\ appState' = "PERMISSION"
     \/ /\ q # << >> => ~Asks(ss, Head(q))
        /\ currentPermSid' = NoSid /\ permQueue' = << >>
        /\ appState' = HomeView(ss)

\* Show the first prompt that is still asked for and drop those before it; with
\* none left, the monitor.
PermShowNext(ss, q) ==
  /\ picked' = "none"
  /\ \/ \E i \in DOMAIN q :
          /\ Asks(ss, q[i]) /\ \A j \in 1..(i - 1) : ~Asks(ss, q[j])
          /\ currentPermSid' = q[i]
          /\ permQueue' = SubSeq(q, i + 1, Len(q))
          /\ appState' = "PERMISSION"
     \/ /\ \A i \in DOMAIN q : ~Asks(ss, q[i])
        /\ currentPermSid' = NoSid /\ permQueue' = << >>
        /\ appState' = HomeView(ss)
-----------------------------------------------------------------------------
(* handleRxMessage, in the loop's drain *)

\* With a bug: a prompt that is not on the screen keeps the slot.
ClosedOnScreen(s) ==
  /\ sessions' = [sessions EXCEPT ![s] = "none"]
  /\ IF s = currentPermSid /\ appState = "PERMISSION"
     THEN PermShowNext(sessions', Without(permQueue, s))
     ELSE /\ permQueue' = Without(permQueue, s)
          /\ SettleHome(sessions')
          /\ UNCHANGED <<currentPermSid, picked>>
  /\ UNCHANGED ota

\* closed: the session leaves the table, the queue and the screen.
Closed(s) ==
  /\ sessions' = [sessions EXCEPT ![s] = "none"]
  /\ IF s = currentPermSid /\ appState = "PERMISSION"
     THEN PermShowNext(sessions', Without(permQueue, s))
     ELSE /\ permQueue' = Without(permQueue, s)
          /\ currentPermSid' = IF s = currentPermSid THEN NoSid ELSE currentPermSid
          /\ picked' = IF s = currentPermSid THEN "none" ELSE picked
          /\ SettleHome(sessions')
  /\ UNCHANGED ota

\* A session without a place in the table is ignored.
NoRoom(s) == sessions[s] = "none" /\ Cardinality(Active(sessions)) >= MaxSessions

\* Variants of Asked with a bug: a prompt waits until the user is back at the
\* monitor; a choice in its grace keeps the screen.
AskedAtHome(s) ==
  /\ sessions' = [sessions EXCEPT ![s] = "permission_request"]
  /\ IF currentPermSid = NoSid /\ appState \in {"IDLE", "SESSION_LIST"}
     THEN PermShowNext(sessions', Enqueued(permQueue, s))
     ELSE permQueue' = Enqueued(permQueue, s) /\ UNCHANGED <<currentPermSid, picked, appState>>
  /\ UNCHANGED ota

AskedBehind(s) ==
  /\ sessions' = [sessions EXCEPT ![s] = "permission_request"]
  /\ \/ /\ currentPermSid = NoSid
        /\ currentPermSid' = s /\ picked' = "none"
        /\ appState' = IF appState = "CONFIRMING" THEN appState ELSE "PERMISSION"
        /\ UNCHANGED permQueue
     \/ /\ currentPermSid # NoSid
        /\ permQueue' = Enqueued(permQueue, s) /\ UNCHANGED <<currentPermSid, picked, appState>>
  /\ UNCHANGED ota

Asked(s) ==
  /\ sessions' = [sessions EXCEPT ![s] = "permission_request"]
  /\ IF currentPermSid = NoSid
     THEN PermShowNext(sessions', Enqueued(permQueue, s))
     ELSE permQueue' = Enqueued(permQueue, s) /\ UNCHANGED <<currentPermSid, picked, appState>>
  /\ UNCHANGED ota

Updated(s, state) ==
  /\ sessions' = [sessions EXCEPT ![s] = state]
  /\ SettleHome(sessions')
  /\ UNCHANGED <<slot, ota>>

\* A newer firmware is offered, or is no longer.
Offered(newer) ==
  /\ otaAvail' = newer
  /\ LET opens  == newer /\ appState \notin {"PERMISSION", "OTA", "OTA_PROMPT"}
         closes == ~newer /\ appState = "OTA_PROMPT"
     IN  /\ appState' = IF opens THEN "OTA_PROMPT"
                        ELSE IF closes THEN HomeView(sessions) ELSE appState
         /\ otaStarting' = (otaStarting /\ ~opens /\ ~closes)
  /\ UNCHANGED <<sessions, slot, otaActive, otaFinish, otaPrevState>>

HandleRxMessage ==
  /\ phase = "drain" /\ rxQueue # << >>
  /\ rxQueue' = Tail(rxQueue)
  /\ LET m == Head(rxQueue)
     IN  \/ m.kind = "offer" /\ Offered(m.newer)
         \/ m.kind = "session" /\ m.state = "closed" /\ Closed(m.sid)
         \/ /\ m.kind = "session" /\ m.state # "closed" /\ NoRoom(m.sid)
            /\ UNCHANGED <<sessions, prompt, ota>>
         \/ /\ m.kind = "session" /\ m.state # "closed" /\ ~NoRoom(m.sid)
            /\ IF m.state = "permission_request" THEN Asked(m.sid)
                                                 ELSE Updated(m.sid, m.state)
  /\ UNCHANGED <<phase, confirmChoice, sent, link>>

Drained ==
  /\ phase = "drain" /\ rxQueue = << >>
  /\ phase' = IF otaFinish THEN "finish" ELSE "link"
  /\ UNCHANGED <<sessions, prompt, confirmChoice, sent, link, rxQueue, ota>>
-----------------------------------------------------------------------------
(* The rest of a round *)

\* The image has ended: start it, or return to the screen it interrupted.  One
\* that was discarded on the way never verifies.
InstallVerified == phase = "finish" /\ otaActive /\ Reboot

InstallFails ==
  /\ phase = "finish" /\ phase' = "link"
  /\ appState' = otaPrevState
  /\ otaFinish' = FALSE /\ otaActive' = FALSE
  /\ UNCHANGED <<sessions, slot, confirmChoice, sent, link, rxQueue, otaAvail, otaStarting, otaPrevState>>

Settings == {"MODE_MENU", "BRIGHTNESS", "SOUND", "CONNECTION", "CLOCK", "RESET_CONFIRM"}

\* A link that dropped takes the sessions with it, and an update under way.
CheckLink ==
  /\ phase = "link" /\ phase' = "input"
  /\ wasConnected' = bleConnected
  /\ IF wasConnected /\ ~bleConnected
     THEN /\ sessions' = [s \in Sid |-> "none"]
          /\ permQueue' = << >> /\ currentPermSid' = NoSid /\ picked' = "none"
          /\ appState' = IF appState \in Settings THEN appState ELSE "IDLE"
          /\ otaActive' = FALSE
     ELSE UNCHANGED <<sessions, prompt, otaActive>>
  /\ UNCHANGED <<confirmChoice, sent, bleConnected, streaming, rxQueue, otaAvail, otaStarting,
                 otaFinish, otaPrevState>>

\* A gesture that only changes the screen.
Turns(from, to) ==
  /\ phase = "input" /\ phase' = "timers"
  /\ appState = from /\ appState' = to
  /\ UNCHANGED <<sessions, permQueue, currentPermSid, confirmChoice, sent, link, rxQueue,
                  otaAvail, otaActive, otaFinish, otaPrevState>>

NoGesture ==
  /\ phase = "input" /\ phase' = "timers"
  /\ UNCHANGED <<sessions, prompt, confirmChoice, sent, link, rxQueue, ota>>

\* A press on a prompt opens the grace window; on one whose session is gone it
\* shows the next.
Pick(a) ==
  /\ phase = "input" /\ phase' = "timers"
  /\ appState = "PERMISSION"
  /\ IF currentPermSid \in Active(sessions)
     THEN /\ appState' = "CONFIRMING"
          /\ confirmChoice' = a
          /\ picked' = a
          /\ UNCHANGED <<permQueue, currentPermSid>>
     ELSE PermShowNext(sessions, permQueue) /\ UNCHANGED confirmChoice
  /\ UNCHANGED <<sessions, sent, link, rxQueue, ota>>

Undo ==
  /\ Turns("CONFIRMING", "PERMISSION")
  /\ picked' = "none"
  /\ UNCHANGED otaStarting

Hold ==
  /\ appState \in HoldOn \ {"MODE_MENU", "BRIGHTNESS", "SOUND"}
  /\ Turns(appState, "MODE_MENU")
  /\ UNCHANGED <<picked, otaStarting>>

PressMenu ==
  /\ \E to \in Opens \cup {HomeView(sessions)} : Turns("MODE_MENU", to)
  /\ UNCHANGED <<picked, otaStarting>>

PressSetting ==
  /\ \/ \E from \in {"BRIGHTNESS", "SOUND", "CONNECTION", "RESET_CONFIRM"} :
          Turns(from, "MODE_MENU") /\ UNCHANGED otaStarting
     \/ ~otaAvail /\ Turns("FIRMWARE_INFO", "MODE_MENU") /\ UNCHANGED otaStarting
     \/ otaAvail /\ Turns("FIRMWARE_INFO", "OTA_PROMPT") /\ otaStarting' = FALSE
  /\ UNCHANGED picked

FactoryReset == phase = "input" /\ appState = "RESET_CONFIRM" /\ Reboot

\* Install now asks the bridge for the image; later keeps the offer.
PressOffer ==
  /\ ~otaStarting
  /\ \/ Turns("OTA_PROMPT", "OTA_PROMPT") /\ otaStarting' = TRUE
     \/ Turns("OTA_PROMPT", HomeView(sessions)) /\ UNCHANGED otaStarting
  /\ UNCHANGED picked

SendDecision(s, a) == sent' = IF bleConnected THEN [sid |-> s, ans |-> a] ELSE Nothing

\* The grace is over: only now the decision goes out.
CommitDecision ==
  /\ phase = "timers" /\ phase' = "draw"
  /\ appState = "CONFIRMING"
  /\ IF currentPermSid \in Active(sessions)
     THEN /\ SendDecision(currentPermSid, confirmChoice)
          /\ sessions' = [sessions EXCEPT ![currentPermSid] =
                            IF confirmChoice = "reject" THEN "idle" ELSE "working"]
     ELSE UNCHANGED <<sessions, sent>>
  /\ PermShowNext(sessions', permQueue)
  /\ UNCHANGED <<confirmChoice, link, rxQueue, ota>>

\* With a bug: the row of a prompt that timed out goes on asking.
PermTimeOutAsking ==
  /\ phase = "timers" /\ phase' = "draw"
  /\ appState = "PERMISSION"
  /\ IF currentPermSid # NoSid THEN SendDecision(currentPermSid, "ask") ELSE UNCHANGED sent
  /\ PermShowNext(sessions, permQueue)
  /\ UNCHANGED <<sessions, confirmChoice, link, rxQueue, ota>>

\* A prompt nobody answers goes back to the terminal.
PermTimeOut ==
  /\ phase = "timers" /\ phase' = "draw"
  /\ appState = "PERMISSION"
  /\ IF currentPermSid # NoSid
     THEN /\ SendDecision(currentPermSid, "ask")
          /\ sessions' = [sessions EXCEPT ![currentPermSid] =
                            IF @ = "none" THEN @ ELSE "idle"]
     ELSE UNCHANGED <<sessions, sent>>
  /\ PermShowNext(sessions', permQueue)
  /\ UNCHANGED <<confirmChoice, link, rxQueue, ota>>

InstallTimeOut ==
  /\ phase = "timers" /\ phase' = "draw"
  /\ appState = "OTA_PROMPT" /\ otaStarting
  /\ otaStarting' = FALSE
  /\ UNCHANGED <<sessions, prompt, confirmChoice, sent, link, rxQueue, otaAvail, otaActive,
                 otaFinish, otaPrevState>>

NoTimer ==
  /\ phase = "timers" /\ phase' = "draw"
  /\ UNCHANGED <<sessions, prompt, confirmChoice, sent, link, rxQueue, ota>>

\* Drawing a prompt whose session is gone shows the next.
Redraw ==
  /\ phase = "draw" /\ phase' = "drain"
  /\ IF appState = "PERMISSION" /\ currentPermSid \notin Active(sessions)
     THEN PermShowNext(sessions, permQueue)
     ELSE UNCHANGED prompt
  /\ sent' = Nothing
  /\ UNCHANGED <<sessions, confirmChoice, link, rxQueue, ota>>
-----------------------------------------------------------------------------
(* Callbacks of the BLE task *)

OnConnect ==
  /\ ~bleConnected /\ bleConnected' = TRUE
  /\ UNCHANGED <<phase, sessions, prompt, confirmChoice, sent, wasConnected, streaming, rxQueue, ota>>

OnDisconnect ==
  /\ bleConnected /\ bleConnected' = FALSE
  /\ streaming' = FALSE
  /\ UNCHANGED <<phase, sessions, prompt, confirmChoice, sent, wasConnected, rxQueue, ota>>

\* A message the queue has no room for is dropped.
OnWrite(m) ==
  /\ bleConnected
  /\ rxQueue' = IF Len(rxQueue) < MaxRx THEN Append(rxQueue, m) ELSE rxQueue
  /\ UNCHANGED <<phase, sessions, prompt, confirmChoice, sent, link, ota>>

\* The bridge starts to send an image, which takes over the screen.
OtaBegin ==
  /\ "image" \in Kinds /\ bleConnected /\ ~otaActive
  /\ otaActive' = TRUE /\ otaFinish' = FALSE /\ otaStarting' = FALSE /\ streaming' = TRUE
  /\ otaPrevState' = IF appState \in {"OTA", "OTA_PROMPT"} THEN "IDLE" ELSE appState
  /\ appState' = "OTA"
  /\ UNCHANGED <<phase, sessions, slot, confirmChoice, sent, bleConnected, wasConnected,
                 rxQueue, otaAvail>>

\* The bridge may end an image before it learns that the last part failed.
OtaEnd ==
  /\ streaming /\ streaming' = FALSE
  /\ otaFinish' = TRUE
  /\ UNCHANGED <<phase, sessions, prompt, confirmChoice, sent, bleConnected, wasConnected,
                 rxQueue, otaAvail, otaStarting, otaActive, otaPrevState>>

\* A part of the image cannot be written: back to the screen it interrupted.
OtaDataFails ==
  /\ streaming /\ otaActive
  /\ otaActive' = FALSE /\ appState' = otaPrevState
  /\ UNCHANGED <<phase, sessions, slot, confirmChoice, sent, link, rxQueue, otaAvail, otaStarting, otaFinish, otaPrevState>>
-----------------------------------------------------------------------------
Press ==
  \/ \E a \in Choices : Pick(a)
  \/ Undo \/ PressMenu \/ PressSetting \/ FactoryReset \/ PressOffer

\* The loop, when the user leaves the dial alone and nothing runs out.
Round == Drained \/ HandleRxMessage \/ InstallFails \/ InstallVerified \/ CheckLink
         \/ NoGesture \/ NoTimer \/ Redraw

Timers == CommitDecision \/ PermTimeOut \/ InstallTimeOut

Callback ==
  \/ OnConnect \/ OnDisconnect \/ OtaBegin \/ OtaEnd \/ OtaDataFails
  \/ \E m \in Message : m.kind \in Kinds /\ OnWrite(m)

Next == Round \/ Press \/ Hold \/ Timers \/ Callback

Spec == Init /\ [][Next]_vars

\* The loop goes round: it handles messages faster than a link brings them, and
\* the timers of the prompt on the screen run out.
FairSpec ==
  /\ Spec
  /\ WF_vars(Round) /\ SF_vars(Drained)
  /\ SF_vars(CommitDecision) /\ SF_vars(PermTimeOut)
-----------------------------------------------------------------------------
\* Type invariant.
TypeOK ==
  /\ phase \in {"drain", "finish", "link", "input", "timers", "draw"}
  /\ appState \in AppState /\ otaPrevState \in AppState
  /\ sessions \in [Sid -> {"none", "permission_request", "working", "idle"}]
  /\ permQueue \in Seq(Sid)
  /\ currentPermSid \in Sid \cup {NoSid}
  /\ confirmChoice \in Choice
  /\ picked \in Choice \cup {"none"} /\ sent \in Decision \cup {Nothing}
  /\ bleConnected \in BOOLEAN /\ wasConnected \in BOOLEAN /\ streaming \in BOOLEAN
  /\ rxQueue \in Seq(Message) /\ Len(rxQueue) <= MaxRx
  /\ otaAvail \in BOOLEAN /\ otaStarting \in BOOLEAN
  /\ otaActive \in BOOLEAN /\ otaFinish \in BOOLEAN

\* The queue and the screen only ever point at sessions of the table, and no
\* session waits twice: the array of MAX_SESSIONS entries cannot run over.
QueueIsSound ==
  /\ \A i \in DOMAIN permQueue : sessions[permQueue[i]] # "none"
  /\ \A i, j \in DOMAIN permQueue : permQueue[i] = permQueue[j] => i = j
  /\ currentPermSid # NoSid => sessions[currentPermSid] # "none"

\* No prompt is lost on the dial: a session that asks has the prompt slot or is
\* queued for it, through evictions, timeouts, undo and updates.
NoPromptLost ==
  \A s \in Sid : Asks(sessions, s) => s = currentPermSid \/ Queued(permQueue, s)

\* "Permission requests take over the screen on their own": as long as a prompt in
\* the slot or the queue has the screen, the monitor is not shown while a session
\* asks, and the screen is taken from a prompt, or kept from one that arrives, only
\* by a hold, by an offer over its grace window, and by an update that begins or
\* fails: by no message about sessions, other gesture, timer or drop of the link.
OnPrompt == appState \in {"PERMISSION", "CONFIRMING"}

PromptOnScreen == ~OnPrompt => currentPermSid = NoSid /\ permQueue = << >>

PromptsTakeOver ==
  [][PromptOnScreen =>
       /\ appState \in {"IDLE", "SESSION_LIST"} => \A s \in Sid : ~Asks(sessions, s)
       /\ \/ PromptOnScreen' \/ Hold
          \/ appState = "CONFIRMING" /\ appState' = "OTA_PROMPT"
          \/ OtaBegin \/ OtaDataFails \/ InstallFails]_vars

\* Undo is real and a stray touch decides nothing: what goes to the bridge at the
\* end of a grace window is what was pressed on the prompt of that very session,
\* and not undone since, as long as the choice in the window is that one; and only
\* an update that fails brings back a window in which it is not.
GraceIsPicked == appState = "CONFIRMING" /\ currentPermSid # NoSid => picked = confirmChoice

SendsWhatWasPicked ==
  [][GraceIsPicked =>
       /\ CommitDecision /\ sent' # Nothing => sent' = [sid |-> currentPermSid, ans |-> picked]
       /\ GraceIsPicked' \/ InstallFails \/ OtaDataFails]_vars

\* Every prompt gets its turn: a session that asks comes to the screen or stops
\* asking, whoever else asks, and asks again, meanwhile.
PromptsGetTheirTurn ==
  \A s \in Sid : Asks(sessions, s) ~> currentPermSid = s \/ ~Asks(sessions, s)
=============================================================================
