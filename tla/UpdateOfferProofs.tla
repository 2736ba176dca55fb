------------------------- MODULE UpdateOfferProofs --------------------------
(***************************************************************************)
(* What the dial offers and what is installed, for any versions that are   *)
(* published, any bridge, and any faults of the link; and what a call is   *)
(* answered with, for any commands and any number of messages (Journey).   *)
(***************************************************************************)
EXTENDS MCUpdateOffer, SequenceTheorems, TLAPS

\* An offer is flashable from the moment it is worked out.
OnlyFlashable ==
  /\ CanFlash(BridgeVersion, want)
  /\ \A i \in DOMAIN rx : CanFlash(BridgeVersion, rx[i])
  /\ CanFlash(BridgeVersion, otaAvail)

\* The version announced is the one that runs, as long as the link it was
\* announced on is up.
AnnouncedRuns ==
  /\ ~capable => firmware = NoVersion
  /\ capable /\ link => firmware \in {NoVersion, running}

\* As long as neither manifest nor link has changed, the checks stand.
ChecksStand ==
  /\ image # NoVersion => checked # NoVersion
  /\ steady => /\ capable /\ link /\ checked = latest /\ image \in {NoVersion, latest}
               /\ Newer(firmware, latest) /\ CanFlash(BridgeVersion, latest)

IInv == TypeOK /\ OnlyFlashable /\ AnnouncedRuns /\ ChecksStand
-----------------------------------------------------------------------------
LEMMA NothingIsFlashable == CanFlash(BridgeVersion, NoVersion)
  BY DEF CanFlash

LEMMA WantedIsFlashable ==
  \A v : CanFlash(BridgeVersion, Wanted(v)) /\ Wanted(v) \in {latest, NoVersion}
  BY NothingIsFlashable DEF Wanted

LEMMA InitIInv == Init => IInv
<1> SUFFICES ASSUME Init PROVE IInv
  OBVIOUS
<1>1. rx \in Seq(Version) /\ Len(rx) <= 1 /\ DOMAIN rx = {}
  BY DEF Init
<1>2. TypeOK
  BY <1>1, OfferAssumption DEF Init, TypeOK, Version
<1>3. OnlyFlashable
  BY <1>1, NothingIsFlashable DEF Init, OnlyFlashable
<1>4. AnnouncedRuns /\ ChecksStand
  BY DEF Init, AnnouncedRuns, ChecksStand
<1> QED
  BY <1>2, <1>3, <1>4 DEF IInv

LEMMA NextTypeOK == TypeOK /\ [Next]_vars => TypeOK'
<1> SUFFICES ASSUME TypeOK, [Next]_vars PROVE TypeOK'
  OBVIOUS
<1> USE OfferAssumption DEF TypeOK, Version
<1>1. CASE WorkOut
  BY <1>1, WantedIsFlashable DEF WorkOut, host, update, dial
<1>2. CASE SetUpdateAvailable
  BY <1>2 DEF SetUpdateAvailable, host, update, dial
<1>3. CASE WriteOffer
  <2>1. rx' \in Seq(Version) /\ Len(rx') <= 1
    <3>1. CASE rx' = << want >>
      <4>1. << want >> \in Seq(Version) /\ Len(<< want >>) = 1
        OBVIOUS
      <4> QED
        BY <3>1, <4>1
    <3>2. CASE rx' = rx
      BY <3>2
    <3> QED
      BY <1>3, <3>1, <3>2 DEF WriteOffer
  <2> QED
    BY <1>3, <2>1 DEF WriteOffer, host, update
<1>4. CASE Refresh
  BY <1>4 DEF Refresh, sweep, host, update, dial
<1>5. CASE Connect \/ Hello \/ Drop \/ Disconnected \/ BridgeRestarts
  BY <1>5 DEF Connect, Hello, Drop, Disconnected, BridgeRestarts, sweep, host, update, dial
<1>6. CASE HandleOffer
  <2>1. rx' \in Seq(Version) /\ Len(rx') <= 1
    BY <1>6 DEF HandleOffer
  <2>2. otaAvail' \in Version
    BY <1>6 DEF HandleOffer
  <2> QED
    BY <1>6, <2>1, <2>2 DEF HandleOffer, sweep, host, update
<1>7. CASE Confirm \/ Refuse
  BY <1>7 DEF Confirm, Refuse, sweep, host, update, dial
<1>8. CASE Unplugged
  <2>1. rx' \in Seq(Version) /\ Len(rx') <= 1
    BY <1>8 DEF Unplugged, DialStarts
  <2> QED
    BY <1>8, <2>1 DEF Unplugged, DialStarts, sweep, host
<1>9. CASE Install
  <2>1. image # NoVersion
    BY <1>9 DEF Install
  <2>2. rx' \in Seq(Version) /\ Len(rx') <= 1
    BY <1>9 DEF Install, DialStarts
  <2> QED
    BY <1>9, <2>1, <2>2 DEF Install, DialStarts, sweep, host
<1>10. CASE Check \/ DownloadLatest \/ Fail
  BY <1>10 DEF Check, DownloadLatest, Fail, sweep, host, update, dial
<1>11. CASE UNCHANGED vars
  BY <1>11 DEF vars, sweep, host, update, dial
<1> QED
  BY <1>1, <1>2, <1>3, <1>4, <1>5, <1>6, <1>7, <1>8, <1>9, <1>10, <1>11 DEF Next, Sweep

LEMMA NextOnlyFlashable == TypeOK /\ OnlyFlashable /\ [Next]_vars => OnlyFlashable'
<1> SUFFICES ASSUME TypeOK, OnlyFlashable, [Next]_vars PROVE OnlyFlashable'
  OBVIOUS
<1> USE DEF OnlyFlashable
<1>1. CASE WorkOut
  BY <1>1, WantedIsFlashable DEF WorkOut, dial
<1>2. CASE WriteOffer
  BY <1>2 DEF WriteOffer
<1>3. CASE HandleOffer
  BY <1>3 DEF HandleOffer, sweep, TypeOK
<1>4. CASE Unplugged \/ Install
  BY <1>4, NothingIsFlashable DEF Unplugged, Install, DialStarts, sweep
<1>5. CASE BridgeRestarts
  BY <1>5, NothingIsFlashable DEF BridgeRestarts, dial
<1>6. CASE UNCHANGED <<want, dial>>
  BY <1>6 DEF dial
<1> QED
  BY <1>1, <1>2, <1>3, <1>4, <1>5, <1>6
     DEF Next, Sweep, SetUpdateAvailable, Refresh, Connect, Hello, Drop, Disconnected,
         Confirm, Refuse, Check, DownloadLatest, Fail, vars, sweep

LEMMA NextAnnouncedRuns == AnnouncedRuns /\ [Next]_vars => AnnouncedRuns'
<1> SUFFICES ASSUME AnnouncedRuns, [Next]_vars PROVE AnnouncedRuns'
  OBVIOUS
<1> USE DEF AnnouncedRuns
<1>1. CASE Connect \/ Hello
  BY <1>1 DEF Connect, Hello, dial
<1>2. CASE Drop \/ Disconnected \/ BridgeRestarts
  BY <1>2 DEF Drop, Disconnected, BridgeRestarts, host, update, dial
<1>3. CASE Unplugged \/ Install
  BY <1>3 DEF Unplugged, Install, DialStarts, host
<1>4. CASE UNCHANGED <<host, link, running>>
  BY <1>4 DEF host
<1> QED
  BY <1>1, <1>2, <1>3, <1>4
     DEF Next, Sweep, WorkOut, SetUpdateAvailable, WriteOffer, Refresh, HandleOffer,
         Confirm, Refuse, Check, DownloadLatest, Fail, vars, dial

LEMMA NextChecksStand == AnnouncedRuns /\ ChecksStand /\ [Next]_vars => ChecksStand'
<1> SUFFICES ASSUME AnnouncedRuns, ChecksStand, [Next]_vars PROVE ChecksStand'
  OBVIOUS
<1> USE DEF ChecksStand
<1>1. CASE Check \/ DownloadLatest
  BY <1>1 DEF Check, DownloadLatest, host, Newer
<1>2. CASE Refresh
  BY <1>2 DEF Refresh, host
<1>3. CASE Hello
  BY <1>3 DEF Hello, AnnouncedRuns, Newer, update
<1>4. CASE Connect \/ Disconnected
  BY <1>4 DEF Connect, Disconnected, update
<1>5. CASE steady' = FALSE /\ (image' # NoVersion => checked' # NoVersion)
  BY <1>5
<1>6. CASE UNCHANGED <<latest, host, update, link>>
  BY <1>6 DEF host, update
<1> QED
  BY <1>1, <1>2, <1>3, <1>4, <1>5, <1>6
     DEF Next, Sweep, WorkOut, SetUpdateAvailable, WriteOffer, Drop, BridgeRestarts,
         HandleOffer, Confirm, Unplugged, Install, DialStarts, Refuse, Fail, vars

LEMMA Inductive == Spec => []IInv
<1>1. IInv /\ [Next]_vars => IInv'
  BY NextTypeOK, NextOnlyFlashable, NextAnnouncedRuns, NextChecksStand DEF IInv
<1> QED
  BY InitIInv, <1>1, PTL DEF Spec
-----------------------------------------------------------------------------
\* Types, for any versions: every offer, on either end, is a published version
\* or none (advertiseUpdate, SetUpdateAvailable).
THEOREM OfferTypeOK == Spec => []TypeOK
<1>1. IInv => TypeOK
  BY DEF IInv
<1> QED
  BY Inductive, <1>1, PTL

\* The dial never offers a version the bridge would refuse (hooks.go:296-297):
\* it was flashable when it was worked out, and a bridge does not get older.
THEOREM OfferedIsFlashable == Spec => []OffersAreFlashable
<1>1. IInv => OffersAreFlashable
  BY DEF IInv, OnlyFlashable, OffersAreFlashable
<1> QED
  BY Inductive, <1>1, PTL

\* If neither manifest nor link changes between the checks of runFirmwareUpdate and
\* the transfer, the dial is flashed with a version newer than the one it runs, and
\* no newer than the bridge, whatever confirmation is consumed, and however late.
THEOREM InstallsAreUpgrades == Spec => InstallsWhatWasChecked
<1>1. ASSUME IInv, Install, steady PROVE Newer(running, image) /\ CanFlash(BridgeVersion, image)
  <2>1. firmware = running /\ image = latest
    BY <1>1 DEF IInv, AnnouncedRuns, ChecksStand, Install, Newer
  <2> QED
    BY <1>1, <2>1 DEF IInv, ChecksStand
<1>2. IInv => [Install /\ steady => Newer(running, image) /\ CanFlash(BridgeVersion, image)]_vars
  BY <1>1
<1> QED
  BY Inductive, <1>2, PTL DEF InstallsWhatWasChecked
-----------------------------------------------------------------------------
(***************************************************************************)
(* The way of a call (Journey), in a series: a call that waits is unasked, *)
(* sent, shown, or answered, and only one that is unasked may still be     *)
(* sent.                                                                   *)
(***************************************************************************)
Screens ==
  /\ appState # "SESSION_LIST" => row # Nobody
  /\ appState = "CONFIRMING" => picked # Nobody
  /\ \A r \in Req : job[r] # Nobody => store # Nobody

CallsTyped == Calls!TypeOK /\ Screens

LEMMA CallsInit ==
  ASSUME Calls!JourneyAssumption, Calls!Init
  PROVE  CallsTyped
<1>1. /\ rxQueue \in Seq(Calls!View) /\ Len(rxQueue) <= MaxInFlight
      /\ inflight \in Seq(Calls!Answer) /\ Len(inflight) <= MaxInFlight
  BY DEF Calls!Init, Calls!JourneyAssumption
<1>2. job \in [Req -> Cmd \cup {Nobody}]
  BY DEF Calls!Init
<1> QED
  BY <1>1, <1>2 DEF Calls!Init, CallsTyped, Calls!TypeOK, Screens

\* What a view becomes when its state is changed.
LEMMA StateChanges ==
  ASSUME NEW v \in Calls!View, NEW st \in {"permission_request", "working", "idle"}
  PROVE  [v EXCEPT !.state = st] \in Calls!View
BY DEF Calls!View

LEMMA CallsStep ==
  ASSUME Calls!JourneyAssumption, CallsTyped, [Calls!Next]_(Calls!vars)
  PROVE  CallsTyped'
<1> USE DEF CallsTyped, Calls!TypeOK, Screens, Calls!daemon, Calls!dial
<1>0. Nobody \notin Req /\ Nobody \notin Cmd /\ Nobody \notin Calls!View
      /\ Nobody \notin Calls!Answer /\ MaxInFlight \in Nat
  BY DEF Calls!JourneyAssumption
<1>1. ASSUME NEW r \in Req, NEW c \in Cmd, Calls!Arrive(r, c) PROVE CallsTyped'
  <2>1. Calls!Prompt(c) \in Calls!View
    BY DEF Calls!View, Calls!Prompt
  <2>2. serial' \in BOOLEAN
    BY <1>1 DEF Calls!Arrive, Calls!NobodyWaits, Calls!WayIsClear
  <2> QED
    BY <1>0, <1>1, <2>1, <2>2 DEF Calls!Arrive, Calls!Broadcast
<1>2. CASE Calls!Deliver
  <2>1. /\ inflight # << >> /\ inflight' = Tail(inflight)
        /\ UNCHANGED <<held, serial, conn, last, rxQueue, row, appState, picked>>
    BY <1>2 DEF Calls!Deliver
  <2>2. /\ inflight' \in Seq(Calls!Answer) /\ Len(inflight') <= MaxInFlight
        /\ Head(inflight) \in Calls!Answer
    BY <1>0, <2>1
  <2>3. CASE waiter = Nobody /\ UNCHANGED <<job, waiter, store, pending, met>>
    BY <2>1, <2>2, <2>3
  <2>4. CASE /\ waiter # Nobody /\ Calls!Leave(waiter)
             /\ Calls!Broadcast([store EXCEPT !.state = Calls!StateAfter(Head(inflight).ans)])
             /\ met' = IF Head(inflight).ans = "ask" \/ ~serial THEN met
                       ELSE [wanted |-> job[waiter], about |-> Head(inflight).about]
    <3>1. [store EXCEPT !.state = Calls!StateAfter(Head(inflight).ans)] \in Calls!View
      BY <2>4, StateChanges DEF Calls!StateAfter
    <3>2. store' \in Calls!View /\ pending' \in Calls!View
      BY <2>4, <3>1 DEF Calls!Broadcast
    <3>3. job' \in [Req -> Cmd \cup {Nobody}] /\ waiter' = Nobody
      BY <2>4 DEF Calls!Leave
    <3>4. met' \in [wanted : Cmd, about : Cmd] \cup {Nobody}
      BY <2>2, <2>4 DEF Calls!Answer
    <3> QED
      BY <1>0, <2>1, <2>2, <3>2, <3>3, <3>4
  <2> QED
    BY <1>2, <2>3, <2>4 DEF Calls!Deliver
<1>3. CASE Calls!Take
  BY <1>3 DEF Calls!Take
<1>3b. CASE Calls!HandOver
  BY <1>3b DEF Calls!HandOver
<1>3c. ASSUME NEW r \in Req, NEW c \in Cmd, Calls!Pass(r, c) \/ Calls!NoDevice(r, c)
       PROVE  CallsTyped'
  <2>1. [state |-> "working", cmd |-> c] \in Calls!View /\ Calls!Prompt(c) \in Calls!View
    BY DEF Calls!View, Calls!Prompt
  <2>2. serial' \in BOOLEAN
    BY <1>3c DEF Calls!Pass, Calls!NoDevice, Calls!NobodyWaits
  <2> QED
    BY <1>0, <1>3c, <2>1, <2>2 DEF Calls!Pass, Calls!NoDevice, Calls!Broadcast
<1>3d. ASSUME NEW r \in Req, Calls!TimeOut(r) \/ Calls!GiveUp(r) PROVE CallsTyped'
  <2>1. /\ job[r] # Nobody /\ store \in Calls!View
        /\ job' = [job EXCEPT ![r] = Nobody]
        /\ waiter' = IF waiter = r THEN Nobody ELSE waiter
        /\ UNCHANGED <<held, conn, last, rxQueue, row, appState, picked, inflight, met>>
        /\ serial' = FALSE
    BY <1>0, <1>3d DEF Calls!TimeOut, Calls!GiveUp, Calls!Leave
  <2>2. /\ job' \in [Req -> Cmd \cup {Nobody}] /\ waiter' \in Req \cup {Nobody}
        /\ waiter' # Nobody => job'[waiter'] # Nobody
    BY <2>1
  <2>3. [store EXCEPT !.state = "working"] \in Calls!View
    BY <2>1, StateChanges
  <2>4. store' \in Calls!View /\ pending' \in Calls!View \cup {Nobody}
    BY <1>3d, <2>1, <2>3 DEF Calls!TimeOut, Calls!GiveUp, Calls!Broadcast
  <2> QED
    BY <1>0, <2>1, <2>2, <2>4
<1>3e. CASE Calls!LinkGone
  <2>1. PICK n \in 0 .. Len(inflight) : inflight' = SubSeq(inflight, 1, n)
    BY <1>3e DEF Calls!LinkGone
  <2>2. inflight' \in Seq(Calls!Answer) /\ Len(inflight') <= MaxInFlight
    BY <1>0, <2>1
  <2>3. rxQueue' \in Seq(Calls!View) /\ Len(rxQueue') <= MaxInFlight
    BY <1>0, <1>3e DEF Calls!LinkGone
  <2>4. serial' \in BOOLEAN
    BY <1>3e DEF Calls!LinkGone, Calls!NobodyWaits
  <2> QED
    BY <1>0, <1>3e, <2>2, <2>3, <2>4 DEF Calls!LinkGone
<1>3f. CASE Calls!LinkBack
  BY <1>3f DEF Calls!LinkBack
<1>4. CASE Calls!Flush
  <2>1. /\ pending \in Calls!View /\ pending' = Nobody
        /\ UNCHANGED <<job, waiter, store, held, serial, conn, row, appState, picked, inflight, met>>
    BY <1>4 DEF Calls!Flush
  <2>2. CASE UNCHANGED <<last, rxQueue>>
    BY <2>1, <2>2
  <2>3. CASE Len(rxQueue) < MaxInFlight /\ last' = pending /\ rxQueue' = Append(rxQueue, pending)
    <3>1. rxQueue' \in Seq(Calls!View) /\ Len(rxQueue') <= MaxInFlight
      BY <1>0, <2>1, <2>3
    <3> QED
      BY <2>1, <2>3, <3>1
  <2> QED
    BY <1>4, <2>2, <2>3 DEF Calls!Flush
<1>5. CASE Calls!Handle
  <2>1. /\ rxQueue # << >> /\ rxQueue' = Tail(rxQueue) /\ row' = Head(rxQueue)
        /\ UNCHANGED <<job, waiter, store, held, pending, serial, conn, last, picked, inflight, met>>
        /\ appState' = IF Head(rxQueue).state = "permission_request" /\ appState = "SESSION_LIST"
                       THEN "PERMISSION" ELSE appState
    BY <1>5 DEF Calls!Handle
  <2>2. /\ rxQueue' \in Seq(Calls!View) /\ Len(rxQueue') <= MaxInFlight
        /\ row' \in Calls!View
    BY <1>0, <2>1
  <2>3. appState' \in {"SESSION_LIST", "PERMISSION", "CONFIRMING"}
    BY <2>1
  <2>4. appState' = "CONFIRMING" => picked # Nobody
    BY <2>1
  <2> QED
    BY <1>0, <2>1, <2>2, <2>3, <2>4
<1>6. ASSUME NEW a \in {"allow_once", "reject"}, Calls!Pick(a) PROVE CallsTyped'
  <2>1. row \in Calls!View
    BY <1>6 DEF Calls!Pick
  <2>2. [ans |-> a, about |-> row.cmd] \in Calls!Answer
    BY <2>1 DEF Calls!View, Calls!Answer, Calls!Ans
  <2>3. picked' \in Calls!Answer /\ picked' # Nobody
    BY <1>0, <1>6, <2>2 DEF Calls!Pick
  <2> QED
    BY <1>6, <2>1, <2>3 DEF Calls!Pick
<1>7. CASE Calls!Undo
  BY <1>7 DEF Calls!Undo
<1>8. ASSUME NEW x \in Calls!Answer, NEW st \in {"working", "idle"}, appState # "SESSION_LIST",
             Calls!Send(x, st)
      PROVE  CallsTyped'
  <2>1. row \in Calls!View
    BY <1>8
  <2>2. /\ Len(inflight) < MaxInFlight /\ inflight' = Append(inflight, x)
        /\ row' = [row EXCEPT !.state = st]
        /\ appState' = "SESSION_LIST" /\ picked' = Nobody
        /\ UNCHANGED <<job, waiter, store, held, pending, serial, conn, last, rxQueue, met>>
    BY <1>8 DEF Calls!Send
  <2>3. inflight' \in Seq(Calls!Answer) /\ Len(inflight') <= MaxInFlight
    BY <1>0, <2>2
  <2>4. row' \in Calls!View
    BY <2>1, <2>2, StateChanges
  <2> QED
    BY <2>2, <2>3, <2>4
<1>9. CASE Calls!CommitDecision
  <2>1. /\ appState # "SESSION_LIST" /\ picked \in Calls!Answer
        /\ Calls!Send(picked, Calls!StateAfter(picked.ans))
    BY <1>9 DEF Calls!CommitDecision
  <2>2. Calls!StateAfter(picked.ans) \in {"working", "idle"}
    BY DEF Calls!StateAfter
  <2> QED
    BY <1>8, <2>1, <2>2
<1>10. CASE Calls!PermTimeOut
  <2>1. /\ appState # "SESSION_LIST" /\ row \in Calls!View
        /\ Calls!Send([ans |-> "ask", about |-> row.cmd], "idle")
    BY <1>10 DEF Calls!PermTimeOut
  <2>2. [ans |-> "ask", about |-> row.cmd] \in Calls!Answer
    BY <2>1 DEF Calls!View, Calls!Answer, Calls!Ans
  <2> QED
    BY <1>8, <2>1, <2>2
<1>11. CASE UNCHANGED Calls!vars
  BY <1>11 DEF Calls!vars
<1> QED
  BY <1>1, <1>2, <1>3, <1>3b, <1>3c, <1>3d, <1>3e, <1>3f, <1>4, <1>5, <1>6, <1>7, <1>9, <1>10,
     <1>11 DEF Calls!Next

\* Types of a call's way, for any calls and any number of messages on it
\* (handlePreToolUse, flush, handleRxMessage).
THEOREM AskTypesOK == Calls!Spec => []Calls!TypeOK
<1>1. Calls!Init => CallsTyped
  BY CallsAssumption, CallsInit
<1>2. CallsTyped /\ [Calls!Next]_(Calls!vars) => CallsTyped'
  BY CallsAssumption, CallsStep
<1>3. CallsTyped => Calls!TypeOK
  BY DEF CallsTyped
<1> QED
  BY <1>1, <1>2, <1>3, PTL DEF Calls!Spec

NoPrompt(q) == \A i \in DOMAIN q : q[i].state # "permission_request"

\* Where the prompt p of a call is: only while it is not on its way may one be sent.
Unasked == appState = "SESSION_LIST" /\ inflight = << >> /\ NoPrompt(rxQueue)

Sent(p) ==
  /\ appState = "SESSION_LIST" /\ inflight = << >> /\ last = p
  /\ rxQueue # << >> /\ rxQueue[Len(rxQueue)] = p
  /\ \A i \in DOMAIN rxQueue : i # Len(rxQueue) => rxQueue[i].state # "permission_request"

Shown(p) ==
  /\ appState \in {"PERMISSION", "CONFIRMING"} /\ inflight = << >> /\ last = p
  /\ rxQueue = << >> /\ row = p
  /\ appState = "CONFIRMING" => picked.about = p.cmd

Answered(p) ==
  /\ appState = "SESSION_LIST" /\ last = p /\ rxQueue = << >>
  /\ Len(inflight) = 1 /\ inflight[1].about = p.cmd

\* A call waits, and p is its prompt.
Waits(p) ==
  /\ waiter # Nobody /\ \A r \in Req : r # waiter => job[r] = Nobody
  /\ p.cmd = job[waiter] /\ p.state = "permission_request"
  /\ store = p /\ pending \in {Nobody, p}
  /\ Unasked \/ Sent(p) \/ Shown(p) \/ Answered(p)

\* No call waits, and nothing is left of the one before.
Rests == Calls!NobodyWaits /\ Unasked /\ ~Calls!Asks(store) /\ ~Calls!Asks(pending)

Course == Rests \/ \E p \in Calls!View : Waits(p)

Series == serial => Course

Meets == Calls!AnswersWhatWasShown

\* What the calls of a series do between their beginnings and ends.
Moves ==
  \/ Calls!Deliver \/ Calls!Take \/ Calls!LinkBack \/ Calls!Flush \/ Calls!Handle
  \/ \E a \in {"allow_once", "reject"} : Calls!Pick(a)
  \/ Calls!Undo \/ Calls!CommitDecision \/ Calls!PermTimeOut \/ UNCHANGED Calls!vars

LEMMA SeriesInit ==
  ASSUME Calls!Init
  PROVE  Series /\ Meets
BY DEF Calls!Init, Series, Course, Rests, Unasked, NoPrompt, Calls!Asks, Calls!NobodyWaits, Meets,
       Calls!AnswersWhatWasShown

\* What is in the queue after a view has been added to it.
LEMMA Appended ==
  ASSUME NEW q \in Seq(Calls!View), NEW v \in Calls!View, NoPrompt(q)
  PROVE  /\ Append(q, v) # << >> /\ Append(q, v)[Len(Append(q, v))] = v
         /\ \A i \in DOMAIN Append(q, v) :
              i # Len(Append(q, v)) => Append(q, v)[i].state # "permission_request"
         /\ v.state # "permission_request" => NoPrompt(Append(q, v))
<1> DEFINE r == Append(q, v)
<1>1. /\ Len(q) \in Nat /\ DOMAIN q = 1 .. Len(q) /\ r \in Seq(Calls!View)
      /\ Len(r) = Len(q) + 1 /\ DOMAIN r = 1 .. Len(r) /\ r[Len(r)] = v
      /\ \A i \in DOMAIN q : r[i] = q[i]
  OBVIOUS
<1> HIDE DEF r
<1>2. r # << >>
  <2>1. Len(<< >>) = 0
    OBVIOUS
  <2> QED
    BY <1>1, <2>1
<1>3. \A i \in DOMAIN r : i # Len(r) => i \in DOMAIN q
  BY <1>1
<1>4. \A i \in DOMAIN r : i # Len(r) => r[i].state # "permission_request"
  BY <1>1, <1>3 DEF NoPrompt
<1> QED
  BY <1>1, <1>2, <1>4 DEF r, NoPrompt

\* What is left in the queue when its first view has been taken.
LEMMA Taken ==
  ASSUME NEW q \in Seq(Calls!View), q # << >>
  PROVE  /\ Len(q) \in Nat \ {0} /\ Len(Tail(q)) = Len(q) - 1
         /\ DOMAIN q = 1 .. Len(q) /\ DOMAIN Tail(q) = 1 .. Len(q) - 1
         /\ Head(q) = q[1]
         /\ \A i \in DOMAIN Tail(q) : Tail(q)[i] = q[i + 1] /\ i + 1 \in DOMAIN q
OBVIOUS

LEMMA OneTaken ==
  ASSUME NEW S, NEW q \in Seq(S), Len(q) = 1
  PROVE  Tail(q) = << >>
<1>1. q # << >>
  <2>1. Len(<< >>) = 0
    BY EmptySeq, Zenon
  <2> QED
    BY <2>1
<1>2. Tail(q) \in Seq(S) /\ Len(Tail(q)) = Len(q) - 1
  BY <1>1, HeadTailProperties, Zenon
<1>3. Len(Tail(q)) = 0
  BY <1>2
<1>4. Tail(q) # << >> => Len(Tail(q)) \in Nat \ {0}
  BY <1>2, EmptySeq, Zenon
<1> QED
  BY <1>3, <1>4

\* The prompt p while the daemon's side stays as it is.
LEMMA WaitsOn ==
  ASSUME NEW p \in Calls!View, Waits(p), UNCHANGED <<job, waiter, store>>,
         pending' \in {Nobody, p},
         Unasked' \/ Sent(p)' \/ Shown(p)' \/ Answered(p)'
  PROVE  Course'
BY DEF Course, Waits

LEMMA CourseKept ==
  ASSUME Calls!JourneyAssumption, CallsTyped, serial, Course, Meets, Moves
  PROVE  Course' /\ Meets'
<1> USE DEF Calls!daemon, Calls!dial, Meets, Calls!AnswersWhatWasShown
<1>0. Nobody \notin Req /\ Nobody \notin Cmd /\ Nobody \notin Calls!View
  BY DEF Calls!JourneyAssumption
<1>t. /\ rxQueue \in Seq(Calls!View) /\ inflight \in Seq(Calls!Answer)
      /\ pending \in Calls!View \cup {Nobody} /\ last \in Calls!View \cup {Nobody}
      /\ waiter \in Req \cup {Nobody} /\ (waiter # Nobody => job[waiter] # Nobody)
      /\ job \in [Req -> Cmd \cup {Nobody}]
  BY DEF CallsTyped, Calls!TypeOK
<1>2. CASE Calls!Deliver
  <2>1. inflight # << >> /\ inflight' = Tail(inflight)
        /\ UNCHANGED <<held, serial, conn, last, rxQueue, row, appState, picked>>
    BY <1>2 DEF Calls!Deliver
  <2>2. PICK p \in Calls!View : Waits(p)
    BY <2>1 DEF Course, Rests, Unasked
  <2>3. Answered(p)
    BY <2>1, <2>2 DEF Waits, Unasked, Sent, Shown
  <2>4. /\ Calls!Leave(waiter)
        /\ Calls!Broadcast([store EXCEPT !.state = Calls!StateAfter(Head(inflight).ans)])
        /\ met' = IF Head(inflight).ans = "ask" \/ ~serial THEN met
                  ELSE [wanted |-> job[waiter], about |-> Head(inflight).about]
    BY <1>2, <2>2 DEF Calls!Deliver, Waits
  <2>5. Head(inflight).about = job[waiter] /\ inflight' = << >>
    <3>1. Len(inflight) = 1 /\ inflight[1].about = job[waiter]
      BY <2>2, <2>3 DEF Answered, Waits
    <3>2. Head(inflight) = inflight[1]
      BY <1>t, <3>1
    <3>3. Tail(inflight) = << >>
      BY <1>t, <3>1, OneTaken, Zenon
    <3> QED
      BY <2>1, <3>1, <3>2, <3>3
  <2>6. Meets'
    <3>1. CASE Head(inflight).ans = "ask"
      BY <2>4, <3>1
    <3>2. CASE Head(inflight).ans # "ask"
      BY <2>4, <2>5, <3>2
    <3> QED
      BY <3>1, <3>2
  <2>7. ~Calls!Asks(store') /\ ~Calls!Asks(pending')
    <3>1. /\ store' = [p EXCEPT !.state = Calls!StateAfter(Head(inflight).ans)]
          /\ pending' = store'
      BY <2>2, <2>4 DEF Calls!Broadcast, Waits
    <3>2. store'.state = Calls!StateAfter(Head(inflight).ans)
      BY <3>1 DEF Calls!View
    <3> QED
      BY <3>1, <3>2 DEF Calls!Asks, Calls!StateAfter
  <2>8. Calls!NobodyWaits'
    BY <1>t, <2>2, <2>4 DEF Calls!Leave, Calls!NobodyWaits, Waits
  <2>9. Unasked'
    BY <2>1, <2>3, <2>5 DEF Unasked, NoPrompt, Answered
  <2> QED
    BY <2>6, <2>7, <2>8, <2>9 DEF Course, Rests, Calls!Asks
<1>3. CASE Calls!Take \/ Calls!LinkBack \/ UNCHANGED Calls!vars
  BY <1>3 DEF Calls!Take, Calls!LinkBack, Calls!vars, Course, Rests, Waits, Unasked, NoPrompt, Sent,
              Shown, Answered, Calls!Asks, Calls!NobodyWaits
<1>4. CASE Calls!Flush
  <2>1. /\ pending # Nobody /\ pending' = Nobody /\ pending \in Calls!View
        /\ UNCHANGED <<job, waiter, store, held, serial, conn, row, appState, picked, inflight, met>>
    BY <1>t, <1>4 DEF Calls!Flush
  <2>2. \/ UNCHANGED <<last, rxQueue>>
        \/ /\ ~Calls!DisplayEqual(last, pending)
           /\ last' = pending /\ rxQueue' = Append(rxQueue, pending)
    BY <1>4 DEF Calls!Flush
  <2>3. CASE Rests
    <3>1. pending.state # "permission_request" /\ NoPrompt(rxQueue)
      BY <2>1, <2>3 DEF Rests, Calls!Asks, Unasked
    <3>2. NoPrompt(rxQueue')
      <4>1. CASE rxQueue' = Append(rxQueue, pending)
        BY <1>t, <2>1, <3>1, <4>1, Appended
      <4>2. CASE UNCHANGED rxQueue
        BY <3>1, <4>2
      <4> QED
        BY <2>2, <4>1, <4>2
    <3>3. Unasked'
      BY <2>1, <2>3, <3>2 DEF Rests, Unasked, NoPrompt
    <3> QED
      BY <2>1, <2>3, <3>3 DEF Course, Rests, Calls!Asks, Calls!NobodyWaits
  <2>4. ASSUME NEW p \in Calls!View, Waits(p) PROVE Course'
    <3>1. pending = p /\ p.state = "permission_request"
      BY <2>1, <2>4 DEF Waits
    <3>2. CASE Unasked /\ rxQueue' = Append(rxQueue, pending) /\ last' = pending
      <4>1. Sent(p)'
        BY <1>t, <2>1, <3>1, <3>2, Appended DEF Sent, Unasked
      <4> QED
        BY <2>1, <2>4, <4>1, WaitsOn
    <3>3. CASE UNCHANGED <<last, rxQueue>>
      <4>1. Unasked' \/ Sent(p)' \/ Shown(p)' \/ Answered(p)'
        BY <2>1, <2>4, <3>3 DEF Waits, Unasked, NoPrompt, Sent, Shown, Answered
      <4> QED
        BY <2>1, <2>4, <4>1, WaitsOn
    <3>4. Unasked \/ last = p
      BY <2>4 DEF Waits, Sent, Shown, Answered
    <3> QED
      BY <2>2, <3>1, <3>2, <3>3, <3>4 DEF Calls!DisplayEqual
  <2> QED
    BY <2>1, <2>3, <2>4 DEF Course
<1>5. CASE Calls!Handle
  <2>1. /\ rxQueue # << >> /\ rxQueue' = Tail(rxQueue) /\ row' = Head(rxQueue)
        /\ appState' = IF Head(rxQueue).state = "permission_request" /\ appState = "SESSION_LIST"
                       THEN "PERMISSION" ELSE appState
        /\ UNCHANGED <<job, waiter, store, held, pending, serial, conn, last, picked, inflight, met>>
    BY <1>5 DEF Calls!Handle
  <2>2. CASE Unasked
    <3>1. Head(rxQueue).state # "permission_request" /\ NoPrompt(Tail(rxQueue))
      BY <1>t, <2>1, <2>2, Taken DEF Unasked, NoPrompt
    <3>2. appState' = appState /\ NoPrompt(rxQueue')
      BY <2>1, <3>1
    <3>3. Unasked'
      BY <2>1, <2>2, <3>2 DEF Unasked, NoPrompt
    <3>4. ASSUME NEW p \in Calls!View, Waits(p) PROVE Course'
      BY <2>1, <3>3, <3>4, WaitsOn DEF Waits
    <3>5. CASE Rests
      BY <2>1, <3>3, <3>5 DEF Course, Rests, Calls!Asks, Calls!NobodyWaits
    <3> QED
      BY <2>1, <3>4, <3>5 DEF Course
  <2>3. ASSUME NEW p \in Calls!View, Waits(p), Sent(p) PROVE Course'
    <3>0. pending' \in {Nobody, p} /\ p.state = "permission_request"
      BY <2>1, <2>3 DEF Waits
    <3>1. CASE Len(rxQueue) = 1
      <4>1. Head(rxQueue) = p /\ Tail(rxQueue) = << >>
        BY <1>t, <2>1, <2>3, <3>1 DEF Sent
      <4>2. Shown(p)'
        BY <2>1, <2>3, <3>0, <4>1 DEF Sent, Shown
      <4> QED
        BY <2>1, <2>3, <3>0, <4>2, WaitsOn
    <3>2. CASE Len(rxQueue) # 1
      <4> DEFINE q == Tail(rxQueue)
      <4>1. /\ Len(rxQueue) \in Nat \ {0, 1} /\ Len(q) = Len(rxQueue) - 1
            /\ Head(rxQueue) = rxQueue[1]
            /\ DOMAIN rxQueue = 1 .. Len(rxQueue) /\ DOMAIN q = 1 .. Len(rxQueue) - 1
            /\ \A i \in DOMAIN q : q[i] = rxQueue[i + 1] /\ i + 1 \in DOMAIN rxQueue
        BY <1>t, <2>1, <3>2, Taken
      <4> HIDE DEF q
      <4>2. \A i \in DOMAIN rxQueue : i # Len(rxQueue) =>
                                        rxQueue[i].state # "permission_request"
        BY <2>3 DEF Sent
      <4>3. Head(rxQueue).state # "permission_request"
        BY <4>1, <4>2
      <4>4. q # << >> /\ q[Len(q)] = p
        <5>1. Len(q) \in DOMAIN q /\ Len(q) + 1 = Len(rxQueue)
          BY <4>1
        <5>2. q[Len(q)] = rxQueue[Len(rxQueue)]
          BY <4>1, <5>1
        <5> QED
          BY <2>3, <5>1, <5>2 DEF Sent
      <4>5. \A i \in DOMAIN q : i # Len(q) => q[i].state # "permission_request"
        BY <4>1, <4>2
      <4>6. rxQueue' = q /\ appState' = appState
        BY <2>1, <4>3 DEF q
      <4>7. Sent(p)'
        BY <2>1, <2>3, <4>4, <4>5, <4>6 DEF Sent
      <4> QED
        BY <2>1, <2>3, <3>0, <4>7, WaitsOn
    <3> QED
      BY <3>1, <3>2
  <2>4. Unasked \/ \E p \in Calls!View : Waits(p) /\ Sent(p)
    BY <2>1 DEF Course, Rests, Waits, Shown, Answered
  <2> QED
    BY <2>1, <2>2, <2>3, <2>4
<1>6. CASE (\E a \in {"allow_once", "reject"} : Calls!Pick(a)) \/ Calls!Undo
  <2>1. /\ appState # "SESSION_LIST" /\ appState' \in {"PERMISSION", "CONFIRMING"}
        /\ appState' = "CONFIRMING" => picked'.about = row.cmd
        /\ UNCHANGED <<job, waiter, store, pending, last, rxQueue, row, inflight, met>>
    <3>1. ASSUME NEW a \in {"allow_once", "reject"}, Calls!Pick(a)
          PROVE  /\ appState # "SESSION_LIST" /\ appState' = "CONFIRMING"
                 /\ picked'.about = row.cmd
                 /\ UNCHANGED <<job, waiter, store, pending, last, rxQueue, row, inflight, met>>
      BY <3>1 DEF Calls!Pick
    <3>2. CASE Calls!Undo
      BY <3>2 DEF Calls!Undo
    <3> QED
      BY <1>6, <3>1, <3>2
  <2>2. PICK p \in Calls!View : Waits(p) /\ Shown(p)
    BY <2>1 DEF Course, Rests, Unasked, Waits, Sent, Answered
  <2>3. Shown(p)'
    BY <2>1, <2>2 DEF Shown
  <2> QED
    BY <2>1, <2>2, <2>3, WaitsOn DEF Waits
<1>7. ASSUME NEW x, NEW st, Calls!Send(x, st), appState # "SESSION_LIST",
             x.about = IF appState = "CONFIRMING" THEN picked.about ELSE row.cmd
      PROVE  Course' /\ Meets'
  <2>1. /\ inflight' = Append(inflight, x) /\ appState' = "SESSION_LIST"
        /\ UNCHANGED <<job, waiter, store, held, pending, serial, conn, last, rxQueue, met>>
    BY <1>7 DEF Calls!Send
  <2>2. PICK p \in Calls!View : Waits(p) /\ Shown(p)
    BY <1>7 DEF Course, Rests, Unasked, Waits, Sent, Answered
  <2>3. x.about = p.cmd
    BY <1>7, <2>2 DEF Shown
  <2>4. Len(inflight') = 1 /\ inflight'[1] = x
    <3>1. Append(<< >>, x) = << x >>
      OBVIOUS
    <3> QED
      BY <2>1, <2>2, <3>1 DEF Shown
  <2>5. Answered(p)'
    BY <2>1, <2>2, <2>3, <2>4 DEF Answered, Shown
  <2> QED
    BY <2>1, <2>2, <2>5, WaitsOn DEF Waits
<1>8. CASE Calls!CommitDecision
  <2>1. appState = "CONFIRMING" /\ Calls!Send(picked, Calls!StateAfter(picked.ans))
    BY <1>8 DEF Calls!CommitDecision
  <2> QED
    BY <1>7, <2>1
<1>9. CASE Calls!PermTimeOut
  <2>1. appState = "PERMISSION" /\ Calls!Send([ans |-> "ask", about |-> row.cmd], "idle")
    BY <1>9 DEF Calls!PermTimeOut
  <2> QED
    BY <1>7, <2>1
<1> QED
  BY <1>2, <1>3, <1>4, <1>5, <1>6, <1>8, <1>9 DEF Moves

LEMMA SeriesStep ==
  ASSUME Calls!JourneyAssumption, CallsTyped, Series, Meets, [Calls!Next]_(Calls!vars)
  PROVE  Series' /\ Meets'
<1> USE DEF Calls!daemon, Calls!dial, Meets, Calls!AnswersWhatWasShown
<1>0. Nobody \notin Req /\ Nobody \notin Cmd /\ Nobody \notin Calls!View
  BY DEF Calls!JourneyAssumption
<1>t. /\ rxQueue \in Seq(Calls!View) /\ inflight \in Seq(Calls!Answer)
      /\ waiter \in Req \cup {Nobody} /\ (waiter # Nobody => job[waiter] # Nobody)
      /\ job \in [Req -> Cmd \cup {Nobody}]
  BY DEF CallsTyped, Calls!TypeOK
<1>r. Calls!NobodyWaits /\ Course => Rests
  BY <1>t DEF Course, Waits, Calls!NobodyWaits
<1>1. ASSUME NEW r \in Req, NEW c \in Cmd, Calls!Arrive(r, c) PROVE Series' /\ Meets'
  <2> DEFINE p == Calls!Prompt(c)
  <2>1. p \in Calls!View /\ p.cmd = c /\ p.state = "permission_request"
    BY DEF Calls!View, Calls!Prompt
  <2> HIDE DEF p
  <2>2. /\ waiter' = r /\ job'[r] = c /\ store' = p /\ pending' = p
        /\ UNCHANGED <<last, rxQueue, row, appState, picked, inflight>>
    BY <1>t, <1>1 DEF Calls!Arrive, Calls!Broadcast, p
  <2>3. met' = Nobody /\ serial' = (Calls!NobodyWaits /\ (serial \/ Calls!WayIsClear))
    BY <1>1 DEF Calls!Arrive
  <2>4. ASSUME serial' PROVE Course'
    <3>1. Calls!WayIsClear => Unasked
      BY <1>0, <1>t DEF Calls!WayIsClear, Unasked, NoPrompt, Calls!Asks
    <3>2. Calls!NobodyWaits /\ Unasked
      BY <1>r, <2>3, <2>4, <3>1 DEF Series, Rests
    <3>3. Unasked'
      BY <2>2, <3>2 DEF Unasked, NoPrompt
    <3>4. \A q \in Req : q # waiter' => job'[q] = Nobody
      BY <1>t, <1>1, <2>2, <3>2 DEF Calls!Arrive, Calls!NobodyWaits
    <3>5. Waits(p)'
      BY <1>0, <2>1, <2>2, <3>3, <3>4 DEF Waits
    <3> QED
      BY <2>1, <3>5 DEF Course
  <2> QED
    BY <2>3, <2>4 DEF Series
<1>2. ASSUME NEW r \in Req, NEW c \in Cmd, Calls!Pass(r, c) \/ Calls!NoDevice(r, c)
      PROVE  Series' /\ Meets'
  <2>1. /\ serial' = (serial /\ Calls!NobodyWaits)
        /\ store' = [state |-> "working", cmd |-> c] /\ pending' = store'
        /\ UNCHANGED <<job, last, rxQueue, row, appState, picked, inflight, met>>
    BY <1>2 DEF Calls!Pass, Calls!NoDevice, Calls!Broadcast
  <2>2. ~Calls!Asks(store') /\ ~Calls!Asks(pending')
    BY <2>1 DEF Calls!Asks
  <2>3. ASSUME serial' PROVE Rests'
    BY <1>r, <2>1, <2>2, <2>3 DEF Series, Rests, Calls!NobodyWaits, Unasked, NoPrompt, Calls!Asks
  <2> QED
    BY <2>1, <2>3 DEF Series, Course
<1>3. ASSUME NEW r \in Req, Calls!TimeOut(r) \/ Calls!GiveUp(r) PROVE Series' /\ Meets'
  BY <1>3 DEF Calls!TimeOut, Calls!GiveUp, Series
<1>4. CASE Calls!HandOver
  <2>1. /\ serial' = (serial /\ held = store) /\ pending' = held
        /\ UNCHANGED <<job, waiter, store, last, rxQueue, row, appState, picked, inflight, met>>
    BY <1>4 DEF Calls!HandOver
  <2>2. ASSUME serial', Rests PROVE Rests'
    BY <2>1, <2>2 DEF Rests, Calls!NobodyWaits, Unasked, NoPrompt, Calls!Asks
  <2>3. ASSUME serial', NEW p \in Calls!View, Waits(p) PROVE Course'
    <3>1. pending' = p
      BY <2>1, <2>3 DEF Waits
    <3>2. Unasked' \/ Sent(p)' \/ Shown(p)' \/ Answered(p)'
      BY <2>1, <2>3 DEF Waits, Unasked, NoPrompt, Sent, Shown, Answered
    <3> QED
      BY <2>1, <2>3, <3>1, <3>2, WaitsOn
  <2> QED
    BY <2>1, <2>2, <2>3 DEF Series, Course
<1>5. CASE Calls!LinkGone
  <2>1. /\ serial' = (serial /\ Calls!NobodyWaits)
        /\ rxQueue' = << >> /\ appState' = "SESSION_LIST"
        /\ UNCHANGED <<job, waiter, store, pending, met>>
    BY <1>5 DEF Calls!LinkGone
  <2>2. PICK n \in 0 .. Len(inflight) : inflight' = SubSeq(inflight, 1, n)
    BY <1>5 DEF Calls!LinkGone
  <2>3. inflight = << >> => inflight' = << >>
    <3>1. Len(<< >>) = 0 /\ SubSeq(<< >>, 1, 0) = << >>
      OBVIOUS
    <3> QED
      BY <2>2, <3>1
  <2>4. ASSUME serial' PROVE Rests'
    <3>1. Rests
      BY <1>r, <2>1, <2>4 DEF Series
    <3>2. Unasked'
      BY <2>1, <2>3, <3>1 DEF Rests, Unasked, NoPrompt
    <3> QED
      BY <2>1, <3>1, <3>2 DEF Rests, Calls!NobodyWaits, Calls!Asks
  <2> QED
    BY <2>1, <2>4 DEF Series, Course
<1>6. CASE Moves
  <2>1. serial' = serial
    BY <1>6 DEF Moves, Calls!Deliver, Calls!Take, Calls!LinkBack, Calls!Flush, Calls!Handle, Calls!Pick,
                Calls!Undo, Calls!CommitDecision, Calls!PermTimeOut, Calls!Send, Calls!vars
  <2>2. ASSUME ~serial PROVE met' = met
    BY <1>6, <2>2 DEF Moves, Calls!Deliver, Calls!Take, Calls!LinkBack, Calls!Flush, Calls!Handle,
                Calls!Pick, Calls!Undo, Calls!CommitDecision, Calls!PermTimeOut, Calls!Send, Calls!vars
  <2>3. ASSUME serial PROVE Course' /\ Meets'
    BY <1>6, <2>3, CourseKept DEF Series
  <2> QED
    BY <2>1, <2>2, <2>3 DEF Series
<1> QED
  BY <1>1, <1>2, <1>3, <1>4, <1>5, <1>6 DEF Calls!Next, Moves

\* A call gets the answer that was given to its command, if the calls of the session
\* come one at a time and are answered, over a link that holds while they wait, and
\* again after a timeout, a drop or a parallel call from the first that comes when
\* the way is clear (serial); whatever the calls want, also the same again, and for
\* any number of messages on the way (handlePreToolUse, router, flush, the dial).
THEOREM AnswersMeetTheirCall == Calls!Spec => []AnswersWhatWasShown
<1>1. Calls!Init => CallsTyped /\ Series /\ Meets
  BY CallsAssumption, CallsInit, SeriesInit
<1>2. CallsTyped /\ Series /\ Meets /\ [Calls!Next]_(Calls!vars)
        => CallsTyped' /\ Series' /\ Meets'
  BY CallsAssumption, CallsStep, SeriesStep
<1>3. Meets => AnswersWhatWasShown
  BY DEF Meets, AnswersWhatWasShown
<1> QED
  BY <1>1, <1>2, <1>3, PTL DEF Calls!Spec
=============================================================================
