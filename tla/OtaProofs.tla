------------------------------ MODULE OtaProofs ------------------------------
(***************************************************************************)
(* Theorems about the update of the dial (Ota), for any releases, versions *)
(* and size of an image.                                                   *)
(***************************************************************************)
EXTENDS Ota, TLAPS

\* How far a caller is tells how many parts it has sent.
SentParts ==
  \A u \in Caller :
    /\ at[u] \in {"idle", "gate", "download", "flash", "begin", "ready"} => sent[u] = 0
    /\ at[u] = "stream" => sent[u] < Parts

Places == {"idle", "gate", "download", "flash", "begin", "ready", "stream", "poll", "end", "done"}
Said   == {"ready", "done", "error"}

CallerOK ==
  /\ otaBusy \in BOOLEAN /\ at \in [Caller -> Places]
  /\ gated \in [Caller -> Version] /\ image \in [Caller -> Version]
  /\ sent \in [Caller -> 0 .. Parts] /\ plain \in BOOLEAN

HostOK ==
  /\ latest \in Version /\ otaReqs \in BOOLEAN
  /\ status \in Seq(Said) /\ Len(status) <= MaxStatus
  /\ capable \in BOOLEAN /\ firmware \in Version \cup {Factory}

DialOK ==
  /\ air \in Seq(Said) /\ Len(air) <= MaxStatus
  /\ link \in BOOLEAN /\ wasConnected \in BOOLEAN
  /\ running \in Release \cup {Factory} /\ boot \in Release \cup {Factory}
  /\ otaActive \in BOOLEAN /\ otaFinish \in BOOLEAN
  /\ slot \in Seq(Release) /\ Len(slot) <= Parts

\* A caller that has an image to send has a real one.
ImageOK ==
  \A u \in Caller :
    at[u] \in {"flash", "begin", "ready", "stream", "poll", "end", "done"} => image[u] # NoVersion

OtaInv == CallerOK /\ HostOK /\ DialOK /\ SentParts /\ ImageOK /\ OneUpdateAtATime

-----------------------------------------------------------------------------
\* Leaving: whoever leaves was the only one, so that the guard is right to fall.
LEMMA Leaves ==
  ASSUME OtaInv, NEW u \in Caller, at[u] # "idle", Leave(u)
  PROVE  (CallerOK /\ SentParts /\ ImageOK /\ OneUpdateAtATime)'
<1>0. NoVersion \in Version /\ 0 \in 0 .. Parts /\ "idle" \in Places
  BY OtaAssumption DEF Version, Places
<1>1. CallerOK'
  BY <1>0 DEF OtaInv, CallerOK, Leave
<1>2. SentParts'
  BY OtaAssumption DEF OtaInv, CallerOK, SentParts, Leave
<1>3. ImageOK'
  BY DEF OtaInv, CallerOK, ImageOK, Leave
<1>4. OneUpdateAtATime'
  BY DEF OtaInv, CallerOK, OneUpdateAtATime, Leave
<1> QED BY <1>1, <1>2, <1>3, <1>4

\* Going on: any place but the ends, and those whose entry says more.
LEMMA GoesOn ==
  ASSUME OtaInv, NEW u \in Caller, at[u] \notin {"idle", "gate", "download"},
         NEW to \in {"begin", "ready", "stream", "end", "done"}, Proceed(u, to),
         plain' \in BOOLEAN,
         to \in {"begin", "ready"} => sent[u] = 0,
         to = "stream" => sent[u] < Parts
  PROVE  (CallerOK /\ SentParts /\ ImageOK /\ OneUpdateAtATime)'
<1>1. CallerOK'
  BY DEF OtaInv, CallerOK, Proceed, Places
<1>2. SentParts'
  BY DEF OtaInv, CallerOK, SentParts, Proceed
<1>3. ImageOK'
  BY DEF OtaInv, CallerOK, ImageOK, Proceed, Places
<1>4. OneUpdateAtATime'
  BY DEF OtaInv, CallerOK, OneUpdateAtATime, Proceed
<1> QED BY <1>1, <1>2, <1>3, <1>4

\* What a caller does not touch stays right.
LEMMA CallerStays ==
  ASSUME OtaInv, UNCHANGED caller
  PROVE  (CallerOK /\ SentParts /\ ImageOK /\ OneUpdateAtATime)'
BY DEF OtaInv, CallerOK, SentParts, ImageOK, OneUpdateAtATime, caller

LEMMA DialStays ==
  ASSUME DialOK, UNCHANGED <<air, link, wasConnected, running, dial>>
  PROVE  DialOK'
BY DEF DialOK, dial

LEMMA HostStays ==
  ASSUME HostOK, UNCHANGED <<latest, otaReqs, status, host>>
  PROVE  HostOK'
BY DEF HostOK, host

\* A notification is sent if there is room for it.
LEMMA Notifies ==
  ASSUME DialOK, NEW s \in Said, Notify(s)
  PROVE  air' \in Seq(Said) /\ Len(air') <= MaxStatus
BY OtaAssumption DEF DialOK, Notify

LEMMA NothingIsASeq ==
  /\ << >> \in Seq(Release) /\ << >> \in Seq(Said) /\ Len(<< >>) = 0
  /\ Len(<< >>) <= Parts /\ Len(<< >>) <= MaxStatus
<1>1. << >> \in Seq(Release)
  OBVIOUS
<1>2. << >> \in Seq(Said)
  OBVIOUS
<1>3. Len(<< >>) = 0
  OBVIOUS
<1> QED BY <1>1, <1>2, <1>3, OtaAssumption

\* What a write does to the dial, whether it lands or not.
LEMMA Begun ==
  ASSUME DialOK, OtaBegin, UNCHANGED <<link, wasConnected, running>>
  PROVE  DialOK'
<1>1. air' \in Seq(Said) /\ Len(air') <= MaxStatus
  BY Notifies DEF OtaBegin, Said
<1> QED BY <1>1, NothingIsASeq DEF DialOK, OtaBegin, dial

LEMMA PartTaken ==
  ASSUME DialOK, NEW v \in Release, OtaData(v), UNCHANGED <<link, wasConnected, running>>
  PROVE  DialOK'
<1>1. CASE ~otaActive /\ UNCHANGED <<dial, air>>
  BY <1>1 DEF DialOK, dial
<1>2. CASE slot' = Append(slot, v) /\ Len(slot) < Parts /\ UNCHANGED <<boot, otaActive, otaFinish, air>>
  BY <1>2, OtaAssumption DEF DialOK
<1>3. CASE /\ otaActive' = FALSE /\ slot' = << >>
           /\ Notify("error") /\ UNCHANGED <<boot, otaFinish>>
  <2>1. air' \in Seq(Said) /\ Len(air') <= MaxStatus
    BY <1>3, Notifies DEF Said
  <2> QED BY <1>3, <2>1, NothingIsASeq DEF DialOK
<1> QED BY <1>1, <1>2, <1>3 DEF OtaData
-----------------------------------------------------------------------------
(* The callers *)

LEMMA CallsKeep == OtaInv /\ Call => OtaInv'
<1> SUFFICES ASSUME OtaInv, Call PROVE OtaInv'
  OBVIOUS
<1>1. DialOK'
  BY DialStays DEF OtaInv, Call
<1>2. HostOK'
  BY DEF OtaInv, HostOK, Call, CallHTTP, CallDial, host
<1>3. ASSUME NEW u \in Caller, Begins(u)
      PROVE  (CallerOK /\ SentParts /\ ImageOK /\ OneUpdateAtATime)'
  BY <1>3 DEF Begins, OtaInv, CallerOK, SentParts, ImageOK, OneUpdateAtATime, Places
<1>4. (\E u \in Caller : Begins(u)) \/ UNCHANGED caller
  BY DEF Call, CallHTTP, CallDial, Caller
<1> QED BY <1>1, <1>2, <1>3, <1>4, CallerStays DEF OtaInv

LEMMA GateKeeps == ASSUME NEW u \in Caller, OtaInv, Gate(u) PROVE OtaInv'
<1>1. DialOK' /\ HostOK'
  BY DialStays, HostStays DEF OtaInv, Gate
<1>2. CASE Leave(u)
  BY <1>1, <1>2, Leaves DEF Gate, OtaInv
<1>3. CASE /\ at' = [at EXCEPT ![u] = "download"]
           /\ gated' = [gated EXCEPT ![u] = latest]
           /\ UNCHANGED <<otaBusy, image, sent, plain>>
  BY <1>1, <1>3 DEF Gate, OtaInv, CallerOK, SentParts, ImageOK, OneUpdateAtATime, HostOK, Places
<1> QED BY <1>2, <1>3 DEF Gate

LEMMA DownloadKeeps == ASSUME NEW u \in Caller, OtaInv, Download(u) PROVE OtaInv'
<1>1. DialOK' /\ HostOK'
  BY DialStays, HostStays DEF OtaInv, Download
<1>2. CASE Leave(u)
  BY <1>1, <1>2, Leaves DEF Download, OtaInv
<1>3. CASE /\ latest # NoVersion
           /\ image' = [image EXCEPT ![u] = latest]
           /\ at' = [at EXCEPT ![u] = "flash"]
           /\ plain' \in BOOLEAN
           /\ UNCHANGED <<otaBusy, gated, sent>>
  BY <1>1, <1>3 DEF Download, OtaInv, CallerOK, SentParts, ImageOK, OneUpdateAtATime, HostOK, Places
<1> QED BY <1>2, <1>3 DEF Download, OtaInv, CallerOK

LEMMA DrainKeeps == ASSUME NEW u \in Caller, OtaInv, Drain(u) PROVE OtaInv'
<1>1. DialOK' /\ HostOK'
  BY NothingIsASeq DEF OtaInv, Drain, HostOK, DialOK, host, dial
<1>2. CASE Leave(u)
  BY <1>1, <1>2, Leaves DEF Drain, OtaInv
<1>3. CASE Proceed(u, "begin") /\ plain' \in BOOLEAN
  BY <1>1, <1>3, GoesOn DEF Drain, OtaInv, CallerOK, SentParts
<1> QED BY <1>2, <1>3 DEF Drain, OtaInv, CallerOK

LEMMA PollKeeps == ASSUME NEW u \in Caller, OtaInv, Poll(u) PROVE OtaInv'
<1>1. DialOK' /\ HostOK'
  <2>1. DialOK'
    BY DialStays DEF OtaInv, Poll
  <2>2. status' \in Seq(Said) /\ Len(status') <= MaxStatus
    <3>1. status \in Seq(Said) /\ Len(status) <= MaxStatus
      BY DEF OtaInv, HostOK
    <3>2. CASE status' = status
      BY <3>1, <3>2
    <3>3. CASE status # << >> /\ status' = Tail(status)
      BY <3>1, <3>3, OtaAssumption
    <3> QED BY <3>2, <3>3 DEF Poll
  <2> QED BY <2>1, <2>2 DEF OtaInv, Poll, HostOK, host
<1>2. CASE Leave(u)
  BY <1>1, <1>2, Leaves DEF Poll, OtaInv
<1>3. CASE GoOn(u, "stream") /\ sent[u] < Parts
  BY <1>1, <1>3, GoesOn DEF GoOn, CallerOK, Poll, OtaInv
<1>4. CASE GoOn(u, "end")
  BY <1>1, <1>4, GoesOn DEF GoOn, CallerOK, Poll, OtaInv
<1> QED BY <1>2, <1>3, <1>4 DEF Poll

LEMMA HeardKeeps == ASSUME NEW u \in Caller, OtaInv, Heard(u) PROVE OtaInv'
<1>1. DialOK' /\ HostOK'
  BY DialStays, OtaAssumption DEF OtaInv, Heard, HostOK, host
<1>2. CASE Leave(u)
  BY <1>1, <1>2, Leaves DEF Heard, OtaInv
<1>3. CASE GoOn(u, "stream") /\ at[u] = "ready"
  <2>1. sent[u] < Parts
    BY <1>3, OtaAssumption DEF OtaInv, SentParts
  <2> QED BY <1>1, <1>3, <2>1, GoesOn DEF GoOn, CallerOK, OtaInv
<1>4. CASE UNCHANGED caller
  BY <1>1, <1>4, CallerStays DEF OtaInv
<1> QED BY <1>2, <1>3, <1>4 DEF Heard

LEMMA TimedOutKeeps == ASSUME NEW u \in Caller, OtaInv, TimedOut(u) PROVE OtaInv'
<1>1. DialOK' /\ HostOK'
  BY DialStays, HostStays DEF OtaInv, TimedOut
<1> QED BY <1>1, Leaves DEF TimedOut, OtaInv

-----------------------------------------------------------------------------
(* The writes *)

LEMMA WriteBeginKeeps == ASSUME NEW u \in Caller, OtaInv, WriteBegin(u) PROVE OtaInv'
<1>1. HostOK'
  BY HostStays DEF OtaInv, WriteBegin, Write
<1>2. DialOK'
  BY Begun, DialStays DEF OtaInv, WriteBegin, Write, Landed, Failed
<1>3. CASE Leave(u)
  BY <1>1, <1>2, <1>3, Leaves DEF WriteBegin, Write, OtaInv
<1>4. CASE GoOn(u, "ready")
  BY <1>1, <1>2, <1>4, GoesOn DEF GoOn, CallerOK, WriteBegin, Write, OtaInv, SentParts
<1> QED BY <1>3, <1>4 DEF WriteBegin, Write

LEMMA WriteEndKeeps == ASSUME NEW u \in Caller, OtaInv, WriteEnd(u) PROVE OtaInv'
<1>1. HostOK'
  BY HostStays DEF OtaInv, WriteEnd, Write
<1>2. DialOK'
  BY DEF OtaInv, WriteEnd, Write, Landed, Failed, OtaEnd, DialOK, dial
<1>3. CASE Leave(u)
  BY <1>1, <1>2, <1>3, Leaves DEF WriteEnd, Write, OtaInv
<1>4. CASE GoOn(u, "done")
  BY <1>1, <1>2, <1>4, GoesOn DEF GoOn, CallerOK, WriteEnd, Write, OtaInv
<1> QED BY <1>3, <1>4 DEF WriteEnd, Write

LEMMA WriteDataKeeps == ASSUME NEW u \in Caller, OtaInv, WriteData(u) PROVE OtaInv'
<1>0. at[u] = "stream" /\ image[u] \in Release /\ sent[u] < Parts
  BY DEF WriteData, Write, OtaInv, CallerOK, ImageOK, SentParts, Version
<1>1. HostOK'
  BY HostStays DEF OtaInv, WriteData, Write
<1>2. DialOK'
  BY <1>0, PartTaken, DialStays DEF OtaInv, WriteData, Write, Landed, Failed
<1>3. CASE Leave(u)
  BY <1>0, <1>1, <1>2, <1>3, Leaves DEF OtaInv
<1>4. CASE /\ sent' = [sent EXCEPT ![u] = @ + 1]
           /\ at' = [at EXCEPT ![u] = "poll"]
           /\ UNCHANGED <<otaBusy, gated, image, plain>>
  <2>1. sent[u] + 1 \in 0 .. Parts
    BY <1>0, OtaAssumption DEF OtaInv, CallerOK
  <2> QED
    BY <1>0, <1>1, <1>2, <1>4, <2>1
    DEF OtaInv, CallerOK, SentParts, ImageOK, OneUpdateAtATime, Places
<1> QED BY <1>3, <1>4 DEF WriteData, Write
-----------------------------------------------------------------------------
(* The dial, the link and the checker *)

LEMMA FinishKeeps == OtaInv /\ Finish => OtaInv'
<1> SUFFICES ASSUME OtaInv, Finish PROVE OtaInv'
  OBVIOUS
<1>1. HostOK'
  BY HostStays DEF OtaInv, Finish
<1>2. air' \in Seq(Said) /\ Len(air') <= MaxStatus
  BY Notifies DEF OtaInv, DialOK, Finish, Said
<1>3. boot' \in Release \cup {Factory}
  BY DEF OtaInv, DialOK, Finish
<1>4. DialOK'
  BY <1>2, <1>3, NothingIsASeq DEF OtaInv, DialOK, Finish
<1> QED BY <1>1, <1>4, CallerStays DEF OtaInv, Finish

LEMMA DialMoves ==
  OtaInv /\ (Drop \/ CheckLink \/ Reboot) => OtaInv'
<1> SUFFICES ASSUME OtaInv, Drop \/ CheckLink \/ Reboot PROVE OtaInv'
  OBVIOUS
<1>1. HostOK'
  BY HostStays DEF OtaInv, Drop, CheckLink, Reboot
<1>2. DialOK'
  BY NothingIsASeq DEF OtaInv, DialOK, Drop, CheckLink, Reboot, dial
<1> QED BY <1>1, <1>2, CallerStays DEF OtaInv, Drop, CheckLink, Reboot

LEMMA HostMoves ==
  OtaInv /\ (Refresh \/ Connect \/ Hello \/ Disconnected \/ Confirm) => OtaInv'
<1> SUFFICES ASSUME OtaInv, Refresh \/ Connect \/ Hello \/ Disconnected \/ Confirm
             PROVE  OtaInv'
  OBVIOUS
<1>1. HostOK'
  BY DEF OtaInv, HostOK, DialOK, Version, Refresh, Connect, Hello, Disconnected, Confirm, host
<1>2. DialOK'
  BY DEF OtaInv, DialOK, Refresh, Connect, Hello, Disconnected, Confirm, dial
<1> QED BY <1>1, <1>2, CallerStays
        DEF OtaInv, Refresh, Connect, Hello, Disconnected, Confirm

LEMMA StatusKeeps == OtaInv /\ OnOtaStatus => OtaInv'
<1> SUFFICES ASSUME OtaInv, OnOtaStatus PROVE OtaInv'
  OBVIOUS
<1>1. Head(air) \in Said /\ Tail(air) \in Seq(Said) /\ Len(Tail(air)) <= MaxStatus
  BY OtaAssumption DEF OtaInv, DialOK, OnOtaStatus
<1>2. HostOK'
  BY <1>1, OtaAssumption DEF OtaInv, HostOK, OnOtaStatus, host
<1>3. DialOK'
  BY <1>1 DEF OtaInv, DialOK, OnOtaStatus, dial
<1> QED BY <1>2, <1>3, CallerStays DEF OtaInv, OnOtaStatus

LEMMA OtaInit == Init => OtaInv
<1> SUFFICES ASSUME Init PROVE OtaInv
  OBVIOUS
<1>1. CallerOK
  <2>1. NoVersion \in Version /\ 0 \in 0 .. Parts
    BY OtaAssumption DEF Version
  <2> QED BY <2>1 DEF Init, CallerOK, Places
<1>2. HostOK /\ DialOK
  BY NothingIsASeq DEF Init, HostOK, DialOK, Version
<1>3. SentParts /\ ImageOK /\ OneUpdateAtATime
  BY DEF Init, SentParts, ImageOK, OneUpdateAtATime
<1> QED BY <1>1, <1>2, <1>3 DEF OtaInv

LEMMA OtaStep == OtaInv /\ [Next]_vars => OtaInv'
<1> SUFFICES ASSUME OtaInv, [Next]_vars PROVE OtaInv'
  OBVIOUS
<1>1. CASE Call
  BY <1>1, CallsKeep
<1>2. ASSUME NEW u \in Caller, Step(u) PROVE OtaInv'
  BY <1>2, GateKeeps, DownloadKeeps, DrainKeeps, WriteBeginKeeps, WriteDataKeeps,
     PollKeeps, WriteEndKeeps, HeardKeeps, TimedOutKeeps DEF Step
<1>3. CASE Refresh \/ Connect \/ Hello \/ Disconnected \/ Confirm
  BY <1>3, HostMoves
<1>4. CASE OnOtaStatus
  BY <1>4, StatusKeeps
<1>5. CASE Drop \/ CheckLink \/ Reboot
  BY <1>5, DialMoves
<1>6. CASE Finish
  BY <1>6, FinishKeeps
<1>7. CASE UNCHANGED vars
  BY <1>7, CallerStays, HostStays, DialStays DEF OtaInv, vars
<1> QED BY <1>1, <1>2, <1>3, <1>4, <1>5, <1>6, <1>7 DEF Next

LEMMA OtaInvHolds == Spec => []OtaInv
BY OtaInit, OtaStep, PTL DEF Spec

\* The update's state keeps its types; no notification is queued beyond the capacity
\* of its channel, and no part written beyond the size of an image.
THEOREM OtaTypeOK == Spec => []TypeOK
<1>1. OtaInv => TypeOK
  BY DEF OtaInv, CallerOK, HostOK, DialOK, TypeOK, Places, Said
<1> QED BY <1>1, OtaInvHolds, PTL

\* runFirmwareUpdate never runs twice, and its guard falls when it ends.
THEOREM UpdatesDoNotOverlap == Spec => []OneUpdateAtATime
<1>1. OtaInv => OneUpdateAtATime
  BY DEF OtaInv
<1> QED BY <1>1, OtaInvHolds, PTL
-----------------------------------------------------------------------------
(* What is flashed *)

\* What the checks were made for has passed them; whatever is downloaded, sent or
\* written was downloaded as that, or is another version that the manifest named by
\* the time it was read again.
Allowed(v) == CanFlash(BridgeVersion, v)

GatesPass == \A u \in Caller : Allowed(gated[u])

LEMMA NothingIsAllowed == Allowed(NoVersion)
BY DEF Allowed, CanFlash

LEMMA FlashableParts ==
  Flashable <=> /\ \A u \in Caller : Allowed(image[u])
                /\ \A i \in DOMAIN slot : Allowed(slot[i])
BY DEF Flashable, Allowed

LEMMA GatesPassStep ==
  ASSUME OtaInv, GatesPass, [Next]_vars
  PROVE  GatesPass'
<1> USE NothingIsAllowed DEF GatesPass, Allowed, Leave, GoOn, Proceed, dial, caller
<1>1. CASE Call
  BY <1>1 DEF Call, CallHTTP, CallDial, Begins
<1>2. ASSUME NEW u \in Caller, Gate(u) PROVE GatesPass'
  BY <1>2 DEF Gate, Passes, OtaInv, CallerOK
<1>3. ASSUME NEW u \in Caller, Download(u) \/ Drain(u) \/ Poll(u) \/ Heard(u) \/ TimedOut(u)
      PROVE  GatesPass'
  BY <1>3 DEF Download, Drain, Poll, Heard, TimedOut, OtaInv, CallerOK
<1>4. ASSUME NEW u \in Caller, WriteBegin(u) \/ WriteEnd(u) \/ WriteData(u) PROVE GatesPass'
  BY <1>4 DEF WriteBegin, WriteEnd, WriteData, Write, OtaInv, CallerOK
<1>5. CASE Refresh \/ Connect \/ Hello \/ Disconnected \/ Confirm \/ OnOtaStatus \/ Drop
  BY <1>5 DEF Refresh, Connect, Hello, Disconnected, Confirm, OnOtaStatus, Drop
<1>6. CASE Finish \/ CheckLink \/ Reboot \/ UNCHANGED vars
  BY <1>6 DEF Finish, CheckLink, Reboot, vars
<1> QED
  BY <1>1, <1>2, <1>3, <1>4, <1>5, <1>6 DEF Next, Step

\* The image of a part is that of the caller that sends it.
LEMMA PartsAreFlashable ==
  ASSUME OtaInv, Flashable, NEW u \in Caller, OtaData(image[u])
  PROVE  \A i \in DOMAIN slot' : Allowed(slot'[i])
<1>0. Allowed(image[u]) /\ \A i \in DOMAIN slot : Allowed(slot[i])
  BY FlashableParts
<1>1. CASE slot' = slot
  BY <1>0, <1>1
<1>2. CASE slot' = << >>
  BY <1>2
<1>3. CASE slot' = Append(slot, image[u])
  <2>1. slot \in Seq(Release)
    BY DEF OtaInv, DialOK
  <2>2. DOMAIN slot' = 1 .. Len(slot) + 1 /\ DOMAIN slot = 1 .. Len(slot)
    BY <1>3, <2>1
  <2>3. \A i \in DOMAIN slot' : slot'[i] = IF i \in DOMAIN slot THEN slot[i] ELSE image[u]
    BY <1>3, <2>1, <2>2
  <2> QED BY <1>0, <2>3
<1> QED BY <1>1, <1>2, <1>3 DEF OtaData, dial

LEMMA FlashableStep ==
  ASSUME OtaInv, GatesPass, Flashable, [Next]_vars, \A u \in Caller : ~Rereads(u)
  PROVE  Flashable'
<1> DEFINE Held == /\ \A u \in Caller : Allowed(image[u])
                   /\ \A i \in DOMAIN slot : Allowed(slot[i])
<1>0. Held /\ (Flashable' <=> Held')
  BY FlashableParts DEF Flashable, Allowed
<1> SUFFICES Held'
  BY <1>0
<1> USE <1>0, NothingIsAllowed DEF Leave, GoOn, Proceed, dial, caller
<1>1. CASE Call
  BY <1>1 DEF Call, CallHTTP, CallDial, Begins
<1>2. ASSUME NEW u \in Caller, Gate(u) PROVE Held'
  BY <1>2 DEF Gate, OtaInv, CallerOK
<1>3. ASSUME NEW u \in Caller, Download(u) PROVE Held'
  <2>1. latest = gated[u]
    BY <1>3 DEF Rereads
  <2> QED BY <1>3, <2>1 DEF Download, OtaInv, CallerOK, GatesPass
<1>4. ASSUME NEW u \in Caller, Drain(u) \/ Poll(u) \/ Heard(u) \/ TimedOut(u) PROVE Held'
  BY <1>4 DEF Drain, Poll, Heard, TimedOut, OtaInv, CallerOK
<1>5. ASSUME NEW u \in Caller, WriteBegin(u) \/ WriteEnd(u) PROVE Held'
  <2>1. \A i \in DOMAIN slot' : Allowed(slot'[i])
    BY <1>5 DEF WriteBegin, WriteEnd, Write, Landed, Failed, OtaBegin, OtaEnd
  <2> QED BY <1>5, <2>1 DEF WriteBegin, WriteEnd, Write, OtaInv, CallerOK
<1>6. ASSUME NEW u \in Caller, WriteData(u) PROVE Held'
  <2>1. \A i \in DOMAIN slot' : Allowed(slot'[i])
    BY <1>6, PartsAreFlashable DEF WriteData, Write, Landed, Failed
  <2> QED BY <1>6, <2>1 DEF WriteData, Write, OtaInv, CallerOK
<1>7. CASE Refresh \/ Connect \/ Hello \/ Disconnected \/ Confirm \/ OnOtaStatus \/ Drop
  BY <1>7 DEF Refresh, Connect, Hello, Disconnected, Confirm, OnOtaStatus, Drop
<1>8. CASE Finish \/ CheckLink \/ Reboot \/ UNCHANGED vars
  BY <1>8 DEF Finish, CheckLink, Reboot, vars
<1> QED
  BY <1>1, <1>2, <1>3, <1>4, <1>5, <1>6, <1>7, <1>8 DEF Next, Step

LEMMA StartsAreFlashable ==
  ASSUME OtaInv, Flashable, [Next]_vars, boot' # boot
  PROVE  Allowed(boot')
<1>1. Finish
  BY DEF Next, vars, Step, Call, Gate, Download, Drain, WriteBegin, WriteData, WriteEnd, Write,
     Landed, Failed, OtaBegin, OtaData, OtaEnd, Poll, Heard, TimedOut, Refresh, Connect, Hello,
     Disconnected, OnOtaStatus, Confirm, Drop, CheckLink, Reboot, dial
<1>2. Whole(boot')
  BY <1>1 DEF Finish
<1>3. slot[1] = boot' /\ 1 \in DOMAIN slot
  BY <1>2, OtaAssumption DEF Whole
<1> QED BY <1>3, FlashableParts

\* "Never flash newer than the bridge": whatever the manifest does meanwhile, however
\* the update was started and whatever becomes of the link, the dial starts a version
\* newer than the bridge only after one has been downloaded that was never checked,
\* because the manifest had changed between the two times it is read.
THEOREM FlashedIsNeverNewer == Spec => NeverNewerThanBridge
<1>1. Init => GatesPass
  BY NothingIsAllowed DEF Init, GatesPass
<1>2. OtaInv /\ GatesPass /\ [Next]_vars => GatesPass'
  BY GatesPassStep
<1>3. OtaInv /\ GatesPass /\ [Next]_vars =>
        [Flashable => /\ boot' # boot => CanFlash(BridgeVersion, boot')
                      /\ Flashable' \/ \E u \in Caller : Rereads(u)]_vars
  BY FlashableStep, StartsAreFlashable DEF Allowed
<1> QED BY <1>1, <1>2, <1>3, OtaInvHolds, PTL DEF Spec, NeverNewerThanBridge
-----------------------------------------------------------------------------
(* What success means.  A caller that hears "ready" hears the answer to its  *)
(* own begin, since none was around when it drained; from then on the parts  *)
(* written are its own, and so is the end that makes the dial say "done".    *)

Has(q, s) == \E i \in DOMAIN q : q[i] = s

\* No success behind a readiness.
ReadyLast(q) == \A i, j \in DOMAIN q : q[i] = "ready" /\ i < j => q[j] # "done"

AllOf(v) == \A i \in DOMAIN slot : slot[i] = v

Flashing == {"flash", "begin", "ready", "stream", "poll", "end", "done"}

Mine(u) ==
  /\ at[u] \in Flashing => image[u] = gated[u]
  /\ at[u] = "begin" => ~Has(status, "ready") /\ ~Has(air, "ready")
  /\ at[u] = "ready" =>
       /\ ReadyLast(status) /\ ReadyLast(air)
       /\ Has(status, "ready") => ~Has(air, "done")
       /\ Has(status, "ready") \/ Has(air, "ready") => ~otaFinish /\ slot = << >>
  /\ at[u] \in {"stream", "poll", "end"} =>
       ~Has(status, "done") /\ ~Has(air, "done") /\ ~otaFinish /\ AllOf(image[u])
  /\ at[u] = "done" =>
       /\ AllOf(image[u])
       /\ Has(status, "done") \/ Has(air, "done") => boot = image[u]

Owned == \A u \in Caller : Mine(u)

\* Of an update that downloaded what was checked and drained everything there was.
PlainOwned == plain => Owned

LEMMA HasNothing == \A s : ~Has(<< >>, s)
BY DEF Has

LEMMA HeadTail ==
  ASSUME NEW q \in Seq(Said), q # << >>
  PROVE  /\ Has(q, Head(q)) /\ \A s : Has(Tail(q), s) => Has(q, s)
         /\ ReadyLast(q) => ReadyLast(Tail(q))
         /\ ReadyLast(q) /\ Head(q) = "ready" => ~Has(Tail(q), "done")
<1>1. /\ Len(q) \in Nat /\ DOMAIN q = 1 .. Len(q) /\ 1 \in DOMAIN q /\ q[1] = Head(q)
      /\ DOMAIN Tail(q) = 1 .. Len(q) - 1
      /\ \A i \in DOMAIN Tail(q) : i + 1 \in DOMAIN q /\ Tail(q)[i] = q[i + 1]
  OBVIOUS
<1>2. \A i, j \in DOMAIN Tail(q) : i < j => i + 1 < j + 1
  BY <1>1
<1>3. \A i \in DOMAIN Tail(q) : 1 < i + 1
  BY <1>1
<1>4. Has(q, Head(q)) /\ \A s : Has(Tail(q), s) => Has(q, s)
  BY <1>1 DEF Has
<1>5. ReadyLast(q) => ReadyLast(Tail(q))
  BY <1>1, <1>2 DEF ReadyLast
<1>6. ReadyLast(q) /\ Head(q) = "ready" => ~Has(Tail(q), "done")
  BY <1>1, <1>3 DEF ReadyLast, Has
<1> QED BY <1>4, <1>5, <1>6

LEMMA Appends ==
  ASSUME NEW q \in Seq(Said), NEW x \in Said
  PROVE  /\ \A s : Has(Append(q, x), s) <=> Has(q, s) \/ x = s
         /\ ReadyLast(q) /\ (x = "done" => ~Has(q, "ready")) => ReadyLast(Append(q, x))
<1>1. /\ Len(q) \in Nat /\ DOMAIN q = 1 .. Len(q)
      /\ DOMAIN Append(q, x) = 1 .. Len(q) + 1
      /\ \A i \in DOMAIN q : Append(q, x)[i] = q[i]
      /\ Append(q, x)[Len(q) + 1] = x
  OBVIOUS
<1>2. /\ Len(q) + 1 \in DOMAIN Append(q, x)
      /\ \A i \in DOMAIN Append(q, x) : i \in DOMAIN q \/ i = Len(q) + 1
      /\ \A i \in DOMAIN q : i \in DOMAIN Append(q, x)
      /\ \A j \in DOMAIN Append(q, x) : ~ (Len(q) + 1 < j)
  BY <1>1
<1>3. \A s : Has(Append(q, x), s) <=> Has(q, s) \/ x = s
  BY <1>1, <1>2 DEF Has
<1>4. ReadyLast(q) /\ (x = "done" => ~Has(q, "ready")) => ReadyLast(Append(q, x))
  BY <1>1, <1>2 DEF ReadyLast, Has
<1> QED BY <1>3, <1>4

\* A notification that is dropped leaves the queue as it was.
LEMMA NotifyFacts ==
  ASSUME DialOK, NEW x \in Said, Notify(x)
  PROVE  /\ \A s : Has(air', s) => Has(air, s) \/ x = s
         /\ ReadyLast(air) /\ (x = "done" => ~Has(air, "ready")) => ReadyLast(air')
<1>1. air \in Seq(Said)
  BY DEF DialOK
<1>2. /\ \A s : Has(Append(air, x), s) <=> Has(air, s) \/ x = s
      /\ ReadyLast(air) /\ (x = "done" => ~Has(air, "ready")) => ReadyLast(Append(air, x))
  BY <1>1, Appends
<1>3. CASE air' = air
  BY <1>3
<1>4. CASE air' = Append(air, x)
  BY <1>2, <1>4
<1> QED BY <1>3, <1>4 DEF Notify

\* Only the caller that has the guard has anything to keep.
LEMMA IdleIsMine == \A u \in Caller : at[u] \in {"idle", "gate"} => Mine(u)
BY DEF Mine, Flashing

LEMMA LeavesOwned ==
  ASSUME OtaInv, NEW u \in Caller, at[u] # "idle", Leave(u)
  PROVE  Owned'
<1>1. \A w \in Caller : at'[w] = "idle"
  BY DEF OtaInv, OneUpdateAtATime, CallerOK, Leave
<1> QED BY <1>1 DEF Owned, Mine, Flashing

\* What another caller does to its places, while this one is at work.
LEMMA AloneOwned ==
  ASSUME OtaInv, NEW u \in Caller, at[u] # "idle",
         \A w \in Caller : w # u => at'[w] = at[w], Mine(u)'
  PROVE  Owned'
<1>1. ASSUME NEW w \in Caller, w # u PROVE at'[w] = "idle"
  BY <1>1 DEF OtaInv, OneUpdateAtATime
<1>2. ASSUME NEW w \in Caller, w # u PROVE Mine(w)'
  BY <1>1, <1>2 DEF Mine, Flashing
<1> QED BY <1>2 DEF Owned

\* Steps that bring no notification, no end and no part.
LEMMA QuietOwned ==
  ASSUME Owned, UNCHANGED <<caller, boot>>,
         \A s : (Has(status', s) => Has(status, s)) /\ (Has(air', s) => Has(air, s)),
         ReadyLast(status) => ReadyLast(status'), ReadyLast(air) => ReadyLast(air'),
         otaFinish' => otaFinish, slot' = slot \/ slot' = << >>
  PROVE  Owned'
<1> SUFFICES ASSUME NEW u \in Caller PROVE Mine(u)'
  BY DEF Owned
<1>1. at'[u] = at[u] /\ image'[u] = image[u] /\ gated'[u] = gated[u]
  BY DEF caller
<1>2. AllOf(image[u]) => \A i \in DOMAIN slot' : slot'[i] = image[u]
  BY DEF AllOf
<1>3. slot = << >> => slot' = << >>
  OBVIOUS
<1> QED BY <1>1, <1>2, <1>3 DEF Owned, Mine, AllOf

LEMMA NothingIsReadyLast == ReadyLast(<< >>)
BY DEF ReadyLast

LEMMA CallOwned == OtaInv /\ Owned /\ Call => Owned'
<1> SUFFICES ASSUME OtaInv, Owned, Call PROVE Owned'
  OBVIOUS
<1>1. ASSUME NEW u \in Caller, Begins(u) PROVE Owned'
  <2>1. \A w \in Caller : at'[w] \in {"idle", "gate"}
    BY <1>1 DEF Begins, OtaInv, OneUpdateAtATime, CallerOK
  <2> QED BY <2>1 DEF Owned, Mine, Flashing
<1>2. CASE UNCHANGED caller
  BY <1>2, QuietOwned DEF Call, dial
<1> QED BY <1>1, <1>2 DEF Call, CallHTTP, CallDial, Caller

LEMMA GateOwned ==
  ASSUME OtaInv, Owned, NEW u \in Caller, Gate(u)
  PROVE  Owned'
<1>1. CASE Leave(u)
  BY <1>1, LeavesOwned DEF Gate
<1>2. CASE at' = [at EXCEPT ![u] = "download"]
  <2>1. at'[u] = "download" /\ \A w \in Caller : w # u => at'[w] = at[w]
    BY <1>2 DEF Gate, OtaInv, CallerOK
  <2>2. Mine(u)'
    BY <2>1 DEF Mine, Flashing
  <2> QED BY <2>1, <2>2, AloneOwned DEF Gate
<1> QED BY <1>1, <1>2 DEF Gate

LEMMA DownloadOwned ==
  ASSUME OtaInv, Owned, NEW u \in Caller, Download(u), plain'
  PROVE  Owned'
<1>1. CASE Leave(u)
  BY <1>1, LeavesOwned DEF Download
<1>2. CASE /\ image' = [image EXCEPT ![u] = latest]
           /\ at' = [at EXCEPT ![u] = "flash"]
           /\ plain' = (plain /\ latest = gated[u])
           /\ UNCHANGED gated
  <2>1. /\ at'[u] = "flash" /\ image'[u] = latest /\ gated'[u] = gated[u]
        /\ \A w \in Caller : w # u => at'[w] = at[w]
    BY <1>2 DEF Download, OtaInv, CallerOK
  <2>2. gated[u] = latest
    BY <1>2
  <2>3. Mine(u)'
    BY <2>1, <2>2 DEF Mine, Flashing
  <2> QED BY <2>1, <2>3, AloneOwned DEF Download
<1> QED BY <1>1, <1>2 DEF Download

\* Going on from one place to the next.
LEMMA GoOnFacts ==
  ASSUME OtaInv, NEW u \in Caller, NEW to, Proceed(u, to)
  PROVE  /\ at'[u] = to /\ image'[u] = image[u] /\ gated'[u] = gated[u]
         /\ \A w \in Caller : w # u => at'[w] = at[w]
BY DEF OtaInv, CallerOK, Proceed

LEMMA DrainOwned ==
  ASSUME OtaInv, Owned, NEW u \in Caller, Drain(u), plain'
  PROVE  Owned'
<1>1. CASE Leave(u)
  BY <1>1, LeavesOwned DEF Drain
<1>2. CASE Proceed(u, "begin") /\ status' = << >> /\ air = << >>
  <2>1. Mine(u)'
    BY <1>2, GoOnFacts, HasNothing DEF Drain, Owned, Mine, Flashing
  <2> QED BY <1>2, <2>1, GoOnFacts, AloneOwned DEF Drain
<1> QED BY <1>1, <1>2 DEF Drain

LEMMA WriteBeginOwned ==
  ASSUME OtaInv, Owned, NEW u \in Caller, WriteBegin(u)
  PROVE  Owned'
<1>1. CASE Leave(u)
  BY <1>1, LeavesOwned DEF WriteBegin, Write
<1>2. CASE GoOn(u, "ready") /\ OtaBegin
  <2>1. /\ at[u] = "begin" /\ status' = status /\ image[u] = gated[u]
        /\ ~Has(status, "ready") /\ ~Has(air, "ready")
    BY DEF WriteBegin, Write, Owned, Mine, Flashing
  <2>2. ReadyLast(status) /\ ReadyLast(air)
    BY <2>1 DEF ReadyLast, Has
  <2>3. CASE ~otaFinish' /\ slot' = << >> /\ Notify("ready")
    <3>1. ReadyLast(air')
      BY <2>2, <2>3, NotifyFacts DEF OtaInv, Said
    <3> QED BY <1>2, <2>1, <2>2, <2>3, <3>1, GoOnFacts, AloneOwned DEF GoOn, Mine, Flashing
  <2>4. CASE Notify("error")
    <3>1. ReadyLast(air') /\ ~Has(air', "ready")
      BY <2>1, <2>2, <2>4, NotifyFacts DEF OtaInv, Said
    <3> QED BY <1>2, <2>1, <2>2, <3>1, GoOnFacts, AloneOwned DEF GoOn, Mine, Flashing
  <2> QED BY <1>2, <2>3, <2>4 DEF OtaBegin
<1> QED BY <1>1, <1>2 DEF WriteBegin, Write, Landed

LEMMA WriteDataOwned ==
  ASSUME OtaInv, Owned, NEW u \in Caller, WriteData(u)
  PROVE  Owned'
<1>1. CASE Leave(u)
  BY <1>1, LeavesOwned DEF WriteData, Write
<1>2. CASE /\ at' = [at EXCEPT ![u] = "poll"] /\ UNCHANGED <<gated, image>>
           /\ OtaData(image[u])
  <2>1. /\ at[u] = "stream" /\ status' = status /\ image[u] = gated[u]
        /\ ~Has(status, "done") /\ ~Has(air, "done") /\ ~otaFinish /\ AllOf(image[u])
    BY DEF WriteData, Write, Owned, Mine, Flashing
  <2>2. at'[u] = "poll" /\ \A w \in Caller : w # u => at'[w] = at[w]
    BY <1>2 DEF OtaInv, CallerOK
  <2>3. ~otaFinish'
    BY <1>2, <2>1 DEF OtaData, dial
  <2>4. ~Has(air', "done")
    BY <1>2, <2>1, NotifyFacts DEF OtaData, OtaInv, Said
  <2>5. \A i \in DOMAIN slot' : slot'[i] = image[u]
    <3>1. CASE slot' = slot \/ slot' = << >>
      BY <2>1, <3>1 DEF AllOf
    <3>2. CASE slot' = Append(slot, image[u])
      <4>1. slot \in Seq(Release)
        BY DEF OtaInv, DialOK
      <4>2. DOMAIN slot' = 1 .. Len(slot) + 1 /\ DOMAIN slot = 1 .. Len(slot)
        BY <3>2, <4>1
      <4>3. \A i \in DOMAIN slot' : slot'[i] = IF i \in DOMAIN slot THEN slot[i] ELSE image[u]
        BY <3>2, <4>1, <4>2
      <4> QED BY <2>1, <4>3 DEF AllOf
    <3> QED BY <1>2, <3>1, <3>2 DEF OtaData, dial
  <2>6. Mine(u)'
    BY <1>2, <2>1, <2>2, <2>3, <2>4, <2>5 DEF Mine, AllOf, Flashing
  <2> QED BY <2>1, <2>2, <2>6, AloneOwned
<1> QED BY <1>1, <1>2 DEF WriteData, Write, Landed

LEMMA PollOwned ==
  ASSUME OtaInv, Owned, NEW u \in Caller, Poll(u)
  PROVE  Owned'
<1>1. CASE Leave(u)
  BY <1>1, LeavesOwned DEF Poll
<1>2. ASSUME NEW to \in {"stream", "end"}, GoOn(u, to),
             \/ status' = status
             \/ status # << >> /\ status' = Tail(status)
      PROVE  Owned'
  <2>1. status \in Seq(Said)
    BY DEF OtaInv, HostOK
  <2>2. ~Has(status', "done")
    BY <1>2, <2>1, HeadTail DEF Poll, Owned, Mine
  <2>3. UNCHANGED <<air, dial>> /\ at[u] = "poll"
    BY DEF Poll
  <2>4. /\ at'[u] = to /\ image'[u] = image[u] /\ gated'[u] = gated[u]
        /\ \A w \in Caller : w # u => at'[w] = at[w]
    BY <1>2, GoOnFacts DEF GoOn
  <2>5. Mine(u)'
    BY <2>2, <2>3, <2>4 DEF dial, Owned, Mine, Flashing, AllOf
  <2> QED BY <2>3, <2>4, <2>5, AloneOwned
<1> QED BY <1>1, <1>2 DEF Poll

LEMMA WriteEndOwned ==
  ASSUME OtaInv, Owned, NEW u \in Caller, WriteEnd(u)
  PROVE  Owned'
<1>1. CASE Leave(u)
  BY <1>1, LeavesOwned DEF WriteEnd, Write
<1>2. CASE GoOn(u, "done") /\ OtaEnd
  <2>1. UNCHANGED <<status, air, slot>> /\ at[u] = "end"
    BY <1>2 DEF WriteEnd, Write, OtaEnd
  <2>2. /\ at'[u] = "done" /\ image'[u] = image[u] /\ gated'[u] = gated[u]
        /\ \A w \in Caller : w # u => at'[w] = at[w]
    BY <1>2, GoOnFacts DEF GoOn
  <2>3. Mine(u)'
    BY <2>1, <2>2 DEF Owned, Mine, Flashing, AllOf
  <2> QED BY <2>1, <2>2, <2>3, AloneOwned
<1> QED BY <1>1, <1>2 DEF WriteEnd, Write, Landed

LEMMA HeardOwned ==
  ASSUME OtaInv, Owned, NEW u \in Caller, Heard(u)
  PROVE  Owned'
<1>0. status \in Seq(Said) /\ status # << >> /\ status' = Tail(status) /\ UNCHANGED <<air, dial, latest>>
  BY DEF OtaInv, HostOK, Heard
<1>1. CASE Leave(u)
  BY <1>1, LeavesOwned DEF Heard
<1>2. CASE Head(status) = "ready" /\ at[u] = "ready" /\ GoOn(u, "stream")
  <2>1. ~Has(status', "done")
    BY <1>0, <1>2, HeadTail DEF Owned, Mine
  <2>2. ~Has(air, "done") /\ ~otaFinish /\ slot = << >> /\ image[u] = gated[u]
    BY <1>0, <1>2, HeadTail DEF Owned, Mine, Flashing
  <2>3. /\ at'[u] = "stream" /\ image'[u] = image[u] /\ gated'[u] = gated[u]
        /\ \A w \in Caller : w # u => at'[w] = at[w]
    BY <1>2, GoOnFacts DEF GoOn
  <2>4. Mine(u)'
    BY <1>0, <2>1, <2>2, <2>3 DEF Mine, dial, AllOf, Flashing
  <2> QED BY <1>2, <2>3, <2>4, AloneOwned
<1>3. CASE UNCHANGED caller
  <2>1. \A s : (Has(status', s) => Has(status, s)) /\ (Has(air', s) => Has(air, s))
    BY <1>0, HeadTail
  <2>2. (ReadyLast(status) => ReadyLast(status')) /\ (ReadyLast(air) => ReadyLast(air'))
    BY <1>0, HeadTail
  <2> QED BY <1>0, <1>3, <2>1, <2>2, QuietOwned DEF dial
<1> QED BY <1>1, <1>2, <1>3 DEF Heard

LEMMA StatusOwned == OtaInv /\ Owned /\ OnOtaStatus => Owned'
<1> SUFFICES ASSUME OtaInv, Owned, OnOtaStatus PROVE Owned'
  OBVIOUS
<1> DEFINE x == Head(air)
<1>1. /\ air \in Seq(Said) /\ air # << >> /\ air' = Tail(air) /\ status \in Seq(Said)
      /\ x \in Said /\ UNCHANGED <<caller, latest, dial>>
  BY DEF OtaInv, HostOK, DialOK, OnOtaStatus
<1>2. /\ Has(air, x) /\ \A s : Has(air', s) => Has(air, s)
      /\ ReadyLast(air) => ReadyLast(air')
      /\ ReadyLast(air) /\ x = "ready" => ~Has(air', "done")
  BY <1>1, HeadTail
<1>3. /\ \A s : Has(status', s) => Has(status, s) \/ s = x
      /\ ReadyLast(status) /\ (x = "done" => ~Has(status, "ready")) => ReadyLast(status')
  <2>1. CASE status' = status
    BY <2>1
  <2>2. CASE status' = Append(status, x)
    <3>1. /\ \A s : Has(Append(status, x), s) <=> Has(status, s) \/ x = s
          /\ ReadyLast(status) /\ (x = "done" => ~Has(status, "ready"))
               => ReadyLast(Append(status, x))
      BY <1>1, Appends
    <3> QED BY <2>2, <3>1
  <2> QED BY <2>1, <2>2 DEF OnOtaStatus
<1> HIDE DEF x
<1> SUFFICES ASSUME NEW u \in Caller PROVE Mine(u)'
  BY DEF Owned
<1>4. Mine(u) /\ at'[u] = at[u] /\ image'[u] = image[u] /\ gated'[u] = gated[u]
  BY <1>1 DEF caller, Owned
<1>5. CASE at[u] \in {"download", "flash", "begin", "idle", "gate"}
  BY <1>1, <1>2, <1>3, <1>4, <1>5 DEF Mine, Flashing, dial
<1>6. CASE at[u] = "ready"
  BY <1>1, <1>2, <1>3, <1>4, <1>6 DEF Mine, Flashing, dial
<1>7. CASE at[u] \in {"stream", "poll", "end", "done"}
  BY <1>1, <1>2, <1>3, <1>4, <1>7 DEF Mine, Flashing, AllOf, dial
<1> QED BY <1>5, <1>6, <1>7 DEF OtaInv, CallerOK, Places

LEMMA FinishOwned == OtaInv /\ Owned /\ Finish => Owned'
<1> SUFFICES ASSUME OtaInv, Owned, Finish PROVE Owned'
  OBVIOUS
<1> SUFFICES ASSUME NEW u \in Caller PROVE Mine(u)'
  BY DEF Owned
<1>1. /\ Mine(u) /\ at'[u] = at[u] /\ image'[u] = image[u] /\ gated'[u] = gated[u]
      /\ status' = status /\ latest' = latest
      /\ otaFinish /\ ~otaFinish' /\ slot' = << >> /\ \A i \in DOMAIN slot' : slot'[i] = image[u]
  BY DEF Finish, Owned, caller
<1>2. \E x \in {"done", "error"} :
         /\ \A s : Has(air', s) => Has(air, s) \/ x = s
         /\ ReadyLast(air) /\ (x = "done" => ~Has(air, "ready")) => ReadyLast(air')
         /\ x = "done" => Whole(boot')
         /\ x = "error" => boot' = boot
  <2>1. CASE Whole(boot') /\ (IF link THEN Notify("done") ELSE UNCHANGED air)
    <3>1. /\ \A s : Has(air', s) => Has(air, s) \/ "done" = s
          /\ ReadyLast(air) /\ ~Has(air, "ready") => ReadyLast(air')
      BY <2>1, NotifyFacts DEF OtaInv, Said
    <3> QED BY <2>1, <3>1
  <2>2. CASE boot' = boot /\ (IF link THEN Notify("error") ELSE UNCHANGED air)
    <3>1. /\ \A s : Has(air', s) => Has(air, s) \/ "error" = s
          /\ ReadyLast(air) => ReadyLast(air')
      BY <2>2, NotifyFacts DEF OtaInv, Said
    <3> QED BY <2>2, <3>1
  <2> QED BY <2>1, <2>2 DEF Finish
<1>3. PICK x \in {"done", "error"} :
         /\ \A s : Has(air', s) => Has(air, s) \/ x = s
         /\ ReadyLast(air) /\ (x = "done" => ~Has(air, "ready")) => ReadyLast(air')
         /\ x = "done" => Whole(boot')
         /\ x = "error" => boot' = boot
  BY <1>2
<1>4. CASE at[u] \in {"download", "flash", "begin", "idle", "gate"}
  BY <1>1, <1>3, <1>4 DEF Mine, Flashing
<1>5. CASE at[u] = "ready"
  BY <1>1, <1>3, <1>5 DEF Mine, Flashing
<1>6. CASE at[u] \in {"stream", "poll", "end"}
  BY <1>1, <1>6 DEF Mine
<1>7. CASE at[u] = "done"
  <2>1. Whole(boot') => boot' = image[u]
    <3>1. ASSUME Whole(boot') PROVE slot[1] = boot' /\ 1 \in DOMAIN slot
      BY <3>1, OtaAssumption DEF Whole
    <3> QED BY <1>1, <1>7, <3>1 DEF Mine, AllOf
  <2> QED BY <1>1, <1>3, <1>7, <2>1 DEF Mine, Flashing, AllOf
<1> QED BY <1>4, <1>5, <1>6, <1>7 DEF OtaInv, CallerOK, Places

LEMMA OwnedStep ==
  ASSUME OtaInv, Owned, [Next]_vars, plain'
  PROVE  Owned'
<1>1. ASSUME NEW u \in Caller, Step(u) PROVE Owned'
  <2>1. CASE TimedOut(u)
    BY <2>1, LeavesOwned DEF TimedOut
  <2> QED BY <1>1, <2>1, GateOwned, DownloadOwned, DrainOwned, WriteBeginOwned, WriteDataOwned,
             PollOwned, WriteEndOwned, HeardOwned DEF Step
<1>2. CASE Refresh \/ Connect \/ Hello \/ Disconnected \/ Confirm
  BY <1>2, QuietOwned DEF Refresh, Connect, Hello, Disconnected, Confirm, dial
<1>3. CASE Drop \/ CheckLink \/ Reboot
  <2>1. /\ UNCHANGED <<caller, boot, status>> /\ air' \in {air, << >>}
        /\ (otaFinish' => otaFinish) /\ (slot' = slot \/ slot' = << >>)
    BY <1>3 DEF Drop, CheckLink, Reboot, dial
  <2>2. (\A s : Has(air', s) => Has(air, s)) /\ (ReadyLast(air) => ReadyLast(air'))
    BY <2>1, HasNothing, NothingIsReadyLast
  <2> QED BY <2>1, <2>2, QuietOwned
<1>4. CASE UNCHANGED vars
  BY <1>4, QuietOwned DEF vars, dial
<1> QED BY <1>1, <1>2, <1>3, <1>4, CallOwned, StatusOwned, FinishOwned DEF Next

\* An update that is not plain becomes so only when it is over.
LEMMA PlainAgain ==
  ASSUME OtaInv, [Next]_vars, ~plain, plain'
  PROVE  Owned'
<1>1. ASSUME NEW u \in Caller, Step(u) PROVE Leave(u) /\ at[u] # "idle"
  <2> USE <1>1 DEF GoOn, caller
  <2>1. CASE Gate(u) \/ Download(u) \/ Drain(u)
    BY <2>1 DEF Gate, Download, Drain
  <2>2. CASE WriteBegin(u) \/ WriteData(u) \/ WriteEnd(u)
    BY <2>2 DEF WriteBegin, WriteData, WriteEnd, Write
  <2>3. CASE Poll(u) \/ Heard(u) \/ TimedOut(u)
    BY <2>3 DEF Poll, Heard, TimedOut
  <2> QED BY <2>1, <2>2, <2>3 DEF Step
<1>2. ~Call
  BY DEF Call, CallHTTP, CallDial, Begins, caller
<1>3. ~(\/ Refresh \/ Connect \/ Hello \/ Disconnected \/ OnOtaStatus \/ Confirm
        \/ Drop \/ Finish \/ CheckLink \/ Reboot \/ UNCHANGED vars)
  BY DEF Refresh, Connect, Hello, Disconnected, OnOtaStatus, Confirm, Drop, Finish, CheckLink,
     Reboot, vars, caller
<1> QED BY <1>1, <1>2, <1>3, LeavesOwned DEF Next

\* "Returns once it reports done": an update that downloads the version it has
\* checked, and drains when nothing is on its way, has been installed when it ends
\* well: the version it reports is the one the dial starts next.  It does not depend
\* on who else tried before, what was lost, and how often the link or the dial went
\* down meanwhile.
THEOREM WellEndedIsInstalled == Spec => SuccessIsInstalled
<1>1. Init => PlainOwned
  BY DEF Init, PlainOwned, Owned, Mine, Flashing
<1>2. ASSUME OtaInv, PlainOwned, plain, NEW u \in Caller, EndsWell(u) PROVE boot = gated[u]
  <2>1. Has(status, "done") /\ at[u] = "done"
    BY <1>2, HeadTail DEF EndsWell, OtaInv, HostOK
  <2> QED BY <1>2, <2>1 DEF PlainOwned, Owned, Mine, Flashing
<1>3. OtaInv /\ PlainOwned => [\A u \in Caller : EndsWell(u) /\ plain => boot = gated[u]]_vars
  BY <1>2
<1>4. OtaInv /\ PlainOwned /\ [Next]_vars => PlainOwned'
  BY OwnedStep, PlainAgain DEF PlainOwned
<1> QED BY <1>1, <1>3, <1>4, OtaInvHolds, PTL DEF Spec, SuccessIsInstalled
-----------------------------------------------------------------------------
(* The order of versions *)

LEMMA FieldIsNat == \A v \in Seq(Nat), i \in Nat : Field(v, i) \in Nat
BY DEF Field

\* Newer is a strict order: no version is newer than itself, no two are newer than
\* each other, and newer than newer is newer - also between versions with different
\* numbers of fields.
THEOREM NewerIsAStrictOrder ==
  \A a, b, c \in Seq(Nat) :
    /\ ~Newer(a, a)
    /\ ~(Newer(a, b) /\ Newer(b, a))
    /\ Newer(a, b) /\ Newer(b, c) => Newer(a, c)
<1> SUFFICES ASSUME NEW a \in Seq(Nat), NEW b \in Seq(Nat), NEW c \in Seq(Nat)
             PROVE  /\ ~Newer(a, a)
                    /\ ~(Newer(a, b) /\ Newer(b, a))
                    /\ Newer(a, b) /\ Newer(b, c) => Newer(a, c)
  OBVIOUS
<1>0. \A i \in Nat : Field(a, i) \in Nat /\ Field(b, i) \in Nat /\ Field(c, i) \in Nat
  BY FieldIsNat
<1>1. ~Newer(a, a)
  <2>1. \A i \in DOMAIN a : Field(a, i) \in Nat
    BY <1>0
  <2>2. \A i \in DOMAIN a : ~(Field(a, i) > Field(a, i))
    BY <2>1
  <2> QED BY <2>2 DEF Newer, Greater
<1>2. ~(Newer(a, b) /\ Newer(b, a))
  <2> SUFFICES ASSUME Greater(b, a), Greater(a, b) PROVE FALSE
    BY DEF Newer
  <2>1. PICK i \in DOMAIN b : /\ Field(b, i) > Field(a, i)
                              /\ \A j \in 1 .. (i - 1) : Field(b, j) = Field(a, j)
    BY DEF Greater
  <2>2. PICK k \in DOMAIN a : /\ Field(a, k) > Field(b, k)
                              /\ \A j \in 1 .. (k - 1) : Field(a, j) = Field(b, j)
    BY DEF Greater
  <2>3. i \in Nat \ {0} /\ k \in Nat \ {0}
    OBVIOUS
  <2>0. /\ Field(a, i) \in Nat /\ Field(b, i) \in Nat
        /\ Field(a, k) \in Nat /\ Field(b, k) \in Nat
    BY <1>0, <2>3
  <2>4. CASE i < k
    <3>1. Field(a, i) = Field(b, i)
      BY <2>2, <2>3, <2>4
    <3> QED BY <2>0, <2>1, <3>1
  <2>5. CASE k < i
    <3>1. Field(b, k) = Field(a, k)
      BY <2>1, <2>3, <2>5
    <3> QED BY <2>0, <2>2, <3>1
  <2>6. CASE i = k
    BY <2>0, <2>1, <2>2, <2>6
  <2> QED BY <2>3, <2>4, <2>5, <2>6
<1>3. ASSUME Newer(a, b), Newer(b, c) PROVE Newer(a, c)
  <2>1. PICK i \in DOMAIN b : /\ Field(b, i) > Field(a, i)
                              /\ \A j \in 1 .. (i - 1) : Field(b, j) = Field(a, j)
    BY <1>3 DEF Newer, Greater
  <2>2. PICK k \in DOMAIN c : /\ Field(c, k) > Field(b, k)
                              /\ \A j \in 1 .. (k - 1) : Field(c, j) = Field(b, j)
    BY <1>3 DEF Newer, Greater
  <2>3. i \in Nat \ {0} /\ k \in Nat \ {0}
    OBVIOUS
  <2>0. /\ Field(a, i) \in Nat /\ Field(b, i) \in Nat /\ Field(c, i) \in Nat
        /\ Field(a, k) \in Nat /\ Field(b, k) \in Nat /\ Field(c, k) \in Nat
    BY <1>0, <2>3
  <2>4. CASE k <= i
    <3>0. k = i \/ Field(b, k) = Field(a, k)
      BY <2>1, <2>3, <2>4
    <3>1. Field(c, k) > Field(a, k)
      BY <2>0, <2>1, <2>2, <3>0
    <3>2. \A j \in 1 .. (k - 1) : Field(c, j) = Field(a, j)
      BY <2>1, <2>2, <2>3, <2>4
    <3> QED BY <1>3, <3>1, <3>2 DEF Newer, Greater
  <2>5. CASE i < k
    <3>0. Field(c, i) = Field(b, i)
      BY <2>2, <2>3, <2>5
    <3>1. Field(c, i) > Field(a, i)
      BY <2>0, <2>1, <3>0
    <3>2. \A j \in 1 .. (i - 1) : Field(c, j) = Field(a, j)
      BY <2>1, <2>2, <2>3, <2>5
    <3>3. i \in DOMAIN c
      BY <2>2, <2>3, <2>5
    <3> QED BY <1>3, <3>1, <3>2, <3>3 DEF Newer, Greater
  <2> QED BY <2>3, <2>4, <2>5
<1> QED BY <1>1, <1>2, <1>3
=============================================================================
