-------------------------------- MODULE Ota --------------------------------
(***************************************************************************)
(* An update of the dial over BLE: runFirmwareUpdate with its two callers  *)
(* (the command line and the dial itself), the checker that refreshes the  *)
(* manifest beside it, ota.Flash, the link, and the half of the firmware   *)
(* that receives an image.                                                 *)
(*                                                                         *)
(* A write waits for its acknowledgement, so the firmware's callback runs  *)
(* within it; it may fail whether the firmware has seen it or not.  What   *)
(* the dial notifies arrives later, in order, or is lost with the link.    *)
(* Progress reports are left out: they only keep waitFor waiting.          *)
(***************************************************************************)
EXTENDS Versions

CONSTANTS Release,        \* versions that are published
          BridgeVersion,
          Factory,        \* the version a dial starts with
          Parts,          \* parts of an image
          MaxStatus       \* capacity of otaStatus, and of what is on its way

ASSUME OtaAssumption ==
  /\ Release \subseteq Seq(Nat) \ {NoVersion}
  /\ BridgeVersion \in Seq(Nat) /\ Factory \in Seq(Nat)
  /\ Parts \in Nat \ {0} /\ MaxStatus \in Nat \ {0}

\* Who starts an update: the HTTP endpoint or the prompt on the dial.
Caller == {"http", "dial"}

VARIABLES latest,   \* the manifest: its version, which names its image too
          otaBusy,  \* an update is in progress
          at,       \* where a caller is in its update
          gated,    \* the version its checks were made for, which it will report
          image,    \* the image it has downloaded
          sent,     \* how many parts it has sent
          plain,    \* history: the update under way has downloaded what was checked,
                    \* and no notification was on its way when it drained
          status,   \* notifications received and not read
          otaReqs,  \* a confirmation of the dial waits to be consumed
          capable,  \* OTACapable: connected, with all characteristics
          firmware, \* the version the dial has announced
          link,     \* the BLE link is up
          air,      \* notifications on their way
          \* the dial: the version it runs, the one it will start, ...
          running, boot,
          wasConnected, otaActive, otaFinish,
          slot      \* ... and the image each written part is from

caller == <<otaBusy, at, gated, image, sent, plain>>
host   == <<capable, firmware>>
dial   == <<boot, otaActive, otaFinish, slot>>
vars   == <<latest, caller, status, otaReqs, host, link, air, running, wasConnected, dial>>

Version == Release \cup {NoVersion}

Init ==
  /\ latest = NoVersion /\ otaBusy = FALSE
  /\ at = [u \in Caller |-> "idle"] /\ gated = [u \in Caller |-> NoVersion]
  /\ image = [u \in Caller |-> NoVersion] /\ sent = [u \in Caller |-> 0]
  /\ plain = TRUE
  /\ status = << >> /\ otaReqs = FALSE
  /\ capable = FALSE /\ firmware = NoVersion
  /\ link = FALSE /\ air = << >> /\ wasConnected = FALSE
  /\ running = Factory /\ boot = Factory
  /\ otaActive = FALSE /\ otaFinish = FALSE /\ slot = << >>

\* The deferred reset of otaBusy, on every way out.
Leave(u) ==
  /\ at' = [at EXCEPT ![u] = "idle"]
  /\ otaBusy' = FALSE
  /\ gated' = [gated EXCEPT ![u] = NoVersion]
  /\ image' = [image EXCEPT ![u] = NoVersion]
  /\ sent' = [sent EXCEPT ![u] = 0]
  /\ plain' = TRUE

Proceed(u, to) == at' = [at EXCEPT ![u] = to] /\ UNCHANGED <<otaBusy, gated, image, sent>>

GoOn(u, to) == Proceed(u, to) /\ UNCHANGED plain
-----------------------------------------------------------------------------
(* runFirmwareUpdate *)

\* With a bug: otaBusy is set without looking at it.
BeginsRegardless(u) ==
  /\ at[u] = "idle"
  /\ otaBusy' = TRUE
  /\ at' = [at EXCEPT ![u] = "gate"]
  /\ UNCHANGED <<gated, image, sent, plain>>

\* The compare-and-swap on otaBusy; who finds it set is turned away.
Begins(u) ==
  /\ at[u] = "idle" /\ ~otaBusy
  /\ otaBusy' = TRUE
  /\ at' = [at EXCEPT ![u] = "gate"]
  /\ UNCHANGED <<gated, image, sent, plain>>

CallHTTP == capable /\ Begins("http") /\ UNCHANGED <<otaReqs>>

\* consumeOTARequests takes the next confirmation when it is done with the last.
CallDial ==
  /\ otaReqs /\ at["dial"] = "idle" /\ otaReqs' = FALSE
  /\ Begins("dial") \/ (otaBusy /\ UNCHANGED caller)

Call == (CallHTTP \/ CallDial)
        /\ UNCHANGED <<latest, status, host, link, air, running, wasConnected, dial>>

\* With a bug: force skips this check too.
PassesForced(force) ==
  /\ capable /\ latest # NoVersion
  /\ force \/ (CanFlash(BridgeVersion, latest) /\ Newer(firmware, latest))

\* The checks made on the manifest as it is now; force is not for the dial.
Passes(force) ==
  /\ capable /\ latest # NoVersion
  /\ CanFlash(BridgeVersion, latest)
  /\ force \/ Newer(firmware, latest)

Gate(u) ==
  /\ at[u] = "gate"
  /\ \E force \in IF u = "http" THEN BOOLEAN ELSE {FALSE} :
       \/ /\ Passes(force)
          /\ at' = [at EXCEPT ![u] = "download"]
          /\ gated' = [gated EXCEPT ![u] = latest]
          /\ UNCHANGED <<otaBusy, image, sent, plain>>
       \/ ~Passes(force) /\ Leave(u)
  /\ UNCHANGED <<latest, status, otaReqs, host, link, air, running, wasConnected, dial>>

\* DownloadLatest reads the manifest again.
Download(u) ==
  /\ at[u] = "download"
  /\ \/ /\ latest # NoVersion
        /\ image' = [image EXCEPT ![u] = latest]
        /\ at' = [at EXCEPT ![u] = "flash"]
        /\ plain' = (plain /\ latest = gated[u])
        /\ UNCHANGED <<otaBusy, gated, sent>>
     \/ Leave(u)
  /\ UNCHANGED <<latest, status, otaReqs, host, link, air, running, wasConnected, dial>>
-----------------------------------------------------------------------------
(* The firmware's callbacks, run by a write *)

Notify(s) == air' = IF Len(air) < MaxStatus THEN Append(air, s) ELSE air

\* ota_begin: the library refuses to begin what has begun, and may fail.
OtaBegin ==
  \/ /\ ~otaActive
     /\ otaActive' = TRUE /\ otaFinish' = FALSE /\ slot' = << >>
     /\ Notify("ready") /\ UNCHANGED boot
  \/ Notify("error") /\ UNCHANGED dial

\* A part: ignored unless an update is active; one too many does not fit.
OtaData(v) ==
  \/ ~otaActive /\ UNCHANGED <<dial, air>>
  \/ /\ otaActive /\ Len(slot) < Parts
     /\ slot' = Append(slot, v)
     /\ UNCHANGED <<boot, otaActive, otaFinish, air>>
  \/ /\ otaActive
     /\ otaActive' = FALSE /\ slot' = << >>
     /\ Notify("error") /\ UNCHANGED <<boot, otaFinish>>

OtaEnd == otaFinish' = TRUE /\ UNCHANGED <<boot, otaActive, slot, air>>

\* A write that succeeds has run the callback; one that fails may have.
Landed(callback) == capable /\ link /\ callback
Failed(callback) == (link /\ callback) \/ UNCHANGED <<dial, air>>
-----------------------------------------------------------------------------
(* ota.Flash *)

\* OTACapable, then drain: statuses of an earlier attempt are thrown away, those
\* that have arrived.
Drain(u) ==
  /\ at[u] = "flash"
  /\ \/ /\ capable /\ Proceed(u, "begin")
        /\ status' = << >> /\ plain' = (plain /\ air = << >>)
     \/ ~capable /\ Leave(u) /\ UNCHANGED status
  /\ UNCHANGED <<latest, otaReqs, host, link, air, running, wasConnected, dial>>

Write(u, from, callback, to) ==
  /\ at[u] = from
  /\ \/ Landed(callback) /\ to
     \/ Failed(callback) /\ Leave(u)
  /\ UNCHANGED <<latest, status, otaReqs, host, link, running, wasConnected>>

WriteBegin(u) == Write(u, "begin", OtaBegin, GoOn(u, "ready"))

WriteData(u) ==
  Write(u, "stream", OtaData(image[u]),
        /\ sent' = [sent EXCEPT ![u] = @ + 1]
        /\ at' = [at EXCEPT ![u] = "poll"]
        /\ UNCHANGED <<otaBusy, gated, image, plain>>)

\* After each part, what has been notified is looked at once.
Poll(u) ==
  /\ at[u] = "poll"
  /\ LET next == IF sent[u] < Parts THEN "stream" ELSE "end"
     IN  \/ status = << >> /\ GoOn(u, next) /\ UNCHANGED status
         \/ /\ status # << >> /\ status' = Tail(status)
            /\ IF Head(status) = "error" THEN Leave(u) ELSE GoOn(u, next)
  /\ UNCHANGED <<latest, otaReqs, host, link, air, running, wasConnected, dial>>

WriteEnd(u) == Write(u, "end", OtaEnd, GoOn(u, "done"))

\* waitFor: the wanted state, an error, or something else to wait on.
Heard(u) ==
  /\ at[u] \in {"ready", "done"} /\ status # << >> /\ status' = Tail(status)
  /\ \/ Head(status) = "ready" /\ at[u] = "ready" /\ GoOn(u, "stream")
     \/ Head(status) = "done" /\ at[u] = "done" /\ Leave(u)
     \/ Head(status) = "error" /\ Leave(u)
     \/ Head(status) # at[u] /\ Head(status) # "error" /\ UNCHANGED caller
  /\ UNCHANGED <<latest, otaReqs, host, link, air, running, wasConnected, dial>>

\* With a bug: only the wait for "ready" has a deadline.
TimedOutReady(u) ==
  /\ at[u] = "ready" /\ Leave(u)
  /\ UNCHANGED <<latest, status, otaReqs, host, link, air, running, wasConnected, dial>>

TimedOut(u) ==
  /\ at[u] \in {"ready", "done"} /\ Leave(u)
  /\ UNCHANGED <<latest, status, otaReqs, host, link, air, running, wasConnected, dial>>

Step(u) ==
  \/ Gate(u) \/ Download(u) \/ Drain(u) \/ WriteBegin(u) \/ WriteData(u)
  \/ Poll(u) \/ WriteEnd(u) \/ Heard(u) \/ TimedOut(u)
-----------------------------------------------------------------------------
(* The checker, and the link as the bridge sees it *)

\* A refresh that fails leaves the manifest as it is; one may be empty.
Refresh ==
  /\ latest' \in Version
  /\ UNCHANGED <<caller, status, otaReqs, host, link, air, running, wasConnected, dial>>

Connect ==
  /\ ~link /\ ~capable /\ link' = TRUE /\ capable' = TRUE
  /\ UNCHANGED <<latest, caller, status, otaReqs, firmware, air, running, wasConnected, dial>>

Hello ==
  /\ link /\ capable /\ firmware' = running
  /\ UNCHANGED <<latest, caller, status, otaReqs, capable, link, air, running, wasConnected, dial>>

Disconnected ==
  /\ capable /\ ~link /\ capable' = FALSE /\ firmware' = NoVersion
  /\ UNCHANGED <<latest, caller, status, otaReqs, link, air, running, wasConnected, dial>>

\* A notification the channel has no room for is dropped.
OnOtaStatus ==
  /\ air # << >> /\ air' = Tail(air)
  /\ status' = IF Len(status) < MaxStatus THEN Append(status, Head(air)) ELSE status
  /\ UNCHANGED <<latest, caller, otaReqs, host, link, running, wasConnected, dial>>

Confirm ==
  /\ link /\ capable /\ otaReqs' = TRUE
  /\ UNCHANGED <<latest, caller, status, host, link, air, running, wasConnected, dial>>
-----------------------------------------------------------------------------
(* The link itself, and the dial *)

Drop ==
  /\ link /\ link' = FALSE /\ air' = << >>
  /\ UNCHANGED <<latest, caller, status, otaReqs, host, running, wasConnected, dial>>

Whole(v) == slot = [i \in 1 .. Parts |-> v]

\* With a bug: "done" is notified before the image is verified.
FinishUnverified ==
  /\ otaFinish /\ otaFinish' = FALSE
  /\ otaActive' = FALSE /\ slot' = << >>
  /\ boot' = IF otaActive /\ \E v \in Release : Whole(v) THEN slot[1] ELSE boot
  /\ IF link THEN Notify("done") ELSE UNCHANGED air
  /\ UNCHANGED <<latest, caller, status, otaReqs, host, link, running, wasConnected>>

\* The loop ends an update: only an image that verifies is started next.  Here
\* otaActive is whether the library is at it; the flag itself stays up after a
\* success, until the restart that follows.
Finish ==
  /\ otaFinish /\ otaFinish' = FALSE
  /\ otaActive' = FALSE /\ slot' = << >>
  /\ \/ /\ otaActive /\ \E v \in Release : Whole(v) /\ boot' = v
        /\ IF link THEN Notify("done") ELSE UNCHANGED air
     \/ /\ ~otaActive \/ \A v \in Release : ~Whole(v)
        /\ IF link THEN Notify("error") ELSE UNCHANGED air
        /\ UNCHANGED boot
  /\ UNCHANGED <<latest, caller, status, otaReqs, host, link, running, wasConnected>>

\* The loop's look at the link: one that died takes the update with it.
CheckLink ==
  /\ wasConnected # link /\ wasConnected' = link
  /\ IF link THEN UNCHANGED dial
     ELSE otaActive' = FALSE /\ slot' = << >> /\ UNCHANGED <<boot, otaFinish>>
  /\ UNCHANGED <<latest, caller, status, otaReqs, host, link, air, running>>

\* The dial starts anew, after an update or because it was unplugged.
Reboot ==
  /\ running' = boot /\ link' = FALSE /\ air' = << >> /\ wasConnected' = FALSE
  /\ otaActive' = FALSE /\ otaFinish' = FALSE /\ slot' = << >>
  /\ UNCHANGED <<latest, caller, status, otaReqs, host, boot>>

Next ==
  \/ Call \/ \E u \in Caller : Step(u)
  \/ Refresh \/ Connect \/ Hello \/ Disconnected \/ OnOtaStatus \/ Confirm
  \/ Drop \/ Finish \/ CheckLink \/ Reboot

Spec == Init /\ [][Next]_vars

FairSpec == Spec /\ \A u \in Caller : WF_vars(Step(u))
-----------------------------------------------------------------------------
\* Type invariant.
TypeOK ==
  /\ latest \in Version /\ otaBusy \in BOOLEAN /\ otaReqs \in BOOLEAN
  /\ at \in [Caller -> {"idle", "gate", "download", "flash", "begin", "ready",
                        "stream", "poll", "end", "done"}]
  /\ gated \in [Caller -> Version] /\ image \in [Caller -> Version]
  /\ sent \in [Caller -> 0 .. Parts] /\ plain \in BOOLEAN
  /\ status \in Seq({"ready", "done", "error"}) /\ Len(status) <= MaxStatus
  /\ air \in Seq({"ready", "done", "error"}) /\ Len(air) <= MaxStatus
  /\ capable \in BOOLEAN /\ link \in BOOLEAN /\ wasConnected \in BOOLEAN
  /\ firmware \in Version \cup {Factory}
  /\ running \in Release \cup {Factory} /\ boot \in Release \cup {Factory}
  /\ otaActive \in BOOLEAN /\ otaFinish \in BOOLEAN
  /\ slot \in Seq(Release) /\ Len(slot) <= Parts

\* "Guards against concurrent firmware flashes": at most one caller is past the
\* compare-and-swap, and the guard is down again as soon as it has left.
OneUpdateAtATime ==
  /\ \A u, w \in Caller : at[u] # "idle" /\ at[w] # "idle" => u = w
  /\ otaBusy <=> \E u \in Caller : at[u] # "idle"

\* "Returns once it reports done": an update that ends well has been installed,
\* whatever earlier attempts and links have left in the channel: the version it
\* reports is the one the dial will start - unless the manifest changed between its
\* checks and its download, or a notification of before was still on its way when
\* it drained.
EndsWell(u) == /\ at[u] = "done" /\ at'[u] = "idle"
               /\ status # << >> /\ status' = Tail(status) /\ Head(status) = "done"

SuccessIsInstalled ==
  [][\A u \in Caller : EndsWell(u) /\ plain => boot = gated[u]]_vars

\* "The bridge must never flash firmware newer than itself, not even with
\* --force": while nothing that is downloaded, sent or written is newer than the
\* bridge, the dial starts nothing newer, and only a download of another version
\* than the one the checks were made for brings such a thing in.
Flashable ==
  /\ \A u \in Caller : CanFlash(BridgeVersion, image[u])
  /\ \A i \in DOMAIN slot : CanFlash(BridgeVersion, slot[i])

Rereads(u) == Download(u) /\ latest # gated[u]

NeverNewerThanBridge ==
  [][Flashable => /\ boot' # boot => CanFlash(BridgeVersion, boot')
                  /\ Flashable' \/ \E u \in Caller : Rereads(u)]_vars

\* Every update comes to an end: the next one is not refused for ever.
UpdatesEnd == \A u \in Caller : at[u] # "idle" ~> at[u] = "idle"
=============================================================================
