---------------------------- MODULE UpdateOffer -----------------------------
(***************************************************************************)
(* How the dial comes to offer an update: the sweep's advertiseUpdate and  *)
(* SetUpdateAvailable on one end, otaAvailVersion on the other, and        *)
(* between them a link and a record of what has been offered.              *)
(*                                                                         *)
(* Only the version the dial holds is kept: Dial has the screens it opens, *)
(* and the user may confirm whatever is held, from the prompt or from the  *)
(* settings.  Of the update itself there are the checks, the download, and *)
(* the transfer in one step (Ota has it write by write).                   *)
(***************************************************************************)
EXTENDS Versions

CONSTANTS Release,        \* versions that are published
          BridgeVersion,
          Factory,        \* the version a dial starts with
          Lossy,          \* whether a write may fail or be dropped by a full queue
          Drops           \* whether the link drops and the bridge is restarted

ASSUME OfferAssumption ==
  /\ Release \subseteq Seq(Nat) \ {NoVersion}
  /\ BridgeVersion \in Seq(Nat) /\ Factory \in Seq(Nat) \ {NoVersion}
  /\ Lossy \in BOOLEAN /\ Drops \in BOOLEAN

VARIABLES latest,        \* the manifest's version
          at,            \* where the sweep is in advertiseUpdate
          want,          \* the version it has worked out
          otaAdvertised, \* the offer the bridge believes to be on the dial
          capable,       \* connected, with all characteristics
          firmware,      \* the version the dial has announced
          otaReqs,       \* a confirmation waits to be consumed
          checked,       \* the update: the version that passed its checks, ...
          image,         \* ... the version whose image it has downloaded, ...
          steady,        \* ... and history: whether manifest and link have been
                         \* as they were when it passed
          link,          \* the BLE link is up
          running,       \* the dial: the version it runs, ...
          rx,            \* ... an offer it has received and not handled
          otaAvail       \* ... and the version it offers

sweep == <<at, want, otaAdvertised>>
host  == <<capable, firmware>>
update == <<checked, image, steady>>
dial  == <<running, rx, otaAvail>>
vars  == <<latest, sweep, host, otaReqs, update, link, dial>>

Version == Release \cup {NoVersion}

Init ==
  /\ latest = NoVersion
  /\ at = "idle" /\ want = NoVersion /\ otaAdvertised = NoVersion
  /\ capable = FALSE /\ firmware = NoVersion /\ otaReqs = FALSE /\ link = FALSE
  /\ checked = NoVersion /\ image = NoVersion /\ steady = FALSE
  /\ running = Factory /\ rx = << >> /\ otaAvail = NoVersion
-----------------------------------------------------------------------------
(* The sweep's advertiseUpdate *)

\* With a bug: what the bridge may flash is not asked.
WantedByAge(announced) == IF Newer(announced, latest) THEN latest ELSE NoVersion

Wanted(announced) ==
  IF Newer(announced, latest) /\ CanFlash(BridgeVersion, latest) THEN latest ELSE NoVersion

WorkOut ==
  /\ at = "idle" /\ at' = "set" /\ want' = Wanted(firmware)
  /\ UNCHANGED <<latest, otaAdvertised, host, otaReqs, update, link, dial>>

\* SetUpdateAvailable: the offer is recorded before it is written.
SetUpdateAvailable ==
  /\ at = "set"
  /\ IF capable /\ want # otaAdvertised
     THEN otaAdvertised' = want /\ at' = "write"
     ELSE at' = "idle" /\ UNCHANGED otaAdvertised
  /\ UNCHANGED <<latest, want, host, otaReqs, update, link, dial>>

\* Its result is ignored.  Without Lossy the dial keeps up with the sweep.
WriteOffer ==
  /\ at = "write" /\ at' = "idle"
  /\ \/ capable /\ link /\ rx = << >> /\ rx' = << want >>
     \/ (Lossy \/ ~capable \/ ~link) /\ UNCHANGED rx
  /\ UNCHANGED <<latest, want, otaAdvertised, host, otaReqs, update, link, running, otaAvail>>

Sweep == WorkOut \/ SetUpdateAvailable \/ WriteOffer

Refresh ==
  /\ latest' \in Version /\ steady' = (steady /\ latest' = latest)
  /\ UNCHANGED <<sweep, host, otaReqs, checked, image, link, dial>>
-----------------------------------------------------------------------------
(* The link as the bridge sees it *)

Connect ==
  /\ ~capable /\ link' = TRUE /\ capable' = TRUE
  /\ UNCHANGED <<latest, sweep, firmware, otaReqs, update, dial>>

Hello ==
  /\ link /\ capable /\ firmware' = running
  /\ UNCHANGED <<latest, sweep, capable, otaReqs, update, link, dial>>

Drop ==
  /\ Drops /\ link /\ link' = FALSE /\ steady' = FALSE
  /\ UNCHANGED <<latest, sweep, host, otaReqs, checked, image, dial>>

\* With a bug: the record of what was offered is kept.
DisconnectedOffering ==
  /\ capable /\ ~link /\ capable' = FALSE /\ firmware' = NoVersion
  /\ UNCHANGED <<latest, sweep, otaReqs, update, link, dial>>

\* With a bug: the version announced on the link before is kept.
DisconnectedAnnounced ==
  /\ capable /\ ~link /\ capable' = FALSE /\ otaAdvertised' = NoVersion
  /\ UNCHANGED <<latest, at, want, firmware, otaReqs, update, link, dial>>

Disconnected ==
  /\ capable /\ ~link /\ capable' = FALSE
  /\ firmware' = NoVersion /\ otaAdvertised' = NoVersion
  /\ UNCHANGED <<latest, at, want, otaReqs, update, link, dial>>

\* The bridge starts anew, with a manifest it has yet to fetch.
BridgeRestarts ==
  /\ Drops /\ link' = FALSE /\ capable' = FALSE /\ firmware' = NoVersion
  /\ latest' = NoVersion /\ otaReqs' = FALSE
  /\ at' = "idle" /\ want' = NoVersion /\ otaAdvertised' = NoVersion
  /\ checked' = NoVersion /\ image' = NoVersion /\ steady' = FALSE
  /\ UNCHANGED dial
-----------------------------------------------------------------------------
(* The dial and its user *)

HandleOffer ==
  /\ rx # << >> /\ rx' = << >> /\ otaAvail' = rx[1]
  /\ UNCHANGED <<latest, sweep, host, otaReqs, update, link, running>>

Confirm ==
  /\ link /\ capable /\ otaAvail # NoVersion /\ otaReqs' = TRUE
  /\ UNCHANGED <<latest, sweep, host, update, link, dial>>

DialStarts(v) ==
  /\ running' = v /\ rx' = << >> /\ otaAvail' = NoVersion
  /\ link' = FALSE /\ steady' = FALSE

Unplugged ==
  /\ Drops /\ DialStarts(running)
  /\ UNCHANGED <<latest, sweep, host, otaReqs, checked, image>>
-----------------------------------------------------------------------------
(* consumeOTARequests: one update at a time.  What the checks have seen may *)
(* have changed when the image comes, and when it is sent.                  *)

Check ==
  /\ otaReqs /\ checked = NoVersion /\ otaReqs' = FALSE
  /\ capable /\ Newer(firmware, latest) /\ CanFlash(BridgeVersion, latest)
  /\ checked' = latest /\ steady' = link
  /\ UNCHANGED <<latest, sweep, host, image, link, dial>>

\* A check fails, or the command line is at it.
Refuse ==
  /\ otaReqs /\ checked = NoVersion /\ otaReqs' = FALSE
  /\ UNCHANGED <<latest, sweep, host, update, link, dial>>

\* The manifest is read again.
DownloadLatest ==
  /\ checked # NoVersion /\ image = NoVersion /\ latest # NoVersion /\ image' = latest
  /\ UNCHANGED <<latest, sweep, host, otaReqs, checked, steady, link, dial>>

Install ==
  /\ image # NoVersion /\ capable /\ link
  /\ DialStarts(image) /\ checked' = NoVersion /\ image' = NoVersion
  /\ UNCHANGED <<latest, sweep, host, otaReqs>>

\* The download or the transfer fails.
Fail ==
  /\ checked # NoVersion
  /\ checked' = NoVersion /\ image' = NoVersion /\ steady' = FALSE
  /\ UNCHANGED <<latest, sweep, host, otaReqs, link, dial>>

Next ==
  \/ Sweep \/ Refresh
  \/ Connect \/ Hello \/ Drop \/ Disconnected \/ BridgeRestarts
  \/ HandleOffer \/ Confirm \/ Unplugged
  \/ Check \/ Refuse \/ DownloadLatest \/ Install \/ Fail

Spec == Init /\ [][Next]_vars

\* The sweep ticks, the dial's loop handles what it is sent, and it answers the
\* clock it gets on every connection with a hello.
FairSpec == Spec /\ WF_vars(Sweep) /\ WF_vars(HandleOffer) /\ WF_vars(Hello)
-----------------------------------------------------------------------------
\* Type invariant.
TypeOK ==
  /\ latest \in Version /\ want \in Version /\ otaAdvertised \in Version
  /\ at \in {"idle", "set", "write"}
  /\ capable \in BOOLEAN /\ otaReqs \in BOOLEAN /\ link \in BOOLEAN
  /\ firmware \in Version \cup {Factory} /\ running \in Release \cup {Factory}
  /\ rx \in Seq(Version) /\ Len(rx) <= 1
  /\ otaAvail \in Version
  /\ checked \in Version /\ image \in Version /\ steady \in BOOLEAN

\* "Don't dangle a tactile prompt the bridge would refuse": the dial never offers
\* a version newer than the bridge, whatever drops, restarts or is published
\* while an offer is on its way.
OffersAreFlashable == CanFlash(BridgeVersion, otaAvail)

\* runFirmwareUpdate's checks are of what is installed: if neither the manifest nor
\* the link changes between them and the transfer, what the dial is flashed with is
\* newer than what it runs, also when a confirmation is repeated or outlives its
\* link, and no newer than the bridge.
InstallsWhatWasChecked ==
  [][Install /\ steady => Newer(running, image) /\ CanFlash(BridgeVersion, image)]_vars

Settled(v) == capable /\ link /\ firmware = running /\ Wanted(running) = v

\* advertiseUpdate "keeps the Dial's tactile "update available" prompt in sync":
\* a newer firmware that the bridge may flash comes to be offered, once the link
\* stays up and the manifest stays as it is.
OffersReachTheDial ==
  \A v \in Release : <>[]Settled(v) => <>[](otaAvail = v)

\* "Don't dangle a tactile prompt the bridge would refuse": an offer that no
\* longer stands is taken off the dial, once the link stays up.
OffersAreWithdrawn == <>[]Settled(NoVersion) => <>[](otaAvail = NoVersion)
=============================================================================
