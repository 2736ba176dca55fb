---------------------------- MODULE HookSettings ----------------------------
(***************************************************************************)
(* "claude-dial hooks install" and "uninstall": a run reads Claude Code's  *)
(* settings.json, computes the new content, copies the file to .bak as it  *)
(* then finds it, and writes the file in place.  The user, or Claude Code  *)
(* itself, edits the file at any time; a run may be killed, or find the    *)
(* disk full, at any of its steps.                                         *)
(*                                                                         *)
(* An event's groups are counted, not listed: Claude Code runs all groups  *)
(* of an event, in no order.  An event without groups counts none, whether *)
(* its key is there or not.                                                *)
(***************************************************************************)
EXTENDS Naturals

CONSTANTS Event,      \* the hook events of the instance, managed or not
          Group,      \* matcher groups: sets of hooks
          LocalRef,   \* hooks that name a /hook endpoint of this machine
          UserGroup,  \* groups the user adds and removes
          MaxCopies,  \* how often a group is in an event, after an edit
          EditsMidRun \* whether edits fall into the middle of a run

Content == [Event -> [Group -> Nat]]
Nothing == [ev \in Event |-> [g \in Group |-> 0]]

\* A file that is not there, is of length 0, or is cut in the middle has no groups.
File      == [is : {"missing", "empty", "torn", "whole"}, groups : Content]
Whole(c)  == [is |-> "whole", groups |-> c]
NoFile    == [is |-> "missing", groups |-> Nothing]
Damaged   == [is : {"empty", "torn"}, groups : {Nothing}]
Job == {"approve", "monitor", "uninstall"}

\* managedEvents: PreToolUse gates in one mode and only notifies in the other.
\* A hook of ours is named for the mode of its entry.
ManagedEvents ==
  {[event |-> "PreToolUse", mode |-> "approve"], [event |-> "PreToolUse", mode |-> "monitor"]}
  \cup [event : {"PermissionRequest", "SessionStart", "UserPromptSubmit", "PostToolUse",
                 "MessageDisplay", "Stop", "Notification", "SessionEnd"}, mode : {"both"}]

HookGroup(e) == {e.mode}
Managed(ev) == \E e \in ManagedEvents : e.event = ev

ASSUME HookAssumption ==
  /\ UserGroup \subseteq Group /\ MaxCopies \in Nat /\ EditsMidRun \in BOOLEAN
  /\ \A e \in ManagedEvents : HookGroup(e) \in Group /\ HookGroup(e) \subseteq LocalRef

Selected(job) == {e \in ManagedEvents : e.event \in Event /\ e.mode \in {job, "both"}}

VARIABLES file,  \* settings.json
          bak,   \* settings.json.bak
          phase, \* of the run: "idle", "loaded", "backed"
          job,   \* what it was started for
          out,   \* what it will write
          mine,  \* history: the groups the user last had there
          astray \* history: whether the user's version is past saving, see below

vars == <<file, bak, phase, job, out, mine, astray>>
-----------------------------------------------------------------------------
IsOursGroup(g) == g \cap LocalRef # {}

StripOurs(groups) == [g \in Group |-> IF IsOursGroup(g) THEN 0 ELSE groups[g]]

Uninstalled(c) == [ev \in Event |-> IF Managed(ev) THEN StripOurs(c[ev]) ELSE c[ev]]

\* What a run adds to an event.
Ours(j, ev) == {HookGroup(e) : e \in {d \in Selected(j) : d.event = ev}}

\* With a bug: our groups are appended to those of the mode before.
InstalledOver(c, j) ==
  [ev \in Event |-> [g \in Group |-> IF g \in Ours(j, ev) THEN c[ev][g] + 1 ELSE c[ev][g]]]

Installed(c, j) ==
  LET d == Uninstalled(c)
  IN  [ev \in Event |-> [g \in Group |-> IF g \in Ours(j, ev) THEN d[ev][g] + 1 ELSE d[ev][g]]]

Result(c, j) == IF j = "uninstall" THEN Uninstalled(c) ELSE Installed(c, j)

\* The user's part of a file: all of it but what a run may take.
Users(f) == Uninstalled(f.groups)

Init ==
  /\ file = NoFile /\ bak = NoFile
  /\ phase = "idle" /\ job = "uninstall" /\ out = Nothing
  /\ mine = Nothing /\ astray = FALSE
-----------------------------------------------------------------------------
\* load: no file and an empty one are no settings; a torn one ends the run.
Start(j) ==
  /\ phase = "idle" /\ file.is # "torn"
  /\ phase' = "loaded" /\ job' = j /\ out' = Result(file.groups, j)
  /\ UNCHANGED <<file, bak, mine, astray>>

\* The process of the run is gone.
Exit == phase' = "idle" /\ job' = "uninstall" /\ out' = Nothing

HasText == file.is \notin {"missing", "empty"}

\* With a bug: an empty file replaces the backup, too.
BackupAnything ==
  /\ phase = "loaded" /\ phase' = "backed"
  /\ bak' = IF file.is # "missing" THEN file ELSE bak
  /\ astray' = (astray \/ (HasText /\ Users(file) # mine))
  /\ UNCHANGED <<file, job, out, mine>>

Backup ==
  /\ phase = "loaded" /\ phase' = "backed"
  /\ bak' = IF HasText THEN file ELSE bak
  /\ astray' = (astray \/ (HasText /\ Users(file) # mine))
  /\ UNCHANGED <<file, job, out, mine>>

\* The backup is cut off: the run ends before it touches the file.
BackupCut ==
  /\ phase = "loaded" /\ HasText /\ Exit
  /\ bak' \in Damaged
  /\ astray' = (astray \/ Users(file) # mine)
  /\ UNCHANGED <<file, mine>>

Write ==
  /\ phase = "backed" /\ file' = Whole(out) /\ Exit
  /\ UNCHANGED <<bak, mine, astray>>

\* The file is truncated before it is written.
WriteCut ==
  /\ phase = "backed" /\ file' \in Damaged /\ Exit
  /\ UNCHANGED <<bak, mine, astray>>

Killed ==
  /\ phase # "idle" /\ Exit
  /\ UNCHANGED <<file, bak, mine, astray>>

\* The user adds or removes a group, or pastes what "hooks print" shows.
Edit(ev, g) ==
  /\ file.is \in {"missing", "whole"} /\ (phase = "idle" \/ EditsMidRun)
  /\ \E n \in 0..MaxCopies : /\ n # file.groups[ev][g]
                             /\ file' = Whole([file.groups EXCEPT ![ev][g] = n])
  /\ mine' = Users(file') /\ astray' = (phase = "backed")
  /\ UNCHANGED <<bak, phase, job, out>>

\* After a failure the user takes the backup for the file, or starts afresh.
Recover ==
  /\ phase = "idle" /\ file \in Damaged
  /\ file' = IF bak.is = "whole" THEN bak ELSE NoFile
  /\ mine' = Users(file') /\ astray' = FALSE
  /\ UNCHANGED <<bak, phase, job, out>>

Next ==
  \/ \E j \in Job : Start(j)
  \/ Backup \/ BackupCut \/ Write \/ WriteCut \/ Killed
  \/ \E ev \in Event, g \in UserGroup : Edit(ev, g)
  \/ Recover

Spec == Init /\ [][Next]_vars
-----------------------------------------------------------------------------
\* Type invariant.
TypeOK ==
  /\ file \in File /\ bak \in File
  /\ phase \in {"idle", "loaded", "backed"} /\ job \in Job
  /\ out \in Content /\ mine \in Content /\ astray \in BOOLEAN

Survives == mine \in {Users(file), Users(bak)}

\* "A backup (.bak) is written first": whatever step a run ends at, the groups
\* the user last had are in the file or in the backup.  Two things are beyond a
\* run that reads, copies and writes, and so astray: an edit that comes between
\* the copy and the write, and a version that is in the backup only when the
\* next run copies a file without it.
UsersHooksSurvive == astray \/ Survives

\* "Deliberately non-destructive": the same without exception.
NonDestructive == Survives

\* "Re-running (or switching modes) replaces only our own groups", and uninstall
\* undoes install: only the last run counts, whatever was installed or pasted.
LastRunCounts ==
  \A i \in Job, j \in Job : Result(Result(file.groups, i), j) = Result(file.groups, j)

\* A run leaves one group of ours in each event of its mode and none elsewhere,
\* so that monitor-only never gates.
OneGroupOfOurs ==
  [][Write => \A ev \in Event, g \in Group : Managed(ev) /\ IsOursGroup(g) =>
       file'.groups[ev][g] = IF job # "uninstall" /\ g \in Ours(job, ev) THEN 1 ELSE 0]_vars

\* "Uninstall removes only ours": a hook that is not a reference to our endpoint
\* is still there after a run that loaded it.
HasHook(c, ev, h) == \E g \in Group : h \in g /\ c[ev][g] > 0
TakesOnlyOurs ==
  [][\A j \in Job : Start(j) => \A ev \in Event, h \in (UNION Group) \ LocalRef :
       HasHook(file.groups, ev, h) => HasHook(out', ev, h)]_vars
=============================================================================
