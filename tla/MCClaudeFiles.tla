--------------------------- MODULE MCClaudeFiles ----------------------------
(***************************************************************************)
(* The files of Claude Code that claude-dial works on, in two views that   *)
(* share no variable: the settings its hooks are installed in              *)
(* (HookSettings), and the transcripts the gauge is read from (Usage).  A  *)
(* behaviour shows one of them, and the other stays as it starts.          *)
(*                                                                         *)
(* Two events: PreToolUse, whose group depends on the mode, and Stop, which *)
(* stands for those installed in both; PreCompact is not managed.          *)
(***************************************************************************)
EXTENDS HookSettings, TLC

CONSTANTS Transcript, Token, Window, History, Interval, Budget, Floor, MaxLines

VARIABLES view,
          lines, part, mtime, wait, scan, latest  \* of Usage

Refs         == {"approve", "monitor", "both", "legacy"}
OurGroups    == {{"approve"}, {"monitor"}, {"both"}}
Lint         == {"lint"}
OwnGroups    == OurGroups \cup {Lint, {"legacy"}}
Edited       == {Lint, {"legacy"}}

\* For another instance: the user has a hook in the group of ours.
SharedGroups == OurGroups \cup {{"lint", "both"}}
Shared       == {{"lint", "both"}}

Gauge == INSTANCE Usage WITH File <- Transcript

ASSUME GaugeAssumption == Gauge!UsageAssumption

gauge   == <<lines, part, mtime, wait, scan, latest>>
allVars == <<view, vars, gauge>>

FilesInit == view \in {"settings", "transcripts"} /\ Init /\ Gauge!Init

FilesNext ==
  \/ view = "settings" /\ Next /\ UNCHANGED <<view, gauge>>
  \/ view = "transcripts" /\ Gauge!Next /\ UNCHANGED <<view, vars>>

FilesSpec == FilesInit /\ [][FilesNext]_allVars

TranscriptSymmetry == Permutations(Transcript)
-----------------------------------------------------------------------------
\* Type invariant of both.
TypesOK == TypeOK /\ Gauge!TypeOK

\* What was there when a scan began is in the gauge it ends with, counted once
\* (see Usage).
GaugeCounts == Gauge!GaugeCounts

\* The budget is the heaviest five hours there were (see Usage).
PeakIsHeaviest == Gauge!PeakIsHeaviest
=============================================================================
