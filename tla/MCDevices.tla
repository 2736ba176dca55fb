----------------------------- MODULE MCDevices ------------------------------
(***************************************************************************)
(* What the daemon makes of its devices, and of what they are to show, in  *)
(* four views that share no variable: the frames of the simulator and the  *)
(* answers of two devices (Fanout), the rows of the roster (RosterView),   *)
(* the text of a command (CommandText).  A behaviour shows one of them,    *)
(* and the others stay as they start.                                      *)
(***************************************************************************)
EXTENDS Fanout, TLC

CONSTANTS Sid, State, Free, MaxSlots, s3,
          CommandMax, WireMax, Envelope, RxMax, MaxGrants

VARIABLES view,
          order, state, sent, slots,  \* of RosterView
          granted, rules, asked, how  \* of CommandText

\* Two of three sessions are in one project, and their ids begin alike.
ProjectOf == [s \in Sid |-> IF s = s3 THEN "web" ELSE "api"]
PrefixOf  == [s \in Sid |-> IF s = s3 THEN "f00" ELSE "a1b"]

\* Commands about the lengths where they are cut: of one long word, or with a
\* blank before the last of its bytes, or with a redirection at every second byte.
Word(n)     == [i \in 1 .. n |-> "a"]
Blank(n)    == [i \in 1 .. n |-> IF i = n - 1 THEN " " ELSE "a"]
Other(n)    == [i \in 1 .. n |-> IF i = n THEN "b" ELSE "a"]
Redirect(n) == [i \in 1 .. n |-> IF i % 2 = 0 THEN ">" ELSE "a"]
Lengths == {1, 138, 139, 140, 141, 178, 179, 180, 181, 200}
Text    == {Word(n) : n \in Lengths} \cup {Blank(n) : n \in Lengths \ {1}}
           \cup {Other(n) : n \in {140, 180, 200}} \cup {Redirect(n) : n \in {20, 140}}

Rows  == INSTANCE RosterView
Texts == INSTANCE CommandText

ASSUME RowsAssumption == Rows!RosterViewAssumption
ASSUME TextsAssumption == Texts!TextAssumption

rows    == <<order, state, sent, slots>>
texts   == <<granted, rules, asked, how>>
allVars == <<view, vars, rows, texts>>

DevicesInit ==
  /\ view \in {"frames", "answers", "rows", "texts"}
  /\ Init /\ Rows!Init /\ Texts!Init

DevicesNext ==
  /\ UNCHANGED view
  /\ \/ view = "frames" /\ FrameNext /\ UNCHANGED <<rows, texts>>
     \/ view = "answers" /\ (AnswerNext \/ Tick) /\ UNCHANGED <<rows, texts>>
     \/ view = "rows" /\ Rows!Next /\ UNCHANGED <<vars, texts>>
     \/ view = "texts" /\ Texts!Next /\ UNCHANGED <<vars, rows>>

\* The fairness of Fanout, in the behaviours that show the frames.
FrameStep(A) == view = "frames" /\ A

DevicesSpec ==
  /\ DevicesInit /\ [][DevicesNext]_allVars
  /\ WF_vars(FrameStep(Tick))
  /\ \A b \in Caster : WF_vars(FrameStep(HandOver(b)))
  /\ \A c \in Client : WF_vars(FrameStep(Greet(c))) /\ WF_vars(FrameStep(Push(c)))
-----------------------------------------------------------------------------
\* Type invariant of all.
TypesOK == TypeOK /\ Rows!TypeOK /\ Texts!TypeOK

\* Two rows of the roster change places only when one of their sessions changes
\* its tier, on the simulator and on the Dial (see RosterView).
RowsStayPut == Rows!RowsStayPut

\* Calls that are kept whole pass only if a call that was always allowed begins
\* them, whatever long grants are kept cut (see CommandText).
ShortCallsAreMeant == Texts!ShortCallsAreMeant
=============================================================================
