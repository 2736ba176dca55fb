---------------------------- MODULE CommandText -----------------------------
(***************************************************************************)
(* The text of a command on its way from a hook to a grant and to the      *)
(* dial: cut when it is extracted, cut again for the wire, written as      *)
(* JSON, and received into a buffer of fixed size.  A text is the sequence *)
(* of its bytes; its words are apart by single blanks.                     *)
(*                                                                         *)
(* One session asks, one call at a time (Bridge has the races); every call *)
(* is of the tool Bash, whose grants cover more than they say.             *)
(***************************************************************************)
EXTENDS Naturals, Sequences, FiniteSets, SequencesExt

CONSTANTS Text,       \* commands of the tool calls
          CommandMax, \* where extractCommand cuts
          WireMax,    \* bleCommandMax
          Envelope,   \* bytes of a message beside its command
          RxMax,      \* size of the firmware's receive buffer
          MaxGrants   \* bound on the grants of the session

\* What is assumed of the constants.
TextAssumption ==
  /\ Text \subseteq Seq(STRING) \ {<< >>}
  /\ CommandMax \in Nat \ {0} /\ WireMax \in 1 .. CommandMax
  /\ Envelope \in Nat /\ RxMax \in Nat /\ MaxGrants \in Nat

VARIABLES granted, \* history: the calls that were answered "always allow"
          rules,   \* what is remembered of them
          asked,   \* the call the session is at, or the empty text
          how      \* how it is met: "granted", "shown" on the dial, or "lost"

vars == <<granted, rules, asked, how>>

Init == granted = {} /\ rules = {} /\ asked = << >> /\ how = "none"

\* The last of the three bytes of an ellipsis stands for each of them.
Ellipsis == <<"...", "...", "...">>

\* With a bug: the cut leaves no mark.
TruncateUnmarked(s, n) == IF Len(s) <= n THEN s ELSE SubSeq(s, 1, n - 1)

Truncate(s, n) == IF Len(s) <= n THEN s ELSE SubSeq(s, 1, n - 1) \o Ellipsis

\* extractCommand: what the bridge knows of a call, grants included.
ExtractCommand(t) == Truncate(t, CommandMax)

\* flush: what the dial is sent.
OnWire(t) == Truncate(ExtractCommand(t), WireMax)

\* json.Marshal writes < > & in six bytes, and a quote in two.
Size(s) == Envelope + Len(s) + 5 * Cardinality({i \in DOMAIN s : s[i] \in {"<", ">", "&"}})
                             + Cardinality({i \in DOMAIN s : s[i] = "quote"})

\* The words of p begin those of s (tokenPrefix).
TokenPrefix(p, s) == p = s \/ IsPrefix(Append(p, " "), s)

Allowed(t) == \E p \in rules : TokenPrefix(p, ExtractCommand(t))

\* RxCallback drops what does not fit; the bridge takes it for delivered.
Ask(t) ==
  /\ asked = << >> /\ asked' = t
  /\ \/ Allowed(t) /\ how' = "granted"
     \/ ~Allowed(t) /\ Size(OnWire(t)) < RxMax /\ how' = "shown"
     \/ ~Allowed(t) /\ Size(OnWire(t)) >= RxMax /\ how' = "lost"
  /\ UNCHANGED <<granted, rules>>

AlwaysAllow ==
  /\ how = "shown" /\ Cardinality(granted) < MaxGrants
  /\ granted' = granted \cup {asked} /\ rules' = rules \cup {ExtractCommand(asked)}
  /\ asked' = << >> /\ how' = "none"

\* Answered for once, timed out, or passed.
Done ==
  /\ asked # << >> /\ asked' = << >> /\ how' = "none"
  /\ UNCHANGED <<granted, rules>>

Next == (\E t \in Text : Ask(t)) \/ AlwaysAllow \/ Done

Spec == Init /\ [][Next]_vars
-----------------------------------------------------------------------------
\* Type invariant; what is remembered is bounded.
TypeOK ==
  /\ granted \subseteq Text /\ Cardinality(granted) <= MaxGrants
  /\ \A r \in rules : Len(r) <= CommandMax + 2
  /\ asked \in Text \cup {<< >>} /\ how \in {"none", "granted", "shown", "lost"}

MeantBy(t) == \E g \in granted : TokenPrefix(g, t)

\* A call that is short enough to be kept whole passes only if a call that was
\* always allowed begins it: a long grant, kept cut, covers none of them.
ShortCallsAreMeant ==
  [][how' = "granted" /\ Len(asked') <= CommandMax => MeantBy(asked')]_vars

\* "Remember this exact call": whatever passes begins with a call that was always
\* allowed.
GrantsAreExact == [][how' = "granted" => MeantBy(asked')]_vars

\* "A harder ceiling for the wire", so that a message "arrives in one write": no
\* prompt is dropped for its length.
PromptsFit == how # "lost"
=============================================================================
