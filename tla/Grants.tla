------------------------------- MODULE Grants -------------------------------
(***************************************************************************)
(* What an "always allow" covers (bridge/internal/rules).  A command is    *)
(* the sequence of its words (strings.Fields); a call is a tool with its   *)
(* command.                                                                *)
(***************************************************************************)
EXTENDS Protocol, Naturals, Sequences

Grant == [session : Sid, call : Call]

\* With a bug: the empty prefix matches every command.
AnyPrefix(prefix, cand) ==
  Len(prefix) <= Len(cand) /\ \A i \in 1 .. Len(prefix) : cand[i] = prefix[i]

\* An empty prefix never matches: it would allow everything.
TokenPrefix(prefix, cand) ==
  /\ Len(prefix) > 0 /\ Len(prefix) <= Len(cand)
  /\ \A i \in 1 .. Len(prefix) : cand[i] = prefix[i]

\* Bash grants match by whole words of the command, every other exactly.
Covers(g, s, c) ==
  /\ g.session = s
  /\ g.call.tool = c.tool
  /\ IF c.tool = "Bash" THEN TokenPrefix(g.call.words, c.words)
                        ELSE g.call = c

AllowedBy(grants, s, c) == \E g \in grants : Covers(g, s, c)

GrantsOf(grants, s) == {g \in grants : g.session = s}
=============================================================================
