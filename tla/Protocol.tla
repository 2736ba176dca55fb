------------------------------ MODULE Protocol ------------------------------
(***************************************************************************)
(* The vocabulary the bridge and the dial share (bridge/internal/protocol):*)
(* session states, the answers a dial may give, and what the bridge makes  *)
(* of an answer.                                                           *)
(***************************************************************************)

CONSTANTS Sid,    \* session ids
          Call    \* what a tool is called with: [tool, words] records

State == {"working", "idle", "blocked", "permission_request"}

\* The two states in which the session waits for its user.
Waiting == {"blocked", "permission_request"}

Answer == {"allow_once", "always_allow", "reject", "ask"}

Verdict == {"allow", "deny", "ask"}

\* mapDecision: the permission returned to Claude Code for a dial answer ...
VerdictOf(answer) ==
  CASE answer \in {"allow_once", "always_allow"} -> "allow"
    [] answer = "reject"                         -> "deny"
    [] OTHER                                     -> "ask"

\* ... and the state the session is shown in afterwards.
StateAfter(answer) == IF answer = "reject" THEN "idle" ELSE "working"

=============================================================================
