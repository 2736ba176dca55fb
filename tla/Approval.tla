------------------------------ MODULE Approval ------------------------------
(***************************************************************************)
(* What the bridge promises about approvals, without router, goroutines or *)
(* device: every tool call that asks is settled once, by a standing grant, *)
(* by an answer the user gave for its session, or by falling back to the   *)
(* terminal; an answer settles at most one call; and a grant comes only    *)
(* from an "always allow" that settled the very call it remembers.         *)
(***************************************************************************)
EXTENDS Grants

CONSTANTS Req,      \* requests: slots for calls that ask for permission
          Nobody    \* job of a slot that is not in use

VARIABLES job,      \* the session and call of a request
          settled,  \* what settled it, "open" while nothing has
          reply,    \* the verdict returned to Claude Code
          answers,  \* how many answers of each kind are given and not used
          unheard,  \* how many of them are still on their way
          grants    \* standing grants

vars == <<job, settled, reply, answers, unheard, grants>>

Job == [sid : Sid, call : Call]
Settlement == Answer \cup {"open", "grant", "fallback", "gone"}

Init ==
  /\ job = [r \in Req |-> Nobody]
  /\ settled = [r \in Req |-> "open"]
  /\ reply = [r \in Req |-> "none"]
  /\ answers = [k \in Sid \X Answer |-> 0]
  /\ unheard = 0
  /\ grants = {}

\* Answers are lost with a link, a full queue, a request that has gone.
SomeLost == \A k \in Sid \X Answer : answers'[k] <= answers[k]

Open(r) == job[r] # Nobody /\ settled[r] = "open"

Ask(r, s, c) ==
  /\ job[r] = Nobody
  /\ job' = [job EXCEPT ![r] = [sid |-> s, call |-> c]]
  /\ settled' = [settled EXCEPT ![r] = IF AllowedBy(grants, s, c) THEN "grant" ELSE "open"]
  /\ UNCHANGED <<reply, answers, grants>>

Say(s, a) ==
  /\ UNCHANGED <<job, settled, reply, grants>>
  /\ answers' = [answers EXCEPT ![<<s, a>>] = @ + 1]
  /\ unheard' = unheard + 1

Lose == UNCHANGED <<job, settled, reply, grants>> /\ SomeLost

Use(r, a) ==
  /\ Open(r)
  /\ settled' = [settled EXCEPT ![r] = a]
  /\ UNCHANGED <<job, reply, grants>>
  /\ answers[<<job[r].sid, a>>] > 0
  /\ answers' = [answers EXCEPT ![<<job[r].sid, a>>] = @ - 1]

FallBack(r) ==
  /\ Open(r)
  /\ \E how \in {"fallback", "gone"} : settled' = [settled EXCEPT ![r] = how]
  /\ UNCHANGED <<job, reply, grants>>
  /\ SomeLost

Remember(r) ==
  /\ job[r] # Nobody /\ settled[r] = "always_allow"
  /\ grants' = grants \cup {[session |-> job[r].sid, call |-> job[r].call]}
  /\ UNCHANGED <<job, settled, reply, answers>>

Reply(r) ==
  /\ job[r] # Nobody /\ reply[r] = "none"
  /\ \/ settled[r] = "grant" /\ reply' = [reply EXCEPT ![r] = "allow"]
     \/ settled[r] \in Answer /\ reply' = [reply EXCEPT ![r] = VerdictOf(settled[r])]
     \/ settled[r] = "fallback" /\ reply' = [reply EXCEPT ![r] = "ask"]
  /\ UNCHANGED <<job, settled, answers, grants>>

Leave(r) ==
  /\ reply[r] # "none" \/ settled[r] = "gone"
  /\ job' = [job EXCEPT ![r] = Nobody]
  /\ settled' = [settled EXCEPT ![r] = "open"]
  /\ reply' = [reply EXCEPT ![r] = "none"]
  /\ UNCHANGED grants
  /\ SomeLost

Forget(s) ==
  /\ grants' = grants \ GrantsOf(grants, s)
  /\ UNCHANGED <<job, settled, reply, answers>>

\* The bridge is restarted: every open connection is gone, with its answers.
Restart ==
  /\ job' = [r \in Req |-> Nobody]
  /\ settled' = [r \in Req |-> "open"]
  /\ reply' = [r \in Req |-> "none"]
  /\ UNCHANGED grants
  /\ SomeLost

\* What the bridge does by itself: it makes up no answer.
Work ==
  \/ \E r \in Req, s \in Sid, c \in Call : Ask(r, s, c)
  \/ \E r \in Req, a \in Answer : Use(r, a)
  \/ \E r \in Req : FallBack(r) \/ Remember(r) \/ Reply(r) \/ Leave(r)
  \/ \E s \in Sid : Forget(s)
  \/ Lose \/ Restart

Next == \/ \E s \in Sid, a \in Answer : Say(s, a)
        \/ Work /\ unheard' <= unheard

Spec == Init /\ [][Next]_vars
=============================================================================
