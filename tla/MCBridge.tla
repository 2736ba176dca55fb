------------------------------ MODULE MCBridge ------------------------------
(***************************************************************************)
(* Small instances of Bridge.  Two requests are what a race in the router  *)
(* takes: one that waits and one that registers, settles or cancels beside *)
(* it.  They share one session.                                            *)
(***************************************************************************)
EXTENDS Bridge, TLC

CONSTANTS npm, test

Bash(words) == [tool |-> "Bash", words |-> words]

OneCall  == {Bash(<<npm>>)}
TwoCalls == {Bash(<<npm>>), Bash(<<npm, test>>)}

ReqSymmetry == Permutations(Req)
=============================================================================
