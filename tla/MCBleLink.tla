------------------------------ MODULE MCBleLink ------------------------------
(***************************************************************************)
(* Two sessions, one that asks for something short and one that asks for   *)
(* something the dial's buffer has no room for; or one that works and asks. *)
(***************************************************************************)
EXTENDS BleLink, TLC

CONSTANTS s1, s2

Working(c) == [state |-> "working", command |-> c]
Asking(c)  == [state |-> "permission_request", command |-> c]
Views == {Working("short"), Asking("short"), Asking("long")}
Long  == {Asking("long")}

ViewsOfTwo == s1 :> {Asking("short")} @@ s2 :> {Asking("long")}
ViewsOfOne == s1 :> {Working("short"), Asking("short")}
=============================================================================
