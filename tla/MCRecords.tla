----------------------------- MODULE MCRecords ------------------------------
(***************************************************************************)
(* The two records the bridge keeps of what it has handed over, in two     *)
(* views that share no variable: the grants in memory and on disk (Rules), *)
(* and what the dial was sent (BleLink).  A behaviour shows one of them,   *)
(* and the other stays as it starts.                                       *)
(*                                                                         *)
(* Grants: two sessions, and calls that tell the matching rules apart: the *)
(* empty command, a command of one word, and that command for a tool that  *)
(* is not Bash.                                                            *)
(***************************************************************************)
EXTENDS Rules, MCBleLink

CONSTANT npm

VARIABLE view

ThreeCalls == {[tool |-> "Bash", words |-> << >>], [tool |-> "Bash", words |-> <<npm>>],
               [tool |-> "Read", words |-> <<npm>>]}

SidSymmetry == Permutations(Sid)

RecordsInit == view \in {"grants", "link"} /\ Init /\ LinkInit

RecordsNext ==
  \/ view = "grants" /\ Next /\ UNCHANGED <<view, linkVars>>
  \/ view = "link" /\ LinkNext /\ UNCHANGED <<view, vars>>

RecordsSpec == RecordsInit /\ [][RecordsNext]_<<view, vars, linkVars>>
=============================================================================
