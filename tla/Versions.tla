------------------------------ MODULE Versions ------------------------------
(***************************************************************************)
(* How the bridge compares versions (firmware.Newer) and what it may flash *)
(* (bridgeCanFlash).  A version is the sequence of its dotted fields as    *)
(* numbers: a prefix "v" is stripped, a field that is no number counts 0.  *)
(***************************************************************************)
EXTENDS Naturals, Sequences

\* The empty string: not announced, not fetched.
NoVersion == << >>

\* A field that is missing counts 0.
Field(v, i) == IF i \in DOMAIN v THEN v[i] ELSE 0

\* compare: the leftmost field that differs decides.
Greater(a, b) ==
  \E i \in DOMAIN a :
    /\ Field(a, i) > Field(b, i)
    /\ \A j \in 1 .. (i - 1) : Field(a, j) = Field(b, j)

Newer(running, available) ==
  running # NoVersion /\ available # NoVersion /\ Greater(available, running)

\* A bridge that does not know its version flashes anything.
CanFlash(bridge, version) ==
  bridge = NoVersion \/ version = NoVersion \/ ~Newer(bridge, version)
=============================================================================
