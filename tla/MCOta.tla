-------------------------------- MODULE MCOta --------------------------------
(***************************************************************************)
(* A dial with factory firmware and a bridge of the version 0.5: a release *)
(* that is longer than the bridge's version and equal to it, which may be  *)
(* flashed, and one that may not.  An image has two parts, so that one can *)
(* be cut short or mixed.                                                  *)
(***************************************************************************)
EXTENDS Ota, TLC

Bridge05 == <<0, 5>>
Dial04   == <<0, 4>>
Equal    == <<0, 5, 0>>
Ahead    == <<0, 5, 1>>
Releases == {Equal, Ahead}
=============================================================================
