--------------------------- MODULE MCUpdateOffer ----------------------------
(***************************************************************************)
(* What the dial asks its user, in two views that share no variable: how   *)
(* an update comes to be offered and installed (UpdateOffer), and how a    *)
(* call finds its answer (Journey).  A behaviour shows one of them, and    *)
(* the other stays as it starts.                                           *)
(*                                                                         *)
(* Offers: a dial with factory firmware, two releases the bridge may flash *)
(* and one it may not.                                                     *)
(***************************************************************************)
EXTENDS UpdateOffer, TLC

CONSTANTS Req, Nobody, Cmd, Repeats, MaxInFlight

VARIABLES view,
          job, waiter, store, held, pending, serial, conn, last, rxQueue,
          row, appState, picked, inflight, met  \* of Journey

Calls == INSTANCE Journey

ASSUME CallsAssumption == Calls!JourneyAssumption

Bridge05 == <<0, 5>>
Dial04   == <<0, 4>>
Releases == {<<0, 4, 1>>, <<0, 5, 0>>, <<0, 5, 1>>}

calls   == <<job, waiter, store, held, pending, serial, conn, last, rxQueue,
             row, appState, picked, inflight, met>>
allVars == <<view, vars, calls>>

AskInit == view \in {"offers", "calls"} /\ Init /\ Calls!Init

AskNext ==
  \/ view = "offers" /\ Next /\ UNCHANGED <<view, calls>>
  \/ view = "calls" /\ Calls!Next /\ UNCHANGED <<view, vars>>

\* The fairness of each module, in the behaviours that show it.
OfferStep(A) == view = "offers" /\ A
CallStep(A)  == view = "calls" /\ A

AskSpec ==
  /\ AskInit /\ [][AskNext]_allVars
  /\ WF_vars(OfferStep(Sweep)) /\ WF_vars(OfferStep(HandleOffer)) /\ WF_vars(OfferStep(Hello))
  /\ WF_calls(CallStep(Calls!Take)) /\ WF_calls(CallStep(Calls!HandOver))
  /\ WF_calls(CallStep(Calls!Flush)) /\ WF_calls(CallStep(Calls!Handle))
  /\ WF_calls(CallStep(Calls!Deliver))
  /\ SF_calls(CallStep(Calls!CommitDecision)) /\ SF_calls(CallStep(Calls!PermTimeOut))
-----------------------------------------------------------------------------
\* A call of a series gets an answer that was given to its command, all the way
\* from the store to the screen and back to the router (see Journey).
AnswersWhatWasShown == Calls!AnswersWhatWasShown

\* Every call that waits comes to the dial's screen or has its answer, although
\* snapshots are dropped for newer ones (see Journey).
CallsComeToTheDial == Calls!CallsComeToTheDial
=============================================================================
