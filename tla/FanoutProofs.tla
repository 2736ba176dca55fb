---------------------------- MODULE FanoutProofs ----------------------------
(***************************************************************************)
(* The hub keeps its browsers in step, and the fan-out keeps the promise   *)
(* of AnswerStream, for any browsers, devices and capacities.  Short calls *)
(* pass as they were meant, for any texts and limits (CommandText).  Each  *)
(* session has one row and one slot, and the rows, which are sorted by     *)
(* insertion, stay put, for any sessions and slots (RosterView).           *)
(***************************************************************************)
EXTENDS MCDevices, FiniteSetTheorems, SequenceTheorems, WellFoundedInduction, TLAPS

ScreenOK ==
  /\ store \in View /\ held \in [Caster -> View \cup {Nothing}]
  /\ clients \subseteq Client /\ missed \subseteq clients /\ last \in View \cup {Nothing}
  /\ frames \in [Client -> Seq(View)] /\ \A c \in Client : Len(frames[c]) <= ClientCap
  /\ greet \in [Client -> View \cup {Nothing}] /\ page \in [Client -> View \cup {Nothing}]

AnswersOK ==
  /\ given \in [Device -> 0..MaxGiven] /\ heard \in [Device -> 0..MaxGiven]
  /\ posted \in [Device -> Seq(1..MaxGiven)] /\ \A d \in Device : Len(posted[d]) <= DeviceCap
  /\ inHand \in [Device -> Seq(1..MaxGiven)] /\ \A d \in Device : Len(inHand[d]) <= 1
  /\ merged \in Seq(Device \X (1..MaxGiven)) /\ Len(merged) <= MergedCap

\* A browser that does not watch has nothing on its way.
StrangersHaveNothing ==
  \A c \in Client \ clients : frames[c] = << >> /\ greet[c] = Nothing /\ page[c] = Nothing

\* Of each device, what has gone further is older.
InOrder(d) ==
  /\ \A i \in DOMAIN posted[d] : posted[d][i] <= given[d]
  /\ \A i, j \in DOMAIN posted[d] : i < j => posted[d][i] < posted[d][j]
  /\ \A h \in DOMAIN inHand[d] :
       inHand[d][h] <= given[d] /\ \A i \in DOMAIN posted[d] : inHand[d][h] < posted[d][i]
  /\ \A m \in DOMAIN merged : merged[m][1] = d =>
       /\ merged[m][2] <= given[d]
       /\ \A i \in DOMAIN posted[d] : merged[m][2] < posted[d][i]
       /\ \A h \in DOMAIN inHand[d] : merged[m][2] < inHand[d][h]
       /\ \A n \in DOMAIN merged : n > m /\ merged[n][1] = d => merged[m][2] < merged[n][2]

ScreenInv == ScreenOK /\ StrangersHaveNothing /\ ClientsFollowHub
AnswerInv == AnswersOK /\ \A d \in Device : InOrder(d)
-----------------------------------------------------------------------------
(* Sequences *)

LEMMA HeadTail ==
  ASSUME NEW S, NEW q \in Seq(S), q # << >>
  PROVE  /\ Len(q) \in Nat \ {0} /\ Head(q) = q[1] /\ Head(q) \in S
         /\ Tail(q) \in Seq(S) /\ Len(Tail(q)) = Len(q) - 1
         /\ DOMAIN q = 1..Len(q) /\ DOMAIN Tail(q) = 1..(Len(q) - 1)
         /\ \A i \in 1..(Len(q) - 1) : Tail(q)[i] = q[i + 1]
  OBVIOUS

LEMMA EmptyIsShort ==
  ASSUME NEW S, NEW q \in Seq(S) PROVE q = << >> <=> Len(q) = 0
  OBVIOUS

LEMMA LastOfTail ==
  ASSUME NEW S, NEW q \in Seq(S), q # << >>
  PROVE  IF Len(q) = 1 THEN Tail(q) = << >> /\ Head(q) = q[Len(q)]
                       ELSE Tail(q) # << >> /\ Tail(q)[Len(Tail(q))] = q[Len(q)]
<1>1. /\ Len(q) \in Nat \ {0} /\ Head(q) = q[1]
      /\ Tail(q) \in Seq(S) /\ Len(Tail(q)) = Len(q) - 1
      /\ \A i \in 1..(Len(q) - 1) : Tail(q)[i] = q[i + 1]
  BY HeadTail
<1>2. Tail(q) = << >> <=> Len(Tail(q)) = 0
  BY <1>1, EmptyIsShort
<1>3. CASE Len(q) = 1
  BY <1>1, <1>2, <1>3
<1>4. CASE Len(q) # 1
  <2>1. Len(q) - 1 \in 1..(Len(q) - 1) /\ (Len(q) - 1) + 1 = Len(q)
    BY <1>1, <1>4
  <2> QED
    BY <1>1, <1>2, <1>4, <2>1
<1> QED
  BY <1>3, <1>4

LEMMA Appended ==
  ASSUME NEW S, NEW q \in Seq(S), NEW x \in S
  PROVE  /\ Append(q, x) \in Seq(S) /\ Len(Append(q, x)) = Len(q) + 1 /\ Append(q, x) # << >>
         /\ Len(q) \in Nat /\ DOMAIN q = 1..Len(q) /\ DOMAIN Append(q, x) = 1..(Len(q) + 1)
         /\ \A i \in 1..Len(q) : Append(q, x)[i] = q[i]
         /\ Append(q, x)[Len(q) + 1] = x
  OBVIOUS

LEMMA Element ==
  ASSUME NEW S, NEW q \in Seq(S), NEW i \in DOMAIN q PROVE q[i] \in S
  OBVIOUS

LEMMA HeldTail ==
  ASSUME NEW S, NEW q \in Seq(S), q # << >>
  PROVE  Held(q) = {Head(q)} \cup Held(Tail(q))
<1> USE HeadTail
<1>1. ASSUME NEW i \in DOMAIN q PROVE q[i] \in {Head(q)} \cup Held(Tail(q))
  <2>1. CASE i = 1
    BY <2>1
  <2>2. CASE i # 1
    <3>1. i - 1 \in DOMAIN Tail(q) /\ Tail(q)[i - 1] = q[i]
      BY <2>2
    <3> QED
      BY <3>1 DEF Held
  <2> QED
    BY <2>1, <2>2
<1>2. ASSUME NEW i \in DOMAIN Tail(q) PROVE Tail(q)[i] \in Held(q)
  <2>1. i + 1 \in DOMAIN q /\ Tail(q)[i] = q[i + 1]
    OBVIOUS
  <2> QED
    BY <2>1 DEF Held
<1>3. Head(q) \in Held(q)
  <2>1. 1 \in DOMAIN q /\ Head(q) = q[1]
    OBVIOUS
  <2> QED
    BY <2>1 DEF Held
<1> QED
  BY <1>1, <1>2, <1>3 DEF Held

LEMMA HeldAppend ==
  ASSUME NEW S, NEW q \in Seq(S), NEW x \in S
  PROVE  Held(Append(q, x)) = Held(q) \cup {x}
<1> USE Appended
<1>1. ASSUME NEW i \in DOMAIN Append(q, x) PROVE Append(q, x)[i] \in Held(q) \cup {x}
  <2>1. CASE i = Len(q) + 1
    BY <2>1
  <2>2. CASE i # Len(q) + 1
    <3>1. i \in DOMAIN q /\ Append(q, x)[i] = q[i]
      BY <2>2
    <3> QED
      BY <3>1 DEF Held
  <2> QED
    BY <2>1, <2>2
<1>2. ASSUME NEW i \in DOMAIN q PROVE q[i] \in Held(Append(q, x))
  <2>1. i \in DOMAIN Append(q, x) /\ Append(q, x)[i] = q[i]
    OBVIOUS
  <2> QED
    BY <2>1 DEF Held
<1>3. x \in Held(Append(q, x))
  <2>1. Len(q) + 1 \in DOMAIN Append(q, x) /\ Append(q, x)[Len(q) + 1] = x
    OBVIOUS
  <2> QED
    BY <2>1 DEF Held
<1> QED
  BY <1>1, <1>2, <1>3 DEF Held

LEMMA OfferedFits ==
  ASSUME NEW S, NEW q \in Seq(S), NEW x \in S, NEW cap \in Nat, Len(q) <= cap
  PROVE  /\ Offered(q, cap, x) \in {q, Append(q, x)}
         /\ Offered(q, cap, x) \in Seq(S) /\ Len(Offered(q, cap, x)) <= cap
  BY Appended DEF Offered
-----------------------------------------------------------------------------
(* The hub *)

LEMMA ScreenInit == Init => ScreenInv
<1> SUFFICES ASSUME Init PROVE ScreenInv
  OBVIOUS
<1>1. ScreenOK
  BY FanoutAssumption DEF Init, ScreenOK
<1> QED
  BY <1>1 DEF Init, ScreenInv, StrangersHaveNothing, ClientsFollowHub

\* A frame for everyone who has room: no channel overflows, and whoever is not
\* left out will show it.
LEMMA Updated ==
  ASSUME ScreenInv, NEW v \in View, Update(v), UNCHANGED <<store, clients, greet, page>>,
         held' \in [Caster -> View \cup {Nothing}]
  PROVE  ScreenInv'
<1> USE DEF ScreenInv
<1>1. last' = v /\ missed' = {c \in clients : ~HasRoom(c)}
  BY DEF Update
<1>2. /\ DOMAIN frames' = Client
      /\ \A c \in Client : frames'[c] = IF c \in clients /\ HasRoom(c)
                                        THEN Append(frames[c], v) ELSE frames[c]
  BY DEF Update
<1>3. ASSUME NEW c \in Client
      PROVE  frames'[c] \in Seq(View) /\ Len(frames'[c]) <= ClientCap
  <2>1. frames[c] \in Seq(View) /\ Len(frames[c]) <= ClientCap
    BY DEF ScreenOK
  <2>2. CASE c \in clients /\ HasRoom(c)
    <3>1. Append(frames[c], v) \in Seq(View) /\ Len(Append(frames[c], v)) = Len(frames[c]) + 1
      BY <2>1
    <3>2. Len(frames[c]) \in Nat /\ Len(frames[c]) < ClientCap
      BY <2>1, <2>2 DEF HasRoom
    <3>3. frames'[c] = Append(frames[c], v)
      BY <1>2, <2>2
    <3> QED
      BY <3>1, <3>2, <3>3, FanoutAssumption
  <2>3. CASE ~(c \in clients /\ HasRoom(c))
    BY <1>2, <2>1, <2>3
  <2> QED
    BY <2>2, <2>3
<1>4. frames' \in [Client -> Seq(View)]
  <2>1. frames' = [c \in Client |-> frames'[c]]
    BY DEF Update
  <2> QED
    BY <1>3, <2>1
<1>5. ScreenOK'
  BY <1>1, <1>3, <1>4 DEF ScreenOK
<1>6. StrangersHaveNothing'
  BY <1>2 DEF StrangersHaveNothing
<1>7. ASSUME NEW c \in clients \ missed' PROVE WillShow(c)' = last'
  <2>1. c \in Client /\ HasRoom(c) /\ frames[c] \in Seq(View)
    BY <1>1, <1>7 DEF ScreenOK
  <2>2. frames'[c] = Append(frames[c], v)
    BY <1>2, <1>7, <2>1
  <2>3. frames'[c] # << >> /\ frames'[c][Len(frames'[c])] = v
    BY <2>1, <2>2, Appended
  <2> QED
    BY <1>1, <2>3 DEF WillShow
<1> QED
  BY <1>5, <1>6, <1>7 DEF ClientsFollowHub

LEMMA ScreenNext == ScreenInv /\ [Next]_vars => ScreenInv'
<1> SUFFICES ASSUME ScreenInv, [Next]_vars PROVE ScreenInv'
  OBVIOUS
<1>0. ScreenOK /\ StrangersHaveNothing /\ ClientsFollowHub
  BY DEF ScreenInv
<1>1. CASE Change
  BY <1>0, <1>1
     DEF Change, ScreenInv, ScreenOK, StrangersHaveNothing, ClientsFollowHub, WillShow
<1>2. ASSUME NEW b \in Caster, TakeSnapshot(b) PROVE ScreenInv'
  BY <1>0, <1>2
     DEF TakeSnapshot, ScreenInv, ScreenOK, StrangersHaveNothing, ClientsFollowHub, WillShow
<1>3. ASSUME NEW b \in Caster, HandOver(b) PROVE ScreenInv'
  BY <1>0, <1>3, Updated DEF HandOver, ScreenOK
<1>4. CASE Tick
  BY <1>0, <1>4, Updated DEF Tick, ScreenOK
<1>5. ASSUME NEW c \in Client, Watch(c) PROVE ScreenInv'
  <2>1. ScreenOK' /\ StrangersHaveNothing'
    BY <1>0, <1>5 DEF Watch, ScreenOK, StrangersHaveNothing
  <2>2. WillShow(c)' = last'
    BY <1>0, <1>5 DEF Watch, WillShow, ScreenOK, StrangersHaveNothing
  <2>3. ASSUME NEW e \in clients' \ missed', e # c PROVE WillShow(e)' = last'
    BY <1>0, <1>5, <2>3 DEF Watch, WillShow, ClientsFollowHub, ScreenOK
  <2> QED
    BY <2>1, <2>2, <2>3 DEF ScreenInv, ClientsFollowHub
<1>6. ASSUME NEW c \in Client, Greet(c) PROVE ScreenInv'
  <2>1. ScreenOK'
    BY <1>0, <1>6 DEF Greet, ScreenOK
  <2>2. c \in clients /\ StrangersHaveNothing'
    BY <1>0, <1>6 DEF Greet, StrangersHaveNothing
  <2>3. \A e \in clients : WillShow(e)' = WillShow(e)
    BY <1>0, <1>6 DEF Greet, WillShow, ScreenOK
  <2> QED
    BY <1>0, <1>6, <2>1, <2>2, <2>3 DEF Greet, ScreenInv, ClientsFollowHub
<1>7. ASSUME NEW c \in Client, Push(c) PROVE ScreenInv'
  <2>1. /\ frames[c] \in Seq(View) /\ frames[c] # << >> /\ greet[c] = Nothing
        /\ Len(frames[c]) <= ClientCap
    BY <1>0, <1>7 DEF Push, ScreenOK
  <2>2. /\ page' = [page EXCEPT ![c] = Head(frames[c])]
        /\ frames' = [frames EXCEPT ![c] = Tail(frames[c])]
        /\ UNCHANGED <<store, held, clients, last, greet, missed>>
    BY <1>7 DEF Push
  <2>3. ScreenOK'
    <3>1. Tail(frames[c]) \in Seq(View) /\ Len(Tail(frames[c])) <= ClientCap /\ Head(frames[c]) \in View
      BY <2>1, HeadTail, FanoutAssumption
    <3> QED
      BY <1>0, <2>2, <3>1 DEF ScreenOK
  <2>4. c \in clients /\ StrangersHaveNothing'
    BY <1>0, <1>7, <2>2 DEF Push, StrangersHaveNothing
  <2>5. WillShow(c)' = WillShow(c)
    <3>1. frames'[c] = Tail(frames[c]) /\ page'[c] = Head(frames[c]) /\ greet'[c] = Nothing
      BY <1>0, <2>1, <2>2 DEF ScreenOK
    <3>2. CASE Len(frames[c]) = 1
      <4>1. Tail(frames[c]) = << >> /\ Head(frames[c]) = frames[c][Len(frames[c])]
        BY <2>1, <3>2, LastOfTail
      <4> QED
        BY <2>1, <3>1, <4>1 DEF WillShow
    <3>3. CASE Len(frames[c]) # 1
      <4>1. /\ Tail(frames[c]) # << >>
            /\ Tail(frames[c])[Len(Tail(frames[c]))] = frames[c][Len(frames[c])]
        BY <2>1, <3>3, LastOfTail
      <4> QED
        BY <2>1, <3>1, <4>1 DEF WillShow
    <3> QED
      BY <3>2, <3>3
  <2>6. \A e \in clients : e # c => WillShow(e)' = WillShow(e)
    BY <1>0, <2>2 DEF WillShow, ScreenOK
  <2> QED
    BY <1>0, <2>2, <2>3, <2>4, <2>5, <2>6 DEF ScreenInv, ClientsFollowHub
<1>8. ASSUME NEW c \in Client, Leave(c) PROVE ScreenInv'
  <2>1. ScreenOK'
    BY <1>0, <1>8, FanoutAssumption DEF Leave, ScreenOK
  <2>2. StrangersHaveNothing'
    BY <1>0, <1>8 DEF Leave, StrangersHaveNothing, ScreenOK
  <2>3. \A e \in clients : e # c => WillShow(e)' = WillShow(e)
    BY <1>0, <1>8 DEF Leave, WillShow, ScreenOK
  <2> QED
    BY <1>0, <1>8, <2>1, <2>2, <2>3 DEF Leave, ScreenInv, ClientsFollowHub
<1>9. CASE UNCHANGED screen
  BY <1>0, <1>9
     DEF screen, ScreenInv, ScreenOK, StrangersHaveNothing, ClientsFollowHub, WillShow
<1> QED
  BY <1>1, <1>2, <1>3, <1>4, <1>5, <1>6, <1>7, <1>8, <1>9
     DEF Next, FrameNext, AnswerNext, Give, Receive, Forward, Dispatch, vars
-----------------------------------------------------------------------------
(* The answers *)

LEMMA AnswersInit == Init => AnswerInv
  BY FanoutAssumption DEF Init, AnswerInv, AnswersOK, InOrder

LEMMA StreamInit == Init => Stream!Init
<1> SUFFICES ASSUME Init PROVE Stream!Init
  OBVIOUS
<1>1. \A d \in Device : Waiting(d) = {}
  BY DEF Init, Waiting, Held
<1> QED
  BY <1>1 DEF Init, Stream!Init

LEMMA MergedTypes ==
  ASSUME AnswersOK, NEW m \in DOMAIN merged
  PROVE  /\ merged[m] \in Device \X (1..MaxGiven)
         /\ merged[m] = <<merged[m][1], merged[m][2]>>
         /\ merged[m][1] \in Device /\ merged[m][2] \in 1..MaxGiven
  BY DEF AnswersOK

LEMMA AnswersAreNumbers ==
  ASSUME AnswersOK, NEW d \in Device
  PROVE  /\ MaxGiven \in Nat /\ given[d] \in Nat /\ given[d] <= MaxGiven
         /\ posted[d] \in Seq(1..MaxGiven) /\ inHand[d] \in Seq(1..MaxGiven)
         /\ \A i \in DOMAIN posted[d] : posted[d][i] \in Nat
         /\ \A h \in DOMAIN inHand[d] : inHand[d][h] \in Nat
         /\ \A m \in DOMAIN merged : merged[m][2] \in Nat
<1>1. MaxGiven \in Nat /\ given[d] \in 0..MaxGiven
  BY FanoutAssumption DEF AnswersOK
<1>2. posted[d] \in Seq(1..MaxGiven) /\ inHand[d] \in Seq(1..MaxGiven)
  BY DEF AnswersOK
<1>3. \A i \in DOMAIN posted[d] : posted[d][i] \in 1..MaxGiven
  BY <1>2, Element
<1>4. \A h \in DOMAIN inHand[d] : inHand[d][h] \in 1..MaxGiven
  BY <1>2, Element
<1>5. \A m \in DOMAIN merged : merged[m][2] \in 1..MaxGiven
  BY MergedTypes
<1> QED
  BY <1>1, <1>2, <1>3, <1>4, <1>5

\* An answer is in a channel or it is not.
LEMMA OfferHeld ==
  ASSUME NEW S, NEW q \in Seq(S), NEW x \in S, NEW cap
  PROVE  \/ Offered(q, cap, x) = q
         \/ Offered(q, cap, x) = Append(q, x) /\ Held(Offered(q, cap, x)) = Held(q) \cup {x}
  BY HeldAppend DEF Offered

LEMMA GiveStep ==
  ASSUME AnswersOK, \A e \in Device : InOrder(e), NEW d \in Device, Give(d)
  PROVE  AnswerInv' /\ (Stream!Give(d) \/ Stream!Refuse(d))
<1> DEFINE n == given[d] + 1
<1>1. /\ given[d] \in Nat /\ n \in Nat /\ n > given[d] /\ n \in 1..MaxGiven
      /\ posted[d] \in Seq(1..MaxGiven) /\ Len(posted[d]) <= DeviceCap
  <2>1. given[d] < MaxGiven
    BY DEF Give
  <2> QED
    BY <2>1, AnswersAreNumbers DEF AnswersOK
<1>2. /\ given' = [given EXCEPT ![d] = n] /\ given'[d] = n
      /\ posted' = [posted EXCEPT ![d] = Offered(posted[d], DeviceCap, n)]
      /\ posted'[d] = Offered(posted[d], DeviceCap, n)
      /\ UNCHANGED <<inHand, merged, heard>>
  BY DEF AnswersOK, Give
<1>t. posted[d] \in Seq(1..MaxGiven) /\ n \in 1..MaxGiven
  BY <1>1
<1> HIDE DEF n
<1>3. AnswersOK'
  <2>1. posted'[d] \in Seq(1..MaxGiven) /\ Len(posted'[d]) <= DeviceCap
    <3>1. DeviceCap \in Nat /\ Len(posted[d]) <= DeviceCap
      BY <1>1, FanoutAssumption
    <3>2. /\ Offered(posted[d], DeviceCap, n) \in Seq(1..MaxGiven)
          /\ Len(Offered(posted[d], DeviceCap, n)) <= DeviceCap
      BY <1>t, <3>1, OfferedFits
    <3> QED
      BY <1>2, <3>2
  <2> QED
    BY <1>1, <1>2, <2>1 DEF AnswersOK
<1>4. ASSUME NEW e \in Device, e # d PROVE InOrder(e)' /\ Waiting(e)' = Waiting(e)
  <2>1. posted'[e] = posted[e] /\ given'[e] = given[e]
    BY <1>2, <1>4 DEF AnswersOK
  <2> QED
    BY <1>2, <2>1 DEF InOrder, Waiting
<1>5. CASE posted'[d] = posted[d]
  <2>1. InOrder(d)'
    BY <1>1, <1>2, <1>5, AnswersAreNumbers DEF InOrder
  <2>2. Waiting(d)' = Waiting(d)
    BY <1>2, <1>5 DEF Waiting
  <2>3. Stream!Refuse(d)
    <3>1. \A e \in Device : Waiting(e)' = Waiting(e)
      BY <1>4, <2>2
    <3>2. [e \in Device |-> Waiting(e)]' = [e \in Device |-> Waiting(e)]
      BY <3>1
    <3> QED
      BY <1>2, <3>2 DEF Stream!Refuse, n
  <2> QED
    BY <1>3, <1>4, <2>1, <2>3 DEF AnswerInv
<1>6. CASE posted'[d] = Append(posted[d], n)
  <2>1. InOrder(d)'
    <3>1. /\ DOMAIN posted'[d] = 1..(Len(posted[d]) + 1) /\ DOMAIN posted[d] = 1..Len(posted[d])
          /\ Len(posted[d]) \in Nat
          /\ \A i \in 1..Len(posted[d]) : posted'[d][i] = posted[d][i]
          /\ posted'[d][Len(posted[d]) + 1] = n
      BY <1>1, <1>6, Appended
    <3>2. /\ \A i \in DOMAIN posted[d] : posted[d][i] \in Nat /\ posted[d][i] < n
          /\ \A h \in DOMAIN inHand[d] : inHand[d][h] \in Nat /\ inHand[d][h] < n
          /\ \A m \in DOMAIN merged : merged[m][1] = d => merged[m][2] \in Nat /\ merged[m][2] < n
      BY <1>1, AnswersAreNumbers DEF InOrder
    <3>3. \A i \in DOMAIN posted'[d] : posted'[d][i] <= given'[d]
      <4> SUFFICES ASSUME NEW i \in DOMAIN posted'[d] PROVE posted'[d][i] <= n
        BY <1>1, <1>2
      <4>1. CASE i \in DOMAIN posted[d]
        <5>1. posted'[d][i] = posted[d][i]
          BY <3>1, <4>1
        <5>2. posted[d][i] \in Nat /\ posted[d][i] < n
          BY <3>2, <4>1
        <5> QED
          BY <1>1, <5>1, <5>2
      <4>2. CASE i = Len(posted[d]) + 1
        BY <1>1, <3>1, <4>2
      <4> QED
        BY <3>1, <4>1, <4>2
    <3>4. \A i, j \in DOMAIN posted'[d] : i < j => posted'[d][i] < posted'[d][j]
      BY <1>1, <3>1, <3>2 DEF InOrder
    <3>5. \A h \in DOMAIN inHand'[d] :
            inHand'[d][h] <= given'[d] /\ \A i \in DOMAIN posted'[d] : inHand'[d][h] < posted'[d][i]
      <4> SUFFICES ASSUME NEW h \in DOMAIN inHand[d]
                   PROVE  /\ inHand[d][h] <= n
                          /\ \A i \in DOMAIN posted'[d] : inHand[d][h] < posted'[d][i]
        BY <1>2
      <4>1. /\ inHand[d][h] \in Nat /\ inHand[d][h] < n
            /\ \A i \in 1..Len(posted[d]) : inHand[d][h] < posted[d][i]
        BY <3>1, <3>2 DEF InOrder
      <4> QED
        BY <1>1, <3>1, <4>1
    <3>6. \A m \in DOMAIN merged' : merged'[m][1] = d =>
            /\ merged'[m][2] <= given'[d]
            /\ \A i \in DOMAIN posted'[d] : merged'[m][2] < posted'[d][i]
            /\ \A h \in DOMAIN inHand'[d] : merged'[m][2] < inHand'[d][h]
            /\ \A k \in DOMAIN merged' : k > m /\ merged'[k][1] = d => merged'[m][2] < merged'[k][2]
      <4> SUFFICES ASSUME NEW m \in DOMAIN merged, merged[m][1] = d
                   PROVE  /\ merged[m][2] <= n
                          /\ \A i \in DOMAIN posted'[d] : merged[m][2] < posted'[d][i]
                          /\ \A h \in DOMAIN inHand[d] : merged[m][2] < inHand[d][h]
                          /\ \A k \in DOMAIN merged :
                               k > m /\ merged[k][1] = d => merged[m][2] < merged[k][2]
        BY <1>2
      <4>1. /\ merged[m][2] \in Nat /\ merged[m][2] < n
            /\ \A i \in 1..Len(posted[d]) : merged[m][2] < posted[d][i]
        BY <3>1, <3>2 DEF InOrder
      <4>2. \A i \in DOMAIN posted'[d] : merged[m][2] < posted'[d][i]
        BY <1>1, <3>1, <4>1
      <4> QED
        BY <1>1, <4>1, <4>2 DEF InOrder
    <3> QED
      BY <3>3, <3>4, <3>5, <3>6 DEF InOrder
  <2>2. Waiting(d)' = Waiting(d) \cup {n}
    <3>1. Held(Append(posted[d], n)) = Held(posted[d]) \cup {n}
      <4> DEFINE S == 1..MaxGiven
      <4>1. posted[d] \in Seq(S) /\ n \in S
        BY <1>t
      <4> HIDE DEF S
      <4> QED
        BY <4>1, HeldAppend
    <3> QED
      BY <1>2, <1>6, <3>1 DEF Waiting
  <2>3. Stream!Give(d)
    <3>1. [e \in Device |-> Waiting(e)]'
            = [[e \in Device |-> Waiting(e)] EXCEPT ![d] = Waiting(d) \cup {n}]
      BY <1>4, <2>2
    <3> QED
      BY <1>2, <3>1 DEF Stream!Give, n
  <2> QED
    BY <1>3, <1>4, <2>1, <2>3 DEF AnswerInv
<1>7. posted'[d] \in {posted[d], Append(posted[d], n)}
  BY <1>2 DEF Offered
<1> QED
  BY <1>5, <1>6, <1>7

LEMMA ReceiveStep ==
  ASSUME AnswersOK, \A e \in Device : InOrder(e), NEW d \in Device, Receive(d)
  PROVE  AnswerInv' /\ UNCHANGED Stream!vars
<1> DEFINE S == 1..MaxGiven
<1>1. posted[d] \in Seq(S) /\ posted[d] # << >> /\ inHand[d] = << >>
  BY DEF AnswersOK, Receive
<1>2. /\ inHand'[d] = <<Head(posted[d])>> /\ posted'[d] = Tail(posted[d])
      /\ inHand' = [inHand EXCEPT ![d] = <<Head(posted[d])>>]
      /\ posted' = [posted EXCEPT ![d] = Tail(posted[d])]
      /\ UNCHANGED <<given, merged, heard>>
  BY DEF AnswersOK, Receive
<1>n. Len(posted[d]) <= DeviceCap /\ DeviceCap \in Nat
  BY FanoutAssumption DEF AnswersOK
<1> HIDE DEF S
<1>3. /\ Len(posted[d]) \in Nat \ {0} /\ Head(posted[d]) = posted[d][1] /\ Head(posted[d]) \in S
      /\ posted'[d] \in Seq(S) /\ Len(posted'[d]) = Len(posted[d]) - 1
      /\ DOMAIN posted[d] = 1..Len(posted[d]) /\ DOMAIN posted'[d] = 1..(Len(posted[d]) - 1)
      /\ \A i \in 1..(Len(posted[d]) - 1) : posted'[d][i] = posted[d][i + 1]
  BY <1>1, <1>2, HeadTail
<1>4. inHand'[d] \in Seq(S) /\ Len(inHand'[d]) = 1 /\ DOMAIN inHand'[d] = {1} /\ inHand'[d][1] = posted[d][1]
  BY <1>2, <1>3
<1>5. AnswersOK'
  BY <1>2, <1>3, <1>4, <1>n DEF AnswersOK, S
<1>6. ASSUME NEW e \in Device, e # d PROVE InOrder(e)' /\ Waiting(e)' = Waiting(e)
  <2>1. posted'[e] = posted[e] /\ inHand'[e] = inHand[e]
    BY <1>2, <1>6 DEF AnswersOK
  <2> QED
    BY <1>2, <2>1 DEF InOrder, Waiting
<1>7. InOrder(d)'
  <2>1. \A i \in DOMAIN posted'[d] : i + 1 \in DOMAIN posted[d] /\ posted'[d][i] = posted[d][i + 1]
    BY <1>3
  <2>2. 1 \in DOMAIN posted[d] /\ \A i \in DOMAIN posted'[d] : i \in Nat /\ 1 < i + 1
    BY <1>3
  <2>3. \A i, j \in DOMAIN posted'[d] : i < j => posted'[d][i] < posted'[d][j]
    <3>1. \A i, j \in DOMAIN posted'[d] : i < j => i + 1 < j + 1
      BY <1>3
    <3> QED
      BY <2>1, <3>1 DEF InOrder
  <2>4. \A h \in DOMAIN inHand'[d] :
          inHand'[d][h] <= given'[d] /\ \A i \in DOMAIN posted'[d] : inHand'[d][h] < posted'[d][i]
    BY <1>2, <1>4, <2>1, <2>2 DEF InOrder
  <2>5. \A i \in DOMAIN posted'[d] : posted'[d][i] <= given'[d]
    BY <1>2, <2>1 DEF InOrder
  <2>6. \A m \in DOMAIN merged' : merged'[m][1] = d =>
          /\ merged'[m][2] <= given'[d]
          /\ \A i \in DOMAIN posted'[d] : merged'[m][2] < posted'[d][i]
          /\ \A h \in DOMAIN inHand'[d] : merged'[m][2] < inHand'[d][h]
          /\ \A n \in DOMAIN merged' : n > m /\ merged'[n][1] = d => merged'[m][2] < merged'[n][2]
    BY <1>2, <1>4, <2>1, <2>2 DEF InOrder
  <2> QED
    BY <2>3, <2>4, <2>5, <2>6 DEF InOrder
<1>8. Waiting(d)' = Waiting(d)
  <2>1. Held(posted[d]) = {Head(posted[d])} \cup Held(posted'[d])
    BY <1>1, <1>2, HeldTail
  <2>2. Held(inHand[d]) = {} /\ Held(inHand'[d]) = {Head(posted[d])}
    BY <1>1, <1>2 DEF Held
  <2> QED
    BY <1>2, <2>1, <2>2 DEF Waiting
<1>9. [e \in Device |-> Waiting(e)]' = [e \in Device |-> Waiting(e)]
  BY <1>6, <1>8
<1> QED
  BY <1>2, <1>5, <1>6, <1>7, <1>9 DEF AnswerInv, Stream!vars

LEMMA ForwardStep ==
  ASSUME AnswersOK, \A e \in Device : InOrder(e), NEW d \in Device, Forward(d)
  PROVE  AnswerInv' /\ (Stream!Lose(d) \/ UNCHANGED Stream!vars)
<1> DEFINE x == inHand[d][1]
           S == Device \X (1..MaxGiven)
<1>1. /\ inHand[d] \in Seq(1..MaxGiven) /\ inHand[d] # << >> /\ Len(inHand[d]) <= 1
      /\ merged \in Seq(S) /\ Len(merged) <= MergedCap /\ MergedCap \in Nat
  BY FanoutAssumption DEF AnswersOK, Forward
<1>2. DOMAIN inHand[d] = {1} /\ x \in 1..MaxGiven /\ Held(inHand[d]) = {x} /\ <<d, x>> \in S
  <2>1. Len(inHand[d]) = 1 /\ DOMAIN inHand[d] = {1}
    <3>1. Len(inHand[d]) \in Nat \ {0} /\ DOMAIN inHand[d] = 1..Len(inHand[d])
      BY <1>1, HeadTail
    <3>2. Len(inHand[d]) = 1
      <4>1. \A n \in Nat \ {0} : n <= 1 => n = 1
        OBVIOUS
      <4> QED
        BY <1>1, <3>1, <4>1
    <3> QED
      BY <3>1, <3>2
  <2>2. x \in 1..MaxGiven
    BY <1>1, <2>1, Element
  <2> QED
    BY <2>1, <2>2 DEF Held
<1>3. /\ inHand'[d] = << >> /\ inHand' = [inHand EXCEPT ![d] = << >>]
      /\ merged' = Offered(merged, MergedCap, <<d, x>>)
      /\ UNCHANGED <<given, posted, heard>>
  BY DEF AnswersOK, Forward
<1> HIDE DEF S, x
<1>4. AnswersOK'
  <2>1. merged' \in Seq(S) /\ Len(merged') <= MergedCap
    BY <1>1, <1>2, <1>3, OfferedFits
  <2>2. << >> \in Seq(1..MaxGiven) /\ Len(<< >>) <= 1
    OBVIOUS
  <2> QED
    BY <1>3, <2>1, <2>2 DEF AnswersOK, S
<1>5. \A e \in Device : e # d => inHand'[e] = inHand[e]
  BY <1>3 DEF AnswersOK
<1>6. CASE merged' = merged
  <2>1. ASSUME NEW e \in Device PROVE InOrder(e)'
    <3>1. InOrder(e)
      OBVIOUS
    <3>2. CASE e # d
      BY <1>3, <1>5, <1>6, <3>1, <3>2 DEF InOrder
    <3>3. CASE e = d
      <4>1. DOMAIN inHand'[d] = {}
        BY <1>3
      <4> QED
        BY <1>3, <1>6, <3>1, <3>3, <4>1 DEF InOrder
    <3> QED
      BY <3>2, <3>3
  <2>2. \A e \in Device : e # d => Waiting(e)' = Waiting(e)
    BY <1>3, <1>5, <1>6 DEF Waiting
  <2>3. x \in Waiting(d) /\ Waiting(d)' = Waiting(d) \ {x}
    <3>1. <<d, x>> \notin Held(merged) /\ x \notin Held(posted[d])
      BY <1>2, AnswersAreNumbers DEF InOrder, Held, x
    <3>2. Held(inHand'[d]) = {}
      BY <1>3 DEF Held
    <3> QED
      BY <1>2, <1>3, <1>6, <3>1, <3>2 DEF Waiting
  <2>4. [e \in Device |-> Waiting(e)]' = [[e \in Device |-> Waiting(e)] EXCEPT ![d] = Waiting(d) \ {x}]
    BY <2>2, <2>3
  <2>5. Stream!Lose(d)
    BY <1>3, <2>3, <2>4 DEF Stream!Lose
  <2> QED
    BY <1>4, <2>1, <2>5 DEF AnswerInv
<1>7. CASE merged' = Append(merged, <<d, x>>)
  <2>1. /\ Len(merged) \in Nat /\ DOMAIN merged = 1..Len(merged)
        /\ DOMAIN merged' = 1..(Len(merged) + 1)
        /\ \A i \in 1..Len(merged) : merged'[i] = merged[i]
        /\ merged'[Len(merged) + 1] = <<d, x>>
    BY <1>1, <1>2, <1>7, Appended
  <2>2. ASSUME NEW e \in Device, e # d PROVE InOrder(e)' /\ Waiting(e)' = Waiting(e)
    <3>1. \A m \in DOMAIN merged' : merged'[m][1] = e => m \in DOMAIN merged /\ merged'[m] = merged[m]
      BY <2>1, <2>2
    <3>2. Held(merged') = Held(merged) \cup {<<d, x>>}
      BY <1>1, <1>2, <1>7, HeldAppend
    <3>3. \A y : <<e, y>> \in Held(merged') <=> <<e, y>> \in Held(merged)
      BY <2>2, <3>2
    <3> QED
      BY <1>3, <1>5, <2>2, <3>1, <3>3 DEF InOrder, Waiting
  <2>3. InOrder(d)'
    <3>1. \A m \in DOMAIN merged' : m \in DOMAIN merged \/ m = Len(merged) + 1
      BY <2>1
    <3>2. \A m \in DOMAIN merged : m \in DOMAIN merged' /\ merged'[m] = merged[m] /\ m < Len(merged) + 1
      BY <2>1
    <3>3. x <= given[d] /\ \A i \in DOMAIN posted[d] : x < posted[d][i]
      BY <1>2 DEF InOrder, x
    <3>4. \A m \in DOMAIN merged : merged[m][1] = d => merged[m][2] < x
      BY <1>2 DEF InOrder, x
    <3>5. \A n \in DOMAIN merged' : ~(n > Len(merged) + 1)
      BY <2>1
    <3>6. ASSUME NEW m \in DOMAIN merged', merged'[m][1] = d
          PROVE  /\ merged'[m][2] <= given[d]
                 /\ \A i \in DOMAIN posted[d] : merged'[m][2] < posted[d][i]
                 /\ \A n \in DOMAIN merged' : n > m /\ merged'[n][1] = d => merged'[m][2] < merged'[n][2]
      <4>1. CASE m = Len(merged) + 1
        BY <2>1, <3>3, <3>5, <4>1
      <4>2. CASE m \in DOMAIN merged
        BY <2>1, <3>1, <3>2, <3>4, <3>6, <4>2 DEF InOrder
      <4> QED
        BY <3>1, <4>1, <4>2
    <3>7. DOMAIN inHand'[d] = {}
      BY <1>3
    <3> QED
      BY <1>3, <3>6, <3>7 DEF InOrder
  <2>4. Waiting(d)' = Waiting(d)
    <3>1. Held(merged') = Held(merged) \cup {<<d, x>>}
      BY <1>1, <1>2, <1>7, HeldAppend
    <3>2. Held(inHand'[d]) = {}
      BY <1>3 DEF Held
    <3>3. \A y : <<d, y>> \in Held(merged') <=> <<d, y>> \in Held(merged) \/ y = x
      BY <3>1
    <3> QED
      BY <1>2, <1>3, <3>2, <3>3 DEF Waiting
  <2>5. [e \in Device |-> Waiting(e)]' = [e \in Device |-> Waiting(e)]
    BY <2>2, <2>4
  <2> QED
    BY <1>3, <1>4, <2>2, <2>3, <2>5 DEF AnswerInv, Stream!vars
<1> QED
  BY <1>3, <1>6, <1>7 DEF Offered

LEMMA DispatchStep ==
  ASSUME AnswersOK, \A e \in Device : InOrder(e), Dispatch
  PROVE  AnswerInv' /\ \E d \in Device : Stream!Hear(d)
<1> DEFINE S == Device \X (1..MaxGiven)
<1>1. merged \in Seq(S) /\ merged # << >> /\ Len(merged) <= MergedCap /\ MergedCap \in Nat
  BY FanoutAssumption DEF AnswersOK, Dispatch
<1> HIDE DEF S
<1>2. /\ Len(merged) \in Nat \ {0} /\ Head(merged) = merged[1] /\ merged' = Tail(merged)
      /\ Tail(merged) \in Seq(S) /\ Len(Tail(merged)) = Len(merged) - 1
      /\ DOMAIN merged = 1..Len(merged) /\ DOMAIN merged' = 1..(Len(merged) - 1)
      /\ \A i \in 1..(Len(merged) - 1) : merged'[i] = merged[i + 1]
  BY <1>1, HeadTail DEF Dispatch
<1>3. 1 \in DOMAIN merged
  BY <1>2
<1>4. PICK d \in Device, x \in 1..MaxGiven : merged[1] = <<d, x>>
  BY <1>3, MergedTypes
<1>5. heard' = [heard EXCEPT ![d] = x] /\ UNCHANGED <<given, posted, inHand>>
  <2>1. Head(merged)[1] = d /\ Head(merged)[2] = x
    BY <1>2, <1>4
  <2> QED
    BY <2>1 DEF Dispatch
<1>6. AnswersOK'
  <2>1. merged' \in Seq(S) /\ Len(merged') <= MergedCap
    BY <1>1, <1>2
  <2>2. heard' \in [Device -> 0..MaxGiven]
    BY <1>4, <1>5, FanoutAssumption DEF AnswersOK
  <2> QED
    BY <1>5, <2>1, <2>2 DEF AnswersOK, S
<1>7. \A i \in DOMAIN merged' :
        /\ i \in Nat /\ i + 1 \in DOMAIN merged /\ i + 1 > 1 /\ merged'[i] = merged[i + 1]
  BY <1>2
<1>8. ASSUME NEW e \in Device PROVE InOrder(e)'
  <2>1. \A i, j \in DOMAIN merged' : i > j => i + 1 > j + 1
    BY <1>7
  <2>2. InOrder(e)
    OBVIOUS
  <2> QED
    BY <1>5, <1>7, <2>1, <2>2 DEF InOrder
<1>9. Held(merged) = {<<d, x>>} \cup Held(merged')
  BY <1>1, <1>2, <1>4, HeldTail
<1>10. ASSUME NEW e \in Device, e # d PROVE Waiting(e)' = Waiting(e)
  <2>1. \A y : <<e, y>> \in Held(merged') <=> <<e, y>> \in Held(merged)
    BY <1>9, <1>10
  <2> QED
    BY <1>5, <2>1 DEF Waiting
<1>11. \A y \in Held(inHand[d]) \cup Held(posted[d]) : x < y
  BY <1>3, <1>4 DEF InOrder, Held
<1>12. \A y : <<d, y>> \in Held(merged') => x < y
  <2> SUFFICES ASSUME NEW i \in DOMAIN merged', NEW y, merged'[i] = <<d, y>> PROVE x < y
    BY DEF Held
  <2>1. i + 1 \in DOMAIN merged /\ i + 1 > 1 /\ merged[i + 1] = <<d, y>>
    BY <1>7
  <2> QED
    BY <1>3, <1>4, <2>1 DEF InOrder
<1>13. x \in Waiting(d) /\ \A y \in Waiting(d) : x <= y
  <2>1. x \in Nat /\ \A y \in Held(inHand[d]) \cup Held(posted[d]) : y \in Nat
    BY <1>4, AnswersAreNumbers DEF Held
  <2>2. x \in Waiting(d)
    BY <1>4, <1>9 DEF Waiting
  <2>3. ASSUME NEW y \in 1..MaxGiven, <<d, y>> \in Held(merged) PROVE x <= y
    BY <1>4, <1>9, <1>12, <2>3
  <2> QED
    BY <1>11, <2>1, <2>2, <2>3 DEF Waiting
<1>14. Waiting(d)' = Waiting(d) \ {x}
  <2>1. \A y : <<d, y>> \in Held(merged') <=> <<d, y>> \in Held(merged) /\ y # x
    BY <1>4, <1>9, <1>12
  <2>2. x \notin Held(inHand[d]) /\ x \notin Held(posted[d])
    BY <1>4, <1>11
  <2> QED
    BY <1>5, <2>1, <2>2 DEF Waiting
<1>15. [e \in Device |-> Waiting(e)]' = [[e \in Device |-> Waiting(e)] EXCEPT ![d] = Waiting(d) \ {x}]
  BY <1>10, <1>14
<1>16. Stream!Hear(d)
  BY <1>4, <1>5, <1>13, <1>15 DEF Stream!Hear
<1> QED
  BY <1>4, <1>6, <1>8, <1>16 DEF AnswerInv

LEMMA StreamNext == AnswerInv /\ [Next]_vars => AnswerInv' /\ [Stream!Next]_(Stream!vars)
<1> SUFFICES ASSUME AnswerInv, [Next]_vars PROVE AnswerInv' /\ [Stream!Next]_(Stream!vars)
  OBVIOUS
<1>0. AnswersOK /\ \A e \in Device : InOrder(e)
  BY DEF AnswerInv
<1>1. ASSUME NEW d \in Device, Give(d) PROVE AnswerInv' /\ Stream!Next
  BY <1>0, <1>1, GiveStep DEF Stream!Next
<1>2. ASSUME NEW d \in Device, Receive(d) PROVE AnswerInv' /\ UNCHANGED Stream!vars
  BY <1>0, <1>2, ReceiveStep
<1>3. ASSUME NEW d \in Device, Forward(d) PROVE AnswerInv' /\ [Stream!Next]_(Stream!vars)
  BY <1>0, <1>3, ForwardStep DEF Stream!Next
<1>4. CASE Dispatch
  BY <1>0, <1>4, DispatchStep DEF Stream!Next
<1>5. CASE UNCHANGED answers
  BY <1>0, <1>5 DEF answers, AnswerInv, AnswersOK, InOrder, Waiting, Stream!vars
<1> QED
  BY <1>1, <1>2, <1>3, <1>4, <1>5
     DEF Next, FrameNext, AnswerNext, Change, Tick, TakeSnapshot, HandOver, Watch, Greet, Push, Leave, vars
-----------------------------------------------------------------------------
LEMMA Inductive == Spec => []ScreenInv /\ []AnswerInv
<1>1. AnswerInv /\ [Next]_vars => AnswerInv'
  BY StreamNext
<1> QED
  BY ScreenInit, ScreenNext, AnswersInit, <1>1, PTL DEF Spec

\* Types, for any browsers, devices and capacities: neither the hub nor the
\* fan-out ever waits for room or takes more than a channel holds.
THEOREM FanoutTypeOK == Spec => []TypeOK
<1>1. ScreenInv /\ AnswerInv => TypeOK
  BY DEF ScreenInv, ScreenOK, AnswerInv, AnswersOK, TypeOK
<1> QED
  BY Inductive, <1>1, PTL

\* A browser whose newest frame was not dropped will show what the hub was last
\* told, whenever it came (serveEvents registers and reads last under one lock).
THEOREM BrowsersFollowTheHub == Spec => []ClientsFollowHub
<1>1. ScreenInv => ClientsFollowHub
  BY DEF ScreenInv
<1> QED
  BY Inductive, <1>1, PTL

\* The fan-out implements AnswerStream: whichever of its goroutines runs first and
\* wherever an answer finds no room, each reaches the daemon at most once and
\* those of a device in the order they were given.
THEOREM FanoutKeepsPromise == Spec => AnswersArriveInOrder
<1>1. AnswerInv /\ [Next]_vars => [Stream!Next]_(Stream!vars)
  BY StreamNext
<1> QED
  BY Inductive, StreamInit, <1>1, PTL DEF Spec, AnswersArriveInOrder, Stream!Spec
-----------------------------------------------------------------------------
(***************************************************************************)
(* What is remembered of a command (CommandText).                          *)
(***************************************************************************)

\* A grant is remembered as the bridge knew its call.
TextInv ==
  /\ IsFiniteSet(granted) /\ Texts!TypeOK
  /\ rules = {Texts!ExtractCommand(g) : g \in granted}
  /\ how = "shown" => asked \in Text

LEMMA TextCardinality == \A S : Texts!Cardinality(S) = Cardinality(S)
BY Zenon DEF Texts!Cardinality, Cardinality

LEMMA TextInit == Texts!Init => TextInv
<1> SUFFICES ASSUME Texts!Init PROVE TextInv
  OBVIOUS
<1>1. granted = {} /\ rules = {} /\ asked = << >> /\ how = "none"
  BY DEF Texts!Init
<1>2. IsFiniteSet({}) /\ Cardinality({}) = 0 /\ MaxGrants \in Nat
  BY FS_EmptySet, TextsAssumption DEF Texts!TextAssumption
<1>3. rules = {Texts!ExtractCommand(g) : g \in granted}
  BY <1>1
<1>4. Texts!TypeOK
  BY <1>1, <1>2, TextCardinality DEF Texts!TypeOK
<1> QED
  BY <1>1, <1>2, <1>3, <1>4 DEF TextInv

\* No call is kept in more bytes than the cut leaves, with its ellipsis.
LEMMA CutLengths ==
  ASSUME NEW t \in Text
  PROVE  /\ Len(t) \in Nat /\ Len(t) > 0 /\ CommandMax \in Nat
         /\ Len(t) <= CommandMax => Texts!ExtractCommand(t) = t
         /\ Len(t) > CommandMax => Len(Texts!ExtractCommand(t)) = CommandMax + 2
         /\ Len(Texts!ExtractCommand(t)) <= CommandMax + 2
<1>1. t \in Seq(STRING) /\ t # << >> /\ CommandMax \in Nat \ {0}
  BY TextsAssumption DEF Texts!TextAssumption
<1>2. Len(t) \in Nat /\ Len(t) > 0
  BY <1>1
<1>3. ASSUME Len(t) > CommandMax PROVE Len(Texts!ExtractCommand(t)) = CommandMax + 2
  <2> DEFINE u == SubSeq(t, 1, CommandMax - 1)
             S == STRING \cup {"..."}
  <2>1. t \in Seq(S) /\ Texts!Ellipsis \in Seq(S) /\ Len(Texts!Ellipsis) = 3
    BY <1>1 DEF Texts!Ellipsis
  <2>2. u \in Seq(S) /\ Len(u) = CommandMax - 1
    BY <1>1, <1>2, <1>3, <2>1
  <2> HIDE DEF S, u
  <2>3. Len(u \o Texts!Ellipsis) = Len(u) + Len(Texts!Ellipsis)
    BY <2>1, <2>2, ConcatProperties, Zenon
  <2>4. Texts!ExtractCommand(t) = u \o Texts!Ellipsis
    BY <1>1, <1>2, <1>3 DEF Texts!ExtractCommand, Texts!Truncate, u
  <2>5. Len(Texts!ExtractCommand(t)) = Len(u) + Len(Texts!Ellipsis)
    BY <2>3, <2>4
  <2> QED
    BY <1>1, <2>1, <2>2, <2>5
<1>4. Len(t) <= CommandMax => Texts!ExtractCommand(t) = t
  BY DEF Texts!ExtractCommand, Texts!Truncate
<1> QED
  BY <1>1, <1>2, <1>3, <1>4

LEMMA TextStep == TextInv /\ [Texts!Next]_texts => TextInv'
<1> SUFFICES ASSUME TextInv, [Texts!Next]_texts PROVE TextInv'
  OBVIOUS
<1> USE DEF TextInv, Texts!TypeOK
<1>1. ASSUME NEW t \in Text, Texts!Ask(t) PROVE TextInv'
  BY <1>1 DEF Texts!Ask
<1>2. CASE Texts!AlwaysAllow
  <2>1. /\ how = "shown" /\ Cardinality(granted) < MaxGrants
        /\ granted' = granted \cup {asked}
        /\ rules' = rules \cup {Texts!ExtractCommand(asked)}
        /\ asked' = << >> /\ how' = "none"
    BY <1>2, TextCardinality DEF Texts!AlwaysAllow
  <2>2. asked \in Text
    BY <2>1
  <2>3. IsFiniteSet(granted') /\ Cardinality(granted') <= MaxGrants
    <3>1. /\ IsFiniteSet(granted \cup {asked}) /\ Cardinality(granted) \in Nat
          /\ Cardinality(granted \cup {asked}) =
               IF asked \in granted THEN Cardinality(granted) ELSE Cardinality(granted) + 1
      BY FS_AddElement, FS_CardinalityType
    <3>2. MaxGrants \in Nat
      BY TextsAssumption DEF Texts!TextAssumption
    <3> QED
      BY <2>1, <3>1, <3>2
  <2>4. rules' = {Texts!ExtractCommand(g) : g \in granted'}
    BY <2>1
  <2>5. \A r \in rules' : Len(r) <= CommandMax + 2
    BY <2>1, <2>2, CutLengths
  <2>6. granted' \subseteq Text
    BY <2>1, <2>2
  <2>7. Texts!TypeOK'
    BY <2>1, <2>3, <2>5, <2>6, TextCardinality
  <2> QED
    BY <2>1, <2>3, <2>4, <2>7
<1>3. CASE Texts!Done
  BY <1>3 DEF Texts!Done
<1>4. CASE UNCHANGED texts
  BY <1>4 DEF texts
<1> QED
  BY <1>1, <1>2, <1>3, <1>4 DEF Texts!Next

\* A text does not begin with one that is longer, with a blank behind it or not.
LEMMA PrefixesAreShorter ==
  ASSUME NEW S, NEW p \in Seq(S), NEW t \in Seq(S), Texts!TokenPrefix(p, t)
  PROVE  Len(p) <= Len(t)
<1>1. Len(p) \in Nat /\ Len(t) \in Nat
  OBVIOUS
<1>2. ASSUME NEW x, Texts!IsPrefix(Append(p, x), t) PROVE Len(p) <= Len(t)
  <2> DEFINE T == S \cup {x}
  <2>1. p \in Seq(T) /\ x \in T
    OBVIOUS
  <2> HIDE DEF T
  <2>2. Len(Append(p, x)) = Len(p) + 1
    BY <2>1
  <2> QED
    BY <1>1, <1>2, <2>2 DEF Texts!IsPrefix
<1>3. p = t \/ \E x : Texts!IsPrefix(Append(p, x), t)
  BY Zenon DEF Texts!TokenPrefix
<1> QED
  BY <1>1, <1>2, <1>3

\* The texts of all calls, and those of the grants, are sequences over one set.
Byte == STRING \cup {"..."}

LEMMA TextsAreBytes ==
  ASSUME NEW t \in Text
  PROVE  t \in Seq(Byte) /\ Texts!ExtractCommand(t) \in Seq(Byte) /\ CommandMax \in Nat \ {0}
<1>1. t \in Seq(Byte) /\ CommandMax \in Nat \ {0}
  BY TextsAssumption DEF Texts!TextAssumption, Byte
<1>2. CASE Len(t) <= CommandMax
  BY <1>1, <1>2, CutLengths
<1>3. CASE ~ (Len(t) <= CommandMax)
  <2> DEFINE u == SubSeq(t, 1, CommandMax - 1)
  <2>1. u \in Seq(Byte)
    BY <1>1, <1>3
  <2>2. Texts!Ellipsis \in Seq(Byte)
    BY DEF Texts!Ellipsis, Byte
  <2> HIDE DEF u
  <2>3. u \o Texts!Ellipsis \in Seq(Byte)
    BY <2>1, <2>2, ConcatProperties, Zenon
  <2> QED
    BY <1>1, <1>3, <2>3 DEF Texts!ExtractCommand, Texts!Truncate, u
<1> QED
  BY <1>2, <1>3

LEMMA PassesAreMeant ==
  ASSUME TextInv, Texts!Next, how' = "granted", Len(asked') <= CommandMax
  PROVE  Texts!MeantBy(asked')
<1>1. PICK t \in Text : Texts!Ask(t)
  BY DEF Texts!Next, Texts!AlwaysAllow, Texts!Done
<1>2. asked' = t /\ Texts!Allowed(t)
  BY <1>1 DEF Texts!Ask
<1>3. Texts!ExtractCommand(t) = t /\ Len(t) <= CommandMax
  BY <1>2, CutLengths
<1>4. PICK g \in granted : Texts!TokenPrefix(Texts!ExtractCommand(g), t)
  BY <1>2, <1>3 DEF Texts!Allowed, TextInv
<1>5. g \in Text
  BY DEF TextInv, Texts!TypeOK
<1>6. Len(g) <= CommandMax
  <2> SUFFICES ASSUME ~ (Len(g) <= CommandMax) PROVE FALSE
    OBVIOUS
  <2>1. Len(Texts!ExtractCommand(g)) = CommandMax + 2 /\ CommandMax \in Nat /\ Len(t) \in Nat
    BY <1>5, CutLengths
  <2>2. /\ Texts!ExtractCommand(g) \in Seq(Byte) /\ t \in Seq(Byte)
    BY <1>5, TextsAreBytes
  <2>3. Len(Texts!ExtractCommand(g)) <= Len(t)
    BY <1>4, <2>2, PrefixesAreShorter, Zenon
  <2> QED
    BY <1>3, <2>1, <2>3
<1>7. Texts!ExtractCommand(g) = g
  BY <1>5, <1>6, CutLengths
<1> QED
  BY <1>2, <1>4, <1>7 DEF Texts!MeantBy

\* What is kept cut is longer than any call that is kept whole, and so none of them
\* begins with it: whatever a call says, and wherever the cuts fall.
THEOREM ShortCallsPassAsMeant == DevicesSpec => ShortCallsAreMeant
<1>1. DevicesInit => TextInv
  BY TextInit DEF DevicesInit
<1>2. [DevicesNext]_allVars => [Texts!Next]_texts
  BY DEF DevicesNext, allVars
<1>3. TextInv /\ [Texts!Next]_texts =>
        [how' = "granted" /\ Len(asked') <= CommandMax => Texts!MeantBy(asked')]_(Texts!vars)
  BY PassesAreMeant DEF texts, Texts!vars
<1> QED
  BY <1>1, <1>2, <1>3, TextStep, PTL DEF DevicesSpec, ShortCallsAreMeant, Texts!ShortCallsAreMeant
-----------------------------------------------------------------------------
(***************************************************************************)
(* The rows of the roster (RosterView).                                    *)
(***************************************************************************)
LEMMA RowsCardinality == \A S : Rows!Cardinality(S) = Cardinality(S)
BY Zenon DEF Rows!Cardinality, Cardinality

Once(q) == \A i, j \in DOMAIN q : q[i] = q[j] => i = j

RowsInv == Rows!TypeOK /\ Once(order) /\ IsFiniteSet(Rows!Known)

LEMMA RowsFacts ==
  /\ Free \notin Sid /\ MaxSlots \in Nat \ {0} /\ "closed" \notin State
  /\ RowsInv => /\ order \in Seq(Sid) /\ DOMAIN order = 1 .. Len(order) /\ Len(order) \in Nat
                /\ state \in [Sid -> State \cup {"closed"}]
                /\ sent \in [Sid -> State \cup {"closed"}]
                /\ slots \in [1..MaxSlots -> Sid \cup {Free}]
                /\ Rows!Known = {order[i] : i \in DOMAIN order}
BY RowsAssumption DEF RowsInv, Rows!TypeOK, Rows!RosterViewAssumption, Rows!Known, Rows!Members

LEMMA RowsInit == Rows!Init => RowsInv
<1> SUFFICES ASSUME Rows!Init PROVE RowsInv
  OBVIOUS
<1>1. /\ order = << >> /\ state = [s \in Sid |-> "closed"]
      /\ sent = [s \in Sid |-> "closed"] /\ slots = [i \in 1..MaxSlots |-> Free]
  BY DEF Rows!Init
<1>2. order \in Seq(Sid) /\ Len(order) = 0 /\ DOMAIN order = {}
  BY <1>1
<1>3. Rows!Known = {}
  BY <1>2 DEF Rows!Known, Rows!Members
<1>4. IsFiniteSet({}) /\ Cardinality({}) = 0
  BY FS_EmptySet
<1>5. Rows!Cardinality(Rows!Known) = Len(order)
  BY <1>2, <1>3, <1>4, RowsCardinality
<1>6. \A i, j \in Rows!InSlot : slots[i] = slots[j] => i = j
  BY <1>1 DEF Rows!InSlot, Rows!InUse
<1>7. Rows!TypeOK
  BY <1>1, <1>2, <1>5, <1>6 DEF Rows!TypeOK
<1> QED
  BY <1>2, <1>3, <1>4, <1>7 DEF RowsInv, Once

\* An order with one more session at its end.
LEMMA Longer ==
  ASSUME NEW q \in Seq(Sid), NEW s \in Sid, Once(q), s \notin Rows!Members(q),
         IsFiniteSet(Rows!Members(q)), Cardinality(Rows!Members(q)) = Len(q)
  PROVE  LET r == Append(q, s)
         IN  /\ r \in Seq(Sid) /\ Once(r) /\ IsFiniteSet(Rows!Members(r))
             /\ Cardinality(Rows!Members(r)) = Len(r)
<1> DEFINE r == Append(q, s)
<1>1. /\ Len(q) \in Nat /\ DOMAIN q = 1 .. Len(q) /\ r \in Seq(Sid) /\ Len(r) = Len(q) + 1
      /\ DOMAIN r = 1 .. Len(q) + 1 /\ r[Len(q) + 1] = s /\ \A i \in DOMAIN q : r[i] = q[i]
  OBVIOUS
<1> HIDE DEF r
<1>2. \A i \in DOMAIN q : q[i] # s
  BY DEF Rows!Members
<1>3. Once(r)
  BY <1>1, <1>2 DEF Once
<1>4. Rows!Members(r) = Rows!Members(q) \cup {s}
  <2>1. ASSUME NEW x \in Rows!Members(r) PROVE x \in Rows!Members(q) \cup {s}
    <3>1. PICK i \in DOMAIN r : x = r[i]
      BY DEF Rows!Members
    <3>2. CASE i \in DOMAIN q
      BY <1>1, <3>1, <3>2 DEF Rows!Members
    <3>3. CASE i = Len(q) + 1
      BY <1>1, <3>1, <3>3
    <3> QED
      BY <1>1, <3>2, <3>3
  <2>2. ASSUME NEW x \in Rows!Members(q) PROVE x \in Rows!Members(r)
    <3>1. PICK i \in DOMAIN q : x = q[i]
      BY DEF Rows!Members
    <3>2. i \in DOMAIN r /\ r[i] = x
      BY <1>1, <3>1
    <3> QED
      BY <3>2 DEF Rows!Members
  <2>3. s \in Rows!Members(r)
    <3>1. Len(q) + 1 \in DOMAIN r
      BY <1>1
    <3> QED
      BY <1>1, <3>1 DEF Rows!Members
  <2> QED
    BY <2>1, <2>2, <2>3
<1>5. /\ IsFiniteSet(Rows!Members(r))
      /\ Cardinality(Rows!Members(r)) = Cardinality(Rows!Members(q)) + 1
  BY <1>4, FS_AddElement
<1> QED
  BY <1>1, <1>3, <1>5 DEF r

\* An order with one session taken out of it.
LEMMA TakenOut ==
  ASSUME NEW q \in Seq(Sid), NEW k \in DOMAIN q
  PROVE  LET r == Rows!RemoveAt(q, k)
         IN  /\ r \in Seq(Sid) /\ Len(r) = Len(q) - 1 /\ DOMAIN r = 1 .. Len(q) - 1
             /\ \A i \in DOMAIN r : r[i] = IF i < k THEN q[i] ELSE q[i + 1]
<1> DEFINE r == Rows!RemoveAt(q, k)
           u == SubSeq(q, 1, k - 1)
           w == SubSeq(q, k + 1, Len(q))
<1>1. Len(q) \in Nat /\ DOMAIN q = 1 .. Len(q) /\ k \in 1 .. Len(q)
  OBVIOUS
<1>2. /\ u \in Seq(Sid) /\ Len(u) = k - 1 /\ \A i \in 1 .. k - 1 : u[i] = q[i]
      /\ w \in Seq(Sid) /\ Len(w) = Len(q) - k /\ \A i \in 1 .. Len(q) - k : w[i] = q[k + i]
  BY <1>1
<1> HIDE DEF u, w
<1>3. /\ u \o w \in Seq(Sid) /\ Len(u \o w) = Len(u) + Len(w)
      /\ \A i \in 1 .. Len(u) + Len(w) : (u \o w)[i] = IF i <= Len(u) THEN u[i] ELSE w[i - Len(u)]
  <2>1. u \in Seq(Sid) /\ w \in Seq(Sid)
    BY <1>2
  <2> QED
    BY <2>1, ConcatProperties, Zenon
<1>4. r = u \o w
  BY DEF Rows!RemoveAt, u, w
<1> HIDE DEF r
<1>5. r \in Seq(Sid) /\ Len(r) = Len(q) - 1 /\ DOMAIN r = 1 .. Len(q) - 1
  <2>1. r \in Seq(Sid) /\ Len(r) = Len(u) + Len(w)
    BY <1>3, <1>4, Zenon
  <2>2. Len(u) = k - 1 /\ Len(w) = Len(q) - k
    BY <1>2
  <2>3. (k - 1) + (Len(q) - k) = Len(q) - 1
    BY <1>1
  <2>4. Len(r) = Len(q) - 1
    BY <2>1, <2>2, <2>3, Zenon
  <2> QED
    BY <2>1, <2>4
<1>6. \A i \in DOMAIN r : r[i] = IF i < k THEN q[i] ELSE q[i + 1]
  <2> SUFFICES ASSUME NEW i \in DOMAIN r PROVE r[i] = IF i < k THEN q[i] ELSE q[i + 1]
    OBVIOUS
  <2>1. r[i] = IF i <= k - 1 THEN u[i] ELSE w[i - (k - 1)]
    BY <1>1, <1>2, <1>3, <1>4, <1>5
  <2>2. CASE i < k
    BY <1>1, <1>2, <1>5, <2>1, <2>2
  <2>3. CASE ~ (i < k)
    <3>1. i - (k - 1) \in 1 .. Len(q) - k /\ k + (i - (k - 1)) = i + 1 /\ ~ (i <= k - 1)
      BY <1>1, <1>5, <2>3
    <3>2. w[i - (k - 1)] = q[k + (i - (k - 1))]
      BY <1>2, <3>1
    <3> QED
      BY <2>1, <2>3, <3>1, <3>2
  <2> QED
    BY <2>2, <2>3
<1> QED
  BY <1>5, <1>6 DEF r

LEMMA Shorter ==
  ASSUME NEW q \in Seq(Sid), NEW k \in DOMAIN q, Once(q),
         IsFiniteSet(Rows!Members(q)), Cardinality(Rows!Members(q)) = Len(q)
  PROVE  LET r == Rows!RemoveAt(q, k)
         IN  /\ r \in Seq(Sid) /\ Once(r) /\ IsFiniteSet(Rows!Members(r))
             /\ Cardinality(Rows!Members(r)) = Len(r)
<1> DEFINE r == Rows!RemoveAt(q, k)
<1>1. Len(q) \in Nat /\ DOMAIN q = 1 .. Len(q) /\ k \in 1 .. Len(q)
  OBVIOUS
<1>5. r \in Seq(Sid) /\ Len(r) = Len(q) - 1 /\ DOMAIN r = 1 .. Len(q) - 1
  BY TakenOut
<1>6. \A i \in DOMAIN r : r[i] = IF i < k THEN q[i] ELSE q[i + 1]
  BY TakenOut
<1> HIDE DEF r
<1>7. Once(r)
  <2> SUFFICES ASSUME NEW i \in DOMAIN r, NEW j \in DOMAIN r, r[i] = r[j] PROVE i = j
    BY DEF Once
  <2>1. i \in DOMAIN q /\ i + 1 \in DOMAIN q /\ j \in DOMAIN q /\ j + 1 \in DOMAIN q
    BY <1>1, <1>5
  <2>2. r[i] = (IF i < k THEN q[i] ELSE q[i + 1]) /\ r[j] = (IF j < k THEN q[j] ELSE q[j + 1])
    BY <1>6
  <2>3. \A x, y \in DOMAIN q : q[x] = q[y] => x = y
    BY DEF Once
  <2>4. CASE i < k /\ j < k
    BY <2>1, <2>2, <2>3, <2>4
  <2>5. CASE i < k /\ ~ (j < k)
    <3>1. q[i] = q[j + 1]
      BY <2>2, <2>5
    <3>2. i = j + 1
      BY <2>1, <2>3, <3>1
    <3> QED
      BY <1>1, <2>1, <2>5, <3>2
  <2>6. CASE ~ (i < k) /\ j < k
    <3>1. q[i + 1] = q[j]
      BY <2>2, <2>6
    <3>2. i + 1 = j
      BY <2>1, <2>3, <3>1
    <3> QED
      BY <1>1, <2>1, <2>6, <3>2
  <2>7. CASE ~ (i < k) /\ ~ (j < k)
    <3>1. q[i + 1] = q[j + 1]
      BY <2>2, <2>7
    <3>2. i + 1 = j + 1
      BY <2>1, <2>3, <3>1
    <3> QED
      BY <1>1, <2>1, <3>2
  <2> QED
    BY <2>4, <2>5, <2>6, <2>7
<1>8. Rows!Members(r) = Rows!Members(q) \ {q[k]}
  <2>1. ASSUME NEW s \in Rows!Members(r) PROVE s \in Rows!Members(q) \ {q[k]}
    <3>1. PICK i \in DOMAIN r : s = r[i]
      BY DEF Rows!Members
    <3>2. i \in DOMAIN q /\ i + 1 \in DOMAIN q
      BY <1>1, <1>5
    <3>3. r[i] = IF i < k THEN q[i] ELSE q[i + 1]
      BY <1>6
    <3>4. PICK x \in DOMAIN q : r[i] = q[x] /\ x # k
      <4>1. CASE i < k
        BY <1>1, <3>2, <3>3, <4>1
      <4>2. CASE ~ (i < k)
        <5>1. r[i] = q[i + 1] /\ i + 1 # k
          BY <1>1, <3>2, <3>3, <4>2
        <5> QED
          BY <3>2, <5>1
      <4> QED
        BY <4>1, <4>2
    <3>5. q[x] # q[k]
      BY <3>4 DEF Once
    <3>6. q[x] \in Rows!Members(q)
      BY DEF Rows!Members
    <3> QED
      BY <3>1, <3>4, <3>5, <3>6
  <2>2. ASSUME NEW s \in Rows!Members(q) \ {q[k]} PROVE s \in Rows!Members(r)
    <3>1. PICK i \in DOMAIN q : s = q[i] /\ i # k
      BY DEF Rows!Members
    <3>2. CASE i < k
      <4>1. i \in DOMAIN r
        BY <1>1, <1>5, <3>2
      <4> QED
        BY <1>6, <3>1, <3>2, <4>1 DEF Rows!Members
    <3>3. CASE ~ (i < k)
      <4>1. i - 1 \in DOMAIN r /\ ~ (i - 1 < k) /\ (i - 1) + 1 = i
        BY <1>1, <1>5, <3>1, <3>3
      <4>2. r[i - 1] = q[(i - 1) + 1]
        BY <1>6, <4>1
      <4> QED
        BY <3>1, <4>1, <4>2 DEF Rows!Members
    <3> QED
      BY <3>2, <3>3
  <2> QED
    BY <2>1, <2>2
<1>9. /\ IsFiniteSet(Rows!Members(r))
      /\ Cardinality(Rows!Members(r)) = Cardinality(Rows!Members(q)) - 1
  <2>1. q[k] \in Rows!Members(q)
    BY DEF Rows!Members
  <2> QED
    BY <1>8, <2>1, FS_RemoveElement
<1> QED
  BY <1>1, <1>5, <1>7, <1>9 DEF r

\* Rows!Min is the least: of the free places (Slot), of the places for a row (Place).
LEMMA LeastFree ==
  ASSUME NEW T, T \subseteq Nat, T # {}
  PROVE  Rows!Min(T) \in T /\ \A y \in T : Rows!Min(T) <= y
<1> DEFINE R == OpToRel(<, Nat)
<1>1. IsWellFoundedOn(R, Nat)
  BY NatLessThanWellFounded
<1>2. \A x, y \in Nat : <<y, x>> \in R <=> y < x
  BY DEF OpToRel
<1> HIDE DEF R
<1>3. PICK x \in T : \A y \in T : <<y, x>> \notin R
  BY <1>1, WFMin
<1>4. ASSUME NEW y \in T PROVE x <= y
  <2>1. ~(y < x)
    BY <1>2, <1>3
  <2> QED
    BY <2>1
<1>5. \E z \in T : \A y \in T : z <= y
  BY <1>4
<1> QED
  BY <1>5 DEF Rows!Min

\* No session has two slots.
Apart(t) == \A i, j \in DOMAIN t : t[i] # Free /\ t[i] = t[j] => i = j

LEMMA SlotsFacts == RowsInv => DOMAIN slots = 1 .. MaxSlots /\ Apart(slots)
BY RowsFacts DEF RowsInv, Rows!TypeOK, Rows!InSlot, Rows!InUse, Apart

LEMMA GivesSlot ==
  ASSUME RowsInv, NEW s \in Sid
  PROVE  Rows!Slot(s) \in [1 .. MaxSlots -> Sid \cup {Free}] /\ Apart(Rows!Slot(s))
<1>1. slots \in [1 .. MaxSlots -> Sid \cup {Free}] /\ Apart(slots) /\ MaxSlots \in Nat
  BY RowsFacts, SlotsFacts
<1>2. CASE s \in Rows!Members(slots) \/ Rows!InSlot = DOMAIN slots
  <2>1. Rows!Slot(s) = slots
    BY <1>2 DEF Rows!Slot
  <2> QED
    BY <1>1, <2>1
<1>3. CASE ~ (s \in Rows!Members(slots) \/ Rows!InSlot = DOMAIN slots)
  <2> DEFINE f == Rows!Min(DOMAIN slots \ Rows!InSlot)
  <2>1. DOMAIN slots \ Rows!InSlot \subseteq Nat /\ DOMAIN slots \ Rows!InSlot # {}
    BY <1>1, <1>3 DEF Rows!InSlot, Rows!InUse
  <2>2. f \in DOMAIN slots \ Rows!InSlot
    BY <2>1, LeastFree
  <2>3. Rows!Slot(s) = [slots EXCEPT ![f] = s]
    BY <1>3 DEF Rows!Slot
  <2> HIDE DEF f
  <2>4. \A i \in DOMAIN slots : slots[i] # s
    BY <1>3 DEF Rows!Members
  <2>5. ASSUME NEW t, t = [slots EXCEPT ![f] = s]
        PROVE  t \in [1 .. MaxSlots -> Sid \cup {Free}] /\ Apart(t)
    <3>1. /\ DOMAIN t = DOMAIN slots /\ t[f] = s /\ f \in DOMAIN slots
          /\ \A i \in DOMAIN slots : i # f => t[i] = slots[i]
      BY <1>1, <2>2, <2>5
    <3>2. Apart(t)
      BY <1>1, <2>4, <3>1 DEF Apart
    <3> QED
      BY <1>1, <2>5, <3>2
  <2> QED
    BY <2>3, <2>5
<1> QED
  BY <1>2, <1>3

\* What a step must leave of the rows, stated of the new values.
LEMMA RowsAgain ==
  ASSUME order' \in Seq(Sid), Once(order'), IsFiniteSet(Rows!Members(order')),
         Cardinality(Rows!Members(order')) = Len(order'),
         state' \in [Sid -> State \cup {"closed"}], sent' \in [Sid -> State \cup {"closed"}],
         slots' \in [1 .. MaxSlots -> Sid \cup {Free}], Apart(slots')
  PROVE  RowsInv'
<1>1. Rows!Cardinality(Rows!Members(order')) = Len(order')
  BY RowsCardinality
<1>2. \A i, j \in (Rows!InSlot)' : slots'[i] = slots'[j] => i = j
  BY DEF Rows!InSlot, Rows!InUse, Apart
<1> QED
  BY <1>1, <1>2 DEF RowsInv, Rows!TypeOK, Rows!Known

LEMMA RowsStep == RowsInv /\ [Rows!Next]_rows => RowsInv'
<1> SUFFICES ASSUME RowsInv, [Rows!Next]_rows PROVE RowsInv'
  OBVIOUS
<1>1. /\ order \in Seq(Sid) /\ Once(order) /\ IsFiniteSet(Rows!Members(order))
      /\ Cardinality(Rows!Members(order)) = Len(order)
      /\ state \in [Sid -> State \cup {"closed"}] /\ sent \in [Sid -> State \cup {"closed"}]
      /\ slots \in [1 .. MaxSlots -> Sid \cup {Free}] /\ Apart(slots)
  <2>1. Rows!Cardinality(Rows!Members(order)) = Len(order)
    BY DEF RowsInv, Rows!TypeOK, Rows!Known
  <2> QED
    BY <2>1, RowsFacts, SlotsFacts, RowsCardinality DEF RowsInv, Rows!Known
<1>2. ASSUME NEW s \in Sid, NEW st \in State, Rows!Upsert(s, st) PROVE RowsInv'
  <2>1. state' \in [Sid -> State \cup {"closed"}] /\ sent' = sent /\ slots' = slots
    BY <1>1, <1>2 DEF Rows!Upsert
  <2>2. CASE s \in Rows!Known
    <3>1. order' = order
      BY <1>2, <2>2 DEF Rows!Upsert
    <3> QED
      BY <1>1, <2>1, <3>1, RowsAgain
  <2>3. CASE s \notin Rows!Known
    <3>1. order' = Append(order, s)
      BY <1>2, <2>3 DEF Rows!Upsert
    <3>2. s \notin Rows!Members(order)
      BY <2>3 DEF Rows!Known
    <3>3. /\ order' \in Seq(Sid) /\ Once(order') /\ IsFiniteSet(Rows!Members(order'))
          /\ Cardinality(Rows!Members(order')) = Len(order')
      BY <1>1, <3>1, <3>2, Longer
    <3> QED
      BY <1>1, <2>1, <3>3, RowsAgain
  <2> QED
    BY <2>2, <2>3
<1>3. ASSUME NEW s \in Sid, Rows!Drop(s) PROVE RowsInv'
  <2>1. state' \in [Sid -> State \cup {"closed"}] /\ sent' = sent /\ slots' = slots
    BY <1>1, <1>3 DEF Rows!Drop
  <2>2. PICK k \in DOMAIN order : order' = Rows!RemoveAt(order, k)
    BY <1>3 DEF Rows!Drop
  <2>3. /\ order' \in Seq(Sid) /\ Once(order') /\ IsFiniteSet(Rows!Members(order'))
        /\ Cardinality(Rows!Members(order')) = Len(order')
    BY <1>1, <2>2, Shorter
  <2> QED
    BY <1>1, <2>1, <2>3, RowsAgain
<1>4. ASSUME NEW s \in Sid, Rows!Close(s) PROVE RowsInv'
  <2>1. order' = order /\ state' = state /\ sent' \in [Sid -> State \cup {"closed"}]
    BY <1>1, <1>4 DEF Rows!Close
  <2>2. slots' = [i \in DOMAIN slots |-> IF slots[i] = s THEN Free ELSE slots[i]]
    BY <1>4 DEF Rows!Close
  <2>3. slots' \in [1 .. MaxSlots -> Sid \cup {Free}]
    BY <1>1, <2>2
  <2>4. \A i \in DOMAIN slots' : i \in DOMAIN slots /\ (slots'[i] # Free => slots'[i] = slots[i])
    BY <1>1, <2>2
  <2>5. Apart(slots')
    BY <1>1, <2>4 DEF Apart
  <2> QED
    BY <1>1, <2>1, <2>3, <2>5, RowsAgain
<1>5. ASSUME NEW s \in Sid, Rows!Send(s) PROVE RowsInv'
  <2>1. order' = order /\ state' = state /\ sent' \in [Sid -> State \cup {"closed"}]
    BY <1>1, <1>5 DEF Rows!Send
  <2>2. slots' = Rows!Slot(s)
    BY <1>5 DEF Rows!Send
  <2>3. slots' \in [1 .. MaxSlots -> Sid \cup {Free}] /\ Apart(slots')
    BY <2>2, GivesSlot
  <2> QED
    BY <1>1, <2>1, <2>3, RowsAgain
<1>6. ASSUME Rows!Reconnect PROVE RowsInv'
  <2>1. order' = order /\ state' = state /\ sent' \in [Sid -> State \cup {"closed"}]
    BY <1>6 DEF Rows!Reconnect
  <2>2. slots' \in [1 .. MaxSlots -> Sid \cup {Free}] /\ Apart(slots')
    BY <1>1, <1>6 DEF Rows!Reconnect, Apart
  <2> QED
    BY <1>1, <2>1, <2>2, RowsAgain
<1>7. ASSUME UNCHANGED rows PROVE RowsInv'
  <2>1. order' = order /\ state' = state /\ sent' = sent /\ slots' = slots
    BY <1>7 DEF rows
  <2> QED
    BY <1>1, <2>1, RowsAgain
<1> QED
  BY <1>2, <1>3, <1>4, <1>5, <1>6, <1>7 DEF Rows!Next
-----------------------------------------------------------------------------
(* The rows, sorted by insertion *)

LEMMA CountsUp ==
  ASSUME NEW T, 0 \in T, \A n \in Nat : n \in T => n + 1 \in T
  PROVE  Nat \subseteq T
<1> SUFFICES ASSUME Nat \ T # {} PROVE FALSE
  OBVIOUS
<1> DEFINE x == Rows!Min(Nat \ T)
<1>1. x \in Nat \ T /\ \A y \in Nat \ T : x <= y
  BY LeastFree
<1> HIDE DEF x
<1>2. x # 0 /\ x - 1 \in Nat
  BY <1>1
<1>3. x - 1 \in T
  BY <1>1, <1>2
<1> QED
  BY <1>1, <1>2, <1>3
-----------------------------------------------------------------------------
\* An element put into a list at k.
PutIn(r, q, k, e) ==
  /\ r \in Seq(Nat) /\ Len(r) = Len(q) + 1 /\ r[k] = e
  /\ \A i \in 1 .. Len(r) : /\ i < k => r[i] = q[i] /\ i \in 1 .. Len(q)
                            /\ i > k => r[i] = q[i - 1] /\ i - 1 \in 1 .. Len(q)

LEMMA InsertFacts ==
  ASSUME NEW q \in Seq(Nat), NEW e \in Nat, NEW k \in 1 .. (Len(q) + 1)
  PROVE  PutIn(Rows!InsertAt(q, k, e), q, k, e)
<1> DEFINE r == Rows!InsertAt(q, k, e)
           u == SubSeq(q, 1, k - 1)
           w == SubSeq(q, k, Len(q))
           n == Len(q)
<1>1. n \in Nat /\ DOMAIN q = 1 .. n /\ k \in Nat /\ 1 <= k /\ k <= n + 1
  OBVIOUS
<1>2. /\ u \in Seq(Nat) /\ Len(u) = k - 1 /\ \A i \in 1 .. k - 1 : u[i] = q[i]
      /\ w \in Seq(Nat) /\ Len(w) = n - k + 1 /\ \A i \in 1 .. n - k + 1 : w[i] = q[k + i - 1]
  BY <1>1
<1>3. /\ <<e>> \in Seq(Nat) /\ Len(<<e>>) = 1 /\ <<e>>[1] = e
  OBVIOUS
<1>4. r = (u \o <<e>>) \o w
  BY DEF Rows!InsertAt
<1> DEFINE v == u \o <<e>>
<1> HIDE DEF u, w, n, r
<1>5. /\ v \in Seq(Nat) /\ Len(v) = k
      /\ \A i \in 1 .. k : v[i] = IF i <= k - 1 THEN u[i] ELSE <<e>>[i - (k - 1)]
  <2>1. /\ u \o <<e>> \in Seq(Nat) /\ Len(u \o <<e>>) = Len(u) + 1
        /\ \A i \in 1 .. Len(u) + 1 : (u \o <<e>>)[i] = IF i <= Len(u) THEN u[i] ELSE <<e>>[i - Len(u)]
    BY <1>2, <1>3, ConcatProperties, Zenon
  <2>2. Len(u) = k - 1 /\ (k - 1) + 1 = k
    BY <1>1, <1>2
  <2> QED
    BY <2>1, <2>2
<1>6. v[k] = e /\ \A i \in 1 .. k - 1 : v[i] = q[i]
  <2>1. v[k] = <<e>>[1]
    <3>1. k \in 1 .. k /\ ~ (k <= k - 1) /\ k - (k - 1) = 1
      BY <1>1
    <3> QED
      BY <1>5, <3>1
  <2>2. ASSUME NEW i \in 1 .. k - 1 PROVE v[i] = q[i]
    <3>1. i \in 1 .. k /\ i <= k - 1
      BY <1>1
    <3> QED
      BY <1>2, <1>5, <3>1
  <2> QED
    BY <1>3, <2>1, <2>2
<1> HIDE DEF v
<1>7. /\ r \in Seq(Nat) /\ Len(r) = k + (n - k + 1)
      /\ \A i \in 1 .. k + (n - k + 1) : r[i] = IF i <= k THEN v[i] ELSE w[i - k]
  <2>1. /\ v \o w \in Seq(Nat) /\ Len(v \o w) = Len(v) + Len(w)
        /\ \A i \in 1 .. Len(v) + Len(w) : (v \o w)[i] = IF i <= Len(v) THEN v[i] ELSE w[i - Len(v)]
    BY <1>2, <1>5, ConcatProperties, Zenon
  <2>2. r = v \o w
    BY <1>4 DEF v
  <2> QED
    BY <1>2, <1>5, <2>1, <2>2
<1>8. Len(r) = n + 1
  BY <1>1, <1>7
<1>9. ASSUME NEW i \in 1 .. n + 1
      PROVE  /\ i < k => r[i] = q[i] /\ i \in 1 .. n
             /\ i > k => r[i] = q[i - 1] /\ i - 1 \in 1 .. n
  <2>1. r[i] = IF i <= k THEN v[i] ELSE w[i - k]
    <3>1. k + (n - k + 1) = n + 1
      BY <1>1
    <3> QED
      BY <1>7, <3>1
  <2>2. CASE i < k
    <3>1. i <= k /\ i \in 1 .. k - 1 /\ i \in 1 .. n /\ ~ (i > k)
      BY <1>1, <2>2
    <3> QED
      BY <1>6, <2>1, <3>1
  <2>3. CASE i > k
    <3>1. ~ (i <= k) /\ i - k \in 1 .. n - k + 1 /\ k + (i - k) - 1 = i - 1 /\ i - 1 \in 1 .. n
          /\ ~ (i < k)
      BY <1>1, <2>3
    <3>2. w[i - k] = q[k + (i - k) - 1]
      BY <1>2, <3>1
    <3> QED
      BY <2>1, <3>1, <3>2
  <2> QED
    BY <2>2, <2>3
<1>10. r[k] = e
  <2>1. k \in 1 .. k + (n - k + 1) /\ k <= k
    BY <1>1
  <2> QED
    BY <1>6, <1>7, <2>1
<1> QED
  BY <1>7, <1>8, <1>9, <1>10 DEF PutIn, n, r
-----------------------------------------------------------------------------
\* A row comes before another by its rank, and else by its place.
Precedes(rank, i, j) == rank[i] < rank[j] \/ (rank[i] = rank[j] /\ i < j)

\* list has those among the first n that have a rank, in that order.
Sorts(list, rank, n) ==
  /\ list \in Seq(Nat)
  /\ \A i \in 1 .. Len(list) : list[i] \in DOMAIN rank /\ list[i] <= n
  /\ \A s \in DOMAIN rank : s <= n => \E i \in 1 .. Len(list) : list[i] = s
  /\ \A i, j \in 1 .. Len(list) : i < j => Precedes(rank, list[i], list[j])

Ranking(rank) == DOMAIN rank \subseteq Nat \ {0} /\ \A s \in DOMAIN rank : rank[s] \in Nat

LEMMA PlaceFacts ==
  ASSUME NEW rank, Ranking(rank), NEW n \in Nat, n + 1 \in DOMAIN rank,
         NEW q, Sorts(q, rank, n)
  PROVE  LET k == Rows!Place(q, rank, n + 1)
         IN  /\ k \in 1 .. (Len(q) + 1)
             /\ \A j \in 1 .. Len(q) : IF j < k THEN rank[q[j]] <= rank[n + 1]
                                       ELSE rank[q[j]] > rank[n + 1]
<1> DEFINE l == Len(q)
           x == rank[n + 1]
           T == {k \in 1 .. (Len(q) + 1) : \A j \in k .. Len(q) : rank[q[j]] > rank[n + 1]}
           k == Rows!Min(T)
<1>0. Rows!Place(q, rank, n + 1) = k
  BY DEF Rows!Place
<1>1. l \in Nat /\ x \in Nat
  BY DEF Sorts, Ranking
<1>2. \A j \in 1 .. l : rank[q[j]] \in Nat
  BY DEF Sorts, Ranking
<1>3. T \subseteq Nat
  OBVIOUS
<1>4. T # {}
  <2>1. l + 1 \in 1 .. (l + 1) /\ \A j \in (l + 1) .. l : FALSE
    BY <1>1
  <2>2. l + 1 \in T
    BY <2>1
  <2> QED
    BY <2>2
<1>5. k \in T /\ \A y \in T : k <= y
  <2> HIDE DEF T
  <2> QED
    BY <1>3, <1>4, LeastFree
<1>6. k \in 1 .. (l + 1) /\ \A j \in k .. l : rank[q[j]] > x
  BY <1>5
<1> HIDE DEF k
<1>7. ASSUME k > 1 PROVE rank[q[k - 1]] <= x
  <2>1. k - 1 \in 1 .. l /\ ~ (k <= k - 1)
    BY <1>1, <1>6, <1>7
  <2>2. k - 1 \notin T
    BY <1>5, <2>1
  <2>3. PICK j \in (k - 1) .. l : ~ (rank[q[j]] > x)
    BY <1>1, <2>1, <2>2
  <2>4. j = k - 1
    <3>1. j \notin k .. l
      BY <1>6, <2>3
    <3> QED
      BY <1>1, <1>6, <2>1, <3>1
  <2> QED
    BY <1>1, <1>2, <2>1, <2>3, <2>4
<1>8. ASSUME NEW j \in 1 .. l, j < k PROVE rank[q[j]] <= x
  <2>1. k - 1 \in 1 .. l /\ k > 1
    BY <1>1, <1>6, <1>8
  <2>2. rank[q[k - 1]] <= x
    BY <1>7, <2>1
  <2>3. CASE j = k - 1
    BY <2>2, <2>3
  <2>4. CASE j < k - 1
    <3>1. Precedes(rank, q[j], q[k - 1])
      BY <2>1, <2>4 DEF Sorts
    <3>2. rank[q[j]] <= rank[q[k - 1]]
      BY <1>2, <2>1, <3>1 DEF Precedes
    <3> QED
      BY <1>1, <1>2, <2>1, <2>2, <3>2
  <2> QED
    BY <1>6, <1>8, <2>3, <2>4
<1>9. ASSUME NEW j \in 1 .. l, ~ (j < k) PROVE rank[q[j]] > x
  <2>1. j \in k .. l
    BY <1>1, <1>6, <1>9
  <2> QED
    BY <1>6, <2>1
<1> QED
  BY <1>0, <1>6, <1>8, <1>9

\* One round of the insertion sort.
LEMMA InsertSorts ==
  ASSUME NEW rank, Ranking(rank), NEW n \in Nat, NEW q, Sorts(q, rank, n)
  PROVE  /\ n + 1 \notin DOMAIN rank => Sorts(q, rank, n + 1)
         /\ n + 1 \in DOMAIN rank =>
              Sorts(Rows!InsertAt(q, Rows!Place(q, rank, n + 1), n + 1), rank, n + 1)
<1>0. /\ q \in Seq(Nat) /\ Len(q) \in Nat
      /\ \A i \in 1 .. Len(q) : q[i] \in DOMAIN rank /\ q[i] <= n /\ q[i] \in Nat
      /\ \A s \in DOMAIN rank : s \in Nat /\ rank[s] \in Nat
      /\ \A s \in DOMAIN rank : s <= n => \E i \in 1 .. Len(q) : q[i] = s
      /\ \A i, j \in 1 .. Len(q) : i < j => Precedes(rank, q[i], q[j])
  BY DEF Sorts, Ranking
<1>1. ASSUME n + 1 \notin DOMAIN rank PROVE Sorts(q, rank, n + 1)
  <2>1. \A i \in 1 .. Len(q) : q[i] <= n + 1
    BY <1>0
  <2>2. \A s \in DOMAIN rank : s <= n + 1 => s <= n
    BY <1>0, <1>1
  <2> QED
    BY <1>0, <2>1, <2>2 DEF Sorts
<1>2. ASSUME n + 1 \in DOMAIN rank
      PROVE  Sorts(Rows!InsertAt(q, Rows!Place(q, rank, n + 1), n + 1), rank, n + 1)
  <2> DEFINE k == Rows!Place(q, rank, n + 1)
             r == Rows!InsertAt(q, k, n + 1)
             l == Len(q)
  <2>1. /\ k \in 1 .. (l + 1)
        /\ \A j \in 1 .. l : IF j < k THEN rank[q[j]] <= rank[n + 1]
                             ELSE rank[q[j]] > rank[n + 1]
    BY <1>2, PlaceFacts
  <2>2. PutIn(r, q, k, n + 1)
    BY <1>0, <2>1, InsertFacts
  <2> HIDE DEF k, r
  <2>3. /\ r \in Seq(Nat) /\ Len(r) = l + 1 /\ r[k] = n + 1 /\ l \in Nat /\ k \in 1 .. (l + 1)
        /\ \A i \in 1 .. (l + 1) : /\ i < k => r[i] = q[i] /\ i \in 1 .. l
                                   /\ i > k => r[i] = q[i - 1] /\ i - 1 \in 1 .. l
    BY <1>0, <2>1, <2>2 DEF PutIn
  <2>4. ASSUME NEW i \in 1 .. (l + 1) PROVE r[i] \in DOMAIN rank /\ r[i] <= n + 1
    <3>1. CASE i = k
      BY <1>2, <2>3, <3>1
    <3>2. CASE i < k
      <4>1. r[i] = q[i] /\ i \in 1 .. l
        BY <2>3, <3>2
      <4>2. q[i] \in DOMAIN rank /\ q[i] <= n /\ q[i] \in Nat
        BY <1>0, <4>1
      <4> QED
        BY <4>1, <4>2
    <3>3. CASE i > k
      <4>1. r[i] = q[i - 1] /\ i - 1 \in 1 .. l
        BY <2>3, <3>3
      <4>2. q[i - 1] \in DOMAIN rank /\ q[i - 1] <= n /\ q[i - 1] \in Nat
        BY <1>0, <4>1
      <4> QED
        BY <4>1, <4>2
    <3> QED
      BY <2>3, <3>1, <3>2, <3>3
  <2>5. ASSUME NEW s \in DOMAIN rank, s <= n + 1 PROVE \E i \in 1 .. (l + 1) : r[i] = s
    <3>1. CASE s = n + 1
      BY <2>3, <3>1
    <3>2. CASE s <= n
      <4>1. PICK i \in 1 .. l : q[i] = s
        BY <1>0, <3>2
      <4>2. CASE i < k
        BY <2>3, <4>1, <4>2
      <4>3. CASE ~ (i < k)
        <5>1. i + 1 \in 1 .. (l + 1) /\ i + 1 > k /\ (i + 1) - 1 = i
          BY <2>3, <4>3
        <5>2. r[i + 1] = q[(i + 1) - 1]
          BY <2>3, <5>1
        <5> QED
          BY <4>1, <5>1, <5>2
      <4> QED
        BY <4>2, <4>3
    <3> QED
      BY <1>0, <2>5, <3>1, <3>2
  <2>6. ASSUME NEW i \in 1 .. (l + 1), NEW j \in 1 .. (l + 1), i < j
        PROVE  Precedes(rank, r[i], r[j])
    <3>1. CASE j < k
      <4>1. i < k /\ r[i] = q[i] /\ r[j] = q[j] /\ i \in 1 .. l /\ j \in 1 .. l
        BY <2>3, <2>6, <3>1
      <4> QED
        BY <1>0, <2>6, <4>1
    <3>2. CASE j = k
      <4>1. i < k /\ r[i] = q[i] /\ i \in 1 .. l /\ r[j] = n + 1
        BY <2>3, <2>6, <3>2
      <4>2. rank[q[i]] <= rank[n + 1] /\ q[i] <= n /\ q[i] \in Nat /\ rank[q[i]] \in Nat
            /\ rank[n + 1] \in Nat
        BY <1>0, <1>2, <2>1, <4>1
      <4>3. q[i] < n + 1
        BY <4>2
      <4> QED
        BY <4>1, <4>2, <4>3 DEF Precedes
    <3>3. CASE j > k
      <4>1. r[j] = q[j - 1] /\ j - 1 \in 1 .. l
        BY <2>3, <3>3
      <4>2. CASE i < k
        <5>1. r[i] = q[i] /\ i \in 1 .. l /\ i < j - 1
          BY <2>3, <3>3, <4>2
        <5> QED
          BY <1>0, <4>1, <5>1
      <4>3. CASE i = k
        <5>1. ~ (j - 1 < k) /\ r[i] = n + 1
          BY <2>3, <2>6, <4>1, <4>3
        <5>2. rank[q[j - 1]] > rank[n + 1]
          BY <2>1, <4>1, <5>1
        <5>3. rank[q[j - 1]] \in Nat /\ rank[n + 1] \in Nat
          BY <1>0, <1>2, <4>1
        <5> QED
          BY <4>1, <5>1, <5>2, <5>3 DEF Precedes
      <4>4. CASE i > k
        <5>1. r[i] = q[i - 1] /\ i - 1 \in 1 .. l /\ i - 1 < j - 1
          BY <2>3, <2>6, <4>4
        <5> QED
          BY <1>0, <4>1, <5>1
      <4> QED
        BY <2>3, <4>2, <4>3, <4>4
    <3> QED
      BY <2>3, <3>1, <3>2, <3>3
  <2>7. Sorts(r, rank, n + 1)
    BY <2>3, <2>4, <2>5, <2>6 DEF Sorts
  <2> QED
    BY <2>7 DEF k, r
<1> QED
  BY <1>1, <1>2
-----------------------------------------------------------------------------
Round(above, rank, n) ==
  IF n \notin DOMAIN rank THEN above ELSE Rows!InsertAt(above, Rows!Place(above, rank, n), n)

\* The lists that lead to the rows, up to n.
RowsTo(at, rank, n) ==
  at = [m \in 0 .. n |-> IF m = 0 THEN << >> ELSE Round(at[m - 1], rank, m)]

LEMMA SortedRowsIs ==
  ASSUME NEW rank, NEW upto
  PROVE  Rows!SortedRows(rank, upto) = (CHOOSE at : RowsTo(at, rank, upto))[upto]
  BY Zenon DEF Rows!SortedRows, RowsTo, Round

LEMMA NoRows ==
  ASSUME NEW rank, Ranking(rank) PROVE Sorts(<< >>, rank, 0)
  BY DEF Sorts, Ranking

LEMMA RoundSorts ==
  ASSUME NEW rank, Ranking(rank), NEW n \in Nat, NEW q, Sorts(q, rank, n)
  PROVE  Sorts(Round(q, rank, n + 1), rank, n + 1)
  BY InsertSorts DEF Round

LEMMA RowsToExists ==
  ASSUME NEW rank, Ranking(rank), NEW upto \in Nat
  PROVE  \E at : RowsTo(at, rank, upto)
<1> DEFINE V == Seq(Nat)
           Q == {n \in Nat : \E at \in [0 .. n -> V] :
                   RowsTo(at, rank, n) /\ \A m \in 0 .. n : Sorts(at[m], rank, m)}
<1>1. 0 \in Q
  <2> DEFINE at == [m \in 0 .. 0 |-> << >>]
  <2>1. at \in [0 .. 0 -> V] /\ RowsTo(at, rank, 0) /\ \A m \in 0 .. 0 : Sorts(at[m], rank, m)
    BY NoRows DEF RowsTo
  <2> QED
    BY <2>1
<1>2. ASSUME NEW n \in Nat, n \in Q PROVE n + 1 \in Q
  <2>1. PICK at \in [0 .. n -> V] :
          RowsTo(at, rank, n) /\ \A m \in 0 .. n : Sorts(at[m], rank, m)
    BY <1>2
  <2> DEFINE bt == [m \in 0 .. (n + 1) |-> IF m = 0 THEN << >> ELSE Round(at[m - 1], rank, m)]
  <2>2. ASSUME NEW m \in 0 .. (n + 1) PROVE Sorts(bt[m], rank, m)
    <3>1. CASE m = 0
      BY <3>1, NoRows
    <3>2. CASE m # 0
      <4>1. m - 1 \in 0 .. n /\ m - 1 \in Nat /\ (m - 1) + 1 = m
        BY <3>2
      <4>2. Sorts(at[m - 1], rank, m - 1)
        BY <2>1, <4>1
      <4>3. Sorts(Round(at[m - 1], rank, (m - 1) + 1), rank, (m - 1) + 1)
        BY <4>1, <4>2, RoundSorts
      <4>4. bt[m] = Round(at[m - 1], rank, m)
        BY <3>2
      <4> QED
        BY <4>1, <4>3, <4>4
    <3> QED
      BY <3>1, <3>2
  <2>3. bt \in [0 .. (n + 1) -> V]
    <3>1. \A m \in 0 .. (n + 1) : bt[m] \in V
      BY <2>2 DEF Sorts
    <3>2. bt = [m \in 0 .. (n + 1) |-> bt[m]]
      OBVIOUS
    <3> HIDE DEF bt
    <3> QED
      BY <3>1, <3>2
  <2>4. \A m \in 0 .. n : bt[m] = at[m]
    <3> SUFFICES ASSUME NEW m \in 0 .. n PROVE bt[m] = at[m]
      OBVIOUS
    <3>1. m \in 0 .. (n + 1)
      OBVIOUS
    <3>2. at[m] = IF m = 0 THEN << >> ELSE Round(at[m - 1], rank, m)
      BY <2>1, Zenon DEF RowsTo
    <3> QED
      BY <3>1, <3>2, Zenon
  <2>5. ASSUME NEW m \in 0 .. (n + 1)
        PROVE  bt[m] = IF m = 0 THEN << >> ELSE Round(bt[m - 1], rank, m)
    <3>1. m # 0 => m - 1 \in 0 .. n
      OBVIOUS
    <3>2. m # 0 => bt[m - 1] = at[m - 1]
      BY <3>1, <2>4
    <3> QED
      BY <3>2, Zenon
  <2>6. RowsTo(bt, rank, n + 1)
    <3> DEFINE ct == [m \in 0 .. (n + 1) |-> IF m = 0 THEN << >> ELSE Round(bt[m - 1], rank, m)]
    <3>1. \A m \in 0 .. (n + 1) : bt[m] = ct[m]
      BY <2>5, Zenon
    <3> HIDE DEF ct
    <3>4. ct \in [0 .. (n + 1) -> V]
      <4>1. ct = [m \in 0 .. (n + 1) |-> ct[m]]
        BY DEF ct
      <4> HIDE DEF bt
      <4> QED
        BY <2>3, <3>1, <4>1
    <3> HIDE DEF bt
    <3>3. bt = ct
      BY <2>3, <3>1, <3>4
    <3> QED
      BY <3>3, Zenon DEF ct, RowsTo
  <2> HIDE DEF bt
  <2>7. \A m \in 0 .. (n + 1) : Sorts(bt[m], rank, m)
    BY <2>2
  <2>8. \E ct \in [0 .. (n + 1) -> V] :
          RowsTo(ct, rank, n + 1) /\ \A m \in 0 .. (n + 1) : Sorts(ct[m], rank, m)
    <3> HIDE DEF V
    <3> QED
      BY <2>3, <2>6, <2>7, Zenon
  <2>9. n + 1 \in Nat
    OBVIOUS
  <2> QED
    BY <2>8, <2>9, Zenon
<1> HIDE DEF Q
<1>3. Nat \subseteq Q
  BY <1>1, <1>2, CountsUp
<1> QED
  BY <1>3 DEF Q

\* The insertion sort lists the rows that have a rank, and no others: by their ranks,
\* and those of one rank by their places.  So it is stable, and what it finds is what
\* the daemon's stable sort finds.
THEOREM RowsAreSorted ==
  ASSUME NEW rank, Ranking(rank), NEW upto \in Nat
  PROVE  Sorts(Rows!SortedRows(rank, upto), rank, upto)
<1>1. PICK at : RowsTo(at, rank, upto) /\ Rows!SortedRows(rank, upto) = at[upto]
  <2> DEFINE at == CHOOSE at : RowsTo(at, rank, upto)
  <2>1. RowsTo(at, rank, upto)
    BY RowsToExists
  <2>2. Rows!SortedRows(rank, upto) = at[upto]
    BY SortedRowsIs
  <2> HIDE DEF at
  <2> QED
    BY <2>1, <2>2
<1>2. at = [m \in 0 .. upto |-> IF m = 0 THEN << >> ELSE Round(at[m - 1], rank, m)]
  BY <1>1, Zenon DEF RowsTo
<1> DEFINE Q == {n \in Nat : n <= upto => Sorts(at[n], rank, n)}
<1>3. 0 \in Q
  <2>1. at[0] = << >>
    BY <1>2
  <2> QED
    BY <2>1, NoRows
<1>4. ASSUME NEW n \in Nat, n \in Q PROVE n + 1 \in Q
  <2> SUFFICES ASSUME n + 1 <= upto PROVE Sorts(at[n + 1], rank, n + 1)
    OBVIOUS
  <2>1. Sorts(at[n], rank, n)
    BY <1>4
  <2>2. at[n + 1] = Round(at[n], rank, n + 1)
    <3> DEFINE m == n + 1
    <3>1. m \in 0 .. upto /\ m # 0 /\ m - 1 = n
      OBVIOUS
    <3> HIDE DEF m
    <3>2. at[m] = IF m = 0 THEN << >> ELSE Round(at[m - 1], rank, m)
      BY <1>2, <3>1, Zenon
    <3>3. at[m] = Round(at[n], rank, m)
      BY <3>1, <3>2
    <3> QED
      BY <3>3 DEF m
  <2> QED
    BY <2>1, <2>2, RoundSorts
<1> HIDE DEF Q
<1>5. upto \in Q
  BY <1>3, <1>4, CountsUp
<1> QED
  BY <1>1, <1>5 DEF Q
-----------------------------------------------------------------------------
\* What is above what in a list of rows.
LEMMA AboveIs ==
  ASSUME NEW X, NEW q \in Seq(X), NEW p
  PROVE  p \in Rows!Above(q) <=>
           \E i, j \in 1 .. Len(q) : i < j /\ p = <<q[i], q[j]>>
<1>1. DOMAIN q = 1 .. Len(q) /\ Len(q) \in Nat
  OBVIOUS
<1>2. p \in Rows!Above(q) <=> \E j \in DOMAIN q : \E i \in 1 .. (j - 1) : p = <<q[i], q[j]>>
  BY DEF Rows!Above
<1>3. \A j \in DOMAIN q : \A i : i \in 1 .. (j - 1) <=> i \in 1 .. Len(q) /\ i < j
  BY <1>1
<1> QED
  BY <1>1, <1>2, <1>3

\* The one of two sessions is above the other by its rank, and else by its place.
Over(ids, of, S, a, b) ==
  \E i, j \in S : /\ ids[i] = a /\ ids[j] = b
                  /\ \/ Rows!StateRank(of[a]) < Rows!StateRank(of[b])
                     \/ Rows!StateRank(of[a]) = Rows!StateRank(of[b]) /\ i < j

LEMMA RankIsNat == \A st : Rows!StateRank(st) \in Nat
  BY DEF Rows!StateRank

LEMMA ListedAbove ==
  ASSUME NEW S \in SUBSET (Nat \ {0}), NEW ids, NEW of, NEW upto \in Nat,
         \A i \in S : i <= upto,
         NEW p
  PROVE  LET l == Rows!Listed(Rows!SortedRows(Rows!Ranks(S, ids, of), upto), ids)
         IN  /\ p \in Rows!Above(l) <=>
                  \E a, b : p = <<a, b>> /\ Over(ids, of, S, a, b)
             /\ p \in Rows!Pairs(l) => \E i, j \in S : p = <<ids[i], ids[j]>>
<1> DEFINE rank == Rows!Ranks(S, ids, of)
           rs   == Rows!SortedRows(rank, upto)
           l    == Rows!Listed(rs, ids)
           X    == {ids[i] : i \in S}
<1>1. /\ DOMAIN rank = S /\ \A i \in S : rank[i] = Rows!StateRank(of[ids[i]])
      /\ \A i \in S : rank[i] \in Nat /\ i \in Nat
  BY RankIsNat DEF Rows!Ranks
<1>2. Ranking(rank)
  BY <1>1 DEF Ranking
<1>3. Sorts(rs, rank, upto)
  BY <1>2, RowsAreSorted
<1> HIDE DEF rank, rs
<1>4. /\ rs \in Seq(Nat) /\ Len(rs) \in Nat /\ DOMAIN rs = 1 .. Len(rs)
      /\ \A i \in 1 .. Len(rs) : rs[i] \in S /\ rs[i] \in Nat
      /\ \A s \in S : \E i \in 1 .. Len(rs) : rs[i] = s
      /\ \A i, j \in 1 .. Len(rs) : i < j => Precedes(rank, rs[i], rs[j])
  BY <1>1, <1>3 DEF Sorts
<1>5. l = [i \in 1 .. Len(rs) |-> ids[rs[i]]]
  BY <1>4 DEF Rows!Listed
<1>6. /\ l \in Seq(X) /\ Len(l) = Len(rs) /\ DOMAIN l = 1 .. Len(rs)
      /\ \A i \in 1 .. Len(rs) : l[i] = ids[rs[i]]
  BY <1>4, <1>5
<1> HIDE DEF l, X
<1>7. p \in Rows!Above(l) <=> \E i, j \in 1 .. Len(rs) : i < j /\ p = <<l[i], l[j]>>
  BY <1>6, AboveIs
<1>8. ASSUME NEW i \in 1 .. Len(rs), NEW j \in 1 .. Len(rs), i < j, p = <<l[i], l[j]>>
      PROVE  \E a, b : p = <<a, b>> /\ Over(ids, of, S, a, b)
  <2>1. Precedes(rank, rs[i], rs[j]) /\ rs[i] \in S /\ rs[j] \in S
    BY <1>4, <1>8
  <2>2. rank[rs[i]] = Rows!StateRank(of[ids[rs[i]]]) /\ rank[rs[j]] = Rows!StateRank(of[ids[rs[j]]])
    BY <1>1, <2>1
  <2>3. Over(ids, of, S, ids[rs[i]], ids[rs[j]])
    BY <2>1, <2>2 DEF Over, Precedes
  <2> QED
    BY <1>6, <1>8, <2>3
<1>9. ASSUME NEW a, NEW b, p = <<a, b>>, Over(ids, of, S, a, b)
      PROVE  \E i, j \in 1 .. Len(rs) : i < j /\ p = <<l[i], l[j]>>
  <2>1. PICK s \in S, t \in S :
          /\ ids[s] = a /\ ids[t] = b
          /\ \/ Rows!StateRank(of[a]) < Rows!StateRank(of[b])
             \/ Rows!StateRank(of[a]) = Rows!StateRank(of[b]) /\ s < t
    BY <1>9 DEF Over
  <2>2. rank[s] \in Nat /\ rank[t] \in Nat /\ (rank[s] < rank[t] \/ (rank[s] = rank[t] /\ s < t))
        /\ s \in Nat /\ t \in Nat
    <3>1. rank[s] = Rows!StateRank(of[ids[s]]) /\ rank[t] = Rows!StateRank(of[ids[t]])
      BY <1>1
    <3>2. rank[s] = Rows!StateRank(of[a]) /\ rank[t] = Rows!StateRank(of[b])
      BY <2>1, <3>1, Zenon
    <3>3. rank[s] < rank[t] \/ (rank[s] = rank[t] /\ s < t)
      BY <2>1, <3>2, Zenon
    <3>4. rank[s] \in Nat /\ rank[t] \in Nat /\ s \in Nat /\ t \in Nat
      BY <1>1
    <3> QED
      BY <3>3, <3>4
  <2>3. PICK i \in 1 .. Len(rs) : rs[i] = s
    BY <1>4
  <2>4. PICK j \in 1 .. Len(rs) : rs[j] = t
    BY <1>4
  <2>5. i # j
    BY <2>2, <2>3, <2>4
  <2>6. ~ (j < i)
    <3> SUFFICES ASSUME j < i PROVE FALSE
      OBVIOUS
    <3>1. Precedes(rank, t, s)
      BY <1>4, <2>3, <2>4
    <3> QED
      BY <2>2, <3>1 DEF Precedes
  <2>7. i < j
    BY <1>4, <2>5, <2>6
  <2> QED
    BY <1>6, <1>9, <2>1, <2>3, <2>4, <2>7
<1>10. p \in Rows!Pairs(l) => \E i, j \in S : p = <<ids[i], ids[j]>>
  <2> SUFFICES ASSUME p \in Rows!Pairs(l) PROVE \E i, j \in S : p = <<ids[i], ids[j]>>
    OBVIOUS
  <2>1. PICK i \in 1 .. Len(rs), j \in 1 .. Len(rs) : p = <<l[i], l[j]>>
    BY <1>6 DEF Rows!Pairs
  <2> QED
    BY <1>4, <1>6, <2>1
<1> QED
  BY <1>7, <1>8, <1>9, <1>10 DEF l, rs, rank
-----------------------------------------------------------------------------
\* The ids that two lists have in common come in the same order.
KeepsOrder(ids, S, jds, T) ==
  \A i, j \in S, k, m \in T : ids[i] = jds[k] /\ ids[j] = jds[m] /\ i < j => k < m

\* Then the rows do, as long as they keep their tiers.
LEMMA OrderIsKept ==
  ASSUME NEW S \in SUBSET (Nat \ {0}), NEW ids, NEW of, NEW l \in Nat, \A i \in S : i <= l,
         NEW T \in SUBSET (Nat \ {0}), NEW jds, NEW is, NEW m \in Nat, \A i \in T : i <= m,
         KeepsOrder(ids, S, jds, T)
  PROVE  Rows!StayPut(Rows!Listed(Rows!SortedRows(Rows!Ranks(S, ids, of), l), ids),
                      Rows!Listed(Rows!SortedRows(Rows!Ranks(T, jds, is), m), jds), of, is)
<1> DEFINE old == Rows!Listed(Rows!SortedRows(Rows!Ranks(S, ids, of), l), ids)
           new == Rows!Listed(Rows!SortedRows(Rows!Ranks(T, jds, is), m), jds)
<1>1. ASSUME NEW p
      PROVE  /\ p \in Rows!Above(old) <=> \E a, b : p = <<a, b>> /\ Over(ids, of, S, a, b)
             /\ p \in Rows!Above(new) <=> \E a, b : p = <<a, b>> /\ Over(jds, is, T, a, b)
             /\ p \in Rows!Pairs(new) => \E i, j \in T : p = <<jds[i], jds[j]>>
  BY ListedAbove
<1> HIDE DEF old, new
<1>2. ASSUME NEW p \in Rows!Above(old) \cap Rows!Pairs(new),
             \A s \in {p[1], p[2]} : Rows!StateRank(of[s]) = Rows!StateRank(is[s])
      PROVE  p \in Rows!Above(new)
  <2>1. PICK a, b : p = <<a, b>> /\ Over(ids, of, S, a, b)
    BY <1>1
  <2>2. PICK k \in T, n \in T : p = <<jds[k], jds[n]>>
    BY <1>1
  <2>3. a = jds[k] /\ b = jds[n] /\ p[1] = a /\ p[2] = b
    BY <2>1, <2>2
  <2>4. Rows!StateRank(of[a]) = Rows!StateRank(is[a]) /\ Rows!StateRank(of[b]) = Rows!StateRank(is[b])
    BY <1>2, <2>3
  <2>5. PICK i \in S, j \in S :
          /\ ids[i] = a /\ ids[j] = b
          /\ \/ Rows!StateRank(of[a]) < Rows!StateRank(of[b])
             \/ Rows!StateRank(of[a]) = Rows!StateRank(of[b]) /\ i < j
    BY <2>1 DEF Over
  <2>6. \/ Rows!StateRank(is[a]) < Rows!StateRank(is[b])
        \/ Rows!StateRank(is[a]) = Rows!StateRank(is[b]) /\ k < n
    <3>1. i < j => k < n
      BY <2>3, <2>5 DEF KeepsOrder
    <3> QED
      BY <2>4, <2>5, <3>1, Zenon
  <2>7. Over(jds, is, T, a, b)
    BY <2>3, <2>6 DEF Over
  <2> QED
    BY <1>1, <2>1, <2>7
<1> QED
  BY <1>2 DEF Rows!StayPut, old, new

\* On the simulator: prioritize on the order of the store.
LEMMA SimulatorKeeps ==
  ASSUME NEW q \in Seq(Sid), NEW r \in Seq(Sid), NEW of, NEW is,
         KeepsOrder(q, DOMAIN q, r, DOMAIN r)
  PROVE  Rows!StayPut(Rows!Prioritize(q, of), Rows!Prioritize(r, is), of, is)
<1>1. /\ DOMAIN q \in SUBSET (Nat \ {0}) /\ Len(q) \in Nat /\ \A i \in DOMAIN q : i <= Len(q)
      /\ DOMAIN r \in SUBSET (Nat \ {0}) /\ Len(r) \in Nat /\ \A i \in DOMAIN r : i <= Len(r)
  OBVIOUS
<1> QED
  BY <1>1, OrderIsKept DEF Rows!Prioritize

\* On the Dial: the slots.
LEMMA DialKeeps ==
  ASSUME NEW q \in [1 .. MaxSlots -> Sid \cup {Free}], NEW r \in [1 .. MaxSlots -> Sid \cup {Free}],
         NEW of, NEW is, KeepsOrder(q, Rows!InUse(q), r, Rows!InUse(r))
  PROVE  Rows!StayPut(Rows!DialRows(q, of), Rows!DialRows(r, is), of, is)
<1>1. MaxSlots \in Nat
  BY RowsAssumption DEF Rows!RosterViewAssumption
<1>2. /\ Rows!InUse(q) \in SUBSET (Nat \ {0}) /\ \A i \in Rows!InUse(q) : i <= MaxSlots
      /\ Rows!InUse(r) \in SUBSET (Nat \ {0}) /\ \A i \in Rows!InUse(r) : i <= MaxSlots
  BY <1>1 DEF Rows!InUse
<1> QED
  BY <1>1, <1>2, OrderIsKept DEF Rows!DialRows
-----------------------------------------------------------------------------
\* Whatever is shown to whom, the types of the four views hold: the roster lists
\* no session twice and gives none of them two slots of the Dial, and what is
\* kept of a command is a text of bytes within what a message carries.
THEOREM DevicesTypesOK == DevicesSpec => []TypesOK
<1>1. DevicesInit => ScreenInv /\ AnswerInv /\ TextInv /\ RowsInv
  BY ScreenInit, AnswersInit, TextInit, RowsInit DEF DevicesInit
<1>2. [DevicesNext]_allVars => [Next]_vars /\ [Rows!Next]_rows /\ [Texts!Next]_texts
  BY DEF DevicesNext, allVars, Next, FrameNext
<1>3. ScreenInv /\ AnswerInv /\ TextInv /\ RowsInv => TypesOK
  BY DEF ScreenInv, AnswerInv, ScreenOK, AnswersOK, TextInv, RowsInv, TypesOK, TypeOK
<1>4. ScreenInv /\ AnswerInv /\ TextInv /\ RowsInv /\ [DevicesNext]_allVars
        => ScreenInv' /\ AnswerInv' /\ TextInv' /\ RowsInv'
  <2> SUFFICES ASSUME ScreenInv, AnswerInv, TextInv, RowsInv, [DevicesNext]_allVars
               PROVE  ScreenInv' /\ AnswerInv' /\ TextInv' /\ RowsInv'
    OBVIOUS
  <2>1. [Next]_vars
    BY <1>2
  <2>2. [Rows!Next]_rows
    BY <1>2
  <2>3. [Texts!Next]_texts
    BY <1>2
  <2>4. ScreenInv'
    BY <2>1, ScreenNext
  <2>5. AnswerInv'
    BY <2>1, StreamNext
  <2>6. TextInv' /\ RowsInv'
    BY <2>2, <2>3, TextStep, RowsStep
  <2> QED
    BY <2>4, <2>5, <2>6
<1> QED
  BY <1>1, <1>3, <1>4, PTL DEF DevicesSpec
-----------------------------------------------------------------------------
\* What the actions do to the order of the store, and to the slots.
LEMMA LongerKeeps ==
  ASSUME NEW q \in Seq(Sid), NEW s \in Sid, Once(q), s \notin Rows!Members(q)
  PROVE  KeepsOrder(q, DOMAIN q, Append(q, s), DOMAIN Append(q, s))
<1> DEFINE r == Append(q, s)
<1>1. /\ Len(q) \in Nat /\ DOMAIN q = 1 .. Len(q) /\ DOMAIN r = 1 .. Len(q) + 1
      /\ r[Len(q) + 1] = s /\ \A i \in DOMAIN q : r[i] = q[i]
  OBVIOUS
<1> HIDE DEF r
<1>2. ASSUME NEW i \in DOMAIN q, NEW k \in DOMAIN r, q[i] = r[k] PROVE i = k
  <2>1. k \in DOMAIN q
    <3>1. q[i] # s
      BY DEF Rows!Members
    <3> QED
      BY <1>1, <1>2, <3>1
  <2> QED
    BY <1>1, <1>2, <2>1 DEF Once
<1> QED
  BY <1>2 DEF KeepsOrder, r

LEMMA ShorterKeeps ==
  ASSUME NEW q \in Seq(Sid), NEW k \in DOMAIN q, Once(q)
  PROVE  KeepsOrder(q, DOMAIN q, Rows!RemoveAt(q, k), DOMAIN Rows!RemoveAt(q, k))
<1> DEFINE r == Rows!RemoveAt(q, k)
<1>1. /\ Len(q) \in Nat /\ DOMAIN q = 1 .. Len(q) /\ k \in 1 .. Len(q)
      /\ DOMAIN r = 1 .. Len(q) - 1
      /\ \A i \in DOMAIN r : r[i] = IF i < k THEN q[i] ELSE q[i + 1]
  BY TakenOut
<1> HIDE DEF r
<1>2. ASSUME NEW i \in DOMAIN q, NEW m \in DOMAIN r, q[i] = r[m]
      PROVE  i = IF m < k THEN m ELSE m + 1
  <2>1. m \in DOMAIN q /\ m + 1 \in DOMAIN q
    BY <1>1
  <2>2. q[i] = IF m < k THEN q[m] ELSE q[m + 1]
    BY <1>1, <1>2
  <2> QED
    BY <2>1, <2>2 DEF Once
<1>3. ASSUME NEW i \in DOMAIN q, NEW j \in DOMAIN q, NEW m \in DOMAIN r, NEW n \in DOMAIN r,
             q[i] = r[m], q[j] = r[n], i < j
      PROVE  m < n
  <2>1. i = (IF m < k THEN m ELSE m + 1) /\ j = (IF n < k THEN n ELSE n + 1)
    BY <1>2, <1>3
  <2> QED
    BY <1>1, <1>3, <2>1
<1> QED
  BY <1>3 DEF KeepsOrder, r

\* A session that keeps its slot, and one that has no other.
LEMMA SlotsKeep ==
  ASSUME NEW q \in [1 .. MaxSlots -> Sid \cup {Free}], NEW r \in [1 .. MaxSlots -> Sid \cup {Free}],
         Apart(q), \A k \in 1 .. MaxSlots : r[k] # q[k] => r[k] \notin Rows!Members(q) \ {Free}
  PROVE  KeepsOrder(q, Rows!InUse(q), r, Rows!InUse(r))
<1>1. ASSUME NEW i \in Rows!InUse(q), NEW k \in Rows!InUse(r), q[i] = r[k] PROVE i = k
  <2>1. i \in DOMAIN q /\ k \in DOMAIN q /\ q[i] # Free /\ DOMAIN q = 1 .. MaxSlots
    BY DEF Rows!InUse
  <2>2. r[k] \in Rows!Members(q) \ {Free}
    BY <1>1, <2>1 DEF Rows!Members
  <2>3. q[k] = r[k]
    BY <2>1, <2>2
  <2> QED
    BY <1>1, <2>1, <2>3 DEF Apart
<1> QED
  BY <1>1 DEF KeepsOrder

LEMMA SlotKeeps ==
  ASSUME RowsInv, NEW s \in Sid, NEW k \in 1 .. MaxSlots, Rows!Slot(s)[k] # slots[k]
  PROVE  Rows!Slot(s)[k] \notin Rows!Members(slots) \ {Free}
<1>1. slots \in [1 .. MaxSlots -> Sid \cup {Free}]
  BY RowsFacts
<1>2. ~ (s \in Rows!Members(slots) \/ Rows!InSlot = DOMAIN slots)
  BY DEF Rows!Slot
<1>3. PICK f : Rows!Slot(s) = [slots EXCEPT ![f] = s]
  BY <1>2 DEF Rows!Slot
<1>4. Rows!Slot(s)[k] = s
  BY <1>1, <1>3
<1> QED
  BY <1>2, <1>4

LEMMA NoRowMoves ==
  ASSUME RowsInv, Rows!Next
  PROVE  Rows!NoRowJumps
<1>1. /\ order \in Seq(Sid) /\ Once(order)
      /\ slots \in [1 .. MaxSlots -> Sid \cup {Free}] /\ Apart(slots)
  BY RowsFacts, SlotsFacts DEF RowsInv
<1>2. order' \in Seq(Sid) /\ slots' \in [1 .. MaxSlots -> Sid \cup {Free}]
  <2>1. RowsInv'
    BY RowsStep
  <2> QED
    BY <2>1 DEF RowsInv, Rows!TypeOK
<1>3. KeepsOrder(order, DOMAIN order, order', DOMAIN order')
  <2>1. CASE order' = order
    BY <1>1, <2>1 DEF KeepsOrder, Once
  <2>2. ASSUME NEW s \in Sid, NEW st \in State, Rows!Upsert(s, st), order' # order
        PROVE  KeepsOrder(order, DOMAIN order, order', DOMAIN order')
    <3>1. order' = Append(order, s) /\ s \notin Rows!Members(order)
      BY <2>2 DEF Rows!Upsert, Rows!Known
    <3> QED
      BY <1>1, <3>1, LongerKeeps
  <2>3. ASSUME NEW s \in Sid, Rows!Drop(s)
        PROVE  KeepsOrder(order, DOMAIN order, order', DOMAIN order')
    <3>1. PICK k \in DOMAIN order : order' = Rows!RemoveAt(order, k)
      BY <2>3 DEF Rows!Drop
    <3> QED
      BY <1>1, <3>1, ShorterKeeps
  <2> QED
    BY <2>1, <2>2, <2>3 DEF Rows!Next, Rows!Close, Rows!Send, Rows!Reconnect
<1>4. KeepsOrder(slots, Rows!InUse(slots), slots', Rows!InUse(slots'))
  <2> SUFFICES ASSUME NEW k \in 1 .. MaxSlots, slots'[k] # slots[k]
               PROVE  slots'[k] \notin Rows!Members(slots) \ {Free}
    BY <1>1, <1>2, SlotsKeep
  <2>1. ASSUME NEW s \in Sid, Rows!Close(s) PROVE slots'[k] = Free
    BY <1>1, <2>1 DEF Rows!Close
  <2>2. ASSUME NEW s \in Sid, Rows!Send(s) PROVE slots'[k] \notin Rows!Members(slots) \ {Free}
    BY <2>2, SlotKeeps DEF Rows!Send
  <2>3. ASSUME Rows!Reconnect PROVE slots'[k] = Free
    BY <1>1, <2>3 DEF Rows!Reconnect
  <2> QED
    BY <2>1, <2>2, <2>3 DEF Rows!Next, Rows!Upsert, Rows!Drop
<1>5. Rows!StayPut(Rows!Prioritize(order, state), Rows!Prioritize(order', state'), state, state')
  BY <1>1, <1>2, <1>3, SimulatorKeeps
<1>6. Rows!StayPut(Rows!DialRows(slots, sent), Rows!DialRows(slots', sent'), sent, sent')
  BY <1>1, <1>2, <1>4, DialKeeps
<1> QED
  BY <1>5, <1>6 DEF Rows!NoRowJumps

\* Rows do not jump around, for any sessions, projects and slots: two of them change
\* places only when one changes its tier, whichever of the sorts lists them, because
\* a sort that is stable keeps the order of the store, which keeps its sessions in
\* their order, and that of the slots, which no session leaves for another.
THEOREM RowsDoStayPut == DevicesSpec => RowsStayPut
<1>1. DevicesInit => RowsInv
  BY RowsInit DEF DevicesInit
<1>2. [DevicesNext]_allVars => [Rows!Next]_rows
  BY DEF DevicesNext, allVars
<1>3. RowsInv /\ [Rows!Next]_rows => [Rows!NoRowJumps]_(Rows!vars)
  BY NoRowMoves DEF rows, Rows!vars
<1> QED
  BY <1>1, <1>2, <1>3, RowsStep, PTL DEF DevicesSpec, RowsStayPut, Rows!RowsStayPut
=============================================================================
