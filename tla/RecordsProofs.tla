--------------------------- MODULE RecordsProofs ----------------------------
(***************************************************************************)
(* Proofs about the two records the bridge keeps of what it has handed     *)
(* over: the file of what the user always allows (Rules), for any sessions *)
(* and calls, and the view of the sessions the dial was sent (BleLink),    *)
(* for any sessions, handlers, views and length of the dial's queue.       *)
(***************************************************************************)
EXTENDS Rules, BleLink, FiniteSetTheorems, WellFoundedInduction, TLAPS

(***************************************************************************)
(* The inductive invariant.  It adds to the stated properties where the    *)
(* temporary file stands while save holds the mutex, that what was put on  *)
(* disk is still there, and that memory holds every grant of the user.     *)
(***************************************************************************)
SaveInv ==
  /\ saving # "no" => up
  /\ saving = "rename" => tmp = Whole(set)
  /\ kept \subseteq file.grants
  /\ kept \subseteq word
  /\ up => word \subseteq set
  /\ FileTracksMemory

IInv == TypeOK /\ SaveInv

LEMMA ContentsFacts ==
  /\ \A grants \in SUBSET Grant :
       /\ Whole(grants) \in Contents
       /\ Whole(grants).grants = grants
       /\ Whole(grants).whole
  /\ Torn \in Contents
  /\ \A f \in Contents : f.grants \in SUBSET Grant
BY DEF Contents, Whole, Torn

LEMMA RulesInit == Init => IInv
<1> SUFFICES ASSUME Init PROVE IInv
  OBVIOUS
<1>1. {} \in SUBSET Grant
  OBVIOUS
<1>2. TypeOK
  BY <1>1, ContentsFacts DEF Init, TypeOK
<1>3. SaveInv
  BY <1>1, ContentsFacts DEF Init, SaveInv, FileTracksMemory
<1> QED
  BY <1>2, <1>3 DEF IInv

LEMMA RulesStep == IInv /\ [Next]_vars => IInv'
<1> SUFFICES ASSUME IInv, [Next]_vars PROVE IInv'
  OBVIOUS
<1> USE DEF IInv, TypeOK, SaveInv, FileTracksMemory, Idle
<1>1. ASSUME NEW s \in Sid, NEW c \in Call, Allow(s, c) PROVE IInv'
  <2>1. [session |-> s, call |-> c] \in Grant
    BY DEF Grant
  <2> QED
    BY <1>1, <2>1 DEF Allow
<1>2. ASSUME NEW s \in Sid, Forget(s) PROVE IInv'
  <2>1. GrantsOf(kept, s) = kept \cap GrantsOf(word, s)
    BY DEF GrantsOf
  <2>2. up => word \ GrantsOf(word, s) \subseteq set \ GrantsOf(set, s)
    BY DEF GrantsOf
  <2>3. TypeOK'
    BY <1>2 DEF Forget
  <2>4. SaveInv'
    BY <1>2, <2>1, <2>2 DEF Forget
  <2> QED
    BY <2>3, <2>4
<1>3. CASE WriteTmp
  BY <1>3, ContentsFacts DEF WriteTmp, history
<1>4. CASE WriteTmpFails
  <2>1. tmp' \in Contents
    BY <1>4, ContentsFacts DEF WriteTmpFails
  <2> QED
    BY <1>4, <2>1 DEF WriteTmpFails
<1>5. CASE Rename
  <2>1. tmp = Whole(set) /\ tmp.grants = set /\ tmp.whole
    BY <1>5, ContentsFacts DEF Rename
  <2> QED
    BY <1>5, <2>1 DEF Rename
<1>6. CASE RenameFails
  BY <1>6 DEF RenameFails
<1>7. CASE Crash
  <2>1. tmp' \in Contents
    BY <1>7, ContentsFacts DEF Crash
  <2> QED
    BY <1>7, <2>1 DEF Crash, history
<1>8. CASE Restart
  BY <1>8, ContentsFacts DEF Restart, Load
<1>9. CASE UNCHANGED vars
  BY <1>9 DEF vars
<1> QED
  BY <1>1, <1>2, <1>3, <1>4, <1>5, <1>6, <1>7, <1>8, <1>9 DEF Next

\* The store's variables keep their types and the file is always whole.
THEOREM RulesTypeOK == Spec => []TypeOK
<1>1. IInv => TypeOK
  BY DEF IInv
<1> QED
  BY <1>1, RulesInit, RulesStep, PTL DEF Spec

\* Unless a save has failed since the last that worked, the file and the memory
\* hold the same grants whenever the mutex is free.
THEOREM FileFollowsMemory == Spec => []FileTracksMemory
<1>1. IInv => FileTracksMemory
  BY DEF IInv, SaveInv
<1> QED
  BY <1>1, RulesInit, RulesStep, PTL DEF Spec

\* A grant that a save has put on disk is remembered over any number of
\* crashes and failed saves until its session is forgotten.
THEOREM KeptGrantsSurvive == Spec => []KeptGrantsAreRemembered
<1>1. IInv => KeptGrantsAreRemembered
  BY DEF IInv, SaveInv, KeptGrantsAreRemembered
<1> QED
  BY <1>1, RulesInit, RulesStep, PTL DEF Spec
-----------------------------------------------------------------------------
(***************************************************************************)
(* What a step may take out of the file.                                   *)
(***************************************************************************)

\* The file loses a grant only when memory has forgotten it: a save that fails or
\* is cut takes nothing out, and one that works writes what memory holds.
THEOREM FileKeepsTheRest == Spec => FileLosesOnlyTheForgotten
<1> DEFINE Forgotten == \A g \in file.grants \ file.grants' : g \notin word /\ g \notin set
<1>1. IInv /\ [Next]_vars => [Forgotten]_vars
  <2> SUFFICES ASSUME IInv, Next PROVE Forgotten
    OBVIOUS
  <2>1. CASE Rename
    <3>1. tmp.grants = set /\ word \subseteq set
      BY <2>1, ContentsFacts DEF Rename, IInv, TypeOK, SaveInv
    <3> QED
      BY <2>1, <3>1 DEF Rename
  <2>2. CASE ~Rename
    BY <2>2 DEF Next, Allow, Forget, WriteTmp, WriteTmpFails, RenameFails, Crash, Restart,
       history
  <2> QED
    BY <2>1, <2>2
<1> QED
  BY <1>1, RulesInit, RulesStep, PTL DEF Spec, FileLosesOnlyTheForgotten
-----------------------------------------------------------------------------
(***************************************************************************)
(* Matching.                                                               *)
(***************************************************************************)

\* tokenPrefix, said without lengths: the granted words, at least one, begin the
\* words of the command.
LEMMA PrefixFacts ==
  ASSUME NEW Word, NEW p \in Seq(Word), NEW q \in Seq(Word)
  PROVE  TokenPrefix(p, q) <=> \E n \in 1 .. Len(q) : SubSeq(q, 1, n) = p
<1>1. ASSUME TokenPrefix(p, q) PROVE \E n \in 1 .. Len(q) : SubSeq(q, 1, n) = p
  <2>1. Len(p) \in 1 .. Len(q) /\ \A i \in 1 .. Len(p) : q[i] = p[i]
    BY <1>1 DEF TokenPrefix
  <2>2. SubSeq(q, 1, Len(p)) = p
    BY <2>1
  <2> QED
    BY <2>1, <2>2
<1>2. ASSUME NEW n \in 1 .. Len(q), SubSeq(q, 1, n) = p PROVE TokenPrefix(p, q)
  <2>1. Len(p) = n /\ \A i \in 1 .. n : p[i] = q[i]
    BY <1>2
  <2> QED
    BY <1>2, <2>1 DEF TokenPrefix
<1> QED
  BY <1>1, <1>2

\* A grant covers a call of its session exactly when the call repeats the granted
\* one: what the code decides by lengths and tools, and what the user was told.
LEMMA CoversRepeats ==
  ASSUME NEW Tool, NEW Word, NEW g \in [session : Sid, call : [tool : Tool, words : Seq(Word)]],
         NEW s \in Sid, NEW c \in [tool : Tool, words : Seq(Word)]
  PROVE  Covers(g, s, c) <=> g.session = s /\ Repeats(c, g.call)
<1>1. g.call.words \in Seq(Word) /\ c.words \in Seq(Word)
  OBVIOUS
<1>2. TokenPrefix(g.call.words, c.words) <=>
        \E n \in 1 .. Len(c.words) : SubSeq(c.words, 1, n) = g.call.words
  BY <1>1, PrefixFacts
<1>3. ASSUME c = g.call, c.words # << >>
      PROVE  \E n \in 1 .. Len(c.words) : SubSeq(c.words, 1, n) = g.call.words
  <2>1. Len(c.words) \in 1 .. Len(c.words) /\ SubSeq(c.words, 1, Len(c.words)) = c.words
    BY <1>1, <1>3
  <2> QED
    BY <1>3, <2>1
<1>4. CASE c.tool = "Bash"
  BY <1>2, <1>3, <1>4 DEF Covers, Repeats
<1>5. CASE c.tool # "Bash"
  BY <1>5 DEF Covers, Repeats
<1> QED
  BY <1>4, <1>5

\* What the user has always allowed is allowed again, in its session and in no other,
\* with any words added to any call: whatever a word is, and however long a command.
THEOREM GrantsMatchAsTold ==
  ASSUME NEW Tool, NEW Word, Call \subseteq [tool : Tool, words : Seq(Word)]
  PROVE  Spec => []GrantedCallsPass
<1>1. IInv => GrantedCallsPass
  <2> SUFFICES ASSUME IInv, NEW s \in Sid, NEW v \in Call, NEW w \in Call
               PROVE  LET c == [v EXCEPT !.words = @ \o w.words]
                      IN  AllowedBy(set, s, c) <=>
                            \E g \in set : g.session = s /\ Repeats(c, g.call)
    BY DEF GrantedCallsPass
  <2> DEFINE c == [v EXCEPT !.words = @ \o w.words]
  <2>1. c \in [tool : Tool, words : Seq(Word)]
    <3>1. v.words \o w.words \in Seq(Word)
      OBVIOUS
    <3>2. ASSUME NEW ws \in Seq(Word)
          PROVE  [v EXCEPT !.words = ws] \in [tool : Tool, words : Seq(Word)]
      OBVIOUS
    <3> QED
      BY <3>1, <3>2
  <2>2. \A g \in set : g \in [session : Sid, call : [tool : Tool, words : Seq(Word)]]
    BY DEF IInv, TypeOK, Grant
  <2>3. \A g \in set : Covers(g, s, c) <=> g.session = s /\ Repeats(c, g.call)
    BY <2>1, <2>2, CoversRepeats
  <2> QED
    BY <2>3 DEF AllowedBy
<1> QED
  BY <1>1, RulesInit, RulesStep, PTL DEF Spec
-----------------------------------------------------------------------------
(***************************************************************************)
(* The dial's queue and table: what it will show of a session is what the  *)
(* newest message about it says, or its table where there is none.         *)
(***************************************************************************)
Entry == [sid : Session, view : View \cup {Absent}]

Newest(q, s, i) ==
  /\ i \in DOMAIN q /\ q[i].sid = s
  /\ \A j \in DOMAIN q : q[j].sid = s => j <= i

Silent(q, s) == \A i \in DOMAIN q : q[i].sid # s

ShowsOf(q, table, s) ==
  LET about == {i \in DOMAIN q : q[i].sid = s}
  IN  IF about = {} THEN table[s]
      ELSE q[CHOOSE i \in about : \A j \in about : j <= i].view

LEMMA WillShowFacts ==
  \A s : /\ WillShow(s) = ShowsOf(rxQueue, sessions, s)
         /\ WillShow(s)' = ShowsOf(rxQueue', sessions', s)
BY DEF WillShow, ShowsOf, About

\* A set of numbers up to n that is not empty has a greatest one.
LEMMA GreatestOf ==
  ASSUME NEW n \in Nat, NEW T, T \subseteq 1 .. n, T # {}
  PROVE  \E i \in T : \A j \in T : j <= i
<1> DEFINE R == OpToRel(<, Nat)
           U == {n - i : i \in T}
<1>1. IsWellFoundedOn(R, Nat)
  BY NatLessThanWellFounded
<1>2. \A x, y \in Nat : <<y, x>> \in R <=> y < x
  BY DEF OpToRel
<1>3. U \subseteq Nat /\ U # {}
  <2>1. \A i \in T : i \in Nat /\ n - i \in Nat
    OBVIOUS
  <2>2. PICK i \in T : TRUE
    OBVIOUS
  <2>3. n - i \in U
    OBVIOUS
  <2> QED
    BY <2>1, <2>3
<1> HIDE DEF R
<1>4. PICK x \in U : \A y \in U : <<y, x>> \notin R
  BY <1>1, <1>3, WFMin
<1>5. PICK i \in T : x = n - i
  BY <1>4
<1>6. ASSUME NEW j \in T PROVE j <= i
  <2>1. n - j \in U /\ n - j \in Nat /\ n - i \in Nat
    OBVIOUS
  <2>2. ~ (n - j < n - i)
    BY <1>2, <1>4, <1>5, <2>1
  <2> QED
    BY <2>2
<1> QED
  BY <1>6

LEMMA ShowsFacts ==
  ASSUME NEW q \in Seq(Entry), NEW table, NEW s
  PROVE  /\ Silent(q, s) \/ \E i : Newest(q, s, i)
         /\ Silent(q, s) => ShowsOf(q, table, s) = table[s]
         /\ \A i : Newest(q, s, i) => ShowsOf(q, table, s) = q[i].view
<1> DEFINE about == {i \in DOMAIN q : q[i].sid = s}
<1>0. DOMAIN q = 1 .. Len(q) /\ Len(q) \in Nat
  OBVIOUS
<1>1. Silent(q, s) <=> about = {}
  BY DEF Silent
<1>2. ASSUME about # {} PROVE \E i : Newest(q, s, i)
  <2>1. \E i \in about : \A j \in about : j <= i
    BY <1>0, <1>2, GreatestOf
  <2> QED
    BY <2>1 DEF Newest
<1>3. ASSUME NEW i, Newest(q, s, i) PROVE ShowsOf(q, table, s) = q[i].view
  <2> DEFINE k == CHOOSE m \in about : \A j \in about : j <= m
  <2>1. i \in about /\ \A j \in about : j <= i
    BY <1>3 DEF Newest
  <2>2. k \in about /\ \A j \in about : j <= k
    BY <2>1
  <2>3. ShowsOf(q, table, s) = q[k].view
    BY <2>1 DEF ShowsOf
  <2> HIDE DEF k
  <2>4. k = i
    BY <1>0, <2>1, <2>2
  <2> QED
    BY <2>3, <2>4
<1> QED
  BY <1>1, <1>2, <1>3 DEF ShowsOf

\* A message that is queued is the newest about its session.
LEMMA AppendShows ==
  ASSUME NEW q \in Seq(Entry), NEW table, NEW e \in Entry, NEW s
  PROVE  ShowsOf(Append(q, e), table, s) = IF e.sid = s THEN e.view ELSE ShowsOf(q, table, s)
<1> DEFINE r == Append(q, e)
<1>1. /\ Len(q) \in Nat /\ DOMAIN q = 1 .. Len(q) /\ r \in Seq(Entry)
      /\ DOMAIN r = 1 .. Len(q) + 1 /\ r[Len(q) + 1] = e
      /\ \A i \in DOMAIN q : r[i] = q[i]
  OBVIOUS
<1> HIDE DEF r
<1>2. CASE e.sid = s
  <2>1. Newest(r, s, Len(q) + 1)
    BY <1>1, <1>2 DEF Newest
  <2>2. ShowsOf(r, table, s) = r[Len(q) + 1].view
    BY <1>1, <2>1, ShowsFacts
  <2>3. ShowsOf(r, table, s) = e.view
    BY <1>1, <2>2
  <2> QED
    BY <1>2, <2>3 DEF r
<1>3. CASE e.sid # s
  <2>1. \A i : Newest(q, s, i) => Newest(r, s, i) /\ r[i] = q[i]
    BY <1>1, <1>3 DEF Newest
  <2>2. Silent(q, s) => Silent(r, s)
    BY <1>1, <1>3 DEF Silent
  <2>3. /\ Silent(r, s) => ShowsOf(r, table, s) = table[s]
        /\ \A i : Newest(r, s, i) => ShowsOf(r, table, s) = r[i].view
    BY <1>1, ShowsFacts
  <2>4. /\ Silent(q, s) \/ \E i : Newest(q, s, i)
        /\ Silent(q, s) => ShowsOf(q, table, s) = table[s]
        /\ \A i : Newest(q, s, i) => ShowsOf(q, table, s) = q[i].view
    BY ShowsFacts
  <2>5. ShowsOf(r, table, s) = ShowsOf(q, table, s)
    BY <2>1, <2>2, <2>3, <2>4
  <2> QED
    BY <1>3, <2>5 DEF r
<1> QED
  BY <1>2, <1>3

\* Handling the oldest message changes nothing of what will be shown.
LEMMA TailShows ==
  ASSUME NEW q \in Seq(Entry), q # << >>, NEW s \in Session,
         NEW T, NEW table \in [Session -> T]
  PROVE  ShowsOf(Tail(q), [table EXCEPT ![Head(q).sid] = Head(q).view], s) = ShowsOf(q, table, s)
<1> DEFINE r == Tail(q)
           t == [table EXCEPT ![Head(q).sid] = Head(q).view]
<1>1. /\ Len(q) \in Nat /\ DOMAIN q = 1 .. Len(q) /\ 1 \in DOMAIN q /\ Head(q) = q[1]
      /\ r \in Seq(Entry) /\ DOMAIN r = 1 .. Len(q) - 1
      /\ \A i \in DOMAIN r : i + 1 \in DOMAIN q /\ r[i] = q[i + 1]
  OBVIOUS
<1>2. t[s] = IF q[1].sid = s THEN q[1].view ELSE table[s]
  BY <1>1
<1> HIDE DEF r, t
<1>3. /\ Silent(r, s) => ShowsOf(r, t, s) = t[s]
      /\ \A i : Newest(r, s, i) => ShowsOf(r, t, s) = r[i].view
  BY <1>1, ShowsFacts
<1>4. /\ Silent(q, s) \/ \E i : Newest(q, s, i)
      /\ Silent(q, s) => ShowsOf(q, table, s) = table[s]
      /\ \A i : Newest(q, s, i) => ShowsOf(q, table, s) = q[i].view
  BY ShowsFacts
<1>5. CASE Silent(q, s)
  <2>1. Silent(r, s) /\ q[1].sid # s
    BY <1>1, <1>5 DEF Silent
  <2> QED
    BY <1>2, <1>3, <1>4, <1>5, <2>1 DEF r, t
<1>6. ASSUME NEW i, Newest(q, s, i)
      PROVE  ShowsOf(r, t, s) = ShowsOf(q, table, s)
  <2>1. i \in 1 .. Len(q) /\ q[i].sid = s
    BY <1>1, <1>6 DEF Newest
  <2>2. CASE i = 1
    <3>1. \A j \in DOMAIN r : ~ (j + 1 <= 1)
      BY <1>1
    <3>2. Silent(r, s)
      BY <1>1, <1>6, <2>2, <3>1 DEF Silent, Newest
    <3> QED
      BY <1>2, <1>3, <1>4, <1>6, <2>1, <2>2, <3>2
  <2>3. CASE i # 1
    <3>1. i - 1 \in DOMAIN r /\ r[i - 1] = q[i]
      <4>1. i - 1 \in DOMAIN r /\ (i - 1) + 1 = i
        BY <1>1, <2>1, <2>3
      <4> QED
        BY <1>1, <4>1
    <3>2. ASSUME NEW j \in DOMAIN r, r[j].sid = s PROVE j <= i - 1
      <4>1. j + 1 <= i
        BY <1>1, <1>6, <3>2 DEF Newest
      <4> QED
        BY <1>1, <2>1, <4>1
    <3>3. Newest(r, s, i - 1)
      BY <2>1, <3>1, <3>2 DEF Newest
    <3> QED
      BY <1>3, <1>4, <1>6, <3>1, <3>3
  <2> QED
    BY <2>2, <2>3
<1> QED
  BY <1>4, <1>5, <1>6 DEF r, t

\* Whether a message about a session is queued, after one is added or taken out.
LEMMA SilenceFacts ==
  ASSUME NEW q \in Seq(Entry), NEW s
  PROVE  /\ \A e \in Entry : Silent(Append(q, e), s) <=> Silent(q, s) /\ e.sid # s
         /\ q # << >> => (Silent(q, s) <=> Silent(Tail(q), s) /\ Head(q).sid # s)
<1>1. ASSUME NEW e \in Entry PROVE Silent(Append(q, e), s) <=> Silent(q, s) /\ e.sid # s
  <2> DEFINE r == Append(q, e)
  <2>1. /\ Len(q) \in Nat /\ DOMAIN q = 1 .. Len(q) /\ DOMAIN r = 1 .. Len(q) + 1
        /\ r[Len(q) + 1] = e /\ \A i \in DOMAIN q : r[i] = q[i]
    OBVIOUS
  <2> HIDE DEF r
  <2>2. Silent(r, s) <=> Silent(q, s) /\ e.sid # s
    BY <2>1 DEF Silent
  <2> QED
    BY <2>2 DEF r
<1>2. ASSUME q # << >> PROVE Silent(q, s) <=> Silent(Tail(q), s) /\ Head(q).sid # s
  <2> DEFINE r == Tail(q)
  <2>1. /\ Len(q) \in Nat /\ DOMAIN q = 1 .. Len(q) /\ 1 \in DOMAIN q /\ Head(q) = q[1]
        /\ DOMAIN r = 1 .. Len(q) - 1
        /\ \A i \in DOMAIN r : i + 1 \in DOMAIN q /\ r[i] = q[i + 1]
    BY <1>2
  <2>2. \A i \in DOMAIN q : i = 1 \/ (i - 1 \in DOMAIN r /\ r[i - 1] = q[i])
    <3>1. \A i \in DOMAIN q : i # 1 => i - 1 \in 1 .. Len(q) - 1 /\ (i - 1) + 1 = i
      BY <2>1
    <3> QED
      BY <2>1, <3>1
  <2> HIDE DEF r
  <2>3. ASSUME Silent(q, s) PROVE Silent(r, s) /\ q[1].sid # s
    BY <2>1, <2>3 DEF Silent
  <2>4. ASSUME Silent(r, s), q[1].sid # s PROVE Silent(q, s)
    BY <2>2, <2>4 DEF Silent
  <2> QED
    BY <2>1, <2>3, <2>4 DEF r
<1> QED
  BY <1>1, <1>2

\* What the dial shows, or is about to, as a function of queue, table and the rows
\* the dial has changed by itself.
Standing(q, table, own, s, v) ==
  IF s \in own /\ Silent(q, s) THEN table[s] \in OwnRow(v) ELSE ShowsOf(q, table, s) = v

LEMMA StandsForFacts ==
  \A s, v : /\ StandsFor(s, v) <=> Standing(rxQueue, sessions, settled, s, v)
            /\ StandsFor(s, v)' <=> Standing(rxQueue', sessions', settled', s, v')
<1>1. \A s : (About(s) = {} <=> Silent(rxQueue, s)) /\ (About(s)' = {} <=> Silent(rxQueue', s))
  BY DEF About, Silent
<1> QED
  BY <1>1, WillShowFacts DEF StandsFor, Standing
-----------------------------------------------------------------------------
(***************************************************************************)
(* The link, and what the writer takes for delivered.                      *)
(***************************************************************************)
LEMMA LinkInitial == LinkInit => LinkTypeOK
<1> SUFFICES ASSUME LinkInit PROVE LinkTypeOK
  OBVIOUS
<1>1. Nowhere \in Snapshot /\ Nowhere \in [Session -> Row]
  BY DEF Nowhere, Snapshot, Row
<1>2. cur \in [todo -> View \cup {Absent}]
  BY DEF LinkInit
<1>3. rxQueue \in Seq([sid : Session, view : View \cup {Absent}]) /\ Len(rxQueue) <= MaxRx
  BY BleAssumption DEF LinkInit
<1> QED
  BY <1>1, <1>2, <1>3 DEF LinkInit, LinkTypeOK

\* A row the dial makes of one it was told of has a state of the dial's, and the
\* command it had.
LEMMA OwnRowIs ==
  ASSUME NEW v \in View \cup {Absent}
  PROVE  OwnRow(v) = {[state |-> state, command |-> v.command] : state \in {"idle", "working"}}
<1>1. ASSUME NEW a PROVE [v EXCEPT !.state = a] = [state |-> a, command |-> v.command]
  <2>1. CASE v = Absent
    <3>1. \A x, y : [[state |-> x, command |-> y] EXCEPT !.state = a] = [state |-> a, command |-> y]
      OBVIOUS
    <3> QED
      BY <2>1, <3>1 DEF Absent
  <2>2. CASE v \in View
    <3>1. v \in [state : STRING, command : STRING]
      BY <2>2, BleAssumption
    <3> QED
      BY <3>1
  <2> QED
    BY <2>1, <2>2
<1> QED
  BY <1>1 DEF OwnRow

\* What it makes of a row it has made already, it might have made at once.
LEMMA OwnRowOfOwn ==
  ASSUME NEW v \in View \cup {Absent}, NEW row \in OwnRow(v)
  PROVE  /\ row.state \in {"idle", "working"} /\ OwnRow(row) = OwnRow(v)
<1>1. PICK a \in {"idle", "working"} : row = [state |-> a, command |-> v.command]
  BY OwnRowIs
<1>2. \A b : [row EXCEPT !.state = b] = [state |-> b, command |-> v.command]
  BY <1>1
<1>3. OwnRow(row) = {[state |-> b, command |-> v.command] : b \in {"idle", "working"}}
  BY <1>2 DEF OwnRow
<1> QED
  BY <1>1, <1>3, OwnRowIs

LEMMA OwnRowTypes ==
  ASSUME NEW v \in Row \ {Absent}, NEW row \in OwnRow(v)
  PROVE  row \in Row /\ row.state \in {"idle", "working"}
<1>1. CASE v \in View
  BY <1>1, OwnRowOfOwn DEF Row
<1>2. ASSUME NEW u \in View, v \in OwnRow(u) PROVE row \in Row /\ row.state \in {"idle", "working"}
  <2>1. row \in OwnRow(u)
    BY <1>2, OwnRowOfOwn
  <2> QED
    BY <2>1, OwnRowOfOwn DEF Row
<1> QED
  BY <1>1, <1>2 DEF Row

\* What the writer is left with, when it is done with a session.
LEMMA LessToDo ==
  ASSUME LinkTypeOK, NEW s \in todo, DoneWith(s)
  PROVE  todo' \subseteq Session /\ cur' \in [todo' -> View \cup {Absent}]
BY DEF LinkTypeOK, DoneWith

\* The queue after a write, whether it was kept or not.
LEMMA WriteQueues ==
  ASSUME LinkTypeOK, NEW s \in todo, OnWrite(s)
  PROVE  rxQueue' \in Seq(Entry) /\ Len(rxQueue') <= MaxRx
<1> DEFINE e == [sid |-> s, view |-> cur[s]]
<1>1. e \in Entry /\ rxQueue \in Seq(Entry) /\ Len(rxQueue) <= MaxRx /\ MaxRx \in Nat
  BY BleAssumption DEF LinkTypeOK, Entry
<1> HIDE DEF e
<1>2. CASE Kept(s)
  <2>1. rxQueue' = Append(rxQueue, e) /\ Len(rxQueue) < MaxRx
    BY <1>2 DEF OnWrite, Kept, e
  <2> QED
    BY <1>1, <2>1
<1>3. CASE ~Kept(s)
  BY <1>1, <1>3 DEF OnWrite
<1> QED
  BY <1>2, <1>3

\* A message that is handled changes the table, and nothing of what it will be.
LEMMA HandleShows ==
  ASSUME LinkTypeOK, Handle
  PROVE  /\ rxQueue' \in Seq(Entry) /\ Len(rxQueue') <= MaxRx
         /\ sessions' \in [Session -> Row]
         /\ prompted' \subseteq Session /\ settled' \subseteq Session
         /\ \A s \in settled' : s \in settled /\ sessions'[s] = sessions[s]
         /\ \A s \in Session : \A v : StandsFor(s, v) =>
               Standing(rxQueue', sessions', settled', s, v)
         /\ \A s \in Session : WillShow(s)' = WillShow(s)
<1> DEFINE m == Head(rxQueue)
<1>1. /\ rxQueue \in Seq(Entry) /\ Len(rxQueue) <= MaxRx /\ MaxRx \in Nat
      /\ sessions \in [Session -> Row] /\ prompted \subseteq Session /\ settled \subseteq Session
  BY BleAssumption DEF LinkTypeOK, Entry
<1>2. /\ rxQueue # << >> /\ rxQueue' = Tail(rxQueue)
      /\ sessions' = [sessions EXCEPT ![m.sid] = m.view]
      /\ settled' = settled \ {m.sid}
      /\ prompted' \subseteq prompted \cup {m.sid}
  BY DEF Handle
<1>3. rxQueue' \in Seq(Entry) /\ Len(rxQueue') <= MaxRx /\ m \in Entry
  BY <1>1, <1>2
<1>4. m.sid \in Session /\ m.view \in Row
  BY <1>3 DEF Entry, Row
<1> HIDE DEF m
<1>5. /\ sessions' \in [Session -> Row] /\ prompted' \subseteq Session /\ settled' \subseteq Session
      /\ \A s \in Session : s # m.sid => sessions'[s] = sessions[s]
  BY <1>1, <1>2, <1>4
<1>6. ASSUME NEW s \in Session
      PROVE  ShowsOf(rxQueue', sessions', s) = ShowsOf(rxQueue, sessions, s)
  <2>1. ShowsOf(Tail(rxQueue), [sessions EXCEPT ![Head(rxQueue).sid] = Head(rxQueue).view], s)
          = ShowsOf(rxQueue, sessions, s)
    BY <1>1, <1>2, TailShows
  <2> QED
    BY <1>2, <2>1 DEF m
<1>7. ASSUME NEW s \in Session, NEW v, StandsFor(s, v)
      PROVE  Standing(rxQueue', sessions', settled', s, v)
  <2>1. Standing(rxQueue, sessions, settled, s, v)
    BY <1>7, StandsForFacts
  <2>2. Silent(rxQueue, s) <=> Silent(rxQueue', s) /\ m.sid # s
    BY <1>1, <1>2, SilenceFacts DEF m
  <2>3. CASE s = m.sid
    BY <1>2, <1>6, <2>1, <2>2, <2>3 DEF Standing
  <2>4. CASE s # m.sid
    BY <1>2, <1>5, <1>6, <2>1, <2>2, <2>4 DEF Standing
  <2> QED
    BY <2>3, <2>4
<1> QED
  BY <1>2, <1>3, <1>5, <1>6, <1>7, WillShowFacts

\* The end of a round leaves the table's types, and changes no row but one that waits
\* for an answer.
LEMMA NoteTypes ==
  ASSUME LinkTypeOK, NoteLink
  PROVE  /\ sessions' \in [Session -> Row]
         /\ prompted' \subseteq Session /\ settled' \subseteq Session
<1>1. CASE UNCHANGED rows
  BY <1>1 DEF LinkTypeOK, rows
<1>2. ASSUME NEW s \in Session, Settle(s)
      PROVE  /\ sessions' \in [Session -> Row]
             /\ prompted' \subseteq Session /\ settled' \subseteq Session
  <2>1. PICK row \in OwnRow(sessions[s]) : sessions' = [sessions EXCEPT ![s] = row]
    BY <1>2 DEF Settle
  <2>2. sessions[s] \in Row \ {Absent} /\ sessions \in [Session -> Row]
    BY <1>2 DEF Settle, LinkTypeOK
  <2>3. row \in Row
    BY <2>2, OwnRowTypes
  <2> QED
    BY <1>2, <2>1, <2>2, <2>3 DEF Settle, LinkTypeOK
<1> QED
  BY <1>1, <1>2 DEF NoteLink

LEMMA LinkTyped == LinkTypeOK /\ [LinkNext]_linkVars => LinkTypeOK'
<1> SUFFICES ASSUME LinkTypeOK, [LinkNext]_linkVars PROVE LinkTypeOK'
  OBVIOUS
<1> USE DEF LinkTypeOK, writer, dial, rows
<1>1. Nowhere \in Snapshot /\ Nowhere \in [Session -> Row]
  BY DEF Nowhere, Snapshot, Row
<1>2. CASE Change
  <2>1. PICK s \in Session, v \in View \cup {Absent} : store' = [store EXCEPT ![s] = v]
    BY <1>2, BleAssumption DEF Change
  <2>2. store' \in Snapshot
    BY <2>1 DEF Snapshot
  <2> QED
    BY <1>2, <2>2 DEF Change
<1>3. CASE Broadcast
  BY <1>3 DEF Broadcast
<1>4. ASSUME NEW h \in Handler, TakeSnapshot(h) PROVE LinkTypeOK'
  BY <1>4 DEF TakeSnapshot
<1>5. ASSUME NEW h \in Handler, Update(h) PROVE LinkTypeOK'
  <2>1. held[h] \in Snapshot
    BY <1>5 DEF Update
  <2> QED
    BY <1>5, <2>1 DEF Update
<1>6. CASE Begin
  <2>1. pending \in Snapshot /\ landed = {}
    BY <1>6 DEF Begin
  <2>2. todo' \subseteq Session /\ cur' \in [todo' -> View \cup {Absent}]
    BY <1>6, <2>1 DEF Begin, Snapshot
  <2> QED
    BY <1>6, <2>1, <2>2 DEF Begin
<1>7. ASSUME NEW s \in Session, Write(s) PROVE LinkTypeOK'
  <2>1. s \in todo /\ landed' = {s} /\ mislaid' \subseteq Session
    BY <1>7 DEF Write, InTurn
  <2>2. rxQueue' \in Seq(Entry) /\ Len(rxQueue') <= MaxRx
    BY <1>7, <2>1, WriteQueues DEF Write
  <2> QED
    BY <1>7, <2>1, <2>2 DEF Write, Entry
<1>8. ASSUME NEW s \in Session, WriteFails(s) PROVE LinkTypeOK'
  <2>1. s \in todo /\ landed = {} /\ landed' = {} /\ mislaid' \subseteq Session
    BY <1>8 DEF WriteFails, InTurn
  <2>2. rxQueue' \in Seq(Entry) /\ Len(rxQueue') <= MaxRx
    BY <1>8, <2>1, WriteQueues DEF WriteFails, Entry
  <2>3. todo' \subseteq Session /\ cur' \in [todo' -> View \cup {Absent}]
    BY <1>8, <2>1, LessToDo DEF WriteFails
  <2> QED
    BY <1>8, <2>1, <2>2, <2>3 DEF WriteFails, Entry
<1>9. ASSUME NEW s \in Session, Record(s) PROVE LinkTypeOK'
  <2>1. s \in todo /\ landed' = {}
    BY <1>9 DEF Record
  <2>2. todo' \subseteq Session /\ cur' \in [todo' -> View \cup {Absent}]
    BY <1>9, <2>1, LessToDo DEF Record
  <2>3. last' \in Snapshot
    BY <1>9, <2>1 DEF Record, Snapshot
  <2> QED
    BY <1>9, <2>1, <2>2, <2>3 DEF Record
<1>10. CASE Connect
  BY <1>10 DEF Connect
<1>11. CASE Setup
  BY <1>1, <1>11 DEF Setup
<1>12. CASE Connected
  BY <1>12 DEF Connected
<1>13. CASE Disconnected
  BY <1>1, <1>13 DEF Disconnected
<1>14. CASE Drop
  BY <1>14 DEF Drop
<1>15. CASE Handle
  BY <1>15, HandleShows DEF Handle, Entry
<1>16. CASE Drained
  BY <1>16 DEF Drained
<1>17. CASE CheckLink
  BY <1>1, <1>17 DEF CheckLink
<1>18. CASE NoteLink
  BY <1>18, NoteTypes DEF NoteLink
<1>19. CASE UNCHANGED linkVars
  BY <1>19 DEF linkVars
<1> QED
  BY <1>2, <1>3, <1>4, <1>5, <1>6, <1>7, <1>8, <1>9, <1>10, <1>11, <1>12, <1>13, <1>14,
     <1>15, <1>16, <1>17, <1>18, <1>19 DEF LinkNext

\* Type correctness of the link, its two ends, and the queue between them.
THEOREM LinkTypesOK == LinkSpec => []LinkTypeOK
BY LinkInitial, LinkTyped, PTL DEF LinkSpec

\* While the dial has a link and the writer not yet, what may be left on the dial is
\* what the link found there.
Clear == conn = "down" /\ bleConnected =>
           \A s \in Session \ mislaid : ShowsOf(rxQueue, sessions, s) = Absent

\* What the writer holds the dial to show of a session.
Taken(s) == IF s \in landed THEN cur[s] ELSE last[s]

\* From setup on, the dial will show what the writer takes for delivered, and of a
\* session whose write has landed what was written, or what it made of it.
Truth == conn # "down" /\ bleConnected =>
           \A s \in Session \ mislaid : Standing(rxQueue, sessions, settled, s, Taken(s))

\* A row that the dial has changed is in a state of the dial's.
Own == \A s \in settled : sessions[s].state \in {"idle", "working"}

LinkInv == Clear /\ Truth /\ Own

\* The same of the next state.
LEMMA LinkInvNext ==
  /\ Clear' <=> (conn' = "down" /\ bleConnected' =>
                   \A s \in Session \ mislaid' : ShowsOf(rxQueue', sessions', s) = Absent)
  /\ Truth' <=> (conn' # "down" /\ bleConnected' =>
                   \A s \in Session \ mislaid' :
                     Standing(rxQueue', sessions', settled', s,
                              IF s \in landed' THEN cur'[s] ELSE last'[s]))
<1>1. \A s : ShowsOf(rxQueue, sessions, s)' = ShowsOf(rxQueue', sessions', s)
  BY DEF ShowsOf
<1>2. \A s : Standing(rxQueue, sessions, settled, s, Taken(s))' =
             Standing(rxQueue', sessions', settled', s,
                      IF s \in landed' THEN cur'[s] ELSE last'[s])
  BY DEF Standing, Silent, ShowsOf, Taken
<1> QED
  BY <1>1, <1>2 DEF Clear, Truth

\* A write that is kept decides what its session stands for, and leaves the others alone.
LEMMA WriteStands ==
  ASSUME LinkTypeOK, NEW s \in todo, OnWrite(s), Kept(s), UNCHANGED <<sessions, settled>>
  PROVE  /\ \A r : ShowsOf(rxQueue', sessions', r) = IF r = s THEN cur[s]
                                                     ELSE ShowsOf(rxQueue, sessions, r)
         /\ Standing(rxQueue', sessions', settled', s, cur[s])
         /\ \A r, v : r # s => (Standing(rxQueue', sessions', settled', r, v)
                                  <=> Standing(rxQueue, sessions, settled, r, v))
<1> DEFINE e == [sid |-> s, view |-> cur[s]]
<1>1. e \in Entry /\ rxQueue \in Seq(Entry) /\ e.sid = s /\ e.view = cur[s]
  BY DEF LinkTypeOK, Entry
<1>2. rxQueue' = Append(rxQueue, e)
  BY DEF OnWrite
<1> HIDE DEF e
<1>3. \A r : ShowsOf(rxQueue', sessions', r) = IF r = s THEN cur[s]
                                               ELSE ShowsOf(rxQueue, sessions, r)
  BY <1>1, <1>2, AppendShows
<1>4. \A r : Silent(rxQueue', r) <=> Silent(rxQueue, r) /\ r # s
  BY <1>1, <1>2, SilenceFacts
<1> QED
  BY <1>3, <1>4 DEF Standing

\* An answer that the dial sends moves a row to another the dial may make of it.
LEMMA SettleStands ==
  ASSUME LinkTypeOK, Own, NEW s \in Session, Settle(s), UNCHANGED rxQueue
  PROVE  /\ Own'
         /\ \A r \in Session : ShowsOf(rxQueue, sessions, r) = Absent =>
                                 ShowsOf(rxQueue', sessions', r) = Absent
         /\ \A r \in Session : \A v \in View \cup {Absent} :
              Standing(rxQueue, sessions, settled, r, v) =>
                Standing(rxQueue', sessions', settled', r, v)
<1>1. PICK row \in OwnRow(sessions[s]) : sessions' = [sessions EXCEPT ![s] = row]
  BY DEF Settle
<1>2. /\ sessions[s] \in Row \ {Absent} /\ sessions \in [Session -> Row]
      /\ settled' = settled \cup {s} /\ settled \subseteq Session
      /\ rxQueue \in Seq(Entry) /\ rxQueue' = rxQueue
  BY DEF Settle, LinkTypeOK, Entry
<1>3. row.state \in {"idle", "working"}
  BY <1>2, OwnRowTypes
<1>4. \A r \in Session : sessions'[r] = IF r = s THEN row ELSE sessions[r]
  BY <1>1, <1>2
<1>5. Own'
  BY <1>2, <1>3, <1>4 DEF Own
<1>6. \A table : /\ Silent(rxQueue, s) => ShowsOf(rxQueue, table, s) = table[s]
                 /\ ~Silent(rxQueue, s) => \E i : Newest(rxQueue, s, i) /\
                                             ShowsOf(rxQueue, table, s) = rxQueue[i].view
  BY <1>2, ShowsFacts
<1>7. ~Silent(rxQueue, s) => ShowsOf(rxQueue', sessions', s) = ShowsOf(rxQueue, sessions, s)
  BY <1>2 DEF ShowsOf, Silent
<1>8. \A r \in Session : r # s => ShowsOf(rxQueue', sessions', r) = ShowsOf(rxQueue, sessions, r)
  BY <1>2, <1>4 DEF ShowsOf
<1>9. ASSUME NEW r \in Session, ShowsOf(rxQueue, sessions, r) = Absent
      PROVE  ShowsOf(rxQueue', sessions', r) = Absent
  BY <1>2, <1>6, <1>7, <1>8, <1>9
<1>10. ASSUME NEW r \in Session, NEW v \in View \cup {Absent},
              Standing(rxQueue, sessions, settled, r, v)
       PROVE  Standing(rxQueue', sessions', settled', r, v)
  <2>1. CASE r # s
    BY <1>2, <1>4, <1>8, <1>10, <2>1 DEF Standing
  <2>2. CASE r = s /\ ~Silent(rxQueue, s)
    BY <1>2, <1>7, <1>10, <2>2 DEF Standing
  <2>3. CASE r = s /\ Silent(rxQueue, s)
    <3>1. sessions[s] = v \/ sessions[s] \in OwnRow(v)
      BY <1>6, <1>10, <2>3 DEF Standing
    <3>2. row \in OwnRow(v)
      BY <3>1, OwnRowOfOwn
    <3> QED
      BY <1>2, <1>4, <2>3, <3>2 DEF Standing
  <2> QED
    BY <2>1, <2>2, <2>3
<1> QED
  BY <1>5, <1>9, <1>10

LEMMA LinkInvStep == LinkTypeOK /\ LinkInv /\ [LinkNext]_linkVars => LinkInv'
<1> SUFFICES ASSUME LinkTypeOK, Clear, Truth, Own, [LinkNext]_linkVars
             PROVE  Clear' /\ Truth' /\ Own'
  BY DEF LinkInv
<1> USE DEF writer, dial, rows
<1>0. landed \subseteq Session /\ landed \subseteq todo /\ todo \subseteq Session
      /\ \A r, s \in landed : r = s
  BY DEF LinkTypeOK
<1>1. CASE \/ Change \/ Broadcast \/ \E h \in Handler : TakeSnapshot(h) \/ Update(h)
           \/ Connected \/ Drained \/ UNCHANGED linkVars
  <2> DEFINE Same == /\ UNCHANGED <<bleConnected, mislaid, landed, last, cur, rxQueue, sessions,
                                    settled>>
                     /\ conn' = "down" <=> conn = "down"
  <2>1. Same
    <3>1. CASE Change
      BY <3>1 DEF Change
    <3>2. CASE Broadcast
      BY <3>2 DEF Broadcast
    <3>3. ASSUME NEW h \in Handler, TakeSnapshot(h) PROVE Same
      BY <3>3 DEF TakeSnapshot
    <3>4. ASSUME NEW h \in Handler, Update(h) PROVE Same
      BY <3>4 DEF Update
    <3>5. CASE Connected
      BY <3>5 DEF Connected
    <3>6. CASE Drained
      BY <3>6 DEF Drained
    <3>7. CASE UNCHANGED linkVars
      BY <3>7 DEF linkVars
    <3> HIDE DEF Same
    <3> QED
      BY <1>1, <3>1, <3>2, <3>3, <3>4, <3>5, <3>6, <3>7
  <2> QED
    BY <2>1, LinkInvNext DEF Clear, Truth, Own, Taken
<1>2. CASE Begin
  <2>1. landed = {} /\ UNCHANGED <<bleConnected, mislaid, landed, last, conn, rxQueue, sessions,
                                   settled>>
    BY <1>0, <1>2 DEF Begin
  <2> QED
    BY <2>1, LinkInvNext DEF Clear, Truth, Own, Taken
<1>3. ASSUME NEW s \in Session, Write(s) PROVE Clear' /\ Truth' /\ Own'
  <2>1. /\ s \in todo /\ landed = {} /\ conn # "down" /\ bleConnected /\ OnWrite(s)
        /\ landed' = {s} /\ UNCHANGED <<conn, bleConnected, last, cur, sessions, settled>>
        /\ mislaid' = IF Kept(s) THEN mislaid \ {s} ELSE mislaid \cup {s}
    BY <1>3 DEF Write, InTurn
  <2>2. \A r \in Session \ mislaid : Standing(rxQueue, sessions, settled, r, last[r])
    BY <2>1 DEF Truth, Taken
  <2>3. CASE Kept(s)
    BY <2>1, <2>2, <2>3, WriteStands, LinkInvNext DEF Own
  <2>4. CASE ~Kept(s)
    <3>1. rxQueue' = rxQueue
      BY <2>1, <2>4 DEF OnWrite
    <3> QED
      BY <2>1, <2>2, <2>4, <3>1, LinkInvNext DEF Own
  <2> QED
    BY <2>3, <2>4
<1>4. ASSUME NEW s \in Session, WriteFails(s) PROVE Clear' /\ Truth' /\ Own'
  <2>1. s \in todo /\ landed = {} /\ UNCHANGED <<landed, conn, bleConnected, last, sessions, settled>>
    BY <1>4 DEF WriteFails, InTurn
  <2>2. \A r \in Session \ mislaid : Taken(r) = last[r]
    BY <2>1 DEF Taken
  <2>3. CASE UNCHANGED <<rxQueue, mislaid>>
    BY <2>1, <2>2, <2>3, LinkInvNext DEF Clear, Truth, Own
  <2>4. CASE /\ conn # "down" /\ bleConnected /\ Kept(s) /\ OnWrite(s)
             /\ mislaid' = mislaid \cup {s}
    BY <2>1, <2>2, <2>4, WriteStands, LinkInvNext DEF Clear, Truth, Own
  <2> QED
    BY <1>4, <2>3, <2>4 DEF WriteFails
<1>5. ASSUME NEW s \in Session, Record(s) PROVE Clear' /\ Truth' /\ Own'
  <2>1. /\ s \in landed /\ landed' = {} /\ last' = [last EXCEPT ![s] = cur[s]]
        /\ UNCHANGED <<conn, bleConnected, mislaid, rxQueue, sessions, settled>>
    BY <1>5 DEF Record
  <2>2. \A r \in Session : last'[r] = Taken(r)
    BY <1>0, <2>1 DEF LinkTypeOK, Snapshot, Taken
  <2> QED
    BY <2>1, <2>2, LinkInvNext DEF Clear, Truth, Own
<1>6. CASE Connect
  BY <1>6, WillShowFacts, LinkInvNext DEF Connect, Own
<1>7. CASE Setup
  <2>1. /\ conn = "down" /\ bleConnected /\ conn' = "setup" /\ mislaid' = mislaid \cup landed
        /\ landed' = landed /\ \A s \in Session : last'[s] = Absent
        /\ UNCHANGED <<bleConnected, rxQueue, sessions, settled>>
    BY <1>7 DEF Setup, Nowhere
  <2>2. ASSUME NEW s \in Session, s \notin mislaid
        PROVE  Standing(rxQueue, sessions, settled, s, Absent)
    <3>1. ShowsOf(rxQueue, sessions, s) = Absent
      BY <2>1, <2>2 DEF Clear
    <3>2. Silent(rxQueue, s) => sessions[s] = Absent
      <4>1. rxQueue \in Seq(Entry)
        BY DEF LinkTypeOK, Entry
      <4>2. Silent(rxQueue, s) => ShowsOf(rxQueue, sessions, s) = sessions[s]
        BY <4>1, ShowsFacts
      <4> QED
        BY <3>1, <4>2
    <3>3. s \in settled => sessions[s] # Absent
      <4>1. Absent.state \notin {"idle", "working"}
        BY DEF Absent
      <4> QED
        BY <4>1 DEF Own
    <3> QED
      BY <3>1, <3>2, <3>3 DEF Standing
  <2> QED
    BY <2>1, <2>2, LinkInvNext DEF Own
<1>8. CASE Disconnected \/ Drop
  BY <1>8, LinkInvNext DEF Disconnected, Drop, Own
<1>9. CASE Handle
  <2>1. \A s \in Session : ShowsOf(rxQueue', sessions', s) = ShowsOf(rxQueue, sessions, s)
    BY <1>9, HandleShows, WillShowFacts
  <2>2. \A s \in Session : \A v : Standing(rxQueue, sessions, settled, s, v) =>
          Standing(rxQueue', sessions', settled', s, v)
    BY <1>9, HandleShows, StandsForFacts
  <2>3. Own'
    BY <1>9, HandleShows DEF Own
  <2>4. UNCHANGED <<landed, cur, last, conn, bleConnected, mislaid>>
    BY <1>9 DEF Handle
  <2> QED
    BY <2>1, <2>2, <2>3, <2>4, LinkInvNext DEF Clear, Truth, Taken
<1>10. CASE CheckLink
  <2>1. UNCHANGED <<bleConnected, mislaid, landed, last, cur, conn, rxQueue>>
    BY <1>10 DEF CheckLink
  <2>2. CASE UNCHANGED <<sessions, settled>>
    BY <2>1, <2>2, LinkInvNext DEF Clear, Truth, Own, Taken
  <2>3. CASE ~bleConnected /\ settled' = {}
    BY <2>1, <2>3, LinkInvNext DEF Own
  <2> QED
    BY <1>10, <2>2, <2>3 DEF CheckLink
<1>11. CASE NoteLink
  <2>1. UNCHANGED <<bleConnected, mislaid, landed, last, cur, conn, rxQueue>>
    BY <1>11 DEF NoteLink
  <2>2. CASE UNCHANGED rows
    BY <2>1, <2>2, LinkInvNext DEF Clear, Truth, Own, Taken
  <2>3. ASSUME NEW s \in Session, Settle(s) PROVE Clear' /\ Truth' /\ Own'
    <3>1. \A r \in Session : Taken(r) \in View \cup {Absent}
      BY <1>0 DEF Taken, LinkTypeOK, Snapshot
    <3> QED
      BY <2>1, <2>3, <3>1, SettleStands, LinkInvNext DEF Clear, Truth, Taken
  <2> QED
    BY <1>11, <2>2, <2>3 DEF NoteLink
<1> QED
  BY <1>1, <1>2, <1>3, <1>4, <1>5, <1>6, <1>7, <1>8, <1>9, <1>10, <1>11 DEF LinkNext

\* From setup on, what the writer takes for delivered is what the dial shows or is
\* about to, or a row the dial has made of it by answering its prompt, but for what is
\* mislaid: for any number of sessions and handlers, any views, and a queue of any
\* capacity.
THEOREM DeliveredIsOnTheDial == LinkSpec => []LastIsOnTheDial
<1>1. LinkInit => LinkInv
  BY DEF LinkInit, LinkInv, Clear, Truth, Own
<1>2. LinkInv => LastIsOnTheDial
  BY StandsForFacts DEF LinkInv, Truth, Taken, LastIsOnTheDial
<1> QED
  BY <1>1, <1>2, LinkInitial, LinkTyped, LinkInvStep, PTL DEF LinkSpec
=============================================================================
