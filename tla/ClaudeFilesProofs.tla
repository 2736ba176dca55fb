------------------------ MODULE ClaudeFilesProofs --------------------------
(***************************************************************************)
(* Proofs about the files of Claude Code.  What a run of "hooks install"   *)
(* or "uninstall" may take and where it may end, for any events, groups    *)
(* and hooks of the user; and what the gauge shows, for any transcripts,   *)
(* tokens, times and budget.                                               *)
(*                                                                         *)
(* The gauge is sums and loops over lists, which are recursive functions   *)
(* and folds: what they are is proved from the recursion itself, by        *)
(* induction on numbers (InductionOn) and on finite sets                   *)
(* (InductionOnSubsets), which hold because a set of numbers has a least.  *)
(***************************************************************************)
EXTENDS MCClaudeFiles, FiniteSetTheorems, SequenceTheorems, WellFoundedInduction, TLAPS

\* Only a whole file has groups.
OnlyWholeHasGroups == file.is # "whole" => file.groups = Nothing

\* What a run writes is the result of some content; of nothing, if it found no
\* text and has found none since.
WritesAResult ==
  phase # "idle" =>
    /\ \E c \in Content : out = Result(c, job)
    /\ ~HasText => Uninstalled(out) = Nothing

\* A copy that was made is a copy of the user's version.
BackedUp == phase = "backed" /\ ~astray /\ HasText => Users(bak) = mine

IInv == TypeOK /\ OnlyWholeHasGroups /\ WritesAResult /\ BackedUp /\ UsersHooksSurvive
-----------------------------------------------------------------------------
LEMMA ContentEquality ==
  ASSUME NEW c \in Content, NEW d \in Content,
         \A ev \in Event, g \in Group : c[ev][g] = d[ev][g]
  PROVE  c = d
  BY DEF Content

LEMMA NothingIsContent == Nothing \in Content
  BY DEF Nothing, Content

LEMMA OursAreManaged ==
  ASSUME NEW j, NEW ev, NEW g \in Ours(j, ev)
  PROVE  Managed(ev) /\ IsOursGroup(g) /\ g \in Group
<1>1. PICK e \in Selected(j) : e.event = ev /\ g = HookGroup(e)
  BY DEF Ours
<1>2. e \in ManagedEvents
  BY DEF Selected
<1>3. e.mode \in g /\ g \subseteq LocalRef /\ g \in Group
  BY <1>1, <1>2, HookAssumption DEF HookGroup
<1> QED
  BY <1>1, <1>2, <1>3 DEF Managed, IsOursGroup

\* What a run takes out and puts in, group by group.
LEMMA UninstalledCounts ==
  ASSUME NEW c \in Content
  PROVE  /\ Uninstalled(c) \in Content
         /\ \A ev \in Event, g \in Group :
              Uninstalled(c)[ev][g] = IF Managed(ev) /\ IsOursGroup(g) THEN 0 ELSE c[ev][g]
  BY DEF Uninstalled, StripOurs, Content

LEMMA InstalledCounts ==
  ASSUME NEW c \in Content, NEW j
  PROVE  /\ Installed(c, j) \in Content
         /\ \A ev \in Event, g \in Group :
              Installed(c, j)[ev][g] = IF g \in Ours(j, ev) THEN Uninstalled(c)[ev][g] + 1
                                                            ELSE Uninstalled(c)[ev][g]
  BY UninstalledCounts DEF Installed, Content

LEMMA ResultIsContent ==
  ASSUME NEW c \in Content, NEW j PROVE Result(c, j) \in Content
  BY UninstalledCounts, InstalledCounts DEF Result

\* A run leaves the user's part as it is, whatever it is started for.
LEMMA RunsKeepTheUsers ==
  ASSUME NEW c \in Content, NEW j
  PROVE  Uninstalled(Result(c, j)) = Uninstalled(c)
<1>1. Uninstalled(c) \in Content /\ Result(c, j) \in Content
  BY UninstalledCounts, ResultIsContent
<1>2. Uninstalled(Result(c, j)) \in Content
  BY <1>1, UninstalledCounts
<1>3. ASSUME NEW ev \in Event, NEW g \in Group
      PROVE  Uninstalled(Result(c, j))[ev][g] = Uninstalled(c)[ev][g]
  <2>1. CASE Managed(ev) /\ IsOursGroup(g)
    BY <1>1, <2>1, UninstalledCounts
  <2>2. CASE ~(Managed(ev) /\ IsOursGroup(g))
    <3>1. g \notin Ours(j, ev)
      BY <2>2, OursAreManaged
    <3>2. Uninstalled(Result(c, j))[ev][g] = Result(c, j)[ev][g]
      BY <1>1, <2>2, UninstalledCounts
    <3>3. CASE j = "uninstall"
      BY <3>2, <3>3 DEF Result
    <3>4. CASE j # "uninstall"
      BY <3>1, <3>2, <3>4, InstalledCounts DEF Result
    <3> QED
      BY <3>3, <3>4
  <2> QED
    BY <2>1, <2>2
<1> QED
  BY <1>1, <1>2, <1>3, ContentEquality

LEMMA NothingStaysNothing == Uninstalled(Nothing) = Nothing
<1>1. Uninstalled(Nothing) \in Content
  BY NothingIsContent, UninstalledCounts
<1>2. \A ev \in Event, g \in Group : Uninstalled(Nothing)[ev][g] = Nothing[ev][g]
  BY NothingIsContent, UninstalledCounts DEF Nothing
<1> QED
  BY <1>1, <1>2, NothingIsContent, ContentEquality

\* What a result depends on is the user's part.
LEMMA ResultOfUsers ==
  ASSUME NEW c \in Content, NEW d \in Content, NEW j, Uninstalled(c) = Uninstalled(d)
  PROVE  Result(c, j) = Result(d, j)
  BY DEF Result, Installed

\* Of our groups, a run leaves those of its mode, once each.
LEMMA ResultHasOurs ==
  ASSUME NEW c \in Content, NEW j, NEW ev \in Event, NEW g \in Group,
         Managed(ev), IsOursGroup(g)
  PROVE  Result(c, j)[ev][g] = IF j # "uninstall" /\ g \in Ours(j, ev) THEN 1 ELSE 0
<1>1. Uninstalled(c)[ev][g] = 0
  BY UninstalledCounts
<1>2. CASE j = "uninstall"
  BY <1>1, <1>2 DEF Result
<1>3. CASE j # "uninstall"
  BY <1>1, <1>3, InstalledCounts DEF Result
<1> QED
  BY <1>2, <1>3
-----------------------------------------------------------------------------
LEMMA FilesHaveTypes ==
  /\ Damaged \subseteq File /\ NoFile \in File
  /\ \A c \in Content : Whole(c) \in File /\ Whole(c).groups = c /\ Whole(c).is = "whole"
  BY NothingIsContent DEF Damaged, NoFile, Whole, File

LEMMA NextTypeOK == TypeOK /\ [Next]_vars => TypeOK'
<1> SUFFICES ASSUME TypeOK, [Next]_vars PROVE TypeOK'
  OBVIOUS
<1> USE DEF TypeOK
<1>0. file.groups \in Content /\ bak.groups \in Content
  BY DEF File
<1>1. ASSUME NEW j \in Job, Start(j) PROVE TypeOK'
  BY <1>0, <1>1, ResultIsContent DEF Start
<1>2. CASE Backup
  BY <1>2 DEF Backup
<1>3. CASE BackupCut
  BY <1>3, FilesHaveTypes, NothingIsContent DEF BackupCut, Exit, Job
<1>4. CASE Write
  BY <1>4, FilesHaveTypes, NothingIsContent DEF Write, Exit, Job
<1>5. CASE WriteCut
  BY <1>5, FilesHaveTypes, NothingIsContent DEF WriteCut, Exit, Job
<1>6. CASE Killed
  BY <1>6, NothingIsContent DEF Killed, Exit, Job
<1>7. ASSUME NEW ev \in Event, NEW g \in UserGroup, Edit(ev, g) PROVE TypeOK'
  <2>1. PICK n \in 0..MaxCopies : file' = Whole([file.groups EXCEPT ![ev][g] = n])
    BY <1>7 DEF Edit
  <2>2. n \in Nat
    BY <2>1, HookAssumption
  <2>3. [file.groups EXCEPT ![ev][g] = n] \in Content
    BY <1>0, <2>2, HookAssumption DEF Content
  <2>4. file' \in File /\ file'.groups \in Content
    BY <2>1, <2>3, FilesHaveTypes
  <2>5. Uninstalled(file'.groups) \in Content
    BY <2>4, UninstalledCounts
  <2> QED
    BY <1>7, <2>4, <2>5 DEF Edit, Users
<1>8. CASE Recover
  <2>1. file' \in File
    BY <1>8, FilesHaveTypes DEF Recover
  <2>2. Uninstalled(file'.groups) \in Content
    BY <2>1, UninstalledCounts DEF File
  <2> QED
    BY <1>8, <2>1, <2>2 DEF Recover, Users
<1>9. CASE UNCHANGED vars
  BY <1>9 DEF vars
<1> QED
  BY <1>1, <1>2, <1>3, <1>4, <1>5, <1>6, <1>7, <1>8, <1>9 DEF Next

LEMMA InitIInv == Init => IInv
<1> SUFFICES ASSUME Init PROVE IInv
  OBVIOUS
<1>1. TypeOK
  BY NothingIsContent, FilesHaveTypes DEF Init, TypeOK, Job
<1>2. Users(file) = Nothing
  BY NothingStaysNothing DEF Init, NoFile, Users
<1> QED
  BY <1>1, <1>2
     DEF Init, IInv, OnlyWholeHasGroups, NoFile, WritesAResult, BackedUp, UsersHooksSurvive, Survives

LEMMA NextIInv == IInv /\ [Next]_vars => IInv'
<1> SUFFICES ASSUME IInv, [Next]_vars PROVE IInv'
  OBVIOUS
<1>0. TypeOK /\ TypeOK'
  BY NextTypeOK DEF IInv
<1>g. file.groups \in Content /\ Users(file) = Uninstalled(file.groups)
  BY <1>0 DEF TypeOK, File, Users
<1>u. ~HasText => Users(file) = Nothing
  BY <1>g, NothingStaysNothing DEF IInv, OnlyWholeHasGroups, HasText
<1>t. ~HasText' /\ file' = file => ~HasText
  BY DEF HasText
<1> USE DEF OnlyWholeHasGroups, WritesAResult, BackedUp, UsersHooksSurvive, Survives
<1>1. ASSUME NEW j \in Job, Start(j) PROVE IInv'
  <2>1. file' = file /\ bak' = bak /\ mine' = mine /\ astray' = astray
    BY <1>1 DEF Start
  <2>2. phase' = "loaded" /\ job' = j /\ out' = Result(file.groups, j)
    BY <1>1 DEF Start
  <2>3. Uninstalled(out') = Users(file)
    BY <1>g, <2>2, RunsKeepTheUsers
  <2>4. Users(file)' = Users(file) /\ Users(bak)' = Users(bak) /\ HasText' = HasText
    BY <2>1 DEF Users, HasText
  <2>5. WritesAResult'
    BY <1>g, <1>u, <2>2, <2>3, <2>4
  <2> QED
    BY <1>0, <2>1, <2>2, <2>4, <2>5 DEF IInv
<1>2. CASE Backup
  <2>1. file' = file /\ phase = "loaded" /\ phase' = "backed" /\ job' = job /\ out' = out /\ mine' = mine
    BY <1>2 DEF Backup
  <2>2. Users(file)' = Users(file) /\ HasText' = HasText
    BY <2>1 DEF Users, HasText
  <2>3. BackedUp' /\ UsersHooksSurvive'
    BY <1>2, <2>1, <2>2 DEF Backup, IInv, Users
  <2>4. WritesAResult' /\ OnlyWholeHasGroups'
    BY <2>1, <2>2 DEF IInv
  <2> QED
    BY <1>0, <2>3, <2>4 DEF IInv
<1>3. CASE BackupCut
  BY <1>0, <1>3 DEF BackupCut, Exit, IInv, Users
<1>4. CASE Write
  <2>1. out \in Content /\ file' = Whole(out) /\ phase' = "idle" /\ phase = "backed"
    BY <1>0, <1>4 DEF Write, Exit, TypeOK
  <2>2. file'.is = "whole" /\ file'.groups = out
    BY <2>1, FilesHaveTypes
  <2>3. bak' = bak /\ mine' = mine /\ astray' = astray
    BY <1>4 DEF Write
  <2>4. UsersHooksSurvive'
    <3>1. CASE HasText
      BY <2>1, <2>3, <3>1 DEF IInv, Users
    <3>2. CASE ~HasText
      <4>1. Users(file)' = Users(file)
        BY <1>u, <2>1, <2>2, <3>2 DEF IInv, Users
      <4> QED
        BY <2>3, <4>1 DEF IInv, Users
    <3> QED
      BY <3>1, <3>2
  <2> QED
    BY <1>0, <2>1, <2>2, <2>4 DEF IInv
<1>5. CASE WriteCut
  <2>1. phase = "backed" /\ phase' = "idle" /\ file'.groups = Nothing
    BY <1>5 DEF WriteCut, Exit, Damaged
  <2>2. bak' = bak /\ mine' = mine /\ astray' = astray
    BY <1>5 DEF WriteCut
  <2>3. UsersHooksSurvive'
    <3>1. CASE HasText
      BY <2>1, <2>2, <3>1 DEF IInv, Users
    <3>2. CASE ~HasText
      BY <1>u, <2>1, <2>2, <3>2, NothingStaysNothing DEF IInv, Users
    <3> QED
      BY <3>1, <3>2
  <2> QED
    BY <1>0, <2>1, <2>3 DEF IInv
<1>6. CASE Killed
  BY <1>0, <1>6 DEF Killed, Exit, IInv, Users
<1>7. ASSUME NEW ev \in Event, NEW g \in UserGroup, Edit(ev, g) PROVE IInv'
  <2>1. \E n \in 0..MaxCopies : file' = Whole([file.groups EXCEPT ![ev][g] = n])
    BY <1>7 DEF Edit
  <2>2. file'.is = "whole" /\ HasText'
    BY <2>1 DEF Whole, HasText
  <2>3. phase' = phase /\ job' = job /\ out' = out /\ bak' = bak
    BY <1>7 DEF Edit
  <2>4. mine' = Users(file') /\ astray' = (phase = "backed")
    BY <1>7 DEF Edit
  <2> QED
    BY <1>0, <2>2, <2>3, <2>4 DEF IInv, Users
<1>8. CASE Recover
  <2>1. phase = "idle" /\ phase' = "idle" /\ mine' = Users(file')
    BY <1>8 DEF Recover
  <2>2. OnlyWholeHasGroups'
    BY <1>8 DEF Recover, NoFile
  <2> QED
    BY <1>0, <2>1, <2>2 DEF IInv, Users
<1>9. CASE UNCHANGED vars
  BY <1>0, <1>9 DEF vars, IInv, HasText, Users
<1> QED
  BY <1>1, <1>2, <1>3, <1>4, <1>5, <1>6, <1>7, <1>8, <1>9 DEF Next

LEMMA Inductive == Spec => []IInv
  BY InitIInv, NextIInv, PTL DEF Spec
-----------------------------------------------------------------------------
\* Types, for any hooks of the user: counts stay natural numbers (stripOurs takes
\* no more groups than there are).
THEOREM HookTypeOK == Spec => []TypeOK
<1>1. IInv => TypeOK
  BY DEF IInv
<1> QED
  BY Inductive, <1>1, PTL

\* Unless the file is edited between the copy and the write, or the user's
\* version was in the backup only (save), a run may end anywhere.
THEOREM HooksSurvive == Spec => []UsersHooksSurvive
<1>1. IInv => UsersHooksSurvive
  BY DEF IInv
<1> QED
  BY Inductive, <1>1, PTL

\* Installs, uninstalls and changes of the mode in any order: only the last one
\* counts (Install calls Uninstall's stripping first).
THEOREM OnlyLastRunCounts == Spec => []LastRunCounts
<1>1. IInv => LastRunCounts
  <2> SUFFICES ASSUME IInv, NEW i \in Job, NEW j \in Job
               PROVE  Result(Result(file.groups, i), j) = Result(file.groups, j)
    BY DEF LastRunCounts
  <2>1. file.groups \in Content /\ Result(file.groups, i) \in Content
    BY ResultIsContent DEF IInv, TypeOK, File
  <2> QED
    BY <2>1, RunsKeepTheUsers, ResultOfUsers
<1> QED
  BY Inductive, <1>1, PTL

\* After a run, each event of its mode has one group of ours and the others none,
\* whatever earlier runs and pasted snippets had left there.
THEOREM RunsLeaveOneGroup == Spec => OneGroupOfOurs
<1>1. IInv /\ [Next]_vars =>
        [Write => \A ev \in Event, g \in Group : Managed(ev) /\ IsOursGroup(g) =>
           file'.groups[ev][g] = IF job # "uninstall" /\ g \in Ours(job, ev) THEN 1 ELSE 0]_vars
  <2> SUFFICES ASSUME IInv, Write, NEW ev \in Event, NEW g \in Group, Managed(ev), IsOursGroup(g)
               PROVE  file'.groups[ev][g]
                        = IF job # "uninstall" /\ g \in Ours(job, ev) THEN 1 ELSE 0
    OBVIOUS
  <2>1. PICK c \in Content : out = Result(c, job)
    BY DEF IInv, WritesAResult, Write
  <2>2. file'.groups = Result(c, job)
    BY <2>1 DEF Write, Whole
  <2> QED
    BY <2>2, ResultHasOurs
<1> QED
  BY Inductive, <1>1, PTL DEF Spec, OneGroupOfOurs
-----------------------------------------------------------------------------
LEMMA LeastOf ==
  ASSUME NEW T, T \subseteq Nat, T # {}
  PROVE  \E x \in T : \A y \in T : x <= y
<1> DEFINE R == OpToRel(<, Nat)
<1>1. IsWellFoundedOn(R, Nat)
  BY NatLessThanWellFounded
<1>2. \A x, y \in Nat : <<y, x>> \in R <=> y < x
  BY DEF OpToRel
<1> HIDE DEF R
<1>3. PICK x \in T : \A y \in T : <<y, x>> \notin R
  BY <1>1, WFMin
<1>4. ASSUME NEW y \in T PROVE x <= y
  <2>1. ~(y < x)
    BY <1>2, <1>3
  <2> QED
    BY <2>1
<1> QED
  BY <1>4

LEMMA InductionOn ==
  ASSUME NEW T, 0 \in T, \A n \in Nat : n \in T => n + 1 \in T
  PROVE  Nat \subseteq T
<1> SUFFICES ASSUME Nat \ T # {} PROVE FALSE
  OBVIOUS
<1>1. PICK x \in Nat \ T : \A y \in Nat \ T : x <= y
  BY LeastOf
<1>2. x # 0 /\ x - 1 \in Nat
  BY <1>1
<1>3. x - 1 \in T
  BY <1>1, <1>2
<1> QED
  BY <1>1, <1>2, <1>3

LEMMA OneLess ==
  ASSUME NEW s, IsFiniteSet(s), NEW x \in s
  PROVE  /\ IsFiniteSet(s \ {x})
         /\ Cardinality(s) \in Nat \ {0}
         /\ Cardinality(s \ {x}) = Cardinality(s) - 1
<1>1. Cardinality(s) \in Nat /\ Cardinality(s) # 0
  BY FS_CardinalityType, FS_EmptySet
<1>2. IsFiniteSet(s \ {x}) /\ Cardinality(s \ {x}) = Cardinality(s) - 1
  BY FS_RemoveElement
<1> QED
  BY <1>1, <1>2

LEMMA InductionOnSubsets ==
  ASSUME NEW S, IsFiniteSet(S), NEW T, {} \in T,
         \A s \in SUBSET S, x \in S : s \in T /\ x \notin s => s \cup {x} \in T
  PROVE  \A s \in SUBSET S : s \in T
<1> DEFINE Q == {n \in Nat : \A s \in SUBSET S : Cardinality(s) = n => s \in T}
<1>0. \A s \in SUBSET S : IsFiniteSet(s) /\ Cardinality(s) \in Nat
  BY FS_Subset, FS_CardinalityType
<1>1. 0 \in Q
  BY <1>0, FS_EmptySet
<1>2. ASSUME NEW n \in Nat, n \in Q PROVE n + 1 \in Q
  <2> SUFFICES ASSUME NEW s \in SUBSET S, Cardinality(s) = n + 1 PROVE s \in T
    OBVIOUS
  <2>1. s # {}
    BY FS_EmptySet
  <2>2. PICK x \in s : TRUE
    BY <2>1
  <2>3. Cardinality(s \ {x}) = n
    BY <1>0, OneLess
  <2>4. s \ {x} \in T
    BY <1>2, <2>3
  <2>5. (s \ {x}) \cup {x} \in T
    BY <2>4
  <2> QED
    BY <2>5, Zenon
<1> HIDE DEF Q
<1>3. Nat \subseteq Q
  BY <1>1, <1>2, InductionOn
<1> QED
  BY <1>0, <1>3 DEF Q
-----------------------------------------------------------------------------
(* Sums *)

\* Numbers that can be added up.
Counts(f, S) == \A x \in S : f[x] \in Nat

Recurs(it, f, D) ==
  it = [s \in D |-> IF s = {} THEN 0
                    ELSE f[CHOOSE x \in s : TRUE] + it[s \ {CHOOSE x \in s : TRUE}]]

LEMMA SumIs ==
  ASSUME NEW f, NEW S
  PROVE  SumFunctionOnSet(f, S) = (CHOOSE it : Recurs(it, f, SUBSET S))[S]
  BY Zenon DEF SumFunctionOnSet, FoldFunctionOnSet, MapThenFoldSet, Recurs

\* A member to begin with, and what is left.
LEMMA PickFacts ==
  ASSUME NEW S, IsFiniteSet(S), NEW s \in SUBSET S, s # {}
  PROVE  /\ (CHOOSE x \in s : TRUE) \in s
         /\ s \ {CHOOSE x \in s : TRUE} \in SUBSET S
         /\ Cardinality(s) \in Nat \ {0}
         /\ Cardinality(s \ {CHOOSE x \in s : TRUE}) = Cardinality(s) - 1
<1> DEFINE x == CHOOSE x \in s : TRUE
<1>1. x \in s
  OBVIOUS
<1> HIDE DEF x
<1>2. IsFiniteSet(s)
  BY FS_Subset
<1>3. Cardinality(s) \in Nat \ {0} /\ Cardinality(s \ {x}) = Cardinality(s) - 1
  BY <1>1, <1>2, OneLess
<1> QED
  BY <1>1, <1>3 DEF x

UptoSize(S, n) == {s \in SUBSET S : Cardinality(s) <= n}

LEMMA RecursExists ==
  ASSUME NEW S, IsFiniteSet(S), NEW f, Counts(f, S)
  PROVE  \E it \in [SUBSET S -> Nat] : Recurs(it, f, SUBSET S)
<1> DEFINE Q == {n \in Nat : \E it \in [UptoSize(S, n) -> Nat] : Recurs(it, f, UptoSize(S, n))}
<1>0. \A s \in SUBSET S : IsFiniteSet(s) /\ Cardinality(s) \in Nat
  BY FS_Subset, FS_CardinalityType
<1>1. 0 \in Q
  <2>1. \A s \in UptoSize(S, 0) : s = {}
    BY <1>0, FS_EmptySet DEF UptoSize
  <2> DEFINE it == [s \in UptoSize(S, 0) |-> 0]
  <2>2. it \in [UptoSize(S, 0) -> Nat]
    OBVIOUS
  <2>3. Recurs(it, f, UptoSize(S, 0))
    BY <2>1 DEF Recurs
  <2> QED
    BY <2>2, <2>3
<1>2. ASSUME NEW n \in Nat, n \in Q PROVE n + 1 \in Q
  <2>1. PICK it \in [UptoSize(S, n) -> Nat] : Recurs(it, f, UptoSize(S, n))
    BY <1>2
  <2> DEFINE jt == [s \in UptoSize(S, n + 1) |->
                      IF s = {} THEN 0
                      ELSE f[CHOOSE x \in s : TRUE] + it[s \ {CHOOSE x \in s : TRUE}]]
  <2>3. ASSUME NEW s \in UptoSize(S, n + 1), s # {}
        PROVE  /\ s \ {CHOOSE x \in s : TRUE} \in UptoSize(S, n)
               /\ (CHOOSE x \in s : TRUE) \in S
    <3>1. s \in SUBSET S /\ Cardinality(s) <= n + 1
      BY DEF UptoSize
    <3> QED
      BY <3>1, <2>3, PickFacts DEF UptoSize
  <2>2. jt \in [UptoSize(S, n + 1) -> Nat]
    <3> SUFFICES ASSUME NEW s \in UptoSize(S, n + 1) PROVE jt[s] \in Nat
      OBVIOUS
    <3> QED
      BY <2>3 DEF Counts
  <2>4. ASSUME NEW s \in UptoSize(S, n) PROVE s \in UptoSize(S, n + 1) /\ jt[s] = it[s]
    <3>1. s \in UptoSize(S, n + 1)
      BY <1>0 DEF UptoSize
    <3>2. it[s] = IF s = {} THEN 0
                  ELSE f[CHOOSE x \in s : TRUE] + it[s \ {CHOOSE x \in s : TRUE}]
      BY <2>1, Zenon DEF Recurs
    <3> QED
      BY <3>1, <3>2
  <2>5. jt = [s \in UptoSize(S, n + 1) |->
                IF s = {} THEN 0
                ELSE f[CHOOSE x \in s : TRUE] + jt[s \ {CHOOSE x \in s : TRUE}]]
    <3> SUFFICES ASSUME NEW s \in UptoSize(S, n + 1)
                 PROVE  jt[s] = IF s = {} THEN 0
                                ELSE f[CHOOSE x \in s : TRUE] + jt[s \ {CHOOSE x \in s : TRUE}]
      BY Zenon
    <3>1. s # {} => jt[s \ {CHOOSE x \in s : TRUE}] = it[s \ {CHOOSE x \in s : TRUE}]
      BY <2>3, <2>4
    <3> QED
      BY <3>1
  <2> HIDE DEF jt
  <2>6. Recurs(jt, f, UptoSize(S, n + 1))
    BY <2>5, Zenon DEF Recurs
  <2> QED
    BY <2>2, <2>6
<1> HIDE DEF Q
<1>3. Nat \subseteq Q
  BY <1>1, <1>2, InductionOn
<1>4. Cardinality(S) \in Q
  BY <1>0, <1>3
<1>5. UptoSize(S, Cardinality(S)) = SUBSET S
  BY <1>0, FS_Subset DEF UptoSize
<1> QED
  BY <1>4, <1>5 DEF Q

LEMMA RecursUnique ==
  ASSUME NEW S, IsFiniteSet(S), NEW f, Counts(f, S), NEW T \in SUBSET S,
         NEW it, Recurs(it, f, SUBSET S), NEW jt, Recurs(jt, f, SUBSET T)
  PROVE  \A s \in SUBSET T : it[s] = jt[s]
<1> DEFINE Q == {n \in Nat : \A s \in SUBSET T : Cardinality(s) = n => it[s] = jt[s]}
<1>0. \A s \in SUBSET T : Cardinality(s) \in Nat /\ IsFiniteSet(s)
  BY FS_Subset, FS_CardinalityType
<1>a. ASSUME NEW s \in SUBSET T
      PROVE  /\ it[s] = IF s = {} THEN 0
                        ELSE f[CHOOSE x \in s : TRUE] + it[s \ {CHOOSE x \in s : TRUE}]
             /\ jt[s] = IF s = {} THEN 0
                        ELSE f[CHOOSE x \in s : TRUE] + jt[s \ {CHOOSE x \in s : TRUE}]
  <2>1. s \in SUBSET S
    OBVIOUS
  <2> QED
    BY <2>1, Zenon DEF Recurs
<1>1. 0 \in Q
  BY <1>0, <1>a, FS_EmptySet
<1>2. ASSUME NEW n \in Nat, n \in Q PROVE n + 1 \in Q
  <2> SUFFICES ASSUME NEW s \in SUBSET T, Cardinality(s) = n + 1 PROVE it[s] = jt[s]
    OBVIOUS
  <2>1. s # {}
    BY <1>0, FS_EmptySet
  <2>2. IsFiniteSet(T)
    BY FS_Subset
  <2>3. /\ s \ {CHOOSE x \in s : TRUE} \in SUBSET T
        /\ Cardinality(s \ {CHOOSE x \in s : TRUE}) = n
    BY <2>1, <2>2, PickFacts
  <2>4. it[s \ {CHOOSE x \in s : TRUE}] = jt[s \ {CHOOSE x \in s : TRUE}]
    BY <1>2, <2>3
  <2> QED
    BY <1>a, <2>1, <2>4
<1> HIDE DEF Q
<1>3. Nat \subseteq Q
  BY <1>1, <1>2, InductionOn
<1> QED
  BY <1>0, <1>3 DEF Q

\* Any member may be taken first.
LEMMA AnyFirst ==
  ASSUME NEW S, IsFiniteSet(S), NEW f, Counts(f, S),
         NEW it \in [SUBSET S -> Nat], Recurs(it, f, SUBSET S)
  PROVE  \A s \in SUBSET S, x \in S : x \in s => it[s] = f[x] + it[s \ {x}]
<1> DEFINE Q == {n \in Nat : \A s \in SUBSET S, x \in S :
                   Cardinality(s) = n /\ x \in s => it[s] = f[x] + it[s \ {x}]}
<1>0. \A s \in SUBSET S : Cardinality(s) \in Nat /\ IsFiniteSet(s)
  BY FS_Subset, FS_CardinalityType
<1>1. 0 \in Q
  BY <1>0, FS_EmptySet
<1>2. ASSUME NEW n \in Nat, n \in Q PROVE n + 1 \in Q
  <2> SUFFICES ASSUME NEW s \in SUBSET S, NEW x \in S, Cardinality(s) = n + 1, x \in s
               PROVE  it[s] = f[x] + it[s \ {x}]
    OBVIOUS
  <2> DEFINE c == CHOOSE y \in s : TRUE
  <2>1. it[s] = f[c] + it[s \ {c}]
    BY Zenon DEF Recurs
  <2>2. c \in s
    OBVIOUS
  <2> HIDE DEF c
  <2>3. CASE x = c
    BY <2>1, <2>3
  <2>4. CASE x # c
    <3> DEFINE sc == s \ {c}
               sx == s \ {x}
               sb == (s \ {c}) \ {x}
    <3>1. sc \in SUBSET S /\ sx \in SUBSET S /\ sb = sx \ {c} /\ x \in sc /\ c \in sx
      BY <2>2, <2>4
    <3>2. Cardinality(sc) = n /\ Cardinality(sx) = n
      BY <1>0, <2>2, OneLess
    <3>3. it[sc] = f[x] + it[sb]
      BY <1>2, <3>1, <3>2
    <3>4. it[sx] = f[c] + it[sb]
      BY <1>2, <3>1, <3>2, <2>2
    <3>5. it[sb] \in Nat /\ f[x] \in Nat /\ f[c] \in Nat
      BY <2>2 DEF Counts
    <3> QED
      BY <2>1, <3>3, <3>4, <3>5
  <2> QED
    BY <2>3, <2>4
<1> HIDE DEF Q
<1>3. Nat \subseteq Q
  BY <1>1, <1>2, InductionOn
<1> QED
  BY <1>0, <1>3 DEF Q

LEMMA SumExists ==
  ASSUME NEW S, IsFiniteSet(S), NEW f, Counts(f, S)
  PROVE  \E it \in [SUBSET S -> Nat] :
           /\ Recurs(it, f, SUBSET S)
           /\ \A s \in SUBSET S : SumFunctionOnSet(f, s) = it[s]
<1>1. PICK it \in [SUBSET S -> Nat] : Recurs(it, f, SUBSET S)
  BY RecursExists
<1>2. ASSUME NEW s \in SUBSET S PROVE SumFunctionOnSet(f, s) = it[s]
  <2>1. IsFiniteSet(s)
    BY FS_Subset
  <2>0. Counts(f, s)
    BY DEF Counts
  <2>2. \E jt : Recurs(jt, f, SUBSET s)
    BY <2>0, <2>1, RecursExists
  <2> DEFINE jt == CHOOSE jt : Recurs(jt, f, SUBSET s)
  <2>3. Recurs(jt, f, SUBSET s)
    BY <2>2, Zenon
  <2>4. SumFunctionOnSet(f, s) = jt[s]
    BY SumIs, Zenon
  <2> HIDE DEF jt
  <2>5. it[s] = jt[s]
    BY <1>1, <2>3, RecursUnique
  <2> QED
    BY <2>4, <2>5
<1> QED
  BY <1>1, <1>2

LEMMA SumOfNone ==
  ASSUME NEW S, IsFiniteSet(S), NEW f, Counts(f, S), NEW s \in SUBSET S
  PROVE  s = {} => SumFunctionOnSet(f, s) = 0
<1>1. PICK it \in [SUBSET S -> Nat] :
        /\ Recurs(it, f, SUBSET S)
        /\ \A t \in SUBSET S : SumFunctionOnSet(f, t) = it[t]
  BY SumExists
<1> QED
  BY <1>1, Zenon DEF Recurs

LEMMA SumEmpty ==
  ASSUME NEW f
  PROVE  SumFunctionOnSet(f, {}) = 0
<1>1. IsFiniteSet({}) /\ Counts(f, {}) /\ {} \in SUBSET {}
  BY FS_EmptySet DEF Counts
<1> QED
  BY <1>1, SumOfNone

LEMMA SumNatOn ==
  ASSUME NEW S, IsFiniteSet(S), NEW f, Counts(f, S), NEW s \in SUBSET S
  PROVE  SumFunctionOnSet(f, s) \in Nat
<1>1. PICK it \in [SUBSET S -> Nat] :
        /\ Recurs(it, f, SUBSET S)
        /\ \A t \in SUBSET S : SumFunctionOnSet(f, t) = it[t]
  BY SumExists
<1> QED
  BY <1>1

LEMMA SumNat ==
  ASSUME NEW S, IsFiniteSet(S), NEW f, Counts(f, S)
  PROVE  SumFunctionOnSet(f, S) \in Nat
<1>1. S \in SUBSET S
  OBVIOUS
<1> QED
  BY <1>1, SumNatOn

\* One more element.
LEMMA SumAdd ==
  ASSUME NEW S, IsFiniteSet(S), NEW f, Counts(f, S),
         NEW s \in SUBSET S, NEW x \in S, x \notin s
  PROVE  SumFunctionOnSet(f, s \cup {x}) = f[x] + SumFunctionOnSet(f, s)
<1>1. PICK it \in [SUBSET S -> Nat] :
        /\ Recurs(it, f, SUBSET S)
        /\ \A t \in SUBSET S : SumFunctionOnSet(f, t) = it[t]
  BY SumExists
<1>2. s \cup {x} \in SUBSET S /\ x \in s \cup {x}
  OBVIOUS
<1>a. \A t \in SUBSET S, y \in S : y \in t => it[t] = f[y] + it[t \ {y}]
  BY <1>1, AnyFirst
<1>3. it[s \cup {x}] = f[x] + it[(s \cup {x}) \ {x}]
  BY <1>2, <1>a, Zenon
<1>4. (s \cup {x}) \ {x} = s
  OBVIOUS
<1> QED
  BY <1>1, <1>2, <1>3, <1>4

\* A sum is that of the same numbers under other names.
LEMMA SumReindex ==
  ASSUME NEW S, IsFiniteSet(S), NEW f, Counts(f, S),
         NEW T, NEW p \in Bijection(S, T), NEW h, \A x \in S : h[p[x]] = f[x]
  PROVE  SumFunctionOnSet(h, T) = SumFunctionOnSet(f, S)
<1> DEFINE Image(s) == {p[x] : x \in s}
           Q == {s \in SUBSET S : SumFunctionOnSet(h, Image(s)) = SumFunctionOnSet(f, s)}
<1>0. /\ IsFiniteSet(T)
      /\ \A x \in S : p[x] \in T
      /\ \A x, y \in S : p[x] = p[y] => x = y
      /\ \A y \in T : \E x \in S : p[x] = y
  <2>1. IsFiniteSet(T)
    BY FS_Bijection DEF ExistsBijection
  <2> QED
    BY <2>1 DEF Bijection, Injection, Surjection, IsInjective
<1>1. {} \in Q
  <2>1. Image({}) = {}
    OBVIOUS
  <2> QED
    BY <2>1, SumEmpty
<1>2. ASSUME NEW s \in SUBSET S, NEW x \in S, s \in Q, x \notin s
      PROVE  s \cup {x} \in Q
  <2>1. Image(s \cup {x}) = Image(s) \cup {p[x]} /\ Image(s) \in SUBSET T /\ p[x] \in T
    BY <1>0
  <2>2. p[x] \notin Image(s)
    BY <1>0, <1>2
  <2>3. Counts(h, T)
    BY <1>0 DEF Counts
  <2> HIDE DEF Image
  <2>4. SumFunctionOnSet(h, Image(s) \cup {p[x]}) = h[p[x]] + SumFunctionOnSet(h, Image(s))
    BY <1>0, <2>1, <2>2, <2>3, SumAdd
  <2>5. SumFunctionOnSet(f, s \cup {x}) = f[x] + SumFunctionOnSet(f, s)
    BY <1>2, SumAdd
  <2>6. s \cup {x} \in SUBSET S
    OBVIOUS
  <2> QED
    BY <1>2, <2>1, <2>4, <2>5, <2>6
<1> HIDE DEF Q
<1>3. S \in Q
  BY <1>1, <1>2, InductionOnSubsets
<1>4. Image(S) = T
  BY <1>0
<1> QED
  BY <1>3, <1>4 DEF Q

\* What is left out of a sum may as well be in it as zero.
LEMMA SumMask ==
  ASSUME NEW S, IsFiniteSet(S), NEW I \in SUBSET S, NEW f, Counts(f, I),
         NEW h, \A x \in S : h[x] = IF x \in I THEN f[x] ELSE 0
  PROVE  SumFunctionOnSet(f, I) = SumFunctionOnSet(h, S)
<1> DEFINE Q == {s \in SUBSET S : SumFunctionOnSet(f, I \cap s) = SumFunctionOnSet(h, s)}
<1>0. IsFiniteSet(I) /\ Counts(h, S)
  BY FS_Subset DEF Counts
<1>1. {} \in Q
  <2>1. I \cap {} = {}
    OBVIOUS
  <2> QED
    BY <2>1, SumEmpty
<1>2. ASSUME NEW s \in SUBSET S, NEW x \in S, s \in Q, x \notin s
      PROVE  s \cup {x} \in Q
  <2>1. SumFunctionOnSet(h, s \cup {x}) = h[x] + SumFunctionOnSet(h, s)
    BY <1>0, <1>2, SumAdd
  <2>2. s \cup {x} \in SUBSET S /\ I \cap s \in SUBSET I
    OBVIOUS
  <2>5. SumFunctionOnSet(h, s) \in Nat
    BY <1>0, SumNatOn
  <2>3. CASE x \in I
    <3>1. SumFunctionOnSet(f, (I \cap s) \cup {x}) = f[x] + SumFunctionOnSet(f, I \cap s)
      BY <1>0, <1>2, <2>2, <2>3, SumAdd
    <3>2. I \cap (s \cup {x}) = (I \cap s) \cup {x}
      BY <2>3
    <3> QED
      BY <3>1, <3>2, <2>1, <2>2, <2>3, <1>2
  <2>4. CASE x \notin I
    <3>1. I \cap (s \cup {x}) = I \cap s
      BY <2>4
    <3>2. SumFunctionOnSet(h, s \cup {x}) = SumFunctionOnSet(h, s)
      BY <2>1, <2>4, <2>5
    <3> QED
      BY <3>1, <3>2, <2>2, <1>2
  <2> QED
    BY <2>3, <2>4
<1> HIDE DEF Q
<1>3. S \in Q
  BY <1>1, <1>2, InductionOnSubsets
<1>4. I \cap S = I
  OBVIOUS
<1> QED
  BY <1>3, <1>4 DEF Q

LEMMA SumMonotone ==
  ASSUME NEW S, IsFiniteSet(S), NEW f, Counts(f, S),
         NEW h, Counts(h, S), \A x \in S : f[x] <= h[x]
  PROVE  SumFunctionOnSet(f, S) <= SumFunctionOnSet(h, S)
<1> DEFINE Q == {s \in SUBSET S : SumFunctionOnSet(f, s) <= SumFunctionOnSet(h, s)}
<1>0. \A s \in SUBSET S : SumFunctionOnSet(f, s) \in Nat /\ SumFunctionOnSet(h, s) \in Nat
  BY SumNatOn
<1>1. {} \in Q
  BY SumEmpty
<1>2. ASSUME NEW s \in SUBSET S, NEW x \in S, s \in Q, x \notin s
      PROVE  s \cup {x} \in Q
  <2>1. SumFunctionOnSet(f, s \cup {x}) = f[x] + SumFunctionOnSet(f, s)
    BY <1>2, SumAdd
  <2>2. SumFunctionOnSet(h, s \cup {x}) = h[x] + SumFunctionOnSet(h, s)
    BY <1>2, SumAdd
  <2>3. s \cup {x} \in SUBSET S
    OBVIOUS
  <2> QED
    BY <2>1, <2>2, <2>3, <1>2, <1>0 DEF Counts
<1> HIDE DEF Q
<1>3. S \in Q
  BY <1>1, <1>2, InductionOnSubsets
<1> QED
  BY <1>3 DEF Q

LEMMA SumOfBoth ==
  ASSUME NEW S, IsFiniteSet(S), NEW f, Counts(f, S),
         NEW A \in SUBSET S, NEW B \in SUBSET S, A \cap B = {}
  PROVE  SumFunctionOnSet(f, A \cup B) = SumFunctionOnSet(f, A) + SumFunctionOnSet(f, B)
<1> DEFINE Q == {s \in SUBSET B :
                   SumFunctionOnSet(f, A \cup s) = SumFunctionOnSet(f, A) + SumFunctionOnSet(f, s)}
<1>0. IsFiniteSet(B) /\ \A s \in SUBSET S : SumFunctionOnSet(f, s) \in Nat
  BY SumNatOn, FS_Subset
<1>1. {} \in Q
  <2>1. A \cup {} = A
    OBVIOUS
  <2> QED
    BY <2>1, SumEmpty, <1>0
<1>2. ASSUME NEW s \in SUBSET B, NEW x \in B, s \in Q, x \notin s
      PROVE  s \cup {x} \in Q
  <2>0. A \cup s \in SUBSET S /\ x \notin A \cup s /\ s \in SUBSET S /\ x \in S
    BY <1>2
  <2>1. SumFunctionOnSet(f, s \cup {x}) = f[x] + SumFunctionOnSet(f, s)
    BY <1>2, <2>0, SumAdd
  <2> DEFINE As == A \cup s
  <2>a. As \in SUBSET S /\ x \notin As /\ x \in S
    BY <2>0
  <2> HIDE DEF As
  <2>2. SumFunctionOnSet(f, As \cup {x}) = f[x] + SumFunctionOnSet(f, As)
    BY <2>a, SumAdd
  <2>3. s \cup {x} \in SUBSET B /\ A \cup (s \cup {x}) = As \cup {x}
    BY DEF As
  <2>4. SumFunctionOnSet(f, As) = SumFunctionOnSet(f, A) + SumFunctionOnSet(f, s)
    BY <1>2 DEF As
  <2>5. /\ SumFunctionOnSet(f, A) \in Nat /\ SumFunctionOnSet(f, s) \in Nat /\ f[x] \in Nat
    BY <1>0, <2>0 DEF Counts
  <2>6. SumFunctionOnSet(f, As \cup {x})
          = SumFunctionOnSet(f, A) + SumFunctionOnSet(f, s \cup {x})
    BY <2>1, <2>2, <2>4, <2>5
  <2> QED
    BY <2>3, <2>6, Zenon
<1> HIDE DEF Q
<1>3. B \in Q
  <2>1. \A s \in SUBSET B : s \in Q
    BY <1>0, <1>1, <1>2, InductionOnSubsets, Zenon
  <2> QED
    BY <2>1
<1> QED
  BY <1>3 DEF Q
-----------------------------------------------------------------------------
LEMMA SumSame ==
  ASSUME NEW S, IsFiniteSet(S), NEW f, Counts(f, S), NEW h, \A x \in S : h[x] = f[x]
  PROVE  SumFunctionOnSet(h, S) = SumFunctionOnSet(f, S)
<1>1. S \in SUBSET S /\ \A x \in S : h[x] = IF x \in S THEN f[x] ELSE 0
  OBVIOUS
<1> QED
  BY <1>1, SumMask

\* What the first n of q weigh.
Weights(q, w) == [i \in DOMAIN q |-> w[q[i]]]
WeightTo(q, w, n) == SumFunctionOnSet(Weights(q, w), 1..n)

LEMMA WeightsCount ==
  ASSUME NEW X, NEW w \in [X -> Nat], NEW q \in Seq(X), NEW n \in 0..Len(q)
  PROVE  /\ IsFiniteSet(1..n) /\ Counts(Weights(q, w), 1..n)
         /\ \A i \in 1..n : Weights(q, w)[i] = w[q[i]] /\ q[i] \in X /\ i \in 1..Len(q)
         /\ WeightTo(q, w, n) \in Nat
<1>0. Len(q) \in Nat /\ DOMAIN q = 1..Len(q) /\ \A i \in 1..Len(q) : q[i] \in X
  OBVIOUS
<1>1. IsFiniteSet(1..n)
  BY <1>0, FS_Interval
<1>2. \A i \in 1..n : i \in 1..Len(q) /\ Weights(q, w)[i] = w[q[i]] /\ q[i] \in X
  BY <1>0 DEF Weights
<1>3. Counts(Weights(q, w), 1..n)
  BY <1>2 DEF Counts
<1> QED
  BY <1>1, <1>2, <1>3, SumNat DEF WeightTo

LEMMA WeightOfNone ==
  ASSUME NEW X, NEW w \in [X -> Nat], NEW q \in Seq(X)
  PROVE  WeightTo(q, w, 0) = 0
<1>1. 1..0 = {}
  OBVIOUS
<1> QED
  BY <1>1, SumEmpty DEF WeightTo

LEMMA WeightOfOneMore ==
  ASSUME NEW X, NEW w \in [X -> Nat], NEW q \in Seq(X), NEW n \in Nat, n + 1 <= Len(q)
  PROVE  WeightTo(q, w, n + 1) = WeightTo(q, w, n) + w[q[n + 1]]
<1>0. n \in 0..Len(q) /\ n + 1 \in 0..Len(q)
  OBVIOUS
<1> DEFINE all == 1..(n + 1)
           some == 1..n
<1>1. some \in SUBSET all /\ n + 1 \in all /\ n + 1 \notin some /\ all = some \cup {n + 1}
  OBVIOUS
<1>2. /\ IsFiniteSet(all) /\ Counts(Weights(q, w), all)
      /\ Weights(q, w)[n + 1] = w[q[n + 1]] /\ w[q[n + 1]] \in Nat
  BY <1>0, <1>1, WeightsCount
<1>3. SumFunctionOnSet(Weights(q, w), some) \in Nat
  BY <1>0, WeightsCount DEF WeightTo
<1> HIDE DEF all, some
<1>4. SumFunctionOnSet(Weights(q, w), some \cup {n + 1})
        = Weights(q, w)[n + 1] + SumFunctionOnSet(Weights(q, w), some)
  BY <1>1, <1>2, SumAdd
<1>5. SumFunctionOnSet(Weights(q, w), all) = SumFunctionOnSet(Weights(q, w), some) + w[q[n + 1]]
  BY <1>1, <1>2, <1>3, <1>4
<1> QED
  BY <1>5 DEF WeightTo, all, some

\* Lists that begin alike weigh alike so far.
Alike(r, v, q, w, n) == \A i \in 1..n : i \in DOMAIN r /\ v[r[i]] = w[q[i]]

LEMMA WeightOfSame ==
  ASSUME NEW X, NEW w \in [X -> Nat], NEW q \in Seq(X), NEW n \in 0..Len(q),
         NEW v, NEW r, Alike(r, v, q, w, n)
  PROVE  WeightTo(r, v, n) = WeightTo(q, w, n)
<1>1. IsFiniteSet(1..n) /\ Counts(Weights(q, w), 1..n)
  BY WeightsCount
<1>2. ASSUME NEW i \in 1..n PROVE Weights(r, v)[i] = Weights(q, w)[i]
  <2>1. i \in DOMAIN q /\ i \in DOMAIN r /\ v[r[i]] = w[q[i]]
    BY DEF Alike
  <2> QED
    BY <2>1 DEF Weights
<1> QED
  BY <1>1, <1>2, SumSame DEF WeightTo

LEMMA WeightOfPrefix ==
  ASSUME NEW X, NEW w \in [X -> Nat], NEW q \in Seq(X), NEW n \in 0..Len(q),
         NEW r \in Seq(X), n <= Len(r), \A i \in 1..n : r[i] = q[i]
  PROVE  WeightTo(r, w, n) = WeightTo(q, w, n)
<1>1. Alike(r, w, q, w, n)
  BY DEF Alike
<1> QED
  BY <1>1, WeightOfSame

LEMMA WeightOfConcat ==
  ASSUME NEW X, NEW w \in [X -> Nat], NEW p \in Seq(X), NEW q \in Seq(X)
  PROVE  WeightTo(p \o q, w, Len(p \o q)) = WeightTo(p, w, Len(p)) + WeightTo(q, w, Len(q))
<1> DEFINE a == Len(p)
           b == Len(q)
           r == p \o q
<1>0. /\ a \in Nat /\ b \in Nat /\ r \in Seq(X) /\ Len(r) = a + b
      /\ \A i \in 1..a : r[i] = p[i]
      /\ \A i \in 1..b : r[a + i] = q[i]
  OBVIOUS
<1>1. WeightTo(r, w, a) = WeightTo(p, w, a)
  <2>1. a \in 0..Len(p) /\ a <= Len(r) /\ r \in Seq(X) /\ \A i \in 1..a : w[r[i]] = w[p[i]]
    BY <1>0
  <2> HIDE DEF r, a, b
  <2> QED
    BY <2>1, <1>0, WeightOfPrefix
<1>2. SumFunctionOnSet(Weights(r, w), (a + 1)..(a + b)) = SumFunctionOnSet(Weights(q, w), 1..b)
  <2> DEFINE m == [i \in 1..b |-> a + i]
  <2> HIDE DEF a, b, r
  <2>1. m \in Bijection(1..b, (a + 1)..(a + b))
    <3>1. m \in [1..b -> (a + 1)..(a + b)]
      BY <1>0
    <3>2. \A i, j \in 1..b : m[i] = m[j] => i = j
      BY <1>0
    <3>3. ASSUME NEW k \in (a + 1)..(a + b) PROVE \E i \in 1..b : m[i] = k
      <4>1. k - a \in 1..b /\ m[k - a] = k
        BY <1>0
      <4> QED
        BY <4>1
    <3> HIDE DEF m
    <3> QED
      BY <3>1, <3>2, <3>3 DEF Bijection, Injection, Surjection, IsInjective
  <2>2. ASSUME NEW i \in 1..b PROVE Weights(r, w)[m[i]] = Weights(q, w)[i]
    <3>1. a + i \in 1..(a + b) /\ DOMAIN r = 1..(a + b) /\ r[a + i] = q[i]
      BY <1>0
    <3>2. DOMAIN q = 1..b
      BY DEF b
    <3> QED
      BY <3>1, <3>2 DEF Weights
  <2>3. b \in 0..Len(q)
    BY <1>0 DEF b
  <2>4. IsFiniteSet(1..b) /\ Counts(Weights(q, w), 1..b)
    BY <2>3, WeightsCount
  <2> HIDE DEF m
  <2> QED
    BY <2>1, <2>2, <2>4, SumReindex
<1>3. WeightTo(r, w, a + b) = WeightTo(r, w, a) + SumFunctionOnSet(Weights(r, w), (a + 1)..(a + b))
  <2>1. a + b \in 0..Len(r)
    BY <1>0
  <2> DEFINE all == 1..(a + b)
             one == 1..a
             two == (a + 1)..(a + b)
  <2>2. one \in SUBSET all /\ two \in SUBSET all /\ one \cap two = {} /\ one \cup two = all
    <3> HIDE DEF a, b, r
    <3> QED
      BY <1>0
  <2> HIDE DEF r, a, b
  <2>3. IsFiniteSet(all) /\ Counts(Weights(r, w), all)
    BY <1>0, <2>1, WeightsCount
  <2> HIDE DEF all, one, two
  <2>4. SumFunctionOnSet(Weights(r, w), one \cup two)
          = SumFunctionOnSet(Weights(r, w), one) + SumFunctionOnSet(Weights(r, w), two)
    BY <2>2, <2>3, SumOfBoth
  <2>5. SumFunctionOnSet(Weights(r, w), all)
          = SumFunctionOnSet(Weights(r, w), one) + SumFunctionOnSet(Weights(r, w), two)
    BY <2>2, <2>4, Zenon
  <2> QED
    BY <2>5, Zenon DEF all, one, two, WeightTo
<1> QED
  BY <1>0, <1>1, <1>2, <1>3 DEF WeightTo
-----------------------------------------------------------------------------
(* Keeping *)

\* The lists that lead to what is kept of q, up to its n-th line.
KeepsTo(at, q, S, n) ==
  at = [k \in 0..n |-> IF k = 0 THEN << >>
                       ELSE IF q[k] \in S THEN Append(at[k - 1], q[k]) ELSE at[k - 1]]

LEMMA KeepingIs ==
  ASSUME NEW q, NEW S
  PROVE  Gauge!Keeping(q, S) = (CHOOSE at : KeepsTo(at, q, S, Len(q)))[Len(q)]
  BY Zenon DEF Gauge!Keeping, KeepsTo

LEMMA KeepsToExists ==
  ASSUME NEW X, NEW q \in Seq(X), NEW S
  PROVE  \E at : KeepsTo(at, q, S, Len(q)) 
<1> DEFINE Q == {n \in Nat : n <= Len(q) => \E at \in [0..n -> Seq(X)] : KeepsTo(at, q, S, n)}
<1>1. 0 \in Q
  <2> DEFINE at == [k \in 0..0 |-> << >>]
  <2>1. at \in [0..0 -> Seq(X)] /\ KeepsTo(at, q, S, 0)
    BY DEF KeepsTo
  <2> QED
    BY <2>1
<1>2. ASSUME NEW n \in Nat, n \in Q PROVE n + 1 \in Q
  <2> SUFFICES ASSUME n + 1 <= Len(q)
               PROVE  \E at \in [0..(n + 1) -> Seq(X)] : KeepsTo(at, q, S, n + 1)
    OBVIOUS
  <2>1. PICK at \in [0..n -> Seq(X)] : KeepsTo(at, q, S, n)
    BY <1>2
  <2>2. q[n + 1] \in X
    OBVIOUS
  <2> DEFINE bt == [k \in 0..(n + 1) |-> IF k = 0 THEN << >>
                       ELSE IF q[k] \in S THEN Append(at[k - 1], q[k]) ELSE at[k - 1]]
  <2>3. bt \in [0..(n + 1) -> Seq(X)]
    <3> SUFFICES ASSUME NEW k \in 0..(n + 1), k # 0 PROVE bt[k] \in Seq(X)
      OBVIOUS
    <3>1. k - 1 \in 0..n /\ q[k] \in X
      OBVIOUS
    <3>2. at[k - 1] \in Seq(X)
      BY <3>1
    <3>3. Append(at[k - 1], q[k]) \in Seq(X)
      BY <3>1, <3>2
    <3> QED
      BY <3>2, <3>3
  <2>4. \A k \in 0..n : bt[k] = at[k]
    <3> SUFFICES ASSUME NEW k \in 0..n PROVE bt[k] = at[k]
      OBVIOUS
    <3>1. k \in 0..(n + 1)
      OBVIOUS
    <3>2. at[k] = IF k = 0 THEN << >>
                  ELSE IF q[k] \in S THEN Append(at[k - 1], q[k]) ELSE at[k - 1]
      BY <2>1, Zenon DEF KeepsTo
    <3> QED
      BY <3>1, <3>2, Zenon
  <2>5. ASSUME NEW k \in 0..(n + 1)
        PROVE  bt[k] = IF k = 0 THEN << >>
                       ELSE IF q[k] \in S THEN Append(bt[k - 1], q[k]) ELSE bt[k - 1]
    <3>1. k # 0 => k - 1 \in 0..n
      OBVIOUS
    <3>2. k # 0 => bt[k - 1] = at[k - 1]
      BY <3>1, <2>4
    <3> QED
      BY <3>2, Zenon
  <2>6. KeepsTo(bt, q, S, n + 1)
    <3> DEFINE ct == [k \in 0..(n + 1) |-> IF k = 0 THEN << >>
                       ELSE IF q[k] \in S THEN Append(bt[k - 1], q[k]) ELSE bt[k - 1]]
    <3>1. \A k \in 0..(n + 1) : bt[k] = ct[k]
      BY <2>5, Zenon
    <3>2. DOMAIN ct = 0..(n + 1)
      BY Zenon
    <3> HIDE DEF ct
    <3>4. ct \in [0..(n + 1) -> Seq(X)] 
      <4>1. ct = [k \in 0..(n + 1) |-> ct[k]]
        BY DEF ct
      <4> HIDE DEF bt
      <4> QED
        BY <2>3, <3>1, <4>1
    <3> HIDE DEF bt
    <3>3. bt = ct
      BY <2>3, <3>1, <3>4
    <3> QED
      BY <3>3, Zenon DEF ct, KeepsTo
  <2> HIDE DEF bt
  <2> QED
    BY <2>3, <2>6
<1> HIDE DEF Q
<1>3. Nat \subseteq Q
  BY <1>1, <1>2, InductionOn
<1> QED
  BY <1>3 DEF Q

LEMMA KeepingSteps ==
  ASSUME NEW q, NEW S, Len(q) \in Nat, NEW at, KeepsTo(at, q, S, Len(q))
  PROVE  /\ at[0] = << >>
         /\ \A n \in Nat : n + 1 <= Len(q) =>
              at[n + 1] = IF q[n + 1] \in S THEN Append(at[n], q[n + 1]) ELSE at[n]
<1> DEFINE N == Len(q)
<1>1. at = [k \in 0..N |-> IF k = 0 THEN << >>
                       ELSE IF q[k] \in S THEN Append(at[k - 1], q[k]) ELSE at[k - 1]]
  BY Zenon DEF KeepsTo
<1> HIDE DEF N
<1>2. N \in Nat
  BY DEF N
<1>3. at[0] = << >>
  BY <1>1, <1>2
<1>4. ASSUME NEW n \in Nat, n + 1 <= N
      PROVE  at[n + 1] = IF q[n + 1] \in S THEN Append(at[n], q[n + 1]) ELSE at[n]
  <2> DEFINE k == n + 1
  <2>1. k \in 0..N /\ k # 0 /\ k - 1 = n
    BY <1>2, <1>4
  <2> HIDE DEF k
  <2>2. at[k] = IF k = 0 THEN << >>
                ELSE IF q[k] \in S THEN Append(at[k - 1], q[k]) ELSE at[k - 1]
    BY <1>1, <2>1, Zenon
  <2>3. at[k] = IF q[k] \in S THEN Append(at[n], q[k]) ELSE at[n]
    BY <2>1, <2>2
  <2> QED
    BY <2>3 DEF k
<1> QED
  BY <1>3, <1>4 DEF N

\* v weighs what w does, but nothing outside of S.
Masks(v, w, S, X) ==
  w \in [X -> Nat] /\ v \in [X -> Nat] /\ \A e \in X : v[e] = IF e \in S THEN w[e] ELSE 0

Both(X, S) == X \cap S

LEMMA KeepingSoFar ==
  ASSUME NEW X, NEW q \in Seq(X), NEW S, NEW at, KeepsTo(at, q, S, Len(q)),
         NEW w, NEW v, Masks(v, w, S, X), NEW n \in 0..Len(q)
  PROVE  /\ at[n] \in Seq(Both(X, S)) /\ Len(at[n]) <= n
         /\ WeightTo(at[n], w, Len(at[n])) = WeightTo(q, v, n)
<1> DEFINE Q == {k \in Nat : k <= Len(q) =>
                   /\ at[k] \in Seq(Both(X, S)) /\ Len(at[k]) <= k
                   /\ WeightTo(at[k], w, Len(at[k])) = WeightTo(q, v, k)}
<1>0. Len(q) \in Nat /\ w \in [X -> Nat] /\ v \in [X -> Nat]
  BY DEF Masks
<1>1. 0 \in Q
  <2>1. at[0] = << >>
    BY <1>0, KeepingSteps
  <2>2. at[0] \in Seq(X) /\ at[0] \in Seq(Both(X, S)) /\ Len(at[0]) = 0
    BY <2>1 DEF Both
  <2>3. WeightTo(at[0], w, 0) = 0 /\ WeightTo(q, v, 0) = 0
    BY <1>0, <2>2, WeightOfNone
  <2> QED
    BY <2>2, <2>3
<1>2. ASSUME NEW c \in Nat, c \in Q PROVE c + 1 \in Q
  <2> SUFFICES ASSUME c + 1 <= Len(q)
               PROVE  /\ at[c + 1] \in Seq(Both(X, S)) /\ Len(at[c + 1]) <= c + 1
                      /\ WeightTo(at[c + 1], w, Len(at[c + 1])) = WeightTo(q, v, c + 1)
    OBVIOUS
  <2> DEFINE l == at[c]
             e == q[c + 1]
  <2>1. /\ l \in Seq(Both(X, S)) /\ Len(l) <= c
        /\ WeightTo(l, w, Len(l)) = WeightTo(q, v, c)
    BY <1>2, <1>0
  <2>2. at[c + 1] = IF e \in S THEN Append(l, e) ELSE l
    BY <1>0, KeepingSteps
  <2>3. e \in X
    OBVIOUS
  <2>4. WeightTo(q, v, c + 1) = WeightTo(q, v, c) + v[e]
    BY <1>0, WeightOfOneMore
  <2>5. WeightTo(q, v, c) \in Nat
    <3>1. c \in 0..Len(q)
      BY <1>0
    <3> QED
      BY <1>0, <3>1, WeightsCount
  <2>6. v[e] = IF e \in S THEN w[e] ELSE 0
    BY <2>3 DEF Masks
  <2> HIDE DEF l, e
  <2>7. CASE e \in S
    <3> DEFINE r == Append(l, e)
    <3>1. /\ r \in Seq(Both(X, S)) /\ r \in Seq(X) /\ l \in Seq(X) /\ Len(r) = Len(l) + 1
          /\ r[Len(l) + 1] = e /\ \A i \in 1..Len(l) : r[i] = l[i]
      BY <2>1, <2>3, <2>7 DEF Both
    <3>4. Len(l) \in Nat /\ Len(l) \in 0..Len(l)
      BY <2>1
    <3> DEFINE z == Len(l)
    <3>6. /\ r \in Seq(X) /\ l \in Seq(X) /\ z \in Nat /\ z + 1 <= Len(r) /\ z \in 0..z
          /\ z <= Len(r) /\ z \in 0..Len(l) /\ \A i \in 1..z : r[i] = l[i]
      BY <3>1, <3>4
    <3> HIDE DEF r, z
    <3>a. WeightTo(r, w, z + 1) = WeightTo(r, w, z) + w[r[z + 1]]
      BY <1>0, <3>6, WeightOfOneMore
    <3>b. WeightTo(r, w, z) = WeightTo(l, w, z)
      BY <1>0, <3>6, WeightOfPrefix
    <3>2. WeightTo(r, w, Len(l) + 1) = WeightTo(r, w, Len(l)) + w[r[Len(l) + 1]]
      BY <3>a DEF z
    <3>3. WeightTo(r, w, Len(l)) = WeightTo(l, w, Len(l))
      BY <3>b DEF z
    <3>5. at[c + 1] = r
      BY <2>2, <2>7 DEF r
    <3> QED
      BY <3>1, <3>2, <3>3, <3>4, <3>5, <2>1, <2>4, <2>6, <2>7
  <2>8. CASE e \notin S
    BY <2>1, <2>2, <2>4, <2>5, <2>6, <2>8
  <2> QED
    BY <2>7, <2>8
<1> HIDE DEF Q
<1>3. Nat \subseteq Q
  BY <1>1, <1>2, InductionOn
<1>4. n \in Q /\ n <= Len(q)
  BY <1>0, <1>3
<1> QED
  BY <1>4 DEF Q

\* k begins with l, and has at most d more.
Extends(k, l, d) ==
  /\ Len(l) <= Len(k) /\ Len(k) - Len(l) <= d
  /\ \A i \in 1..Len(l) : k[i] = l[i]

LEMMA ExtendsOneMore ==
  ASSUME NEW X, NEW k \in Seq(X), NEW l \in Seq(X), NEW d \in Nat, Extends(k, l, d), NEW e \in X
  PROVE  Extends(k, l, d + 1) /\ Extends(Append(k, e), l, d + 1)
<1>1. /\ Len(Append(k, e)) = Len(k) + 1 /\ \A i \in 1..Len(k) : Append(k, e)[i] = k[i]
      /\ Len(k) \in Nat /\ Len(l) \in Nat
  OBVIOUS
<1>2. \A i \in 1..Len(l) : i \in 1..Len(k)
  BY <1>1 DEF Extends
<1> QED
  BY <1>1, <1>2 DEF Extends

LEMMA KeepingFromHere ==
  ASSUME NEW X, NEW q \in Seq(X), NEW S, NEW at, KeepsTo(at, q, S, Len(q)),
         \A n \in 0..Len(q) : at[n] \in Seq(X), NEW n \in 0..Len(q)
  PROVE  Extends(at[Len(q)], at[n], Len(q) - n)
<1> DEFINE Q == {d \in Nat : n + d <= Len(q) => Extends(at[n + d], at[n], d)}
<1>0. Len(q) \in Nat /\ Len(at[n]) \in Nat
  OBVIOUS
<1>1. 0 \in Q
  BY <1>0 DEF Extends
<1>2. ASSUME NEW d \in Nat, d \in Q PROVE d + 1 \in Q
  <2> SUFFICES ASSUME n + (d + 1) <= Len(q)
               PROVE  Extends(at[n + (d + 1)], at[n], d + 1)
    OBVIOUS
  <2> DEFINE m == n + d
             l == at[m]
             e == q[m + 1]
  <2>1. m \in Nat /\ m + 1 <= Len(q) /\ m \in 0..Len(q) /\ n + (d + 1) = m + 1
    BY <1>0
  <2>2. Extends(l, at[n], d)
    BY <1>2, <2>1
  <2> HIDE DEF m
  <2>3. at[m + 1] = IF e \in S THEN Append(l, e) ELSE l
    BY <1>0, <2>1, KeepingSteps
  <2>4. l \in Seq(X) /\ e \in X /\ at[n] \in Seq(X)
    BY <2>1
  <2> HIDE DEF l, e
  <2>5. Extends(l, at[n], d + 1) /\ Extends(Append(l, e), at[n], d + 1)
    BY <2>2, <2>4, ExtendsOneMore
  <2>6. Extends(at[m + 1], at[n], d + 1)
    BY <2>3, <2>5
  <2> QED
    BY <2>1, <2>6
<1> HIDE DEF Q
<1>3. Nat \subseteq Q
  BY <1>1, <1>2, InductionOn
<1>4. Len(q) - n \in Q /\ n + (Len(q) - n) = Len(q)
  BY <1>0, <1>3
<1> QED
  BY <1>0, <1>4 DEF Q

\* What is kept weighs what it weighed; and of what was the beginning, a beginning
\* is kept, followed by no more than did follow.
LEMMA KeepingFacts ==
  ASSUME NEW X, NEW q \in Seq(X), NEW S,
         NEW w, NEW v, Masks(v, w, S, X)
  PROVE  LET kept == Gauge!Keeping(q, S)
         IN  /\ kept \in Seq(Both(X, S)) /\ Len(kept) <= Len(q)
             /\ WeightTo(kept, w, Len(kept)) = WeightTo(q, v, Len(q))
             /\ \A n \in 0..Len(q) : \E m \in 0..Len(kept) :
                  /\ Len(kept) - m <= Len(q) - n /\ m <= n
                  /\ WeightTo(kept, w, m) = WeightTo(q, v, n)
<1> DEFINE kept == Gauge!Keeping(q, S)
<1>1. PICK at : KeepsTo(at, q, S, Len(q)) /\ kept = at[Len(q)]
  BY KeepsToExists, KeepingIs, Zenon
<1> HIDE DEF kept
<1>2. Len(q) \in Nat
  OBVIOUS
<1>3. ASSUME NEW n \in 0..Len(q)
      PROVE  /\ at[n] \in Seq(Both(X, S)) /\ Len(at[n]) <= n
             /\ WeightTo(at[n], w, Len(at[n])) = WeightTo(q, v, n)
  <2>1. KeepsTo(at, q, S, Len(q))
    BY <1>1
  <2> QED
    BY <2>1, KeepingSoFar
<1>4. /\ kept \in Seq(Both(X, S)) /\ Len(kept) <= Len(q)
      /\ WeightTo(kept, w, Len(kept)) = WeightTo(q, v, Len(q))
  BY <1>1, <1>2, <1>3
<1>5. ASSUME NEW n \in 0..Len(q)
      PROVE  \E m \in 0..Len(kept) :
               /\ Len(kept) - m <= Len(q) - n /\ m <= n
               /\ WeightTo(kept, w, m) = WeightTo(q, v, n)
  <2>1. \A k \in 0..Len(q) : at[k] \in Seq(X)
    BY <1>3 DEF Both
  <2>2. Extends(kept, at[n], Len(q) - n)
    BY <1>1, <2>1, KeepingFromHere
  <2> DEFINE l == at[n]
             m == Len(l)
  <2>a. l \in Seq(Both(X, S)) /\ m <= n /\ WeightTo(l, w, m) = WeightTo(q, v, n)
    BY <1>3
  <2>3. l \in Seq(X) /\ kept \in Seq(X) /\ m \in Nat /\ m <= n
    <3> HIDE DEF l
    <3> QED
      BY <2>a, <1>4 DEF Both
  <2>4. /\ m <= Len(kept) /\ Len(kept) - m <= Len(q) - n
        /\ \A i \in 1..m : kept[i] = l[i]
    BY <2>2 DEF Extends
  <2>5. m \in 0..Len(l)
    BY <2>3
  <2> HIDE DEF l, m
  <2>b. w \in [X -> Nat]
    BY DEF Masks
  <2>6. WeightTo(kept, w, m) = WeightTo(l, w, m)
    BY <2>3, <2>4, <2>5, <2>b, WeightOfPrefix
  <2>7. m \in 0..Len(kept)
    BY <2>3, <2>4
  <2> QED
    BY <2>a, <2>3, <2>4, <2>6, <2>7
<1> QED
  BY <1>4, <1>5 DEF kept
-----------------------------------------------------------------------------
(* Sums of functions that differ little. *)

LEMMA SumOfZeros ==
  ASSUME NEW S, IsFiniteSet(S), NEW h, \A x \in S : h[x] = 0
  PROVE  SumFunctionOnSet(h, S) = 0
<1>1. {} \in SUBSET S /\ Counts(h, {}) /\ \A x \in S : h[x] = IF x \in {} THEN h[x] ELSE 0
  BY DEF Counts
<1>2. SumFunctionOnSet(h, {}) = SumFunctionOnSet(h, S)
  BY <1>1, SumMask
<1> QED
  BY <1>2, SumEmpty

LEMMA SumChange ==
  ASSUME NEW S, IsFiniteSet(S), NEW f, Counts(f, S), NEW h, Counts(h, S),
         NEW x \in S, \A y \in S \ {x} : h[y] = f[y]
  PROVE  SumFunctionOnSet(h, S) = SumFunctionOnSet(f, S) - f[x] + h[x]
<1> DEFINE R == S \ {x}
<1>1. R \in SUBSET S /\ x \notin R /\ S = R \cup {x} /\ IsFiniteSet(R)
  BY FS_Subset
<1>2. \A y \in R : h[y] = f[y]
  OBVIOUS
<1> HIDE DEF R
<1>3. SumFunctionOnSet(h, R \cup {x}) = h[x] + SumFunctionOnSet(h, R)
  BY <1>1, SumAdd
<1>4. SumFunctionOnSet(f, R \cup {x}) = f[x] + SumFunctionOnSet(f, R)
  BY <1>1, SumAdd
<1>5. Counts(f, R)
  BY <1>1 DEF Counts
<1>6. SumFunctionOnSet(h, R) = SumFunctionOnSet(f, R)
  BY <1>1, <1>2, <1>5, SumSame
<1>7. f[x] \in Nat /\ h[x] \in Nat /\ SumFunctionOnSet(f, R) \in Nat
  BY <1>1, <1>5, SumNat DEF Counts
<1> QED
  BY <1>1, <1>3, <1>4, <1>6, <1>7

LEMMA WeightOfNothing ==
  ASSUME NEW q, NEW w, NEW n \in Nat, \A i \in 1..n : i \in DOMAIN q /\ w[q[i]] = 0
  PROVE  WeightTo(q, w, n) = 0
<1>1. \A i \in 1..n : Weights(q, w)[i] = 0
  BY DEF Weights
<1>2. IsFiniteSet(1..n)
  BY FS_Interval
<1> QED
  BY <1>1, <1>2, SumOfZeros DEF WeightTo

LEMMA WeightGrows ==
  ASSUME NEW X, NEW w \in [X -> Nat], NEW q \in Seq(X), NEW m \in Int, NEW n \in 0..Len(q), m <= n
  PROVE  WeightTo(q, w, m) \in 0..WeightTo(q, w, n)
<1> DEFINE head == 1..m
           tail == {i \in 1..n : i > m}
           all == 1..n
<1>1. head \in SUBSET all /\ tail \in SUBSET all /\ head \cap tail = {} /\ all = head \cup tail
  OBVIOUS
<1>2. IsFiniteSet(all) /\ Counts(Weights(q, w), all)
  BY WeightsCount
<1> HIDE DEF head, tail, all
<1>3. SumFunctionOnSet(Weights(q, w), head \cup tail)
        = SumFunctionOnSet(Weights(q, w), head) + SumFunctionOnSet(Weights(q, w), tail)
  BY <1>1, <1>2, SumOfBoth
<1>4. SumFunctionOnSet(Weights(q, w), head) \in Nat /\ SumFunctionOnSet(Weights(q, w), tail) \in Nat
  BY <1>1, <1>2, SumNatOn
<1>5. SumFunctionOnSet(Weights(q, w), head) \in 0..SumFunctionOnSet(Weights(q, w), all)
  BY <1>1, <1>3, <1>4
<1> QED
  BY <1>5 DEF WeightTo, head, all
-----------------------------------------------------------------------------
(* Sorting *)

Permutes(p, n) == p \in [1..n -> 1..n] /\ (\A i, j \in 1..n : p[i] = p[j] => i = j)
                  /\ \A k \in 1..n : \E i \in 1..n : p[i] = k
Descends(p, a, n) == \A i, j \in 1..n : i < j => a[p[i]] >= a[p[j]]

LEMMA InsertSorted ==
  ASSUME NEW N \in Nat, NEW a \in [1..N -> Int], NEW n \in Nat, n + 1 <= N,
         NEW p, Permutes(p, n), Descends(p, a, n)
  PROVE  \E r : Permutes(r, n + 1) /\ Descends(r, a, n + 1)
<1> DEFINE x == a[n + 1]
           T == {k \in 1..(n + 1) : \A i \in 1..n : i >= k => a[p[i]] < x}
<1>0. x \in Int /\ \A i \in 1..n : p[i] \in 1..n /\ a[p[i]] \in Int
  <2>1. \A i \in 1..n : p[i] \in 1..n
    BY DEF Permutes
  <2>2. \A i \in 1..(n + 1) : i \in 1..N
    OBVIOUS
  <2>3. n + 1 \in 1..(n + 1) /\ \A i \in 1..n : p[i] \in 1..(n + 1)
    BY <2>1
  <2> QED
    BY <2>1, <2>2, <2>3
<1>1. n + 1 \in T /\ T \subseteq Nat
  OBVIOUS
<1>2. PICK k \in T : \A m \in T : k <= m
  BY <1>1, LeastOf
<1>3. k \in 1..(n + 1) /\ \A i \in 1..n : i >= k => a[p[i]] < x
  OBVIOUS
<1>4. ASSUME NEW i \in 1..n, i < k PROVE a[p[i]] >= x
  <2>1. CASE k = 1
    BY <1>4, <2>1
  <2>2. CASE k # 1
    <3>a. k - 1 \in 1..(n + 1)
      BY <1>3, <2>2
    <3>b. k - 1 \notin T
      <4> HIDE DEF T
      <4> QED
        BY <1>2, <1>3
    <3>1. k - 1 \in 1..(n + 1) /\ k - 1 \notin T
      BY <3>a, <3>b
    <3>2. PICK l \in 1..n : l >= k - 1 /\ ~(a[p[l]] < x)
      BY <3>1
    <3>3. l = k - 1
      BY <1>3, <3>2
    <3>4. a[p[l]] >= x
      BY <1>0, <3>2
    <3>5. i = l \/ i < l
      BY <1>3, <1>4, <3>3
    <3>6. a[p[i]] >= a[p[l]]
      BY <1>0, <3>5 DEF Descends
    <3> QED
      BY <1>0, <3>4, <3>6
  <2> QED
    BY <2>1, <2>2
<1> HIDE DEF T
<1> DEFINE r == [i \in 1..(n + 1) |-> IF i < k THEN p[i] ELSE IF i = k THEN n + 1 ELSE p[i - 1]]
<1>5. \A i \in 1..(n + 1) :
        /\ i < k => i \in 1..n /\ r[i] = p[i]
        /\ i = k => r[i] = n + 1
        /\ i > k => i - 1 \in 1..n /\ r[i] = p[i - 1]
  BY <1>3
<1>6. r \in [1..(n + 1) -> 1..(n + 1)]
  <2> SUFFICES ASSUME NEW i \in 1..(n + 1) PROVE r[i] \in 1..(n + 1)
    OBVIOUS
  <2> HIDE DEF r
  <2>1. CASE i < k
    BY <1>0, <1>5, <2>1
  <2>2. CASE i = k
    BY <1>5, <2>2
  <2>3. CASE i > k
    BY <1>0, <1>5, <2>3
  <2> QED
    BY <1>3, <2>1, <2>2, <2>3
<1> HIDE DEF r
<1>7. ASSUME NEW i \in 1..(n + 1), NEW j \in 1..(n + 1), i < j
      PROVE  r[i] # r[j] /\ a[r[i]] >= a[r[j]]
  <2>0. \A u, v \in 1..n : u < v => p[u] # p[v] /\ a[p[u]] >= a[p[v]]
    <3> SUFFICES ASSUME NEW u \in 1..n, NEW v \in 1..n, u < v
                 PROVE  p[u] # p[v] /\ a[p[u]] >= a[p[v]]
      OBVIOUS
    <3>1. p[u] = p[v] => u = v
      BY DEF Permutes
    <3>2. a[p[u]] >= a[p[v]]
      BY DEF Descends
    <3> QED
      BY <3>1, <3>2
  <2>1. CASE j < k
    <3>1. i \in 1..n /\ j \in 1..n /\ r[i] = p[i] /\ r[j] = p[j]
      BY <1>3, <1>5, <1>7, <2>1
    <3> QED
      BY <1>7, <2>0, <3>1
  <2>2. CASE j = k
    <3>1. i < k
      BY <1>7, <2>2
    <3>2. i \in 1..n /\ r[i] = p[i] /\ r[j] = n + 1
      BY <1>5, <2>2, <3>1
    <3> QED
      BY <1>0, <1>4, <3>1, <3>2
  <2>3. CASE j > k /\ i < k
    <3>2. i \in 1..n /\ j - 1 \in 1..n /\ r[i] = p[i] /\ r[j] = p[j - 1] /\ i < j - 1
      BY <1>3, <1>5, <2>3
    <3> QED
      BY <2>0, <3>2
  <2>4. CASE j > k /\ i = k
    <3>1. j - 1 \in 1..n /\ j - 1 >= k /\ r[i] = n + 1 /\ r[j] = p[j - 1]
      BY <1>3, <1>5, <2>4
    <3>2. a[p[j - 1]] < x /\ p[j - 1] \in 1..n /\ a[p[j - 1]] \in Int
      BY <1>0, <1>3, <3>1
    <3> QED
      BY <1>0, <3>1, <3>2
  <2>5. CASE j > k /\ i > k
    <3>1. i - 1 \in 1..n /\ j - 1 \in 1..n /\ r[i] = p[i - 1] /\ r[j] = p[j - 1] /\ i - 1 < j - 1
      BY <1>3, <1>5, <1>7, <2>5
    <3> QED
      BY <2>0, <3>1
  <2> QED
    BY <1>3, <2>1, <2>2, <2>3, <2>4, <2>5
<1>8. \A i, j \in 1..(n + 1) : r[i] = r[j] => i = j
  BY <1>7
<1>9. ASSUME NEW y \in 1..(n + 1) PROVE \E i \in 1..(n + 1) : r[i] = y
  <2>1. CASE y = n + 1
    BY <1>3, <1>5, <2>1
  <2>2. CASE y # n + 1
    <3>1. y \in 1..n
      BY <2>2
    <3>2. PICK i \in 1..n : p[i] = y
      BY <3>1 DEF Permutes
    <3>3. CASE i < k
      BY <1>5, <3>2, <3>3
    <3>4. CASE i >= k
      <4>1. i + 1 \in 1..(n + 1) /\ i + 1 > k /\ (i + 1) - 1 = i
        BY <1>3, <3>4
      <4>2. r[i + 1] = p[(i + 1) - 1]
        BY <1>5, <4>1
      <4> QED
        BY <3>2, <4>1, <4>2
    <3> QED
      BY <1>3, <3>3, <3>4
  <2> QED
    BY <2>1, <2>2
<1>10. Permutes(r, n + 1) /\ Descends(r, a, n + 1)
  BY <1>6, <1>7, <1>8, <1>9 DEF Permutes, Descends
<1> QED
  BY <1>10

LEMMA SortExists ==
  ASSUME NEW N \in Nat, NEW a \in [1..N -> Int]
  PROVE  \E p : Permutes(p, N) /\ Descends(p, a, N)
<1> DEFINE Q == {n \in Nat : n <= N => \E p : Permutes(p, n) /\ Descends(p, a, n)}
<1>1. 0 \in Q
  <2> DEFINE p == [i \in 1..0 |-> i]
  <2>1. Permutes(p, 0) /\ Descends(p, a, 0)
    BY DEF Permutes, Descends
  <2> QED
    BY <2>1
<1>2. ASSUME NEW n \in Nat, n \in Q PROVE n + 1 \in Q
  <2> SUFFICES ASSUME n + 1 <= N PROVE \E r : Permutes(r, n + 1) /\ Descends(r, a, n + 1)
    OBVIOUS
  <2>1. PICK p : Permutes(p, n) /\ Descends(p, a, n)
    BY <1>2
  <2> QED
    BY <2>1, InsertSorted
<1> HIDE DEF Q
<1>3. Nat \subseteq Q
  BY <1>1, <1>2, InductionOn
<1> QED
  BY <1>3 DEF Q
-----------------------------------------------------------------------------
(* The gauge *)

AnyLine == [age : Nat, tok : Token]

\* A line counts if it is not older than a.
CountsTo(a) == [e \in AnyLine |-> IF e.age <= a THEN e.tok ELSE 0]

LEMMA GaugeSum ==
  ASSUME NEW f, NEW S
  PROVE  Gauge!SumFunctionOnSet(f, S) = SumFunctionOnSet(f, S)
  BY Zenon DEF Gauge!SumFunctionOnSet, Gauge!FoldFunctionOnSet, Gauge!MapThenFoldSet,
               SumFunctionOnSet, FoldFunctionOnSet, MapThenFoldSet

LEMMA CountsToType ==
  ASSUME NEW a
  PROVE  /\ CountsTo(a) \in [AnyLine -> Nat]
         /\ Gauge!Line \subseteq AnyLine
         /\ Seq(Gauge!Line) \subseteq Seq(AnyLine)
<1>1. Token \subseteq Nat
  BY GaugeAssumption DEF Gauge!UsageAssumption
<1>2. Gauge!Line \subseteq AnyLine
  BY DEF Gauge!Line, AnyLine
<1>3. CountsTo(a) \in [AnyLine -> Nat]
  <2>1. \A e \in AnyLine : (IF e.age <= a THEN e.tok ELSE 0) \in Nat
    BY <1>1 DEF AnyLine
  <2> QED
    BY <2>1 DEF CountsTo
<1>4. ASSUME NEW q \in Seq(Gauge!Line) PROVE q \in Seq(AnyLine)
  BY <1>2
<1> QED
  BY <1>2, <1>3, <1>4

LEMMA TokensAreWeights ==
  ASSUME NEW q \in Seq(AnyLine), NEW n \in Int, n <= Len(q), NEW a \in Int
  PROVE  Gauge!TokensOf(q, Gauge!Within(q, a) \cap 1..n) = WeightTo(q, CountsTo(a), n)
<1> DEFINE all == 1..n
           I == Gauge!Within(q, a) \cap all
           f == [i \in DOMAIN q |-> q[i].tok]
           h == Weights(q, CountsTo(a))
<1>0. DOMAIN q = 1..Len(q) /\ Len(q) \in Nat /\ \A i \in DOMAIN q : q[i] \in AnyLine
  OBVIOUS
<1>1. \A i \in all : i \in DOMAIN q
  BY <1>0
<1>2. IsFiniteSet(all)
  BY FS_Interval
<1>3. I \in SUBSET all
  OBVIOUS
<1>4. ASSUME NEW i \in all PROVE h[i] = IF i \in I THEN f[i] ELSE 0
  <2>1. i \in DOMAIN q /\ q[i] \in AnyLine
    BY <1>0, <1>1
  <2>2. h[i] = IF q[i].age <= a THEN q[i].tok ELSE 0
    BY <2>1 DEF Weights, CountsTo
  <2>3. i \in I <=> q[i].age <= a
    BY <2>1 DEF Gauge!Within
  <2> QED
    BY <2>1, <2>2, <2>3
<1>5. Counts(f, I)
  <2> SUFFICES ASSUME NEW i \in I PROVE f[i] \in Nat
    BY DEF Counts
  <2>1. i \in DOMAIN q /\ q[i] \in AnyLine
    BY <1>0, <1>1
  <2> QED
    BY <2>1, GaugeAssumption DEF AnyLine, Gauge!UsageAssumption
<1>6. Gauge!TokensOf(q, I) = SumFunctionOnSet(f, I)
  BY GaugeSum DEF Gauge!TokensOf
<1> HIDE DEF I, f, h, all
<1>7. SumFunctionOnSet(f, I) = SumFunctionOnSet(h, all)
  BY <1>2, <1>3, <1>4, <1>5, SumMask
<1>8. Gauge!TokensOf(q, I) = SumFunctionOnSet(h, all)
  BY <1>6, <1>7
<1> QED
  BY <1>8 DEF I, h, all, WeightTo

LEMMA TokensWithin ==
  ASSUME NEW q \in Seq(AnyLine), NEW a \in Int
  PROVE  Gauge!TokensOf(q, Gauge!Within(q, a)) = WeightTo(q, CountsTo(a), Len(q))
<1>1. Gauge!Within(q, a) \cap 1..Len(q) = Gauge!Within(q, a)
  BY DEF Gauge!Within
<1>2. Gauge!TokensOf(q, Gauge!Within(q, a) \cap 1..Len(q)) = WeightTo(q, CountsTo(a), Len(q))
  BY TokensAreWeights
<1> QED
  BY <1>1, <1>2

Orders(p, q) ==
  \A i, j \in DOMAIN q : i < j => q[p[i]].age >= q[p[j]].age

LEMMA SortedIs ==
  ASSUME NEW q
  PROVE  Gauge!Sorted(q) = [i \in DOMAIN q |->
           q[(CHOOSE p \in Gauge!Bijection(DOMAIN q, DOMAIN q) : Orders(p, q))[i]]]
  BY Zenon DEF Gauge!Sorted, Orders

LEMMA SortedFacts ==
  ASSUME NEW X, X \subseteq AnyLine, NEW q \in Seq(X)
  PROVE  LET s == Gauge!Sorted(q)
         IN  \E p : /\ Permutes(p, Len(q)) /\ s = [i \in 1..Len(q) |-> q[p[i]]]
                    /\ s \in Seq(X) /\ Len(s) = Len(q)
                    /\ \A i, j \in 1..Len(q) : i < j => s[i].age >= s[j].age
<1> DEFINE N == Len(q)
           a == [i \in 1..N |-> q[i].age]
           B == Gauge!Bijection(DOMAIN q, DOMAIN q)
           p == CHOOSE p \in B : Orders(p, q)
<1>0. DOMAIN q = 1..N /\ N \in Nat
  OBVIOUS
<1>1. a \in [1..N -> Int]
  BY DEF AnyLine
<1>2. \A r : Permutes(r, N) <=> r \in B
  BY <1>0 DEF Permutes, Gauge!Bijection, Gauge!Injection, Gauge!Surjection, Gauge!IsInjective
<1>3. \A r : Permutes(r, N) => (Descends(r, a, N) <=> Orders(r, q))
  <2> SUFFICES ASSUME NEW r, Permutes(r, N) PROVE Descends(r, a, N) <=> Orders(r, q)
    OBVIOUS
  <2>1. \A i \in 1..N : r[i] \in 1..N
    BY DEF Permutes
  <2>2. \A i \in 1..N : a[r[i]] = q[r[i]].age
    BY <2>1
  <2>3. Descends(r, a, N) <=> \A i, j \in 1..N : i < j => q[r[i]].age >= q[r[j]].age
    BY <2>2 DEF Descends
  <2>4. Orders(r, q) <=> \A i, j \in 1..N : i < j => q[r[i]].age >= q[r[j]].age
    BY <1>0, Zenon DEF Orders
  <2> QED
    BY <2>3, <2>4
<1> HIDE DEF a, B
<1>4. \E r \in B : Orders(r, q)
  BY <1>0, <1>1, <1>2, <1>3, SortExists
<1>5. p \in B /\ Orders(p, q)
  BY <1>4
<1>6. Gauge!Sorted(q) = [i \in DOMAIN q |-> q[p[i]]]
  BY SortedIs DEF B
<1> HIDE DEF p
<1>7. Permutes(p, N)
  BY <1>2, <1>5
<1> DEFINE s == [i \in 1..N |-> q[p[i]]]
<1>8. Gauge!Sorted(q) = s
  BY <1>0, <1>6
<1>9. s \in Seq(X) /\ Len(s) = N
  <2>1. \A i \in 1..N : q[p[i]] \in X
    BY <1>0, <1>7 DEF Permutes
  <2>2. s \in [1..N -> X]
    BY <2>1
  <2>3. s \in Seq(X)
    BY <1>0, <2>2
  <2> QED
    BY <1>0, <2>3
<1>10. \A i, j \in 1..N : i < j => s[i].age >= s[j].age
  BY <1>0, <1>5 DEF Orders
<1> QED
  BY <1>7, <1>8, <1>9, <1>10, Zenon

\* S is A and B, with nothing in both.
Splits(S, A, B) == A \in SUBSET S /\ B \in SUBSET S /\ A \cap B = {} /\ A \cup B = S

LEMMA SumSplit ==
  ASSUME NEW S, IsFiniteSet(S), NEW f, Counts(f, S), NEW A, NEW B, Splits(S, A, B)
  PROVE  /\ SumFunctionOnSet(f, S) = SumFunctionOnSet(f, A) + SumFunctionOnSet(f, B)
         /\ SumFunctionOnSet(f, A) \in Nat /\ SumFunctionOnSet(f, B) \in Nat
<1>1. A \in SUBSET S /\ B \in SUBSET S /\ A \cap B = {}
  BY DEF Splits
<1>2. SumFunctionOnSet(f, A \cup B) = SumFunctionOnSet(f, A) + SumFunctionOnSet(f, B)
  BY <1>1, SumOfBoth
<1>3. A \cup B = S
  BY DEF Splits
<1>4. SumFunctionOnSet(f, A) \in Nat /\ SumFunctionOnSet(f, B) \in Nat
  BY <1>1, SumNatOn
<1> QED
  BY <1>2, <1>3, <1>4, Zenon

LEMMA SumOfOne ==
  ASSUME NEW f, NEW x, f[x] \in Nat
  PROVE  SumFunctionOnSet(f, {x}) = f[x]
<1> DEFINE S == {x}
           s == S \ {x}
<1>1. IsFiniteSet(S) /\ Counts(f, S) /\ s \in SUBSET S /\ x \in S /\ x \notin s /\ s = {}
  BY FS_Singleton DEF Counts
<1>a. S = s \cup {x}
  OBVIOUS
<1> HIDE DEF S, s
<1>2. SumFunctionOnSet(f, s \cup {x}) = f[x] + SumFunctionOnSet(f, s)
  BY <1>1, SumAdd
<1>3. SumFunctionOnSet(f, s) = 0
  BY <1>1, SumEmpty
<1>4. SumFunctionOnSet(f, S) = f[x] + SumFunctionOnSet(f, s)
  BY <1>2, <1>a, Zenon
<1> QED
  BY <1>3, <1>4 DEF S
-----------------------------------------------------------------------------
(* The two pointers *)

LEMMA MaxIs ==
  ASSUME NEW T, T \subseteq Int, NEW x \in T, \A y \in T : y <= x
  PROVE  Gauge!Max(T) = x
<1>1. \A z \in T : (\A y \in T : z >= y) => z = x
  OBVIOUS
<1>2. \A y \in T : x >= y
  OBVIOUS
<1> QED
  BY <1>1, <1>2 DEF Gauge!Max

LEMMA MinIs ==
  ASSUME NEW T, T \subseteq Int, NEW x \in T, \A y \in T : x <= y
  PROVE  Gauge!Min(T) = x
<1>1. \A z \in T : (\A y \in T : z <= y) => z = x
  OBVIOUS
<1> QED
  BY <1>1 DEF Gauge!Min

LEMMA MinFacts ==
  ASSUME NEW T, T \subseteq Nat, T # {}
  PROVE  Gauge!Min(T) \in T /\ \A y \in T : Gauge!Min(T) <= y
<1>1. PICK x \in T : \A y \in T : x <= y
  BY LeastOf
<1> QED
  BY <1>1 DEF Gauge!Min

LEMMA MaxFacts ==
  ASSUME NEW T, T \subseteq Nat, T # {}, NEW b \in Nat, \A y \in T : y <= b
  PROVE  Gauge!Max(T) \in T /\ \A y \in T : y <= Gauge!Max(T)
<1> DEFINE U == {u \in Nat : u <= b /\ b - u \in T}
<1>1. \A y \in T : b - y \in U
  OBVIOUS
<1>2. PICK u \in U : \A y \in U : u <= y
  BY <1>1, LeastOf
<1>3. b - u \in T /\ \A y \in T : y <= b - u
  BY <1>1, <1>2
<1>4. T \subseteq Int
  OBVIOUS
<1> DEFINE x == b - u
<1> HIDE DEF U, x
<1>5. x \in T /\ \A y \in T : y <= x
  BY <1>3 DEF x
<1> QED
  BY <1>4, <1>5, MaxIs

Tok(q) == [i \in DOMAIN q |-> q[i].tok]

LEMMA TokensOfFacts ==
  ASSUME NEW q \in Seq(AnyLine), NEW J \in SUBSET (1..Len(q)), NEW I \in SUBSET J
  PROVE  /\ Gauge!TokensOf(q, J) \in Nat
         /\ Gauge!TokensOf(q, I) \in Nat
         /\ Gauge!TokensOf(q, I) <= Gauge!TokensOf(q, J)
         /\ Gauge!TokensOf(q, J) = Gauge!TokensOf(q, I) + Gauge!TokensOf(q, J \ I)
<1>1. Len(q) \in Nat /\ DOMAIN q = 1..Len(q)
  OBVIOUS
<1>2. IsFiniteSet(1..Len(q))
  BY <1>1, FS_Interval
<1>3. IsFiniteSet(J)
  BY <1>2, FS_Subset
<1>4. Counts(Tok(q), J)
  <2> SUFFICES ASSUME NEW i \in J PROVE Tok(q)[i] \in Nat
    BY DEF Counts
  <2>1. i \in DOMAIN q /\ q[i] \in AnyLine
    BY <1>1
  <2> QED
    BY <2>1, GaugeAssumption DEF AnyLine, Tok, Gauge!UsageAssumption
<1>5. \A K : Gauge!TokensOf(q, K) = SumFunctionOnSet(Tok(q), K)
  BY GaugeSum DEF Gauge!TokensOf, Tok
<1> DEFINE K == J \ I
<1>6. Splits(J, I, K)
  BY DEF Splits
<1> HIDE DEF K
<1>7. /\ SumFunctionOnSet(Tok(q), J) = SumFunctionOnSet(Tok(q), I) + SumFunctionOnSet(Tok(q), K)
      /\ SumFunctionOnSet(Tok(q), I) \in Nat /\ SumFunctionOnSet(Tok(q), K) \in Nat
  BY <1>3, <1>4, <1>6, SumSplit
<1>8. /\ Gauge!TokensOf(q, J) = SumFunctionOnSet(Tok(q), J)
      /\ Gauge!TokensOf(q, I) = SumFunctionOnSet(Tok(q), I)
      /\ Gauge!TokensOf(q, K) = SumFunctionOnSet(Tok(q), K)
  BY <1>5
<1>9. Gauge!TokensOf(q, J) = Gauge!TokensOf(q, I) + Gauge!TokensOf(q, K)
  BY <1>7, <1>8
<1>10. /\ Gauge!TokensOf(q, I) \in Nat /\ Gauge!TokensOf(q, K) \in Nat
       /\ Gauge!TokensOf(q, J) \in Nat
  BY <1>7, <1>8
<1>11. Gauge!TokensOf(q, I) <= Gauge!TokensOf(q, J)
  BY <1>9, <1>10
<1> QED
  BY <1>9, <1>10, <1>11 DEF K

LEMMA TokensOfOne ==
  ASSUME NEW q \in Seq(AnyLine), NEW i \in 1..Len(q)
  PROVE  Gauge!TokensOf(q, {i}) = q[i].tok /\ q[i].tok \in Nat /\ q[i].age \in Nat
<1>1. DOMAIN q = 1..Len(q) /\ q[i] \in AnyLine
  OBVIOUS
<1>2. Tok(q)[i] = q[i].tok /\ q[i].tok \in Nat /\ q[i].age \in Nat
  BY <1>1, GaugeAssumption DEF AnyLine, Tok, Gauge!UsageAssumption
<1>5. SumFunctionOnSet(Tok(q), {i}) = Tok(q)[i]
  BY <1>2, SumOfOne
<1>7. Gauge!TokensOf(q, {i}) = SumFunctionOnSet(Tok(q), {i})
  BY GaugeSum DEF Gauge!TokensOf, Tok
<1> QED
  BY <1>2, <1>5, <1>7

\* The events come in the order of time.
InOrder(q) == q \in Seq(AnyLine) /\ \A i, j \in 1..Len(q) : i < j => q[i].age >= q[j].age

First(q, r) == IF r = 0 THEN 1 ELSE Gauge!FirstIn(q, 1, r)
InIt(q, r)  == Gauge!TokensOf(q, First(q, r)..r)
Best(q, r)  == Gauge!Max({InIt(q, k) : k \in 0..r})

LEMMA FirstFacts ==
  ASSUME NEW q, InOrder(q), NEW r \in 1..Len(q)
  PROVE  /\ First(q, r) \in 1..r
         /\ \A l \in 1..r : q[l].age - q[r].age <= Window <=> l >= First(q, r)
<1> DEFINE T == {l \in 1..r : q[l].age - q[r].age <= Window}
<1>0. /\ \A i \in 1..Len(q) : q[i].age \in Nat
      /\ \A i, j \in 1..Len(q) : i < j => q[i].age >= q[j].age
      /\ Window \in Nat /\ r \in Nat /\ Len(q) \in Nat
  <2>1. q \in Seq(AnyLine) /\ \A i, j \in 1..Len(q) : i < j => q[i].age >= q[j].age
    BY DEF InOrder
  <2>2. Window \in Nat
    BY GaugeAssumption DEF Gauge!UsageAssumption
  <2>3. ASSUME NEW i \in 1..Len(q) PROVE q[i].age \in Nat
    BY <2>1, TokensOfOne
  <2> QED
    BY <2>1, <2>2, <2>3
<1>1. r \in T
  BY <1>0
<1>2. T \subseteq Nat
  OBVIOUS
<1>3. Gauge!Min(T) \in T /\ \A y \in T : Gauge!Min(T) <= y
  BY <1>1, <1>2, MinFacts
<1>4. First(q, r) = Gauge!Min(T)
  BY <1>0 DEF First, Gauge!FirstIn
<1> DEFINE m == Gauge!Min(T)
<1> HIDE DEF m
<1>5. m \in 1..r /\ q[m].age - q[r].age <= Window
  BY <1>3 DEF m
<1>6. ASSUME NEW l \in 1..r PROVE q[l].age - q[r].age <= Window <=> l >= m
  <2>1. ASSUME q[l].age - q[r].age <= Window PROVE l >= m
    BY <1>3, <1>5, <2>1 DEF m
  <2>2. ASSUME l >= m PROVE q[l].age - q[r].age <= Window
    <3>1. l = m \/ q[m].age >= q[l].age
      BY <1>0, <1>5, <2>2
    <3>2. q[l].age \in Nat /\ q[m].age \in Nat /\ q[r].age \in Nat
      BY <1>0, <1>5
    <3> QED
      BY <1>0, <1>5, <3>1, <3>2
  <2> QED
    BY <2>1, <2>2
<1> QED
  BY <1>4, <1>5, <1>6 DEF m

LEMMA FirstStep ==
  ASSUME NEW q, InOrder(q), NEW r \in Nat, r + 1 <= Len(q)
  PROVE  /\ First(q, r) \in 1..(r + 1) /\ First(q, r) <= First(q, r + 1)
         /\ First(q, r + 1) \in 1..(r + 1)
         /\ Gauge!FirstIn(q, First(q, r), r + 1) = First(q, r + 1)
<1> DEFINE m == First(q, r)
           n == First(q, r + 1)
<1>0. Len(q) \in Nat /\ r + 1 \in 1..Len(q) /\ Window \in Nat
  BY GaugeAssumption DEF InOrder, Gauge!UsageAssumption
<1>1. n \in 1..(r + 1) /\ \A l \in 1..(r + 1) : q[l].age - q[r + 1].age <= Window <=> l >= n
  BY <1>0, FirstFacts
<1>2. m \in 1..(r + 1) /\ m <= n
  <2>1. CASE r = 0
    BY <1>1, <2>1 DEF First
  <2>2. CASE r # 0
    <3>1. r \in 1..Len(q)
      BY <1>0, <2>2
    <3>2. m \in 1..r /\ \A l \in 1..r : q[l].age - q[r].age <= Window <=> l >= m
      BY <3>1, FirstFacts
    <3>3. CASE n = r + 1
      BY <3>2, <3>3, <1>1
    <3>4. CASE n # r + 1
      <4>1. n \in 1..r /\ n \in 1..Len(q) /\ q[n].age - q[r + 1].age <= Window
        BY <1>0, <1>1, <3>4
      <4>2. q[r].age >= q[r + 1].age
        BY <1>0, <3>1 DEF InOrder
      <4>3. q[n].age \in Nat /\ q[r].age \in Nat /\ q[r + 1].age \in Nat
        BY <1>0, <3>1, <4>1, TokensOfOne DEF InOrder
      <4>4. q[n].age - q[r].age <= Window
        BY <1>0, <4>1, <4>2, <4>3
      <4> QED
        BY <3>2, <4>1, <4>4
    <3> QED
      BY <3>3, <3>4
  <2> QED
    BY <2>1, <2>2
<1> HIDE DEF m, n
<1> DEFINE T == {l \in m..(r + 1) : q[l].age - q[r + 1].age <= Window}
<1>3. n \in T /\ T \subseteq Int /\ \A l \in T : n <= l
  BY <1>1, <1>2
<1>4. Gauge!Min(T) = n
  <2> HIDE DEF T
  <2> QED
    BY <1>3, MinIs
<1> QED
  BY <1>1, <1>2, <1>4 DEF m, n, Gauge!FirstIn

LEMMA InItFacts ==
  ASSUME NEW q, InOrder(q), NEW r \in 0..Len(q)
  PROVE  /\ First(q, r) \in 1..(r + 1) /\ First(q, r)..r \in SUBSET (1..Len(q))
         /\ InIt(q, r) \in Nat /\ Gauge!TokensOf(q, 1..Len(q)) \in Nat
         /\ InIt(q, r) <= Gauge!TokensOf(q, 1..Len(q))
<1>1. q \in Seq(AnyLine) /\ Len(q) \in Nat
  BY DEF InOrder
<1>2. First(q, r) \in 1..(r + 1)
  <2>1. CASE r = 0
    BY <2>1 DEF First
  <2>2. CASE r # 0
    <3>1. r \in 1..Len(q)
      BY <1>1, <2>2
    <3> QED
      BY <1>1, <3>1, FirstFacts
  <2> QED
    BY <2>1, <2>2
<1> DEFINE J == 1..Len(q)
           I == First(q, r)..r
<1>3. I \in SUBSET J /\ J \in SUBSET (1..Len(q))
  BY <1>1, <1>2
<1> HIDE DEF I, J
<1>4. /\ Gauge!TokensOf(q, J) \in Nat /\ Gauge!TokensOf(q, I) \in Nat
      /\ Gauge!TokensOf(q, I) <= Gauge!TokensOf(q, J)
  BY <1>1, <1>3, TokensOfFacts
<1> QED
  BY <1>2, <1>3, <1>4 DEF I, J, InIt

LEMMA InItNone ==
  ASSUME NEW q
  PROVE  InIt(q, 0) = 0
<1>1. 1..0 = {}
  OBVIOUS
<1>2. InIt(q, 0) = SumFunctionOnSet(Tok(q), {})
  BY <1>1, GaugeSum DEF InIt, First, Gauge!TokensOf, Tok
<1> QED
  BY <1>2, SumEmpty

LEMMA InItStep ==
  ASSUME NEW q, InOrder(q), NEW r \in Nat, r + 1 <= Len(q)
  PROVE  InIt(q, r) + q[r + 1].tok
           - Gauge!TokensOf(q, First(q, r)..(First(q, r + 1) - 1)) = InIt(q, r + 1)
<1> DEFINE m == First(q, r)
           n == First(q, r + 1)
           J == m..(r + 1)
           A == m..r
           O == {r + 1}
           D == m..(n - 1)
           E == n..(r + 1)
<1>0. q \in Seq(AnyLine) /\ Len(q) \in Nat /\ r + 1 \in 1..Len(q)
  BY DEF InOrder
<1>1. m \in 1..(r + 1) /\ n \in 1..(r + 1) /\ m <= n
  BY FirstStep
<1> HIDE DEF m, n
<1>2. /\ J \in SUBSET (1..Len(q)) /\ A \in SUBSET J /\ D \in SUBSET J
      /\ J \ A = O /\ J \ D = E
  BY <1>0, <1>1
<1>3. Gauge!TokensOf(q, O) = q[r + 1].tok
  BY <1>0, TokensOfOne
<1> HIDE DEF J, A, O, D, E
<1>4. /\ Gauge!TokensOf(q, J) \in Nat /\ Gauge!TokensOf(q, A) \in Nat
      /\ Gauge!TokensOf(q, J) = Gauge!TokensOf(q, A) + Gauge!TokensOf(q, J \ A)
  BY <1>0, <1>2, TokensOfFacts
<1>5. /\ Gauge!TokensOf(q, D) \in Nat
      /\ Gauge!TokensOf(q, J) = Gauge!TokensOf(q, D) + Gauge!TokensOf(q, J \ D)
  BY <1>0, <1>2, TokensOfFacts
<1>6. q[r + 1].tok \in Nat
  BY <1>0, TokensOfOne
<1>7. E \in SUBSET J
  BY <1>2
<1>8. Gauge!TokensOf(q, E) \in Nat
  BY <1>0, <1>2, <1>7, TokensOfFacts
<1>a. Gauge!TokensOf(q, J \ A) = q[r + 1].tok /\ Gauge!TokensOf(q, J \ D) = Gauge!TokensOf(q, E)
  BY <1>2, <1>3, Zenon
<1>b. /\ Gauge!TokensOf(q, J) = Gauge!TokensOf(q, A) + q[r + 1].tok
      /\ Gauge!TokensOf(q, J) = Gauge!TokensOf(q, D) + Gauge!TokensOf(q, E)
  BY <1>4, <1>5, <1>a, Zenon
<1>9. Gauge!TokensOf(q, A) + q[r + 1].tok - Gauge!TokensOf(q, D) = Gauge!TokensOf(q, E)
  BY <1>4, <1>5, <1>6, <1>8, <1>b
<1> QED
  BY <1>9 DEF A, D, E, m, n, InIt

LEMMA BestFacts ==
  ASSUME NEW q, InOrder(q), NEW r \in 0..Len(q)
  PROVE  /\ \E k \in 0..r : Best(q, r) = InIt(q, k)
         /\ \A k \in 0..r : InIt(q, k) <= Best(q, r)
         /\ Best(q, r) \in Nat
<1> DEFINE T == {InIt(q, k) : k \in 0..r}
           b == Gauge!TokensOf(q, 1..Len(q))
<1>1. Len(q) \in Nat /\ b \in Nat
  BY InItFacts DEF InOrder
<1>2. \A k \in 0..r : k \in 0..Len(q)
  BY <1>1
<1>3. \A k \in 0..r : InIt(q, k) \in Nat /\ InIt(q, k) <= b
  BY <1>2, InItFacts
<1> HIDE DEF b
<1>4. T \subseteq Nat /\ InIt(q, 0) \in T /\ \A y \in T : y <= b
  BY <1>3
<1>5. Gauge!Max(T) \in T /\ \A y \in T : y <= Gauge!Max(T)
  <2> HIDE DEF T
  <2> QED
    BY <1>1, <1>4, MaxFacts
<1> QED
  BY <1>3, <1>5 DEF Best

LEMMA BestStep ==
  ASSUME NEW q, InOrder(q), NEW r \in Nat, r + 1 <= Len(q)
  PROVE  Gauge!Max({Best(q, r), InIt(q, r + 1)}) = Best(q, r + 1)
<1> DEFINE b == Best(q, r)
           c == Best(q, r + 1)
           i == InIt(q, r + 1)
           T == {b, i}
<1>0. r \in 0..Len(q) /\ r + 1 \in 0..Len(q)
  BY DEF InOrder
<1>1. /\ \E k \in 0..r : b = InIt(q, k)
      /\ \A k \in 0..r : InIt(q, k) <= b
      /\ b \in Nat
  BY <1>0, BestFacts
<1>2. /\ \E k \in 0..(r + 1) : c = InIt(q, k)
      /\ \A k \in 0..(r + 1) : InIt(q, k) <= c
      /\ c \in Nat
  BY <1>0, BestFacts
<1>3. i \in Nat /\ i <= c
  BY <1>0, <1>2, InItFacts
<1> HIDE DEF b, c
<1>4. b <= c
  BY <1>1, <1>2
<1>5. c = b \/ c = i
  <2>1. PICK k \in 0..(r + 1) : c = InIt(q, k)
    BY <1>2
  <2>2. CASE k = r + 1
    BY <2>1, <2>2
  <2>3. CASE k # r + 1
    <3>1. k \in 0..r
      BY <2>3
    <3>2. c <= b
      BY <1>1, <2>1, <3>1
    <3> QED
      BY <1>1, <1>2, <1>4, <3>2
  <2> QED
    BY <2>2, <2>3
<1> HIDE DEF i
<1>6. T \subseteq Int /\ c \in T /\ \A y \in T : y <= c
  BY <1>1, <1>2, <1>3, <1>4, <1>5
<1> HIDE DEF T
<1>7. Gauge!Max(T) = c
  BY <1>6, MaxIs
<1> QED
  BY <1>7 DEF T, b, c, i

\* What the loop of peak5h makes of the event at r.
PeakStep(was, q, r) ==
  LET left == Gauge!FirstIn(q, was.left, r)
      sum  == was.sum + q[r].tok - Gauge!TokensOf(q, was.left..(left - 1))
  IN  [left |-> left, sum |-> sum, max |-> Gauge!Max({was.max, sum})]

PeakTo(at, q) ==
  at = [r \in 0..Len(q) |-> IF r = 0 THEN [left |-> 1, sum |-> 0, max |-> 0]
                            ELSE PeakStep(at[r - 1], q, r)]

LEMMA PeakIs ==
  ASSUME NEW q
  PROVE  Gauge!Peak5h(q) = (CHOOSE at : PeakTo(at, q))[Len(q)].max
  BY Zenon DEF Gauge!Peak5h, PeakTo, PeakStep

Pointers(q, r) == [left |-> First(q, r), sum |-> InIt(q, r), max |-> Best(q, r)]

LEMMA PointersStep ==
  ASSUME NEW q, InOrder(q), NEW r \in Nat, r + 1 <= Len(q)
  PROVE  PeakStep(Pointers(q, r), q, r + 1) = Pointers(q, r + 1)
<1> DEFINE p == Pointers(q, r)
<1>1. p.left = First(q, r) /\ p.sum = InIt(q, r) /\ p.max = Best(q, r)
  BY DEF Pointers
<1> HIDE DEF p
<1>2. Gauge!FirstIn(q, p.left, r + 1) = First(q, r + 1)
  BY <1>1, FirstStep
<1>3. p.sum + q[r + 1].tok - Gauge!TokensOf(q, p.left..(First(q, r + 1) - 1)) = InIt(q, r + 1)
  BY <1>1, InItStep
<1>4. Gauge!Max({p.max, InIt(q, r + 1)}) = Best(q, r + 1)
  BY <1>1, BestStep
<1> QED
  BY <1>2, <1>3, <1>4, Zenon DEF PeakStep, Pointers, p

LEMMA PointersBegin ==
  ASSUME NEW q, InOrder(q)
  PROVE  Pointers(q, 0) = [left |-> 1, sum |-> 0, max |-> 0]
<1>1. 0 \in 0..Len(q)
  BY DEF InOrder
<1>2. PICK k \in 0..0 : Best(q, 0) = InIt(q, k)
  BY <1>1, BestFacts
<1>3. k = 0
  OBVIOUS
<1> QED
  BY <1>2, <1>3, InItNone DEF Pointers, First

LEMMA PeakIsBest ==
  ASSUME NEW q, InOrder(q)
  PROVE  Gauge!Peak5h(q) = Best(q, Len(q))
<1> DEFINE N == Len(q)
           g == [r \in 0..N |-> Pointers(q, r)]
<1>0. N \in Nat
  BY DEF InOrder
<1>1. PeakTo(g, q)
  <2>1. ASSUME NEW r \in 0..N
        PROVE  g[r] = IF r = 0 THEN [left |-> 1, sum |-> 0, max |-> 0]
                      ELSE PeakStep(g[r - 1], q, r)
    <3>1. CASE r = 0
      BY <3>1, PointersBegin
    <3>2. CASE r # 0
      <4> DEFINE k == r - 1
      <4>1. k \in Nat /\ k + 1 <= Len(q) /\ k + 1 = r /\ k \in 0..N
        BY <1>0, <3>2
      <4> HIDE DEF k, N
      <4>2. PeakStep(Pointers(q, k), q, k + 1) = Pointers(q, k + 1)
        BY <4>1, PointersStep
      <4>3. g[k] = Pointers(q, k) /\ g[r] = Pointers(q, r)
        BY <4>1
      <4>4. g[r] = PeakStep(g[k], q, r)
        BY <4>1, <4>2, <4>3
      <4> QED
        BY <3>2, <4>4 DEF k
    <3> QED
      BY <3>1, <3>2
  <2> DEFINE h == [r \in 0..N |-> IF r = 0 THEN [left |-> 1, sum |-> 0, max |-> 0]
                                  ELSE PeakStep(g[r - 1], q, r)]
  <2>2. \A r \in 0..N : g[r] = h[r]
    BY <2>1, Zenon
  <2>3. g = h
    BY <2>1
  <2> QED
    BY <2>3, Zenon DEF PeakTo
<1> DEFINE at == CHOOSE at : PeakTo(at, q)
<1>2. PeakTo(at, q)
  BY <1>1, Zenon
<1> HIDE DEF at, g
<1>3. \A r \in 0..N : at[r] = IF r = 0 THEN [left |-> 1, sum |-> 0, max |-> 0]
                              ELSE PeakStep(at[r - 1], q, r)
  BY <1>2, Zenon DEF PeakTo
<1> HIDE DEF N
<1> DEFINE Q == {r \in Nat : r <= N => at[r] = Pointers(q, r)}
<1>4. 0 \in Q
  <2>1. 0 \in 0..N
    BY <1>0
  <2>2. at[0] = [left |-> 1, sum |-> 0, max |-> 0]
    BY <1>3, <2>1
  <2> QED
    BY <2>2, PointersBegin, Zenon
<1>5. ASSUME NEW r \in Nat, r \in Q PROVE r + 1 \in Q
  <2> SUFFICES ASSUME r + 1 <= N PROVE at[r + 1] = Pointers(q, r + 1)
    OBVIOUS
  <2> DEFINE k == r + 1
  <2>1. k \in 0..N /\ k # 0 /\ k - 1 = r
    BY <1>0
  <2>2. at[r] = Pointers(q, r)
    BY <1>0, <1>5
  <2> HIDE DEF k
  <2>3. at[k] = PeakStep(at[k - 1], q, k)
    BY <1>3, <2>1, Zenon
  <2>4. at[k] = PeakStep(Pointers(q, r), q, k)
    BY <2>1, <2>2, <2>3
  <2>5. PeakStep(Pointers(q, r), q, k) = Pointers(q, k)
    BY PointersStep DEF k, N
  <2> QED
    BY <2>4, <2>5 DEF k
<1> HIDE DEF Q
<1>6. Nat \subseteq Q
  BY <1>4, <1>5, InductionOn
<1>7. at[N] = Pointers(q, N)
  BY <1>0, <1>6 DEF Q
<1>8. Gauge!Peak5h(q) = at[N].max
  BY PeakIs, Zenon DEF at, N
<1> QED
  BY <1>7, <1>8 DEF Pointers, N

\* What is in the window that ends at age a.
InWindow(a) == [e \in AnyLine |-> IF e.age >= a /\ e.age <= a + Window THEN e.tok ELSE 0]
Ending(q, a) == Gauge!Within(q, a + Window) \ Gauge!Within(q, a - 1)

LEMMA EndingIs ==
  ASSUME NEW q \in Seq(AnyLine), NEW a \in Int
  PROVE  /\ Ending(q, a) \in SUBSET (1..Len(q))
         /\ \A i \in 1..Len(q) : i \in Ending(q, a) <=> q[i].age >= a /\ q[i].age <= a + Window
<1>a. ASSUME NEW i \in 1..Len(q) PROVE q[i].age \in Nat
  BY TokensOfOne
<1>1. DOMAIN q = 1..Len(q) /\ \A i \in 1..Len(q) : q[i].age \in Nat
  BY <1>a
<1>2. Window \in Nat
  BY GaugeAssumption DEF Gauge!UsageAssumption
<1> QED
  BY <1>1, <1>2 DEF Ending, Gauge!Within

LEMMA EndingWeighs ==
  ASSUME NEW q \in Seq(AnyLine), NEW a \in Int
  PROVE  /\ Gauge!TokensOf(q, Ending(q, a)) = WeightTo(q, InWindow(a), Len(q))
         /\ Gauge!TokensOf(q, Ending(q, a)) \in Nat
         /\ Gauge!TokensOf(q, Ending(q, a)) <= Gauge!TokensOf(q, 1..Len(q))
<1> DEFINE all == 1..Len(q)
           I == Ending(q, a)
           h == Weights(q, InWindow(a))
<1>0. /\ DOMAIN q = all /\ Len(q) \in Nat /\ IsFiniteSet(all) /\ all \in SUBSET all
      /\ \A i \in all : q[i] \in AnyLine
  BY FS_Interval
<1>1. I \in SUBSET all
  BY EndingIs
<1>2. ASSUME NEW i \in all PROVE h[i] = IF i \in I THEN Tok(q)[i] ELSE 0
  <2>1. i \in DOMAIN q /\ q[i] \in AnyLine
    BY <1>0
  <2>2. h[i] = IF q[i].age >= a /\ q[i].age <= a + Window THEN q[i].tok ELSE 0
    BY <2>1 DEF Weights, InWindow
  <2>3. i \in I <=> q[i].age >= a /\ q[i].age <= a + Window
    BY EndingIs
  <2>4. Tok(q)[i] = q[i].tok
    BY <2>1 DEF Tok
  <2> HIDE DEF I, h
  <2> QED
    BY <2>2, <2>3, <2>4
<1>3. Counts(Tok(q), I)
  <2> SUFFICES ASSUME NEW i \in I PROVE Tok(q)[i] \in Nat
    BY DEF Counts
  <2>1. i \in 1..Len(q) /\ i \in DOMAIN q
    BY <1>0, <1>1
  <2> QED
    BY <2>1, TokensOfOne DEF Tok
<1> HIDE DEF I, h
<1>4. Gauge!TokensOf(q, I) = SumFunctionOnSet(Tok(q), I)
  BY GaugeSum DEF Gauge!TokensOf, Tok
<1>5. SumFunctionOnSet(Tok(q), I) = SumFunctionOnSet(h, all)
  <2>1. IsFiniteSet(all)
    BY <1>0
  <2> HIDE DEF all
  <2> QED
    BY <2>1, <1>1, <1>2, <1>3, SumMask
<1>6. /\ Gauge!TokensOf(q, I) \in Nat /\ Gauge!TokensOf(q, I) <= Gauge!TokensOf(q, all)
  BY <1>0, <1>1, TokensOfFacts
<1> QED
  BY <1>4, <1>5, <1>6 DEF I, h, WeightTo

\* Sorting does not change what a list weighs.
LEMMA SortedWeighs ==
  ASSUME NEW X, X \subseteq AnyLine, NEW q \in Seq(X), NEW w \in [AnyLine -> Nat]
  PROVE  /\ Gauge!Sorted(q) \in Seq(X) /\ Len(Gauge!Sorted(q)) = Len(q)
         /\ InOrder(Gauge!Sorted(q))
         /\ WeightTo(Gauge!Sorted(q), w, Len(q)) = WeightTo(q, w, Len(q))
<1> DEFINE s == Gauge!Sorted(q)
           N == Len(q)
           all == 1..N
<1>1. PICK p : /\ Permutes(p, N) /\ s = [i \in 1..N |-> q[p[i]]]
               /\ s \in Seq(X) /\ Len(s) = N
               /\ \A i, j \in 1..N : i < j => s[i].age >= s[j].age
  BY SortedFacts
<1>2. N \in Nat /\ N \in 0..N /\ q \in Seq(AnyLine) /\ DOMAIN q = all
  OBVIOUS
<1> HIDE DEF s
<1>3. s \in Seq(AnyLine) /\ N \in 0..Len(s) /\ DOMAIN s = all
  BY <1>1
<1>4. InOrder(s)
  BY <1>1, <1>3 DEF InOrder
<1>5. IsFiniteSet(all) /\ Counts(Weights(s, w), all)
  BY <1>2, <1>3, WeightsCount
<1>6. \A i \in all : Weights(q, w)[p[i]] = Weights(s, w)[i]
  <2> SUFFICES ASSUME NEW i \in all PROVE Weights(q, w)[p[i]] = Weights(s, w)[i]
    OBVIOUS
  <2>1. p[i] \in all
    BY <1>1 DEF Permutes
  <2>2. s[i] = q[p[i]]
    BY <1>1
  <2> QED
    BY <1>2, <1>3, <2>1, <2>2 DEF Weights
<1>7. p \in Bijection(all, all)
  BY <1>1 DEF Permutes, Bijection, Injection, Surjection, IsInjective
<1> HIDE DEF all, N
<1>8. SumFunctionOnSet(Weights(q, w), all) = SumFunctionOnSet(Weights(s, w), all)
  BY <1>5, <1>6, <1>7, SumReindex
<1>9. WeightTo(s, w, N) = WeightTo(q, w, N)
  BY <1>8 DEF all, WeightTo
<1> QED
  BY <1>1, <1>4, <1>9 DEF s, N

\* The two pointers find what the window at every age finds.
LEMMA BestIsHeaviest ==
  ASSUME NEW q, InOrder(q), q \in Seq(Gauge!Line)
  PROVE  Gauge!HeaviestWindow(q) = Best(q, Len(q))
<1> DEFINE T == {Gauge!TokensOf(q, Ending(q, a)) : a \in 0..Gauge!MaxAge}
           N == Len(q)
           b == Best(q, N)
<1>0. /\ q \in Seq(AnyLine) /\ N \in Nat /\ Window \in Nat /\ Gauge!MaxAge \in Nat
      /\ \A i \in 1..N : q[i].age \in 0..Gauge!MaxAge /\ q[i].age \in Nat
  <2>1. Window \in Nat /\ Gauge!MaxAge \in Nat
    BY GaugeAssumption DEF Gauge!UsageAssumption, Gauge!MaxAge
  <2>2. \A i \in 1..N : q[i] \in Gauge!Line
    OBVIOUS
  <2> QED
    BY <2>1, <2>2 DEF Gauge!Line, InOrder
<1>1. /\ \E k \in 0..N : b = InIt(q, k)
      /\ \A k \in 0..N : InIt(q, k) <= b
      /\ b \in Nat
  BY <1>0, BestFacts
<1> HIDE DEF b
\* a window of the pointers is in the one that ends where it does
<1>2. ASSUME NEW r \in 1..N
      PROVE  InIt(q, r) <= Gauge!TokensOf(q, Ending(q, q[r].age))
  <2> DEFINE a == q[r].age
             I == First(q, r)..r
             J == Ending(q, a)
  <2>1. First(q, r) \in 1..r /\ \A l \in 1..r : q[l].age - a <= Window <=> l >= First(q, r)
    BY FirstFacts
  <2>2. a \in Nat
    BY <1>0
  <2> HIDE DEF a
  <2>3. ASSUME NEW i \in I PROVE i \in J
    <3>1. i \in 1..r /\ i \in 1..N /\ i >= First(q, r)
      BY <1>0, <2>1
    <3>2. q[i].age - a <= Window
      BY <2>1, <3>1
    <3>3. i = r \/ q[i].age >= a
      BY <1>0, <3>1 DEF InOrder, a
    <3>4. q[i].age \in Nat /\ q[i].age >= a
      BY <1>0, <2>2, <3>1, <3>3 DEF a
    <3>5. q[i].age <= a + Window
      BY <1>0, <2>2, <3>2, <3>4
    <3> QED
      BY <1>0, <2>2, <3>1, <3>4, <3>5, EndingIs
  <2>4. J \in SUBSET (1..Len(q))
    BY <1>0, <2>2, EndingIs
  <2> HIDE DEF I, J
  <2>5. I \in SUBSET J
    BY <2>3
  <2>6. Gauge!TokensOf(q, I) <= Gauge!TokensOf(q, J)
    BY <1>0, <2>4, <2>5, TokensOfFacts
  <2> QED
    BY <2>6 DEF I, J, a, InIt
\* and any window is in the one of the pointers at its last event
<1>3. ASSUME NEW a \in 0..Gauge!MaxAge
      PROVE  \E k \in 0..N : Gauge!TokensOf(q, Ending(q, a)) <= InIt(q, k)
  <2> DEFINE I == Ending(q, a)
  <2>0. I \in SUBSET (1..N) /\ \A i \in 1..N : i \in I <=> q[i].age >= a /\ q[i].age <= a + Window
    BY <1>0, EndingIs
  <2>1. CASE I = {}
    <3>1. Gauge!TokensOf(q, I) = SumFunctionOnSet(Tok(q), I)
      BY GaugeSum DEF Gauge!TokensOf, Tok
    <3>2. SumFunctionOnSet(Tok(q), {}) = 0
      BY SumEmpty
    <3>3. Gauge!TokensOf(q, I) = 0
      BY <2>1, <3>1, <3>2
    <3>4. InIt(q, 0) = 0 /\ 0 \in 0..N
      BY <1>0, InItNone
    <3> QED
      BY <3>3, <3>4
  <2>2. CASE I # {}
    <3> DEFINE r == Gauge!Max(I)
    <3> HIDE DEF I
    <3>1. r \in I /\ \A i \in I : i <= r
      <4>1. I \subseteq Nat /\ (\A y \in I : y <= N) /\ N \in Nat
        BY <1>0, <2>0
      <4> HIDE DEF N
      <4> QED
        BY <2>2, <4>1, MaxFacts
    <3> HIDE DEF r
    <3>2. r \in 1..N /\ q[r].age >= a
      BY <2>0, <3>1
    <3> DEFINE J == First(q, r)..r
    <3>3. First(q, r) \in 1..r /\ \A l \in 1..r : q[l].age - q[r].age <= Window <=> l >= First(q, r)
      BY <3>2, FirstFacts
    <3>4. ASSUME NEW i \in I PROVE i \in J
      <4>1. i \in 1..N /\ i <= r /\ q[i].age <= a + Window
        BY <2>0, <3>1
      <4>2. i \in 1..r
        BY <3>2, <4>1
      <4>3. q[i].age \in Nat /\ q[r].age \in Nat
        BY <1>0, <3>2, <4>1
      <4>4. q[i].age - q[r].age <= Window
        BY <1>0, <3>2, <4>1, <4>3
      <4> QED
        BY <3>2, <3>3, <4>2, <4>4
    <3>5. J \in SUBSET (1..Len(q)) /\ r \in 0..N
      BY <1>0, <3>2, <3>3
    <3> HIDE DEF J
    <3>6. I \in SUBSET J
      BY <3>4
    <3>7. Gauge!TokensOf(q, I) <= Gauge!TokensOf(q, J)
      BY <1>0, <3>5, <3>6, TokensOfFacts
    <3> QED
      BY <3>5, <3>7 DEF I, J, InIt
  <2> QED
    BY <2>1, <2>2
<1> DEFINE t == Gauge!TokensOf(q, 1..Len(q))
<1>4. T \subseteq Nat /\ T # {} /\ t \in Nat /\ \A y \in T : y <= t
  <2>1. \A a \in 0..Gauge!MaxAge : a \in Int /\ 0 \in 0..Gauge!MaxAge
    BY <1>0
  <2>2. \A a \in 0..Gauge!MaxAge :
          Gauge!TokensOf(q, Ending(q, a)) \in Nat /\ Gauge!TokensOf(q, Ending(q, a)) <= t
    BY <1>0, <2>1, EndingWeighs
  <2>3. t \in Nat
    BY <1>0, InItFacts
  <2> HIDE DEF t
  <2> QED
    BY <1>0, <2>2, <2>3
<1>5. /\ \A a \in 0..Gauge!MaxAge : Gauge!TokensOf(q, Ending(q, a)) \in T
      /\ \A y \in T : \E a \in 0..Gauge!MaxAge : y = Gauge!TokensOf(q, Ending(q, a))
  OBVIOUS
<1> HIDE DEF T, t
<1> DEFINE m == Gauge!Max(T)
<1>6. m \in T /\ \A y \in T : y <= m
  BY <1>4, MaxFacts
<1> HIDE DEF m
<1>7. m \in Nat
  BY <1>4, <1>6
<1>8. m <= b
  <2>1. PICK a \in 0..Gauge!MaxAge : m = Gauge!TokensOf(q, Ending(q, a))
    BY <1>5, <1>6
  <2>2. PICK k \in 0..N : Gauge!TokensOf(q, Ending(q, a)) <= InIt(q, k)
    BY <1>3
  <2>3. InIt(q, k) <= b /\ InIt(q, k) \in Nat
    BY <1>1, InItFacts
  <2> QED
    BY <1>1, <1>7, <2>1, <2>2, <2>3
<1>9. b <= m
  <2>1. PICK k \in 0..N : b = InIt(q, k)
    BY <1>1
  <2>2. CASE k = 0
    BY <1>7, <2>1, <2>2, InItNone
  <2>3. CASE k # 0
    <3>1. k \in 1..N
      BY <2>3
    <3> DEFINE x == Gauge!TokensOf(q, Ending(q, q[k].age))
    <3>2. InIt(q, k) <= x
      BY <1>2, <3>1
    <3>3. x \in T
      BY <1>0, <1>5, <3>1
    <3> HIDE DEF x
    <3>4. x <= m /\ x \in Nat
      BY <1>4, <1>6, <3>3
    <3> QED
      BY <1>1, <1>7, <2>1, <3>2, <3>4
  <2> QED
    BY <2>2, <2>3
<1>10. m = b
  BY <1>1, <1>7, <1>8, <1>9
<1>11. Gauge!HeaviestWindow(q) = m
  BY Zenon DEF m, T, Ending, Gauge!HeaviestWindow
<1> QED
  BY <1>10, <1>11 DEF b

LEMMA HeaviestOfSorted ==
  ASSUME NEW q \in Seq(Gauge!Line)
  PROVE  /\ Gauge!Peak5h(Gauge!Sorted(q)) = Gauge!HeaviestWindow(q)
         /\ Gauge!Peak5h(Gauge!Sorted(q)) \in Nat
<1> DEFINE s == Gauge!Sorted(q)
<1>1. Gauge!Line \subseteq AnyLine /\ q \in Seq(AnyLine) /\ Len(q) \in Nat
  BY CountsToType
<1>2. \A a \in Int : InWindow(a) \in [AnyLine -> Nat]
  BY GaugeAssumption DEF InWindow, AnyLine, Gauge!UsageAssumption
<1>3. \A a \in Int : /\ s \in Seq(Gauge!Line) /\ Len(s) = Len(q) /\ InOrder(s)
                     /\ WeightTo(s, InWindow(a), Len(q)) = WeightTo(q, InWindow(a), Len(q))
  BY <1>1, <1>2, SortedWeighs
<1>4. s \in Seq(Gauge!Line) /\ s \in Seq(AnyLine) /\ Len(s) = Len(q) /\ InOrder(s)
  BY <1>1, <1>3 DEF InOrder
<1> HIDE DEF s
<1>5. ASSUME NEW a \in 0..Gauge!MaxAge
      PROVE  Gauge!TokensOf(s, Ending(s, a)) = Gauge!TokensOf(q, Ending(q, a))
  <2>1. a \in Int
    OBVIOUS
  <2>2. /\ Gauge!TokensOf(s, Ending(s, a)) = WeightTo(s, InWindow(a), Len(s))
        /\ Gauge!TokensOf(q, Ending(q, a)) = WeightTo(q, InWindow(a), Len(q))
    BY <1>1, <1>4, <2>1, EndingWeighs
  <2> QED
    BY <1>3, <1>4, <2>1, <2>2
<1>6. {Gauge!TokensOf(s, Ending(s, a)) : a \in 0..Gauge!MaxAge}
        = {Gauge!TokensOf(q, Ending(q, a)) : a \in 0..Gauge!MaxAge}
  BY <1>5
<1>7. Gauge!HeaviestWindow(s) = Gauge!HeaviestWindow(q)
  BY <1>6, Zenon DEF Gauge!HeaviestWindow, Ending
<1>8. Gauge!Peak5h(s) = Gauge!HeaviestWindow(s)
  BY <1>4, PeakIsBest, BestIsHeaviest
<1>9. Len(s) \in 0..Len(s)
  BY <1>1, <1>4
<1>10. Gauge!Peak5h(s) \in Nat
  BY <1>4, <1>9, PeakIsBest, BestFacts
<1> QED
  BY <1>7, <1>8, <1>10 DEF s
-----------------------------------------------------------------------------
GaugeTypes ==
  /\ lines \in [Transcript -> Seq(Gauge!Line)]
  /\ part \in [Transcript -> {<< >>} \cup {<<e>> : e \in Gauge!Line}]
  /\ \A f \in Transcript : Len(lines[f]) + Len(part[f]) <= MaxLines
  /\ mtime \in [Transcript -> 0..Gauge!MaxAge] /\ wait \in 0..Interval
  /\ scan \in [age : -1..Interval, todo : SUBSET Transcript, events : Seq(Gauge!Line),
               new : [Transcript -> Nat]]
  /\ latest \in [tokens : Nat, budget : Nat, pct : 0..100]

\* A scan is younger than the ticker's period, and has found nothing that was
\* older than the week when it began.
Timed ==
  /\ scan.age >= 0 =>
       /\ wait = Interval - scan.age
       /\ \A i \in 1..Len(scan.events) : scan.events[i].age <= scan.age + History
  /\ scan.age >= 0 \/ scan.todo = {}

\* No line is younger than its file.
LinesOlder == \A f \in Transcript : \A i \in 1..Len(lines[f]) : lines[f][i].age >= mtime[f]

\* The scan has counted the first got[f] lines of each file f: all but some of
\* those that are new since, if it has read it.
Had(got) == [f \in Transcript |-> WeightTo(lines[f], CountsTo(scan.age + Window), got[f])]
Found    == WeightTo(scan.events, CountsTo(scan.age + Window), Len(scan.events))
CountsLines(got) ==
  /\ got \in [Transcript -> Nat]
  /\ \A f \in Transcript :
       /\ got[f] <= Len(lines[f])
       /\ f \in scan.todo => got[f] = 0
       /\ f \notin scan.todo => Len(lines[f]) - scan.new[f] <= got[f]
  /\ Found = SumFunctionOnSet(Had(got), Transcript)
CountedOnce == scan.age >= 0 => \E got : CountsLines(got)

GaugeInv == GaugeTypes /\ Timed /\ LinesOlder /\ CountedOnce
-----------------------------------------------------------------------------
LEMMA GaugeConstants ==
  /\ Window \in Nat \ {0} /\ History \in Nat \ {0} /\ Interval \in Nat \ {0}
  /\ Floor \in Nat \ {0} /\ Budget \in Nat /\ MaxLines \in Nat
  /\ Window <= History /\ IsFiniteSet(Transcript) /\ Token \subseteq Nat \ {0}
  /\ Gauge!MaxAge = History + Interval + 1
<1>1. IsFiniteSet(Transcript) /\ Token \subseteq Nat \ {0} /\ Window <= History
  BY GaugeAssumption DEF Gauge!UsageAssumption, Gauge!IsFiniteSet, IsFiniteSet
<1>2. {Window, History, Interval, Floor} \subseteq Nat \ {0}
  BY GaugeAssumption DEF Gauge!UsageAssumption
<1>3. {Budget, MaxLines} \subseteq Nat
  BY GaugeAssumption DEF Gauge!UsageAssumption
<1> QED
  BY <1>1, <1>2, <1>3 DEF Gauge!MaxAge

\* One unit later, a list is as long, and what counted does.
LEMMA OlderFacts ==
  ASSUME NEW q \in Seq(Gauge!Line), NEW m \in Nat, \A i \in 1..Len(q) : q[i].age >= m,
         NEW b \in Nat
  PROVE  /\ Gauge!Older(q) \in Seq(AnyLine) /\ Len(Gauge!Older(q)) = Len(q)
         /\ \A i \in 1..Len(q) : Gauge!Older(q)[i] = [age |-> q[i].age + 1, tok |-> q[i].tok]
         /\ \A n \in 0..Len(q) : WeightTo(Gauge!Older(q), CountsTo(b + 1), n)
                                   = WeightTo(q, CountsTo(b), n)
<1>0. q \in Seq(AnyLine) /\ Len(q) \in Nat /\ DOMAIN q = 1..Len(q)
  BY CountsToType
<1>1. \A i \in 1..Len(q) : q[i] \in Gauge!Line
  OBVIOUS
<1>2. \A i \in 1..Len(q) : [q[i] EXCEPT !.age = @ + 1] = [age |-> q[i].age + 1, tok |-> q[i].tok]
  BY <1>1 DEF Gauge!Line
<1>3. \A i \in 1..Len(q) : /\ q[i].age + 1 \in Nat /\ q[i].age \in Nat /\ q[i].tok \in Token
                           /\ [age |-> q[i].age + 1, tok |-> q[i].tok] \in AnyLine
  BY <1>1, GaugeConstants DEF Gauge!Line, AnyLine
<1>4. Gauge!Older(q) = [i \in 1..Len(q) |-> [age |-> q[i].age + 1, tok |-> q[i].tok]]
  BY <1>0, <1>2 DEF Gauge!Older
<1>5. Gauge!Older(q) \in Seq(AnyLine) /\ Len(Gauge!Older(q)) = Len(q)
  BY <1>0, <1>3, <1>4
<1>6. \A i \in 1..Len(q) : Gauge!Older(q)[i] = [age |-> q[i].age + 1, tok |-> q[i].tok]
  BY <1>4
<1>7. ASSUME NEW n \in 0..Len(q)
      PROVE  WeightTo(Gauge!Older(q), CountsTo(b + 1), n) = WeightTo(q, CountsTo(b), n)
  <2>1. ASSUME NEW i \in 1..n
        PROVE  i \in DOMAIN Gauge!Older(q) /\ CountsTo(b + 1)[Gauge!Older(q)[i]] = CountsTo(b)[q[i]]
    <3>0. i \in 1..Len(q)
      BY <1>0
    <3>1. i \in DOMAIN Gauge!Older(q)
      BY <1>4, <3>0
    <3>5. Gauge!Older(q)[i] = [age |-> q[i].age + 1, tok |-> q[i].tok]
      BY <3>0, <1>6
    <3>6. q[i] \in AnyLine
      BY <3>0, <1>0
    <3>2. Gauge!Older(q)[i] \in AnyLine /\ q[i] \in AnyLine
      BY <3>0, <1>3, <3>5, <3>6
    <3>3. Gauge!Older(q)[i].age = q[i].age + 1 /\ Gauge!Older(q)[i].tok = q[i].tok
      BY <3>5
    <3>4. q[i].age \in Nat
      BY <3>0, <1>3
    <3>7. q[i].age + 1 <= b + 1 <=> q[i].age <= b
      BY <3>4
    <3> QED
      BY <3>1, <3>2, <3>3, <3>7 DEF CountsTo
  <2>2. Alike(Gauge!Older(q), CountsTo(b + 1), q, CountsTo(b), n)
    BY <2>1 DEF Alike
  <2>3. CountsTo(b) \in [AnyLine -> Nat]
    BY CountsToType
  <2> QED
    BY <1>0, <2>2, <2>3, WeightOfSame
<1> QED
  BY <1>5, <1>6, <1>7

\* Nothing that counts to an age that scans reach is dropped.
LEMMA LinesMask ==
  ASSUME NEW b \in Nat, b <= Gauge!MaxAge
  PROVE  Masks(CountsTo(b), CountsTo(b), Gauge!Line, AnyLine)
<1>1. CountsTo(b) \in [AnyLine -> Nat]
  BY CountsToType
<1>2. ASSUME NEW e \in AnyLine, e \notin Gauge!Line PROVE CountsTo(b)[e] = 0
  <2>1. e.age \in Nat /\ e.age \notin 0..Gauge!MaxAge
    BY <1>2 DEF AnyLine, Gauge!Line
  <2>2. ~(e.age <= b)
    BY <2>1, GaugeConstants
  <2> QED
    BY <2>2 DEF CountsTo
<1> QED
  BY <1>1, <1>2 DEF Masks

\* What a tick leaves of a list.
LEMMA AgedFacts ==
  ASSUME NEW q \in Seq(Gauge!Line), NEW m \in Nat, \A i \in 1..Len(q) : q[i].age >= m,
         NEW b \in Nat, b + 1 <= Gauge!MaxAge
  PROVE  LET aged == Gauge!Keeping(Gauge!Older(q), Gauge!Line)
         IN  /\ aged \in Seq(Gauge!Line) /\ Len(aged) <= Len(q)
             /\ \A i \in 1..Len(aged) : aged[i].age >= m + 1
             /\ \A n \in 0..Len(q) : \E k \in 0..Len(aged) :
                  /\ Len(aged) - k <= Len(q) - n /\ k <= n
                  /\ WeightTo(aged, CountsTo(b + 1), k) = WeightTo(q, CountsTo(b), n)
<1> DEFINE old  == Gauge!Older(q)
           aged == Gauge!Keeping(Gauge!Older(q), Gauge!Line)
           Y    == {e \in AnyLine : e.age >= m + 1}
           z    == [e \in Y |-> 0]
<1>1. /\ old \in Seq(AnyLine) /\ Len(old) = Len(q)
      /\ \A i \in 1..Len(q) : old[i] = [age |-> q[i].age + 1, tok |-> q[i].tok]
      /\ \A n \in 0..Len(q) : WeightTo(old, CountsTo(b + 1), n) = WeightTo(q, CountsTo(b), n)
  BY OlderFacts
<1>2. Masks(CountsTo(b + 1), CountsTo(b + 1), Gauge!Line, AnyLine)
  BY LinesMask
<1>3. /\ aged \in Seq(Both(AnyLine, Gauge!Line)) /\ Len(aged) <= Len(old)
      /\ \A n \in 0..Len(old) : \E k \in 0..Len(aged) :
           /\ Len(aged) - k <= Len(old) - n /\ k <= n
           /\ WeightTo(aged, CountsTo(b + 1), k) = WeightTo(old, CountsTo(b + 1), n)
  BY <1>1, <1>2, KeepingFacts
<1>4. Both(AnyLine, Gauge!Line) = Gauge!Line
  BY CountsToType DEF Both
<1>5. \A i \in 1..Len(q) : old[i] \in Y
  <2> SUFFICES ASSUME NEW i \in 1..Len(q) PROVE old[i] \in Y
    OBVIOUS
  <2>1. q[i] \in Gauge!Line /\ q[i].age >= m
    OBVIOUS
  <2>2. q[i].age \in Nat
    BY <2>1, GaugeConstants DEF Gauge!Line
  <2>3. old[i] = [age |-> q[i].age + 1, tok |-> q[i].tok]
    BY <1>1
  <2>4. old[i] \in AnyLine
    BY <1>1
  <2>5. old[i].age >= m + 1
    BY <2>1, <2>2, <2>3
  <2> QED
    BY <2>4, <2>5
<1>6. old \in Seq(Y)
  BY <1>1, <1>5
<1>7. Masks(z, z, Gauge!Line, Y)
  BY DEF Masks
<1>8. aged \in Seq(Both(Y, Gauge!Line))
  BY <1>6, <1>7, KeepingFacts
<1>9. \A i \in 1..Len(aged) : aged[i] \in Y
  BY <1>8 DEF Both
<1> QED
  BY <1>1, <1>3, <1>4, <1>9
-----------------------------------------------------------------------------
LEMMA NoScanFacts ==
  /\ Gauge!NoScan = [age |-> -1, todo |-> {}, events |-> << >>, new |-> [f \in Transcript |-> 0]]
  /\ Gauge!NoScan \in [age : -1..Interval, todo : SUBSET Transcript, events : Seq(Gauge!Line),
                       new : [Transcript -> Nat]]
  BY GaugeConstants DEF Gauge!NoScan

LEMMA GaugeInvInit == Gauge!Init => GaugeInv
<1> SUFFICES ASSUME Gauge!Init PROVE GaugeInv
  OBVIOUS
<1>1. GaugeTypes
  BY GaugeConstants, NoScanFacts DEF Gauge!Init, GaugeTypes
<1>2. scan.age = -1 /\ scan.todo = {} /\ \A f \in Transcript : Len(lines[f]) = 0
  BY NoScanFacts DEF Gauge!Init
<1> QED
  BY <1>1, <1>2 DEF GaugeInv, Timed, LinesOlder, CountedOnce
-----------------------------------------------------------------------------
\* What holds of the state for the proofs of steps.
LEMMA GaugeState ==
  ASSUME GaugeInv
  PROVE  /\ \A f \in Transcript : /\ lines[f] \in Seq(Gauge!Line) /\ Len(lines[f]) \in Nat
                                  /\ lines[f] \in Seq(AnyLine) /\ scan.new[f] \in Nat
                                  /\ mtime[f] \in 0..Gauge!MaxAge
         /\ scan.events \in Seq(Gauge!Line) /\ scan.events \in Seq(AnyLine)
         /\ Len(scan.events) \in Nat
         /\ scan.age \in -1..Interval /\ wait \in 0..Interval /\ scan.todo \subseteq Transcript
<1>1. GaugeTypes
  BY DEF GaugeInv
<1>2. Seq(Gauge!Line) \subseteq Seq(AnyLine)
  BY CountsToType
<1>3. \A q \in Seq(Gauge!Line) : Len(q) \in Nat
  OBVIOUS
<1> QED
  BY <1>1, <1>2, <1>3 DEF GaugeTypes

LEMMA PartFacts ==
  ASSUME GaugeTypes, NEW f \in Transcript
  PROVE  /\ part[f] \in Seq(Gauge!Line) /\ Len(part[f]) \in 0..1
         /\ (part[f] = << >> \/ part[f][1] \in Gauge!Line)
         /\ part[f] # << >> => Len(part[f]) = 1
<1>1. part[f] \in {<< >>} \cup {<<e>> : e \in Gauge!Line}
  BY DEF GaugeTypes
<1>2. CASE part[f] = << >>
  BY <1>2
<1>3. CASE part[f] # << >>
  <2>1. PICK e \in Gauge!Line : part[f] = <<e>>
    BY <1>1, <1>3
  <2> QED
    BY <2>1
<1> QED
  BY <1>2, <1>3

LEMMA PartAgain ==
  ASSUME NEW q \in Seq(Gauge!Line), Len(q) <= 1
  PROVE  q \in {<< >>} \cup {<<e>> : e \in Gauge!Line}
<1>1. CASE Len(q) = 0
  BY <1>1
<1>2. CASE Len(q) = 1
  <2>1. q = <<q[1]>> /\ q[1] \in Gauge!Line
    BY <1>2
  <2> QED
    BY <2>1
<1>3. Len(q) = 0 \/ Len(q) = 1
  <2> DEFINE n == Len(q)
  <2>1. n \in Nat /\ n <= 1
    OBVIOUS
  <2> HIDE DEF n
  <2>2. n = 0 \/ n = 1
    BY <2>1
  <2> QED
    BY <2>2 DEF n
<1> QED
  BY <1>1, <1>2, <1>3, Zenon

LEMMA TickFiles ==
  ASSUME GaugeInv, Gauge!Tick, NEW f \in Transcript
  PROVE  /\ lines'[f] \in Seq(Gauge!Line) /\ Len(lines'[f]) <= Len(lines[f])
         /\ part'[f] \in {<< >>} \cup {<<e>> : e \in Gauge!Line} /\ Len(part'[f]) <= Len(part[f])
         /\ mtime'[f] \in 0..Gauge!MaxAge
         /\ \A i \in 1..Len(lines'[f]) : lines'[f][i].age >= mtime'[f]
         /\ \A b \in Nat : b + 1 <= Gauge!MaxAge =>
              \A n \in 0..Len(lines[f]) : \E k \in 0..Len(lines'[f]) :
                /\ Len(lines'[f]) - k <= Len(lines[f]) - n /\ k <= n
                /\ WeightTo(lines'[f], CountsTo(b + 1), k) = WeightTo(lines[f], CountsTo(b), n)
<1>t. GaugeTypes /\ LinesOlder
  BY DEF GaugeInv
<1>1. /\ lines'[f] = Gauge!Keeping(Gauge!Older(lines[f]), Gauge!Line)
      /\ part'[f] = Gauge!Keeping(Gauge!Older(part[f]), Gauge!Line)
      /\ mtime'[f] = Gauge!Min({Gauge!MaxAge, mtime[f] + 1})
  BY DEF Gauge!Tick
<1>2. /\ lines[f] \in Seq(Gauge!Line) /\ mtime[f] \in Nat /\ mtime[f] \in 0..Gauge!MaxAge
      /\ Gauge!MaxAge \in Nat /\ Gauge!MaxAge >= 1
  BY GaugeState, GaugeConstants
<1>3. \A i \in 1..Len(lines[f]) : lines[f][i].age >= mtime[f]
  BY <1>t DEF LinesOlder
<1>4. part[f] \in Seq(Gauge!Line) /\ Len(part[f]) \in 0..1
  BY <1>t, PartFacts
<1>5. \A i \in 1..Len(part[f]) : part[f][i].age >= 0
  <2> SUFFICES ASSUME NEW i \in 1..Len(part[f]) PROVE part[f][i].age >= 0
    OBVIOUS
  <2>1. part[f][i] \in Gauge!Line
    BY <1>4
  <2> QED
    BY <2>1, GaugeConstants DEF Gauge!Line
<1>6. /\ part'[f] \in Seq(Gauge!Line) /\ Len(part'[f]) <= Len(part[f])
  <2>1. 0 \in Nat /\ 0 + 1 <= Gauge!MaxAge
    BY <1>2
  <2> QED
    BY <1>1, <1>4, <1>5, <2>1, AgedFacts
<1>7. mtime'[f] \in 0..Gauge!MaxAge /\ mtime'[f] <= mtime[f] + 1
  <2>1. mtime[f] + 1 \in Nat
    BY <1>2
  <2>2. /\ Gauge!Min({Gauge!MaxAge, mtime[f] + 1}) \in {Gauge!MaxAge, mtime[f] + 1}
        /\ \A y \in {Gauge!MaxAge, mtime[f] + 1} : Gauge!Min({Gauge!MaxAge, mtime[f] + 1}) <= y
    BY <1>2, <2>1, MinFacts
  <2> QED
    BY <1>1, <1>2, <2>1, <2>2
<1>8. ASSUME NEW b \in Nat, b + 1 <= Gauge!MaxAge
      PROVE  /\ lines'[f] \in Seq(Gauge!Line) /\ Len(lines'[f]) <= Len(lines[f])
             /\ \A i \in 1..Len(lines'[f]) : lines'[f][i].age >= mtime[f] + 1
             /\ \A n \in 0..Len(lines[f]) : \E k \in 0..Len(lines'[f]) :
                  /\ Len(lines'[f]) - k <= Len(lines[f]) - n /\ k <= n
                  /\ WeightTo(lines'[f], CountsTo(b + 1), k) = WeightTo(lines[f], CountsTo(b), n)
  <2> DEFINE q == lines[f]
             m == mtime[f]
  <2>1. q \in Seq(Gauge!Line) /\ m \in Nat /\ \A i \in 1..Len(q) : q[i].age >= m
    BY <1>2, <1>3
  <2>2. lines'[f] = Gauge!Keeping(Gauge!Older(q), Gauge!Line)
    BY <1>1
  <2> HIDE DEF q, m
  <2>3. /\ lines'[f] \in Seq(Gauge!Line) /\ Len(lines'[f]) <= Len(q)
        /\ \A i \in 1..Len(lines'[f]) : lines'[f][i].age >= m + 1
        /\ \A n \in 0..Len(q) : \E k \in 0..Len(lines'[f]) :
             /\ Len(lines'[f]) - k <= Len(q) - n /\ k <= n
             /\ WeightTo(lines'[f], CountsTo(b + 1), k) = WeightTo(q, CountsTo(b), n)
    <3> DEFINE aged == Gauge!Keeping(Gauge!Older(q), Gauge!Line)
    <3>1. b \in Nat /\ b + 1 <= Gauge!MaxAge
      BY <1>8
    <3>2. /\ aged \in Seq(Gauge!Line) /\ Len(aged) <= Len(q)
          /\ \A i \in 1..Len(aged) : aged[i].age >= m + 1
          /\ \A n \in 0..Len(q) : \E k \in 0..Len(aged) :
               /\ Len(aged) - k <= Len(q) - n /\ k <= n
               /\ WeightTo(aged, CountsTo(b + 1), k) = WeightTo(q, CountsTo(b), n)
      BY <2>1, <3>1, AgedFacts
    <3> HIDE DEF aged
    <3>3. lines'[f] = aged
      BY <2>2 DEF aged
    <3> QED
      BY <3>2, <3>3, Zenon
  <2> QED
    BY <2>3 DEF q, m
<1>9. /\ lines'[f] \in Seq(Gauge!Line) /\ Len(lines'[f]) <= Len(lines[f])
      /\ \A i \in 1..Len(lines'[f]) : lines'[f][i].age >= mtime[f] + 1
  <2>1. 0 \in Nat /\ 0 + 1 <= Gauge!MaxAge
    BY <1>2
  <2> QED
    BY <1>8, <2>1
<1>10. \A i \in 1..Len(lines'[f]) : lines'[f][i].age >= mtime'[f]
  <2> SUFFICES ASSUME NEW i \in 1..Len(lines'[f]) PROVE lines'[f][i].age >= mtime'[f]
    OBVIOUS
  <2>1. lines'[f][i] \in Gauge!Line
    BY <1>9
  <2>2. lines'[f][i].age \in Nat
    BY <2>1, GaugeConstants DEF Gauge!Line
  <2> QED
    BY <1>2, <1>7, <1>9, <2>2
<1>11. part'[f] \in {<< >>} \cup {<<e>> : e \in Gauge!Line}
  BY <1>4, <1>6, PartAgain
<1> QED
  BY <1>6, <1>7, <1>8, <1>9, <1>10, <1>11

LEMMA TickEvents ==
  ASSUME GaugeInv, Gauge!Tick, scan.age >= 0
  PROVE  /\ scan'.age = scan.age + 1 /\ scan'.age \in -1..Interval
         /\ scan'.todo = scan.todo /\ scan'.new = scan.new
         /\ scan'.events \in Seq(Gauge!Line) /\ Len(scan'.events) = Len(scan.events)
         /\ \A i \in 1..Len(scan'.events) : scan'.events[i].age <= scan'.age + History
         /\ scan' = [age |-> scan'.age, todo |-> scan'.todo, events |-> scan'.events,
                     new |-> scan'.new]
         /\ WeightTo(scan'.events, CountsTo(scan.age + Window + 1), Len(scan'.events)) = Found
<1>t. GaugeTypes /\ Timed
  BY DEF GaugeInv
<1>s. /\ scan.events \in Seq(Gauge!Line) /\ Len(scan.events) \in Nat /\ scan.age \in 0..Interval
      /\ wait \in 0..Interval
  BY GaugeState
<1>1. wait > 0 /\ wait = Interval - scan.age
      /\ \A i \in 1..Len(scan.events) : scan.events[i].age <= scan.age + History
  BY <1>t DEF Gauge!Tick, Timed
<1>2. scan' = [scan EXCEPT !.age = scan.age + 1, !.events = Gauge!Older(scan.events)]
  BY DEF Gauge!Tick, Gauge!Scanning
<1>3. scan = [age |-> scan.age, todo |-> scan.todo, events |-> scan.events, new |-> scan.new]
  BY <1>t DEF GaugeTypes
<1>4. scan' = [age |-> scan.age + 1, todo |-> scan.todo, events |-> Gauge!Older(scan.events),
               new |-> scan.new]
  BY <1>2, <1>3
<1>5. \A i \in 1..Len(scan.events) : scan.events[i].age >= 0 /\ scan.events[i].age \in Nat
                                     /\ scan.events[i] \in Gauge!Line
  <2> SUFFICES ASSUME NEW i \in 1..Len(scan.events)
               PROVE  /\ scan.events[i].age >= 0 /\ scan.events[i].age \in Nat
                      /\ scan.events[i] \in Gauge!Line
    OBVIOUS
  <2>1. scan.events[i] \in Gauge!Line
    BY <1>s
  <2> QED
    BY <2>1, GaugeConstants DEF Gauge!Line
<1>6. scan.age + Window \in Nat /\ scan.age + 1 <= Interval
  BY <1>s, <1>1, GaugeConstants
<1>7. /\ Gauge!Older(scan.events) \in Seq(AnyLine)
      /\ Len(Gauge!Older(scan.events)) = Len(scan.events)
      /\ \A i \in 1..Len(scan.events) : Gauge!Older(scan.events)[i]
           = [age |-> scan.events[i].age + 1, tok |-> scan.events[i].tok]
      /\ \A n \in 0..Len(scan.events) :
           WeightTo(Gauge!Older(scan.events), CountsTo(scan.age + Window + 1), n)
             = WeightTo(scan.events, CountsTo(scan.age + Window), n)
  <2>1. 0 \in Nat /\ \A i \in 1..Len(scan.events) : scan.events[i].age >= 0
    BY <1>5
  <2> HIDE <1>1, <1>2, <1>3, <1>4, <1>5
  <2> QED
    BY <1>s, <1>6, <2>1, OlderFacts
<1>8. ASSUME NEW i \in 1..Len(scan.events)
      PROVE  /\ Gauge!Older(scan.events)[i] \in Gauge!Line
             /\ Gauge!Older(scan.events)[i].age <= scan.age + 1 + History
  <2>1. scan.events[i].age \in Nat /\ scan.events[i].age <= scan.age + History
        /\ scan.events[i].tok \in Token
    BY <1>1, <1>5 DEF Gauge!Line
  <2>2. scan.events[i].age + 1 \in 0..Gauge!MaxAge
    <3> DEFINE x == scan.events[i].age
               a == scan.age
    <3>1. x \in Nat /\ x <= a + History /\ a \in Nat /\ a + 1 <= Interval
      BY <1>6, <2>1, <1>s
    <3> HIDE DEF x, a
    <3>2. x + 1 \in 0..Gauge!MaxAge
      BY <3>1, GaugeConstants
    <3> QED
      BY <3>2 DEF x
  <2>3. [age |-> scan.events[i].age + 1, tok |-> scan.events[i].tok] \in Gauge!Line
    BY <2>1, <2>2 DEF Gauge!Line
  <2>4. scan.events[i].age + 1 <= scan.age + 1 + History
    BY <2>1, <1>s, GaugeConstants
  <2> QED
    BY <1>7, <2>3, <2>4
<1>9. Gauge!Older(scan.events) \in Seq(Gauge!Line)
  BY <1>s, <1>7, <1>8
<1>10. scan'.age = scan.age + 1 /\ scan'.todo = scan.todo /\ scan'.new = scan.new
       /\ scan'.events = Gauge!Older(scan.events)
  BY <1>4
<1>11. scan'.age \in -1..Interval
  BY <1>6, <1>10, <1>s, GaugeConstants
<1>12. WeightTo(scan'.events, CountsTo(scan.age + Window + 1), Len(scan'.events)) = Found
  BY <1>7, <1>10, <1>s DEF Found
<1>13. \A i \in 1..Len(scan'.events) : scan'.events[i].age <= scan'.age + History
  BY <1>7, <1>8, <1>10
<1> QED
  BY <1>4, <1>7, <1>9, <1>10, <1>11, <1>12, <1>13

LEMMA TickInv == GaugeInv /\ Gauge!Tick => GaugeInv'
<1> SUFFICES ASSUME GaugeInv, Gauge!Tick PROVE GaugeInv'
  OBVIOUS
<1>t. GaugeTypes /\ Timed /\ LinesOlder /\ CountedOnce
  BY DEF GaugeInv
<1>s. scan.age \in -1..Interval /\ wait \in 0..Interval /\ wait > 0 /\ wait' = wait - 1
  BY GaugeState DEF Gauge!Tick
<1>1. GaugeTypes' /\ Timed'
  <2>1. lines' \in [Transcript -> Seq(Gauge!Line)]
    BY TickFiles DEF Gauge!Tick
  <2>2. part' \in [Transcript -> {<< >>} \cup {<<e>> : e \in Gauge!Line}]
    <3>1. part' = [f \in Transcript |-> part'[f]]
      BY DEF Gauge!Tick
    <3>2. \A f \in Transcript : part'[f] \in {<< >>} \cup {<<e>> : e \in Gauge!Line}
      BY TickFiles
    <3> QED
      BY <3>1, <3>2
  <2>3. \A f \in Transcript : Len(lines'[f]) + Len(part'[f]) <= MaxLines
    <3> SUFFICES ASSUME NEW f \in Transcript PROVE Len(lines'[f]) + Len(part'[f]) <= MaxLines
      OBVIOUS
    <3>1. Len(lines'[f]) <= Len(lines[f]) /\ Len(part'[f]) <= Len(part[f])
      BY TickFiles
    <3>2. lines'[f] \in Seq(Gauge!Line) /\ lines[f] \in Seq(Gauge!Line)
          /\ Len(part[f]) \in Nat /\ Len(part'[f]) \in Nat
      <4>1. Len(part[f]) \in 0..1
        BY <1>t, PartFacts
      <4>2. Len(part'[f]) \in Nat
        BY <2>2
      <4> QED
        BY <4>1, <4>2, <2>1, GaugeState
    <3>3. Len(lines[f]) + Len(part[f]) <= MaxLines
      BY <1>t DEF GaugeTypes
    <3>4. Len(lines'[f]) \in Nat /\ Len(lines[f]) \in Nat
      BY <3>2
    <3>5. Len(part[f]) \in Nat /\ Len(part'[f]) \in Nat
      BY <3>2
    <3> DEFINE l == Len(lines[f])
               k == Len(lines'[f])
               o == Len(part[f])
               p == Len(part'[f])
    <3>6. /\ l \in Nat /\ k \in Nat /\ o \in Nat /\ p \in Nat
          /\ k <= l /\ p <= o /\ l + o <= MaxLines
      BY <3>1, <3>3, <3>4, <3>5
    <3> HIDE DEF l, k, o, p
    <3>7. k + p <= MaxLines
      BY <3>6, GaugeConstants
    <3> QED
      BY <3>7 DEF k, p
  <2>4. mtime' \in [Transcript -> 0..Gauge!MaxAge]
    BY TickFiles DEF Gauge!Tick
  <2>5. wait' \in 0..Interval
    BY <1>s, GaugeConstants
  <2>6. scan' \in [age : -1..Interval, todo : SUBSET Transcript, events : Seq(Gauge!Line),
                   new : [Transcript -> Nat]] /\ Timed'
    <3>1. CASE scan.age >= 0
      <4>1. /\ scan'.age = scan.age + 1 /\ scan'.age \in -1..Interval
            /\ scan'.todo = scan.todo /\ scan'.new = scan.new
            /\ scan'.events \in Seq(Gauge!Line)
            /\ \A i \in 1..Len(scan'.events) : scan'.events[i].age <= scan'.age + History
            /\ scan' = [age |-> scan'.age, todo |-> scan'.todo, events |-> scan'.events,
                        new |-> scan'.new]
        BY <3>1, TickEvents
      <4>2. scan.todo \in SUBSET Transcript /\ scan.new \in [Transcript -> Nat]
        BY <1>t DEF GaugeTypes
      <4>3. wait' = Interval - scan'.age
        BY <1>t, <1>s, <3>1, <4>1, GaugeConstants DEF Timed
      <4>4. Timed'
        <5>1. scan'.age >= 0
          BY <1>s, <3>1, <4>1
        <5> QED
          BY <4>1, <4>3, <5>1 DEF Timed
      <4> HIDE <1>t
      <4> QED
        BY <4>1, <4>2, <4>4
    <3>2. CASE scan.age < 0
      <4>1. ~(scan.age >= 0)
        BY <1>s, <3>2
      <4>2. scan' = scan
        BY <4>1 DEF Gauge!Tick, Gauge!Scanning
      <4> QED
        BY <1>t, <4>1, <4>2 DEF GaugeTypes, Timed
    <3> QED
      BY <1>s, <3>1, <3>2
  <2>7. latest' = latest
    BY DEF Gauge!Tick
  <2>8. latest' \in [tokens : Nat, budget : Nat, pct : 0..100]
    BY <1>t, <2>7 DEF GaugeTypes
  <2> QED
    BY <2>1, <2>2, <2>3, <2>4, <2>5, <2>6, <2>8 DEF GaugeTypes
<1>2. LinesOlder'
  BY TickFiles DEF LinesOlder
<1>3. CountedOnce'
  <2>1. CASE scan.age >= 0
    <3>e. /\ scan'.age = scan.age + 1 /\ scan'.todo = scan.todo /\ scan'.new = scan.new
          /\ WeightTo(scan'.events, CountsTo(scan.age + Window + 1), Len(scan'.events)) = Found
      BY <2>1, TickEvents
    <3>b. /\ scan.age + Window \in Nat /\ scan.age + Window + 1 <= Gauge!MaxAge
          /\ scan'.age + Window = scan.age + Window + 1
      BY <1>s, <2>1, <3>e, <1>t, GaugeConstants DEF Timed
    <3>1. PICK got : CountsLines(got)
      BY <1>t, <2>1 DEF CountedOnce
    <3> DEFINE Left(f, k) ==
                 /\ k \in 0..Len(lines'[f])
                 /\ Len(lines'[f]) - k <= Len(lines[f]) - got[f] /\ k <= got[f]
                 /\ WeightTo(lines'[f], CountsTo(scan.age + Window + 1), k)
                      = WeightTo(lines[f], CountsTo(scan.age + Window), got[f])
               left == [f \in Transcript |-> CHOOSE k : Left(f, k)]
    <3>l. ASSUME NEW f \in Transcript PROVE Left(f, left[f])
      <4>1. got[f] \in 0..Len(lines[f])
        BY <3>1, GaugeState DEF CountsLines
      <4>2. \E k \in 0..Len(lines'[f]) : Left(f, k)
        BY <3>b, <4>1, TickFiles
      <4>3. \E k : Left(f, k)
        BY <4>2
      <4> HIDE DEF Left
      <4> QED
        BY <4>3
    <3>p. PICK now : now = left
      OBVIOUS
    <3>2. ASSUME NEW f \in Transcript PROVE Left(f, now[f])
      <4> HIDE DEF left, Left
      <4> QED
        BY <3>l, <3>p
    <3>3. ASSUME NEW f \in Transcript
          PROVE  /\ now[f] \in Nat /\ now[f] <= Len(lines'[f])
                 /\ f \in scan.todo => now[f] = 0
                 /\ f \notin scan.todo => Len(lines'[f]) - scan.new[f] <= now[f]
                 /\ WeightTo(lines'[f], CountsTo(scan.age + Window + 1), now[f])
                      = WeightTo(lines[f], CountsTo(scan.age + Window), got[f])
      <4>1. /\ now[f] \in 0..Len(lines'[f])
            /\ Len(lines'[f]) - now[f] <= Len(lines[f]) - got[f] /\ now[f] <= got[f]
            /\ WeightTo(lines'[f], CountsTo(scan.age + Window + 1), now[f])
                 = WeightTo(lines[f], CountsTo(scan.age + Window), got[f])
        BY <3>2
      <4>2. /\ got[f] \in Nat /\ got[f] <= Len(lines[f])
            /\ f \in scan.todo => got[f] = 0
            /\ f \notin scan.todo => Len(lines[f]) - scan.new[f] <= got[f]
        BY <3>1 DEF CountsLines
      <4>3. Len(lines[f]) \in Nat /\ scan.new[f] \in Nat
        BY GaugeState
      <4>4. Len(lines'[f]) \in Nat
        BY <1>1 DEF GaugeTypes
      <4>5. now[f] \in Nat
        BY <4>1, <4>4
      <4> QED
        BY <4>1, <4>2, <4>3, <4>4, <4>5
    <3> HIDE DEF Left
    <3>4. Had(now)' = Had(got)
      <4>1. Had(now)' = [f \in Transcript |->
                           WeightTo(lines'[f], CountsTo(scan.age + Window + 1), now[f])]
        BY <3>b, Zenon DEF Had
      <4>2. Had(got) = [f \in Transcript |->
                           WeightTo(lines[f], CountsTo(scan.age + Window), got[f])]
        BY DEF Had
      <4>3. \A f \in Transcript : WeightTo(lines'[f], CountsTo(scan.age + Window + 1), now[f])
                                   = WeightTo(lines[f], CountsTo(scan.age + Window), got[f])
        BY <3>3
      <4> QED
        BY <4>1, <4>2, <4>3, Zenon
    <3>5. now \in [Transcript -> Nat]
      <4>1. now = [f \in Transcript |-> now[f]]
        BY <3>p
      <4>2. \A f \in Transcript : now[f] \in Nat
        BY <3>3
      <4> QED
        BY <4>1, <4>2
    <3>6. Found' = Found
      BY <3>e, <3>b DEF Found
    <3>7. CountsLines(now)'
      <4>1. Found = SumFunctionOnSet(Had(got), Transcript)
        BY <3>1 DEF CountsLines
      <4>2. \A f \in Transcript :
              /\ now[f] <= Len(lines'[f])
              /\ f \in scan'.todo => now[f] = 0
              /\ f \notin scan'.todo => Len(lines'[f]) - scan'.new[f] <= now[f]
        BY <3>e, <3>3
      <4>3. Found' = SumFunctionOnSet(Had(now)', Transcript)
        BY <3>4, <3>6, <4>1
      <4> QED
        BY <3>5, <4>2, <4>3, Zenon DEF CountsLines
    <3> QED
      BY <3>7 DEF CountedOnce
  <2>2. CASE scan.age < 0
    <3>1. ~(scan.age >= 0)
      BY <1>s, <2>2
    <3>2. scan' = scan
      BY <3>1 DEF Gauge!Tick, Gauge!Scanning
    <3> QED
      BY <3>1, <3>2 DEF CountedOnce
  <2> QED
    BY <1>s, <2>1, <2>2
<1> QED
  BY <1>1, <1>2, <1>3 DEF GaugeInv
-----------------------------------------------------------------------------
(* Claude Code writes *)

LEMMA StartLineInv ==
  ASSUME GaugeInv, NEW f \in Transcript, Gauge!StartLine(f)
  PROVE  GaugeInv'
<1>t. GaugeTypes /\ Timed /\ LinesOlder /\ CountedOnce
  BY DEF GaugeInv
<1>1. /\ part[f] = << >> /\ Len(lines[f]) < MaxLines
      /\ lines' = lines /\ wait' = wait /\ scan' = scan /\ latest' = latest
      /\ mtime' = [mtime EXCEPT ![f] = 0]
  BY DEF Gauge!StartLine
<1>2. PICK k \in Token : part' = [part EXCEPT ![f] = <<[age |-> 0, tok |-> k]>>]
  BY DEF Gauge!StartLine
<1>3. [age |-> 0, tok |-> k] \in Gauge!Line
  BY GaugeConstants DEF Gauge!Line
<1>4. part' \in [Transcript -> {<< >>} \cup {<<e>> : e \in Gauge!Line}]
  BY <1>t, <1>2, <1>3 DEF GaugeTypes
<1>5. mtime' \in [Transcript -> 0..Gauge!MaxAge]
  BY <1>t, <1>1, GaugeConstants DEF GaugeTypes
<1>6. \A g \in Transcript : Len(lines'[g]) + Len(part'[g]) <= MaxLines
  <2> SUFFICES ASSUME NEW g \in Transcript PROVE Len(lines'[g]) + Len(part'[g]) <= MaxLines
    OBVIOUS
  <2>1. CASE g = f
    <3>1. part'[g] = <<[age |-> 0, tok |-> k]>>
      BY <1>t, <1>2, <2>1 DEF GaugeTypes
    <3>2. Len(part'[g]) = 1
      BY <3>1
    <3>3. Len(lines[f]) \in Nat
      BY GaugeState
    <3> QED
      BY <1>1, <2>1, <3>2, <3>3, GaugeConstants
  <2>2. CASE g # f
    BY <1>t, <1>1, <1>2, <2>2 DEF GaugeTypes
  <2> QED
    BY <2>1, <2>2
<1>7. GaugeTypes'
  BY <1>t, <1>1, <1>4, <1>5, <1>6 DEF GaugeTypes
<1>8. Timed' /\ CountedOnce'
  BY <1>t, <1>1 DEF Timed, CountedOnce, CountsLines, Found, Had
<1>9. LinesOlder'
  <2> SUFFICES ASSUME NEW g \in Transcript, NEW i \in 1..Len(lines[g])
               PROVE  lines[g][i].age >= mtime'[g]
    BY <1>1 DEF LinesOlder
  <2>1. lines[g][i] \in Gauge!Line
    BY GaugeState
  <2>2. lines[g][i].age \in Nat
    BY <2>1, GaugeConstants DEF Gauge!Line
  <2>3. mtime'[g] = IF g = f THEN 0 ELSE mtime[g]
    BY <1>t, <1>1 DEF GaugeTypes
  <2> QED
    BY <1>t, <2>2, <2>3 DEF LinesOlder
<1> QED
  BY <1>7, <1>8, <1>9 DEF GaugeInv

LEMMA ConcatFacts ==
  ASSUME NEW X, NEW p \in Seq(X), NEW q \in Seq(X)
  PROVE  /\ p \o q \in Seq(X) /\ Len(p \o q) = Len(p) + Len(q)
         /\ \A i \in 1..Len(p) : (p \o q)[i] = p[i]
         /\ \A i \in 1..Len(p \o q) : i > Len(p) => (p \o q)[i] = q[i - Len(p)] /\ i - Len(p) \in 1..Len(q)
<1>1. p \o q \in Seq(X) /\ Len(p \o q) = Len(p) + Len(q)
  OBVIOUS
<1>2. ASSUME NEW i \in 1..Len(p) PROVE (p \o q)[i] = p[i]
  OBVIOUS
<1>3. ASSUME NEW i \in 1..(Len(p) + Len(q)), i > Len(p)
      PROVE  (p \o q)[i] = q[i - Len(p)] /\ i - Len(p) \in 1..Len(q)
  BY <1>3
<1> QED
  BY <1>1, <1>2, <1>3

LEMMA EndLineInv ==
  ASSUME GaugeInv, NEW f \in Transcript, Gauge!EndLine(f)
  PROVE  GaugeInv'
<1>t. GaugeTypes /\ Timed /\ LinesOlder /\ CountedOnce
  BY DEF GaugeInv
<1>1. /\ part[f] # << >> /\ part' = [part EXCEPT ![f] = << >>]
      /\ lines' = [lines EXCEPT ![f] = lines[f] \o part[f]]
      /\ wait' = wait /\ latest' = latest
      /\ mtime' = [mtime EXCEPT ![f] = 0]
  BY DEF Gauge!EndLine
<1>2. scan' = IF scan.age >= 0 THEN [scan EXCEPT !.new[f] = @ + 1] ELSE scan
  BY DEF Gauge!EndLine, Gauge!Scanning
<1>3. part[f] \in Seq(Gauge!Line) /\ Len(part[f]) = 1 /\ lines[f] \in Seq(Gauge!Line)
      /\ Len(lines[f]) \in Nat
  BY <1>t, <1>1, PartFacts, GaugeState
<1>4. /\ lines[f] \o part[f] \in Seq(Gauge!Line)
      /\ Len(lines[f] \o part[f]) = Len(lines[f]) + 1
      /\ \A i \in 1..Len(lines[f]) : (lines[f] \o part[f])[i] = lines[f][i]
  <2> DEFINE p == lines[f]
             q == part[f]
  <2>1. p \in Seq(Gauge!Line) /\ q \in Seq(Gauge!Line) /\ Len(q) = 1
    BY <1>3
  <2> HIDE DEF p, q
  <2>2. /\ p \o q \in Seq(Gauge!Line) /\ Len(p \o q) = Len(p) + 1
        /\ \A i \in 1..Len(p) : (p \o q)[i] = p[i]
    <3>1. /\ p \o q \in Seq(Gauge!Line) /\ Len(p \o q) = Len(p) + Len(q)
          /\ \A i \in 1..Len(p) : (p \o q)[i] = p[i]
      BY <2>1, ConcatFacts
    <3> QED
      BY <2>1, <3>1, Zenon
  <2> QED
    BY <2>2 DEF p, q
<1>5. ASSUME NEW g \in Transcript
      PROVE  /\ g = f => lines'[g] = lines[f] \o part[f] /\ part'[g] = << >> /\ mtime'[g] = 0
             /\ g # f => lines'[g] = lines[g] /\ part'[g] = part[g] /\ mtime'[g] = mtime[g]
  BY <1>t, <1>1 DEF GaugeTypes
<1>6. lines' \in [Transcript -> Seq(Gauge!Line)]
  BY <1>t, <1>1, <1>4 DEF GaugeTypes
<1>7. part' \in [Transcript -> {<< >>} \cup {<<e>> : e \in Gauge!Line}]
      /\ mtime' \in [Transcript -> 0..Gauge!MaxAge]
  BY <1>t, <1>1, GaugeConstants DEF GaugeTypes
<1>8. \A g \in Transcript : Len(lines'[g]) + Len(part'[g]) <= MaxLines
  <2> SUFFICES ASSUME NEW g \in Transcript PROVE Len(lines'[g]) + Len(part'[g]) <= MaxLines
    OBVIOUS
  <2>0. Len(lines[g]) + Len(part[g]) <= MaxLines
    BY <1>t DEF GaugeTypes
  <2>1. CASE g = f
    <3>1. Len(lines'[g]) = Len(lines[f]) + 1 /\ Len(part'[g]) = 0
      BY <1>4, <1>5, <2>1
    <3> DEFINE l == Len(lines[f])
               k == Len(lines'[g])
               p == Len(part'[g])
    <3>2. l \in Nat /\ k = l + 1 /\ p = 0 /\ l + 1 <= MaxLines
      BY <1>3, <2>0, <2>1, <3>1
    <3> HIDE DEF l, k, p
    <3>3. k + p <= MaxLines
      BY <3>2, GaugeConstants
    <3> QED
      BY <3>3 DEF k, p
  <2>2. CASE g # f
    BY <1>5, <2>0, <2>2
  <2> QED
    BY <2>1, <2>2
<1>9. /\ scan' \in [age : -1..Interval, todo : SUBSET Transcript, events : Seq(Gauge!Line),
                    new : [Transcript -> Nat]]
      /\ scan'.age = scan.age /\ scan'.todo = scan.todo /\ scan'.events = scan.events
      /\ scan.age >= 0 => \A g \in Transcript :
                            scan'.new[g] = IF g = f THEN scan.new[f] + 1 ELSE scan.new[g]
  <2>1. scan \in [age : -1..Interval, todo : SUBSET Transcript, events : Seq(Gauge!Line),
                  new : [Transcript -> Nat]]
    BY <1>t DEF GaugeTypes
  <2>2. CASE scan.age >= 0
    <3> DEFINE n == [scan.new EXCEPT ![f] = scan.new[f] + 1]
    <3>1. n \in [Transcript -> Nat]
          /\ \A g \in Transcript : n[g] = IF g = f THEN scan.new[f] + 1 ELSE scan.new[g]
      BY <2>1
    <3>2. scan' = [scan EXCEPT !.new = n]
      BY <1>2, <2>2
    <3> HIDE DEF n
    <3>3. scan' = [age |-> scan.age, todo |-> scan.todo, events |-> scan.events, new |-> n]
      BY <2>1, <3>2
    <3> QED
      BY <2>1, <3>1, <3>3
  <2>3. CASE ~(scan.age >= 0)
    BY <1>2, <2>1, <2>3
  <2> QED
    BY <2>2, <2>3
<1>10. latest' \in [tokens : Nat, budget : Nat, pct : 0..100] /\ wait' \in 0..Interval
  BY <1>t, <1>1 DEF GaugeTypes
<1>11. GaugeTypes'
  BY <1>6, <1>7, <1>8, <1>9, <1>10 DEF GaugeTypes
<1>12. Timed'
  BY <1>t, <1>1, <1>9 DEF Timed
<1>13. LinesOlder'
  <2> SUFFICES ASSUME NEW g \in Transcript, NEW i \in 1..Len(lines'[g])
               PROVE  lines'[g][i].age >= mtime'[g]
    BY DEF LinesOlder
  <2>1. lines'[g][i] \in Gauge!Line
    BY <1>6
  <2>2. lines'[g][i].age \in Nat
    BY <2>1, GaugeConstants DEF Gauge!Line
  <2>3. CASE g = f
    <3>1. mtime'[g] = 0
      BY <1>5, <2>3
    <3> QED
      BY <2>2, <3>1
  <2>4. CASE g # f
    BY <1>t, <1>5, <2>4 DEF LinesOlder
  <2> QED
    BY <2>3, <2>4
<1>14. CountedOnce'
  <2> SUFFICES ASSUME scan.age >= 0 PROVE CountedOnce'
    BY <1>9 DEF CountedOnce
  <2>1. PICK got : CountsLines(got)
    BY <1>t DEF CountedOnce
  <2>2. /\ got \in [Transcript -> Nat]
        /\ \A g \in Transcript : /\ got[g] <= Len(lines[g])
                                 /\ g \in scan.todo => got[g] = 0
                                 /\ g \notin scan.todo => Len(lines[g]) - scan.new[g] <= got[g]
        /\ Found = SumFunctionOnSet(Had(got), Transcript)
    BY <2>1 DEF CountsLines
  <2>3. ASSUME NEW g \in Transcript
        PROVE  /\ got[g] <= Len(lines'[g])
               /\ g \in scan'.todo => got[g] = 0
               /\ g \notin scan'.todo => Len(lines'[g]) - scan'.new[g] <= got[g]
               /\ WeightTo(lines'[g], CountsTo(scan.age + Window), got[g])
                    = WeightTo(lines[g], CountsTo(scan.age + Window), got[g])
    <3>1. CASE g = f
      <4>1. lines'[g] = lines[f] \o part[f] /\ scan'.new[g] = scan.new[f] + 1
        BY <1>5, <1>9, <3>1
      <4>2. got[g] \in Nat /\ got[g] <= Len(lines[f]) /\ scan.new[f] \in Nat
        BY <2>2, <3>1, GaugeState
      <4>3. Len(lines'[g]) = Len(lines[f]) + 1
        BY <1>4, <4>1
      <4>4. got[g] <= Len(lines'[g])
            /\ (Len(lines[f]) - scan.new[f] <= got[g] => Len(lines'[g]) - scan'.new[g] <= got[g])
        BY <1>3, <4>1, <4>2, <4>3
      <4>5. WeightTo(lines'[g], CountsTo(scan.age + Window), got[g])
              = WeightTo(lines[g], CountsTo(scan.age + Window), got[g])
        <5>1. CountsTo(scan.age + Window) \in [AnyLine -> Nat] /\ Seq(Gauge!Line) \subseteq Seq(AnyLine)
          BY CountsToType
        <5>2. got[g] \in 0..Len(lines[f]) /\ got[g] <= Len(lines[f] \o part[f])
          BY <1>3, <1>4, <4>2
        <5>3. \A i \in 1..got[g] : (lines[f] \o part[f])[i] = lines[f][i]
          <6>1. \A i \in 1..got[g] : i \in 1..Len(lines[f])
            BY <1>3, <4>2
          <6> QED
            BY <1>4, <6>1
        <5>4. lines[f] \in Seq(AnyLine) /\ lines[f] \o part[f] \in Seq(AnyLine)
          BY <1>3, <1>4, <5>1
        <5>5. WeightTo(lines[f] \o part[f], CountsTo(scan.age + Window), got[g])
                = WeightTo(lines[f], CountsTo(scan.age + Window), got[g])
          BY <5>1, <5>2, <5>3, <5>4, WeightOfPrefix
        <5> QED
          BY <3>1, <4>1, <5>5
      <4> QED
        BY <1>9, <2>2, <3>1, <4>4, <4>5
    <3>2. CASE g # f
      BY <1>5, <1>9, <2>2, <3>2
    <3> QED
      BY <3>1, <3>2
  <2>4. Had(got)' = Had(got) /\ Found' = Found
    <3>1. Had(got)' = [g \in Transcript |-> WeightTo(lines'[g], CountsTo(scan.age + Window), got[g])]
      BY <1>9, Zenon DEF Had
    <3>2. Had(got) = [g \in Transcript |-> WeightTo(lines[g], CountsTo(scan.age + Window), got[g])]
      BY DEF Had
    <3>3. \A g \in Transcript : WeightTo(lines'[g], CountsTo(scan.age + Window), got[g])
                               = WeightTo(lines[g], CountsTo(scan.age + Window), got[g])
      BY <2>3
    <3>4. Had(got)' = Had(got)
      BY <3>1, <3>2, <3>3, Zenon
    <3> QED
      BY <1>9, <3>4, Zenon DEF Found
  <2>5. Found' = SumFunctionOnSet(Had(got)', Transcript)
    BY <2>2, <2>4
  <2>6. \A g \in Transcript :
          /\ got[g] <= Len(lines'[g])
          /\ g \in scan'.todo => got[g] = 0
          /\ g \notin scan'.todo => Len(lines'[g]) - scan'.new[g] <= got[g]
    BY <2>3
  <2>7. CountsLines(got)'
    BY <2>2, <2>5, <2>6, Zenon DEF CountsLines
  <2> QED
    BY <2>7 DEF CountedOnce
<1> QED
  BY <1>11, <1>12, <1>13, <1>14 DEF GaugeInv
-----------------------------------------------------------------------------
(* Refresh *)

\* What is read of a file has every token of it that still counts, and nothing
\* that was older than the week when the scan began.
LEMMA RecentFacts ==
  ASSUME GaugeInv, scan.age >= 0, NEW f \in Transcript
  PROVE  /\ Gauge!Recent(f) \in Seq(Gauge!Line)
         /\ \A i \in 1..Len(Gauge!Recent(f)) : Gauge!Recent(f)[i].age <= scan.age + History
         /\ WeightTo(Gauge!Recent(f), CountsTo(scan.age + Window), Len(Gauge!Recent(f)))
              = WeightTo(lines[f], CountsTo(scan.age + Window), Len(lines[f]))
<1> DEFINE q == lines[f]
           r == Gauge!Recent(f)
           a == scan.age + Window
           S == {e \in Gauge!Line : e.age <= scan.age + History}
<1>1. /\ q \in Seq(Gauge!Line) /\ q \in Seq(AnyLine) /\ Len(q) \in Nat
      /\ scan.age \in 0..Interval /\ mtime[f] \in Nat
  BY GaugeState, GaugeConstants
<1>2. \A i \in 1..Len(q) : q[i].age >= mtime[f]
  BY DEF GaugeInv, LinesOlder
<1>3. a \in Nat /\ a <= scan.age + History /\ scan.age + History <= Gauge!MaxAge
      /\ scan.age + History \in Nat
  BY <1>1, GaugeConstants
<1>4. CASE Gauge!Untouched(f)
  <2>1. r = << >> /\ mtime[f] > scan.age + History
    BY <1>4 DEF Gauge!Recent, Gauge!Untouched
  <2>2. ASSUME NEW i \in 1..Len(q) PROVE i \in DOMAIN q /\ CountsTo(a)[q[i]] = 0
    <3>1. q[i] \in AnyLine /\ q[i].age >= mtime[f] /\ i \in DOMAIN q
      BY <1>1, <1>2
    <3>2. q[i].age \in Nat
      BY <3>1 DEF AnyLine
    <3>3. ~(q[i].age <= a)
      BY <1>1, <1>3, <2>1, <3>1, <3>2
    <3> QED
      BY <3>1, <3>3 DEF CountsTo
  <2>3. WeightTo(q, CountsTo(a), Len(q)) = 0
    BY <1>1, <2>2, WeightOfNothing
  <2>4. << >> \in Seq(Gauge!Line) /\ << >> \in Seq(AnyLine) /\ Len(<< >>) = 0
    OBVIOUS
  <2>5. WeightTo(<< >>, CountsTo(a), 0) = 0
    BY <2>4, CountsToType, WeightOfNone
  <2>6. \A i \in 1..Len(r) : r[i].age <= scan.age + History
    BY <2>1, <2>4
  <2> QED
    BY <2>1, <2>3, <2>4, <2>5, <2>6
<1>5. CASE ~Gauge!Untouched(f)
  <2>1. r = Gauge!Keeping(q, S)
    BY <1>5 DEF Gauge!Recent
  <2>2. ASSUME NEW e \in AnyLine, e \notin S PROVE CountsTo(a)[e] = 0
    <3>1. e.age \in Nat
      BY DEF AnyLine
    <3>2. ~(e.age <= a)
      <4>1. CASE e \in Gauge!Line
        BY <1>3, <2>2, <3>1, <4>1
      <4>2. CASE e \notin Gauge!Line
        <5>1. e.age \notin 0..Gauge!MaxAge
          BY <4>2 DEF AnyLine, Gauge!Line
        <5> QED
          BY <1>3, <3>1, <5>1, GaugeConstants
      <4> QED
        BY <4>1, <4>2
    <3> QED
      BY <3>2 DEF CountsTo
  <2>3. CountsTo(a) \in [AnyLine -> Nat]
    BY CountsToType
  <2> HIDE DEF S
  <2>4. Masks(CountsTo(a), CountsTo(a), S, AnyLine)
    BY <2>2, <2>3 DEF Masks
  <2>5. /\ Gauge!Keeping(q, S) \in Seq(Both(AnyLine, S))
        /\ WeightTo(Gauge!Keeping(q, S), CountsTo(a), Len(Gauge!Keeping(q, S)))
             = WeightTo(q, CountsTo(a), Len(q))
    BY <1>1, <2>4, KeepingFacts
  <2>6. r \in Seq(S)
    <3>1. Both(AnyLine, S) \subseteq S
      BY DEF Both
    <3>2. r \in Seq(Both(AnyLine, S))
      BY <2>1, <2>5
    <3> HIDE DEF r
    <3> QED
      BY <3>1, <3>2
  <2>7. S \subseteq Gauge!Line
    BY DEF S
  <2>8. ASSUME NEW i \in 1..Len(r) PROVE r[i].age <= scan.age + History
    <3>1. r[i] \in S
      BY <2>6
    <3> QED
      BY <3>1 DEF S
  <2>9. r \in Seq(Gauge!Line)
    <3> HIDE DEF r
    <3> QED
      BY <2>6, <2>7
  <2> QED
    BY <2>1, <2>5, <2>8, <2>9
<1> QED
  BY <1>4, <1>5

LEMMA ReadFileInv ==
  ASSUME GaugeInv, NEW f \in Transcript, Gauge!ReadFile(f)
  PROVE  GaugeInv'
<1>t. GaugeTypes /\ Timed /\ LinesOlder /\ CountedOnce
  BY DEF GaugeInv
<1>s. /\ scan.age \in -1..Interval /\ scan.events \in Seq(Gauge!Line)
      /\ scan.events \in Seq(AnyLine) /\ Len(scan.events) \in Nat
      /\ lines[f] \in Seq(AnyLine) /\ Len(lines[f]) \in Nat /\ scan.new[f] \in Nat
  BY GaugeState
<1>1. /\ f \in scan.todo
      /\ lines' = lines /\ part' = part /\ mtime' = mtime /\ wait' = wait /\ latest' = latest
      /\ scan' = [scan EXCEPT !.todo = scan.todo \ {f}, !.events = scan.events \o Gauge!Recent(f)]
  BY DEF Gauge!ReadFile
<1>2. scan \in [age : -1..Interval, todo : SUBSET Transcript, events : Seq(Gauge!Line),
                new : [Transcript -> Nat]]
  BY <1>t DEF GaugeTypes
<1>3. scan' = [age |-> scan.age, todo |-> scan.todo \ {f},
               events |-> scan.events \o Gauge!Recent(f), new |-> scan.new]
  <2> DEFINE d == scan.todo \ {f}
             e == scan.events \o Gauge!Recent(f)
  <2>1. scan' = [scan EXCEPT !.todo = d, !.events = e]
    BY <1>1
  <2> HIDE DEF d, e
  <2>2. scan' = [age |-> scan.age, todo |-> d, events |-> e, new |-> scan.new]
    BY <1>2, <2>1
  <2> QED
    BY <2>2 DEF d, e
<1>4. scan.age >= 0
  BY <1>t, <1>1 DEF Timed
<1>5. /\ scan'.age = scan.age /\ scan'.todo = scan.todo \ {f} /\ scan'.new = scan.new
      /\ scan'.events = scan.events \o Gauge!Recent(f)
  BY <1>3
<1>6. /\ Gauge!Recent(f) \in Seq(Gauge!Line) /\ Gauge!Recent(f) \in Seq(AnyLine)
      /\ \A i \in 1..Len(Gauge!Recent(f)) : Gauge!Recent(f)[i].age <= scan.age + History
      /\ WeightTo(Gauge!Recent(f), CountsTo(scan.age + Window), Len(Gauge!Recent(f)))
           = WeightTo(lines[f], CountsTo(scan.age + Window), Len(lines[f]))
  BY <1>4, RecentFacts, CountsToType
<1>7. scan'.events \in Seq(Gauge!Line)
  BY <1>s, <1>5, <1>6, ConcatFacts
<1>8. GaugeTypes'
  <2>1. scan'.todo \in SUBSET Transcript
    BY <1>2, <1>5
  <2>2. scan' = [age |-> scan'.age, todo |-> scan'.todo, events |-> scan'.events,
                 new |-> scan'.new]
    BY <1>3, <1>5
  <2>3. scan'.age \in -1..Interval /\ scan'.new \in [Transcript -> Nat]
    BY <1>2, <1>5
  <2>4. scan' \in [age : -1..Interval, todo : SUBSET Transcript, events : Seq(Gauge!Line),
                   new : [Transcript -> Nat]]
    <3> HIDE <1>3, <1>5, <1>1
    <3> QED
      BY <1>7, <2>1, <2>2, <2>3
  <2> QED
    BY <1>t, <1>1, <2>4 DEF GaugeTypes
<1>9. Timed'
  <2>1. ASSUME NEW i \in 1..Len(scan'.events) PROVE scan'.events[i].age <= scan'.age + History
    <3> DEFINE p == scan.events
               q == Gauge!Recent(f)
               b == scan.age + History
    <3>1. /\ p \in Seq(Gauge!Line) /\ q \in Seq(Gauge!Line) /\ i \in 1..Len(p \o q)
          /\ \A j \in 1..Len(p) : p[j].age <= b
          /\ \A j \in 1..Len(q) : q[j].age <= b
      BY <1>s, <1>t, <1>4, <1>5, <1>6, <2>1 DEF Timed
    <3> HIDE DEF p, q, b
    <3>2. /\ \A j \in 1..Len(p) : (p \o q)[j] = p[j]
          /\ \A j \in 1..Len(p \o q) : j > Len(p) => (p \o q)[j] = q[j - Len(p)]
                                                     /\ j - Len(p) \in 1..Len(q)
      BY <3>1, ConcatFacts
    <3>3. Len(p) \in Nat /\ i \in Nat \ {0}
      BY <3>1
    <3>4. (p \o q)[i].age <= b
      <4>1. CASE i <= Len(p)
        BY <3>1, <3>2, <3>3, <4>1
      <4>2. CASE i > Len(p)
        BY <3>1, <3>2, <4>2
      <4>3. i <= Len(p) \/ i > Len(p)
        <5> DEFINE n == Len(p)
        <5>1. n \in Nat
          BY <3>3
        <5> HIDE DEF n
        <5>2. i <= n \/ i > n
          BY <5>1, <3>3
        <5> QED
          BY <5>2 DEF n
      <4> QED
        BY <4>1, <4>2, <4>3
    <3> QED
      BY <1>5, <3>4 DEF p, q, b
  <2> QED
    BY <1>t, <1>1, <1>4, <1>5, <2>1 DEF Timed
<1>10. LinesOlder'
  BY <1>t, <1>1 DEF LinesOlder
<1>11. CountedOnce'
  <2>1. PICK got : CountsLines(got)
    BY <1>t, <1>4 DEF CountedOnce
  <2>2. /\ got \in [Transcript -> Nat]
        /\ \A g \in Transcript : /\ got[g] <= Len(lines[g])
                                 /\ g \in scan.todo => got[g] = 0
                                 /\ g \notin scan.todo => Len(lines[g]) - scan.new[g] <= got[g]
        /\ Found = SumFunctionOnSet(Had(got), Transcript)
    BY <2>1 DEF CountsLines
  <2>3. PICK now : now = [got EXCEPT ![f] = Len(lines[f])]
    OBVIOUS
  <2>4. /\ now \in [Transcript -> Nat] /\ now[f] = Len(lines[f]) /\ got[f] = 0
        /\ \A g \in Transcript : g # f => now[g] = got[g]
    BY <1>s, <1>1, <2>2, <2>3
  <2>5. ASSUME NEW g \in Transcript
        PROVE  /\ now[g] <= Len(lines'[g])
               /\ g \in scan'.todo => now[g] = 0
               /\ g \notin scan'.todo => Len(lines'[g]) - scan'.new[g] <= now[g]
    <3>1. CASE g = f
      BY <1>s, <1>1, <1>5, <2>4, <3>1
    <3>2. CASE g # f
      BY <1>1, <1>5, <2>2, <2>4, <3>2
    <3> QED
      BY <3>1, <3>2
  <2> DEFINE w == CountsTo(scan.age + Window)
  <2>6. w \in [AnyLine -> Nat]
    BY CountsToType
  <2>7. Had(now)' = Had(now)
    <3>1. lines' = lines /\ scan'.age = scan.age
      BY <1>1, <1>5
    <3>2. Had(now)' = [g \in Transcript |-> WeightTo(lines'[g], CountsTo(scan'.age + Window), now[g])]
      BY DEF Had
    <3>3. Had(now) = [g \in Transcript |-> WeightTo(lines[g], CountsTo(scan.age + Window), now[g])]
      BY DEF Had
    <3> QED
      BY <3>1, <3>2, <3>3, Zenon
  <2>8. ASSUME NEW g \in Transcript
        PROVE  /\ Had(got)[g] = WeightTo(lines[g], w, got[g]) /\ Had(got)[g] \in Nat
               /\ Had(now)[g] = WeightTo(lines[g], w, now[g]) /\ Had(now)[g] \in Nat
    <3>1. lines[g] \in Seq(AnyLine) /\ Len(lines[g]) \in Nat
      BY GaugeState
    <3>2. got[g] \in 0..Len(lines[g]) /\ now[g] \in 0..Len(lines[g])
      BY <1>1, <2>2, <2>4, <2>5, <3>1
    <3>3. Had(got)[g] = WeightTo(lines[g], w, got[g]) /\ Had(now)[g] = WeightTo(lines[g], w, now[g])
      BY DEF Had
    <3> HIDE DEF w
    <3> QED
      BY <2>6, <3>1, <3>2, <3>3, WeightsCount
  <2>9. Had(got)[f] = 0
    <3>1. Had(got)[f] = WeightTo(lines[f], w, 0)
      BY <2>4, <2>8
    <3> HIDE DEF w
    <3> QED
      BY <1>s, <2>6, <3>1, WeightOfNone
  <2>10. SumFunctionOnSet(Had(now), Transcript)
           = SumFunctionOnSet(Had(got), Transcript) - Had(got)[f] + Had(now)[f]
    <3>1. Counts(Had(got), Transcript) /\ Counts(Had(now), Transcript)
      BY <2>8 DEF Counts
    <3>2. \A g \in Transcript \ {f} : Had(now)[g] = Had(got)[g]
      BY <2>4, <2>8
    <3>3. IsFiniteSet(Transcript)
      BY GaugeConstants
    <3> QED
      BY <3>1, <3>2, <3>3, SumChange
  <2>11. Found' = Found + Had(now)[f]
    <3> DEFINE p == scan.events
               q == Gauge!Recent(f)
    <3>1. /\ p \in Seq(AnyLine) /\ q \in Seq(AnyLine)
          /\ Found' = WeightTo(p \o q, w, Len(p \o q)) /\ Found = WeightTo(p, w, Len(p))
          /\ WeightTo(q, w, Len(q)) = Had(now)[f]
      <4>1. Found' = WeightTo(p \o q, w, Len(p \o q))
        BY <1>5, Zenon DEF Found
      <4>2. WeightTo(q, w, Len(q)) = Had(now)[f]
        BY <1>6, <2>4, <2>8
      <4> QED
        BY <1>s, <1>6, <4>1, <4>2 DEF Found
    <3> HIDE DEF p, q, w
    <3>2. WeightTo(p \o q, w, Len(p \o q)) = WeightTo(p, w, Len(p)) + WeightTo(q, w, Len(q))
      BY <2>6, <3>1, WeightOfConcat
    <3> QED
      BY <3>1, <3>2
  <2>12. SumFunctionOnSet(Had(got), Transcript) \in Nat
    <3>1. Counts(Had(got), Transcript)
      BY <2>8 DEF Counts
    <3> QED
      BY <3>1, GaugeConstants, SumNat
  <2>13. Found' = SumFunctionOnSet(Had(now)', Transcript)
    <3> DEFINE s == SumFunctionOnSet(Had(got), Transcript)
               x == Had(got)[f]
               y == Had(now)[f]
    <3>1. x = 0 /\ y \in Nat /\ s \in Nat /\ Found' = s + y
          /\ SumFunctionOnSet(Had(now), Transcript) = s - x + y
      BY <2>2, <2>8, <2>9, <2>10, <2>11, <2>12
    <3> HIDE DEF s, x, y
    <3>2. Found' = SumFunctionOnSet(Had(now), Transcript)
      BY <3>1
    <3> QED
      BY <2>7, <3>2
  <2>14. CountsLines(now)'
    <3>1. \A g \in Transcript :
            /\ now[g] <= Len(lines'[g])
            /\ g \in scan'.todo => now[g] = 0
            /\ g \notin scan'.todo => Len(lines'[g]) - scan'.new[g] <= now[g]
      BY <2>5
    <3> QED
      BY <2>4, <2>13, <3>1, Zenon DEF CountsLines
  <2> QED
    BY <2>14 DEF CountedOnce
<1> QED
  BY <1>8, <1>9, <1>10, <1>11 DEF GaugeInv

LEMMA BeginInv == GaugeInv /\ Gauge!Begin => GaugeInv'
<1> SUFFICES ASSUME GaugeInv, Gauge!Begin PROVE GaugeInv'
  OBVIOUS
<1>t. GaugeTypes /\ Timed /\ LinesOlder
  BY DEF GaugeInv
<1>1. /\ lines' = lines /\ part' = part /\ mtime' = mtime /\ latest' = latest
      /\ wait' = Interval
      /\ scan' = [Gauge!NoScan EXCEPT !.age = 0, !.todo = Transcript]
  BY DEF Gauge!Begin
<1>2. scan' = [age |-> 0, todo |-> Transcript, events |-> << >>,
               new |-> [f \in Transcript |-> 0]]
  BY <1>1, NoScanFacts
<1>3. /\ scan'.age = 0 /\ scan'.todo = Transcript /\ scan'.events = << >>
      /\ \A f \in Transcript : scan'.new[f] = 0
  BY <1>2
<1>4. scan' \in [age : -1..Interval, todo : SUBSET Transcript, events : Seq(Gauge!Line),
                 new : [Transcript -> Nat]]
  BY <1>2, GaugeConstants
<1>5. GaugeTypes'
  <2>1. wait' \in 0..Interval
    BY <1>1, GaugeConstants
  <2>2. lines' = lines /\ part' = part /\ mtime' = mtime /\ latest' = latest
    BY <1>1
  <2> HIDE <1>1
  <2> QED
    BY <1>t, <1>4, <2>1, <2>2 DEF GaugeTypes
<1>6. Timed'
  BY <1>1, <1>3, GaugeConstants DEF Timed
<1>7. LinesOlder'
  BY <1>t, <1>1 DEF LinesOlder
<1>8. CountedOnce'
  <2>1. PICK none : none = [f \in Transcript |-> 0]
    OBVIOUS
  <2>2. none \in [Transcript -> Nat] /\ \A f \in Transcript : none[f] = 0
    BY <2>1
  <2>3. CountsTo(0 + Window) \in [AnyLine -> Nat]
    BY CountsToType
  <2>4. ASSUME NEW f \in Transcript PROVE Had(none)'[f] = 0
    <3>1. lines[f] \in Seq(AnyLine)
      BY GaugeState
    <3>2. Had(none)' = [g \in Transcript |-> WeightTo(lines[g], CountsTo(0 + Window), none[g])]
      <4>1. lines' = lines /\ scan'.age = 0
        BY <1>1, <1>3
      <4>2. Had(none)' = [g \in Transcript |->
                            WeightTo(lines'[g], CountsTo(scan'.age + Window), none[g])]
        BY DEF Had
      <4> QED
        BY <4>1, <4>2, Zenon
    <3>3. Had(none)'[f] = WeightTo(lines[f], CountsTo(0 + Window), 0)
      BY <2>2, <3>2
    <3> QED
      BY <2>3, <3>1, <3>3, WeightOfNone
  <2>5. SumFunctionOnSet(Had(none)', Transcript) = 0
    BY <2>4, SumOfZeros, GaugeConstants
  <2>6. Found' = 0
    <3>1. << >> \in Seq(AnyLine) /\ Len(<< >>) = 0
      OBVIOUS
    <3>2. Found' = WeightTo(<< >>, CountsTo(0 + Window), Len(<< >>))
      BY <1>3, Zenon DEF Found
    <3> QED
      BY <2>3, <3>1, <3>2, WeightOfNone
  <2>7. \A f \in Transcript :
          /\ none[f] <= Len(lines'[f])
          /\ f \in scan'.todo => none[f] = 0
          /\ f \notin scan'.todo => Len(lines'[f]) - scan'.new[f] <= none[f]
    <3> SUFFICES ASSUME NEW f \in Transcript PROVE 0 <= Len(lines'[f])
      BY <1>3, <2>2
    <3>1. Len(lines'[f]) \in Nat
      BY <1>1, GaugeState
    <3> QED
      BY <3>1
  <2>8. CountsLines(none)'
    BY <2>2, <2>5, <2>6, <2>7 DEF CountsLines
  <2> QED
    BY <2>8 DEF CountedOnce
<1> QED
  BY <1>5, <1>6, <1>7, <1>8 DEF GaugeInv
-----------------------------------------------------------------------------
LEMMA QuotientIsNat ==
  ASSUME NEW x \in Nat, NEW d \in Nat \ {0}
  PROVE  x \div d \in Nat
  OBVIOUS

LEMMA PctFacts ==
  ASSUME NEW x \in Nat, NEW d \in Nat \ {0}
  PROVE  Gauge!Pct(x, d) \in 0..100
<1> DEFINE p == (100 * x + d \div 2) \div d
<1>1. d \div 2 \in Nat
  OBVIOUS
<1>2. 100 * x + d \div 2 \in Nat
  BY <1>1
<1>3. p \in Nat
  BY <1>2, QuotientIsNat
<1> HIDE DEF p
<1>4. Gauge!Min({100, p}) \in {100, p} /\ \A y \in {100, p} : Gauge!Min({100, p}) <= y
  BY <1>3, MinFacts
<1>5. Gauge!Min({100, p}) \in 0..100
  BY <1>3, <1>4
<1> QED
  BY <1>5 DEF p, Gauge!Pct

\* What the gauge shows is what the scan has found.
LEMMA FinishFacts ==
  ASSUME GaugeInv, Gauge!Finish
  PROVE  LET es == Gauge!Sorted(scan.events)
         IN  /\ latest' = [tokens |-> Gauge!Current(es), budget |-> Gauge!Divisor(es),
                           pct |-> Gauge!Pct(Gauge!Current(es), Gauge!Divisor(es))]
             /\ Gauge!Current(es) = Found /\ Found \in Nat
             /\ Gauge!Divisor(es) \in Nat \ {0}
<1> DEFINE q  == scan.events
           es == Gauge!Sorted(q)
           w  == CountsTo(scan.age + Window)
<1>1. latest' = [tokens |-> Gauge!Current(es), budget |-> Gauge!Divisor(es),
                 pct |-> Gauge!Pct(Gauge!Current(es), Gauge!Divisor(es))]
  BY DEF Gauge!Finish
<1>2. q \in Seq(Gauge!Line) /\ q \in Seq(AnyLine) /\ Len(q) \in Nat /\ scan.age \in Int
  BY GaugeState
<1>3. w \in [AnyLine -> Nat] /\ Gauge!Line \subseteq AnyLine
  BY CountsToType
<1>4. Found = WeightTo(q, w, Len(q))
  BY DEF Found
<1>5. scan.age + Window \in Int
  BY <1>2, GaugeConstants
<1>6. Gauge!Current(es) = Found
  <2> HIDE DEF q, w
  <2>1. es \in Seq(Gauge!Line) /\ Len(es) = Len(q) /\ WeightTo(es, w, Len(q)) = WeightTo(q, w, Len(q))
    BY <1>2, <1>3, SortedWeighs
  <2>2. es \in Seq(AnyLine)
    BY <2>1, CountsToType
  <2> HIDE DEF es
  <2>3. Gauge!TokensOf(es, Gauge!Within(es, scan.age + Window)) = WeightTo(es, w, Len(es))
    BY <1>5, <2>2, TokensWithin DEF w
  <2> QED
    BY <1>4, <2>1, <2>3 DEF Gauge!Current
<1>7. Found \in Nat
  <2> HIDE DEF q, w
  <2>1. Len(q) \in 0..Len(q)
    BY <1>2
  <2> QED
    BY <1>2, <1>3, <1>4, <2>1, WeightsCount
<1>8. Gauge!Divisor(es) \in Nat \ {0}
  <2>1. CASE Budget > 0
    BY <2>1, GaugeConstants DEF Gauge!Divisor
  <2>2. CASE ~(Budget > 0)
    <3> DEFINE p == Gauge!Peak5h(es)
    <3>1. p \in Nat
      BY <1>2, HeaviestOfSorted
    <3>2. Gauge!Divisor(es) = Gauge!Max({p, Floor})
      BY <2>2 DEF Gauge!Divisor
    <3> HIDE DEF p, es
    <3>3. p + Floor \in Nat /\ {p, Floor} \subseteq Nat
          /\ \A y \in {p, Floor} : y <= p + Floor
      BY <3>1, GaugeConstants
    <3>4. Gauge!Max({p, Floor}) \in {p, Floor} /\ \A y \in {p, Floor} : y <= Gauge!Max({p, Floor})
      BY <3>3, MaxFacts
    <3> QED
      BY <3>1, <3>2, <3>4, GaugeConstants
  <2> QED
    BY <2>1, <2>2
<1> QED
  BY <1>1, <1>6, <1>7, <1>8

LEMMA FinishInv == GaugeInv /\ Gauge!Finish => GaugeInv'
<1> SUFFICES ASSUME GaugeInv, Gauge!Finish PROVE GaugeInv'
  OBVIOUS
<1>t. GaugeTypes /\ Timed /\ LinesOlder
  BY DEF GaugeInv
<1>1. /\ lines' = lines /\ part' = part /\ mtime' = mtime /\ wait' = wait
      /\ scan' = Gauge!NoScan
  BY DEF Gauge!Finish
<1>2. scan'.age = -1 /\ scan'.todo = {}
      /\ scan' \in [age : -1..Interval, todo : SUBSET Transcript, events : Seq(Gauge!Line),
                    new : [Transcript -> Nat]]
  BY <1>1, NoScanFacts
<1>3. latest' \in [tokens : Nat, budget : Nat, pct : 0..100]
  <2> DEFINE es == Gauge!Sorted(scan.events)
             x  == Gauge!Current(es)
             d  == Gauge!Divisor(es)
  <2>1. latest' = [tokens |-> x, budget |-> d, pct |-> Gauge!Pct(x, d)]
        /\ x \in Nat /\ d \in Nat \ {0}
    BY FinishFacts
  <2> HIDE DEF x, d
  <2>2. Gauge!Pct(x, d) \in 0..100
    BY <2>1, PctFacts
  <2> QED
    BY <2>1, <2>2
<1>4. GaugeTypes'
  BY <1>t, <1>1, <1>2, <1>3 DEF GaugeTypes
<1>5. Timed' /\ CountedOnce'
  BY <1>2 DEF Timed, CountedOnce
<1>6. LinesOlder'
  BY <1>t, <1>1 DEF LinesOlder
<1> QED
  BY <1>4, <1>5, <1>6 DEF GaugeInv

LEMMA GaugeInvNext == GaugeInv /\ [Gauge!Next]_gauge => GaugeInv'
<1> SUFFICES ASSUME GaugeInv, [Gauge!Next]_gauge PROVE GaugeInv'
  OBVIOUS
<1>1. CASE UNCHANGED gauge
  <2>0. /\ lines' = lines /\ part' = part /\ mtime' = mtime /\ wait' = wait /\ scan' = scan
        /\ latest' = latest
    BY <1>1 DEF gauge
  <2>1. GaugeTypes' = GaugeTypes
    BY <2>0, Zenon DEF GaugeTypes
  <2>2. Timed' = Timed
    BY <2>0, Zenon DEF Timed
  <2>3. LinesOlder' = LinesOlder
    BY <2>0, Zenon DEF LinesOlder
  <2>4. CountedOnce' = CountedOnce
    BY <2>0, Zenon DEF CountedOnce, CountsLines, Found, Had
  <2> QED
    BY <2>1, <2>2, <2>3, <2>4 DEF GaugeInv
<1> QED
  BY <1>1, TickInv, StartLineInv, EndLineInv, ReadFileInv, BeginInv, FinishInv DEF Gauge!Next
-----------------------------------------------------------------------------
FilesInv == IInv /\ GaugeInv

LEMMA FilesInvInit == FilesInit => FilesInv
  BY InitIInv, GaugeInvInit DEF FilesInit, FilesInv

LEMMA FilesInvNext == FilesInv /\ [FilesNext]_allVars => FilesInv'
<1> SUFFICES ASSUME FilesInv, [FilesNext]_allVars PROVE FilesInv'
  OBVIOUS
<1>1. [Next]_vars /\ [Gauge!Next]_gauge
  BY DEF FilesNext, allVars
<1> QED
  BY <1>1, NextIInv, GaugeInvNext DEF FilesInv

LEMMA FilesInductive == FilesSpec => []FilesInv
  BY FilesInvInit, FilesInvNext, PTL DEF FilesSpec
-----------------------------------------------------------------------------
\* Types, for any transcripts: a file never has more lines than a file may have,
\* the gauge is between 0 and 100 %, whatever the budget.
THEOREM FilesTypesOK == FilesSpec => []TypesOK
<1>1. FilesInv => TypesOK
  <2> SUFFICES ASSUME FilesInv PROVE TypesOK
    OBVIOUS
  <2>1. GaugeTypes /\ TypeOK
    BY DEF FilesInv, GaugeInv, IInv
  <2>2. \A f \in Transcript : Len(lines[f]) <= MaxLines
    <3> SUFFICES ASSUME NEW f \in Transcript PROVE Len(lines[f]) <= MaxLines
      OBVIOUS
    <3>1. Len(lines[f]) + Len(part[f]) <= MaxLines
      BY <2>1 DEF GaugeTypes
    <3>2. Len(lines[f]) \in Nat /\ Len(part[f]) \in 0..1
      BY <2>1, PartFacts, GaugeState DEF FilesInv
    <3> DEFINE l == Len(lines[f])
               o == Len(part[f])
    <3>3. l \in Nat /\ o \in Nat /\ l + o <= MaxLines
      <4>1. \A k \in 0..1 : k \in Nat
        OBVIOUS
      <4> QED
        BY <3>1, <3>2, <4>1, Zenon
    <3> HIDE DEF l, o
    <3>4. l <= MaxLines
      BY <3>3, GaugeConstants
    <3> QED
      BY <3>4 DEF l
  <2>3. \A f \in Transcript : part[f] = << >> \/ part[f][1] \in Gauge!Line
    BY <2>1, PartFacts
  <2>4. Gauge!TypeOK
    BY <2>1, <2>2, <2>3 DEF GaugeTypes, Gauge!TypeOK
  <2> QED
    BY <2>1, <2>4 DEF TypesOK
<1> QED
  BY FilesInductive, <1>1, PTL

\* Whatever is written while the files are read: the gauge has every token there
\* was when the scan began and no older than the window, once, and none that is
\* not there when it ends (Reader.collect).
THEOREM GaugeIsTrue == FilesSpec => GaugeCounts
<1>1. FilesInv /\ [FilesNext]_allVars =>
        [Gauge!Finish =>
           LET known == [f \in Transcript |->
                           Gauge!Spent(f, scan.age + Window, Len(lines[f]) - scan.new[f])]
           IN  latest'.tokens \in Gauge!SumFunction(known)..Gauge!SpentOf(scan.age + Window)]_gauge
  <2> DEFINE a     == scan.age + Window
             known == [f \in Transcript |-> Gauge!Spent(f, a, Len(lines[f]) - scan.new[f])]
             all   == [f \in Transcript |-> Gauge!Spent(f, a, Len(lines[f]))]
  <2> SUFFICES ASSUME FilesInv, Gauge!Finish
               PROVE  latest'.tokens \in Gauge!SumFunction(known)..Gauge!SpentOf(a)
    OBVIOUS
  <2>1. GaugeInv /\ scan.age >= 0 /\ scan.todo = {}
    BY DEF FilesInv, Gauge!Finish, Gauge!Scanning
  <2>2. a \in Int
    BY <2>1, GaugeState, GaugeConstants
  <2>3. PICK got : CountsLines(got)
    BY <2>1 DEF GaugeInv, CountedOnce
  <2>4. got \in [Transcript -> Nat] /\ Found = SumFunctionOnSet(Had(got), Transcript)
        /\ \A f \in Transcript : /\ got[f] <= Len(lines[f])
                                 /\ Len(lines[f]) - scan.new[f] <= got[f]
    BY <2>1, <2>3 DEF CountsLines
  <2>5. ASSUME NEW f \in Transcript
        PROVE  /\ known[f] \in Nat /\ Had(got)[f] \in Nat /\ all[f] \in Nat
               /\ known[f] <= Had(got)[f] /\ Had(got)[f] <= all[f]
    <3> DEFINE q == lines[f]
               w == CountsTo(a)
               m == Len(lines[f]) - scan.new[f]
               g == got[f]
    <3>1. q \in Seq(AnyLine) /\ w \in [AnyLine -> Nat] /\ Len(q) \in Nat /\ scan.new[f] \in Nat
      BY <2>1, GaugeState, CountsToType
    <3>2. g \in 0..Len(q) /\ m \in Int /\ m <= g /\ m <= Len(q)
      BY <2>4, <3>1
    <3>3. Had(got)[f] = WeightTo(q, w, g)
      BY DEF Had
    <3>4. known[f] = Gauge!TokensOf(q, Gauge!Within(q, a) \cap 1..m)
          /\ all[f] = Gauge!TokensOf(q, Gauge!Within(q, a) \cap 1..Len(q))
      BY DEF Gauge!Spent
    <3> HIDE DEF known, all, q, m, g, a
    <3>5. known[f] = WeightTo(q, w, m) /\ all[f] = WeightTo(q, w, Len(q))
      <4>1. Len(q) \in Int /\ Len(q) <= Len(q)
        BY <3>1
      <4>2. Gauge!TokensOf(q, Gauge!Within(q, a) \cap 1..m) = WeightTo(q, w, m)
        BY <2>2, <3>1, <3>2, TokensAreWeights
      <4>3. Gauge!TokensOf(q, Gauge!Within(q, a) \cap 1..Len(q)) = WeightTo(q, w, Len(q))
        BY <2>2, <3>1, <4>1, TokensAreWeights
      <4> QED
        BY <3>4, <4>2, <4>3
    <3> HIDE DEF w
    <3>6. WeightTo(q, w, m) \in 0..WeightTo(q, w, g)
      BY <3>1, <3>2, WeightGrows
    <3>7. WeightTo(q, w, g) \in 0..WeightTo(q, w, Len(q))
      <4>1. g \in Int /\ Len(q) \in 0..Len(q) /\ g <= Len(q)
        BY <3>1, <3>2
      <4> QED
        BY <3>1, <4>1, WeightGrows
    <3>8. WeightTo(q, w, g) \in Nat /\ WeightTo(q, w, Len(q)) \in Nat
      <4>1. Len(q) \in 0..Len(q)
        BY <3>1
      <4> QED
        BY <3>1, <3>2, <4>1, WeightsCount
    <3> QED
      BY <3>3, <3>5, <3>6, <3>7, <3>8
  <2>6. Gauge!SumFunction(known) = SumFunctionOnSet(known, Transcript)
        /\ Gauge!SpentOf(a) = SumFunctionOnSet(all, Transcript)
    <3>1. DOMAIN known = Transcript /\ DOMAIN all = Transcript
      OBVIOUS
    <3>2. Gauge!SpentOf(a) = Gauge!SumFunction(all)
      BY DEF Gauge!SpentOf
    <3> HIDE DEF known, all
    <3> QED
      BY <3>1, <3>2, GaugeSum DEF Gauge!SumFunction
  <2> HIDE DEF known, all
  <2>7. Counts(known, Transcript) /\ Counts(Had(got), Transcript) /\ Counts(all, Transcript)
    BY <2>5 DEF Counts
  <2>8. SumFunctionOnSet(known, Transcript) <= Found /\ Found <= SumFunctionOnSet(all, Transcript)
    <3>1. \A f \in Transcript : known[f] <= Had(got)[f]
      BY <2>5
    <3>2. \A f \in Transcript : Had(got)[f] <= all[f]
      BY <2>5
    <3>3. SumFunctionOnSet(known, Transcript) <= SumFunctionOnSet(Had(got), Transcript)
      BY <2>7, <3>1, GaugeConstants, SumMonotone
    <3>4. SumFunctionOnSet(Had(got), Transcript) <= SumFunctionOnSet(all, Transcript)
      BY <2>7, <3>2, GaugeConstants, SumMonotone
    <3> QED
      BY <2>4, <3>3, <3>4
  <2>9. SumFunctionOnSet(known, Transcript) \in Nat /\ SumFunctionOnSet(all, Transcript) \in Nat
    BY <2>7, GaugeConstants, SumNat
  <2>10. latest'.tokens = Found /\ Found \in Nat
    BY <2>1, FinishFacts
  <2> QED
    BY <2>6, <2>8, <2>9, <2>10
<1> QED
  BY FilesInductive, <1>1, PTL DEF FilesSpec, GaugeCounts, Gauge!GaugeCounts, gauge, Gauge!vars

\* The budget: over any events, in any order, the one pass with two pointers finds
\* the heaviest window there is (peak5h).
THEOREM PeakIsTrue == FilesSpec => PeakIsHeaviest
<1>1. FilesInv /\ [FilesNext]_allVars =>
        [Gauge!Finish =>
           Gauge!Peak5h(Gauge!Sorted(scan.events)) = Gauge!HeaviestWindow(scan.events)]_gauge
  BY GaugeState, HeaviestOfSorted DEF FilesInv
<1> QED
  BY FilesInductive, <1>1, PTL DEF FilesSpec, PeakIsHeaviest, Gauge!PeakIsHeaviest, gauge, Gauge!vars
=============================================================================
