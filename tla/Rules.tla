-------------------------------- MODULE Rules --------------------------------
(***************************************************************************)
(* rules.Store: the grants in memory and the JSON file that carries them   *)
(* over a restart.  save writes a temporary file and renames it over the   *)
(* old one; either call may fail, and the process may die between them.    *)
(* The caller holds the mutex until save returns, so nothing else touches  *)
(* the store in the meantime.                                              *)
(***************************************************************************)
EXTENDS Grants

VARIABLES up,      \* the daemon runs
          set,     \* the grants in memory
          saving,  \* where save is: "no", "write" or "rename"
          tmp,     \* contents of the temporary file
          file,    \* contents of the rules file
          stale,   \* history: a save has failed since the last that worked
          word,    \* history: the grants the user gave and has not lost since
          kept     \* history: those of word that a save has put on disk

code    == <<up, set, saving, tmp, file>>
history == <<stale, word, kept>>
vars    == <<up, set, saving, tmp, file, stale, word, kept>>

\* A file as it is read back: whole, or written in part so that it does not
\* parse.
Contents == [whole : BOOLEAN, grants : SUBSET Grant]
Whole(grants) == [whole |-> TRUE, grants |-> grants]
Torn == [whole |-> FALSE, grants |-> {}]

\* Load starts empty from a file that is absent or does not parse.
Load(contents) == IF contents.whole THEN contents.grants ELSE {}

Init ==
  /\ up = TRUE /\ saving = "no"
  /\ set = {} /\ tmp = Whole({}) /\ file = Whole({})
  /\ stale = FALSE /\ word = {} /\ kept = {}

Idle == up /\ saving = "no"
-----------------------------------------------------------------------------
Allow(s, c) ==
  LET g == [session |-> s, call |-> c]
  IN  /\ Idle
      /\ g \notin set
      /\ set' = set \cup {g}
      /\ saving' = "write"
      /\ word' = word \cup {g}
      /\ UNCHANGED <<up, tmp, file, stale, kept>>

\* Variants of Forget with a bug: nothing is saved; every session is forgotten.
ForgetUnsaved(s) ==
  /\ Idle
  /\ GrantsOf(set, s) # {}
  /\ set' = set \ GrantsOf(set, s)
  /\ word' = word \ GrantsOf(word, s)
  /\ kept' = kept \ GrantsOf(kept, s)
  /\ UNCHANGED <<up, saving, tmp, file, stale>>

ForgetEveryone(s) ==
  /\ Idle
  /\ GrantsOf(set, s) # {}
  /\ set' = {}
  /\ saving' = "write"
  /\ word' = word \ GrantsOf(word, s)
  /\ kept' = kept \ GrantsOf(kept, s)
  /\ UNCHANGED <<up, tmp, file, stale>>

\* A session that has no grants is forgotten without a save.
Forget(s) ==
  /\ Idle
  /\ GrantsOf(set, s) # {}
  /\ set' = set \ GrantsOf(set, s)
  /\ saving' = "write"
  /\ word' = word \ GrantsOf(word, s)
  /\ kept' = kept \ GrantsOf(kept, s)
  /\ UNCHANGED <<up, tmp, file, stale>>

\* save, first half: the directory and the temporary file.
WriteTmp ==
  /\ up /\ saving = "write"
  /\ tmp' = Whole(set)
  /\ saving' = "rename"
  /\ UNCHANGED <<up, set, file, history>>

\* With a bug: save writes the rules file itself.
WriteInPlaceFails ==
  /\ up /\ saving = "write"
  /\ file' \in {file, Torn}
  /\ saving' = "no"
  /\ stale' = TRUE
  /\ UNCHANGED <<up, set, tmp, word, kept>>

WriteTmpFails ==
  /\ up /\ saving = "write"
  /\ tmp' \in {tmp, Torn}
  /\ saving' = "no"
  /\ stale' = TRUE
  /\ UNCHANGED <<up, set, file, word, kept>>

\* save, second half: the atomic replacement of the rules file.
Rename ==
  /\ up /\ saving = "rename"
  /\ file' = tmp
  /\ saving' = "no"
  /\ stale' = FALSE
  /\ kept' = word \cap tmp.grants
  /\ UNCHANGED <<up, set, tmp, word>>

RenameFails ==
  /\ up /\ saving = "rename"
  /\ saving' = "no"
  /\ stale' = TRUE
  /\ UNCHANGED <<up, set, tmp, file, word, kept>>

\* The process dies, in the middle of a write or not.
Crash ==
  /\ up
  /\ up' = FALSE
  /\ set' = {}
  /\ saving' = "no"
  /\ tmp' \in IF saving = "write" THEN {tmp, Whole(set), Torn} ELSE {tmp}
  /\ UNCHANGED <<file, history>>

\* daemon.New loads the file; what it does not hold is not remembered.
Restart ==
  /\ ~up
  /\ up' = TRUE
  /\ set' = Load(file)
  /\ word' = word \cap Load(file)
  /\ stale' = FALSE
  /\ UNCHANGED <<saving, tmp, file, kept>>

Next ==
  \/ \E s \in Sid, c \in Call : Allow(s, c)
  \/ \E s \in Sid : Forget(s)
  \/ WriteTmp \/ WriteTmpFails \/ Rename \/ RenameFails
  \/ Crash \/ Restart

Spec == Init /\ [][Next]_vars
-----------------------------------------------------------------------------
\* Type invariant; the rules file is never left half written.
TypeOK ==
  /\ up \in BOOLEAN /\ stale \in BOOLEAN
  /\ saving \in {"no", "write", "rename"}
  /\ set \in SUBSET Grant /\ word \in SUBSET Grant /\ kept \in SUBSET Grant
  /\ tmp \in Contents
  /\ file \in Contents /\ file.whole

\* Between saves, unless one has failed, the file says what memory says.
FileTracksMemory == Idle /\ ~stale => file.grants = set

\* "Grants ... survive a daemon restart": one that a save has put on disk is
\* remembered ever after, whatever saves fail or crashes follow, until its
\* session is forgotten.
KeptGrantsAreRemembered == up => kept \subseteq set

\* A grant leaves the file only after memory has lost it to a Forget, never by
\* a failed or an interrupted save of something else.
FileLosesOnlyTheForgotten ==
  [][\A g \in file.grants \ file.grants' : g \notin word /\ g \notin set]_vars

\* "The same call auto-approves next time": what the user has always allowed,
\* and the store has not lost, is allowed again in that session and in no
\* other; a Bash command with any further words too, another tool's call only
\* as it was.  (A Bash grant without a word allows nothing.)  Tried on every
\* command that joins two of the known ones.
Repeats(c, granted) ==
  \/ c = granted /\ (c.tool = "Bash" => c.words # << >>)
  \/ /\ c.tool = "Bash" /\ granted.tool = "Bash"
     /\ \E n \in 1 .. Len(c.words) : SubSeq(c.words, 1, n) = granted.words

GrantedCallsPass ==
  up => \A s \in Sid, v, w \in Call :
    LET c == [v EXCEPT !.words = @ \o w.words]
    IN  AllowedBy(set, s, c) <=> \E g \in set : g.session = s /\ Repeats(c, g.call)
=============================================================================
