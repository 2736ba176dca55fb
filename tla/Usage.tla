------------------------------- MODULE Usage -------------------------------
(***************************************************************************)
(* The usage gauge: every minute usage.Reader reads the transcripts that   *)
(* Claude Code keeps appending to, file by file, adds up the tokens of the *)
(* last five hours, and divides them by a budget, which is the heaviest    *)
(* five hours of the last week unless one is given.                        *)
(*                                                                         *)
(* Times are ages, which the clock lets grow.  A line leaves the model one *)
(* unit after the last scan that could count it.                           *)
(***************************************************************************)
EXTENDS Integers, Sequences, FiniteSetsExt

CONSTANTS File,     \* transcripts
          Token,    \* tokens a message may have cost
          Window,   \* 5 h
          History,  \* 7 days
          Interval, \* between two scans, 1 min
          Budget,   \* the explicit one, 0 for none
          Floor,    \* floorTokens
          MaxLines  \* bound: lines a file has in the model

\* What is assumed of the constants.
UsageAssumption ==
  /\ IsFiniteSet(File) /\ Token \subseteq Nat \ {0}
  /\ {Window, History, Interval, Floor} \subseteq Nat \ {0}
  /\ Window <= History /\ {Budget, MaxLines} \subseteq Nat

MaxAge == History + Interval + 1
Line   == [age : 0..MaxAge, tok : Token]

VARIABLES lines,  \* whole lines of each file
          part,   \* the line it ends in the middle of, if any
          mtime,  \* how long ago it was written, counted up to MaxAge
          wait,   \* until the ticker fires
          scan,   \* the scan in progress: its age, the files still to read and
                  \* the events found; and history: how many lines are new since
          latest  \* Stats

vars == <<lines, part, mtime, wait, scan, latest>>

NoScan == [age |-> -1, todo |-> {}, events |-> << >>, new |-> [f \in File |-> 0]]
Scanning == scan.age >= 0

Init ==
  /\ wait = 0 /\ scan = NoScan
  /\ lines = [f \in File |-> << >>] /\ part = [f \in File |-> << >>]
  /\ mtime = [f \in File |-> MaxAge]
  /\ latest = [tokens |-> 0, budget |-> 0, pct |-> 0]
-----------------------------------------------------------------------------
(* The clock, and Claude Code *)

Older(es) == [i \in DOMAIN es |-> [es[i] EXCEPT !.age = @ + 1]]

\* The lines of es that are in S, in their order.
Keeping(es, S) ==
  LET at[n \in 0..Len(es)] == IF n = 0 THEN << >>
                             ELSE IF es[n] \in S THEN Append(at[n - 1], es[n]) ELSE at[n - 1]
  IN  at[Len(es)]

\* A scan is over before the ticker fires again.
Tick ==
  /\ wait > 0 /\ wait' = wait - 1
  /\ lines' = [f \in File |-> Keeping(Older(lines[f]), Line)]
  /\ part' = [f \in File |-> Keeping(Older(part[f]), Line)]
  /\ mtime' = [f \in File |-> Min({MaxAge, mtime[f] + 1})]
  /\ scan' = IF Scanning THEN [scan EXCEPT !.age = @ + 1, !.events = Older(@)] ELSE scan
  /\ UNCHANGED latest

\* A line may be on disk in part while it is written.
StartLine(f) ==
  /\ part[f] = << >> /\ Len(lines[f]) < MaxLines
  /\ \E k \in Token : part' = [part EXCEPT ![f] = <<[age |-> 0, tok |-> k]>>]
  /\ mtime' = [mtime EXCEPT ![f] = 0]
  /\ UNCHANGED <<lines, wait, scan, latest>>

EndLine(f) ==
  /\ part[f] # << >> /\ part' = [part EXCEPT ![f] = << >>]
  /\ lines' = [lines EXCEPT ![f] = @ \o part[f]]
  /\ mtime' = [mtime EXCEPT ![f] = 0]
  /\ scan' = IF Scanning THEN [scan EXCEPT !.new[f] = @ + 1] ELSE scan
  /\ UNCHANGED <<wait, latest>>
-----------------------------------------------------------------------------
(* Refresh *)

TokensOf(es, I) == SumFunctionOnSet([i \in DOMAIN es |-> es[i].tok], I)
Within(es, age) == {i \in DOMAIN es : es[i].age <= age}

\* With a bug: events a whole window apart are not in it together.
FirstInOpen(es, left, right) == Min({l \in left..right : es[l].age - es[right].age < Window})

\* Where the inner loop of peak5h stops.
FirstIn(es, left, right) == Min({l \in left..right : es[l].age - es[right].age <= Window})

\* peak5h: two pointers over events in the order of time.
Peak5h(es) ==
  LET at[right \in 0..Len(es)] ==
        IF right = 0 THEN [left |-> 1, sum |-> 0, max |-> 0]
        ELSE LET was  == at[right - 1]
                 left == FirstIn(es, was.left, right)
                 sum  == was.sum + es[right].tok - TokensOf(es, was.left..(left - 1))
             IN  [left |-> left, sum |-> sum, max |-> Max({was.max, sum})]
  IN  at[Len(es)].max

Begin ==
  /\ ~Scanning /\ wait = 0 /\ wait' = Interval
  /\ scan' = [NoScan EXCEPT !.age = 0, !.todo = File]
  /\ UNCHANGED <<lines, part, mtime, latest>>

\* With a bug: a file goes by the age of its first line.
UntouchedSinceFirst(f) == lines[f] # << >> /\ lines[f][1].age > scan.age + History

\* collect skips what was not written in the week.
Untouched(f) == mtime[f] > scan.age + History

\* A line that is not whole does not parse, and is read whole the next time.
Recent(f) == IF Untouched(f) THEN << >>
             ELSE Keeping(lines[f], {e \in Line : e.age <= scan.age + History})

ReadFile(f) ==
  /\ f \in scan.todo
  /\ scan' = [scan EXCEPT !.todo = @ \ {f}, !.events = @ \o Recent(f)]
  /\ UNCHANGED <<lines, part, mtime, wait, latest>>

Current(es) == TokensOf(es, Within(es, scan.age + Window))

Divisor(es) == IF Budget > 0 THEN Budget ELSE Max({Peak5h(es), Floor})

Pct(tokens, budget) == Min({100, (100 * tokens + budget \div 2) \div budget})

\* In the order of time; events of one time come in any order.
Sorted(es) ==
  LET order == CHOOSE p \in Bijection(DOMAIN es, DOMAIN es) :
                 \A i, j \in DOMAIN es : i < j => es[p[i]].age >= es[p[j]].age
  IN  [i \in DOMAIN es |-> es[order[i]]]

Finish ==
  /\ Scanning /\ scan.todo = {} /\ scan' = NoScan
  /\ LET es == Sorted(scan.events)
     IN  latest' = [tokens |-> Current(es), budget |-> Divisor(es),
                    pct |-> Pct(Current(es), Divisor(es))]
  /\ UNCHANGED <<lines, part, mtime, wait>>

Next ==
  \/ Tick \/ \E f \in File : StartLine(f) \/ EndLine(f) \/ ReadFile(f)
  \/ Begin \/ Finish

Spec == Init /\ [][Next]_vars
-----------------------------------------------------------------------------
\* Type invariant; the gauge is a percentage.
TypeOK ==
  /\ lines \in [File -> Seq(Line)] /\ \A f \in File : Len(lines[f]) <= MaxLines
  /\ \A f \in File : part[f] = << >> \/ part[f][1] \in Line
  /\ mtime \in [File -> 0..MaxAge] /\ wait \in 0..Interval
  /\ scan.age \in -1..Interval /\ scan.todo \subseteq File
  /\ scan.events \in Seq(Line) /\ scan.new \in [File -> Nat]
  /\ latest.tokens \in Nat /\ latest.budget \in Nat /\ latest.pct \in 0..100

\* The tokens among the first n lines of file f that are not older.
Spent(f, age, n) == TokensOf(lines[f], Within(lines[f], age) \cap 1..n)
SpentOf(age) == SumFunction([f \in File |-> Spent(f, age, Len(lines[f]))])

\* What was there when a scan began is in the gauge it ends with, and counted
\* once; what is written meanwhile may be; nothing older than the window is.
GaugeCounts ==
  [][Finish =>
       LET known == [f \in File |-> Spent(f, scan.age + Window, Len(lines[f]) - scan.new[f])]
       IN  latest'.tokens \in SumFunction(known)..SpentOf(scan.age + Window)]_vars

\* "The largest sum of tokens over any trailing 5h window": the two pointers find
\* what trying every window finds.
HeaviestWindow(es) ==
  Max({TokensOf(es, Within(es, a + Window) \ Within(es, a - 1)) : a \in 0..MaxAge})
PeakIsHeaviest ==
  [][Finish => Peak5h(Sorted(scan.events)) = HeaviestWindow(scan.events)]_vars
=============================================================================
