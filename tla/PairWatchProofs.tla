-------------------------- MODULE PairWatchProofs --------------------------
(***************************************************************************)
(* What holds of one side of a pair for every length of the grace, the dead *)
(* window and the deadlines of the ladder, however often others rebuild and *)
(* forwarders are tried: the types, that a rest always ends, and that no     *)
(* connection is judged by the silence of another.                           *)
(***************************************************************************)
EXTENDS PairWatch, TLAPS

Routes == [tier : {"direct", "forwarder", "turn"}, connected : BOOLEAN, exhausted : BOOLEAN]
Steps == {"healthy", "restarting", "rebuilding", "resting"}
Ladders == [step : Steps, since : 0..Longest, rebuilds : SUBSET (0..Window)]
Controls == [suspended : BOOLEAN, selfRebuild : BOOLEAN, rest : BOOLEAN, ladder : Steps]

\* TypeOK with the records spelled out.
Typed ==
  /\ route \in Routes
  /\ forwarding \in {"off", "trying", "up"}
  /\ link \in {"none", "opening", "open", "up"} /\ media \in {"flows", "silent", "idle"}
  /\ moved \in BOOLEAN /\ queued \in BOOLEAN /\ deadIn \in 0..Fresh /\ age \in 0..Longest
  /\ ladder \in Ladders /\ control \in Controls
  /\ control.suspended <=> forwarding = "up"
  /\ control.suspended => link = "none" /\ ~control.rest
  /\ others \in 0..MaxOthers /\ forwarders \in 0..MaxForwarders

Watched == link \in {"open", "up"}

\* The ladder of a peer that has not started has taken no step.
OpeningIsHealthy == link = "opening" => ladder.step = "healthy"

\* Only a peer that is there has a queue.
QueueOfThePeer == queued => Watched

RestArmed == Watched /\ ladder.step = "resting" => control.rest

\* What is missing to the grace and the dead window, the connection was there for.
OwnSilence == ~moved => age + deadIn >= Fresh

IInv == Typed /\ OpeningIsHealthy /\ QueueOfThePeer /\ RestArmed /\ OwnSilence

-----------------------------------------------------------------------------
(* Lemmas about the operators *)

\* The largest of the deadlines is one of them.
LEMMA LongestIsNat == Longest \in Nat /\ Fresh \in Nat /\ Fresh <= Longest
<1> DEFINE S == {RestartFor[t] : t \in {"direct", "turn"}} \union {RebuildFor[t] : t \in {"direct", "turn"}} \union {Grace + Dead + 1}
<1>1. /\ Grace \in Nat /\ Dead \in Nat
      /\ RestartFor["direct"] \in Nat /\ RestartFor["turn"] \in Nat
      /\ RebuildFor["direct"] \in Nat /\ RebuildFor["turn"] \in Nat
  BY PairWatchAssumption
<1>2. S = {RestartFor["direct"], RestartFor["turn"], RebuildFor["direct"], RebuildFor["turn"], Grace + Dead + 1}
  OBVIOUS
<1> HIDE DEF S
<1>3. S \subseteq Nat /\ Grace + Dead + 1 \in S
  BY <1>1, <1>2
<1>4. \E x \in S : \A y \in S : x >= y
  <2> DEFINE a == RestartFor["direct"]
             b == RestartFor["turn"]
             c == RebuildFor["direct"]
             d == RebuildFor["turn"]
             e == Grace + Dead + 1
             Bigger(x, y) == IF x >= y THEN x ELSE y
  <2>1. a \in Nat /\ b \in Nat /\ c \in Nat /\ d \in Nat /\ e \in Nat /\ S = {a, b, c, d, e}
    BY <1>1, <1>2
  <2> HIDE DEF a, b, c, d, e
  <2>2. Bigger(a, Bigger(b, Bigger(c, Bigger(d, e)))) \in S
    BY <2>1
  <2>3. \A y \in S : Bigger(a, Bigger(b, Bigger(c, Bigger(d, e)))) >= y
    BY <2>1
  <2> QED BY <2>2, <2>3
<1>5. Longest = Max(S)
  BY DEF Longest, S
<1>6. Longest \in S /\ \A y \in S : Longest >= y
  BY <1>4, <1>5 DEF Max
<1> QED BY <1>1, <1>3, <1>6 DEF Fresh

\* A count of samples stays within its bound, and goes up until it is there.
LEMMA AgedIsBounded ==
  ASSUME NEW n \in 0..Longest
  PROVE  Aged(n) \in 0..Longest /\ (Aged(n) = n + 1 \/ (Aged(n) = Longest /\ n = Longest))
BY LongestIsNat DEF Aged

\* Another step of the ladder.
LEMMA WithStep ==
  ASSUME NEW l \in Ladders, NEW s \in Steps
  PROVE  /\ [l EXCEPT !.step = s, !.since = 0] = [step |-> s, since |-> 0, rebuilds |-> l.rebuilds]
         /\ l.rebuilds \subseteq 0..Window
<1>1. PICK a \in Steps, b \in 0..Longest, R \in SUBSET (0..Window) :
        l = [step |-> a, since |-> b, rebuilds |-> R]
  BY DEF Ladders
<1> DEFINE m == [l EXCEPT !.step = s]
<1>2. m = [step |-> s, since |-> b, rebuilds |-> R]
  BY <1>1
<1> HIDE DEF m
<1>3. [m EXCEPT !.since = 0] = [step |-> s, since |-> 0, rebuilds |-> R]
  BY <1>2
<1> USE DEF m
<1> QED BY <1>1, <1>3

\* What the ladder is after a sample has the type it had, and its step.
LEMMA OlderIsLadder ==
  ASSUME ladder \in Ladders
  PROVE  /\ Older \in Ladders /\ Older.step = ladder.step
         /\ \A s \in Steps : Stepped(s) \in Ladders /\ Stepped(s).step = s
         /\ \A s \in Steps : [Stepped(s) EXCEPT !.rebuilds = @ \union {0}] \in Ladders
<1> DEFINE R == {n + 1 : n \in {m \in ladder.rebuilds : m + 1 < Window}}
           a == Aged(ladder.since)
<1>1. ladder = [step |-> ladder.step, since |-> ladder.since, rebuilds |-> ladder.rebuilds]
      /\ ladder.step \in Steps /\ ladder.since \in 0..Longest /\ ladder.rebuilds \subseteq 0..Window
  BY DEF Ladders
<1>2. a \in 0..Longest /\ 0 \in 0..Longest
  BY <1>1, AgedIsBounded, LongestIsNat
<1>3. R \subseteq 0..Window /\ 0 \in 0..Window
  BY <1>1, PairWatchAssumption
<1>4. Older = [step |-> ladder.step, since |-> a, rebuilds |-> R]
  <2>1. Older = [ladder EXCEPT !.since = a, !.rebuilds = R]
    BY DEF Older
  <2> HIDE DEF a, R
  <2> QED BY <1>1, <2>1 DEF Ladders
<1>5. ASSUME NEW s \in Steps
      PROVE  Stepped(s) = [step |-> s, since |-> 0, rebuilds |-> R]
  <2> HIDE DEF a, R
  <2>1. Older \in Ladders /\ Older.rebuilds = R
    BY <1>1, <1>2, <1>3, <1>4 DEF Ladders
  <2> QED BY <2>1, WithStep DEF Stepped
<1> HIDE DEF a, R
<1> QED BY <1>1, <1>2, <1>3, <1>4, <1>5 DEF Ladders

\* A ladder that starts again remembers its rebuilds.
LEMMA ResetIsLadder ==
  ASSUME NEW l \in Ladders
  PROVE  Reset(l) \in Ladders /\ Reset(l).step = "healthy"
<1>1. "healthy" \in Steps
  BY DEF Steps
<1>2. Reset(l) = [step |-> "healthy", since |-> 0, rebuilds |-> l.rebuilds] /\ l.rebuilds \subseteq 0..Window
  BY <1>1, WithStep DEF Reset
<1> QED BY <1>1, <1>2, LongestIsNat DEF Ladders

\* The controller after each call.
LEMMA ControlAfter ==
  ASSUME NEW c \in Controls
  PROVE  /\ Exhausted(c) \in Controls /\ Exhausted(c).suspended = c.suspended
         /\ ~c.suspended => Exhausted(c).rest = TRUE
         /\ Resumed(c) \in Controls /\ Resumed(c).suspended = FALSE /\ Resumed(c).rest = c.rest
         /\ \A l \in Ladders :
              /\ Shown(c, l) \in Controls /\ Shown(c, l).suspended = c.suspended
              /\ Shown(c, l).rest = c.rest
BY DEF Controls, Exhausted, Resumed, Shown, Ladders, Steps

\* Silence is counted down to nothing, by at most one a sample; what arrives
\* leaves the dead window.
LEMMA DeadInIsBounded ==
  ASSUME deadIn \in 0..Fresh
  PROVE  /\ NextDeadIn \in 0..Fresh
         /\ NextDeadIn >= deadIn - 1 \/ (NextDeadIn = Dead /\ deadIn <= Dead + 1)
BY PairWatchAssumption DEF NextDeadIn, Fresh

\* What the actions write into it.
LEMMA ControlWith ==
  ASSUME NEW c \in Controls
  PROVE  /\ \A b \in BOOLEAN :
              /\ [c EXCEPT !.selfRebuild = b] \in Controls
              /\ [c EXCEPT !.selfRebuild = b].suspended = c.suspended /\ [c EXCEPT !.selfRebuild = b].rest = c.rest
         /\ [c EXCEPT !.ladder = "healthy"] \in Controls
         /\ [c EXCEPT !.ladder = "healthy"].suspended = c.suspended /\ [c EXCEPT !.ladder = "healthy"].rest = c.rest
BY DEF Controls, Steps

LEMMA ControlWithoutRest ==
  ASSUME NEW c \in Controls
  PROVE  /\ [c EXCEPT !.rest = FALSE, !.ladder = "healthy"] \in Controls
         /\ [c EXCEPT !.rest = FALSE, !.ladder = "healthy"].suspended = c.suspended
         /\ [c EXCEPT !.rest = FALSE, !.selfRebuild = FALSE, !.ladder = "healthy"] \in Controls
         /\ [c EXCEPT !.rest = FALSE, !.selfRebuild = FALSE, !.ladder = "healthy"].suspended = c.suspended
         /\ [c EXCEPT !.suspended = TRUE, !.rest = FALSE] \in Controls
         /\ [c EXCEPT !.suspended = TRUE, !.rest = FALSE].suspended = TRUE
         /\ [c EXCEPT !.suspended = TRUE, !.rest = FALSE].rest = FALSE
         /\ [c EXCEPT !.rest = FALSE, !.ladder = "healthy"].rest = FALSE
         /\ [c EXCEPT !.rest = FALSE, !.selfRebuild = FALSE, !.ladder = "healthy"].rest = FALSE
BY DEF Controls, Steps

\* The route after each step of the pair.
LEMMA RouteWith ==
  ASSUME route \in Routes
  PROVE  /\ \A t \in {"direct", "forwarder", "turn"} : OnRung(t) \in Routes
         /\ \A b \in BOOLEAN : [route EXCEPT !.connected = b] \in Routes
         /\ [route EXCEPT !.connected = FALSE, !.exhausted = TRUE] \in Routes /\ Top \in Routes
BY DEF Routes, Top, OnRung

\* A new peer: it opens, with a ladder that starts again.
LEMMA AttachedLeaves ==
  ASSUME NEW l \in Ladders, NEW c \in Controls, Attached(l, c)
  PROVE  /\ link' = "opening" /\ moved' = FALSE /\ queued' = FALSE /\ deadIn' = Fresh
         /\ ladder' \in Ladders /\ ladder'.step = "healthy"
         /\ control' \in Controls /\ control'.suspended = c.suspended /\ control'.rest = c.rest
BY ResetIsLadder, ControlWith DEF Attached

\* The direct connections come back: the pair is watched again, or a new peer opens.
LEMMA ReopenedLeaves ==
  ASSUME IInv, Reopened
  PROVE  /\ link' \in {"none", "opening", "open", "up"} /\ moved' \in BOOLEAN /\ queued' \in BOOLEAN
         /\ deadIn' \in 0..Fresh /\ ladder' \in Ladders
         /\ control' \in Controls /\ control'.suspended = FALSE
         /\ (OpeningIsHealthy /\ QueueOfThePeer /\ RestArmed)'
         /\ (link' = "opening" /\ deadIn' = Fresh) \/ UNCHANGED <<link, moved, deadIn>>
<1>1. /\ link \in {"none", "opening", "open", "up"} /\ moved \in BOOLEAN /\ queued \in BOOLEAN
      /\ deadIn \in 0..Fresh /\ ladder \in Ladders /\ control \in Controls
      /\ Fresh \in 0..Fresh
  BY LongestIsNat DEF IInv, Typed
<1>2. CASE Attached(ladder, Resumed(control))
  BY <1>1, <1>2, ControlAfter, AttachedLeaves DEF OpeningIsHealthy, QueueOfThePeer, RestArmed, Watched
<1>3. CASE control' = Resumed(control) /\ UNCHANGED <<link, moved, queued, deadIn, ladder>>
  <2>1. control' \in Controls /\ control'.suspended = FALSE /\ control'.rest = control.rest
    BY <1>1, <1>3, ControlAfter
  <2> QED BY <1>1, <1>3, <2>1 DEF IInv, OpeningIsHealthy, QueueOfThePeer, RestArmed, Watched
<1> QED BY <1>2, <1>3 DEF Reopened

\* A sample that is judged: only the ladder and the count are left changed.
LEMMA JudgedLeaves ==
  ASSUME deadIn \in 0..Fresh, NEW l \in Ladders, NEW c \in Controls, Judged(l, c)
  PROVE  /\ ladder' = l /\ deadIn' = NextDeadIn /\ deadIn' \in 0..Fresh
         /\ control' \in Controls /\ control'.suspended = c.suspended /\ control'.rest = c.rest
         /\ UNCHANGED <<route, link, moved>>
BY ControlAfter, DeadInIsBounded DEF Judged

\* One sample taken of a connection that is watched, whatever comes of it.
LEMMA SampleLeaves ==
  ASSUME IInv, Sampling,
         AnotherGeneration \/ NothingWrong \/ NotYet \/ RestartIce \/ RebuildAgain \/ NextTier
  PROVE  /\ route' \in Routes /\ link' \in {"opening", "open", "up"}
         /\ moved' \in BOOLEAN /\ queued' \in BOOLEAN /\ deadIn' \in 0..Fresh
         /\ ladder' \in Ladders /\ control' \in Controls /\ ~control'.suspended
         /\ (OpeningIsHealthy /\ QueueOfThePeer /\ RestArmed)'
         /\ deadIn' = Fresh \/ (~moved /\ ~moved' /\ deadIn' = NextDeadIn)
<1>1. Typed /\ Watched /\ ~control.suspended /\ (ladder.step = "resting" => control.rest)
  BY DEF IInv, Typed, RestArmed, Watched, Sampling
<1>2. /\ ladder \in Ladders /\ control \in Controls /\ deadIn \in 0..Fresh
      /\ route \in Routes /\ link \in {"open", "up"} /\ queued \in BOOLEAN /\ moved \in BOOLEAN
  BY <1>1 DEF Typed, Watched
<1>3. Fresh \in 0..Fresh
  BY LongestIsNat
<1> USE DEF OpeningIsHealthy, QueueOfThePeer, RestArmed, Watched
<1>a. CASE AnotherGeneration
  <2>1. /\ moved' = FALSE /\ deadIn' = Fresh /\ UNCHANGED <<route, link, queued>>
    BY <1>a DEF AnotherGeneration
  <2>2. /\ control' \in Controls /\ control'.suspended = control.suspended /\ control'.rest = control.rest
    BY <1>a, <1>2, ControlWith DEF AnotherGeneration
  <2>3. ladder' \in Ladders /\ ladder'.step \in {ladder.step, "healthy"}
    BY <1>a, <1>2, OlderIsLadder, ResetIsLadder DEF AnotherGeneration
  <2> QED BY <1>1, <1>2, <1>3, <2>1, <2>2, <2>3
<1>b. CASE NothingWrong
  <2> DEFINE l == IF Arriving /\ ladder.step # "healthy" THEN Stepped("healthy") ELSE Older
  <2>1. l \in Ladders /\ l.step \in {ladder.step, "healthy"}
    BY <1>2, OlderIsLadder DEF Steps
  <2>2. Judged(l, control) /\ ~moved /\ UNCHANGED queued
    BY <1>b DEF NothingWrong
  <2> HIDE DEF l
  <2> QED BY <1>1, <1>2, <2>1, <2>2, JudgedLeaves
<1>c. CASE NotYet
  <2>1. Judged(Older, control) /\ ~moved /\ UNCHANGED queued
    BY <1>c DEF NotYet
  <2> QED BY <1>1, <1>2, <2>1, OlderIsLadder, JudgedLeaves
<1>d. CASE RestartIce
  <2>1. Judged(Stepped("restarting"), control) /\ ~moved /\ UNCHANGED queued
    BY <1>d DEF RestartIce
  <2>2. Stepped("restarting") \in Ladders /\ Stepped("restarting").step = "restarting"
    BY <1>2, OlderIsLadder DEF Steps
  <2> QED BY <1>1, <1>2, <2>1, <2>2, JudgedLeaves
<1>e. CASE RebuildAgain
  <2>1. CASE /\ Judged([Stepped("rebuilding") EXCEPT !.rebuilds = @ \union {0}], [control EXCEPT !.selfRebuild = TRUE])
             /\ ~moved /\ queued' = TRUE
    <3> DEFINE l == [Stepped("rebuilding") EXCEPT !.rebuilds = @ \union {0}]
    <3>1. l \in Ladders /\ l.step = "rebuilding"
      BY <1>2, OlderIsLadder DEF Steps, Ladders
    <3>2. Judged(l, [control EXCEPT !.selfRebuild = TRUE])
      BY <2>1
    <3> HIDE DEF l
    <3> QED BY <1>1, <1>2, <2>1, <3>1, <3>2, ControlWith, JudgedLeaves
  <2>2. CASE Judged(Stepped("resting"), Exhausted(control)) /\ ~moved /\ UNCHANGED queued
    <3>1. Stepped("resting") \in Ladders
      BY <1>2, OlderIsLadder DEF Steps
    <3>2. /\ Exhausted(control) \in Controls /\ ~Exhausted(control).suspended
          /\ Exhausted(control).rest = TRUE
      BY <1>1, <1>2, ControlAfter
    <3>3. /\ deadIn' = NextDeadIn /\ deadIn' \in 0..Fresh
          /\ control' \in Controls /\ ~control'.suspended /\ control'.rest = TRUE
          /\ UNCHANGED <<route, link, moved>>
      BY <1>2, <2>2, <3>1, <3>2, JudgedLeaves
    <3> QED BY <1>1, <1>2, <2>2, <3>1, <3>3 DEF Judged
  <2> QED BY <1>e, <2>1, <2>2 DEF RebuildAgain
<1>f. CASE NextTier
  <2>1. CASE /\ ~moved /\ route' = OnRung("turn")
             /\ Attached(Older, [control EXCEPT !.ladder = "healthy"])
    BY <1>1, <1>2, <1>3, <2>1, OlderIsLadder, ControlWith, AttachedLeaves, RouteWith
  <2>2. CASE ~moved /\ Judged(Stepped("resting"), Exhausted(control)) /\ UNCHANGED queued
    <3>1. Stepped("resting") \in Ladders
      BY <1>2, OlderIsLadder DEF Steps
    <3>2. /\ Exhausted(control) \in Controls /\ ~Exhausted(control).suspended
          /\ Exhausted(control).rest = TRUE
      BY <1>1, <1>2, ControlAfter
    <3>3. /\ deadIn' = NextDeadIn /\ deadIn' \in 0..Fresh
          /\ control' \in Controls /\ ~control'.suspended /\ control'.rest = TRUE
          /\ UNCHANGED <<route, link, moved>>
      BY <1>2, <2>2, <3>1, <3>2, JudgedLeaves
    <3> QED BY <1>1, <1>2, <2>2, <3>1, <3>3 DEF Judged
  <2> QED BY <1>f, <2>1, <2>2 DEF NextTier
<1> QED BY <1>a, <1>b, <1>c, <1>d, <1>e, <1>f

-----------------------------------------------------------------------------
(* The invariant *)

LEMMA Initially == Init => IInv
<1> SUFFICES ASSUME Init PROVE IInv
  OBVIOUS
<1>1. /\ 0 \in 0..Longest /\ Fresh \in 0..Fresh /\ 0 \in 0..MaxOthers /\ 0 \in 0..MaxForwarders
      /\ 0 + Fresh >= Fresh
  BY LongestIsNat, PairWatchAssumption
<1>2. route \in Routes /\ control \in Controls
  BY DEF Init, Top, Routes, Controls, Steps
<1>3. ladder \in Ladders
  BY <1>1 DEF Init, Ladders, Steps
<1>4. Typed
  BY <1>1, <1>2, <1>3 DEF Init, Typed
<1> QED BY <1>1, <1>4 DEF Init, IInv, OpeningIsHealthy, QueueOfThePeer, RestArmed, Watched, OwnSilence

\* A sample more to the connection makes up for one less to the deadline.
LEMMA SilenceCounted ==
  ASSUME NEW a \in 0..Longest, NEW b \in 0..Longest, NEW d \in 0..Fresh, NEW e \in 0..Fresh,
         b = a + 1 \/ b = Longest,
         a + d >= Fresh,
         e >= d - 1 \/ (e = Dead /\ d <= Dead + 1)
  PROVE  b + e >= Fresh
BY LongestIsNat, PairWatchAssumption DEF Fresh

LEMMA SilenceAhead ==
  ASSUME NEW a \in 0..Longest, NEW b \in 0..Longest, NEW d \in 0..Fresh
  PROVE  /\ a + Fresh >= Fresh
         /\ (a + d >= Fresh /\ (b = a + 1 \/ b = Longest)) => b + d >= Fresh
BY LongestIsNat

LEMMA TickKeeps == IInv /\ Tick => IInv'
<1> SUFFICES ASSUME IInv, Tick PROVE IInv'
  OBVIOUS
<1>1. age' \in 0..Longest /\ (age' = age + 1 \/ age' = Longest)
  BY AgedIsBounded DEF Tick, IInv, Typed
<1>2. UNCHANGED <<forwarding, media, others, forwarders>>
  BY DEF Tick
<1>3. CASE Sampling /\ (AnotherGeneration \/ NothingWrong \/ NotYet \/ RestartIce \/ RebuildAgain \/ NextTier)
  <2>1. /\ route' \in Routes /\ link' \in {"opening", "open", "up"}
        /\ moved' \in BOOLEAN /\ queued' \in BOOLEAN /\ deadIn' \in 0..Fresh
        /\ ladder' \in Ladders /\ control' \in Controls /\ ~control'.suspended
        /\ (OpeningIsHealthy /\ QueueOfThePeer /\ RestArmed)'
        /\ deadIn' = Fresh \/ (~moved /\ ~moved' /\ deadIn' = NextDeadIn)
    BY <1>3, SampleLeaves
  <2>2. Typed'
    BY <1>1, <1>2, <1>3, <2>1 DEF IInv, Typed, Sampling
  <2>3. OwnSilence'
    <3>1. deadIn' \in 0..Fresh /\ deadIn \in 0..Fresh /\ age \in 0..Longest /\ age' \in 0..Longest
      BY <1>1, <2>1 DEF IInv, Typed
    <3>2. CASE ~moved /\ deadIn' = NextDeadIn
      <4>1. age + deadIn >= Fresh
        BY <3>2 DEF IInv, OwnSilence
      <4>2. deadIn' >= deadIn - 1 \/ (deadIn' = Dead /\ deadIn <= Dead + 1)
        BY <3>1, <3>2, DeadInIsBounded
      <4> QED BY <1>1, <3>1, <4>1, <4>2, SilenceCounted DEF OwnSilence
    <3> QED BY <2>1, <3>1, <3>2, SilenceAhead DEF OwnSilence
  <2> QED BY <2>1, <2>2, <2>3 DEF IInv
<1>4. CASE ~Sampling /\ ladder' = Older /\ UNCHANGED <<route, link, moved, queued, deadIn, control>>
  <2>1. ladder' \in Ladders /\ ladder'.step = ladder.step
    BY <1>4, OlderIsLadder DEF IInv, Typed
  <2>2. OwnSilence'
    BY <1>1, <1>4, SilenceAhead DEF IInv, Typed, OwnSilence
  <2> QED BY <1>1, <1>2, <1>4, <2>1, <2>2
          DEF IInv, Typed, OpeningIsHealthy, QueueOfThePeer, RestArmed, Watched
<1> QED BY <1>3, <1>4 DEF Tick

\* Every step keeps what holds of the pair.
LEMMA Inductive == IInv /\ [Next]_vars => IInv'
<1> SUFFICES ASSUME IInv, [Next]_vars PROVE IInv'
  OBVIOUS
<1>1. /\ Typed /\ ladder \in Ladders /\ control \in Controls /\ route \in Routes
      /\ Fresh \in Nat /\ 0 \in 0..Longest /\ Fresh \in 0..Fresh
      /\ MaxOthers \in Nat /\ MaxForwarders \in Nat
      /\ age \in 0..Longest /\ \A a \in 0..Longest : a + Fresh >= Fresh
  BY LongestIsNat, PairWatchAssumption, SilenceAhead DEF IInv, Typed
<1> USE <1>1 DEF IInv, OpeningIsHealthy, QueueOfThePeer, RestArmed, Watched, OwnSilence
<1>2. CASE Start
  BY <1>2 DEF Start, Replaced, Typed
<1>3. CASE Rebuild
  BY <1>3 DEF Rebuild, Replaced, Typed
<1>4. CASE OtherRebuild
  BY <1>4 DEF OtherRebuild, Replaced, Typed
<1>5. CASE Connect
  BY <1>5, ResetIsLadder, ControlWithoutRest, RouteWith DEF Connect, Typed
<1>6. CASE Disconnect
  BY <1>6 DEF Disconnect, Typed
<1>7. CASE FailToForwarder
  <2>1. route' \in Routes
    BY <1>7, RouteWith DEF FailToForwarder
  <2>2. forwarders' \in 0..MaxForwarders
    BY <1>7 DEF FailToForwarder, Typed
  <2>3. ~control.suspended
    BY <1>7 DEF FailToForwarder, Typed
  <2> QED BY <1>7, <2>1, <2>2, <2>3 DEF FailToForwarder, Detached, Typed
<1>8. CASE FailToTurn
  <2>1. route' \in Routes
    BY <1>8, RouteWith DEF FailToTurn
  <2> QED BY <1>8, <2>1, AttachedLeaves DEF FailToTurn, Typed
<1>9. CASE FailOnTurn
  <2>1. route' \in Routes
    BY <1>9, RouteWith DEF FailOnTurn
  <2>2. control' \in Controls /\ control'.suspended = control.suspended
    BY <1>9, ControlAfter DEF FailOnTurn, Detached
  <2>3. ~control.suspended
    BY <1>9 DEF FailOnTurn, Typed
  <2> QED BY <1>9, <2>1, <2>2, <2>3 DEF FailOnTurn, Detached, Typed
<1>10. CASE Media
  BY <1>10 DEF Media, Typed
<1>11. CASE Tick
  BY <1>11, TickKeeps
<1>12. CASE RestOver
  <2>1. control.rest /\ ~control.suspended
    BY <1>12 DEF RestOver, Typed
  <2>2. route' \in Routes
    BY <1>12, RouteWith DEF RestOver
  <2>3. /\ link' = "opening" /\ moved' = FALSE /\ queued' = FALSE /\ deadIn' = Fresh
        /\ ladder' \in Ladders /\ ladder'.step = "healthy"
        /\ control' \in Controls /\ ~control'.suspended
    BY <1>12, <2>1, ControlWithoutRest, AttachedLeaves DEF RestOver
  <2> QED BY <1>12, <2>1, <2>2, <2>3 DEF RestOver, Typed
<1>13. CASE Promote
  BY <1>13 DEF Promote, Typed
<1>14. CASE ForwarderConnected
  <2>1. control' \in Controls /\ control'.suspended = TRUE /\ control'.rest = FALSE
    BY <1>14, ControlWithoutRest DEF ForwarderConnected, Detached
  <2> QED BY <1>14, <2>1 DEF ForwarderConnected, Detached, Typed
<1>15. CASE ForwarderFailed
  <2>1. route' \in Routes
    BY <1>15, RouteWith DEF ForwarderFailed
  <2> QED BY <1>15, <2>1, ReopenedLeaves DEF ForwarderFailed, Typed
<1>17. CASE ForwarderUnwanted
  BY <1>17, ReopenedLeaves DEF ForwarderUnwanted, Typed
<1>18. CASE FollowRung
  <2>1. route' \in Routes
    BY <1>18, RouteWith DEF FollowRung
  <2>2. CASE link # "none" /\ Attached(ladder, control)
    BY <1>18, <2>1, <2>2, AttachedLeaves DEF FollowRung, Typed
  <2>3. CASE link = "none" /\ UNCHANGED <<link, moved, queued, deadIn, ladder, control>>
    BY <1>18, <2>1, <2>3 DEF FollowRung, Typed
  <2> QED BY <1>18, <2>2, <2>3 DEF FollowRung
<1>19. CASE SessionSwapped
  <2>1. route' \in Routes
    BY <1>19, RouteWith DEF SessionSwapped
  <2>2. others' \in 0..MaxOthers /\ ~control.suspended
    BY <1>19 DEF SessionSwapped, Typed
  <2>3. /\ link' = "opening" /\ moved' = FALSE /\ queued' = FALSE /\ deadIn' = Fresh
        /\ ladder' \in Ladders /\ ladder'.step = "healthy"
        /\ control' \in Controls /\ control'.suspended = control.suspended
    BY <1>19, AttachedLeaves DEF SessionSwapped
  <2> QED BY <1>19, <2>1, <2>2, <2>3 DEF SessionSwapped, Typed
<1>16. CASE UNCHANGED vars
  BY <1>16 DEF vars, Typed
<1> QED BY <1>2, <1>3, <1>4, <1>5, <1>6, <1>7, <1>8, <1>9, <1>10, <1>11, <1>12, <1>13, <1>14, <1>15, <1>16, <1>17, <1>18, <1>19 DEF Next

-----------------------------------------------------------------------------
(* Theorems *)

THEOREM Invariance == Spec => []IInv
<1>1. Init => IInv
  BY Initially
<1>2. IInv /\ [Next]_vars => IInv'
  BY Inductive
<1> QED BY <1>1, <1>2, PTL DEF Spec

\* Types, and that under a forwarder no connection is watched and no rest runs.
THEOREM TypeCorrect == Spec => []TypeOK
<1>1. IInv => TypeOK
  BY DEF IInv, Typed, TypeOK, Routes, Ladders, Controls, Steps
<1> QED BY <1>1, Invariance, PTL

\* A ladder that rests on a connection that is watched is always woken: there
\* is no order of rebuilds, failures and forwarders that leaves it resting for
\* good (pair-controller.ts:49).
THEOREM EveryRestEnds == Spec => []RestIsArmed
<1>1. IInv => RestIsArmed
  BY DEF IInv, RestArmed, RestIsArmed, Watched, Sampling
<1> QED BY <1>1, Invariance, PTL

\* What the ladder does, it does for the silence of the connection it watches,
\* for the whole of the grace and the dead window, however often the pair's
\* generation changed before (pair-controller.ts:242, :378).
THEOREM NoInheritedSilence == Spec => JudgedByItsOwnSilence
<1>1. ASSUME IInv, Tick, ladder'.step \notin {ladder.step, "healthy"} \/ route' # route
      PROVE  age' > Grace + Dead
  <2>1. age \in 0..Longest /\ deadIn \in 0..Fresh /\ ladder \in Ladders /\ control \in Controls
    BY <1>1 DEF IInv, Typed
  <2>2. Older.step = ladder.step /\ Stepped("healthy").step = "healthy" /\ Reset(Older).step = "healthy"
    BY <2>1, OlderIsLadder, ResetIsLadder DEF Steps
  <2>3. ~moved /\ Broken
    BY <1>1, <2>2 DEF Tick, AnotherGeneration, NothingWrong, NotYet, RestartIce, RebuildAgain, NextTier, Judged
  <2>4. age + deadIn >= Fresh
    BY <1>1, <2>3 DEF IInv, OwnSilence
  <2>5. deadIn <= 1
    BY <2>1, <2>3, PairWatchAssumption DEF Broken, NextDeadIn, Fresh
  <2>6. age' = Aged(age)
    BY <1>1 DEF Tick
  <2>7. Aged(age) > Grace + Dead
    BY <2>1, <2>4, <2>5, LongestIsNat, PairWatchAssumption DEF Aged, Fresh
  <2> QED BY <2>6, <2>7
<1>2. IInv => [Tick /\ (ladder'.step \notin {ladder.step, "healthy"} \/ route' # route) => age' > Grace + Dead]_vars
  BY <1>1
<1> QED BY <1>2, Invariance, PTL DEF JudgedByItsOwnSilence, Spec

=============================================================================
