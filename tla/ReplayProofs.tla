---------------------------- MODULE ReplayProofs ----------------------------
(***************************************************************************)
(* Proofs about Replay, for every recording, any speeds and any bounds:    *)
(* the player is never ahead of its clock, and the page shows what the     *)
(* recorded page showed.  The loops of the code are recursive functions,   *)
(* which are shown to be what their equations say first.                   *)
(***************************************************************************)
EXTENDS Replay, WellFoundedInduction, TLAPS

-----------------------------------------------------------------------------
(* Numbers                                                                 *)

LEMMA Least ==
    ASSUME NEW S \in SUBSET Nat, S # {}
    PROVE  \E x \in S : \A y \in S : x <= y
<1> DEFINE R == OpToRel(<, Nat)
<1>1. \A x, y \in Nat : x < y => <<x, y>> \in R
  BY DEF OpToRel
<1>2. IsWellFoundedOn(R, Nat)
  BY NatLessThanWellFounded
<1> HIDE DEF R
<1>3. PICK x \in S : \A y \in S : <<y, x>> \notin R
  <2>1. S \subseteq Nat
    OBVIOUS
  <2> QED
    BY <1>2, <2>1, WFMin, Zenon
<1>4. ASSUME NEW y \in S PROVE x <= y
  <2>1. ~(y < x)
    BY <1>1, <1>3
  <2> QED
    BY <2>1
<1> QED
  BY <1>4

\* Induction, for a set: what holds of a number is put as membership.
LEMMA Induction ==
    ASSUME NEW S, NEW N \in Nat, 0 \in S,
           \A i \in 1 .. N : i - 1 \in S => i \in S
    PROVE  0 .. N \subseteq S
<1> SUFFICES ASSUME (0 .. N) \ S # {} PROVE FALSE
  OBVIOUS
<1>1. PICK i \in (0 .. N) \ S : \A j \in (0 .. N) \ S : i <= j
  <2>1. (0 .. N) \ S \in SUBSET Nat
    OBVIOUS
  <2> QED
    BY <2>1, Least
<1>2. i \in 1 .. N /\ i - 1 \in 0 .. N
  BY <1>1
<1> QED
  BY <1>1, <1>2

LEMMA MaxIs ==
    ASSUME NEW S \in SUBSET Int, NEW x \in S, \A y \in S : y <= x
    PROVE  Max(S) = x
<1>1. \A y \in S : x >= y
  OBVIOUS
<1>2. Max(S) \in S /\ \A y \in S : Max(S) >= y
  BY <1>1, Zenon DEF Max
<1>3. Max(S) >= x /\ x >= Max(S) /\ Max(S) \in Int
  BY <1>1, <1>2
<1> QED
  BY <1>3

LEMMA MinIs ==
    ASSUME NEW S \in SUBSET Int, NEW x \in S, \A y \in S : x <= y
    PROVE  Min(S) = x
<1>1. Min(S) \in S /\ \A y \in S : Min(S) =< y
  BY Zenon DEF Min
<1>2. Min(S) <= x /\ x <= Min(S) /\ Min(S) \in Int
  BY <1>1
<1> QED
  BY <1>2

LEMMA MinOfTwo ==
    ASSUME NEW a \in Int, NEW b \in Int
    PROVE  Min({a, b}) = IF a <= b THEN a ELSE b
<1>1. CASE a <= b
  BY <1>1, MinIs, {a, b} \in SUBSET Int
<1>2. CASE ~(a <= b)
  BY <1>2, MinIs, {a, b} \in SUBSET Int
<1> QED
  BY <1>1, <1>2

LEMMA MaxOfTwo ==
    ASSUME NEW a \in Int, NEW b \in Int
    PROVE  Max({a, b}) = IF a <= b THEN b ELSE a
<1>1. CASE a <= b
  BY <1>1, MaxIs, {a, b} \in SUBSET Int
<1>2. CASE ~(a <= b)
  BY <1>2, MaxIs, {a, b} \in SUBSET Int
<1> QED
  BY <1>1, <1>2

LEMMA MaxExists ==
    ASSUME NEW S \in SUBSET Int, S # {}, NEW b \in Int, \A y \in S : y <= b
    PROVE  Max(S) \in S /\ \A y \in S : y <= Max(S)
<1> DEFINE D == {b - y : y \in S}
<1>1. D \in SUBSET Nat /\ D # {}
  <2>1. \A y \in S : b - y \in Nat
    OBVIOUS
  <2>2. D # {}
    OBVIOUS
  <2> QED
    BY <2>1, <2>2
<1>2. PICK d \in D : \A e \in D : d <= e
  BY <1>1, Least
<1>3. PICK x \in S : d = b - x
  BY <1>2
<1>4. ASSUME NEW y \in S PROVE y <= x
  <2>1. d <= b - y
    BY <1>2
  <2> QED
    BY <1>3, <2>1
<1> QED
  BY <1>4, MaxIs

LEMMA MinExists ==
    ASSUME NEW S \in SUBSET Nat, S # {}
    PROVE  Min(S) \in S /\ \A y \in S : Min(S) <= y
<1>1. PICK x \in S : \A y \in S : x <= y
  BY Least
<1> QED
  BY <1>1, MinIs

-----------------------------------------------------------------------------
(* Loops                                                                   *)

\* h is what a loop makes of s in its first N turns.
IsRun(h, s, N, Turn) == h[0] = s /\ \A i \in 1 .. N : h[i] = Turn[i][h[i - 1]]

\* A loop whose turns lead from S to S can be run.
LEMMA Loop ==
    ASSUME NEW S, NEW s \in S, NEW N \in Nat, NEW Turn \in [1 .. N -> [S -> S]]
    PROVE  \E h \in [0 .. N -> S] : IsRun(h, s, N, Turn)
<1> DEFINE Runs(n) == {h \in [0 .. n -> S] : IsRun(h, s, n, Turn)}
           Good == {n \in 0 .. N : Runs(n) # {}}
<1>1. 0 \in Good
  <2> DEFINE h == [i \in 0 .. 0 |-> s]
  <2>1. h \in Runs(0)
    BY DEF IsRun
  <2> QED
    BY <2>1
<1>2. ASSUME NEW n \in 1 .. N, n - 1 \in Good
      PROVE  n \in Good
  <2>1. PICK h \in [0 .. n - 1 -> S] : IsRun(h, s, n - 1, Turn)
    BY <1>2
  <2> DEFINE g == [i \in 0 .. n |-> IF i = n THEN Turn[n][h[n - 1]] ELSE h[i]]
  <2>2. g \in [0 .. n -> S] /\ g[0] = s
    BY <2>1 DEF IsRun
  <2>3. ASSUME NEW i \in 1 .. n PROVE g[i] = Turn[i][g[i - 1]]
    BY <2>1 DEF IsRun
  <2> HIDE DEF g
  <2>4. g \in Runs(n)
    BY <2>2, <2>3 DEF IsRun
  <2> HIDE DEF Runs
  <2> QED
    BY <2>4
<1>3. N \in Good
  <2>1. \A i \in 1 .. N : i - 1 \in Good => i \in Good
    BY <1>2
  <2> HIDE DEF Good
  <2>2. 0 .. N \subseteq Good
    BY <1>1, <2>1, Induction
  <2> QED
    BY <2>2
<1> QED
  BY <1>3

Alike(f, g, i) == f[i] = g[i]

\* Two functions that begin alike and whose turns keep them alike are the same.
LEMMA StayAlike ==
    ASSUME NEW N \in Nat, NEW f, NEW g,
           Alike(f, g, 0), \A i \in 1 .. N : Alike(f, g, i - 1) => Alike(f, g, i)
    PROVE  \A i \in 0 .. N : Alike(f, g, i)
<1> DEFINE Same == {i \in 0 .. N : Alike(f, g, i)}
<1>1. 0 \in Same
  OBVIOUS
<1>2. \A i \in 1 .. N : i - 1 \in Same => i \in Same
  OBVIOUS
<1> HIDE DEF Same
<1>3. 0 .. N \subseteq Same
  BY <1>1, <1>2, Induction
<1> QED
  BY <1>3 DEF Same

LEMMA EventsType ==
    ASSUME NEW lines \in Seq(Line)
    PROVE  Events(lines) \in Seq(Line)
<1> DEFINE n == Len(lines)
           Lists == Seq(Line)
           none == <<>>
           Pushed(q, i) == IF lines[i].is = "header" THEN q ELSE Append(q, lines[i])
           Push == [i \in 1 .. n |-> [q \in Lists |-> Pushed(q, i)]]
<1>1. n \in Nat /\ none \in Lists
  OBVIOUS
<1>2. \A i \in 1 .. n, q \in Lists : Pushed(q, i) \in Lists
  OBVIOUS
<1> HIDE DEF n, Pushed, Lists, none
<1>3. Push \in [1 .. n -> [Lists -> Lists]]
  BY <1>2
<1>4. \A i \in 1 .. n, q \in Lists : Push[i][q] = Pushed(q, i)
  OBVIOUS
<1> HIDE DEF Push
<1>5. PICK h \in [0 .. n -> Lists] : IsRun(h, none, n, Push)
  BY <1>1, <1>3, Loop
<1>6. ASSUME NEW i \in 1 .. n PROVE h[i] = Pushed(h[i - 1], i)
  <2>1. h[i - 1] \in Lists
    BY <1>1
  <2> QED
    BY <1>4, <1>5, <2>1 DEF IsRun
<1>7. h = [i \in 0 .. n |-> IF i = 0 THEN none ELSE Pushed(h[i - 1], i)]
  BY <1>1, <1>5, <1>6 DEF IsRun
<1> DEFINE events[i \in 0 .. n] == IF i = 0 THEN none ELSE Pushed(events[i - 1], i)
<1>8. events = [i \in 0 .. n |-> IF i = 0 THEN none ELSE Pushed(events[i - 1], i)]
  BY <1>7
<1>9. Events(lines) = events[n]
  BY DEF Events, n, Pushed, none
<1> HIDE DEF events
<1>10. Alike(events, h, 0)
  BY <1>1, <1>5, <1>8 DEF IsRun, Alike
<1>11. ASSUME NEW i \in 1 .. n, Alike(events, h, i - 1) PROVE Alike(events, h, i)
  <2>1. events[i] = Pushed(events[i - 1], i)
    BY <1>1, <1>8
  <2>2. h[i] = Pushed(h[i - 1], i)
    BY <1>6
  <2>3. events[i - 1] = h[i - 1]
    BY <1>11 DEF Alike
  <2> QED
    BY <2>1, <2>2, <2>3 DEF Alike
<1>12. \A i \in 1 .. n : Alike(events, h, i - 1) => Alike(events, h, i)
  BY <1>11
<1>13. \A i \in 0 .. n : Alike(events, h, i)
  BY <1>1, <1>10, <1>12, StayAlike, Zenon
<1>14. Alike(events, h, n)
  BY <1>1, <1>13
<1> QED
  BY <1>1, <1>9, <1>14 DEF Lists, Alike

Entry == [at : Int, is : STRING, told : BOOLEAN]

\* The i-th entry is shown its shortened wait after the one before.
Waits(page, i) ==
    Timeline(page)[i].at =
        IF i = 1 THEN 0
        ELSE Timeline(page)[i - 1].at + Min({page[i].t - page[i - 1].t, MaxGap})

LEMMA TimelineIs ==
    ASSUME NEW page \in Seq(Line)
    PROVE  /\ Timeline(page) \in Seq(Entry)
           /\ Len(Timeline(page)) = Len(page)
           /\ \A i \in 1 .. Len(page) : Waits(page, i)
           /\ \A i \in 1 .. Len(page) : Timeline(page)[i].is = page[i].is
<1> DEFINE n == Len(page)
           gap(i) == IF i = 1 THEN 0 ELSE page[i].t - page[i - 1].t
           wait(i) == Min({gap(i), MaxGap})
           Add == [i \in 1 .. n |-> [at \in Int |-> at + wait(i)]]
<1>1. n \in Nat /\ 0 \in Int
  OBVIOUS
<1>2. \A i \in 1 .. n : gap(i) \in Int /\ page[i].is \in STRING
  <2>1. \A i \in 1 .. n : page[i] \in Line
    OBVIOUS
  <2>2. \A i \in 1 .. n : page[i].t \in Int /\ page[i].is \in STRING
    BY <2>1 DEF Line
  <2>3. \A i \in 1 .. n : i # 1 => i - 1 \in 1 .. n
    BY <1>1
  <2> HIDE DEF n
  <2> QED
    BY <2>2, <2>3
<1>3. \A i \in 1 .. n : wait(i) \in Int
  <2> HIDE DEF gap, n
  <2> QED
    BY <1>2, MinOfTwo, ReplayAssumption
<1> HIDE DEF n, wait
<1>4. Add \in [1 .. n -> [Int -> Int]]
  BY <1>3
<1>5. \A i \in 1 .. n, at \in Int : Add[i][at] = at + wait(i)
  OBVIOUS
<1> HIDE DEF Add
<1>6. PICK h \in [0 .. n -> Int] : IsRun(h, 0, n, Add)
  BY <1>1, <1>4, Loop
<1>7. ASSUME NEW i \in 1 .. n PROVE h[i] = h[i - 1] + wait(i)
  <2>1. h[i - 1] \in Int
    BY <1>1
  <2> QED
    BY <1>5, <1>6, <2>1 DEF IsRun
<1>8. h = [i \in 0 .. n |-> IF i = 0 THEN 0 ELSE h[i - 1] + wait(i)]
  BY <1>1, <1>6, <1>7 DEF IsRun
<1> DEFINE shownSoFar[i \in 0 .. n] == IF i = 0 THEN 0 ELSE shownSoFar[i - 1] + wait(i)
<1>9. shownSoFar = [i \in 0 .. n |-> IF i = 0 THEN 0 ELSE shownSoFar[i - 1] + wait(i)]
  BY <1>8
<1>10. Timeline(page) =
         [i \in DOMAIN page |->
            [at |-> shownSoFar[i], is |-> page[i].is,
             told |-> gap(i) > MaxGap \/ IsState(page[i])]]
  BY DEF Timeline, n, wait
<1> HIDE DEF shownSoFar, gap
<1>11. Alike(shownSoFar, h, 0)
  BY <1>1, <1>6, <1>9 DEF IsRun, Alike
<1>12. \A i \in 1 .. n : Alike(shownSoFar, h, i - 1) => Alike(shownSoFar, h, i)
  BY <1>1, <1>7, <1>9 DEF Alike
<1>13. \A i \in 0 .. n : Alike(shownSoFar, h, i)
  BY <1>1, <1>11, <1>12, StayAlike, Zenon
<1>14. \A i \in 0 .. n : shownSoFar[i] \in Int
  BY <1>1, <1>13 DEF Alike
<1>15. DOMAIN page = 1 .. n
  BY DEF n
<1>16. \A i \in 1 .. n : Timeline(page)[i] \in Entry
  BY <1>2, <1>10, <1>14, <1>15 DEF Entry, IsState
<1>17. Timeline(page) \in Seq(Entry) /\ Len(Timeline(page)) = n
  BY <1>1, <1>10, <1>15, <1>16
<1>18. ASSUME NEW i \in 1 .. n PROVE Waits(page, i)
  <2>1. shownSoFar[i] = shownSoFar[i - 1] + wait(i) /\ shownSoFar[0] = 0
    BY <1>1, <1>9
  <2>2. CASE i = 1
    BY <2>1, <2>2, <1>10, <1>15, MinOfTwo, ReplayAssumption DEF Waits, wait, gap
  <2>3. CASE i # 1
    BY <2>1, <2>3, <1>1, <1>10, <1>15 DEF Waits, wait, gap
  <2> QED
    BY <2>2, <2>3
<1>19. \A i \in 1 .. n : Timeline(page)[i].is = page[i].is
  BY <1>10, <1>15
<1> QED
  BY <1>17, <1>18, <1>19 DEF n

\* h[i] is what the first i events make of a stage s.
Handles(h, s, events) ==
    h[0] = s /\ \A i \in 1 .. Len(events) : h[i] = Handled(h[i - 1], events[i])

LEMMA HandlesExists ==
    ASSUME NEW s \in Seq(STRING), NEW events \in Seq(Entry)
    PROVE  \E h \in [0 .. Len(events) -> Seq(STRING)] : Handles(h, s, events)
<1> DEFINE n == Len(events)
           Stages == Seq(STRING)
           Show == [i \in 1 .. n |-> [st \in Stages |-> Handled(st, events[i])]]
<1>1. n \in Nat /\ s \in Stages
  OBVIOUS
<1>2. \A i \in 1 .. n, st \in Stages : Handled(st, events[i]) \in Stages
  <2> SUFFICES ASSUME NEW i \in 1 .. n, NEW st \in Stages
               PROVE  Handled(st, events[i]) \in Stages
    OBVIOUS
  <2>1. events[i] \in Entry
    OBVIOUS
  <2>2. events[i].is \in STRING
    BY <2>1 DEF Entry
  <2>3. Append(st, events[i].is) \in Stages /\ <<>> \in Stages
    BY <2>2
  <2> HIDE DEF Stages
  <2> QED
    BY <2>3 DEF Handled
<1> HIDE DEF n, Stages
<1>3. Show \in [1 .. n -> [Stages -> Stages]]
  BY <1>2
<1>4. \A i \in 1 .. n, st \in Stages : Show[i][st] = Handled(st, events[i])
  OBVIOUS
<1> HIDE DEF Show
<1>5. PICK h \in [0 .. n -> Stages] : IsRun(h, s, n, Show)
  BY <1>1, <1>3, Loop
<1>6. ASSUME NEW i \in 1 .. n PROVE h[i] = Handled(h[i - 1], events[i])
  <2>1. h[i - 1] \in Stages
    BY <1>1
  <2> QED
    BY <1>4, <1>5, <2>1 DEF IsRun
<1>7. Handles(h, s, events)
  BY <1>5, <1>6 DEF Handles, IsRun, n
<1> QED
  BY <1>7 DEF n, Stages

LEMMA AfterIs ==
    ASSUME NEW s, NEW events, Len(events) \in Nat, NEW h, Handles(h, s, events)
    PROVE  After(s, events) = h[Len(events)]
<1> DEFINE n == Len(events)
<1>1. n \in Nat
  OBVIOUS
<1>2. h[0] = s /\ \A i \in 1 .. n : h[i] = Handled(h[i - 1], events[i])
  BY DEF Handles
<1> DEFINE g == [i \in 0 .. n |-> h[i]]
           handled[i \in 0 .. n] == IF i = 0 THEN s ELSE Handled(handled[i - 1], events[i])
<1>3. After(s, events) = handled[n]
  BY DEF After
<1> HIDE DEF n
<1>4. g = [i \in 0 .. n |-> IF i = 0 THEN s ELSE Handled(g[i - 1], events[i])]
  BY <1>1, <1>2
<1>5. handled = [i \in 0 .. n |-> IF i = 0 THEN s ELSE Handled(handled[i - 1], events[i])]
  BY <1>4
<1> HIDE DEF handled, g
<1>6. Alike(handled, h, 0)
  BY <1>1, <1>2, <1>5 DEF Alike
<1>7. \A i \in 1 .. n : Alike(handled, h, i - 1) => Alike(handled, h, i)
  BY <1>1, <1>2, <1>5 DEF Alike
<1>8. Alike(handled, h, n)
  BY <1>1, <1>6, <1>7, StayAlike
<1> QED
  BY <1>3, <1>8 DEF Alike, n

LEMMA AfterSome ==
    ASSUME NEW s, NEW events \in Seq(Entry), NEW h, Handles(h, s, events),
           NEW k \in 0 .. Len(events), NEW n \in k .. Len(events)
    PROVE  After(h[k], SubSeq(events, k + 1, n)) = h[n]
<1> DEFINE new == SubSeq(events, k + 1, n)
           g == [i \in 0 .. n - k |-> h[k + i]]
<1>1. Len(new) = n - k /\ \A i \in 1 .. n - k : new[i] = events[k + i]
  OBVIOUS
<1>2. \A i \in 1 .. n - k : k + i \in 1 .. Len(events)
  OBVIOUS
<1>3. \A i \in 1 .. n - k : h[k + i] = Handled(h[k + i - 1], events[k + i])
  BY <1>2 DEF Handles
<1> HIDE DEF new
<1>4. g[0] = h[k] /\ \A i \in 1 .. n - k : g[i] = Handled(g[i - 1], new[i])
  <2>1. g[0] = h[k]
    OBVIOUS
  <2>2. ASSUME NEW i \in 1 .. n - k PROVE g[i] = Handled(g[i - 1], new[i])
    <3>1. g[i] = h[k + i] /\ g[i - 1] = h[k + i - 1]
      OBVIOUS
    <3> QED
      BY <1>1, <1>3, <3>1
  <2> QED
    BY <2>1, <2>2
<1> HIDE DEF g
<1>5. Handles(g, h[k], new)
  BY <1>1, <1>4 DEF Handles
<1>6. After(h[k], new) = g[n - k]
  BY <1>1, <1>5, AfterIs
<1>7. g[n - k] = h[n]
  BY DEF g
<1> QED
  BY <1>6, <1>7 DEF new

\* To handle events up to k and then up to n is to handle them up to n.
LEMMA AfterSplit ==
    ASSUME NEW s \in Seq(STRING), NEW events \in Seq(Entry),
           NEW k \in 0 .. Len(events), NEW n \in k .. Len(events)
    PROVE  After(After(s, SubSeq(events, 1, k)), SubSeq(events, k + 1, n))
             = After(s, SubSeq(events, 1, n))
<1>1. PICK h : Handles(h, s, events)
  BY HandlesExists
<1>2. h[0] = s
  BY <1>1 DEF Handles
<1>3. 0 \in 0 .. Len(events) /\ k \in 0 .. Len(events) /\ n \in 0 .. Len(events) /\ 0 + 1 = 1
  OBVIOUS
<1>4. \A m \in 0 .. Len(events) : After(h[0], SubSeq(events, 0 + 1, m)) = h[m]
  BY <1>1, <1>3, AfterSome
<1>5. After(h[k], SubSeq(events, k + 1, n)) = h[n]
  BY <1>1, AfterSome
<1> QED
  BY <1>2, <1>3, <1>4, <1>5, Zenon

MarksAt(h, events, i) ==
    events[i].is \in {"note", "collected"} /\ {"note", "collected"} \subseteq Range(h[i])

\* Which of the events from one up to another mark the note.
LEMMA MarksSome ==
    ASSUME NEW s, NEW events \in Seq(Entry), NEW h, Handles(h, s, events),
           NEW k \in 0 .. Len(events), NEW n \in k .. Len(events)
    PROVE  Marks(h[k], SubSeq(events, k + 1, n)) <=> \E i \in k + 1 .. n : MarksAt(h, events, i)
<1> DEFINE new == SubSeq(events, k + 1, n)
           marks(j) == /\ new[j].is \in {"note", "collected"}
                       /\ {"note", "collected"} \subseteq Range(After(h[k], SubSeq(new, 1, j)))
<1>1. DOMAIN new = 1 .. n - k
  OBVIOUS
<1>2. Marks(h[k], new) <=> \E j \in 1 .. n - k : marks(j)
  BY <1>1 DEF Marks
<1>3. ASSUME NEW j \in 1 .. n - k
      PROVE  k + j \in k + 1 .. n /\ (marks(j) <=> MarksAt(h, events, k + j))
  <2>1. k + j \in k + 1 .. n /\ k + j \in k .. Len(events) /\ new[j] = events[k + j]
    OBVIOUS
  <2>2. SubSeq(new, 1, j) = SubSeq(events, k + 1, k + j)
    OBVIOUS
  <2>3. After(h[k], SubSeq(events, k + 1, k + j)) = h[k + j]
    BY <2>1, AfterSome
  <2> HIDE DEF new
  <2> QED
    BY <2>1, <2>2, <2>3 DEF MarksAt
<1>4. \A i \in k + 1 .. n : i - k \in 1 .. n - k /\ k + (i - k) = i
  OBVIOUS
<1> HIDE DEF marks, new
<1>5. (\E j \in 1 .. n - k : marks(j)) <=> \E i \in k + 1 .. n : MarksAt(h, events, i)
  BY <1>3, <1>4
<1> QED
  BY <1>2, <1>5 DEF new

\* A note that is marked by n is marked by k or after it.
LEMMA MarksSplit ==
    ASSUME NEW s \in Seq(STRING), NEW events \in Seq(Entry),
           NEW k \in 0 .. Len(events), NEW n \in k .. Len(events),
           Marks(s, SubSeq(events, 1, n))
    PROVE  \/ Marks(s, SubSeq(events, 1, k))
           \/ Marks(After(s, SubSeq(events, 1, k)), SubSeq(events, k + 1, n))
<1>1. PICK h : Handles(h, s, events)
  BY HandlesExists
<1>2. h[0] = s
  BY <1>1 DEF Handles
<1>3. 0 \in 0 .. Len(events) /\ k \in 0 .. Len(events) /\ n \in 0 .. Len(events) /\ 0 + 1 = 1
  OBVIOUS
<1>4. After(h[0], SubSeq(events, 0 + 1, k)) = h[k]
  BY <1>1, <1>3, AfterSome
<1>5. \A m \in 0 .. Len(events) :
         Marks(h[0], SubSeq(events, 0 + 1, m)) <=> \E i \in 0 + 1 .. m : MarksAt(h, events, i)
  BY <1>1, <1>3, MarksSome
<1>4a. After(s, SubSeq(events, 1, k)) = h[k]
  BY <1>2, <1>3, <1>4, Zenon
<1>5a. \A m \in 0 .. Len(events) :
          Marks(s, SubSeq(events, 1, m)) <=> \E i \in 1 .. m : MarksAt(h, events, i)
  BY <1>2, <1>3, <1>5, Zenon
<1>6. Marks(h[k], SubSeq(events, k + 1, n)) <=> \E i \in k + 1 .. n : MarksAt(h, events, i)
  BY <1>1, MarksSome
<1>7. PICK i \in 1 .. n : MarksAt(h, events, i)
  BY <1>3, <1>5a
<1>8. i \in 1 .. k \/ i \in k + 1 .. n
  OBVIOUS
<1> QED
  BY <1>3, <1>4a, <1>5a, <1>6, <1>7, <1>8

-----------------------------------------------------------------------------
(* The story                                                               *)

LEMMA PageShape ==
    ASSUME NEW page \in Pages
    PROVE  page \in Seq(Line) /\ page # <<>>
<1>1. PICK lines \in Recordings :
        page = TrimToStoryEnd(Events(lines)) /\ Events(lines) # <<>>
  BY DEF Pages, Bundle
<1> DEFINE events == Events(lines)
           done == {i \in DOMAIN events : events[i].is = "done"}
           after == {i \in DOMAIN events : IsState(events[i]) /\ i > Min(done)}
<1>2. lines \in Seq(Line)
  BY ReplayAssumption
<1>3. events \in Seq(Line) /\ events # <<>>
  BY <1>1, <1>2, EventsType
<1>4. page = CASE done = {} -> events
               [] done # {} /\ after = {} -> SubSeq(events, 1, Min(done))
               [] OTHER -> SubSeq(events, 1, Min(after))
  BY <1>1 DEF TrimToStoryEnd
<1> HIDE DEF events
<1>5. done \in SUBSET Nat /\ done \subseteq 1 .. Len(events)
  BY <1>3
<1>6. after \in SUBSET Nat /\ after \subseteq 1 .. Len(events)
  BY <1>3
<1> HIDE DEF done, after
<1>7. ASSUME NEW n \in 1 .. Len(events)
      PROVE  SubSeq(events, 1, n) \in Seq(Line) /\ SubSeq(events, 1, n) # <<>>
  <2>1. SubSeq(events, 1, n) \in Seq(Line) /\ Len(SubSeq(events, 1, n)) = n
    BY <1>3
  <2> QED
    BY <2>1
<1>8. done # {} => Min(done) \in 1 .. Len(events)
  BY <1>5, MinExists
<1>9. after # {} => Min(after) \in 1 .. Len(events)
  BY <1>6, MinExists
<1>10. CASE done = {}
  BY <1>3, <1>4, <1>10
<1>11. CASE done # {} /\ after = {}
  BY <1>4, <1>7, <1>8, <1>11
<1>12. CASE done # {} /\ after # {}
  BY <1>4, <1>7, <1>9, <1>12
<1> QED
  BY <1>10, <1>11, <1>12

Stories == {Timeline(page) : page \in Pages}

LEMMA StoryShape ==
    ASSUME story \in Stories
    PROVE  story \in Seq(Entry) /\ Len(story) >= 1 /\ total \in Int
<1>1. PICK page \in Pages : story = Timeline(page)
  BY DEF Stories
<1>2. story \in Seq(Entry) /\ Len(story) = Len(page) /\ page \in Seq(Line) /\ page # <<>>
  BY <1>1, PageShape, TimelineIs
<1>3. Len(story) >= 1
  BY <1>2
<1>4. total = story[Len(story)].at /\ story[Len(story)] \in Entry
  BY <1>2, <1>3 DEF total, Last
<1> QED
  BY <1>2, <1>3, <1>4 DEF Entry

\* applyUpTo gets as far as the times allow.
LEMMA ReachIs ==
    ASSUME story \in Seq(Entry), NEW from \in 0 .. Len(story), NEW at \in Int
    PROVE  /\ Reach(from, at) \in from .. Len(story)
           /\ \A i \in from + 1 .. Reach(from, at) : story[i].at <= at
           /\ \A n \in from .. Len(story) :
                (\A i \in from + 1 .. n : story[i].at <= at) => n <= Reach(from, at)
<1> DEFINE S == {n \in from .. Len(story) : \A i \in from + 1 .. n : story[i].at <= at}
<1>1. S \in SUBSET Int /\ from \in S /\ Len(story) \in Int
  OBVIOUS
<1>2. \A n \in S : n <= Len(story)
  OBVIOUS
<1>3. Reach(from, at) = Max(S)
  BY DEF Reach
<1>4. Max(S) \in S /\ \A n \in S : n <= Max(S)
  <2> HIDE DEF S
  <2> QED
    BY <1>1, <1>2, MaxExists
<1> QED
  BY <1>3, <1>4

\* To go on from where one is leads as far as to begin anew.
LEMMA ReachOn ==
    ASSUME story \in Seq(Entry), NEW from \in 0 .. Len(story), NEW at \in Int
    PROVE  Reach(from, at) >= Reach(0, at)
<1>1. /\ Reach(0, at) \in 0 .. Len(story)
      /\ \A i \in 0 + 1 .. Reach(0, at) : story[i].at <= at
  <2>1. 0 \in 0 .. Len(story)
    OBVIOUS
  <2> QED
    BY <2>1, ReachIs
<1>2. /\ Reach(from, at) \in from .. Len(story)
      /\ \A k \in from .. Len(story) :
           (\A i \in from + 1 .. k : story[i].at <= at) => k <= Reach(from, at)
  BY ReachIs
<1> DEFINE n == Reach(0, at)
           m == Reach(from, at)
<1> HIDE DEF n, m
<1>3. CASE n <= from
  BY <1>1, <1>2, <1>3 DEF n, m
<1>4. CASE n > from
  <2>1. n \in 0 .. Len(story) /\ \A i \in 0 + 1 .. n : story[i].at <= at
    BY <1>1 DEF n
  <2>2. n \in from .. Len(story)
    BY <1>4, <2>1
  <2>3. \A i \in from + 1 .. n : i \in 0 + 1 .. n
    OBVIOUS
  <2>4. n <= m
    BY <1>2, <2>1, <2>2, <2>3 DEF m
  <2> QED
    BY <1>1, <1>2, <2>4 DEF n, m
<1> QED
  BY <1>1, <1>3, <1>4 DEF n

LEMMA LastStateIs ==
    ASSUME NEW none, NEW events \in Seq(Entry),
           NEW k \in 1 .. Len(events) + 1, NEW n \in k - 1 .. Len(events)
    PROVE  /\ (\A i \in k .. n : ~IsState(events[i])) =>
                LastState(none, SubSeq(events, k, n)) = none
           /\ \A m \in k .. n :
                IsState(events[m]) /\ (\A i \in m + 1 .. n : ~IsState(events[i])) =>
                  LastState(none, SubSeq(events, k, n)) = events[m].is
<1> DEFINE new == SubSeq(events, k, n)
           states == {i \in DOMAIN new : IsState(new[i])}
<1>1. DOMAIN new = 1 .. n - k + 1 /\ \A i \in 1 .. n - k + 1 : new[i] = events[k + i - 1]
  OBVIOUS
<1>2. LastState(none, new) = IF states = {} THEN none ELSE new[Max(states)].is
  BY DEF LastState
<1> HIDE DEF new
<1>3. ASSUME \A i \in k .. n : ~IsState(events[i])
      PROVE  LastState(none, new) = none
  <2>1. \A i \in 1 .. n - k + 1 : k + i - 1 \in k .. n
    OBVIOUS
  <2>2. states = {}
    BY <1>1, <1>3, <2>1
  <2> QED
    BY <1>2, <2>2
<1>4. ASSUME NEW m \in k .. n, IsState(events[m]),
             \A i \in m + 1 .. n : ~IsState(events[i])
      PROVE  LastState(none, new) = events[m].is
  <2> DEFINE j == m - k + 1
  <2>1. j \in 1 .. n - k + 1 /\ k + j - 1 = m
    OBVIOUS
  <2>2. new[j] = events[m]
    BY <1>1, <2>1
  <2>3. j \in states /\ states \in SUBSET Int
    BY <1>1, <1>4, <2>1, <2>2
  <2>4. ASSUME NEW i \in states PROVE i <= j
    <3>1. i \in 1 .. n - k + 1 /\ IsState(events[k + i - 1])
      BY <1>1
    <3>2. ~(k + i - 1 \in m + 1 .. n)
      BY <1>4, <3>1
    <3> QED
      BY <3>1, <3>2
  <2>5. Max(states) = j
    <3> HIDE DEF states, j
    <3> QED
      BY <2>3, <2>4, MaxIs
  <2> QED
    BY <1>2, <2>2, <2>3, <2>5
<1> QED
  BY <1>3, <1>4 DEF new

LEMMA LastStateExists ==
    ASSUME NEW events \in Seq(Entry), NEW n \in 0 .. Len(events),
           NEW i \in 1 .. n, IsState(events[i])
    PROVE  \E m \in i .. n : /\ IsState(events[m])
                             /\ \A j \in m + 1 .. n : ~IsState(events[j])
<1> DEFINE S == {j \in i .. n : IsState(events[j])}
<1>1. S \in SUBSET Int /\ i \in S /\ n \in Int /\ \A j \in S : j <= n
  OBVIOUS
<1>2. Max(S) \in S /\ \A j \in S : j <= Max(S)
  <2> HIDE DEF S
  <2> QED
    BY <1>1, MaxExists
<1>3. ASSUME NEW j \in Max(S) + 1 .. n PROVE ~IsState(events[j])
  BY <1>2
<1> QED
  BY <1>2, <1>3

\* Of the states among the events up to n, the last is that among the later ones, if any.
LEMMA LastStateSplit ==
    ASSUME NEW none, NEW events \in Seq(Entry),
           NEW k \in 0 .. Len(events), NEW n \in k .. Len(events)
    PROVE  LastState(LastState(none, SubSeq(events, 1, k)), SubSeq(events, k + 1, n))
             = LastState(none, SubSeq(events, 1, n))
<1> DEFINE before == LastState(none, SubSeq(events, 1, k))
<1>1. /\ 1 \in 1 .. Len(events) + 1 /\ k + 1 \in 1 .. Len(events) + 1
      /\ k \in 1 - 1 .. Len(events) /\ n \in 1 - 1 .. Len(events)
      /\ n \in (k + 1) - 1 .. Len(events) /\ n \in 0 .. Len(events)
  OBVIOUS
<1>2. ASSUME NEW i \in k + 1 .. n, IsState(events[i])
      PROVE  LastState(before, SubSeq(events, k + 1, n)) = LastState(none, SubSeq(events, 1, n))
  <2>1. i \in 1 .. n
    BY <1>1
  <2>2. PICK m \in i .. n : IsState(events[m]) /\ \A j \in m + 1 .. n : ~IsState(events[j])
    BY <1>1, <1>2, <2>1, LastStateExists
  <2>3. m \in k + 1 .. n /\ m \in 1 .. n
    BY <2>1
  <2>4. LastState(before, SubSeq(events, k + 1, n)) = events[m].is
    BY <1>1, <2>2, <2>3, LastStateIs
  <2>5. LastState(none, SubSeq(events, 1, n)) = events[m].is
    BY <1>1, <2>2, <2>3, LastStateIs
  <2> QED
    BY <2>4, <2>5
<1>3. ASSUME \A i \in k + 1 .. n : ~IsState(events[i])
      PROVE  LastState(before, SubSeq(events, k + 1, n)) = LastState(none, SubSeq(events, 1, n))
  <2>1. LastState(before, SubSeq(events, k + 1, n)) = before
    BY <1>1, <1>3, LastStateIs
  <2>2. ASSUME NEW i \in 1 .. k, IsState(events[i])
        PROVE  before = LastState(none, SubSeq(events, 1, n))
    <3>1. PICK m \in i .. k : IsState(events[m]) /\ \A j \in m + 1 .. k : ~IsState(events[j])
      BY <2>2, LastStateExists
    <3>2. m \in 1 .. k /\ m \in 1 .. n
      OBVIOUS
    <3>3. before = events[m].is
      BY <1>1, <3>1, <3>2, LastStateIs
    <3>4. ASSUME NEW j \in m + 1 .. n PROVE ~IsState(events[j])
      <4>1. j \in m + 1 .. k \/ j \in k + 1 .. n
        BY <3>2
      <4> QED
        BY <1>3, <3>1, <4>1
    <3>5. LastState(none, SubSeq(events, 1, n)) = events[m].is
      BY <1>1, <3>1, <3>2, <3>4, LastStateIs
    <3> QED
      BY <3>3, <3>5
  <2>3. ASSUME \A i \in 1 .. k : ~IsState(events[i])
        PROVE  before = LastState(none, SubSeq(events, 1, n))
    <3>1. before = none
      BY <1>1, <2>3, LastStateIs
    <3>2. ASSUME NEW j \in 1 .. n PROVE ~IsState(events[j])
      <4>1. j \in 1 .. k \/ j \in k + 1 .. n
        OBVIOUS
      <4> QED
        BY <1>3, <2>3, <4>1
    <3>3. LastState(none, SubSeq(events, 1, n)) = none
      BY <1>1, <3>2, LastStateIs
    <3> QED
      BY <3>1, <3>3
  <2> QED
    BY <2>1, <2>2, <2>3
<1> QED
  BY <1>2, <1>3

-----------------------------------------------------------------------------
(* The invariant                                                           *)

TypeOK ==
    /\ story \in Stories
    /\ applied \in 0 .. Len(story)
    /\ position \in Int /\ limit \in Int
    /\ playing \in BOOLEAN
    /\ speed \in Speeds
    /\ since \in Int /\ since >= -1
    /\ loops \in Nat /\ due \in Nat
    /\ marked \in BOOLEAN
    /\ caption \in {"start", "blank", "told", "end"}

\* What the next frame adds keeps the story within its limit as well.
InPace ==
    /\ position <= limit
    /\ position + since * Max(Speeds) <= limit \/ total <= limit

\* No time is left over for when the player goes on.
Rests == ~playing => since = 0

\* Only the first callback of a drawing that finds the player playing moves the story.
OneMove == due > 0 /\ loops > 0 => since = 0

IInv == TypeOK /\ InPace /\ Rests /\ OneMove /\ ShowsThatMoment

-----------------------------------------------------------------------------
(* What the page does                                                      *)

LEMMA Fastest == Max(Speeds) \in Speeds /\ Max(Speeds) \in Nat /\ \A v \in Speeds : v <= Max(Speeds)
<1>1. PICK top \in Speeds : \A v \in Speeds : v <= top
  BY ReplayAssumption
<1>2. Speeds \in SUBSET Int
  BY ReplayAssumption
<1>3. Max(Speeds) = top
  BY <1>1, <1>2, MaxIs
<1> QED
  BY <1>1, <1>3, ReplayAssumption

LEMMA AtStart ==
    ASSUME story \in Seq(Entry)
    PROVE  /\ OnStage(SubSeq(story, 1, 0)) = <<>>
           /\ LastState("none", SubSeq(story, 1, 0)) = "none"
           /\ ~Marks(<<>>, SubSeq(story, 1, 0))
<1>1. 0 \in 0 .. Len(story) /\ 0 \in 1 - 1 .. Len(story) /\ 1 \in 1 .. Len(story) + 1
  OBVIOUS
<1>2. SubSeq(story, 1, 0) = <<>> /\ SubSeq(story, 1, 0) \in Seq(Entry)
  OBVIOUS
<1>3. PICK h : Handles(h, <<>>, story)
  BY HandlesExists, <<>> \in Seq(STRING)
<1>4. h[0] = <<>>
  BY <1>3 DEF Handles
<1>5. After(<<>>, SubSeq(story, 1, 0)) = <<>>
  <2>1. After(h[0], SubSeq(story, 0 + 1, 0)) = h[0]
    BY <1>1, <1>3, AfterSome
  <2> QED
    BY <1>4, <2>1
<1>6. \A i \in 1 .. 0 : ~IsState(story[i])
  OBVIOUS
<1>7. LastState("none", SubSeq(story, 1, 0)) = "none"
  BY <1>1, <1>6, LastStateIs
<1>8. ~Marks(<<>>, SubSeq(story, 1, 0))
  BY <1>2 DEF Marks
<1> QED
  BY <1>5, <1>7, <1>8 DEF OnStage

\* Whoever shows the events up to one shows those up to another after applyUpTo.
LEMMA ApplyShows ==
    ASSUME story \in Stories, story' = story,
           NEW from \in 0 .. Len(story), position' \in Int,
           NEW s, s = OnStage(SubSeq(story, 1, from)),
           NEW none, none = LastState("none", SubSeq(story, 1, from)),
           NEW said \in {"start", "blank", "told", "end"}, NEW m \in BOOLEAN,
           Marks(<<>>, SubSeq(story, 1, from)) => m,
           applyUpTo(from, position', s, none, said, m)
    PROVE  /\ applied' \in 0 .. Len(story) /\ applied' = Reach(from, position')
           /\ marked' \in BOOLEAN /\ caption' \in {"start", "blank", "told", "end"}
           /\ ShowsThatMoment'
<1> DEFINE n == Reach(from, position')
<1>1. story \in Seq(Entry)
  BY StoryShape
<1>2. n \in from .. Len(story) /\ n >= Reach(0, position')
  BY <1>1, ReachIs, ReachOn
<1>3. /\ applied' = n
      /\ stage' = After(s, SubSeq(story, from + 1, n))
      /\ shown' = LastState(none, SubSeq(story, from + 1, n))
      /\ marked' = (m \/ Marks(s, SubSeq(story, from + 1, n)))
  BY DEF applyUpTo
<1>4. marked' \in BOOLEAN /\ caption' \in {"start", "blank", "told", "end"}
  BY DEF applyUpTo
<1> HIDE DEF n
<1>5. stage' = OnStage(SubSeq(story, 1, n))
  BY <1>1, <1>2, <1>3, AfterSplit, <<>> \in Seq(STRING) DEF OnStage
<1>6. shown' = LastState("none", SubSeq(story, 1, n))
  BY <1>1, <1>2, <1>3, LastStateSplit
<1>7. Reach(0, position)' = Reach(0, position')
  BY DEF Reach
<1>8. Marks(<<>>, SubSeq(story, 1, n)) => marked'
  BY <1>1, <1>2, <1>3, MarksSplit, <<>> \in Seq(STRING) DEF OnStage
<1>9. ShowsThatMoment'
  BY <1>2, <1>3, <1>5, <1>6, <1>7, <1>8 DEF ShowsThatMoment
<1> QED
  BY <1>2, <1>3, <1>4, <1>9 DEF n

LEMMA SeekShows ==
    ASSUME story \in Stories, story' = story, NEW at \in Int,
           NEW said \in {"start", "blank", "told", "end"}, NEW m \in BOOLEAN,
           seek(at, said, m)
    PROVE  /\ position' = (IF at <= 0 \/ total <= 0 THEN 0 ELSE IF total <= at THEN total ELSE at)
           /\ position' \in Int /\ limit' = position'
           /\ applied' \in 0 .. Len(story) /\ applied' = Reach(0, position')
           /\ marked' \in BOOLEAN /\ caption' \in {"start", "blank", "told", "end"}
           /\ ShowsThatMoment'
<1>1. story \in Seq(Entry) /\ total \in Int
  BY StoryShape
<1>2. Min({total, at}) = IF total <= at THEN total ELSE at
  BY <1>1, MinOfTwo
<1>3. Max({0, Min({total, at})}) = IF 0 <= Min({total, at}) THEN Min({total, at}) ELSE 0
  <2> DEFINE cut == Min({total, at})
  <2>1. cut \in Int
    BY <1>1, <1>2
  <2> HIDE DEF cut
  <2>2. Max({0, cut}) = IF 0 <= cut THEN cut ELSE 0
    BY <2>1, MaxOfTwo
  <2> QED
    BY <2>2 DEF cut
<1>4. position' = (IF at <= 0 \/ total <= 0 THEN 0 ELSE IF total <= at THEN total ELSE at)
  BY <1>1, <1>2, <1>3 DEF seek
<1>5. position' \in Int /\ 0 \in 0 .. Len(story)
  BY <1>1, <1>4
<1>6. applyUpTo(0, position', <<>>, "none", said, m) /\ limit' = position'
  BY DEF seek
<1> QED
  BY <1>1, <1>4, <1>5, <1>6, AtStart, ApplyShows

\* One frame moves the story by what has passed, which is capped, at the speed chosen.
LEMMA AdvanceIs ==
    ASSUME TypeOK, Advance
    PROVE  /\ position' \in Int /\ position' <= total
           /\ since <= 0 => position' <= position
           /\ position' - position <= FrameCap * speed
           /\ since >= 0 => position' <= position + since * Max(Speeds)
<1> DEFINE step == Min({since, FrameCap})
           fast == Max(Speeds)
<1>1. /\ since \in Int /\ FrameCap \in Nat /\ position \in Int /\ total \in Int
      /\ speed \in Nat /\ fast \in Nat /\ speed <= fast
  BY StoryShape, Fastest, ReplayAssumption DEF TypeOK
<1>2. step \in Int /\ step <= since /\ step <= FrameCap /\ (since >= 0 => step >= 0)
  BY <1>1, MinOfTwo
<1>3. position' = Min({total, position + step * speed})
  BY DEF Advance
<1> HIDE DEF step, fast
<1> DEFINE moved == step * speed
           cap == FrameCap * speed
           most == since * fast
<1>4. moved \in Int /\ cap \in Int /\ most \in Int
  BY <1>1, <1>2
<1>5. moved <= cap
  <2>1. (FrameCap - step) * speed >= 0
    BY <1>1, <1>2
  <2>2. (FrameCap - step) * speed = cap - moved
    BY <1>1, <1>2
  <2> HIDE DEF cap, moved
  <2> QED
    BY <1>4, <2>1, <2>2
<1>6. since <= 0 => moved <= 0
  BY <1>1, <1>2
<1>7. since >= 0 => moved <= most
  <2>1. since >= 0 => step * speed <= since * speed
    BY <1>1, <1>2
  <2>2. since >= 0 => since * speed <= since * fast
    BY <1>1
  <2>3. since * speed \in Int
    BY <1>1
  <2> QED
    BY <1>4, <2>1, <2>2, <2>3
<1> HIDE DEF moved, cap, most
<1>8. position' = Min({total, position + moved})
  BY <1>3 DEF moved
<1>9. position' \in Int /\ position' <= total /\ position' <= position + moved
  BY <1>1, <1>4, <1>8, MinOfTwo
<1>10. since <= 0 => position' <= position
  BY <1>1, <1>4, <1>6, <1>9
<1>11. position' - position <= cap
  <2>1. position' <= position + cap
    BY <1>1, <1>4, <1>5, <1>9
  <2>2. \A a, b, c \in Int : a <= b + c => a - b <= c
    OBVIOUS
  <2> QED
    BY <1>1, <1>4, <1>9, <2>1, <2>2
<1>12. since >= 0 => position' <= position + most
  BY <1>1, <1>4, <1>7, <1>9
<1> QED
  BY <1>9, <1>10, <1>11, <1>12 DEF fast, cap, most

LEMMA FrameStep ==
    ASSUME IInv, frame
    PROVE  /\ IInv'
           /\ position' - position <= (IF loops = 0 THEN FrameCap * speed ELSE 0)
           /\ position' <= total /\ applied' = Reach(applied, position')
<1>1. /\ TypeOK /\ position \in Int /\ limit \in Int /\ total \in Int
      /\ since \in Int /\ since >= -1 /\ Max(Speeds) \in Nat
  BY StoryShape, Fastest DEF IInv, TypeOK
<1>2. /\ position' \in Int /\ position' <= total
      /\ since <= 0 => position' <= position
      /\ position' - position <= FrameCap * speed
      /\ since >= 0 => position' <= position + since * Max(Speeds)
  BY <1>1, AdvanceIs DEF frame
<1>3. since' = 0 /\ story' = story /\ limit' = limit /\ speed' = speed /\ due' = due - 1
  BY DEF frame, Advance
<1>4. /\ applied' \in 0 .. Len(story) /\ applied' = Reach(applied, position')
      /\ marked' \in BOOLEAN /\ caption' \in {"start", "blank", "told", "end"}
      /\ ShowsThatMoment'
  BY <1>1, <1>2, <1>3, ApplyShows DEF frame, IInv, TypeOK, ShowsThatMoment
<1>5. playing' \in BOOLEAN /\ loops' \in Nat /\ due' \in Nat
  BY <1>1 DEF frame, Scheduled, TypeOK
<1>6. position' <= limit
  <2>1. since * Max(Speeds) \in Int
    BY <1>1
  <2>2. CASE since <= 0
    BY <1>1, <1>2, <2>2 DEF IInv, InPace
  <2>3. CASE since >= 0
    BY <1>1, <1>2, <2>1, <2>3 DEF IInv, InPace
  <2> QED
    BY <1>1, <2>2, <2>3
<1>7. InPace'
  BY <1>2, <1>3, <1>6, Fastest DEF InPace
<1>8. loops # 0 => position' <= position
  BY <1>1, <1>2 DEF IInv, OneMove, TypeOK, frame
<1>9. position' - position <= (IF loops = 0 THEN FrameCap * speed ELSE 0)
  BY <1>1, <1>2, <1>8
<1>10. TypeOK'
  BY <1>1, <1>2, <1>3, <1>4, <1>5 DEF TypeOK
<1> QED
  BY <1>2, <1>3, <1>4, <1>7, <1>9, <1>10 DEF IInv, OneMove, Rests

LEMMA TickStep ==
    ASSUME IInv, Tick
    PROVE  IInv'
<1>1. /\ position \in Int /\ limit \in Int /\ total \in Int /\ story \in Seq(Entry)
      /\ since \in Int /\ since >= -1 /\ Max(Speeds) \in Nat
  BY StoryShape, Fastest DEF IInv, TypeOK
<1> DEFINE fast == Max(Speeds)
           on == Min({total, limit + fast})
<1>2. /\ since' = since + 1 /\ limit' = Max({limit, on})
      /\ UNCHANGED <<story, applied, position, playing, speed, loops, due, stage, shown,
                     marked, caption>>
      /\ due = 0
  BY DEF Tick, screen
<1> HIDE DEF fast
<1>3. on \in Int /\ (on = total \/ on = limit + fast)
  BY <1>1, MinOfTwo DEF fast
<1> HIDE DEF on
<1>4. limit' \in Int /\ limit <= limit' /\ on <= limit'
  BY <1>1, <1>2, <1>3, MaxOfTwo
<1>5. total' = total
  BY <1>2 DEF total
<1>6. (since + 1) * fast = since * fast + fast /\ since * fast \in Int /\ fast \in Nat
  BY <1>1 DEF fast
<1>7. position + (since + 1) * fast <= limit' \/ total <= limit'
  <2> DEFINE gone == since * fast
  <2>1. gone \in Int /\ (position + gone <= limit \/ total <= limit)
    BY <1>6 DEF IInv, InPace, fast
  <2>2. (since + 1) * fast = gone + fast
    BY <1>6
  <2> HIDE DEF gone
  <2>3. position + (gone + fast) <= limit' \/ total <= limit'
    BY <1>1, <1>3, <1>4, <1>6, <2>1
  <2> QED
    BY <2>2, <2>3
<1>8. position <= limit'
  BY <1>1, <1>4 DEF IInv, InPace
<1>9. InPace'
  BY <1>2, <1>5, <1>7, <1>8 DEF InPace, fast
<1>10. TypeOK'
  BY <1>1, <1>2, <1>4 DEF IInv, TypeOK
<1>11. OneMove' /\ Rests'
  BY <1>2 DEF OneMove, Rests, Tick
<1>12. ShowsThatMoment'
  BY <1>2 DEF IInv, ShowsThatMoment, Reach
<1> QED
  BY <1>9, <1>10, <1>11, <1>12 DEF IInv

\* What leaves the story where it is, and the clock no further than it was.
LEMMA Still ==
    ASSUME IInv, since' \in {since, 0, -1},
           UNCHANGED <<story, applied, position, stage, shown, marked, limit>>
    PROVE  InPace' /\ ShowsThatMoment'
<1>1. /\ position \in Int /\ limit \in Int /\ total \in Int /\ Max(Speeds) \in Nat
      /\ position <= limit
  BY StoryShape, Fastest DEF IInv, TypeOK, InPace
<1>2. total' = total
  BY DEF total
<1>3. position + since' * Max(Speeds) <= limit \/ total <= limit
  <2>1. CASE since' = since
    BY <2>1 DEF IInv, InPace
  <2>2. CASE since' = 0
    BY <1>1, <2>2
  <2>3. CASE since' = -1
    BY <1>1, <2>3
  <2> QED
    BY <2>1, <2>2, <2>3
<1>4. InPace'
  BY <1>1, <1>2, <1>3 DEF InPace
<1>5. ShowsThatMoment'
  BY DEF IInv, ShowsThatMoment, Reach
<1> QED
  BY <1>4, <1>5

LEMMA BrowserStep ==
    ASSUME IInv, BeginFrame \/ FrameStops
    PROVE  IInv'
<1>1. /\ UNCHANGED <<story, applied, position, playing, speed, since, stage, shown, marked,
                     caption, limit>>
      /\ loops' \in Nat /\ due' \in Nat
  BY DEF BeginFrame, FrameStops, screen, IInv, TypeOK
<1>2. InPace' /\ ShowsThatMoment'
  BY <1>1, Still
<1>3. TypeOK' /\ Rests'
  BY <1>1 DEF IInv, TypeOK, Rests
<1>4. OneMove'
  BY <1>1 DEF BeginFrame, FrameStops, IInv, OneMove, TypeOK
<1> QED
  BY <1>2, <1>3, <1>4 DEF IInv

\* After a seek the story is where its limit is.
LEMMA SeekStep ==
    ASSUME IInv, story' = story, speed' = speed, due = 0, due' = due, loops' \in Nat,
           playing' \in BOOLEAN, since' \in {0, -1}, ~playing' => since' = 0,
           NEW at \in Int, NEW said \in {"start", "blank", "told", "end"}, NEW m \in BOOLEAN,
           seek(at, said, m)
    PROVE  IInv'
<1>1. story \in Stories /\ total \in Int /\ speed \in Speeds /\ due \in Nat
  BY StoryShape DEF IInv, TypeOK
<1>2. /\ position' \in Int /\ limit' = position'
      /\ applied' \in 0 .. Len(story)
      /\ marked' \in BOOLEAN /\ caption' \in {"start", "blank", "told", "end"}
      /\ ShowsThatMoment'
  BY <1>1, SeekShows
<1>3. position' + since' * Max(Speeds) <= limit'
  <2>1. CASE since' = 0
    BY <1>2, <2>1, Fastest
  <2>2. CASE since' = -1
    BY <1>2, <2>2, Fastest
  <2> QED
    BY <2>1, <2>2
<1>4. InPace'
  BY <1>2, <1>3 DEF InPace
<1>5. TypeOK'
  BY <1>1, <1>2 DEF TypeOK
<1> QED
  BY <1>2, <1>4, <1>5 DEF IInv, Rests, OneMove

LEMMA ViewerStep ==
    ASSUME IInv,
           \/ play \/ pause \/ Restart
           \/ \E at \in 0 .. total : jump(at, caption)
           \/ \E s \in Speeds : SetSpeed(s)
    PROVE  IInv'
<1>1. /\ TypeOK /\ total \in Int /\ position \in Int
      /\ marked \in BOOLEAN /\ caption \in {"start", "blank", "told", "end"}
      /\ "blank" \in {"start", "blank", "told", "end"} /\ 0 \in Int
  BY StoryShape DEF IInv, TypeOK
<1>2. ASSUME Plays
      PROVE  /\ playing' \in BOOLEAN /\ playing' /\ loops' \in Nat
             /\ since' \in {0, -1}
  BY <1>1, <1>2 DEF Plays, TypeOK
<1>3. CASE play
  <2>1. CASE position >= total
    BY <1>1, <1>2, <1>3, <2>1, SeekStep DEF play, Viewer
  <2>2. CASE ~(position >= total)
    <3>1. /\ UNCHANGED <<story, applied, position, stage, shown, marked, caption, limit,
                         speed, due>>
          /\ due = 0 /\ Plays
      BY <1>3, <2>2 DEF play, Viewer, screen
    <3>2. InPace' /\ ShowsThatMoment'
      BY <1>1, <1>2, <3>1, Still
    <3>3. TypeOK'
      BY <1>1, <1>2, <3>1 DEF TypeOK
    <3> QED
      BY <1>2, <3>1, <3>2, <3>3 DEF IInv, Rests, OneMove
  <2> QED
    BY <2>1, <2>2
<1>4. CASE pause
  <2>1. /\ UNCHANGED <<story, applied, position, stage, shown, marked, caption, limit,
                       speed, loops, due>>
        /\ due = 0 /\ since' = 0 /\ playing' \in BOOLEAN
    BY <1>4 DEF pause, Viewer, screen
  <2>2. InPace' /\ ShowsThatMoment'
    BY <2>1, Still
  <2>3. TypeOK'
    BY <1>1, <2>1 DEF TypeOK
  <2> QED
    BY <2>1, <2>2, <2>3 DEF IInv, Rests, OneMove
<1>5. ASSUME NEW at \in Int, NEW said \in {"start", "blank", "told", "end"}, jump(at, said)
      PROVE  IInv'
  <2>1. UNCHANGED <<story, speed, due>> /\ due = 0
    BY <1>5 DEF jump, Viewer
  <2>2. CASE playing
    <3>1. Plays /\ (marked \/ Marks(<<>>, story)) \in BOOLEAN
      BY <1>5, <2>2 DEF jump
    <3>2. seek(0, "blank", marked \/ Marks(<<>>, story)) \/ seek(at, said, marked)
      BY <1>5, <2>2 DEF jump
    <3> QED
      BY <1>1, <1>2, <2>1, <3>1, <3>2, SeekStep
  <2>3. CASE ~playing
    <3>1. seek(at, said, marked) /\ UNCHANGED <<playing, since, loops>>
      BY <1>5, <2>3 DEF jump
    <3>2. since = 0 /\ loops \in Nat /\ playing \in BOOLEAN
      BY <2>3 DEF IInv, Rests, TypeOK
    <3> QED
      BY <1>1, <2>1, <2>3, <3>1, <3>2, SeekStep
  <2> QED
    BY <2>2, <2>3
<1>6. CASE Restart
  BY <1>1, <1>5, <1>6 DEF Restart
<1>7. CASE \E at \in 0 .. total : jump(at, caption)
  BY <1>1, <1>5, <1>7
<1>8. ASSUME NEW s \in Speeds, SetSpeed(s)
      PROVE  IInv'
  <2>1. /\ UNCHANGED <<story, applied, position, playing, since, loops, due, stage, shown,
                       marked, caption, limit>>
        /\ speed' \in Speeds
    BY <1>8 DEF SetSpeed, screen
  <2>2. InPace' /\ ShowsThatMoment'
    BY <2>1, Still
  <2>3. TypeOK' /\ Rests' /\ OneMove'
    BY <2>1 DEF IInv, TypeOK, Rests, OneMove
  <2> QED
    BY <2>2, <2>3 DEF IInv
<1> QED
  BY <1>3, <1>4, <1>6, <1>7, <1>8

-----------------------------------------------------------------------------
(* The induction                                                           *)

LEMMA InitIInv == Init => IInv
<1> SUFFICES ASSUME Init PROVE IInv
  OBVIOUS
<1>1. /\ story \in Stories /\ applied = Reach(0, 0) /\ position = 0
      /\ speed = 1 /\ since = 0 /\ loops = 0 /\ due = 0 /\ limit = 0
      /\ stage = OnStage(SubSeq(story, 1, applied))
      /\ shown = LastState("none", SubSeq(story, 1, applied))
      /\ marked = Marks(<<>>, SubSeq(story, 1, applied))
  BY DEF Init, Stories
<1>2. playing \in BOOLEAN /\ marked \in BOOLEAN /\ caption \in {"start", "blank", "told", "end"}
  BY DEF Init, Marks
<1>3. story \in Seq(Entry)
  BY <1>1, StoryShape
<1>4. applied \in 0 .. Len(story)
  BY <1>1, <1>3, ReachIs, 0 \in 0 .. Len(story)
<1>5. 0 * Max(Speeds) = 0 /\ speed \in Speeds
  BY <1>1, Fastest, ReplayAssumption
<1>6. TypeOK
  BY <1>1, <1>2, <1>4, <1>5 DEF TypeOK
<1>7. InPace /\ Rests /\ OneMove
  BY <1>1, <1>5 DEF InPace, Rests, OneMove
<1>8. ShowsThatMoment
  BY <1>1, <1>4 DEF ShowsThatMoment
<1> QED
  BY <1>6, <1>7, <1>8 DEF IInv

LEMMA NextIInv == IInv /\ [Next]_vars => IInv'
<1> SUFFICES ASSUME IInv, [Next]_vars PROVE IInv'
  OBVIOUS
<1>1. CASE Browser
  BY <1>1, TickStep, BrowserStep, FrameStep DEF Browser
<1>2. CASE play \/ pause \/ Restart \/ (\E at \in 0 .. total : jump(at, caption))
             \/ (\E s \in Speeds : SetSpeed(s))
  BY <1>2, ViewerStep
<1>3. CASE UNCHANGED vars
  <2>1. UNCHANGED <<story, applied, position, playing, speed, since, loops, due, stage, shown,
                    marked, caption, limit>>
    BY <1>3 DEF vars, player, screen
  <2>2. InPace' /\ ShowsThatMoment'
    BY <2>1, Still
  <2>3. TypeOK' /\ Rests' /\ OneMove'
    BY <2>1 DEF IInv, TypeOK, Rests, OneMove
  <2> QED
    BY <2>2, <2>3 DEF IInv
<1> QED
  BY <1>1, <1>2, <1>3 DEF Next

\* However the viewer jumps, pauses and changes the speed: the story, its limit, the
\* clock and the stage agree with each other.
THEOREM PlayerInvariant == Spec => []IInv
  BY InitIInv, NextIInv, PTL DEF Spec

\* The player never runs ahead: since the last seek the story has not got further than
\* the fastest speed brings it in the time that passed, however many callbacks run.
THEOREM NeverTooFast == Spec => []NotTooFast
<1>1. IInv => NotTooFast
  BY DEF IInv, InPace, NotTooFast
<1> QED
  BY <1>1, PlayerInvariant, PTL

\* Handling the entries one by one, in any number of frames and from any jump, leaves
\* on stage the events, and the last state, that handling the recording up to there
\* leaves; and a note that it has picked up is shown picked up.
THEOREM ShowsTheRecording == Spec => []ShowsThatMoment
<1>1. IInv => ShowsThatMoment
  BY DEF IInv
<1> QED
  BY <1>1, PlayerInvariant, PTL

\* A drawing, with all the callbacks that run in it, moves the story by no more than the
\* cap, however long the tab was hidden.
THEOREM NeverLeaps == Spec => NoLeap
<1> DEFINE Small == due' < due =>
                      position' - position <= (IF loops = 0 THEN FrameCap * speed ELSE 0)
<1>1. IInv /\ [Next]_vars => [Small]_vars
  <2> SUFFICES ASSUME IInv, Next PROVE Small
    OBVIOUS
  <2>1. CASE frame
    BY <2>1, FrameStep
  <2>2. CASE FrameStops
    <3>1. position' = position /\ position \in Int
      BY <2>2 DEF FrameStops, IInv, TypeOK
    <3>2. FrameCap * speed >= 0
      BY ReplayAssumption DEF IInv, TypeOK
    <3> QED
      BY <3>1, <3>2
  <2>3. CASE ~frame /\ ~FrameStops
    <3>1. due' = due \/ (due = 0 /\ due' = loops)
      BY <2>3 DEF Next, Browser, Tick, BeginFrame, play, pause, Restart, jump, SetSpeed
    <3> QED
      BY <3>1 DEF IInv, TypeOK
  <2> QED
    BY <2>1, <2>2, <2>3
<1> QED
  BY <1>1, PlayerInvariant, PTL DEF Spec, NoLeap

-----------------------------------------------------------------------------
(* The end                                                                 *)

\* A recording whose lines are in the order of their times, not all of one moment.
InOrder(page) ==
    /\ \A i \in 2 .. Len(page) : page[i - 1].t <= page[i].t
    /\ \E i \in 2 .. Len(page) : page[i - 1].t < page[i].t

\* Its timeline never steps back and takes some time.
Forward == 0 < total /\ \A i \in 1 .. Len(story) : story[i].at <= total

LEMMA ForwardWhenInOrder ==
    ASSUME NEW page \in Pages, InOrder(page), story = Timeline(page)
    PROVE  Forward
<1> DEFINE n == Len(page)
           at(i) == story[i].at
<1>1. /\ page \in Seq(Line) /\ n \in Nat /\ n >= 2
      /\ story \in Seq(Entry) /\ Len(story) = n
  BY PageShape, TimelineIs DEF InOrder
<1>2. \A i \in 1 .. n : page[i].t \in Int /\ at(i) \in Int
  <2>1. \A i \in 1 .. n : page[i] \in Line /\ story[i] \in Entry
    BY <1>1
  <2> QED
    BY <2>1 DEF Line, Entry
<1>2a. \A i \in 1 .. n :
        at(i) = IF i = 1 THEN 0
                ELSE at(i - 1) + Min({page[i].t - page[i - 1].t, MaxGap})
  BY <1>1, TimelineIs DEF Waits
<1>3. at(1) = 0
  <2>1. 1 \in 1 .. n
    BY <1>1
  <2> QED
    BY <1>2a, <2>1
<1>4. \A i \in 2 .. n : at(i) = at(i - 1) + Min({page[i].t - page[i - 1].t, MaxGap})
  <2>1. \A i \in 2 .. n : i \in 1 .. n /\ i # 1
    BY <1>1
  <2> QED
    BY <1>2a, <2>1
<1>5. total = at(n)
  BY <1>1 DEF total, Last
<1> HIDE DEF at, n
<1>6. ASSUME NEW i \in 2 .. n
      PROVE  /\ i - 1 \in 1 .. n /\ i \in 1 .. n
             /\ at(i - 1) <= at(i)
             /\ page[i - 1].t < page[i].t => at(i - 1) < at(i)
  <2> DEFINE gap == page[i].t - page[i - 1].t
  <2>1. i - 1 \in 1 .. n /\ i \in 1 .. n
    BY <1>1
  <2>2. gap \in Int /\ gap >= 0 /\ (page[i - 1].t < page[i].t => gap > 0)
    <3>1. page[i].t \in Int /\ page[i - 1].t \in Int
      BY <1>2, <2>1
    <3>2. page[i - 1].t <= page[i].t
      BY DEF InOrder, n
    <3> QED
      BY <3>1, <3>2
  <2>3. at(i) = at(i - 1) + Min({gap, MaxGap}) /\ MaxGap \in Nat /\ MaxGap > 0
    BY <1>4, ReplayAssumption
  <2> HIDE DEF gap
  <2>4. Min({gap, MaxGap}) \in Int /\ Min({gap, MaxGap}) >= 0
        /\ (gap > 0 => Min({gap, MaxGap}) > 0)
    BY <2>2, <2>3, MinOfTwo
  <2> QED
    BY <1>2, <2>1, <2>2, <2>3, <2>4
<1> DEFINE Early == {k \in 0 .. n - 1 : 0 <= at(k + 1)}
           Late == {k \in 0 .. n - 1 : at(n - k) <= at(n)}
<1>7. 0 .. n - 1 \subseteq Early
  <2>1. 0 \in Early
    BY <1>1, <1>3
  <2>2. ASSUME NEW k \in 1 .. n - 1, k - 1 \in Early PROVE k \in Early
    <3>1. k + 1 \in 2 .. n /\ (k - 1) + 1 = (k + 1) - 1
      BY <1>1
    <3>2. at((k + 1) - 1) <= at(k + 1) /\ at((k + 1) - 1) \in Int /\ at(k + 1) \in Int
      BY <1>2, <1>6, <3>1
    <3> QED
      BY <2>2, <3>1, <3>2
  <2>3. \A k \in 1 .. n - 1 : k - 1 \in Early => k \in Early
    BY <2>2
  <2> HIDE DEF Early
  <2> QED
    BY <1>1, <2>1, <2>3, Induction, n - 1 \in Nat
<1>8. 0 .. n - 1 \subseteq Late
  <2>1. 0 \in Late
    BY <1>1, <1>2
  <2>2. ASSUME NEW k \in 1 .. n - 1, k - 1 \in Late PROVE k \in Late
    <3>1. n - (k - 1) \in 2 .. n /\ n - k = (n - (k - 1)) - 1 /\ n \in 1 .. n
      BY <1>1
    <3>2. at(n - k) <= at(n - (k - 1)) /\ at(n - k) \in Int /\ at(n - (k - 1)) \in Int
      BY <1>2, <1>6, <3>1
    <3>3. at(n - (k - 1)) <= at(n) /\ at(n) \in Int
      BY <1>2, <2>2, <3>1
    <3> QED
      BY <3>2, <3>3
  <2>3. \A k \in 1 .. n - 1 : k - 1 \in Late => k \in Late
    BY <2>2
  <2> HIDE DEF Late
  <2> QED
    BY <1>1, <2>1, <2>3, Induction, n - 1 \in Nat
<1>9. ASSUME NEW i \in 1 .. n PROVE 0 <= at(i) /\ at(i) <= at(n)
  <2>1. i - 1 \in 0 .. n - 1 /\ (i - 1) + 1 = i /\ n - i \in 0 .. n - 1 /\ n - (n - i) = i
    BY <1>1
  <2>2. 0 <= at((i - 1) + 1) /\ at(n - (n - i)) <= at(n)
    BY <1>7, <1>8, <2>1
  <2> QED
    BY <2>1, <2>2
<1>10. PICK i \in 2 .. n : page[i - 1].t < page[i].t
  BY DEF InOrder, n
<1>11. 0 < at(n)
  <2>1. i - 1 \in 1 .. n /\ i \in 1 .. n /\ n \in 1 .. n
    BY <1>1
  <2>2. 0 <= at(i - 1) /\ at(i - 1) < at(i) /\ at(i) <= at(n)
    BY <1>6, <1>9, <1>10, <2>1
  <2> QED
    BY <1>2, <2>1, <2>2
<1> QED
  BY <1>1, <1>5, <1>9, <1>11 DEF Forward, at

LEMMA AtTheEnd ==
    ASSUME story \in Stories, Forward, NEW from \in 0 .. Len(story),
           position' \in Int, position' <= total,
           NEW s, NEW none, NEW said, NEW m,
           applyUpTo(from, position', s, none, said, m)
    PROVE  position' >= total => applied' = Len(story) /\ caption' = "end"
<1> SUFFICES ASSUME position' >= total
             PROVE  applied' = Len(story) /\ caption' = "end"
  OBVIOUS
<1>1. story \in Seq(Entry) /\ total \in Int /\ position' = total
  BY StoryShape
<1>2. caption' = "end" /\ applied' = Reach(from, total)
  BY <1>1 DEF applyUpTo
<1>3. /\ Len(story) \in from .. Len(story)
      /\ \A i \in from + 1 .. Len(story) : story[i].at <= total
  BY <1>1 DEF Forward
<1>4. Reach(from, total) \in from .. Len(story) /\ Len(story) <= Reach(from, total)
  BY <1>1, <1>3, ReachIs
<1> QED
  BY <1>1, <1>2, <1>4

\* The invariant with the bound that makes "at the end" mean "at the last entry".
EInv == position <= total /\ EndIsTheEnd

LEMMA SeekEnds ==
    ASSUME IInv, Forward, story' = story, NEW at \in Int,
           NEW said \in {"start", "blank", "told", "end"}, NEW m \in BOOLEAN,
           seek(at, said, m), ~playing' \/ at < total
    PROVE  EInv'
<1>1. story \in Stories /\ total \in Int /\ 0 < total /\ 0 \in 0 .. Len(story)
  BY StoryShape DEF IInv, TypeOK, Forward
<1>2. /\ position' \in Int
      /\ position' = (IF at <= 0 \/ total <= 0 THEN 0 ELSE IF total <= at THEN total ELSE at)
  BY <1>1, SeekShows
<1>3. position' <= total /\ (playing' => position' < total)
  BY <1>1, <1>2
<1>4. position' >= total => applied' = Len(story) /\ caption' = "end"
  BY <1>1, <1>2, <1>3, AtTheEnd DEF seek
<1>5. total' = total
  BY DEF total
<1> QED
  BY <1>1, <1>2, <1>3, <1>4, <1>5 DEF EInv, EndIsTheEnd

LEMMA EndStep ==
    ASSUME IInv, Forward, EInv, [Next]_vars
    PROVE  EInv'
<1>1. /\ story \in Stories /\ total \in Int /\ 0 < total /\ position \in Int
      /\ applied \in 0 .. Len(story)
      /\ marked \in BOOLEAN /\ caption \in {"start", "blank", "told", "end"}
      /\ "blank" \in {"start", "blank", "told", "end"} /\ 0 \in Int
  BY StoryShape DEF IInv, TypeOK, Forward
<1>2. story' = story
  BY DEF Next, Browser, Tick, BeginFrame, frame, FrameStops, play, pause, Restart, jump,
         SetSpeed, vars
<1>3. total' = total
  BY <1>2 DEF total
<1>4. ASSUME UNCHANGED <<position, applied, caption>>,
             playing' => playing \/ position < total
      PROVE  EInv'
  BY <1>1, <1>2, <1>3, <1>4 DEF EInv, EndIsTheEnd
<1>5. CASE frame
  <2>1. position' \in Int /\ position' <= total
    BY <1>5, FrameStep DEF IInv, TypeOK
  <2>2. position' >= total => applied' = Len(story) /\ caption' = "end"
    BY <1>1, <1>5, <2>1, AtTheEnd DEF frame
  <2>3. playing' => position' < total
    BY <1>5 DEF frame
  <2> QED
    BY <1>1, <1>2, <1>3, <2>1, <2>2, <2>3 DEF EInv, EndIsTheEnd
<1>6. CASE Tick \/ BeginFrame \/ FrameStops \/ pause \/ (\E s \in Speeds : SetSpeed(s))
           \/ UNCHANGED vars
  <2>1. UNCHANGED <<position, applied, caption>> /\ (playing' => playing)
    BY <1>6 DEF Tick, BeginFrame, FrameStops, pause, SetSpeed, vars, player, screen
  <2> QED
    BY <1>4, <2>1
<1>7. CASE play
  <2>1. CASE position >= total
    BY <1>1, <1>2, <1>7, <2>1, SeekEnds DEF play
  <2>2. CASE ~(position >= total)
    <3>1. UNCHANGED <<position, applied, caption>> /\ position < total
      BY <1>1, <1>7, <2>2 DEF play, screen
    <3> QED
      BY <1>4, <3>1
  <2> QED
    BY <2>1, <2>2
<1>8. ASSUME NEW at \in Int, NEW said \in {"start", "blank", "told", "end"}, jump(at, said)
      PROVE  EInv'
  <2>1. CASE playing /\ at >= total
    <3>1. (marked \/ Marks(<<>>, story)) \in BOOLEAN
      BY <1>1
    <3>2. seek(0, "blank", marked \/ Marks(<<>>, story))
      BY <1>8, <2>1 DEF jump
    <3> QED
      BY <1>1, <1>2, <3>1, <3>2, SeekEnds
  <2>2. CASE playing /\ ~(at >= total)
    <3>1. seek(at, said, marked) /\ at < total
      BY <1>1, <1>8, <2>2 DEF jump
    <3> QED
      BY <1>1, <1>2, <3>1, SeekEnds
  <2>3. CASE ~playing
    <3>1. seek(at, said, marked) /\ ~playing'
      BY <1>8, <2>3 DEF jump
    <3> QED
      BY <1>1, <1>2, <3>1, SeekEnds
  <2> QED
    BY <2>1, <2>2, <2>3
<1>9. CASE Restart \/ \E at \in 0 .. total : jump(at, caption)
  BY <1>1, <1>8, <1>9 DEF Restart
<1> QED
  BY <1>5, <1>6, <1>7, <1>9 DEF Next, Browser

\* Where the recordings are in the order of their times, the player reaches the end of
\* a story only with its last entry shown, and rests there.  The timeline of a recording
\* out of order can end before an entry that is still to be shown; a story all of one
\* moment is at its end when play begins it.
THEOREM RestsAtTheEnd == (\A page \in Pages : InOrder(page)) => (Spec => []EndIsTheEnd)
<1> SUFFICES ASSUME \A page \in Pages : InOrder(page)
             PROVE  Spec => []EndIsTheEnd
  OBVIOUS
<1>1. IInv => Forward
  <2> SUFFICES ASSUME IInv PROVE Forward
    OBVIOUS
  <2>1. PICK page \in Pages : story = Timeline(page)
    BY DEF IInv, TypeOK, Stories
  <2> QED
    BY <2>1, ForwardWhenInOrder
<1>2. Init => EInv
  <2> SUFFICES ASSUME Init PROVE EInv
    OBVIOUS
  <2>1. position = 0 /\ 0 < total /\ total \in Int
    BY <1>1, InitIInv, StoryShape DEF Init, Forward, IInv, TypeOK
  <2> QED
    BY <2>1 DEF EInv, EndIsTheEnd
<1>3. IInv /\ EInv /\ [Next]_vars => EInv'
  BY <1>1, EndStep
<1>4. EInv => EndIsTheEnd
  BY DEF EInv
<1> QED
  BY <1>2, <1>3, <1>4, PlayerInvariant, PTL DEF Spec

-----------------------------------------------------------------------------
(* The balances                                                            *)

\* What a theater records in which nobody clicks while the balances are fetched: a
\* confirmation is followed by the end of its step, and that, at once, by the balances.
Settled(events) ==
    /\ (\E i \in DOMAIN events : events[i].is = "confirmed") =>
         \E i \in DOMAIN events : events[i].is = "done"
    /\ \A i \in DOMAIN events : events[i].is = "done" =>
         i + 1 \in DOMAIN events /\ events[i + 1].is = "balances"

\* pjn-replay cuts such a recording behind the balances.
LEMMA CutBehindBalances ==
    ASSUME NEW events \in Seq(Line), Settled(events),
           NEW i \in DOMAIN TrimToStoryEnd(events),
           TrimToStoryEnd(events)[i].is = "confirmed"
    PROVE  LET page == TrimToStoryEnd(events)
           IN  /\ Len(page) >= 2
               /\ page[Len(page) - 1].is = "done" /\ page[Len(page)].is = "balances"
<1> DEFINE page == TrimToStoryEnd(events)
           done == {k \in DOMAIN events : events[k].is = "done"}
           after == {k \in DOMAIN events : IsState(events[k]) /\ k > Min(done)}
<1>1. page = CASE done = {} -> events
               [] done # {} /\ after = {} -> SubSeq(events, 1, Min(done))
               [] OTHER -> SubSeq(events, 1, Min(after))
  BY DEF TrimToStoryEnd
<1>2. DOMAIN events = 1 .. Len(events) /\ Len(events) \in Nat
  OBVIOUS
<1>3. done # {}
  <2>1. CASE done = {}
    <3>1. page = events
      BY <1>1, <2>1
    <3> QED
      BY <2>1, <3>1 DEF Settled
  <2> QED
    BY <2>1
<1> DEFINE d == Min(done)
<1>4. d \in done
  <2>1. done \in SUBSET Nat
    BY <1>2
  <2> HIDE DEF done
  <2> QED
    BY <1>3, <2>1, MinExists
<1>5. /\ d \in 1 .. Len(events) /\ events[d].is = "done"
      /\ d + 1 \in 1 .. Len(events) /\ events[d + 1].is = "balances"
  BY <1>2, <1>4 DEF Settled
<1>5a. after = {k \in 1 .. Len(events) : IsState(events[k]) /\ k > d}
  BY <1>2
<1> HIDE DEF d, after
<1>6. d + 1 \in after /\ after \in SUBSET Int /\ \A k \in after : d + 1 <= k
  <2>1. IsState(events[d + 1])
    BY <1>5 DEF IsState
  <2> QED
    BY <1>2, <1>5, <1>5a, <2>1
<1>7. Min(after) = d + 1
  BY <1>6, MinIs
<1>8. page = SubSeq(events, 1, d + 1)
  BY <1>1, <1>3, <1>6, <1>7 DEF after
<1> HIDE DEF page
<1>9. Len(page) = d + 1 /\ page[d] = events[d] /\ page[d + 1] = events[d + 1]
  BY <1>5, <1>8
<1> QED
  BY <1>5, <1>9 DEF page

\* What a stage shows when the last two entries are the end of a step and the balances.
LEMMA ShowsBalances ==
    ASSUME NEW events \in Seq(Entry), Len(events) >= 2,
           events[Len(events) - 1].is = "done", events[Len(events)].is = "balances"
    PROVE  LET all == SubSeq(events, 1, Len(events))
           IN  /\ LastState("none", all) = "balances"
               /\ OnStage(all) # <<>> /\ Last(OnStage(all)) = "done"
<1> DEFINE n == Len(events)
           all == SubSeq(events, 1, n)
<1>1. n \in Nat /\ n - 1 \in 1 .. n /\ n \in 1 .. n /\ n \in 0 .. n
      /\ 0 \in 0 .. n /\ 0 + 1 = 1 /\ 1 \in 1 .. n + 1 /\ n \in 1 - 1 .. n
  OBVIOUS
<1>2. LastState("none", all) = "balances"
  <2>1. IsState(events[n]) /\ \A i \in n + 1 .. n : ~IsState(events[i])
    BY <1>1 DEF IsState
  <2> QED
    BY <1>1, <2>1, LastStateIs
<1>3. PICK h \in [0 .. n -> Seq(STRING)] : Handles(h, <<>>, events)
  BY HandlesExists, <<>> \in Seq(STRING)
<1>4. OnStage(all) = h[n]
  <2>1. After(h[0], SubSeq(events, 0 + 1, n)) = h[n]
    BY <1>1, <1>3, AfterSome
  <2>2. h[0] = <<>>
    BY <1>3 DEF Handles
  <2> QED
    BY <1>1, <2>1, <2>2 DEF OnStage
<1>5. h[n] = Handled(h[n - 1], events[n])
      /\ h[n - 1] = Handled(h[(n - 1) - 1], events[n - 1])
  BY <1>1, <1>3 DEF Handles
<1>6. h[n] = h[n - 1]
  BY <1>5 DEF Handled, IsState
<1>7. h[n - 1] = Append(h[(n - 1) - 1], "done")
  BY <1>5 DEF Handled, IsState
<1>8. h[(n - 1) - 1] \in Seq(STRING)
  <2>1. (n - 1) - 1 \in 0 .. n
    BY <1>1
  <2> QED
    BY <1>3, <2>1
<1>9. \A s \in Seq(STRING) : Append(s, "done") # <<>> /\ Last(Append(s, "done")) = "done"
  <2> SUFFICES ASSUME NEW s \in Seq(STRING)
               PROVE  Append(s, "done") # <<>> /\ Last(Append(s, "done")) = "done"
    OBVIOUS
  <2>1. Len(Append(s, "done")) = Len(s) + 1 /\ Append(s, "done")[Len(s) + 1] = "done"
    OBVIOUS
  <2>2. Len(s) + 1 # Len(<<>>)
    OBVIOUS
  <2>3. Append(s, "done") # <<>>
    BY <2>1, <2>2
  <2> QED
    BY <2>1, <2>3 DEF Last
<1> HIDE DEF n
<1> QED
  BY <1>2, <1>4, <1>6, <1>7, <1>8, <1>9 DEF n

\* A payment that was confirmed ends, in the replay, with its confirmation and its
\* balances: where they are cut, how the entries are timed and how they are handled fit.
THEOREM EndsSettled ==
    (\A page \in Pages : InOrder(page)) /\ (\A lines \in Recordings : Settled(Events(lines)))
      => (Spec => []EndsWithBalances)
<1> SUFFICES ASSUME \A page \in Pages : InOrder(page),
                    \A lines \in Recordings : Settled(Events(lines))
             PROVE  Spec => []EndsWithBalances
  OBVIOUS
<1>1. IInv /\ EndIsTheEnd => EndsWithBalances
  <2> SUFFICES ASSUME IInv, EndIsTheEnd, position >= total,
                      NEW i \in DOMAIN story, story[i].is = "confirmed"
               PROVE  shown = "balances" /\ stage # <<>> /\ Last(stage) = "done"
    BY DEF EndsWithBalances
  <2>1. PICK page \in Pages : story = Timeline(page)
    BY DEF IInv, TypeOK, Stories
  <2>2. PICK lines \in Recordings : page = TrimToStoryEnd(Events(lines))
    BY DEF Pages, Bundle
  <2>3. /\ page \in Seq(Line) /\ story \in Seq(Entry) /\ Len(story) = Len(page)
        /\ \A k \in 1 .. Len(page) : story[k].is = page[k].is
    BY <2>1, PageShape, TimelineIs
  <2>4. Events(lines) \in Seq(Line) /\ Settled(Events(lines))
    BY EventsType, ReplayAssumption
  <2>5. i \in DOMAIN page /\ i \in 1 .. Len(page) /\ page[i].is = "confirmed"
    BY <2>3
  <2>6. Len(page) >= 2 /\ page[Len(page) - 1].is = "done" /\ page[Len(page)].is = "balances"
    BY <2>2, <2>4, <2>5, CutBehindBalances
  <2>7. Len(page) - 1 \in 1 .. Len(page) /\ Len(page) \in 1 .. Len(page)
    BY <2>3, <2>6
  <2>8. /\ Len(story) >= 2
        /\ story[Len(story) - 1].is = "done" /\ story[Len(story)].is = "balances"
    BY <2>3, <2>6, <2>7
  <2>9. /\ stage = OnStage(SubSeq(story, 1, Len(story)))
        /\ shown = LastState("none", SubSeq(story, 1, Len(story)))
    BY DEF IInv, ShowsThatMoment, EndIsTheEnd
  <2> QED
    BY <2>3, <2>8, <2>9, ShowsBalances
<1> QED
  BY <1>1, PlayerInvariant, RestsAtTheEnd, PTL
=============================================================================
