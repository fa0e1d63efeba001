------------------------- MODULE DiscoveryRecordsProofs -------------------------
(***************************************************************************)
(* Theorems about blocks, sessions, swings, breaks and discovery records,  *)
(* for any history of bars, any zones, frames and sessions.  What is       *)
(* computed bar by bar is treated by the least bar at which a claim fails. *)
(***************************************************************************)
EXTENDS DiscoveryRecords, ListFacts

-------------------------------------------------------------------------------
(* Integers. *)

LEMMA MaxOfTwo == \A a, b \in Int :
    /\ Max({a, b}) \in Int /\ Max({a, b}) >= a /\ Max({a, b}) >= b /\ Max({a, b}) \in {a, b}
    /\ Min({a, b}) \in Int /\ Min({a, b}) <= a /\ Min({a, b}) <= b /\ Min({a, b}) \in {a, b}
<1> TAKE a, b \in Int
<1>1. \E x \in {a, b} : \A y \in {a, b} : x >= y
  <2>1. CASE a >= b BY <2>1
  <2>2. CASE ~(a >= b) BY <2>2
  <2> QED BY <2>1, <2>2
<1>2. \E x \in {a, b} : \A y \in {a, b} : x <= y
  <2>1. CASE a <= b BY <2>1
  <2>2. CASE ~(a <= b) BY <2>2
  <2> QED BY <2>1, <2>2
<1> QED BY <1>1, <1>2 DEF Max, Min

LEMMA MultipleRest == \A k \in Int, n \in Nat \ {0} : (k * n) % n = 0
  OBVIOUS

LEMMA MultipleLess == \A j, k \in Int, n \in Nat \ {0} : j * n < (k + 1) * n => j <= k
<1> SUFFICES ASSUME NEW j \in Int, NEW k \in Int, NEW n \in Nat \ {0}, j > k
             PROVE  j * n >= (k + 1) * n
  BY SMT
<1>1. PICK d \in Nat : j = k + 1 + d
  <2> j - (k + 1) \in Nat /\ j = k + 1 + (j - (k + 1)) OBVIOUS
  <2> QED OBVIOUS
<1>2. j * n = (k + 1) * n + d * n BY <1>1
<1>3. d * n >= 0 OBVIOUS
<1> QED BY <1>2, <1>3

LEMMA Divide == \A a \in Int, n \in Nat \ {0} :
    a \div n \in Int /\ (a \div n) * n <= a /\ a < (a \div n) * n + n
  OBVIOUS

LEMMA Remainder == \A n \in Nat \ {0}, a \in Int : a % n = 0 => \E m \in Int : a = m * n
  OBVIOUS

-------------------------------------------------------------------------------
(* Wall times. *)

Zones == [change : Int, before : Int, after : Int]

\* The instant a wall time maps to has come when clocks show that time or a later one.
LEMMA WallTimeReached ==
  ASSUME NEW zone \in Zones, NEW w \in Int, NEW t \in Int, NEW fold \in {0, 1},
         w \notin Shifted(zone) \/ (fold = 0 /\ w - 1 \notin Shifted(zone))
  PROVE  /\ ToUtc(zone, w, fold) \in Int /\ Local(zone, t) \in Int
         /\ ToUtc(zone, w, fold) <= t <=> w <= Local(zone, t)
<1> DEFINE low == Min({zone.before, zone.after})
           high == Max({zone.before, zone.after})
<1>1. zone.change \in Int /\ zone.before \in Int /\ zone.after \in Int BY DEF Zones
<1>2. /\ low \in Int /\ low <= zone.before /\ low <= zone.after /\ low \in {zone.before, zone.after}
      /\ high \in Int /\ high >= zone.before /\ high >= zone.after
      /\ high \in {zone.before, zone.after}
  BY <1>1, MaxOfTwo
<1>3. Shifted(zone) = zone.change + low .. zone.change + high - 1 BY DEF Shifted
<1>4. ToUtc(zone, w, fold) = w - (IF w < zone.change + (IF fold = 0 THEN high ELSE low)
                                  THEN zone.before ELSE zone.after)
  BY DEF ToUtc
<1>5. Local(zone, t) = t + (IF t < zone.change THEN zone.before ELSE zone.after)
  BY DEF Local, Offset
<1> HIDE DEF low, high
<1>6. \/ w < zone.change + low \/ w >= zone.change + high
      \/ fold = 0 /\ w = zone.change + low
  BY <1>1, <1>2, <1>3
<1> QED BY <1>1, <1>2, <1>4, <1>5, <1>6

-------------------------------------------------------------------------------
(* Blocks. *)

\* The boundaries of a frame, as wall times.
Boundary(frame, w) == \E k \in Int : w = frame.anchor + k * frame.size

\* What FramesAssumption says of a frame.
Frame(frame) == /\ frame.size \in Nat \ {0} /\ frame.anchor \in Int /\ frame.zone \in Zones
                /\ Day % frame.size = 0
                /\ \A w \in Shifted(frame.zone) :
                      w - 1 \in Shifted(frame.zone) => (w - frame.anchor) % frame.size # 0

LEMMA FramesAreFrames == \A f \in DOMAIN Frames : Frame(Frames[f])
  BY FramesAssumption, DayAssumption DEF TilesDay, Frame, Zones

LEMMA BoundaryReached ==
  ASSUME NEW frame, Frame(frame), NEW w, Boundary(frame, w), NEW t \in Int
  PROVE  /\ w \in Int /\ ToUtc(frame.zone, w, 0) \in Int /\ Local(frame.zone, t) \in Int
         /\ ToUtc(frame.zone, w, 0) <= t <=> w <= Local(frame.zone, t)
<1>1. PICK k \in Int : w = frame.anchor + k * frame.size BY DEF Boundary
<1>2. frame.size \in Nat \ {0} /\ frame.anchor \in Int /\ frame.zone \in Zones BY DEF Frame
<1>3. w \in Int /\ w - frame.anchor = k * frame.size BY <1>1, <1>2
<1>4. (w - frame.anchor) % frame.size = 0 BY <1>2, <1>3, MultipleRest
<1>5. w \notin Shifted(frame.zone) \/ w - 1 \notin Shifted(frame.zone) BY <1>4 DEF Frame
<1>6. 0 \in {0, 1} OBVIOUS
<1>7. w \notin Shifted(frame.zone) \/ (0 = 0 /\ w - 1 \notin Shifted(frame.zone)) BY <1>5
<1> QED BY <1>2, <1>3, <1>6, <1>7, WallTimeReached

\* The start of the block of a wall time.
BlockStart(frame, w) ==
  CHOOSE x \in Int : Boundary(frame, x) /\ x <= w /\ w < x + frame.size

LEMMA BoundaryUnique ==
  ASSUME NEW frame, Frame(frame), NEW x, NEW y, Boundary(frame, x), Boundary(frame, y),
         NEW w \in Int, x <= w, w < y + frame.size
  PROVE  x <= y
<1>1. PICK j \in Int : x = frame.anchor + j * frame.size BY DEF Boundary
<1>2. PICK k \in Int : y = frame.anchor + k * frame.size BY DEF Boundary
<1>3. frame.size \in Nat \ {0} /\ frame.anchor \in Int BY DEF Frame
<1>4. j * frame.size \in Int /\ k * frame.size \in Int
      /\ (k + 1) * frame.size = k * frame.size + frame.size
  BY <1>3
<1>5. j * frame.size < (k + 1) * frame.size BY <1>1, <1>2, <1>3, <1>4
<1>6. j <= k BY <1>3, <1>5, MultipleLess
<1>7. j * frame.size <= k * frame.size
  <2>1. PICK d \in Nat : k = j + d
    <3> k - j \in Nat /\ k = j + (k - j) BY <1>6
    <3> QED OBVIOUS
  <2>2. k * frame.size = j * frame.size + d * frame.size BY <2>1, <1>3
  <2>3. d * frame.size \in Nat BY <1>3
  <2> QED BY <2>2, <2>3, <1>4
<1> QED BY <1>1, <1>2, <1>3, <1>4, <1>7

LEMMA NextBoundary ==
  ASSUME NEW frame, Frame(frame), NEW w, Boundary(frame, w)
  PROVE  Boundary(frame, w + frame.size)
<1>1. PICK k \in Int : w = frame.anchor + k * frame.size BY DEF Boundary
<1>2. frame.size \in Nat \ {0} /\ frame.anchor \in Int BY DEF Frame
<1>3. w + frame.size = frame.anchor + (k + 1) * frame.size
  <2>1. (k + 1) * frame.size = k * frame.size + frame.size BY <1>2
  <2> QED BY <1>1, <1>2, <2>1
<1>4. k + 1 \in Int OBVIOUS
<1> QED BY <1>3, <1>4 DEF Boundary

\* The block of an instant runs from one boundary to the next, around its wall time.
LEMMA BlockAround ==
  ASSUME NEW frame, Frame(frame), NEW t \in Int
  PROVE  \E x \in Int :
           /\ Boundary(frame, x) /\ x <= Local(frame.zone, t)
           /\ Local(frame.zone, t) < x + frame.size
           /\ ResolveBlock(t, frame).start = ToUtc(frame.zone, x, 0)
           /\ ResolveBlock(t, frame).end = ToUtc(frame.zone, x + frame.size, 0)
<1> DEFINE wall == Local(frame.zone, t)
           today == (wall \div Day) * Day + frame.anchor
           anchor == IF wall < today THEN today - Day ELSE today
           index == (wall - anchor) \div frame.size
           start == anchor + index * frame.size
<1>1. frame.size \in Nat \ {0} /\ frame.anchor \in Int /\ frame.zone \in Zones /\ Day \in Nat \ {0}
  BY DayAssumption DEF Frame
<1>2. wall \in Int BY <1>1 DEF Local, Offset, Zones
<1> HIDE DEF wall
<1>3. PICK m \in Int : Day = m * frame.size
  <2>1. Day \in Int /\ Day % frame.size = 0 BY <1>1 DEF Frame
  <2> QED BY <1>1, <2>1, Remainder
<1>4. wall \div Day \in Int BY <1>1, <1>2, Divide
<1>5. PICK d \in Int : anchor = frame.anchor + d * Day
  <2>1. CASE wall < today
    <3>1. today - Day = frame.anchor + ((wall \div Day) - 1) * Day BY <1>1, <1>4
    <3>2. (wall \div Day) - 1 \in Int BY <1>4
    <3> QED BY <2>1, <3>1, <3>2
  <2>2. CASE ~(wall < today)
    <3>1. today = frame.anchor + (wall \div Day) * Day BY <1>1, <1>4
    <3> QED BY <2>2, <3>1, <1>4
  <2> QED BY <2>1, <2>2
<1>6. anchor \in Int BY <1>1, <1>5
<1> HIDE DEF anchor
<1>7. index \in Int /\ index * frame.size <= wall - anchor
      /\ wall - anchor < index * frame.size + frame.size
  <2>1. wall - anchor \in Int BY <1>2, <1>6
  <2> QED BY <1>1, <2>1, Divide
<1>8. start = frame.anchor + (d * m + index) * frame.size
  <2>1. d * Day = (d * m) * frame.size BY <1>3, <1>1
  <2> HIDE DEF index
  <2>2. (d * m + index) * frame.size = (d * m) * frame.size + index * frame.size BY <1>1, <1>7
  <2> QED BY <2>1, <2>2, <1>1, <1>5, <1>7
<1> HIDE DEF index
<1>9. d * m + index \in Int /\ index * frame.size \in Int BY <1>7, <1>1
<1>10. start \in Int /\ start <= wall /\ wall < start + frame.size
  BY <1>1, <1>2, <1>6, <1>7, <1>9
<1>11. Boundary(frame, start) BY <1>8, <1>9 DEF Boundary
<1>12. /\ ResolveBlock(t, frame).start = ToUtc(frame.zone, start, 0)
       /\ ResolveBlock(t, frame).end = ToUtc(frame.zone, start + frame.size, 0)
  BY DEF ResolveBlock, index, anchor, wall
<1> HIDE DEF start
<1> QED BY <1>10, <1>11, <1>12 DEF wall

\* Blocks hold the instants that resolve to them, and leave no gap between them.
LEMMA BlocksTile ==
  ASSUME NEW frame, Frame(frame), NEW t \in Int
  PROVE  LET b == ResolveBlock(t, frame)
         IN  /\ b.start \in Int /\ b.end \in Int /\ b.start <= t /\ t < b.end
             /\ \A u \in Int : b.start <= u /\ u < b.end =>
                  ResolveBlock(u, frame).start = b.start /\ ResolveBlock(u, frame).end = b.end
             /\ ResolveBlock(b.start - 1, frame).end = b.start
<1> DEFINE U(w) == ToUtc(frame.zone, w, 0)
           L(u) == Local(frame.zone, u)
           B(u) == ResolveBlock(u, frame)
<1>1. frame.size \in Nat \ {0} BY DEF Frame
<1>2. \A w, u : Boundary(frame, w) /\ u \in Int =>
        w \in Int /\ U(w) \in Int /\ L(u) \in Int /\ (U(w) <= u <=> w <= L(u))
  BY BoundaryReached
<1>3. \A w : Boundary(frame, w) => Boundary(frame, w + frame.size) BY NextBoundary
<1>4. \A u \in Int : \E x \in Int :
        /\ Boundary(frame, x) /\ x <= L(u) /\ L(u) < x + frame.size
        /\ B(u).start = U(x) /\ B(u).end = U(x + frame.size)
  BY BlockAround
<1>5. \A x, y, w : Boundary(frame, x) /\ Boundary(frame, y) /\ w \in Int
                     /\ x <= w /\ w < y + frame.size => x <= y
  BY BoundaryUnique
<1> HIDE DEF U, L, B
<1>6. PICK x \in Int : /\ Boundary(frame, x) /\ x <= L(t) /\ L(t) < x + frame.size
                       /\ B(t).start = U(x) /\ B(t).end = U(x + frame.size)
  BY <1>4
<1>7. Boundary(frame, x + frame.size) BY <1>3, <1>6
<1>8. L(t) \in Int /\ U(x) \in Int /\ U(x + frame.size) \in Int /\ U(x) <= t /\ t < U(x + frame.size)
  <2>1. PICK n : n = x + frame.size OBVIOUS
  <2>2. Boundary(frame, n) BY <1>7, <2>1
  <2>3. L(t) \in Int /\ U(x) \in Int /\ (U(x) <= t <=> x <= L(t)) BY <1>2, <1>6
  <2>4. n \in Int /\ U(n) \in Int /\ (U(n) <= t <=> n <= L(t)) BY <1>2, <2>2
  <2>5. U(n) > t BY <2>1, <2>3, <2>4, <1>6
  <2> QED BY <2>1, <2>3, <2>4, <2>5, <1>6
<1>9. ASSUME NEW u \in Int, U(x) <= u, u < U(x + frame.size)
      PROVE  B(u).start = B(t).start /\ B(u).end = B(t).end
  <2>1. L(u) \in Int /\ x <= L(u) /\ L(u) < x + frame.size BY <1>1, <1>2, <1>6, <1>7, <1>9
  <2>2. PICK y \in Int : /\ Boundary(frame, y) /\ y <= L(u) /\ L(u) < y + frame.size
                         /\ B(u).start = U(y) /\ B(u).end = U(y + frame.size)
    BY <1>4
  <2>3. x <= y BY <1>5, <1>6, <2>1, <2>2
  <2>4. y <= x BY <1>5, <1>6, <2>1, <2>2
  <2>5. x = y BY <2>3, <2>4
  <2> QED BY <1>6, <2>2, <2>5
<1>10. B(U(x) - 1).end = U(x)
  <2>1. U(x) - 1 \in Int BY <1>8
  <2>2. PICK y \in Int : /\ Boundary(frame, y) /\ y <= L(U(x) - 1)
                         /\ L(U(x) - 1) < y + frame.size
                         /\ B(U(x) - 1).end = U(y + frame.size)
    BY <1>4, <2>1
  <2>3. Boundary(frame, y + frame.size) BY <1>3, <2>2
  <2>4. L(U(x) - 1) \in Int /\ L(U(x) - 1) < x /\ L(U(x)) \in Int /\ x <= L(U(x))
    BY <1>2, <1>6, <1>8, <2>1
  <2>5. U(y + frame.size) \in Int /\ U(y + frame.size) >= U(x)
    <3>1. U(y + frame.size) \in Int /\ ~(U(y + frame.size) <= U(x) - 1)
      BY <1>2, <2>1, <2>2, <2>3, <2>4, <1>1
    <3> QED BY <3>1, <1>8
  <2>6. y + frame.size <= x
    <3>1. x <= y \/ y < x BY <2>2, <1>6
    <3>2. ~(x <= y) BY <2>2, <2>4, <1>6
    <3>3. SUFFICES ASSUME x < y + frame.size PROVE FALSE BY <1>1, <1>6, <2>2
    <3>4. x \in Int /\ x <= x BY <1>6
    <3>5. x <= y BY <1>5, <1>6, <2>2, <3>3, <3>4
    <3> QED BY <3>2, <3>5
  <2>7. U(y + frame.size) <= U(x) BY <1>2, <1>8, <2>3, <2>4, <2>6, <1>1, <1>6, <2>2
  <2> QED BY <2>2, <2>5, <2>7, <1>8
<1>11. /\ B(t).start \in Int /\ B(t).end \in Int /\ B(t).start <= t /\ t < B(t).end
       /\ \A u \in Int : B(t).start <= u /\ u < B(t).end =>
            B(u).start = B(t).start /\ B(u).end = B(t).end
       /\ B(B(t).start - 1).end = B(t).start
  BY <1>6, <1>8, <1>9, <1>10
<1> QED BY <1>11 DEF B

\* The search for the latest completed block stops at the block before the one
\* that is under way: the probe moves back once.
LEMMA ExpectedIsPreceding ==
  ASSUME NEW frame, Frame(frame), NEW decision \in Int
  PROVE  LET b == ResolveBlock(decision, frame)
         IN  ExpectedCompletedWindow(decision, frame) = Window(ResolveBlock(b.start - 1, frame))
<1> DEFINE B(p) == ResolveBlock(p, frame)
           found == Window(B(B(decision).start - 1))
           step(g) == [p \in Int |-> IF B(p).start < B(p).end /\ B(p).end <= decision
                                        THEN Window(B(p))
                                     ELSE IF B(p).start - 1 >= p THEN NoWindow
                                     ELSE g[B(p).start - 1]]
           probe == CHOOSE g : g = step(g)
           closed == [p \in Int |-> IF B(p).start < B(p).end /\ B(p).end <= decision
                                     THEN Window(B(p)) ELSE found]
<1>1. \A p \in Int : /\ B(p).start \in Int /\ B(p).end \in Int /\ B(p).start <= p /\ p < B(p).end
                      /\ \A u \in Int : B(p).start <= u /\ u < B(p).end =>
                           B(u).start = B(p).start /\ B(u).end = B(p).end
                      /\ B(B(p).start - 1).end = B(p).start
  BY BlocksTile
<1>2. ExpectedCompletedWindow(decision, frame) = probe[decision]
  BY DEF ExpectedCompletedWindow
<1> HIDE DEF B
<1>3. closed = step(closed)
  <2>1. ASSUME NEW p \in Int PROVE closed[p] = step(closed)[p]
    <3> DEFINE q == B(p).start - 1
    <3>0. q \in Int /\ q < p /\ B(q).start \in Int /\ B(q).end = B(p).start /\ B(q).start < B(q).end
      BY <1>1
    <3>1. CASE B(p).end <= decision BY <3>1, <1>1
    <3>2. CASE B(p).end > decision
      <4>1. closed[p] = found /\ step(closed)[p] = closed[q] BY <3>2, <3>0, <1>1
      <4>2. CASE B(q).end <= decision
        <5>1. B(p).start <= decision BY <4>2, <3>0
        <5>2. B(decision).start = B(p).start BY <5>1, <3>2, <1>1
        <5>3. closed[q] = Window(B(q)) BY <4>2, <3>0
        <5> QED BY <4>1, <5>2, <5>3
      <4>3. CASE ~(B(q).end <= decision)
        <5>1. closed[q] = found BY <4>3, <3>0
        <5> QED BY <4>1, <5>1
      <4> QED BY <4>2, <4>3
    <3> QED BY <3>1, <3>2, <1>1
  <2> QED BY <2>1
<1>4. probe = step(probe) BY <1>3
<1> HIDE DEF probe, closed, found
<1>5. probe[decision] = probe[B(decision).start - 1] BY <1>4, <1>1
<1>6. probe[B(decision).start - 1] = Window(B(B(decision).start - 1))
  <2> DEFINE q == B(decision).start - 1
  <2>1. q \in Int /\ B(q).start \in Int /\ B(q).start < B(q).end /\ B(q).end <= decision BY <1>1
  <2> HIDE DEF q
  <2>2. probe[q] = Window(B(q)) BY <1>4, <2>1
  <2> QED BY <2>2 DEF q
<1> QED BY <1>2, <1>5, <1>6 DEF B

\* The expected window has ended, and no block that has ended is later.
LEMMA ExpectedHasEnded ==
  ASSUME NEW frame, Frame(frame), NEW decision \in Int
  PROVE  LET w == ExpectedCompletedWindow(decision, frame)
         IN  /\ w.start \in Int /\ w.end \in Int /\ w.start < w.end /\ w.end <= decision
             /\ \A t \in Int :
                  LET b == ResolveBlock(t, frame)
                  IN  b.start < b.end /\ b.end <= decision => b.end <= w.end
<1> DEFINE B(p) == ResolveBlock(p, frame)
           w == ExpectedCompletedWindow(decision, frame)
           q == B(decision).start - 1
<1>1. \A p \in Int : /\ B(p).start \in Int /\ B(p).end \in Int /\ B(p).start <= p /\ p < B(p).end
                      /\ \A u \in Int : B(p).start <= u /\ u < B(p).end =>
                           B(u).start = B(p).start /\ B(u).end = B(p).end
                      /\ B(B(p).start - 1).end = B(p).start
  BY BlocksTile
<1>2. w = Window(B(q)) BY ExpectedIsPreceding
<1> HIDE DEF B, w
<1>3. q \in Int /\ B(q).end = B(decision).start /\ B(decision).start <= decision
      /\ B(q).start \in Int /\ B(q).end \in Int /\ B(q).start < B(q).end
  BY <1>1
<1>4. w.start = B(q).start /\ w.end = B(decision).start BY <1>2, <1>3 DEF Window
<1>5. ASSUME NEW t \in Int, B(t).end <= decision, B(t).end > B(decision).start PROVE FALSE
  <2> DEFINE u == B(t).end - 1
  <2>1. u \in Int /\ B(t).start <= u /\ u < B(t).end BY <1>1
  <2>2. B(u).end = B(t).end BY <1>1, <2>1
  <2>3. B(decision).start <= u /\ u < B(decision).end BY <1>1, <1>5, <2>1
  <2>4. B(u).end = B(decision).end BY <1>1, <2>1, <2>3
  <2>5. B(decision).end > decision BY <1>1
  <2> QED BY <1>1, <1>5, <2>2, <2>4, <2>5
<1>6. \A t \in Int : B(t).start < B(t).end /\ B(t).end <= decision => B(t).end <= w.end
  BY <1>1, <1>4, <1>5
<1> QED BY <1>3, <1>4, <1>6 DEF B, w

-------------------------------------------------------------------------------
(* Sessions. *)

\* Only today's session may not have started: sessions follow each other by a day.
LEMMA RelevantHasStarted ==
  ASSUME NEW id \in DOMAIN Sessions, NEW decision \in Int
  PROVE  LET w == Relevant(Sessions[id], decision)
         IN  /\ w.start <= decision
             /\ \A d \in w.date - 1 .. w.date + 2 :
                  SessionWindow(Sessions[id], d).start <= decision => d <= w.date
<1> DEFINE s == Sessions[id]
           now == Local(s.zone, decision)
           today == now \div Day
           from(d) == d * Day + s.start
           started(d) == SessionWindow(s, d).start <= decision
<1>1. /\ Day \in Nat \ {0} /\ s.start \in 0 .. Day - 1 /\ s.startFold \in {0, 1} /\ s.zone \in Zones
      /\ \A x \in Shifted(s.zone) : (x - s.start) % Day # 0
  BY DayAssumption, SessionsAssumption DEF Zones
<1>2. now \in Int BY <1>1 DEF Local, Offset, Zones
<1>3. \A d \in Int : SessionWindow(s, d).date = d
                      /\ SessionWindow(s, d).start = ToUtc(s.zone, from(d), s.startFold)
  BY DEF SessionWindow
<1> HIDE DEF s
<1>4. ASSUME NEW d \in Int PROVE started(d) <=> from(d) <= now
  <2>1. from(d) \in Int /\ from(d) - s.start = d * Day BY <1>1
  <2>2. (from(d) - s.start) % Day = 0 BY <1>1, <2>1, MultipleRest
  <2>3. from(d) \notin Shifted(s.zone) BY <1>1, <2>2
  <2>4. ToUtc(s.zone, from(d), s.startFold) <= decision <=> from(d) <= Local(s.zone, decision)
    BY <1>1, <2>1, <2>3, WallTimeReached
  <2> QED BY <1>3, <2>4
<1> HIDE DEF now
<1>5. today \in Int /\ today * Day <= now /\ now < today * Day + Day BY <1>1, <1>2, Divide
<1> HIDE DEF today
<1>6. /\ today * Day \in Int /\ (today + 1) * Day = today * Day + Day
      /\ (today + 2) * Day = today * Day + 2 * Day /\ (today - 1) * Day = today * Day - Day
      /\ 2 * Day >= Day
  BY <1>1, <1>5
<1>7. /\ started(today - 1) /\ ~started(today + 1) /\ ~started(today + 2)
  <2>1. from(today - 1) <= now /\ ~(from(today + 1) <= now) /\ ~(from(today + 2) <= now)
    BY <1>1, <1>2, <1>5, <1>6
  <2> HIDE DEF started, from
  <2>2. today - 1 \in Int /\ today + 1 \in Int /\ today + 2 \in Int BY <1>5
  <2> QED BY <1>4, <2>1, <2>2
<1> DEFINE w == Relevant(s, decision)
<1>8. w = IF started(today) THEN SessionWindow(s, today) ELSE SessionWindow(s, today - 1)
  <2>1. ToUtc(s.zone, from(today), s.startFold) \in Int
    BY <1>1, <1>5, <1>6 DEF ToUtc, Zones, Min, Max
  <2>2. SessionWindow(s, today).start > decision <=> ~started(today) BY <1>3, <1>5, <2>1
  <2>3. w = IF SessionWindow(s, today).start > decision THEN SessionWindow(s, today - 1)
            ELSE SessionWindow(s, today)
    BY DEF Relevant, today, now
  <2> QED BY <2>2, <2>3
<1>9. CASE started(today)
  <2>1. w.start <= decision /\ w.date = today BY <1>3, <1>5, <1>8, <1>9
  <2> HIDE DEF started, w
  <2>2. \A d \in today - 1 .. today + 2 : started(d) => d <= today BY <1>5, <1>7
  <2> QED BY <2>1, <2>2 DEF w, s, started
<1>10. CASE ~started(today)
  <2>1. w.start <= decision /\ w.date = today - 1 BY <1>3, <1>5, <1>7, <1>8, <1>10
  <2> HIDE DEF started, w
  <2>2. \A d \in (today - 1) - 1 .. (today - 1) + 2 : started(d) => d <= today - 1
    BY <1>5, <1>7, <1>10
  <2> QED BY <2>1, <2>2 DEF w, s, started
<1> QED BY <1>9, <1>10

-------------------------------------------------------------------------------
(* Causality of snapshots. *)

\* Two histories that have the same bars up to an instant.
AgreeBefore(g, h, d) ==
  /\ DOMAIN g \subseteq Int /\ DOMAIN h \subseteq Int
  /\ \A t \in Int : t < d => (t \in DOMAIN g <=> t \in DOMAIN h)
  /\ \A t \in DOMAIN g : t < d => g[t] = h[t]

\* The completed blocks of a window.
InWindow(history, decision, frame, w) ==
  {x \in CompletedBlocks(history, decision, frame) : Window(x.block) = w}

\* A block that had ended by d is found with the same candle in a history that
\* has other bars from d on.
LEMMA WindowCarries ==
  ASSUME NEW frame, Frame(frame), NEW d \in Int, NEW e \in Int, NEW i \in Int, d <= e, d <= i,
         NEW g, NEW h, AgreeBefore(g, h, d), NEW w, w.end <= d
  PROVE  InWindow(g, e, frame, w) \subseteq InWindow(h, i, frame, w)
<1> DEFINE B(t) == ResolveBlock(t, frame)
           Members(k, j, b) == {t \in Completed(k, j) : B(t).start = b.start /\ B(t).end = b.end}
           Whole(k, j, b) == Members(k, j, b) = b.start .. b.end - 1
<1>1. \A k, j : CompletedBlocks(k, j, frame) =
        {[block |-> b, candle |-> Merge(k, b.start, b.end)] :
           b \in {x \in {y \in {B(t) : t \in Completed(k, j)} : y.end <= j} : Whole(k, j, x)}}
  BY DEF CompletedBlocks
<1>2. \A t \in Int : B(t).start \in Int /\ B(t).end \in Int /\ B(t).start <= t /\ t < B(t).end
  BY BlocksTile
<1> HIDE DEF B
<1>3. \A k, j, t : t \in Completed(k, j) <=> t \in DOMAIN k /\ t + 1 <= j BY DEF Completed
<1> SUFFICES ASSUME NEW x \in InWindow(g, e, frame, w) PROVE x \in InWindow(h, i, frame, w)
  OBVIOUS
<1>4. PICK t : /\ t \in Completed(g, e) /\ B(t).end <= e /\ Whole(g, e, B(t))
               /\ x = [block |-> B(t), candle |-> Merge(g, B(t).start, B(t).end)]
  <2> HIDE DEF Whole
  <2> QED BY <1>1 DEF InWindow
<1>5. PICK b : b = B(t) OBVIOUS
<1>6. t \in Int /\ t \in DOMAIN g BY <1>3, <1>4 DEF AgreeBefore
<1>7. b.start \in Int /\ b.end \in Int /\ b.start <= t /\ t < b.end /\ b.end <= d
  <2>1. Window(b) = w BY <1>4, <1>5 DEF InWindow
  <2>2. b.end = w.end BY <2>1 DEF Window
  <2> QED BY <1>2, <1>5, <1>6, <2>2
<1>8. \A u : u \in Int /\ u < b.end => (u \in Completed(g, e) <=> u \in Completed(h, i))
  BY <1>3, <1>7 DEF AgreeBefore
<1>9. \A k, j, u : u \in Members(k, j, b) =>
        u \in Completed(k, j) /\ (u \in Int => u < b.end)
  BY <1>2
<1>10. Members(h, i, b) = Members(g, e, b)
  <2>1. DOMAIN g \subseteq Int /\ DOMAIN h \subseteq Int BY DEF AgreeBefore
  <2>2. \A u : u \in Members(h, i, b) => u \in Int /\ u \in Completed(g, e)
    BY <1>3, <1>8, <1>9, <2>1
  <2>3. \A u : u \in Members(g, e, b) => u \in Int /\ u \in Completed(h, i)
    BY <1>3, <1>8, <1>9, <2>1
  <2> QED BY <2>2, <2>3
<1>11. Whole(g, e, b) BY <1>4, <1>5
<1>12. \A u \in b.start .. b.end - 1 : u \in DOMAIN g /\ g[u] = h[u]
  <2>1. \A u \in b.start .. b.end - 1 : u \in Completed(g, e) BY <1>11
  <2> QED BY <1>3, <1>7, <2>1 DEF AgreeBefore
<1>13. Merge(g, b.start, b.end) = Merge(h, b.start, b.end)
  <2>1. b.start \in b.start .. b.end - 1 /\ b.end - 1 \in b.start .. b.end - 1 BY <1>6, <1>7
  <2>2. /\ {g[u].h : u \in b.start .. b.end - 1} = {h[u].h : u \in b.start .. b.end - 1}
        /\ {g[u].l : u \in b.start .. b.end - 1} = {h[u].l : u \in b.start .. b.end - 1}
    BY <1>12
  <2> QED BY <1>12, <2>1, <2>2 DEF Merge
<1>14. t \in Completed(h, i) /\ b.end <= i /\ Whole(h, i, b)
  BY <1>4, <1>6, <1>7, <1>8, <1>10, <1>11
<1>15. x \in CompletedBlocks(h, i, frame)
  <2> HIDE DEF Whole
  <2> QED BY <1>1, <1>4, <1>5, <1>13, <1>14
<1> QED BY <1>15 DEF InWindow

\* The candle of the expected window is the same in both.
LEMMA CandleSettled ==
  ASSUME NEW frame, Frame(frame), NEW d \in Int, NEW e \in Int, NEW i \in Int, d <= e, d <= i,
         NEW g, NEW h, AgreeBefore(g, h, d)
  PROVE  LET w == ExpectedCompletedWindow(d, frame)
         IN  CandleOf(CompletedBlocks(g, e, frame), w) = CandleOf(CompletedBlocks(h, i, frame), w)
<1> DEFINE w == ExpectedCompletedWindow(d, frame)
<1>1. w.end <= d BY ExpectedHasEnded
<1>2. AgreeBefore(h, g, d)
  <2>1. \A t \in DOMAIN h : t < d => t \in DOMAIN g BY DEF AgreeBefore
  <2> QED BY <2>1 DEF AgreeBefore
<1> HIDE DEF w
<1>3. InWindow(g, e, frame, w) = InWindow(h, i, frame, w)
  <2>1. InWindow(g, e, frame, w) \subseteq InWindow(h, i, frame, w) BY <1>1, WindowCarries
  <2>2. InWindow(h, i, frame, w) \subseteq InWindow(g, e, frame, w) BY <1>1, <1>2, WindowCarries
  <2> QED BY <2>1, <2>2
<1>4. \A k, j : CandleOf(CompletedBlocks(k, j, frame), w) =
               IF InWindow(k, j, frame, w) = {} THEN NoBar
               ELSE (CHOOSE x \in InWindow(k, j, frame, w) : TRUE).candle
  BY DEF CandleOf, InWindow
<1> QED BY <1>3, <1>4 DEF w

\* The snapshot of a one-pass history is one asked for of the bars so far.
LEMMA SnapshotSettled ==
  ASSUME NEW g, NEW h, NEW t \in DOMAIN g, AgreeBefore(g, h, t + 1),
         NEW m \in DOMAIN g, \A u \in DOMAIN g : u <= m
  PROVE  HistoricalSnapshots(g)[t] = MultiTimeframeSnapshot(h, t + 1)
<1>1. t \in Int /\ m \in Int /\ t <= m /\ t + 1 \in Int /\ m + 1 \in Int BY DEF AgreeBefore
<1>2. Max(DOMAIN g) = m
  <2>1. DOMAIN g \subseteq Int BY DEF AgreeBefore
  <2>2. \A x \in DOMAIN g : (\A y \in DOMAIN g : x >= y) => x = m BY <2>1
  <2>3. m \in DOMAIN g /\ \A y \in DOMAIN g : m >= y BY <2>1
  <2>4. Max(DOMAIN g) \in DOMAIN g /\ \A y \in DOMAIN g : Max(DOMAIN g) >= y BY <2>3 DEF Max
  <2> QED BY <2>2, <2>4
<1>3. (t + 1) - 1 = t /\ t \in DOMAIN h /\ g[t] = h[t] BY <1>1 DEF AgreeBefore
<1> DEFINE w(f) == ExpectedCompletedWindow(t + 1, Frames[f])
<1>4. \A f \in DOMAIN Frames :
        CandleOf(CompletedBlocks(g, m + 1, Frames[f]), w(f)) =
        CandleOf(CompletedBlocks(h, t + 1, Frames[f]), w(f))
  <2> TAKE f \in DOMAIN Frames
  <2>1. Frame(Frames[f]) BY FramesAreFrames
  <2> QED BY <1>1, <2>1, CandleSettled
<1> HIDE DEF w
<1>5. HistoricalSnapshots(g)[t] =
        [decision |-> t + 1, base |-> g[t],
         frames |-> [f \in DOMAIN Frames |->
           [window |-> w(f), candle |-> CandleOf(CompletedBlocks(g, m + 1, Frames[f]), w(f))]]]
  BY <1>2 DEF HistoricalSnapshots, w
<1>6. MultiTimeframeSnapshot(h, t + 1) =
        [decision |-> t + 1, base |-> h[t],
         frames |-> [f \in DOMAIN Frames |->
           [window |-> w(f), candle |-> CandleOf(CompletedBlocks(h, t + 1, Frames[f]), w(f))]]]
  BY <1>3 DEF MultiTimeframeSnapshot, w
<1> QED BY <1>3, <1>4, <1>5, <1>6

-------------------------------------------------------------------------------
(* The series of a segment. *)

IsSegment(g, a, b) == a \in Int /\ b \in Int /\ a <= b + 1 /\ DOMAIN g = a .. b

LEMMA SeriesLists ==
  ASSUME NEW g, NEW a, NEW b, IsSegment(g, a, b)
  PROVE  IsList(Series(g), b + 1 - a) /\ \A i \in 1 .. b + 1 - a : Series(g)[i] = g[a + i - 1]
<1> DEFINE n == b + 1 - a
           times == InOrder(DOMAIN g)
<1>1. n \in Nat /\ times = [k \in 1 .. n |-> a + k - 1] BY InOrderInterval DEF IsSegment
<1>2. PICK f : f = [i \in 1 .. n |-> g[a + i - 1]] OBVIOUS
<1>3. IsList(f, n) BY <1>1, <1>2 DEF IsList
<1>4. Series(g) = Listed([i \in DOMAIN times |-> g[times[i]]]) BY DEF Series
<1>5. [i \in DOMAIN times |-> g[times[i]]] = f BY <1>1, <1>2
<1>6. Series(g) = f BY <1>3, <1>4, <1>5, ListIsSequence
<1> QED BY <1>2, <1>3, <1>6

LEMMA SeriesBegin ==
  ASSUME NEW g, NEW h, NEW a, NEW b, NEW c, IsSegment(g, a, b), IsSegment(h, a, c), b <= c,
         \A t \in a .. b : g[t] = h[t]
  PROVE  Begins(Series(g), b + 1 - a, Series(h), c + 1 - a)
<1>1. \A i \in 1 .. b + 1 - a : a + i - 1 \in a .. b /\ i \in 1 .. c + 1 - a BY DEF IsSegment
<1>2. IsList(Series(g), b + 1 - a) /\ IsList(Series(h), c + 1 - a) BY SeriesLists
<1>3. \A i \in 1 .. b + 1 - a : Series(g)[i] = g[a + i - 1] BY SeriesLists
<1>4. \A i \in 1 .. c + 1 - a : Series(h)[i] = h[a + i - 1] BY SeriesLists
<1>5. \A i \in 1 .. b + 1 - a : Series(g)[i] = Series(h)[i] BY <1>1, <1>3, <1>4
<1>6. b + 1 - a <= c + 1 - a BY DEF IsSegment
<1> QED BY <1>2, <1>5, <1>6 DEF Begins

-------------------------------------------------------------------------------
(* Swings. *)

\* What is found in f by bar n is what g finds by bar n, in the same order.
Settles(f, p, g, q, n) == /\ Begins(f, p, g, q)
                          /\ \A k \in 1 .. q : g[k].at \in Nat \ {0}
                          /\ \A k \in 1 .. p : g[k].at <= n
                          /\ \A k \in p + 1 .. q : g[k].at > n

Pivots(s, kind) ==
  {i \in Left + 1 .. Len(s) - Right :
     \A j \in (i - Left .. i + Right) \ {i} : Beyond(kind, Extreme(kind, s[i]), Extreme(kind, s[j]))}

LEMMA SwingsList ==
  ASSUME NEW s, NEW n, IsList(s, n), NEW kind
  PROVE  /\ Pivots(s, kind) \in SUBSET Int /\ IsFiniteSet(Pivots(s, kind))
         /\ IsList(ConfirmedSwings(s, kind), Cardinality(Pivots(s, kind)))
         /\ \A k \in 1 .. Cardinality(Pivots(s, kind)) :
              LET i == InOrder(Pivots(s, kind))[k]
              IN  /\ i \in Pivots(s, kind)
                  /\ ConfirmedSwings(s, kind)[k] =
                       [index |-> i, at |-> i + Right, price |-> Extreme(kind, s[i])]
<1> DEFINE P == Pivots(s, kind)
           order == InOrder(P)
<1>1. Left \in Nat \ {0} /\ Right \in Nat \ {0} /\ n \in Nat /\ Len(s) = n
  BY StructureAssumption, ListIsSequence DEF IsList
<1>2. P \in SUBSET (Left + 1 .. n - Right) BY <1>1 DEF Pivots
<1>3. Left + 1 \in Int /\ n - Right \in Int BY <1>1
<1>4. P \in SUBSET Int /\ IsFiniteSet(P) BY <1>2, <1>3, FS_Interval, FS_Subset
<1>5. ConfirmedSwings(s, kind) =
        Listed([k \in DOMAIN order |-> [index |-> order[k], at |-> order[k] + Right,
                                        price |-> Extreme(kind, s[order[k]])]])
  BY DEF ConfirmedSwings, Pivots
<1> HIDE DEF P
<1>6. /\ IsList(order, Cardinality(P)) /\ \A k \in 1 .. Cardinality(P) : order[k] \in P
  BY <1>4, InOrderLists
<1>7. DOMAIN order = 1 .. Cardinality(P) BY <1>6 DEF IsList
<1> HIDE DEF order
<1>8. PICK f : f = [k \in 1 .. Cardinality(P) |-> [index |-> order[k], at |-> order[k] + Right,
                                                  price |-> Extreme(kind, s[order[k]])]]
  OBVIOUS
<1>9. Cardinality(P) \in Nat /\ IsList(f, Cardinality(P)) BY <1>6, <1>8 DEF IsList
<1>10. ConfirmedSwings(s, kind) = f BY <1>5, <1>7, <1>8, <1>9, ListIsSequence
<1> QED BY <1>4, <1>6, <1>8, <1>9, <1>10 DEF P, order

SwingCount(s, kind) == Cardinality(Pivots(s, kind))

LEMMA SwingsSettle ==
  ASSUME NEW s, NEW n, NEW u, NEW m, Begins(s, n, u, m), NEW kind
  PROVE  Settles(ConfirmedSwings(s, kind), SwingCount(s, kind),
                 ConfirmedSwings(u, kind), SwingCount(u, kind), n)
<1> DEFINE P == Pivots(s, kind)
           Q == Pivots(u, kind)
           f == ConfirmedSwings(s, kind)
           g == ConfirmedSwings(u, kind)
<1>1. /\ Left \in Nat \ {0} /\ Right \in Nat \ {0} /\ n \in Nat /\ m \in Nat /\ n <= m
      /\ Len(s) = n /\ Len(u) = m /\ \A k \in 1 .. n : s[k] = u[k] /\ IsList(s, n) /\ IsList(u, m)
  BY StructureAssumption, ListIsSequence DEF Begins, IsList
<1>2. IsList(s, n) /\ IsList(u, m) BY DEF Begins
<1>3. \A i \in Left + 1 .. n - Right : i \in P <=> i \in Q
  <2> TAKE i \in Left + 1 .. n - Right
  <2>1. i \in 1 .. n /\ \A j \in i - Left .. i + Right : j \in 1 .. n BY <1>1
  <2>2. s[i] = u[i] /\ \A j \in i - Left .. i + Right : s[j] = u[j] BY <1>1, <2>1
  <2>3. i \in Left + 1 .. m - Right BY <1>1
  <2> QED BY <1>1, <2>2, <2>3 DEF Pivots
<1>4. /\ P \in SUBSET (Left + 1 .. n - Right) /\ Q \in SUBSET (Left + 1 .. m - Right)
      /\ P \in SUBSET Int /\ Q \in SUBSET Int /\ IsFiniteSet(P) /\ IsFiniteSet(Q)
  BY <1>1, <1>2, SwingsList DEF Pivots
<1> HIDE DEF P, Q
<1>5. P \subseteq Q /\ \A y \in Q \ P : y > n - Right
  <2>1. \A y \in Q : y \in Int /\ y >= Left + 1 BY <1>1, <1>4
  <2>2. n - Right \in Int /\ Left + 1 \in Int BY <1>1
  <2> QED BY <1>3, <1>4, <2>1, <2>2
<1>6. \A x \in P, y \in Q \ P : x < y BY <1>1, <1>4, <1>5
<1>7. /\ Begins(InOrder(P), Cardinality(P), InOrder(Q), Cardinality(Q))
      /\ \A k \in Cardinality(P) + 1 .. Cardinality(Q) : InOrder(Q)[k] \in Q \ P
  BY <1>4, <1>5, <1>6, InOrderBegins
<1>8. /\ IsList(f, Cardinality(P))
      /\ \A k \in 1 .. Cardinality(P) :
           /\ InOrder(P)[k] \in P
           /\ f[k] = [index |-> InOrder(P)[k], at |-> InOrder(P)[k] + Right,
                      price |-> Extreme(kind, s[InOrder(P)[k]])]
  BY <1>2, SwingsList DEF P
<1>9. /\ IsList(g, Cardinality(Q))
      /\ \A k \in 1 .. Cardinality(Q) :
           /\ InOrder(Q)[k] \in Q
           /\ g[k] = [index |-> InOrder(Q)[k], at |-> InOrder(Q)[k] + Right,
                      price |-> Extreme(kind, u[InOrder(Q)[k]])]
  BY <1>2, SwingsList DEF Q
<1>10. Cardinality(P) \in Nat /\ Cardinality(Q) \in Nat /\ Cardinality(P) <= Cardinality(Q)
  BY <1>7 DEF Begins, IsList
<1> HIDE DEF f, g
<1>11. \A i \in P : s[i] = u[i]
  <2>1. \A i \in P : i \in 1 .. n BY <1>1, <1>4
  <2> QED BY <1>1, <2>1
<1>12. ASSUME NEW k \in 1 .. Cardinality(P) PROVE f[k] = g[k] /\ g[k].at <= n
  <2>1. k \in 1 .. Cardinality(Q) /\ InOrder(P)[k] = InOrder(Q)[k] BY <1>7, <1>10 DEF Begins
  <2>2. PICK i : i = InOrder(P)[k] OBVIOUS
  <2>3. i \in P /\ s[i] = u[i] BY <1>8, <1>11, <2>2
  <2>4. f[k] = [index |-> i, at |-> i + Right, price |-> Extreme(kind, s[i])] BY <1>8, <2>2
  <2>5. g[k] = [index |-> i, at |-> i + Right, price |-> Extreme(kind, u[i])] BY <1>9, <2>1, <2>2
  <2>6. g[k].at = i + Right BY <2>5
  <2>7. i + Right <= n BY <1>1, <1>4, <2>3
  <2> QED BY <2>3, <2>4, <2>5, <2>6, <2>7
<1>13. ASSUME NEW k \in 1 .. Cardinality(Q)
       PROVE  g[k].at = InOrder(Q)[k] + Right /\ g[k].at \in Int /\ g[k].at >= 1
  <2>1. PICK i : i = InOrder(Q)[k] OBVIOUS
  <2>2. i \in Q /\ g[k] = [index |-> i, at |-> i + Right, price |-> Extreme(kind, u[i])] BY <1>9, <2>1
  <2>3. g[k].at = i + Right BY <2>2
  <2>4. i \in Left + 1 .. m - Right BY <1>4, <2>2
  <2>5. i \in Int /\ i + Right >= 1 BY <1>1, <2>4
  <2> QED BY <1>1, <2>1, <2>3, <2>5
<1>14. ASSUME NEW k \in Cardinality(P) + 1 .. Cardinality(Q) PROVE g[k].at > n
  <2>1. k \in 1 .. Cardinality(Q) BY <1>10
  <2>2. PICK i : i = InOrder(Q)[k] OBVIOUS
  <2>3. i \in Int /\ i > n - Right BY <1>4, <1>5, <1>7, <2>2
  <2>4. g[k].at = i + Right BY <1>13, <2>1, <2>2
  <2> QED BY <1>1, <2>3, <2>4
<1>15. Begins(f, Cardinality(P), g, Cardinality(Q)) BY <1>8, <1>9, <1>10, <1>12 DEF Begins
<1> QED BY <1>12, <1>13, <1>14, <1>15 DEF Settles, SwingCount, P, Q, f, g

LEMMA LatestSettles ==
  ASSUME NEW f, NEW p, NEW g, NEW q, NEW n \in Nat, Settles(f, p, g, q, n), NEW i \in 0 .. n
  PROVE  /\ LatestConfirmed(f, i) \in 0 .. p
         /\ LatestConfirmed(g, i) = LatestConfirmed(f, i)
         /\ p \in Nat /\ q \in Nat /\ p <= q
         /\ \A k \in 1 .. p : k \in 1 .. q /\ f[k] = g[k]
<1>1. /\ p \in Nat /\ q \in Nat /\ p <= q /\ DOMAIN f = 1 .. p /\ DOMAIN g = 1 .. q
      /\ \A k \in 1 .. p : f[k] = g[k]
      /\ \A k \in 1 .. q : g[k].at \in Nat /\ (k \in p + 1 .. q => g[k].at > n)
  BY DEF Settles, Begins, IsList
<1>2. {k \in DOMAIN f : f[k].at <= i} = {k \in DOMAIN g : g[k].at <= i}
  <2>1. \A k \in 1 .. q : g[k].at <= i => k \in 1 .. p
    <3> SUFFICES ASSUME NEW k \in 1 .. q, g[k].at <= i, k \notin 1 .. p PROVE FALSE OBVIOUS
    <3>1. k \in p + 1 .. q BY <1>1
    <3>2. PICK x : x = g[k].at OBVIOUS
    <3>3. x \in Nat /\ x > n /\ x <= i BY <1>1, <3>1, <3>2
    <3> QED BY <3>3
  <2>2. \A k \in 1 .. p : k \in 1 .. q BY <1>1
  <2> QED BY <1>1, <2>1, <2>2
<1> DEFINE T == {0} \union {k \in DOMAIN f : f[k].at <= i}
<1>3. T \in SUBSET Int /\ T # {} /\ \A x \in T : x <= p BY <1>1
<1>4. T \subseteq 0 .. p BY <1>1
<1>5. LatestConfirmed(f, i) = Max(T) BY DEF LatestConfirmed
<1>6. LatestConfirmed(g, i) = Max(T) BY <1>2 DEF LatestConfirmed
<1> HIDE DEF T
<1>7. Max(T) \in T
  <2>1. p \in Int BY <1>1
  <2>2. PICK x : x = T OBVIOUS
  <2>3. x \in SUBSET Int /\ x # {} /\ \A y \in x : y <= p BY <1>3, <2>2
  <2>4. Max(x) \in x BY <2>1, <2>3, GreatestInteger
  <2> QED BY <2>2, <2>4
<1>8. \A k \in 1 .. p : k \in 1 .. q BY <1>1
<1> QED BY <1>1, <1>4, <1>5, <1>6, <1>7, <1>8

LEMMA CrossedSettles ==
  ASSUME NEW s, NEW n, NEW u, NEW m, Begins(s, n, u, m), NEW kind, NEW i \in 1 .. n,
         NEW f, NEW p, NEW g, NEW q, Settles(f, p, g, q, n)
  PROVE  Crossed(s, f, kind, i) = Crossed(u, g, kind, i)
<1>1. n \in Nat /\ \A k \in 1 .. n : s[k] = u[k] BY DEF Begins, IsList
<1>2. s[i] = u[i] /\ (i > 1 => s[i - 1] = u[i - 1]) BY <1>1
<1>3. i \in 0 .. n BY <1>1
<1>4. PICK k : k = LatestConfirmed(f, i) OBVIOUS
<1>5. k \in 0 .. p /\ k = LatestConfirmed(g, i) /\ p \in Nat /\ \A j \in 1 .. p : f[j] = g[j]
  BY <1>1, <1>3, <1>4, LatestSettles
<1>6. k # 0 => f[k] = g[k] BY <1>5
<1>7. Crossed(s, f, kind, i) <=> Crossed(u, g, kind, i)
  <2>1. Crossed(s, f, kind, i) <=> /\ i > 1 /\ k # 0
                                  /\ ~Beyond(kind, s[i - 1].c, f[k].price)
                                  /\ Beyond(kind, s[i].c, f[k].price)
    BY <1>4 DEF Crossed
  <2>2. Crossed(u, g, kind, i) <=> /\ i > 1 /\ k # 0
                                  /\ ~Beyond(kind, u[i - 1].c, g[k].price)
                                  /\ Beyond(kind, u[i].c, g[k].price)
    BY <1>5 DEF Crossed
  <2> QED BY <1>2, <1>6, <2>1, <2>2
<1> QED BY <1>7 DEF Crossed

LEMMA LabelSettles ==
  ASSUME NEW f, NEW p, NEW g, NEW q, NEW n \in Nat, Settles(f, p, g, q, n), NEW k \in 1 .. p
  PROVE  Label(f, k) = Label(g, k)
<1>1. p \in Nat /\ \A j \in 1 .. p : f[j] = g[j] BY DEF Settles, Begins, IsList
<1>2. f[k] = g[k] /\ (k # 1 => f[k - 1] = g[k - 1]) BY <1>1
<1>3. CASE k = 1 BY <1>3 DEF Label
<1>4. CASE k # 1 BY <1>2, <1>4 DEF Label
<1> QED BY <1>3, <1>4

\* The swings of both kinds, of a history and of one that extends it.
SwingsAgree(f, g, n) ==
  \A kind \in Kinds : \E p, q : Settles(f[kind], p, g[kind], q, n)

LEMMA SwingsOfSettle ==
  ASSUME NEW s, NEW n, NEW u, NEW m, Begins(s, n, u, m)
  PROVE  SwingsAgree(SwingsOf(s), SwingsOf(u), n)
<1>1. \A kind \in Kinds : SwingsOf(s)[kind] = ConfirmedSwings(s, kind)
                         /\ SwingsOf(u)[kind] = ConfirmedSwings(u, kind)
  BY DEF SwingsOf, Kinds
<1> QED BY <1>1, SwingsSettle DEF SwingsAgree

\* What Established reads of the swings of a kind.
LabelAt(swings, i) == LET k == LatestConfirmed(swings, i) IN IF k = 0 THEN "none" ELSE Label(swings, k)
FreshAt(swings, i) == \E k \in DOMAIN swings : swings[k].at = i

LEMMA LabelAtSettles ==
  ASSUME NEW f, NEW p, NEW g, NEW q, NEW n \in Nat, Settles(f, p, g, q, n), NEW i \in 1 .. n
  PROVE  LabelAt(f, i) = LabelAt(g, i) /\ (FreshAt(f, i) <=> FreshAt(g, i))
<1>0. i \in 0 .. n OBVIOUS
<1>1. PICK k : k = LatestConfirmed(f, i) OBVIOUS
<1>2. k = LatestConfirmed(g, i) /\ k \in 0 .. p /\ p \in Nat BY <1>0, <1>1, LatestSettles
<1>3. k # 0 => Label(f, k) = Label(g, k)
  <2> SUFFICES ASSUME k # 0 PROVE Label(f, k) = Label(g, k) OBVIOUS
  <2>1. k \in 1 .. p BY <1>2
  <2> QED BY <2>1, LabelSettles
<1>4. LabelAt(f, i) = LabelAt(g, i) BY <1>1, <1>2, <1>3 DEF LabelAt
<1>5. /\ q \in Nat /\ p <= q /\ DOMAIN f = 1 .. p /\ DOMAIN g = 1 .. q
      /\ \A j \in 1 .. p : f[j] = g[j]
      /\ \A j \in p + 1 .. q : g[j].at > n
      /\ \A j \in 1 .. q : g[j].at \in Nat \ {0}
  BY DEF Settles, Begins, IsList
<1>6. ASSUME NEW j \in 1 .. q, g[j].at = i PROVE j \in 1 .. p
  <2>1. ~(i > n) OBVIOUS
  <2>2. j \notin p + 1 .. q BY <1>5, <1>6, <2>1
  <2> QED BY <1>2, <1>5, <2>2
<1>7. \A j \in 1 .. p : j \in 1 .. q BY <1>2, <1>5
<1> QED BY <1>4, <1>5, <1>6, <1>7 DEF FreshAt

LEMMA EstablishedReads ==
  ASSUME NEW swings, NEW i, NEW regime
  PROVE  LET fresh == FreshAt(swings["HIGH"], i) \/ FreshAt(swings["LOW"], i)
             high  == LabelAt(swings["HIGH"], i)
             low   == LabelAt(swings["LOW"], i)
         IN  Established(swings, i, regime) =
               (CASE fresh /\ high = "H" /\ low = "H" -> "BULLISH"
                  [] fresh /\ high = "L" /\ low = "L" -> "BEARISH"
                  [] OTHER -> regime)
<1>1. (\E kind \in Kinds : \E k \in DOMAIN swings[kind] : swings[kind][k].at = i)
        <=> FreshAt(swings["HIGH"], i) \/ FreshAt(swings["LOW"], i)
  BY DEF Kinds, FreshAt
<1> QED BY <1>1, SMT DEF Established, LabelAt

LEMMA EstablishedSettles ==
  ASSUME NEW n \in Nat, NEW f, NEW g, SwingsAgree(f, g, n), NEW i \in 1 .. n, NEW regime
  PROVE  Established(f, i, regime) = Established(g, i, regime)
<1>1. \A kind \in Kinds : LabelAt(f[kind], i) = LabelAt(g[kind], i)
                         /\ (FreshAt(f[kind], i) <=> FreshAt(g[kind], i))
  BY LabelAtSettles DEF SwingsAgree
<1>2. "HIGH" \in Kinds /\ "LOW" \in Kinds BY DEF Kinds
<1>3. /\ LabelAt(f["HIGH"], i) = LabelAt(g["HIGH"], i) /\ LabelAt(f["LOW"], i) = LabelAt(g["LOW"], i)
      /\ FreshAt(f["HIGH"], i) <=> FreshAt(g["HIGH"], i)
      /\ FreshAt(f["LOW"], i) <=> FreshAt(g["LOW"], i)
  BY <1>1, <1>2
<1> QED BY <1>3, EstablishedReads

LEMMA ScanSettles ==
  ASSUME NEW s, NEW n, NEW u, NEW m, Begins(s, n, u, m), NEW state, NEW i \in 1 .. n
  PROVE  ScanBar(s, SwingsOf(s), state, i) = ScanBar(u, SwingsOf(u), state, i)
<1> DEFINE f == SwingsOf(s)
           g == SwingsOf(u)
<1>1. n \in Nat /\ SwingsAgree(f, g, n) BY SwingsOfSettle DEF Begins, IsList
<1> HIDE DEF f, g
<1>2. i \in 0 .. n BY <1>1
<1>3. \A kind \in Kinds : /\ Crossed(s, f[kind], kind, i) = Crossed(u, g[kind], kind, i)
                          /\ LatestConfirmed(g[kind], i) = LatestConfirmed(f[kind], i)
  BY <1>1, <1>2, CrossedSettles, LatestSettles DEF SwingsAgree
<1>4. \A kind \in Kinds : \A before : TestSwing(s, f, before, kind, i) = TestSwing(u, g, before, kind, i)
  BY <1>3 DEF TestSwing
<1>5. "HIGH" \in Kinds /\ "LOW" \in Kinds BY DEF Kinds
<1>6. Established(f, i, state.regime) = Established(g, i, state.regime) BY <1>1, EstablishedSettles
<1>7. [state EXCEPT !.regime = Established(f, i, @)] = [state EXCEPT !.regime = Established(g, i, @)]
  BY <1>6
<1> QED BY <1>4, <1>5, <1>7 DEF ScanBar, f, g

-------------------------------------------------------------------------------
(* Recursion over the bars. *)

\* The next value of a pass: the break scan over the bars, the recent swings, the
\* episodes of the touched bars, or the mean of the ranges after some bar.
Grow(pass, of, x, i) ==
  CASE pass = "breaks" -> ScanBar(of.s, of.swings, x, i)
    [] pass = "recent" -> JoinRecent(x, of.swings[i], of.bar)
    [] pass = "episodes" -> JoinEpisode(x, of.touched[i])
    [] OTHER -> WilderStep(x, TrueRange(of.s, i + of.after))

\* The values of a pass that starts with x after bar base.
Pass(run, pass, of, x, base) ==
  run = [i \in Nat |-> IF i <= base THEN x ELSE Grow(pass, of, run[i - 1], i)]

PassTo(run, n, pass, of, x, base) ==
  run = [i \in 0 .. n |-> IF i <= base THEN x ELSE Grow(pass, of, run[i - 1], i)]

\* Two passes that take the same steps up to bar n.
Alike(pass, of, also, base, n) ==
  \A i \in 1 .. n : i > base => \A y : Grow(pass, of, y, i) = Grow(pass, also, y, i)

LEMMA PassToExists ==
  ASSUME NEW pass, NEW of, NEW x, NEW base \in Nat, NEW n \in Nat
  PROVE  \E run : PassTo(run, n, pass, of, x, base)
<1> DEFINE T == {k \in Nat : ~ \E run : PassTo(run, k, pass, of, x, base)}
<1> SUFFICES ASSUME T # {} PROVE FALSE OBVIOUS
<1>1. PICK k \in T : \A j \in T : k <= j
  <2>1. T \in SUBSET Nat OBVIOUS
  <2> HIDE DEF T
  <2> QED BY <2>1, LeastNatural
<1>2. CASE k = 0
  <2>1. PassTo([i \in 0 .. 0 |-> x], 0, pass, of, x, base) BY DEF PassTo
  <2> QED BY <1>1, <1>2, <2>1
<1>3. CASE k # 0
  <2>1. k \in Nat \ {0} /\ k - 1 \in Nat /\ ~(k <= k - 1) BY <1>1, <1>3
  <2>2. k - 1 \notin T BY <1>1, <2>1
  <2>3. PICK run : PassTo(run, k - 1, pass, of, x, base) BY <2>1, <2>2
  <2>4. PICK next : next = IF k <= base THEN x ELSE Grow(pass, of, run[k - 1], k) OBVIOUS
  <2>5. PICK more : more = [i \in 0 .. k |-> IF i = k THEN next ELSE run[i]] OBVIOUS
  <2>6. ASSUME NEW i \in 0 .. k
        PROVE  more[i] = IF i <= base THEN x ELSE Grow(pass, of, more[i - 1], i)
    <3>1. CASE i = k
      <4>1. k - 1 \in 0 .. k /\ k - 1 # k BY <2>1
      <4>2. more[k - 1] = run[k - 1] BY <2>5, <4>1
      <4> QED BY <2>4, <2>5, <3>1, <4>2
    <3>2. CASE i # k
      <4>1. i \in 0 .. k - 1 BY <2>1, <3>2
      <4>2. run[i] = IF i <= base THEN x ELSE Grow(pass, of, run[i - 1], i) BY <2>3, <4>1 DEF PassTo
      <4>3. i <= base \/ i - 1 \in 0 .. k BY <4>1
      <4>4. i - 1 # k BY <2>1, <4>1
      <4>5. more[i] = run[i] BY <2>5, <3>2
      <4>6. i <= base \/ more[i - 1] = run[i - 1] BY <2>5, <4>3, <4>4
      <4> QED BY <4>2, <4>5, <4>6
    <3> QED BY <3>1, <3>2
  <2>7. more = [i \in 0 .. k |-> more[i]] BY <2>5
  <2>8. PassTo(more, k, pass, of, x, base) BY <2>6, <2>7 DEF PassTo
  <2> QED BY <1>1, <2>8
<1> QED BY <1>2, <1>3

\* They have the same values up to bar n.
LEMMA PassesAgree ==
  ASSUME NEW pass, NEW of, NEW also, NEW x, NEW base \in Nat, NEW n \in Nat, NEW m \in Nat, n <= m,
         NEW run, NEW other, PassTo(run, n, pass, of, x, base), PassTo(other, m, pass, also, x, base),
         Alike(pass, of, also, base, n)
  PROVE  \A i \in 0 .. n : run[i] = other[i]
<1> DEFINE T == {i \in 0 .. n : run[i] # other[i]}
<1> SUFFICES ASSUME T # {} PROVE FALSE OBVIOUS
<1>1. PICK k \in T : \A j \in T : k <= j
  <2>1. T \in SUBSET Nat OBVIOUS
  <2> HIDE DEF T
  <2> QED BY <2>1, LeastNatural
<1>2. k \in 0 .. n /\ k \in 0 .. m OBVIOUS
<1>3. /\ run[k] = IF k <= base THEN x ELSE Grow(pass, of, run[k - 1], k)
      /\ other[k] = IF k <= base THEN x ELSE Grow(pass, also, other[k - 1], k)
  BY <1>2 DEF PassTo
<1>4. ~(k <= base) BY <1>1, <1>3
<1>5. k - 1 \in 0 .. n /\ ~(k <= k - 1) /\ k \in 1 .. n BY <1>2, <1>4
<1>6. run[k - 1] = other[k - 1] BY <1>1, <1>5
<1>7. Grow(pass, of, run[k - 1], k) = Grow(pass, also, run[k - 1], k) BY <1>4, <1>5 DEF Alike
<1> QED BY <1>1, <1>3, <1>4, <1>6, <1>7

LEMMA PassExists ==
  ASSUME NEW pass, NEW of, NEW x, NEW base \in Nat
  PROVE  \E run : Pass(run, pass, of, x, base)
<1> DEFINE to(n) == CHOOSE run : PassTo(run, n, pass, of, x, base)
<1>1. \A n \in Nat : PassTo(to(n), n, pass, of, x, base) BY PassToExists
<1> HIDE DEF to
<1>2. PICK run : run = [n \in Nat |-> to(n)[n]] OBVIOUS
<1>3. ASSUME NEW i \in Nat PROVE run[i] = IF i <= base THEN x ELSE Grow(pass, of, run[i - 1], i)
  <2>1. run[i] = to(i)[i] BY <1>2
  <2>2. to(i)[i] = IF i <= base THEN x ELSE Grow(pass, of, to(i)[i - 1], i)
    <3>1. i \in 0 .. i OBVIOUS
    <3> QED BY <1>1, <3>1 DEF PassTo
  <2>3. CASE i <= base BY <2>1, <2>2, <2>3
  <2>4. CASE ~(i <= base)
    <3>1. i - 1 \in Nat /\ i - 1 <= i /\ i - 1 \in 0 .. i - 1 BY <2>4
    <3>2. run[i - 1] = to(i - 1)[i - 1] BY <1>2, <3>1
    <3>3. PassTo(to(i - 1), i - 1, pass, of, x, base) /\ PassTo(to(i), i, pass, of, x, base)
      BY <1>1, <3>1
    <3>4. \A j \in 0 .. i - 1 : to(i - 1)[j] = to(i)[j]
      <4>1. Alike(pass, of, of, base, i - 1) BY DEF Alike
      <4> QED BY <3>1, <3>3, <4>1, PassesAgree
    <3> QED BY <2>1, <2>2, <3>1, <3>2, <3>4
  <2> QED BY <2>3, <2>4
<1>4. run = [i \in Nat |-> run[i]] BY <1>2
<1> QED BY <1>3, <1>4 DEF Pass

\* A pass over the bars is, up to bar n, a pass to bar n.
LEMMA PassIsPassTo ==
  ASSUME NEW pass, NEW of, NEW x, NEW base \in Nat, NEW run, Pass(run, pass, of, x, base), NEW n \in Nat
  PROVE  PassTo([i \in 0 .. n |-> run[i]], n, pass, of, x, base)
<1> DEFINE part == [i \in 0 .. n |-> run[i]]
<1>1. ASSUME NEW i \in 0 .. n PROVE part[i] = IF i <= base THEN x ELSE Grow(pass, of, part[i - 1], i)
  <2>1. run[i] = IF i <= base THEN x ELSE Grow(pass, of, run[i - 1], i) BY DEF Pass
  <2>2. i <= base \/ i - 1 \in 0 .. n OBVIOUS
  <2> QED BY <2>1, <2>2
<1>2. part = [i \in 0 .. n |-> part[i]] OBVIOUS
<1> HIDE DEF part
<1>3. PassTo(part, n, pass, of, x, base) BY <1>1, <1>2 DEF PassTo
<1> QED BY <1>3 DEF part

LEMMA PassSettles ==
  ASSUME NEW pass, NEW of, NEW also, NEW x, NEW base \in Nat, NEW run, NEW other,
         Pass(run, pass, of, x, base), Pass(other, pass, also, x, base), NEW n \in Nat,
         Alike(pass, of, also, base, n)
  PROVE  \A i \in 0 .. n : run[i] = other[i]
<1>1. PICK f, g : f = [i \in 0 .. n |-> run[i]] /\ g = [i \in 0 .. n |-> other[i]] OBVIOUS
<1>2. PassTo(f, n, pass, of, x, base) /\ PassTo(g, n, pass, also, x, base) BY <1>1, PassIsPassTo
<1>3. \A i \in 0 .. n : f[i] = g[i] BY <1>2, PassesAgree
<1> QED BY <1>1, <1>3

-------------------------------------------------------------------------------
(* Breaks. *)

Unscanned == [regime |-> "none", broken |-> {}, breaks |-> <<>>]
BarsOf(s) == [s |-> s, swings |-> SwingsOf(s)]

LEMMA BreakScanIsPass ==
  ASSUME NEW s
  PROVE  \E run : Pass(run, "breaks", BarsOf(s), Unscanned, 0) /\ BreakScan(s) = run[Len(s)]
<1> DEFINE form(run) == run = [i \in Nat |-> IF i = 0 THEN Unscanned
                                            ELSE ScanBar(s, SwingsOf(s), run[i - 1], i)]
           scan == CHOOSE run : form(run)
<1>1. \A run : form(run) <=> Pass(run, "breaks", BarsOf(s), Unscanned, 0)
  <2> TAKE run
  <2>1. \A i \in Nat : i <= 0 <=> i = 0 OBVIOUS
  <2>2. \A i \in Nat : Grow("breaks", BarsOf(s), run[i - 1], i) = ScanBar(s, SwingsOf(s), run[i - 1], i)
    BY DEF Grow, BarsOf
  <2>3. [i \in Nat |-> IF i = 0 THEN Unscanned ELSE ScanBar(s, SwingsOf(s), run[i - 1], i)]
          = [i \in Nat |-> IF i <= 0 THEN Unscanned ELSE Grow("breaks", BarsOf(s), run[i - 1], i)]
    BY <2>1, <2>2
  <2> QED BY <2>3 DEF Pass
<1>2. \E run : form(run) BY <1>1, PassExists
<1>3. BreakScan(s) = scan[Len(s)] BY DEF BreakScan, Unscanned
<1> HIDE DEF form
<1>4. form(scan) BY <1>2
<1> QED BY <1>1, <1>3, <1>4

\* g is f with e at its end.
Lengthens(f, n, g, e) == Begins(f, n, g, n + 1) /\ g[n + 1] = e

LEMMA AppendBegins ==
  ASSUME NEW b, NEW p, IsList(b, p), NEW e
  PROVE  Lengthens(b, p, Append(b, e), e)
<1> DEFINE S == {b[k] : k \in 1 .. p} \union {e}
<1>1. b \in Seq(S) /\ Len(b) = p /\ p \in Nat
  <2>1. b \in Seq({b[k] : k \in 1 .. p}) /\ Len(b) = p /\ p \in Nat BY ListIsSequence DEF IsList
  <2>2. b \in [1 .. p -> S] BY <2>1
  <2> HIDE DEF S
  <2> QED BY <2>1, <2>2, SeqDef
<1>2. e \in S OBVIOUS
<1> HIDE DEF S
<1>3. /\ Append(b, e) \in Seq(S) /\ Len(Append(b, e)) = p + 1
      /\ \A k \in 1 .. p : Append(b, e)[k] = b[k]
      /\ Append(b, e)[p + 1] = e
  BY <1>1, <1>2, AppendProperties
<1>4. Append(b, e) = [k \in 1 .. p + 1 |-> Append(b, e)[k]]
  <2>1. PICK x : x = Append(b, e) OBVIOUS
  <2>2. x \in [1 .. p + 1 -> S]
    <3>1. x \in Seq(S) /\ Len(x) = p + 1 BY <1>3, <2>1
    <3>2. x \in [1 .. Len(x) -> S] BY <3>1, LenProperties
    <3> QED BY <3>1, <3>2
  <2> QED BY <2>1, <2>2
<1> QED BY <1>1, <1>3, <1>4 DEF Lengthens, Begins, IsList

\* The state after a bar keeps the breaks, and has those of the bar more.
Follows(state, next, i) ==
  /\ next = [regime |-> next.regime, broken |-> next.broken, breaks |-> next.breaks]
  /\ \E p, q : /\ Begins(state.breaks, p, next.breaks, q)
               /\ \A k \in p + 1 .. q : next.breaks[k].at = i

LEMMA TestFollows ==
  ASSUME NEW s, NEW swings, NEW state, NEW kind, NEW i, NEW p, IsList(state.breaks, p),
         state = [regime |-> state.regime, broken |-> state.broken, breaks |-> state.breaks]
  PROVE  Follows(state, TestSwing(s, swings, state, kind, i), i)
<1> DEFINE next == TestSwing(s, swings, state, kind, i)
<1>0. p \in Nat BY DEF IsList
<1>1. CASE next = state
  <2>1. Begins(state.breaks, p, next.breaks, p) BY <1>0, <1>1 DEF Begins
  <2>2. \A k \in p + 1 .. p : next.breaks[k].at = i BY <1>0
  <2> QED BY <1>1, <2>1, <2>2 DEF Follows
<1>2. CASE next # state
  <2>1. PICK regime, broken, side, key, kindOf :
          next = [regime |-> regime, broken |-> broken,
                  breaks |-> Append(state.breaks, [at |-> i, side |-> side, broken |-> key, kind |-> kindOf])]
    BY <1>2 DEF TestSwing
  <2>2. PICK e : e = [at |-> i, side |-> side, broken |-> key, kind |-> kindOf] OBVIOUS
  <2>3. next.breaks = Append(state.breaks, e) BY <2>1, <2>2
  <2>4. Begins(state.breaks, p, next.breaks, p + 1) /\ next.breaks[p + 1].at = i
    <3>1. Begins(state.breaks, p, Append(state.breaks, e), p + 1) /\ Append(state.breaks, e)[p + 1] = e
      <4>1. PICK b : b = state.breaks OBVIOUS
      <4>2. IsList(b, p) BY <4>1
      <4>3. Begins(b, p, Append(b, e), p + 1) /\ Append(b, e)[p + 1] = e
        <5>1. PICK g : g = Append(b, e) OBVIOUS
        <5>2. Lengthens(b, p, g, e) BY <4>2, <5>1, AppendBegins
        <5> QED BY <5>1, <5>2 DEF Lengthens
      <4> QED BY <4>1, <4>3
    <3>2. e.at = i BY <2>2
    <3> QED BY <2>3, <3>1, <3>2
  <2>5. \A k \in p + 1 .. p + 1 : next.breaks[k].at = i BY <1>0, <2>4
  <2>6. next = [regime |-> next.regime, broken |-> next.broken, breaks |-> next.breaks] BY <2>1
  <2> QED BY <2>4, <2>5, <2>6 DEF Follows
<1> QED BY <1>1, <1>2

LEMMA BeginsTransitive ==
  ASSUME NEW a, NEW b, NEW c, NEW p, NEW q, NEW r, Begins(a, p, b, q), Begins(b, q, c, r)
  PROVE  Begins(a, p, c, r) /\ p \in Nat /\ q \in Nat /\ r \in Nat
<1>1. p \in Nat /\ q \in Nat /\ r \in Nat /\ p <= q /\ q <= r BY DEF Begins, IsList
<1>2. \A k \in 1 .. p : a[k] = b[k] /\ k \in 1 .. q /\ b[k] = c[k] BY <1>1 DEF Begins
<1> QED BY <1>1, <1>2 DEF Begins

LEMMA ScanFollows ==
  ASSUME NEW s, NEW swings, NEW state, NEW i, NEW p, IsList(state.breaks, p),
         state = [regime |-> state.regime, broken |-> state.broken, breaks |-> state.breaks]
  PROVE  Follows(state, ScanBar(s, swings, state, i), i)
<1> DEFINE opened == [state EXCEPT !.regime = Established(swings, i, @)]
           middle == TestSwing(s, swings, opened, "HIGH", i)
           next == TestSwing(s, swings, middle, "LOW", i)
<1>1. /\ opened = [regime |-> opened.regime, broken |-> opened.broken, breaks |-> opened.breaks]
      /\ opened.breaks = state.breaks
  <2>1. PICK regime : regime = Established(swings, i, state.regime) OBVIOUS
  <2>2. opened = [regime |-> regime, broken |-> state.broken, breaks |-> state.breaks] BY <2>1
  <2> QED BY <2>2
<1>2. ScanBar(s, swings, state, i) = next BY DEF ScanBar
<1> HIDE DEF opened
<1>3. Follows(opened, middle, i) BY <1>1, TestFollows
<1> HIDE DEF middle
<1>4. PICK a, b : /\ Begins(opened.breaks, a, middle.breaks, b)
                  /\ \A k \in a + 1 .. b : middle.breaks[k].at = i
  BY <1>3 DEF Follows
<1>5. IsList(middle.breaks, b) BY <1>4 DEF Begins
<1>6. Follows(middle, next, i)
  <2>1. middle = [regime |-> middle.regime, broken |-> middle.broken, breaks |-> middle.breaks]
    BY <1>3 DEF Follows
  <2> QED BY <1>5, <2>1, TestFollows
<1> HIDE DEF next
<1>7. PICK c, d : /\ Begins(middle.breaks, c, next.breaks, d)
                  /\ \A k \in c + 1 .. d : next.breaks[k].at = i
  BY <1>6 DEF Follows
<1>8. c = b
  <2>1. IsList(middle.breaks, c) BY <1>7 DEF Begins
  <2>2. Len(middle.breaks) = b /\ Len(middle.breaks) = c BY <1>5, <2>1, ListIsSequence
  <2> QED BY <2>2
<1>9. Begins(opened.breaks, a, next.breaks, d) /\ a \in Nat /\ b \in Nat /\ d \in Nat
  BY <1>4, <1>7, <1>8, BeginsTransitive
<1>10. ASSUME NEW k \in a + 1 .. d PROVE next.breaks[k].at = i
  <2>1. k \in a + 1 .. b \/ k \in b + 1 .. d BY <1>9
  <2>2. CASE k \in a + 1 .. b
    <3>1. k \in 1 .. b BY <1>9, <2>2
    <3>2. next.breaks[k] = middle.breaks[k] BY <1>7, <1>8, <3>1 DEF Begins
    <3> QED BY <1>4, <2>2, <3>2
  <2> QED BY <1>7, <1>8, <2>1, <2>2
<1>11. next = [regime |-> next.regime, broken |-> next.broken, breaks |-> next.breaks]
  BY <1>6 DEF Follows
<1> QED BY <1>1, <1>2, <1>9, <1>10, <1>11 DEF Follows

\* From bar n to bar j the breaks grow by breaks of the bars between.
Later(run, n, j) ==
  /\ run[j] = [regime |-> run[j].regime, broken |-> run[j].broken, breaks |-> run[j].breaks]
  /\ \E p, q : /\ Begins(run[n].breaks, p, run[j].breaks, q)
               /\ \A k \in p + 1 .. q : run[j].breaks[k].at \in n + 1 .. j

LEMMA BreaksLater ==
  ASSUME NEW s, NEW run, Pass(run, "breaks", BarsOf(s), Unscanned, 0), NEW n \in Nat, NEW j \in Nat, n <= j,
         NEW p, IsList(run[n].breaks, p),
         run[n] = [regime |-> run[n].regime, broken |-> run[n].broken, breaks |-> run[n].breaks]
  PROVE  Later(run, n, j)
<1> DEFINE T == {i \in Nat : n <= i /\ ~Later(run, n, i)}
<1> SUFFICES ASSUME T # {} PROVE FALSE OBVIOUS
<1>1. PICK i \in T : \A k \in T : i <= k
  <2>1. T \in SUBSET Nat OBVIOUS
  <2> HIDE DEF T
  <2> QED BY <2>1, LeastNatural
<1>2. p \in Nat BY DEF IsList
<1>3. CASE i = n
  <2>1. Begins(run[n].breaks, p, run[n].breaks, p) BY <1>2 DEF Begins
  <2>2. \A k \in p + 1 .. p : run[n].breaks[k].at \in n + 1 .. n BY <1>2
  <2>3. Later(run, n, n) BY <2>1, <2>2 DEF Later
  <2> QED BY <1>1, <1>3, <2>3
<1>4. CASE i # n
  <2>1. i \in Nat /\ i - 1 \in Nat /\ n <= i - 1 /\ ~(i <= i - 1) /\ ~(i <= 0) BY <1>1, <1>4
  <2>2. Later(run, n, i - 1)
    <3>1. i - 1 \notin T BY <1>1, <2>1
    <3> QED BY <2>1, <3>1
  <2>3. PICK before : before = run[i - 1] OBVIOUS
  <2>4. PICK next : next = run[i] OBVIOUS
  <2>5. PICK a, b : /\ Begins(run[n].breaks, a, before.breaks, b)
                    /\ \A k \in a + 1 .. b : before.breaks[k].at \in n + 1 .. i - 1
    BY <2>2, <2>3 DEF Later
  <2>6. before = [regime |-> before.regime, broken |-> before.broken, breaks |-> before.breaks]
    BY <2>2, <2>3 DEF Later
  <2>7. next = ScanBar(s, SwingsOf(s), before, i)
    <3>1. run[i] = Grow("breaks", BarsOf(s), run[i - 1], i) BY <2>1 DEF Pass
    <3> QED BY <2>3, <2>4, <3>1 DEF Grow, BarsOf
  <2>8. IsList(before.breaks, b) BY <2>5 DEF Begins
  <2>9. Follows(before, next, i) BY <2>6, <2>7, <2>8, ScanFollows
  <2>10. PICK c, d : /\ Begins(before.breaks, c, next.breaks, d)
                     /\ \A k \in c + 1 .. d : next.breaks[k].at = i
    BY <2>9 DEF Follows
  <2>11. c = b
    <3>1. IsList(before.breaks, c) BY <2>10 DEF Begins
    <3>2. Len(before.breaks) = b /\ Len(before.breaks) = c BY <2>8, <3>1, ListIsSequence
    <3> QED BY <3>2
  <2>12. Begins(run[n].breaks, a, next.breaks, d) /\ a \in Nat /\ b \in Nat /\ d \in Nat
    BY <2>5, <2>10, <2>11, BeginsTransitive
  <2>13. ASSUME NEW k \in a + 1 .. d PROVE next.breaks[k].at \in n + 1 .. i
    <3>1. k \in a + 1 .. b \/ k \in b + 1 .. d BY <2>12
    <3>2. CASE k \in a + 1 .. b
      <4>1. k \in 1 .. b BY <2>12, <3>2
      <4>2. next.breaks[k] = before.breaks[k] BY <2>10, <2>11, <4>1 DEF Begins
      <4>3. next.breaks[k].at \in n + 1 .. i - 1 BY <2>5, <3>2, <4>2
      <4> QED BY <2>1, <4>3
    <3>3. CASE k \in b + 1 .. d
      <4>1. next.breaks[k].at = i BY <2>10, <2>11, <3>3
      <4>2. i \in n + 1 .. i BY <2>1
      <4> QED BY <4>1, <4>2
    <3> QED BY <3>1, <3>2, <3>3
  <2>14. Later(run, n, i)
    <3>1. next = [regime |-> next.regime, broken |-> next.broken, breaks |-> next.breaks]
      BY <2>9 DEF Follows
    <3> QED BY <2>4, <2>12, <2>13, <3>1 DEF Later
  <2> QED BY <1>1, <2>14
<1> QED BY <1>3, <1>4

\* What the bars of a history broke is what a longer history finds they broke.
LEMMA BreaksSettle ==
  ASSUME NEW s, NEW n, NEW u, NEW m, Begins(s, n, u, m)
  PROVE  \E p, q : Settles(StructureBreaks(s), p, StructureBreaks(u), q, n)
<1>0. n \in Nat /\ m \in Nat /\ n <= m /\ Len(s) = n /\ Len(u) = m
  BY ListIsSequence DEF Begins, IsList
<1>1. PICK run : Pass(run, "breaks", BarsOf(s), Unscanned, 0) /\ BreakScan(s) = run[n]
  BY <1>0, BreakScanIsPass
<1>2. PICK other : Pass(other, "breaks", BarsOf(u), Unscanned, 0) /\ BreakScan(u) = other[m]
  BY <1>0, BreakScanIsPass
<1>3. run[n] = other[n]
  <2>1. ASSUME NEW i \in 1 .. n, NEW x PROVE Grow("breaks", BarsOf(s), x, i) = Grow("breaks", BarsOf(u), x, i)
    BY ScanSettles DEF Grow, BarsOf
  <2>2. PICK of, also : of = BarsOf(s) /\ also = BarsOf(u) OBVIOUS
  <2>3. PICK base : base = 0 OBVIOUS
  <2>4. Alike("breaks", of, also, base, n) BY <2>1, <2>2 DEF Alike
  <2>5. base \in Nat /\ Pass(run, "breaks", of, Unscanned, base) /\ Pass(other, "breaks", also, Unscanned, base)
    BY <1>1, <1>2, <2>2, <2>3
  <2>6. \A i \in 0 .. n : run[i] = other[i] BY <1>0, <2>4, <2>5, PassSettles
  <2> QED BY <1>0, <2>6
<1>4. other[0] = Unscanned
  <2>1. 0 \in Nat /\ 0 <= 0 OBVIOUS
  <2> QED BY <1>2, <2>1 DEF Pass
<1>5. /\ IsList(other[0].breaks, 0)
      /\ other[0] = [regime |-> other[0].regime, broken |-> other[0].broken, breaks |-> other[0].breaks]
  <2>1. IsList(<<>>, 0)
    <3>1. <<>> = [k \in 1 .. 0 |-> <<>>[k]] OBVIOUS
    <3> QED BY <3>1 DEF IsList
  <2>2. other[0].breaks = <<>> BY <1>4 DEF Unscanned
  <2> QED BY <1>4, <2>1, <2>2 DEF Unscanned
<1>6. Later(other, 0, n)
  <2>1. 0 \in Nat /\ 0 <= n BY <1>0
  <2> QED BY <1>0, <1>2, <1>5, <2>1, BreaksLater
<1>7. PICK o, p : /\ Begins(other[0].breaks, o, other[n].breaks, p)
                  /\ \A k \in o + 1 .. p : other[n].breaks[k].at \in 0 + 1 .. n
  BY <1>6 DEF Later
<1>8. o = 0
  <2>1. IsList(other[0].breaks, o) BY <1>7 DEF Begins
  <2>2. Len(other[0].breaks) = o /\ Len(other[0].breaks) = 0 BY <1>5, <2>1, ListIsSequence
  <2> QED BY <2>2
<1>9. IsList(other[n].breaks, p) BY <1>7 DEF Begins
<1>10. Later(other, n, m)
  <2>1. other[n] = [regime |-> other[n].regime, broken |-> other[n].broken, breaks |-> other[n].breaks]
    BY <1>6 DEF Later
  <2> QED BY <1>0, <1>2, <1>9, <2>1, BreaksLater
<1>11. PICK a, q : /\ Begins(other[n].breaks, a, other[m].breaks, q)
                   /\ \A k \in a + 1 .. q : other[m].breaks[k].at \in n + 1 .. m
  BY <1>10 DEF Later
<1>12. a = p
  <2>1. IsList(other[n].breaks, a) BY <1>11 DEF Begins
  <2>2. Len(other[n].breaks) = a /\ Len(other[n].breaks) = p BY <1>9, <2>1, ListIsSequence
  <2> QED BY <2>2
<1>13. PICK f, g : f = StructureBreaks(s) /\ g = StructureBreaks(u) OBVIOUS
<1>14. f = other[n].breaks /\ g = other[m].breaks BY <1>1, <1>2, <1>3, <1>13 DEF StructureBreaks
<1>15. Begins(f, p, g, q) /\ p \in Nat /\ q \in Nat /\ p <= q
  BY <1>11, <1>12, <1>14 DEF Begins, IsList
<1>16. \A k \in 1 .. p : f[k] = g[k] /\ f[k].at \in 1 .. n
  BY <1>7, <1>8, <1>14, <1>15 DEF Begins
<1>17. \A k \in p + 1 .. q : g[k].at \in n + 1 .. m BY <1>11, <1>12, <1>14
<1>18. ASSUME NEW k \in 1 .. q PROVE g[k].at \in Nat \ {0}
  <2>1. k \in 1 .. p \/ k \in p + 1 .. q BY <1>15
  <2>2. CASE k \in 1 .. p
    <3>1. g[k].at \in 1 .. n BY <1>16, <2>2
    <3> QED BY <1>0, <3>1
  <2>3. CASE k \in p + 1 .. q
    <3>1. g[k].at \in n + 1 .. m BY <1>17, <2>3
    <3> QED BY <1>0, <3>1
  <2> QED BY <2>1, <2>2, <2>3
<1>19. ASSUME NEW k \in 1 .. p PROVE g[k].at <= n
  <2>1. g[k].at \in 1 .. n BY <1>16
  <2> QED BY <1>0, <2>1
<1>20. ASSUME NEW k \in p + 1 .. q PROVE g[k].at > n
  <2>1. g[k].at \in n + 1 .. m BY <1>17
  <2> QED BY <1>0, <2>1
<1> QED BY <1>13, <1>15, <1>18, <1>19, <1>20 DEF Settles

-------------------------------------------------------------------------------
(* The segments of a history. *)

\* The bars a .. b are a segment of a history.
Spans(history, a, b) ==
  /\ a \in Int /\ b \in Int /\ a <= b /\ a .. b \subseteq DOMAIN history
  /\ a - 1 \notin DOMAIN history /\ b + 1 \notin DOMAIN history

LEMMA SegmentShape ==
  ASSUME NEW history, DOMAIN history \subseteq Int, NEW g \in Segments(history)
  PROVE  \E a, b : /\ Spans(history, a, b) /\ IsSegment(g, a, b)
                   /\ g = [t \in a .. b |-> history[t]]
                   /\ Min(DOMAIN g) = a /\ Max(DOMAIN g) = b /\ Cardinality(DOMAIN g) = b + 1 - a
<1>1. PICK x \in (DOMAIN history) \X (DOMAIN history) :
        /\ x[1] <= x[2] /\ x[1] .. x[2] \subseteq DOMAIN history
        /\ x[1] - 1 \notin DOMAIN history /\ x[2] + 1 \notin DOMAIN history
        /\ g = [t \in x[1] .. x[2] |-> history[t]]
  BY DEF Segments
<1>2. PICK a, b : a = x[1] /\ b = x[2] OBVIOUS
<1>3. Spans(history, a, b) /\ g = [t \in a .. b |-> history[t]] BY <1>1, <1>2 DEF Spans
<1>4. a \in Int /\ b \in Int /\ a <= b /\ DOMAIN g = a .. b BY <1>3 DEF Spans
<1>5. IsSegment(g, a, b) BY <1>4 DEF IsSegment
<1>6. Cardinality(a .. b) = b + 1 - a
  <2>1. a <= b + 1 BY <1>4
  <2> QED BY <1>4, <2>1, InOrderInterval
<1>7. Min(a .. b) = a /\ Max(a .. b) = b
  <2>1. a \in a .. b /\ \A y \in a .. b : a <= y BY <1>4
  <2>2. \A z \in a .. b : (\A y \in a .. b : z <= y) => z = a BY <1>4
  <2>3. Min(a .. b) = a BY <2>1, <2>2 DEF Min
  <2>4. b \in a .. b /\ \A y \in a .. b : b >= y BY <1>4
  <2>5. \A z \in a .. b : (\A y \in a .. b : z >= y) => z = b BY <1>4
  <2>6. Max(a .. b) = b BY <2>4, <2>5 DEF Max
  <2> QED BY <2>3, <2>6
<1> QED BY <1>3, <1>4, <1>5, <1>6, <1>7

\* A history with more bars, from the clock on.
LEMMA SegmentGrows ==
  ASSUME NEW history, NEW longer, DOMAIN history \subseteq Int, DOMAIN longer \subseteq Int,
         DOMAIN history \subseteq DOMAIN longer, \A t \in DOMAIN history : longer[t] = history[t],
         NEW g \in Segments(history), NEW h \in Segments(longer), Min(DOMAIN g) = Min(DOMAIN h)
  PROVE  \E n, m : Begins(Series(g), n, Series(h), m) /\ n = Cardinality(DOMAIN g)
<1>1. PICK a, b : /\ Spans(history, a, b) /\ IsSegment(g, a, b)
                  /\ g = [t \in a .. b |-> history[t]]
                  /\ Min(DOMAIN g) = a /\ Cardinality(DOMAIN g) = b + 1 - a
  BY SegmentShape
<1>2. PICK c, d : /\ Spans(longer, c, d) /\ IsSegment(h, c, d)
                  /\ h = [t \in c .. d |-> longer[t]] /\ Min(DOMAIN h) = c
  BY SegmentShape
<1>3. c = a BY <1>1, <1>2
<1>4. b <= d
  <2> SUFFICES ASSUME ~(b <= d) PROVE FALSE OBVIOUS
  <2>1. d + 1 \in a .. b BY <1>1, <1>2, <1>3 DEF Spans
  <2> QED BY <1>1, <1>2, <2>1 DEF Spans
<1>5. \A t \in a .. b : g[t] = h[t]
  <2>1. \A t \in a .. b : t \in c .. d /\ t \in DOMAIN history BY <1>1, <1>2, <1>3, <1>4 DEF Spans
  <2> QED BY <1>1, <1>2, <2>1
<1>6. Begins(Series(g), b + 1 - a, Series(h), d + 1 - a)
  BY <1>1, <1>2, <1>3, <1>4, <1>5, SeriesBegin
<1> QED BY <1>1, <1>6

LEMMA SettlesExtends ==
  ASSUME NEW f, NEW g, NEW p, NEW q, NEW n, Settles(f, p, g, q, n)
  PROVE  Extends(g, f, n)
<1>1. /\ IsList(f, p) /\ IsList(g, q) /\ p \in Nat /\ q \in Nat /\ p <= q
      /\ \A k \in 1 .. p : f[k] = g[k]
      /\ \A k \in p + 1 .. q : g[k].at > n
  BY DEF Settles, Begins, IsList
<1>2. Len(f) = p /\ Len(g) = q BY <1>1, ListIsSequence
<1>3. \A k \in 1 .. p : k \in 1 .. q BY <1>1
<1>4. SubSeq(f, 1, p) = SubSeq(g, 1, p)
  <2> DEFINE S == {f[k] : k \in 1 .. p}
  <2>1. (\A k \in 1 .. p : f[k] \in S) /\ (\A k \in 1 .. p : g[k] \in S) BY <1>1
  <2> HIDE DEF S
  <2>2. PICK x, y : x = SubSeq(f, 1, p) /\ y = SubSeq(g, 1, p) OBVIOUS
  <2>3. 1 \in Int /\ p \in Int /\ p - 1 + 1 = p /\ (1 <= p => p - 1 + 1 = p) /\ (~(1 <= p) => p = 0) BY <1>1
  <2>4. x \in Seq(S) /\ Len(x) = p /\ \A k \in 1 .. p : x[k] = f[1 + k - 1]
    BY <2>1, <2>2, <2>3, SubSeqProperties
  <2>5. y \in Seq(S) /\ Len(y) = p /\ \A k \in 1 .. p : y[k] = g[1 + k - 1]
    BY <2>1, <2>2, <2>3, SubSeqProperties
  <2>6. \A k \in 1 .. p : 1 + k - 1 = k OBVIOUS
  <2>7. x \in [1 .. p -> S] /\ y \in [1 .. p -> S] BY <2>4, <2>5, LenProperties
  <2>8. \A k \in 1 .. p : x[k] = y[k] BY <1>1, <2>4, <2>5, <2>6
  <2>9. IsList(x, p) /\ IsList(y, p) BY <1>1, <2>7 DEF IsList
  <2>10. x = y BY <2>8, <2>9, ListsEqual
  <2> QED BY <2>2, <2>10
<1> QED BY <1>1, <1>2, <1>4 DEF Extends, IsPrefix

-------------------------------------------------------------------------------
(* Mean ranges. *)

MeanOf(s, after) == [s |-> s, after |-> after]

LEMMA WilderAtrIsPass ==
  ASSUME NEW s
  PROVE  \E mean : /\ Pass(mean, "mean", MeanOf(s, AtrPeriod + 1), WilderSeed(s), 0)
                   /\ WilderAtr(s) = IF Len(s) <= AtrPeriod THEN NoValue
                                     ELSE Positive(mean[Len(s) - AtrPeriod - 1])
<1> DEFINE form(f) == f = [k \in Nat |-> IF k = 0 THEN WilderSeed(s)
                                        ELSE WilderStep(f[k - 1], TrueRange(s, k + AtrPeriod + 1))]
           mean == CHOOSE f : form(f)
<1>1. \A f : form(f) <=> Pass(f, "mean", MeanOf(s, AtrPeriod + 1), WilderSeed(s), 0)
  <2> TAKE f
  <2>1. \A k \in Nat : k <= 0 <=> k = 0 OBVIOUS
  <2>2. AtrPeriod \in Nat BY StructureAssumption
  <2>3. ASSUME NEW k \in Nat
        PROVE  Grow("mean", MeanOf(s, AtrPeriod + 1), f[k - 1], k)
                 = WilderStep(f[k - 1], TrueRange(s, k + AtrPeriod + 1))
    <3>1. k + (AtrPeriod + 1) = k + AtrPeriod + 1 BY <2>2
    <3> QED BY <3>1 DEF Grow, MeanOf
  <2>4. [k \in Nat |-> IF k = 0 THEN WilderSeed(s)
                       ELSE WilderStep(f[k - 1], TrueRange(s, k + AtrPeriod + 1))]
          = [k \in Nat |-> IF k <= 0 THEN WilderSeed(s)
                           ELSE Grow("mean", MeanOf(s, AtrPeriod + 1), f[k - 1], k)]
    BY <2>1, <2>3
  <2> QED BY <2>4 DEF Pass
<1>2. \E f : form(f) BY <1>1, PassExists
<1>3. WilderAtr(s) = IF Len(s) <= AtrPeriod THEN NoValue ELSE Positive(mean[Len(s) - AtrPeriod - 1])
  BY DEF WilderAtr
<1> HIDE DEF form
<1>4. form(mean) BY <1>2
<1> QED BY <1>1, <1>3, <1>4

LEMMA AtrSeriesIsPass ==
  ASSUME NEW s, NEW n, IsList(s, n)
  PROVE  \E run : /\ Pass(run, "mean", MeanOf(s, 0), WilderSeed(s), AtrPeriod + 1)
                  /\ AtrSeries(s) = [i \in 1 .. n |-> IF i <= AtrPeriod THEN NoValue ELSE Positive(run[i])]
<1> DEFINE form(f) == f = [i \in Nat |-> IF i <= AtrPeriod + 1 THEN WilderSeed(s)
                                        ELSE WilderStep(f[i - 1], TrueRange(s, i))]
           run == CHOOSE f : form(f)
<1>1. \A f : form(f) <=> Pass(f, "mean", MeanOf(s, 0), WilderSeed(s), AtrPeriod + 1)
  <2> TAKE f
  <2>1. ASSUME NEW i \in Nat
        PROVE  Grow("mean", MeanOf(s, 0), f[i - 1], i) = WilderStep(f[i - 1], TrueRange(s, i))
    <3>1. i + 0 = i OBVIOUS
    <3> QED BY <3>1 DEF Grow, MeanOf
  <2>2. [i \in Nat |-> IF i <= AtrPeriod + 1 THEN WilderSeed(s) ELSE WilderStep(f[i - 1], TrueRange(s, i))]
          = [i \in Nat |-> IF i <= AtrPeriod + 1 THEN WilderSeed(s)
                           ELSE Grow("mean", MeanOf(s, 0), f[i - 1], i)]
    BY <2>1
  <2> QED BY <2>2 DEF Pass
<1>2. \E f : form(f)
  <2>1. AtrPeriod + 1 \in Nat BY StructureAssumption
  <2> QED BY <1>1, <2>1, PassExists
<1>3. n \in Nat /\ Len(s) = n /\ DOMAIN s = 1 .. n BY ListIsSequence DEF IsList
<1>4. AtrSeries(s) = Listed([i \in 1 .. n |-> IF i <= AtrPeriod THEN NoValue ELSE Positive(run[i])])
  BY <1>3 DEF AtrSeries
<1> HIDE DEF form
<1>5. form(run) BY <1>2
<1> HIDE DEF run
<1>6. PICK f : f = [i \in 1 .. n |-> IF i <= AtrPeriod THEN NoValue ELSE Positive(run[i])] OBVIOUS
<1>7. IsList(f, n) BY <1>3, <1>6 DEF IsList
<1>8. AtrSeries(s) = f BY <1>4, <1>6, <1>7, ListIsSequence
<1> QED BY <1>1, <1>5, <1>6, <1>8

LEMMA RangesAgree ==
  ASSUME NEW u, NEW i, NEW s, NEW n, Begins(u, i, s, n)
  PROVE  /\ \A j \in 2 .. i : TrueRange(u, j) = TrueRange(s, j)
         /\ i > AtrPeriod => WilderSeed(u) = WilderSeed(s)
<1>1. i \in Nat /\ AtrPeriod \in Nat /\ \A j \in 1 .. i : u[j] = s[j]
  BY StructureAssumption DEF Begins, IsList
<1>2. ASSUME NEW j \in 2 .. i PROVE TrueRange(u, j) = TrueRange(s, j)
  <2>1. u[j] = s[j] /\ u[j - 1] = s[j - 1] BY <1>1
  <2> QED BY <2>1 DEF TrueRange
<1>3. ASSUME i > AtrPeriod PROVE WilderSeed(u) = WilderSeed(s)
  <2>1. \A j \in 2 .. AtrPeriod + 1 : j \in 2 .. i BY <1>1, <1>3
  <2>2. [j \in 2 .. AtrPeriod + 1 |-> TrueRange(u, j)] = [j \in 2 .. AtrPeriod + 1 |-> TrueRange(s, j)]
    BY <1>2, <2>1
  <2> QED BY <2>2 DEF WilderSeed
<1> QED BY <1>2, <1>3

\* The batch and the snapshot find the same mean at a bar.
LEMMA AtrAgrees ==
  ASSUME NEW u, NEW i, NEW s, NEW n, Begins(u, i, s, n), i > 0
  PROVE  AtrSeries(s)[i] = WilderAtr(u)
<1>1. i \in Nat /\ AtrPeriod \in Nat /\ n \in Nat /\ i <= n /\ IsList(u, i) /\ IsList(s, n)
  BY StructureAssumption DEF Begins, IsList
<1>2. Len(u) = i BY <1>1, ListIsSequence
<1>3. PICK mean : /\ Pass(mean, "mean", MeanOf(u, AtrPeriod + 1), WilderSeed(u), 0)
                  /\ WilderAtr(u) = IF Len(u) <= AtrPeriod THEN NoValue
                                    ELSE Positive(mean[Len(u) - AtrPeriod - 1])
  BY WilderAtrIsPass
<1>4. PICK run : /\ Pass(run, "mean", MeanOf(s, 0), WilderSeed(s), AtrPeriod + 1)
                 /\ AtrSeries(s) = [j \in 1 .. n |-> IF j <= AtrPeriod THEN NoValue ELSE Positive(run[j])]
  BY <1>1, AtrSeriesIsPass
<1>5. AtrSeries(s)[i] = IF i <= AtrPeriod THEN NoValue ELSE Positive(run[i])
  <2>1. i \in 1 .. n BY <1>1
  <2> QED BY <1>4, <2>1
<1>6. CASE i <= AtrPeriod BY <1>2, <1>3, <1>5, <1>6
<1>7. CASE i > AtrPeriod
  <2> DEFINE T == {k \in Nat : AtrPeriod + 1 + k <= i /\ run[AtrPeriod + 1 + k] # mean[k]}
  <2>1. T = {}
    <3> SUFFICES ASSUME T # {} PROVE FALSE OBVIOUS
    <3>1. PICK k \in T : \A j \in T : k <= j
      <4>1. T \in SUBSET Nat OBVIOUS
      <4> HIDE DEF T
      <4> QED BY <4>1, LeastNatural
    <3>2. k \in Nat /\ AtrPeriod + 1 + k <= i /\ run[AtrPeriod + 1 + k] # mean[k] OBVIOUS
    <3>3. PICK j : j = AtrPeriod + 1 + k OBVIOUS
    <3>4. j \in Nat /\ j <= i /\ j - 1 \in Nat BY <1>1, <3>2, <3>3
    <3>5. run[j] = IF j <= AtrPeriod + 1 THEN WilderSeed(s) ELSE Grow("mean", MeanOf(s, 0), run[j - 1], j)
      BY <1>4, <3>4 DEF Pass
    <3>6. mean[k] = IF k <= 0 THEN WilderSeed(u)
                    ELSE Grow("mean", MeanOf(u, AtrPeriod + 1), mean[k - 1], k)
      BY <1>3, <3>2 DEF Pass
    <3>7. CASE k = 0
      <4>1. j = AtrPeriod + 1 BY <1>1, <3>3, <3>7
      <4>2. run[j] = WilderSeed(s) BY <1>1, <3>5, <4>1
      <4>3. mean[k] = WilderSeed(u) BY <3>6, <3>7
      <4> QED BY <1>7, <3>2, <3>3, <4>2, <4>3, RangesAgree
    <3>8. CASE k # 0
      <4>1. k - 1 \in Nat /\ ~(k <= k - 1) /\ AtrPeriod + 1 + (k - 1) = j - 1 /\ j - 1 <= i
            /\ j \in 2 .. i /\ ~(j <= AtrPeriod + 1) /\ ~(k <= 0)
        BY <1>1, <3>2, <3>3, <3>4, <3>8
      <4>2. run[j - 1] = mean[k - 1]
        <5>1. k - 1 \notin T BY <3>1, <4>1
        <5>2. AtrPeriod + 1 + (k - 1) <= i BY <4>1
        <5>3. run[AtrPeriod + 1 + (k - 1)] = mean[k - 1] BY <4>1, <5>1, <5>2
        <5> QED BY <4>1, <5>3
      <4>3. run[j] = WilderStep(run[j - 1], TrueRange(s, j))
        <5>1. j + 0 = j BY <3>4
        <5> QED BY <3>5, <4>1, <5>1 DEF Grow, MeanOf
      <4>4. mean[k] = WilderStep(mean[k - 1], TrueRange(u, j))
        <5>1. k + (AtrPeriod + 1) = j BY <1>1, <3>2, <3>3
        <5> QED BY <3>6, <4>1, <5>1 DEF Grow, MeanOf
      <4>5. TrueRange(u, j) = TrueRange(s, j) BY <4>1, RangesAgree
      <4> QED BY <3>2, <3>3, <4>2, <4>3, <4>4, <4>5
    <3> QED BY <3>7, <3>8
  <2>2. i - AtrPeriod - 1 \in Nat /\ AtrPeriod + 1 + (i - AtrPeriod - 1) = i BY <1>1, <1>7
  <2>3. run[i] = mean[i - AtrPeriod - 1]
    <3>1. i - AtrPeriod - 1 \notin T BY <2>1
    <3> QED BY <1>1, <2>2, <3>1
  <2> QED BY <1>1, <1>2, <1>3, <1>5, <1>7, <2>3
<1> QED BY <1>1, <1>6, <1>7

-------------------------------------------------------------------------------
(* Recent swings. *)

LEMMA SubSeqList ==
  ASSUME NEW f, NEW p, IsList(f, p), NEW a \in Nat \ {0}, NEW b \in Nat, a <= b + 1, b <= p
  PROVE  /\ IsList(SubSeq(f, a, b), b + 1 - a)
         /\ \A k \in 1 .. b + 1 - a : SubSeq(f, a, b)[k] = f[a + k - 1]
<1> DEFINE S == {f[k] : k \in 1 .. p}
           n == b + 1 - a
<1>1. p \in Nat /\ n \in Nat /\ a \in Int /\ b \in Int BY DEF IsList
<1>2. \A k \in a .. b : f[k] \in S BY <1>1
<1> HIDE DEF S
<1>3. PICK x : x = SubSeq(f, a, b) OBVIOUS
<1>4. /\ x \in Seq(S) /\ Len(x) = (IF a <= b THEN b - a + 1 ELSE 0)
      /\ \A k \in 1 .. b - a + 1 : x[k] = f[a + k - 1]
  BY <1>1, <1>2, <1>3, SubSeqProperties
<1>5. Len(x) = n /\ b - a + 1 = n BY <1>1, <1>4
<1>6. x \in [1 .. n -> S] BY <1>4, <1>5, LenProperties
<1>7. IsList(x, n) BY <1>1, <1>6 DEF IsList
<1>8. \A k \in 1 .. n : x[k] = f[a + k - 1] BY <1>4, <1>5
<1> QED BY <1>3, <1>7, <1>8

Least2(a, b) == IF a < b THEN a ELSE b

\* R is the last CountWindow of the first k elements of f.
Recent(R, f, k) ==
  LET r == Least2(k, CountWindow)
  IN  IsList(R, r) /\ \A j \in 1 .. r : R[j] = f[k - r + j]

LEMMA JoinIsRecent ==
  ASSUME NEW f, NEW p, IsList(f, p), NEW k \in 1 .. p, NEW R, Recent(R, f, k - 1), NEW i \in Int,
         f[k].at \in Int, f[k].at <= i
  PROVE  Recent(JoinRecent(R, f[k], i), f, k)
<1> DEFINE r == Least2(k - 1, CountWindow)
           n == Least2(k, CountWindow)
           A == Append(R, f[k])
           from == Max({1, r + 2 - CountWindow})
<1>1. CountWindow \in Nat \ {0} /\ k \in Nat /\ k >= 1 /\ p \in Nat BY StructureAssumption DEF IsList
<1>2. /\ r \in Nat /\ n \in Nat /\ r <= k - 1 /\ n <= k
      /\ (r < CountWindow => n = r + 1) /\ (~(r < CountWindow) => n = r /\ r = CountWindow)
  BY <1>1 DEF Least2
<1>3. IsList(R, r) /\ \A j \in 1 .. r : R[j] = f[k - 1 - r + j] BY DEF Recent
<1> HIDE DEF r, n
<1>4. IsList(A, r + 1) /\ A[r + 1] = f[k] /\ \A j \in 1 .. r : A[j] = R[j]
  <2>1. PICK e : e = f[k] OBVIOUS
  <2>2. Begins(R, r, Append(R, e), r + 1) /\ Append(R, e)[r + 1] = e
    <3>1. PICK q, g : q = r /\ g = Append(R, e) OBVIOUS
    <3>2. Lengthens(R, q, g, e) BY <1>3, <3>1, AppendBegins
    <3> QED BY <3>1, <3>2 DEF Lengthens
  <2> QED BY <2>1, <2>2 DEF Begins
<1>5. from = r + 2 - n
  <2>1. r + 2 - CountWindow \in Int /\ 1 \in Int BY <1>1, <1>2
  <2>2. from \in {1, r + 2 - CountWindow} /\ from >= 1 /\ from >= r + 2 - CountWindow
    BY <2>1, MaxOfTwo
  <2> HIDE DEF from
  <2>3. CASE r < CountWindow BY <1>1, <1>2, <2>2, <2>3
  <2>4. CASE ~(r < CountWindow) BY <1>1, <1>2, <2>2, <2>4
  <2> QED BY <2>3, <2>4
<1> HIDE DEF from, A
<1>6. ASSUME NEW j \in 1 .. r + 1 PROVE A[j] = f[k - 1 - r + j]
  <2>1. CASE j = r + 1
    <3>1. k - 1 - r + j = k BY <1>1, <1>2, <2>1
    <3> QED BY <1>4, <2>1, <3>1
  <2>2. CASE j # r + 1
    <3>1. j \in 1 .. r BY <1>2, <2>2
    <3> QED BY <1>3, <1>4, <3>1
  <2> QED BY <2>1, <2>2
<1>7. Len(R) = r BY <1>3, ListIsSequence
<1>8. JoinRecent(R, f[k], i) = SubSeq(A, from, r + 1)
  <2>1. ~(f[k].at > i) OBVIOUS
  <2> QED BY <1>7, <2>1 DEF JoinRecent, A, from
<1>9. from \in Nat \ {0} /\ r + 1 \in Nat /\ from <= (r + 1) + 1 /\ (r + 1) + 1 - from = n
  BY <1>1, <1>2, <1>5
<1>10. PICK x : x = SubSeq(A, from, r + 1) OBVIOUS
<1>11. IsList(x, n) /\ \A j \in 1 .. n : x[j] = A[from + j - 1]
  <2>1. /\ IsList(SubSeq(A, from, r + 1), (r + 1) + 1 - from)
        /\ \A j \in 1 .. (r + 1) + 1 - from : SubSeq(A, from, r + 1)[j] = A[from + j - 1]
    BY <1>4, <1>9, SubSeqList
  <2> QED BY <1>9, <1>10, <2>1
<1>12. ASSUME NEW j \in 1 .. n PROVE x[j] = f[k - n + j]
  <2>1. from + j - 1 \in 1 .. r + 1 /\ k - 1 - r + (from + j - 1) = k - n + j BY <1>1, <1>2, <1>5
  <2> QED BY <1>6, <1>11, <2>1
<1>13. Recent(x, f, k) BY <1>11, <1>12 DEF Recent, n
<1> QED BY <1>8, <1>10, <1>13

JoiningAt(swings, i) == [swings |-> swings, bar |-> i]

LEMMA RecentSwingsIsPass ==
  ASSUME NEW swings, NEW i
  PROVE  \E run : Pass(run, "recent", JoiningAt(swings, i), <<>>, 0) /\ RecentSwings(swings, i) = run[Len(swings)]
<1> DEFINE form(f) == f = [k \in Nat |-> IF k = 0 THEN <<>> ELSE JoinRecent(f[k - 1], swings[k], i)]
           run == CHOOSE f : form(f)
<1>1. \A f : form(f) <=> Pass(f, "recent", JoiningAt(swings, i), <<>>, 0)
  <2> TAKE f
  <2>1. \A k \in Nat : k <= 0 <=> k = 0 OBVIOUS
  <2>2. \A k \in Nat : Grow("recent", JoiningAt(swings, i), f[k - 1], k) = JoinRecent(f[k - 1], swings[k], i)
    BY DEF Grow, JoiningAt
  <2>3. [k \in Nat |-> IF k = 0 THEN <<>> ELSE JoinRecent(f[k - 1], swings[k], i)]
          = [k \in Nat |-> IF k <= 0 THEN <<>> ELSE Grow("recent", JoiningAt(swings, i), f[k - 1], k)]
    BY <2>1, <2>2
  <2> QED BY <2>3 DEF Pass
<1>2. \E f : form(f) BY <1>1, PassExists
<1>3. RecentSwings(swings, i) = run[Len(swings)] BY DEF RecentSwings
<1> HIDE DEF form
<1>4. form(run) BY <1>2
<1> QED BY <1>1, <1>3, <1>4

LEMMA RecentAgree ==
  ASSUME NEW f, NEW p, NEW g, NEW q, NEW i \in Nat, Settles(f, p, g, q, i)
  PROVE  Recent(RecentSwings(g, i), f, p)
<1>1. /\ IsList(f, p) /\ IsList(g, q) /\ p \in Nat /\ q \in Nat /\ p <= q
      /\ \A k \in 1 .. p : f[k] = g[k] /\ g[k].at <= i
      /\ \A k \in p + 1 .. q : g[k].at > i
      /\ \A k \in 1 .. q : g[k].at \in Nat \ {0}
  BY DEF Settles, Begins, IsList
<1>2. Len(g) = q BY <1>1, ListIsSequence
<1>3. PICK run : Pass(run, "recent", JoiningAt(g, i), <<>>, 0) /\ RecentSwings(g, i) = run[q]
  BY <1>2, RecentSwingsIsPass
<1>4. run[0] = <<>>
  <2>1. 0 \in Nat /\ 0 <= 0 OBVIOUS
  <2> QED BY <1>3, <2>1 DEF Pass
<1>5. \A k \in Nat \ {0} : run[k] = JoinRecent(run[k - 1], g[k], i)
  <2> TAKE k \in Nat \ {0}
  <2>1. k \in Nat /\ ~(k <= 0) OBVIOUS
  <2> QED BY <1>3, <2>1 DEF Pass, Grow, JoiningAt
<1> DEFINE last(k) == IF k <= p THEN k ELSE p
           T == {k \in Nat : k <= q /\ ~Recent(run[k], f, last(k))}
<1>6. T = {}
  <2> SUFFICES ASSUME T # {} PROVE FALSE OBVIOUS
  <2>1. PICK k \in T : \A j \in T : k <= j
    <3>1. T \in SUBSET Nat OBVIOUS
    <3> HIDE DEF T
    <3> QED BY <3>1, LeastNatural
  <2>2. k \in Nat /\ k <= q /\ ~Recent(run[k], f, last(k)) OBVIOUS
  <2>3. CASE k = 0
    <3>1. last(k) = 0 /\ Least2(0, CountWindow) = 0 BY <1>1, <2>3, StructureAssumption DEF Least2
    <3>2. IsList(<<>>, 0)
      <4>1. <<>> = [j \in 1 .. 0 |-> <<>>[j]] OBVIOUS
      <4> QED BY <4>1 DEF IsList
    <3>3. Recent(run[k], f, 0) BY <1>4, <2>3, <3>1, <3>2 DEF Recent
    <3> QED BY <2>2, <3>1, <3>3
  <2>4. CASE k # 0
    <3>1. k \in Nat \ {0} /\ k - 1 \in Nat /\ ~(k <= k - 1) /\ k - 1 <= q BY <1>1, <2>2, <2>4
    <3>2. Recent(run[k - 1], f, last(k - 1))
      <4>1. k - 1 \notin T BY <2>1, <3>1
      <4> QED BY <3>1, <4>1
    <3>3. run[k] = JoinRecent(run[k - 1], g[k], i) BY <1>5, <3>1
    <3>4. CASE k <= p
      <4>1. last(k) = k /\ last(k - 1) = k - 1 /\ k \in 1 .. p /\ k \in 1 .. q BY <1>1, <3>1, <3>4
      <4>2. f[k] = g[k] /\ f[k].at <= i /\ f[k].at \in Int BY <1>1, <4>1
      <4>3. Recent(JoinRecent(run[k - 1], f[k], i), f, k) BY <1>1, <3>2, <4>1, <4>2, JoinIsRecent
      <4> QED BY <2>2, <3>3, <4>1, <4>2, <4>3
    <3>5. CASE ~(k <= p)
      <4>1. last(k) = p /\ last(k - 1) = p /\ k \in p + 1 .. q BY <1>1, <2>2, <3>1, <3>5
      <4>2. g[k].at > i BY <1>1, <4>1
      <4>3. run[k] = run[k - 1] BY <3>3, <4>2 DEF JoinRecent
      <4> QED BY <2>2, <3>2, <4>1, <4>3
    <3> QED BY <3>4, <3>5
  <2> QED BY <2>3, <2>4
<1>7. last(q) = p BY <1>1
<1>8. q \notin T BY <1>6
<1>9. Recent(run[q], f, p) BY <1>1, <1>7, <1>8
<1> QED BY <1>3, <1>9

LEMMA RecentIsPart ==
  ASSUME NEW f, NEW p, IsList(f, p), NEW R, Recent(R, f, p)
  PROVE  SubSeq(f, Max({1, Len(f) - CountWindow + 1}), Len(f)) = R
<1> DEFINE r == Least2(p, CountWindow)
           from == Max({1, p - CountWindow + 1})
<1>1. CountWindow \in Nat \ {0} /\ p \in Nat /\ Len(f) = p BY StructureAssumption, ListIsSequence DEF IsList
<1>2. r \in Nat /\ r <= p /\ (p < CountWindow => r = p) /\ (~(p < CountWindow) => r = CountWindow)
  BY <1>1 DEF Least2
<1>3. IsList(R, r) /\ \A j \in 1 .. r : R[j] = f[p - r + j] BY DEF Recent
<1> HIDE DEF r
<1>4. from = p + 1 - r
  <2>1. p - CountWindow + 1 \in Int /\ 1 \in Int BY <1>1
  <2>2. from \in {1, p - CountWindow + 1} /\ from >= 1 /\ from >= p - CountWindow + 1
    BY <2>1, MaxOfTwo
  <2> HIDE DEF from
  <2>3. CASE p < CountWindow BY <1>1, <1>2, <2>2, <2>3
  <2>4. CASE ~(p < CountWindow) BY <1>1, <1>2, <2>2, <2>4
  <2> QED BY <2>3, <2>4
<1> HIDE DEF from
<1>5. from \in Nat \ {0} /\ from <= p + 1 /\ p + 1 - from = r BY <1>1, <1>2, <1>4
<1>6. PICK x : x = SubSeq(f, from, p) OBVIOUS
<1>7. IsList(x, r) /\ \A j \in 1 .. r : x[j] = f[from + j - 1]
  <2>1. /\ IsList(SubSeq(f, from, p), p + 1 - from)
        /\ \A j \in 1 .. p + 1 - from : SubSeq(f, from, p)[j] = f[from + j - 1]
    BY <1>1, <1>5, SubSeqList
  <2> QED BY <1>5, <1>6, <2>1
<1>8. \A j \in 1 .. r : x[j] = R[j]
  <2> TAKE j \in 1 .. r
  <2>1. from + j - 1 = p - r + j BY <1>1, <1>2, <1>4
  <2> QED BY <1>3, <1>7, <2>1
<1>9. x = R BY <1>3, <1>7, <1>8, ListsEqual
<1> QED BY <1>1, <1>6, <1>9 DEF from

\* The swings kept bar by bar count as all the swings confirmed by the bar.
LEMMA CountsAgree ==
  ASSUME NEW f, NEW p, NEW g, NEW q, NEW i \in Nat, Settles(f, p, g, q, i)
  PROVE  StructureCounts(RecentSwings(g, i)) = StructureCounts(f)
<1>1. PICK R : R = RecentSwings(g, i) OBVIOUS
<1>2. Recent(R, f, p) /\ IsList(f, p) BY <1>1, RecentAgree DEF Settles, Begins
<1>3. SubSeq(f, Max({1, Len(f) - CountWindow + 1}), Len(f)) = R BY <1>2, RecentIsPart
<1>4. PICK r : r = Least2(p, CountWindow) OBVIOUS
<1>5. IsList(R, r) BY <1>2, <1>4 DEF Recent
<1>6. Recent(R, R, r)
  <2>1. CountWindow \in Nat \ {0} /\ p \in Nat BY <1>2, StructureAssumption DEF IsList
  <2>2. Least2(r, CountWindow) = r /\ r \in Nat BY <1>4, <2>1 DEF Least2
  <2>3. \A j \in 1 .. r : r - r + j = j BY <2>2
  <2> QED BY <1>5, <2>2, <2>3 DEF Recent
<1>7. SubSeq(R, Max({1, Len(R) - CountWindow + 1}), Len(R)) = R BY <1>5, <1>6, RecentIsPart
<1>8. StructureCounts(R) = StructureCounts(f) BY <1>3, <1>7 DEF StructureCounts
<1> QED BY <1>1, <1>8

-------------------------------------------------------------------------------
(* Contexts. *)

LEMMA LatestSwingAgrees ==
  ASSUME NEW f, NEW p, NEW g, NEW q, NEW n \in Nat, Settles(f, p, g, q, n), NEW i \in 0 .. n, NEW close
  PROVE  LatestSwing(g, i, close) = LatestSwing(f, i, close)
<1>1. PICK k : k = LatestConfirmed(f, i) OBVIOUS
<1>2. k = LatestConfirmed(g, i) /\ k \in 0 .. p /\ p \in Nat /\ \A j \in 1 .. p : f[j] = g[j]
  BY <1>1, LatestSettles
<1>3. k # 0 => f[k] = g[k] BY <1>2
<1>4. LatestSwing(f, i, close) = IF k = 0 THEN NoValue
                                ELSE <<f[k].price, close - f[k].price, i - f[k].at>>
  BY <1>1 DEF LatestSwing
<1>5. LatestSwing(g, i, close) = IF k = 0 THEN NoValue
                                ELSE <<g[k].price, close - g[k].price, i - g[k].at>>
  BY <1>2 DEF LatestSwing
<1> QED BY <1>3, <1>4, <1>5

\* The parts of a context.
CountsAt(swings, i) == [kind \in Kinds |-> StructureCounts(RecentSwings(swings[kind], i))]
LatestAt(s, swings, i) == [kind \in Kinds |-> LatestSwing(swings[kind], i, s[i].c)]
LabelsAt(swings, i) == [kind \in Kinds |-> LabelAt(swings[kind], i)]

LEMMA ContextIs ==
  ASSUME NEW g, NEW a, NEW b, IsSegment(g, a, b), NEW i \in 1 .. b + 1 - a
  PROVE  LET s == Series(g)
             swings == SwingsOf(s)
         IN  MarketContexts(g)[i] =
               [row    |-> FeatureRows(g)[i],
                counts |-> CountsAt(swings, i),
                latest |-> LatestAt(s, swings, i),
                labels |-> LabelsAt(swings, i),
                break  |-> BreakAt(StructureBreaks(s), i)]
<1>1. IsList(Series(g), b + 1 - a) BY SeriesLists
<1>2. DOMAIN Series(g) = 1 .. b + 1 - a BY <1>1, ListIsSequence
<1> QED BY <1>2 DEF MarketContexts, LabelAt, CountsAt, LatestAt, LabelsAt

LEMMA ContextAtBar ==
  ASSUME NEW g, NEW a, NEW b, IsSegment(g, a, b), NEW i \in 1 .. b + 1 - a
  PROVE  LET s == Series(g)
             c == MarketContexts(g)[i]
             swings == SwingsOf(s)
         IN  /\ c.row = FeatureRows(g)[i]
             /\ c.row.decision = a + i
             /\ c.row.atr = AtrSeries(s)[i]
             /\ c.counts = CountsAt(swings, i)
             /\ c.latest = LatestAt(s, swings, i)
<1> DEFINE s == Series(g)
           n == b + 1 - a
           swings == SwingsOf(s)
           times == InOrder(DOMAIN g)
<1>1. n \in Nat /\ times = [k \in 1 .. n |-> a + k - 1] /\ a \in Int BY InOrderInterval DEF IsSegment
<1>2. IsList(s, n) BY SeriesLists
<1>3. DOMAIN s = 1 .. n BY <1>2, ListIsSequence
<1>4. times[i] + 1 = a + i BY <1>1
<1>5. FeatureRows(g)[i].decision = times[i] + 1 /\ FeatureRows(g)[i].atr = AtrSeries(s)[i]
  BY <1>3 DEF FeatureRows
<1>6. PICK row, counts, latest, labels, break :
        /\ row = FeatureRows(g)[i]
        /\ counts = CountsAt(swings, i)
        /\ latest = LatestAt(s, swings, i)
        /\ labels = LabelsAt(swings, i)
        /\ break = BreakAt(StructureBreaks(s), i)
  OBVIOUS
<1>7. MarketContexts(g)[i] = [row |-> row, counts |-> counts, latest |-> latest, labels |-> labels,
                              break |-> break]
  BY <1>6, ContextIs
<1> HIDE DEF s, swings, times
<1> QED BY <1>4, <1>5, <1>6, <1>7 DEF s, swings

\* The snapshot of the bars visible at the close of a bar.
LEMMA SnapshotAgrees ==
  ASSUME NEW g, NEW a, NEW b, IsSegment(g, a, b), NEW i \in 1 .. b + 1 - a
  PROVE  LET c == MarketContexts(g)[i]
             s == MarketStateSnapshot(g, c.row.decision, c.row.decision)
         IN  c.row.atr = s.atr /\ c.counts = s.counts /\ c.latest = s.latest
<1> DEFINE d == a + i
           visible == {t \in DOMAIN g : t + 1 <= d}
           seen == [t \in visible |-> g[t]]
           u == Series(seen)
           s == Series(g)
           c == MarketContexts(g)[i]
           snapshot == MarketStateSnapshot(g, d, d)
<1>1. a \in Int /\ b \in Int /\ a <= b /\ DOMAIN g = a .. b /\ i \in Nat /\ i >= 1 /\ a + i - 1 <= b
      /\ a + i - 1 \in Int
  BY DEF IsSegment
<1>2. visible = a .. a + i - 1 BY <1>1
<1>3. IsSegment(seen, a, a + i - 1) /\ \A t \in a .. a + i - 1 : seen[t] = g[t] BY <1>1, <1>2 DEF IsSegment
<1> HIDE DEF seen
<1>4. Begins(u, i, s, b + 1 - a)
  <2>1. Begins(u, (a + i - 1) + 1 - a, s, b + 1 - a) BY <1>1, <1>3, SeriesBegin
  <2>2. (a + i - 1) + 1 - a = i BY <1>1
  <2> QED BY <2>1, <2>2
<1>5. Len(u) = i /\ u[i] = s[i]
  <2>1. IsList(u, i) /\ i \in 1 .. i /\ \A k \in 1 .. i : u[k] = s[k] BY <1>1, <1>4 DEF Begins
  <2> QED BY <2>1, ListIsSequence
<1>6. /\ snapshot.atr = WilderAtr(u)
      /\ snapshot.counts = [kind \in Kinds |-> StructureCounts(SwingsOf(u)[kind])]
      /\ snapshot.latest = [kind \in Kinds |-> LatestSwing(SwingsOf(u)[kind], Len(u), u[Len(u)].c)]
  BY DEF MarketStateSnapshot, seen
<1> HIDE DEF u, s, visible, snapshot
<1>7. /\ c.row.decision = d /\ c.row.atr = AtrSeries(s)[i]
      /\ c.counts = CountsAt(SwingsOf(s), i) /\ c.latest = LatestAt(s, SwingsOf(s), i)
  BY ContextAtBar DEF s
<1> HIDE DEF c, d
<1>8. AtrSeries(s)[i] = WilderAtr(u) BY <1>1, <1>4, AtrAgrees
<1>9. ASSUME NEW kind \in Kinds
      PROVE  /\ StructureCounts(RecentSwings(SwingsOf(s)[kind], i)) = StructureCounts(SwingsOf(u)[kind])
             /\ LatestSwing(SwingsOf(s)[kind], i, s[i].c) = LatestSwing(SwingsOf(u)[kind], Len(u), u[Len(u)].c)
  <2>1. PICK p, q : Settles(SwingsOf(u)[kind], p, SwingsOf(s)[kind], q, i)
    BY <1>4, SwingsOfSettle DEF SwingsAgree
  <2>2. i \in 0 .. i BY <1>1
  <2> QED BY <1>1, <1>5, <2>1, <2>2, CountsAgree, LatestSwingAgrees
<1>10. c.row.atr = snapshot.atr /\ c.counts = snapshot.counts /\ c.latest = snapshot.latest
  BY <1>6, <1>7, <1>8, <1>9 DEF CountsAt, LatestAt
<1> QED BY <1>7, <1>10 DEF c, d, snapshot

-------------------------------------------------------------------------------
(* Histories cut short. *)

LEMMA CutIsSegment ==
  ASSUME NEW g, NEW a, NEW b, IsSegment(g, a, b), NEW d \in a .. b + 1
  PROVE  /\ IsSegment(Cut(g, d), a, d - 1) /\ d \in Int
         /\ \A t \in a .. d - 1 : t \in DOMAIN g /\ Cut(g, d)[t] = g[t]
         /\ AgreeBefore(Cut(g, d), g, d) /\ AgreeBefore(g, Cut(g, d), d)
         /\ \A e \in a .. d : Cut(Cut(g, d), e) = Cut(g, e)
         /\ Completed(Cut(g, d), d) = a .. d - 1 /\ Completed(g, b + 1) = a .. b
<1>1. a \in Int /\ b \in Int /\ d \in Int /\ a <= d /\ d <= b + 1 /\ DOMAIN g = a .. b
  BY DEF IsSegment
<1>2. DOMAIN Cut(g, d) = a .. d - 1
  <2>1. {u \in a .. b : u < d} = a .. d - 1 BY <1>1
  <2> QED BY <1>1, <2>1 DEF Cut
<1>3. \A t \in a .. d - 1 : t \in DOMAIN g /\ Cut(g, d)[t] = g[t]
  <2>1. \A t \in DOMAIN Cut(g, d) : Cut(g, d)[t] = g[t] BY DEF Cut
  <2> QED BY <1>1, <1>2, <2>1
<1>4. AgreeBefore(Cut(g, d), g, d) /\ AgreeBefore(g, Cut(g, d), d)
  BY <1>1, <1>2, <1>3 DEF AgreeBefore
<1>5. ASSUME NEW e \in a .. d PROVE Cut(Cut(g, d), e) = Cut(g, e)
  <2>1. {u \in DOMAIN Cut(g, d) : u < e} = {u \in DOMAIN g : u < e} BY <1>1, <1>2
  <2>2. \A t \in {u \in DOMAIN g : u < e} : Cut(g, d)[t] = g[t] BY <1>1, <1>3
  <2>3. [t \in {u \in DOMAIN Cut(g, d) : u < e} |-> Cut(g, d)[t]]
          = [t \in {u \in DOMAIN g : u < e} |-> g[t]]
    BY <2>1, <2>2
  <2> QED BY <2>3 DEF Cut
<1>6. Completed(Cut(g, d), d) = a .. d - 1 /\ Completed(g, b + 1) = a .. b
  BY <1>1, <1>2 DEF Completed
<1> QED BY <1>1, <1>2, <1>3, <1>4, <1>5, <1>6 DEF IsSegment

LEMMA SegmentEnds ==
  ASSUME NEW g, NEW a, NEW b, IsSegment(g, a, b), a <= b
  PROVE  Min(DOMAIN g) = a /\ Max(DOMAIN g) = b
<1>1. a \in Int /\ b \in Int /\ DOMAIN g = a .. b /\ a \in a .. b /\ b \in a .. b BY DEF IsSegment
<1>2. \A x \in a .. b : (\A y \in a .. b : x >= y) => x = b BY <1>1
<1>3. \A x \in a .. b : (\A y \in a .. b : x <= y) => x = a BY <1>1
<1>4. Max(a .. b) \in a .. b /\ \A y \in a .. b : Max(a .. b) >= y BY <1>1 DEF Max
<1>5. Min(a .. b) \in a .. b /\ \A y \in a .. b : Min(a .. b) <= y BY <1>1 DEF Min
<1> QED BY <1>1, <1>2, <1>3, <1>4, <1>5

-------------------------------------------------------------------------------
(* Levels. *)

LEMMA BlockIsFrame == Frame(Block)
  BY LevelsAssumption, DayAssumption DEF TilesDay, Frame, Zones

\* A completed block covers bars of the history.
LEMMA BlockShape ==
  ASSUME NEW frame, Frame(frame), NEW g, DOMAIN g \subseteq Int, NEW e \in Int,
         NEW x \in CompletedBlocks(g, e, frame)
  PROVE  /\ x.block.start \in Int /\ x.block.end \in Int
         /\ x.block.start < x.block.end /\ x.block.end <= e
         /\ x.block.start .. x.block.end - 1 \subseteq DOMAIN g
<1> DEFINE B(t) == ResolveBlock(t, frame)
           Members(b) == {t \in Completed(g, e) : B(t).start = b.start /\ B(t).end = b.end}
<1>1. PICK b : /\ b \in {y \in {B(t) : t \in Completed(g, e)} : y.end <= e}
               /\ Members(b) = b.start .. b.end - 1
               /\ x = [block |-> b, candle |-> Merge(g, b.start, b.end)]
  BY DEF CompletedBlocks
<1>2. PICK t \in Completed(g, e) : b = B(t) /\ b.end <= e BY <1>1
<1>3. t \in Int BY DEF Completed
<1>4. b.start \in Int /\ b.end \in Int /\ b.start <= t /\ t < b.end BY <1>2, <1>3, BlocksTile
<1>5. b.start .. b.end - 1 \subseteq DOMAIN g BY <1>1 DEF Completed
<1> QED BY <1>1, <1>2, <1>3, <1>4, <1>5

\* The blocks that have ended by d are those of the history cut at d.
LEMMA BlocksSettle ==
  ASSUME NEW frame, Frame(frame), NEW g, NEW a, NEW b, IsSegment(g, a, b), NEW d \in a .. b + 1, NEW x
  PROVE  x \in CompletedBlocks(g, b + 1, frame) /\ x.block.end <= d
           <=> x \in CompletedBlocks(Cut(g, d), d, frame)
<1>1. /\ DOMAIN g \subseteq Int /\ DOMAIN Cut(g, d) \subseteq Int /\ d \in Int /\ d <= d
      /\ d <= b + 1 /\ b + 1 \in Int
      /\ AgreeBefore(Cut(g, d), g, d) /\ AgreeBefore(g, Cut(g, d), d)
  <2>1. AgreeBefore(Cut(g, d), g, d) /\ AgreeBefore(g, Cut(g, d), d) BY CutIsSegment
  <2>2. DOMAIN g \subseteq Int /\ DOMAIN Cut(g, d) \subseteq Int BY <2>1 DEF AgreeBefore
  <2>3. a \in Int /\ b \in Int BY DEF IsSegment
  <2> QED BY <2>1, <2>2, <2>3
<1> DEFINE w == Window(x.block)
<1>2. w.end = x.block.end BY DEF Window
<1> HIDE DEF w
<1>3. ASSUME x \in CompletedBlocks(g, b + 1, frame), x.block.end <= d
      PROVE  x \in CompletedBlocks(Cut(g, d), d, frame)
  <2>1. x \in InWindow(g, b + 1, frame, w) BY <1>3 DEF InWindow, w
  <2>2. w.end <= d BY <1>2, <1>3
  <2>3. x \in InWindow(Cut(g, d), d, frame, w) BY <1>1, <2>1, <2>2, WindowCarries
  <2> QED BY <2>3 DEF InWindow
<1>4. ASSUME x \in CompletedBlocks(Cut(g, d), d, frame)
      PROVE  x \in CompletedBlocks(g, b + 1, frame) /\ x.block.end <= d
  <2>1. x.block.end <= d BY <1>1, <1>4, BlockShape
  <2>2. x \in InWindow(Cut(g, d), d, frame, w) BY <1>4 DEF InWindow, w
  <2>3. w.end <= d BY <1>2, <2>1
  <2>4. x \in InWindow(g, b + 1, frame, w) BY <1>1, <2>2, <2>3, WindowCarries
  <2> QED BY <2>1, <2>4 DEF InWindow
<1> QED BY <1>3, <1>4

LEMMA InstancesSettle ==
  ASSUME NEW g, NEW a, NEW b, IsSegment(g, a, b), NEW d \in a .. b + 1, NEW x
  PROVE  /\ x \in GeometryInstances(g, b + 1) /\ x.available <= d
              <=> x \in GeometryInstances(Cut(g, d), d)
         /\ x \in GeometryInstances(g, b + 1) => x.available \in a + 1 .. b + 1
<1> DEFINE Level(y, id) == [block |-> y.block, available |-> y.block.end, level |-> id,
                            price |-> LevelPrice(y.candle, Levels[id])]
<1>1. \A k, e : GeometryInstances(k, e) = {Level(y, id) : y \in CompletedBlocks(k, e, Block), id \in DOMAIN Levels}
  BY DEF GeometryInstances
<1>2. \A y, id : Level(y, id).available = y.block.end OBVIOUS
<1>3. \A y : y \in CompletedBlocks(g, b + 1, Block) /\ y.block.end <= d
               <=> y \in CompletedBlocks(Cut(g, d), d, Block)
  BY BlockIsFrame, BlocksSettle
<1>4. \A y \in CompletedBlocks(g, b + 1, Block) : y.block.end \in a + 1 .. b + 1
  <2> TAKE y \in CompletedBlocks(g, b + 1, Block)
  <2>1. DOMAIN g = a .. b /\ a \in Int /\ b \in Int /\ b + 1 \in Int /\ a .. b \subseteq Int BY DEF IsSegment
  <2>2. /\ y.block.start \in Int /\ y.block.end \in Int
        /\ y.block.start < y.block.end /\ y.block.end <= b + 1
        /\ y.block.start .. y.block.end - 1 \subseteq a .. b
    BY <2>1, BlockIsFrame, BlockShape
  <2>3. y.block.start \in y.block.start .. y.block.end - 1 BY <2>2
  <2> QED BY <2>1, <2>2, <2>3
<1> HIDE DEF Level
<1>5. x \in GeometryInstances(g, b + 1) /\ x.available <= d => x \in GeometryInstances(Cut(g, d), d)
  BY <1>1, <1>2, <1>3
<1>6. x \in GeometryInstances(Cut(g, d), d) => x \in GeometryInstances(g, b + 1) /\ x.available <= d
  BY <1>1, <1>2, <1>3
<1>7. x \in GeometryInstances(g, b + 1) => x.available \in a + 1 .. b + 1 BY <1>1, <1>2, <1>4
<1> QED BY <1>5, <1>6, <1>7

-------------------------------------------------------------------------------
(* Runs of states. *)

Starts(states) == {i \in DOMAIN states : i = 1 \/ states[i] # states[i - 1]}

LEMMA RunsList ==
  ASSUME NEW states, NEW n, IsList(states, n)
  PROVE  /\ Starts(states) \in SUBSET Int /\ IsFiniteSet(Starts(states))
         /\ IsList(StateRuns(states), Cardinality(Starts(states)))
         /\ \A k \in 1 .. Cardinality(Starts(states)) :
              LET first == InOrder(Starts(states))[k]
              IN  /\ first \in Starts(states) /\ first \in 1 .. n
                  /\ StateRuns(states)[k] =
                       [state |-> states[first], first |-> first,
                        last |-> IF k < Cardinality(Starts(states))
                                   THEN InOrder(Starts(states))[k + 1] - 1 ELSE n]
<1>1. n \in Nat /\ DOMAIN states = 1 .. n /\ Len(states) = n
  BY ListIsSequence DEF IsList
<1>2. Starts(states) \in SUBSET Int /\ Starts(states) \subseteq 1 .. n /\ IsFiniteSet(Starts(states))
  <2>1. Starts(states) \subseteq 1 .. n BY <1>1 DEF Starts
  <2>2. IsFiniteSet(1 .. n) BY <1>1, FS_Interval
  <2> QED BY <1>1, <2>1, <2>2, FS_Subset
<1> DEFINE c == Cardinality(Starts(states))
           starts == InOrder(Starts(states))
<1>3. IsList(starts, c) /\ \A k \in 1 .. c : starts[k] \in Starts(states) BY <1>2, InOrderLists
<1>4. c \in Nat /\ DOMAIN starts = 1 .. c /\ Len(starts) = c BY <1>3, ListIsSequence DEF IsList
<1> HIDE DEF c, starts
<1>5. StateRuns(states) = [k \in 1 .. c |->
        [state |-> states[starts[k]], first |-> starts[k],
         last |-> IF k < c THEN starts[k + 1] - 1 ELSE n]]
  BY <1>1, <1>4 DEF StateRuns, Starts, starts
<1>6. IsList(StateRuns(states), c) BY <1>4, <1>5 DEF IsList
<1>7. \A k \in 1 .. c : /\ starts[k] \in Starts(states) /\ starts[k] \in 1 .. n
                        /\ StateRuns(states)[k] =
                             [state |-> states[starts[k]], first |-> starts[k],
                              last |-> IF k < c THEN starts[k + 1] - 1 ELSE n]
  BY <1>2, <1>3, <1>5
<1> QED BY <1>2, <1>6, <1>7 DEF c, starts

\* What states seen up to n leave of the runs: all of the runs but the last one
\* are complete, and the last one has begun.
RunsSettle(f, p, g, q, n) ==
  /\ IsList(f, p) /\ IsList(g, q) /\ p <= q /\ n \in Nat
  /\ \A k \in 1 .. p : g[k].state = f[k].state /\ g[k].first = f[k].first
  /\ \A k \in 1 .. p - 1 : g[k] = f[k]
  /\ \A k \in 1 .. q - 1 : /\ g[k].last \in Int
                           /\ g[k].last + 1 <= n <=> k + 1 <= p

LEMMA StartsBegin ==
  ASSUME NEW s, NEW n, NEW u, NEW m, Begins(s, n, u, m)
  PROVE  Starts(s) \subseteq Starts(u) /\ \A i \in Starts(u) : i \in Starts(s) <=> i <= n
<1>1. n \in Nat /\ m \in Nat /\ n <= m /\ DOMAIN s = 1 .. n /\ DOMAIN u = 1 .. m
      /\ \A i \in 1 .. n : s[i] = u[i]
  BY ListIsSequence DEF Begins, IsList
<1>2. ASSUME NEW i \in 1 .. n PROVE i = 1 \/ s[i] # s[i - 1] <=> i = 1 \/ u[i] # u[i - 1]
  <2>1. CASE i = 1 BY <2>1
  <2>2. CASE i # 1
    <3>1. i - 1 \in 1 .. n BY <1>1, <2>2
    <3> QED BY <1>1, <3>1
  <2> QED BY <2>1, <2>2
<1>3. \A i \in 1 .. n : i \in 1 .. m BY <1>1
<1>4. \A i \in 1 .. m : i \in 1 .. n <=> i <= n BY <1>1
<1> QED BY <1>1, <1>2, <1>3, <1>4 DEF Starts

LEMMA StateRunsSettle ==
  ASSUME NEW s, NEW n, NEW u, NEW m, Begins(s, n, u, m)
  PROVE  \E p, q : RunsSettle(StateRuns(s), p, StateRuns(u), q, n)
<1>1. IsList(s, n) /\ IsList(u, m) /\ n \in Nat /\ m \in Nat /\ n <= m
      /\ \A i \in 1 .. n : s[i] = u[i]
  BY DEF Begins, IsList
<1> DEFINE S == Starts(s)
           U == Starts(u)
<1>2. PICK p, q : p = Cardinality(S) /\ q = Cardinality(U) OBVIOUS
<1>3. /\ S \in SUBSET Int /\ U \in SUBSET Int /\ IsFiniteSet(U)
      /\ IsList(StateRuns(s), p) /\ IsList(StateRuns(u), q)
  BY <1>1, <1>2, RunsList
<1>4. \A k \in 1 .. p : /\ InOrder(S)[k] \in S /\ InOrder(S)[k] \in 1 .. n
                        /\ StateRuns(s)[k] =
                             [state |-> s[InOrder(S)[k]], first |-> InOrder(S)[k],
                              last |-> IF k < p THEN InOrder(S)[k + 1] - 1 ELSE n]
  BY <1>1, <1>2, RunsList
<1>5. \A k \in 1 .. q : /\ InOrder(U)[k] \in U /\ InOrder(U)[k] \in 1 .. m
                        /\ StateRuns(u)[k] =
                             [state |-> u[InOrder(U)[k]], first |-> InOrder(U)[k],
                              last |-> IF k < q THEN InOrder(U)[k + 1] - 1 ELSE m]
  BY <1>1, <1>2, RunsList
<1>6. S \subseteq U /\ \A i \in U : i \in S <=> i <= n BY StartsBegin
<1> HIDE DEF S, U
<1>7. \A x \in S, y \in U \ S : x < y BY <1>1, <1>3, <1>6
<1>8. /\ Begins(InOrder(S), p, InOrder(U), q)
      /\ \A k \in p + 1 .. q : InOrder(U)[k] \in U \ S
  BY <1>2, <1>3, <1>6, <1>7, InOrderBegins
<1>9. p \in Nat /\ q \in Nat /\ p <= q /\ \A k \in 1 .. p : InOrder(S)[k] = InOrder(U)[k]
  BY <1>8 DEF Begins, IsList
<1>10. \A k \in 1 .. p : k \in 1 .. q BY <1>9
<1>11. \A k \in 1 .. p : /\ StateRuns(u)[k].state = StateRuns(s)[k].state
                         /\ StateRuns(u)[k].first = StateRuns(s)[k].first
  <2> TAKE k \in 1 .. p
  <2>1. k \in 1 .. q BY <1>10
  <2>2. PICK i : i = InOrder(S)[k] OBVIOUS
  <2>3. InOrder(U)[k] = i BY <1>9, <2>2
  <2>4. i \in 1 .. n BY <1>4, <2>2
  <2>5. s[i] = u[i] BY <1>1, <2>4
  <2>6. \E l : StateRuns(s)[k] = [state |-> s[i], first |-> i, last |-> l] BY <1>4, <2>2
  <2>7. \E l : StateRuns(u)[k] = [state |-> u[i], first |-> i, last |-> l] BY <1>5, <2>1, <2>3
  <2> QED BY <2>5, <2>6, <2>7
<1>12. \A k \in 1 .. p - 1 : StateRuns(u)[k] = StateRuns(s)[k]
  <2> TAKE k \in 1 .. p - 1
  <2>1. k \in 1 .. p /\ k + 1 \in 1 .. p /\ k < p /\ k < q /\ k \in 1 .. q BY <1>9
  <2>2. InOrder(U)[k] = InOrder(S)[k] /\ InOrder(U)[k + 1] = InOrder(S)[k + 1] BY <1>9, <2>1
  <2>3. InOrder(S)[k] \in 1 .. n BY <1>4, <2>1
  <2>4. s[InOrder(S)[k]] = u[InOrder(S)[k]] BY <1>1, <2>3
  <2>5. StateRuns(s)[k] = [state |-> s[InOrder(S)[k]], first |-> InOrder(S)[k],
                           last |-> InOrder(S)[k + 1] - 1]
    BY <1>4, <2>1
  <2>6. StateRuns(u)[k] = [state |-> u[InOrder(U)[k]], first |-> InOrder(U)[k],
                           last |-> InOrder(U)[k + 1] - 1]
    BY <1>5, <2>1
  <2> QED BY <2>2, <2>4, <2>5, <2>6
<1>13. ASSUME NEW k \in 1 .. q - 1
       PROVE  /\ StateRuns(u)[k].last \in Int
              /\ StateRuns(u)[k].last + 1 <= n <=> k + 1 <= p
  <2>1. k \in 1 .. q /\ k + 1 \in 1 .. q /\ k < q BY <1>9
  <2>2. StateRuns(u)[k].last = InOrder(U)[k + 1] - 1 /\ InOrder(U)[k + 1] \in U
        /\ InOrder(U)[k + 1] \in Int
    <3>0. StateRuns(u)[k] = [state |-> u[InOrder(U)[k]], first |-> InOrder(U)[k],
                             last |-> InOrder(U)[k + 1] - 1]
      BY <1>5, <2>1
    <3>1. StateRuns(u)[k].last = InOrder(U)[k + 1] - 1 BY <3>0
    <3>2. InOrder(U)[k + 1] \in U BY <1>5, <2>1
    <3>3. InOrder(U)[k + 1] \in Int BY <1>3, <3>2
    <3> QED BY <2>1, <3>1, <3>2, <3>3
  <2>3. InOrder(U)[k + 1] \in S <=> k + 1 <= p
    <3>1. CASE k + 1 <= p
      <4>1. k + 1 \in 1 .. p BY <2>1, <3>1, <1>9
      <4> QED BY <1>4, <1>9, <3>1, <4>1
    <3>2. CASE ~(k + 1 <= p)
      <4>1. k + 1 \in p + 1 .. q BY <2>1, <3>2, <1>9
      <4> QED BY <1>8, <3>2, <4>1
    <3> QED BY <3>1, <3>2
  <2> QED BY <1>6, <2>2, <2>3
<1> QED BY <1>1, <1>3, <1>9, <1>11, <1>12, <1>13 DEF RunsSettle

-------------------------------------------------------------------------------
(* Touch patterns. *)

Touched(runs) == {k \in DOMAIN runs : runs[k].state = "TOUCH"}

PatternOf(runs, length, k, index) ==
  [index |-> index, first |-> runs[k].first, last |-> runs[k].last,
   before |-> IF k = 1 THEN "START" ELSE runs[k - 1].state,
   after  |-> IF k = length THEN "END" ELSE runs[k + 1].state]

LEMMA PatternsList ==
  ASSUME NEW runs, NEW p, IsList(runs, p)
  PROVE  /\ Touched(runs) \in SUBSET Int /\ IsFiniteSet(Touched(runs))
         /\ Range(TouchPatterns(runs)) =
              {PatternOf(runs, p, InOrder(Touched(runs))[j], j - 1) : j \in 1 .. Cardinality(Touched(runs))}
         /\ \A j \in 1 .. Cardinality(Touched(runs)) :
              InOrder(Touched(runs))[j] \in Touched(runs) /\ InOrder(Touched(runs))[j] \in 1 .. p
<1>1. p \in Nat /\ DOMAIN runs = 1 .. p /\ Len(runs) = p BY ListIsSequence DEF IsList
<1>2. Touched(runs) \subseteq 1 .. p /\ Touched(runs) \in SUBSET Int /\ IsFiniteSet(Touched(runs))
  <2>1. Touched(runs) \subseteq 1 .. p BY <1>1 DEF Touched
  <2>2. IsFiniteSet(1 .. p) BY <1>1, FS_Interval
  <2> QED BY <1>1, <2>1, <2>2, FS_Subset
<1> DEFINE c == Cardinality(Touched(runs))
           touches == InOrder(Touched(runs))
<1>3. IsList(touches, c) /\ \A j \in 1 .. c : touches[j] \in Touched(runs) BY <1>2, InOrderLists
<1>4. c \in Nat /\ DOMAIN touches = 1 .. c BY <1>3, ListIsSequence DEF IsList
<1> HIDE DEF c, touches
<1>5. TouchPatterns(runs) = [j \in 1 .. c |-> PatternOf(runs, p, touches[j], j - 1)]
  BY <1>1, <1>4 DEF TouchPatterns, PatternOf, Touched, touches
<1>6. Range(TouchPatterns(runs)) = {PatternOf(runs, p, touches[j], j - 1) : j \in 1 .. c}
  BY <1>5 DEF Range
<1> QED BY <1>2, <1>3, <1>6 DEF c, touches

\* A pattern that more is known of than its touch stays what it is.
LEMMA PatternSettles ==
  ASSUME NEW f, NEW p, NEW g, NEW q, NEW n, RunsSettle(f, p, g, q, n),
         NEW k \in 1 .. p - 1, NEW index
  PROVE  PatternOf(f, p, k, index) = PatternOf(g, q, k, index)
<1>1. p \in Nat /\ q \in Nat /\ p <= q BY DEF RunsSettle, IsList
<1>2. k # p /\ k # q /\ k + 1 \in 1 .. p BY <1>1
<1>3. f[k] = g[k] /\ f[k + 1].state = g[k + 1].state BY <1>2 DEF RunsSettle
<1>4. k # 1 => f[k - 1].state = g[k - 1].state
  <2>1. k # 1 => k - 1 \in 1 .. p BY <1>1
  <2> QED BY <2>1 DEF RunsSettle
<1>5. PICK x, y : x = (IF k = 1 THEN "START" ELSE f[k - 1].state) /\ y = f[k + 1].state OBVIOUS
<1>6. x = (IF k = 1 THEN "START" ELSE g[k - 1].state) BY <1>4, <1>5
<1>7. PatternOf(f, p, k, index) = [index |-> index, first |-> f[k].first, last |-> f[k].last, before |-> x, after |-> y]
  BY <1>2, <1>5 DEF PatternOf
<1>8. PatternOf(g, q, k, index) = [index |-> index, first |-> g[k].first, last |-> g[k].last, before |-> x, after |-> y]
  BY <1>2, <1>3, <1>5, <1>6 DEF PatternOf
<1> QED BY <1>3, <1>7, <1>8

LEMMA TouchesBegin ==
  ASSUME NEW f, NEW p, NEW g, NEW q, NEW n, RunsSettle(f, p, g, q, n)
  PROVE  /\ Begins(InOrder(Touched(f)), Cardinality(Touched(f)), InOrder(Touched(g)), Cardinality(Touched(g)))
         /\ \A j \in Cardinality(Touched(f)) + 1 .. Cardinality(Touched(g)) : InOrder(Touched(g))[j] > p
<1>1. /\ p \in Nat /\ q \in Nat /\ p <= q /\ DOMAIN f = 1 .. p /\ DOMAIN g = 1 .. q
      /\ IsList(f, p) /\ IsList(g, q) /\ \A k \in 1 .. p : g[k].state = f[k].state
  BY ListIsSequence DEF RunsSettle, IsList
<1>2. Touched(f) \in SUBSET Int /\ Touched(g) \in SUBSET Int /\ IsFiniteSet(Touched(g))
  BY <1>1, PatternsList
<1>3. \A k \in 1 .. p : k \in 1 .. q BY <1>1
<1>4. Touched(f) \subseteq Touched(g) BY <1>1, <1>3 DEF Touched
<1>5. \A k \in Touched(g) \ Touched(f) : k > p
  <2>1. \A k \in 1 .. q : k \in 1 .. p \/ k > p BY <1>1
  <2> QED BY <1>1, <2>1 DEF Touched
<1>6. \A x \in Touched(f), y \in Touched(g) \ Touched(f) : x < y
  <2>1. \A x \in Touched(f) : x \in 1 .. p BY <1>1 DEF Touched
  <2> QED BY <1>1, <1>2, <1>5, <2>1
<1>7. /\ Begins(InOrder(Touched(f)), Cardinality(Touched(f)), InOrder(Touched(g)), Cardinality(Touched(g)))
      /\ \A j \in Cardinality(Touched(f)) + 1 .. Cardinality(Touched(g)) :
           InOrder(Touched(g))[j] \in Touched(g) \ Touched(f)
  BY <1>2, <1>4, <1>6, InOrderBegins
<1> QED BY <1>5, <1>7

\* The patterns followed by a run that began by n are found by n.
LEMMA PatternsSettle ==
  ASSUME NEW f, NEW p, NEW g, NEW q, NEW n, RunsSettle(f, p, g, q, n), NEW x
  PROVE  x \in Range(TouchPatterns(g)) /\ x.after # "END" /\ x.last + 1 <= n
           <=> x \in Range(TouchPatterns(f)) /\ x.after # "END"
<1>1. /\ p \in Nat /\ q \in Nat /\ p <= q /\ IsList(f, p) /\ IsList(g, q)
      /\ \A k \in 1 .. q - 1 : g[k].last + 1 <= n <=> k + 1 <= p
  BY DEF RunsSettle, IsList
<1> DEFINE t == InOrder(Touched(f))
           r == InOrder(Touched(g))
<1>2. PICK c, d : c = Cardinality(Touched(f)) /\ d = Cardinality(Touched(g)) OBVIOUS
<1>3. /\ Range(TouchPatterns(f)) = {PatternOf(f, p, t[j], j - 1) : j \in 1 .. c}
      /\ Range(TouchPatterns(g)) = {PatternOf(g, q, r[j], j - 1) : j \in 1 .. d}
      /\ \A j \in 1 .. c : t[j] \in 1 .. p
      /\ \A j \in 1 .. d : r[j] \in 1 .. q
  BY <1>1, <1>2, PatternsList
<1>4. Begins(t, c, r, d) /\ \A j \in c + 1 .. d : r[j] > p BY <1>2, TouchesBegin
<1> HIDE DEF t, r
<1>5. c \in Nat /\ d \in Nat /\ c <= d /\ \A j \in 1 .. c : t[j] = r[j] BY <1>4 DEF Begins, IsList
<1>6. \A k, index : /\ PatternOf(g, q, k, index).last = g[k].last
                    /\ k = q => PatternOf(g, q, k, index).after = "END"
                    /\ k = p => PatternOf(f, p, k, index).after = "END"
  BY DEF PatternOf
<1>7. ASSUME x \in Range(TouchPatterns(g)), x.after # "END", x.last + 1 <= n
      PROVE  x \in Range(TouchPatterns(f))
  <2>1. PICK j \in 1 .. d : x = PatternOf(g, q, r[j], j - 1) BY <1>3, <1>7
  <2>2. PICK k : k = r[j] OBVIOUS
  <2>3. k \in 1 .. q /\ k # q /\ g[k].last + 1 <= n BY <1>3, <1>6, <1>7, <2>1, <2>2
  <2>4. k \in 1 .. q - 1 BY <1>1, <2>3
  <2>5. k + 1 <= p BY <1>1, <2>3, <2>4
  <2>6. k \in 1 .. p - 1 BY <1>1, <2>4, <2>5
  <2>7. j \in 1 .. c
    <3>1. j \in c + 1 .. d => r[j] > p BY <1>4
    <3> QED BY <1>1, <1>5, <2>2, <2>6, <3>1
  <2>8. t[j] = k BY <1>5, <2>2, <2>7
  <2>9. x = PatternOf(f, p, k, j - 1) BY <2>1, <2>2, <2>6, PatternSettles
  <2> QED BY <1>3, <2>7, <2>8, <2>9
<1>8. ASSUME x \in Range(TouchPatterns(f)), x.after # "END"
      PROVE  x \in Range(TouchPatterns(g)) /\ x.last + 1 <= n
  <2>1. PICK j \in 1 .. c : x = PatternOf(f, p, t[j], j - 1) BY <1>3, <1>8
  <2>2. PICK k : k = t[j] OBVIOUS
  <2>3. k \in 1 .. p /\ k # p BY <1>3, <1>6, <1>8, <2>1, <2>2
  <2>4. k \in 1 .. p - 1 /\ k \in 1 .. q - 1 /\ k + 1 <= p BY <1>1, <2>3
  <2>5. j \in 1 .. d /\ r[j] = k BY <1>5, <2>2
  <2>6. x = PatternOf(g, q, k, j - 1) BY <2>1, <2>2, <2>4, PatternSettles
  <2>7. x.last + 1 <= n BY <1>1, <1>6, <2>4, <2>6
  <2> QED BY <1>3, <2>5, <2>6, <2>7
<1> QED BY <1>7, <1>8

-------------------------------------------------------------------------------
(* Anchors. *)

LEMMA HistoryLists ==
  ASSUME NEW g, NEW a, NEW b, IsSegment(g, a, b), NEW x, x.available \in a .. b + 1
  PROVE  LET history == InteractionHistory(g, x, b + 1)
             n == (b + 1) - x.available
         IN  /\ IsList(history, n) /\ IsList(States(history, x.price), n)
             /\ \A i \in 1 .. n : /\ x.available + i - 1 \in a .. b
                                  /\ history[i] = Observe(x.available + i - 1, g[x.available + i - 1], x.price)
                                  /\ States(history, x.price)[i] = RangeState(history[i], x.price)
<1> DEFINE n == (b + 1) - x.available
           history == InteractionHistory(g, x, b + 1)
<1>1. n \in Nat /\ a \in Int /\ b \in Int /\ x.available \in Int /\ a <= x.available BY DEF IsSegment
<1>2. history = [i \in 1 .. n |-> Observe(x.available + i - 1, g[x.available + i - 1], x.price)]
  BY DEF InteractionHistory
<1>3. \A i \in 1 .. n : x.available + i - 1 \in a .. b BY <1>1
<1>4. States(history, x.price) = [i \in 1 .. n |-> RangeState(history[i], x.price)]
  BY <1>2 DEF States
<1> HIDE DEF n, history
<1>5. IsList(history, n) BY <1>1, <1>2 DEF IsList
<1>6. IsList(States(history, x.price), n) BY <1>1, <1>4 DEF IsList
<1> QED BY <1>2, <1>3, <1>4, <1>5, <1>6 DEF n, history

\* The history of a level in the bars before d is the beginning of its history.
LEMMA HistoryBegins ==
  ASSUME NEW g, NEW a, NEW b, IsSegment(g, a, b), NEW d \in a .. b + 1,
         NEW x, x.available \in a .. d
  PROVE  LET before == InteractionHistory(Cut(g, d), x, d)
             now    == InteractionHistory(g, x, b + 1)
         IN  /\ Begins(before, d - x.available, now, (b + 1) - x.available)
             /\ Begins(States(before, x.price), d - x.available, States(now, x.price), (b + 1) - x.available)
<1> DEFINE before == InteractionHistory(Cut(g, d), x, d)
           now    == InteractionHistory(g, x, b + 1)
<1>1. PICK n, m : n = d - x.available /\ m = (b + 1) - x.available OBVIOUS
<1>2. /\ IsSegment(Cut(g, d), a, d - 1) /\ d \in Int /\ (d - 1) + 1 = d
      /\ \A t \in a .. d - 1 : t \in DOMAIN g /\ Cut(g, d)[t] = g[t]
  BY CutIsSegment
<1>3. a \in Int /\ b \in Int /\ x.available \in Int /\ x.available \in a .. b + 1 /\ n \in Nat /\ m \in Nat /\ n <= m
  <2>1. a \in Int /\ b \in Int BY DEF IsSegment
  <2> QED BY <1>1, <1>2, <2>1
<1>4. /\ IsList(before, n) /\ IsList(States(before, x.price), n)
      /\ \A i \in 1 .. n : /\ x.available + i - 1 \in a .. d - 1
                           /\ before[i] = Observe(x.available + i - 1, Cut(g, d)[x.available + i - 1], x.price)
                           /\ States(before, x.price)[i] = RangeState(before[i], x.price)
  <2>1. PICK e : e = d - 1 OBVIOUS
  <2>2. e + 1 = d /\ (e + 1) - x.available = n /\ x.available \in a .. e + 1 BY <1>1, <1>2, <2>1
  <2>3. IsSegment(Cut(g, d), a, e) BY <1>2, <2>1
  <2>4. /\ IsList(InteractionHistory(Cut(g, d), x, e + 1), (e + 1) - x.available)
        /\ IsList(States(InteractionHistory(Cut(g, d), x, e + 1), x.price), (e + 1) - x.available)
        /\ \A i \in 1 .. (e + 1) - x.available :
             /\ x.available + i - 1 \in a .. e
             /\ InteractionHistory(Cut(g, d), x, e + 1)[i] =
                  Observe(x.available + i - 1, Cut(g, d)[x.available + i - 1], x.price)
             /\ States(InteractionHistory(Cut(g, d), x, e + 1), x.price)[i] =
                  RangeState(InteractionHistory(Cut(g, d), x, e + 1)[i], x.price)
    BY <2>2, <2>3, HistoryLists
  <2> QED BY <2>1, <2>2, <2>4
<1>5. /\ IsList(now, m) /\ IsList(States(now, x.price), m)
      /\ \A i \in 1 .. m : /\ now[i] = Observe(x.available + i - 1, g[x.available + i - 1], x.price)
                           /\ States(now, x.price)[i] = RangeState(now[i], x.price)
  BY <1>1, <1>3, HistoryLists
<1> HIDE DEF before, now
<1>6. ASSUME NEW i \in 1 .. n
      PROVE  before[i] = now[i] /\ States(before, x.price)[i] = States(now, x.price)[i]
  <2>1. i \in 1 .. m BY <1>3
  <2>2. Cut(g, d)[x.available + i - 1] = g[x.available + i - 1] BY <1>2, <1>4
  <2> QED BY <1>4, <1>5, <2>1, <2>2
<1> QED BY <1>1, <1>3, <1>4, <1>5, <1>6 DEF Begins, before, now

TransitionOf(x, history, p) ==
  [kind |-> "TOUCH_TRANSITION", instance |-> x,
   evidence |-> history[p.last + 1].open + 1, reference |-> history[p.last + 1].close,
   index |-> p.index, code |-> <<p.before, p.after>>, semantics |-> LevelTransition(p, history)]

CheckpointOf(x, history, n) ==
  [kind |-> "UNTOUCHED_CHECKPOINT", instance |-> x,
   evidence |-> history[n].open + 1, reference |-> history[n].close,
   index |-> n, code |-> <<>>, semantics |-> NoTransition]

\* The patterns that are evidence.
Evident(x, history) ==
  {p \in Range(TouchPatterns(StateRuns(States(history, x.price)))) : p.after # "END"}

LEMMA TransitionsAre ==
  ASSUME NEW x, NEW history
  PROVE  TransitionAnchors(x, history) = {TransitionOf(x, history, p) : p \in Evident(x, history)}
  BY DEF TransitionAnchors, TransitionOf, Evident

\* A pattern that is evidence lies within the states, and so does the next one.
LEMMA PatternSpan ==
  ASSUME NEW s, NEW n, IsList(s, n), NEW x \in Range(TouchPatterns(StateRuns(s))), x.after # "END"
  PROVE  x.first \in 1 .. n /\ x.last \in 1 .. n - 1
<1>1. n \in Nat BY DEF IsList
<1>2. PICK p : p = Cardinality(Starts(s)) OBVIOUS
<1> DEFINE starts == InOrder(Starts(s))
           runs == StateRuns(s)
<1>3. /\ IsList(runs, p) /\ Starts(s) \in SUBSET Int /\ IsFiniteSet(Starts(s))
      /\ \A k \in 1 .. p : starts[k] \in 1 .. n
                           /\ runs[k] = [state |-> s[starts[k]], first |-> starts[k],
                                         last |-> IF k < p THEN starts[k + 1] - 1 ELSE n]
  BY <1>2, RunsList
<1>4. \A j, k \in 1 .. p : j < k => starts[j] < starts[k] BY <1>2, <1>3, InOrderLists
<1> HIDE DEF starts, runs
<1>5. PICK j \in 1 .. Cardinality(Touched(runs)) : x = PatternOf(runs, p, InOrder(Touched(runs))[j], j - 1)
  <2>1. x \in Range(TouchPatterns(runs)) BY DEF runs
  <2> QED BY <1>3, <2>1, PatternsList
<1>6. PICK k : k = InOrder(Touched(runs))[j] OBVIOUS
<1>7. k \in 1 .. p BY <1>3, <1>6, PatternsList
<1>8. x.first = runs[k].first /\ x.last = runs[k].last /\ k # p BY <1>5, <1>6 DEF PatternOf
<1>9. p \in Nat BY <1>3 DEF IsList
<1>10. k < p /\ k + 1 \in 1 .. p /\ k < k + 1 BY <1>7, <1>8, <1>9
<1>11. starts[k] \in 1 .. n /\ starts[k + 1] \in 1 .. n /\ starts[k] < starts[k + 1] BY <1>3, <1>4, <1>7, <1>10
<1>12. runs[k] = [state |-> s[starts[k]], first |-> starts[k], last |-> starts[k + 1] - 1] BY <1>3, <1>7, <1>10
<1> QED BY <1>1, <1>8, <1>11, <1>12

LEMMA TransitionsSettle ==
  ASSUME NEW f, NEW n, NEW h, NEW m, NEW x, Begins(f, n, h, m),
         Begins(States(f, x.price), n, States(h, x.price), m), NEW p
  PROVE  /\ p \in Evident(x, h) /\ p.last + 1 <= n <=> p \in Evident(x, f)
         /\ p \in Evident(x, f) => TransitionOf(x, f, p) = TransitionOf(x, h, p)
<1>1. PICK s, u : s = States(f, x.price) /\ u = States(h, x.price) OBVIOUS
<1>2. PICK q, r : RunsSettle(StateRuns(s), q, StateRuns(u), r, n) BY <1>1, StateRunsSettle
<1>3. p \in Range(TouchPatterns(StateRuns(u))) /\ p.after # "END" /\ p.last + 1 <= n
        <=> p \in Range(TouchPatterns(StateRuns(s))) /\ p.after # "END"
  BY <1>2, PatternsSettle
<1>4. p \in Evident(x, h) /\ p.last + 1 <= n <=> p \in Evident(x, f) BY <1>1, <1>3 DEF Evident
<1>5. ASSUME p \in Evident(x, f) PROVE TransitionOf(x, f, p) = TransitionOf(x, h, p)
  <2>1. IsList(s, n) /\ n \in Nat /\ \A i \in 1 .. n : f[i] = h[i] BY <1>1 DEF Begins, IsList
  <2>2. p.first \in 1 .. n /\ p.last \in 1 .. n - 1 BY <1>1, <1>5, <2>1, PatternSpan DEF Evident
  <2>3. p.last + 1 \in 1 .. n BY <2>1, <2>2
  <2>4. \A i \in p.first .. p.last : i \in 1 .. n BY <2>1, <2>2
  <2>5. {f[i] : i \in p.first .. p.last} = {h[i] : i \in p.first .. p.last} BY <2>1, <2>4
  <2>6. LevelTransition(p, f) = LevelTransition(p, h) BY <2>5 DEF LevelTransition
  <2>7. f[p.last + 1] = h[p.last + 1] BY <2>1, <2>3
  <2> QED BY <2>6, <2>7 DEF TransitionOf
<1> QED BY <1>4, <1>5

\* The checkpoints a level reaches untouched.
Untouched(history) == {k \in Checkpoints : /\ k <= Len(history)
                                           /\ \A i \in 1 .. k : ~history[i].touched}

LEMMA CheckpointsAre ==
  ASSUME NEW x, NEW history
  PROVE  CheckpointAnchors(x, history) = {CheckpointOf(x, history, k) : k \in Untouched(history)}
  BY DEF CheckpointAnchors, CheckpointOf, Untouched

LEMMA CheckpointsSettle ==
  ASSUME NEW f, NEW n, NEW h, NEW m, NEW x, Begins(f, n, h, m), NEW k
  PROVE  /\ k \in Untouched(h) => k \in 1 .. m
         /\ k \in Untouched(h) /\ k <= n <=> k \in Untouched(f)
         /\ k \in Untouched(f) => CheckpointOf(x, f, k) = CheckpointOf(x, h, k)
<1>1. n \in Nat /\ m \in Nat /\ n <= m /\ Len(f) = n /\ Len(h) = m /\ \A i \in 1 .. n : f[i] = h[i]
  BY ListIsSequence DEF Begins, IsList
<1>2. Checkpoints \subseteq Nat \ {0} BY LevelsAssumption
<1>3. k \in Untouched(h) => k \in 1 .. m BY <1>1, <1>2 DEF Untouched
<1>4. ASSUME k \in Nat \ {0}, k <= n
      PROVE  /\ (\A i \in 1 .. k : ~f[i].touched) <=> (\A i \in 1 .. k : ~h[i].touched)
             /\ k <= m /\ CheckpointOf(x, f, k) = CheckpointOf(x, h, k)
  <2>1. \A i \in 1 .. k : i \in 1 .. n /\ f[i] = h[i] BY <1>1, <1>4
  <2>2. f[k] = h[k] BY <1>1, <1>4
  <2> QED BY <1>1, <1>4, <2>1, <2>2 DEF CheckpointOf
<1>5. k \in Untouched(f) => k \in Nat \ {0} /\ k <= n BY <1>1, <1>2 DEF Untouched
<1>6. k \in Untouched(h) => k \in Nat \ {0} BY <1>2 DEF Untouched
<1>7. k \in Untouched(h) /\ k <= n <=> k \in Untouched(f) BY <1>1, <1>4, <1>5, <1>6 DEF Untouched
<1> QED BY <1>3, <1>4, <1>5, <1>7

AnchorsOf(x, history) == TransitionAnchors(x, history) \union CheckpointAnchors(x, history)

LEMMA AnchorsAre ==
  ASSUME NEW g, NEW e
  PROVE  Anchors(g, e) = UNION {AnchorsOf(x, InteractionHistory(g, x, e)) : x \in GeometryInstances(g, e)}
  BY DEF Anchors, AnchorsOf

\* Evidence is a bar of the history of its level.
LEMMA EvidenceOf ==
  ASSUME NEW g, NEW a, NEW b, IsSegment(g, a, b), NEW x, x.available \in a .. b + 1,
         NEW k \in 1 .. (b + 1) - x.available
  PROVE  LET bar == InteractionHistory(g, x, b + 1)[k]
         IN  /\ bar.open + 1 = x.available + k /\ x.available + k \in x.available + 1 .. b + 1
             /\ bar.close = g[x.available + k - 1].c /\ x.available + k - 1 \in a .. b
<1> DEFINE bar == InteractionHistory(g, x, b + 1)[k]
<1>1. bar = Observe(x.available + k - 1, g[x.available + k - 1], x.price) /\ x.available + k - 1 \in a .. b
  BY HistoryLists
<1>2. bar.open = x.available + k - 1 /\ bar.close = g[x.available + k - 1].c BY <1>1 DEF Observe
<1>3. a \in Int /\ b \in Int /\ x.available \in Int /\ k \in Int BY DEF IsSegment
<1> QED BY <1>1, <1>2, <1>3

LEMMA AnchorOfShape ==
  ASSUME NEW g, NEW a, NEW b, IsSegment(g, a, b), NEW x, x.available \in a .. b + 1,
         NEW y \in AnchorsOf(x, InteractionHistory(g, x, b + 1))
  PROVE  /\ y.instance = x /\ y.evidence \in x.available + 1 .. b + 1
         /\ y.evidence - 1 \in a .. b /\ y.reference = g[y.evidence - 1].c
<1> DEFINE history == InteractionHistory(g, x, b + 1)
<1>0. PICK n : n = (b + 1) - x.available OBVIOUS
<1>1. IsList(history, n) /\ IsList(States(history, x.price), n) /\ n \in Nat
  <2>1. IsList(history, n) /\ IsList(States(history, x.price), n) BY <1>0, HistoryLists
  <2> QED BY <2>1 DEF IsList
<1>2. a \in Int /\ b \in Int /\ x.available \in Int BY DEF IsSegment
<1> HIDE DEF history
<1>3. ASSUME NEW k \in 1 .. n, y.instance = x, y.evidence = history[k].open + 1, y.reference = history[k].close
      PROVE  /\ y.instance = x /\ y.evidence \in x.available + 1 .. b + 1
             /\ y.evidence - 1 \in a .. b /\ y.reference = g[y.evidence - 1].c
  <2>1. /\ history[k].open + 1 = x.available + k /\ x.available + k \in x.available + 1 .. b + 1
        /\ history[k].close = g[x.available + k - 1].c /\ x.available + k - 1 \in a .. b
    BY <1>0, EvidenceOf DEF history
  <2>2. x.available + k - 1 = (x.available + k) - 1 BY <1>1, <1>2
  <2> QED BY <1>3, <2>1, <2>2
<1>4. CASE y \in TransitionAnchors(x, history)
  <2>1. PICK p \in Evident(x, history) : y = TransitionOf(x, history, p) BY <1>4, TransitionsAre
  <2>2. p.last \in 1 .. n - 1 BY <1>1, PatternSpan DEF Evident
  <2>3. p.last + 1 \in 1 .. n BY <1>1, <2>2
  <2>4. /\ y.instance = x /\ y.evidence = history[p.last + 1].open + 1
        /\ y.reference = history[p.last + 1].close
    BY <2>1 DEF TransitionOf
  <2> QED BY <1>3, <2>3, <2>4
<1>5. CASE y \in CheckpointAnchors(x, history)
  <2>1. PICK k \in Untouched(history) : y = CheckpointOf(x, history, k) BY <1>5, CheckpointsAre
  <2>2. Begins(history, n, history, n) BY <1>1 DEF Begins
  <2>3. k \in 1 .. n BY <2>1, <2>2, CheckpointsSettle
  <2>4. y.instance = x /\ y.evidence = history[k].open + 1 /\ y.reference = history[k].close
    BY <2>1 DEF CheckpointOf
  <2> QED BY <1>3, <2>3, <2>4
<1> QED BY <1>4, <1>5 DEF AnchorsOf, history

LEMMA AnchorShape ==
  ASSUME NEW g, NEW a, NEW b, IsSegment(g, a, b), NEW y \in Anchors(g, b + 1)
  PROVE  /\ y.instance \in GeometryInstances(g, b + 1)
         /\ y.instance.available \in a + 1 .. b + 1
         /\ y.evidence \in y.instance.available + 1 .. b + 1 /\ y.evidence \in a + 2 .. b + 1
         /\ y.evidence - 1 \in a .. b /\ y.reference = g[y.evidence - 1].c
         /\ y \in AnchorsOf(y.instance, InteractionHistory(g, y.instance, b + 1))
<1>1. PICK x \in GeometryInstances(g, b + 1) : y \in AnchorsOf(x, InteractionHistory(g, x, b + 1))
  BY AnchorsAre
<1>2. a \in Int /\ b \in Int BY DEF IsSegment
<1>3. b + 1 \in a .. b + 1 \/ GeometryInstances(g, b + 1) = {}
  <2>1. a <= b + 1 BY DEF IsSegment
  <2> QED BY <1>2, <2>1
<1>4. x.available \in a + 1 .. b + 1 BY <1>1, <1>3, InstancesSettle
<1>5. x.available \in a .. b + 1 BY <1>2, <1>4
<1>6. /\ y.instance = x /\ y.evidence \in x.available + 1 .. b + 1
      /\ y.evidence - 1 \in a .. b /\ y.reference = g[y.evidence - 1].c
  BY <1>1, <1>5, AnchorOfShape
<1>7. y.evidence \in a + 2 .. b + 1 BY <1>2, <1>4, <1>6
<1> QED BY <1>1, <1>4, <1>6, <1>7

\* The anchors evident by d are those of the history cut at d.
LEMMA AnchorsOfSettle ==
  ASSUME NEW g, NEW a, NEW b, IsSegment(g, a, b), NEW d \in a .. b + 1, NEW x, x.available \in a .. d, NEW y
  PROVE  y \in AnchorsOf(x, InteractionHistory(g, x, b + 1)) /\ y.evidence <= d
           <=> y \in AnchorsOf(x, InteractionHistory(Cut(g, d), x, d))
<1> DEFINE f == InteractionHistory(Cut(g, d), x, d)
           h == InteractionHistory(g, x, b + 1)
<1>0. PICK n, m : n = d - x.available /\ m = (b + 1) - x.available OBVIOUS
<1>1. Begins(f, n, h, m) /\ Begins(States(f, x.price), n, States(h, x.price), m) BY <1>0, HistoryBegins
<1>2. IsList(States(h, x.price), m) /\ n \in Nat /\ m \in Nat /\ n <= m BY <1>1 DEF Begins, IsList
<1>3. a \in Int /\ b \in Int /\ d \in Int /\ x.available \in Int /\ x.available \in a .. b + 1
  <2>1. a \in Int /\ b \in Int BY DEF IsSegment
  <2> QED BY <2>1
<1> HIDE DEF f
<1>4. ASSUME NEW k \in 1 .. m PROVE h[k].open + 1 <= d <=> k <= n
  <2>1. h[k].open + 1 = x.available + k BY <1>0, <1>3, EvidenceOf
  <2> QED BY <1>0, <1>2, <1>3, <2>1
<1> HIDE DEF h
<1>5. ASSUME NEW p \in Evident(x, h)
      PROVE  p.last + 1 \in 1 .. m /\ (TransitionOf(x, h, p).evidence <= d <=> p.last + 1 <= n)
  <2>1. p.last \in 1 .. m - 1 BY <1>2, PatternSpan DEF Evident
  <2>2. p.last + 1 \in 1 .. m BY <1>2, <2>1
  <2>3. TransitionOf(x, h, p).evidence = h[p.last + 1].open + 1 BY DEF TransitionOf
  <2> QED BY <1>4, <2>2, <2>3
<1>6. \A p : /\ p \in Evident(x, h) /\ p.last + 1 <= n <=> p \in Evident(x, f)
             /\ p \in Evident(x, f) => TransitionOf(x, f, p) = TransitionOf(x, h, p)
  BY <1>1, TransitionsSettle
<1>7. ASSUME NEW k \in Untouched(h)
      PROVE  CheckpointOf(x, h, k).evidence <= d <=> k <= n
  <2>1. k \in 1 .. m BY <1>1, <1>7, CheckpointsSettle
  <2>2. CheckpointOf(x, h, k).evidence = h[k].open + 1 BY DEF CheckpointOf
  <2> QED BY <1>4, <2>1, <2>2
<1>8. \A k : /\ k \in Untouched(h) /\ k <= n <=> k \in Untouched(f)
             /\ k \in Untouched(f) => CheckpointOf(x, f, k) = CheckpointOf(x, h, k)
  BY <1>1, CheckpointsSettle
<1>9. y \in TransitionAnchors(x, h) /\ y.evidence <= d <=> y \in TransitionAnchors(x, f)
  <2>1. ASSUME y \in TransitionAnchors(x, h), y.evidence <= d PROVE y \in TransitionAnchors(x, f)
    <3>1. PICK p \in Evident(x, h) : y = TransitionOf(x, h, p) BY <2>1, TransitionsAre
    <3>2. p \in Evident(x, f) /\ y = TransitionOf(x, f, p) BY <1>5, <1>6, <2>1, <3>1
    <3> QED BY <3>2, TransitionsAre
  <2>2. ASSUME y \in TransitionAnchors(x, f) PROVE y \in TransitionAnchors(x, h) /\ y.evidence <= d
    <3>1. PICK p \in Evident(x, f) : y = TransitionOf(x, f, p) BY <2>2, TransitionsAre
    <3>2. p \in Evident(x, h) /\ p.last + 1 <= n /\ y = TransitionOf(x, h, p) BY <1>6, <3>1
    <3> QED BY <1>5, <3>2, TransitionsAre
  <2> QED BY <2>1, <2>2
<1>10. y \in CheckpointAnchors(x, h) /\ y.evidence <= d <=> y \in CheckpointAnchors(x, f)
  <2>1. ASSUME y \in CheckpointAnchors(x, h), y.evidence <= d PROVE y \in CheckpointAnchors(x, f)
    <3>1. PICK k \in Untouched(h) : y = CheckpointOf(x, h, k) BY <2>1, CheckpointsAre
    <3>2. k \in Untouched(f) /\ y = CheckpointOf(x, f, k) BY <1>7, <1>8, <2>1, <3>1
    <3> QED BY <3>2, CheckpointsAre
  <2>2. ASSUME y \in CheckpointAnchors(x, f) PROVE y \in CheckpointAnchors(x, h) /\ y.evidence <= d
    <3>1. PICK k \in Untouched(f) : y = CheckpointOf(x, f, k) BY <2>2, CheckpointsAre
    <3>2. k \in Untouched(h) /\ k <= n /\ y = CheckpointOf(x, h, k) BY <1>8, <3>1
    <3> QED BY <1>7, <3>2, CheckpointsAre
  <2> QED BY <2>1, <2>2
<1> QED BY <1>9, <1>10 DEF AnchorsOf, f, h

LEMMA AnchorsSettle ==
  ASSUME NEW g, NEW a, NEW b, IsSegment(g, a, b), NEW d \in a .. b + 1, NEW y
  PROVE  y \in Anchors(g, b + 1) /\ y.evidence <= d <=> y \in Anchors(Cut(g, d), d)
<1>1. PICK e : e = d - 1 OBVIOUS
<1>2. a \in Int /\ b \in Int /\ d \in Int /\ a <= d /\ e \in Int /\ e + 1 = d
  <2>1. a \in Int /\ b \in Int BY DEF IsSegment
  <2> QED BY <1>1, <2>1
<1>3. IsSegment(Cut(g, d), a, e) BY <1>1, CutIsSegment
<1>4. ASSUME y \in Anchors(g, b + 1), y.evidence <= d PROVE y \in Anchors(Cut(g, d), d)
  <2>1. PICK x : x = y.instance OBVIOUS
  <2>2. /\ x \in GeometryInstances(g, b + 1) /\ x.available \in a + 1 .. b + 1
        /\ y.evidence \in x.available + 1 .. b + 1
        /\ y \in AnchorsOf(x, InteractionHistory(g, x, b + 1))
    BY <1>4, <2>1, AnchorShape
  <2>3. x.available <= d /\ x.available \in a .. d BY <1>2, <1>4, <2>2
  <2>4. x \in GeometryInstances(Cut(g, d), d) BY <2>2, <2>3, InstancesSettle
  <2>5. y \in AnchorsOf(x, InteractionHistory(Cut(g, d), x, d)) BY <1>4, <2>2, <2>3, AnchorsOfSettle
  <2> QED BY <2>4, <2>5, AnchorsAre
<1>5. ASSUME y \in Anchors(Cut(g, d), d) PROVE y \in Anchors(g, b + 1) /\ y.evidence <= d
  <2>1. PICK x : x = y.instance OBVIOUS
  <2>2. y \in Anchors(Cut(g, d), e + 1) BY <1>2, <1>5
  <2>3. /\ x \in GeometryInstances(Cut(g, d), e + 1) /\ x.available \in a + 1 .. e + 1
        /\ y.evidence \in x.available + 1 .. e + 1
        /\ y \in AnchorsOf(x, InteractionHistory(Cut(g, d), x, e + 1))
    BY <1>3, <2>1, <2>2, AnchorShape
  <2>4. x.available \in a .. d BY <1>2, <2>3
  <2>5. x \in GeometryInstances(g, b + 1) BY <1>2, <2>3, InstancesSettle
  <2>6. y \in AnchorsOf(x, InteractionHistory(g, x, b + 1)) /\ y.evidence <= d
    BY <1>2, <2>3, <2>4, AnchorsOfSettle
  <2> QED BY <2>5, <2>6, AnchorsAre
<1> QED BY <1>4, <1>5

-------------------------------------------------------------------------------
(* Session slots. *)

\* A wall time that is not shifted comes before a later one that is not skipped.
LEMMA WallTimesInOrder ==
  ASSUME NEW zone \in Zones, NEW v \in Int, NEW w \in Int, v < w,
         v \notin Shifted(zone), w \notin Skipped(zone), NEW early \in {0, 1}, NEW late \in {0, 1}
  PROVE  /\ ToUtc(zone, v, early) \in Int /\ ToUtc(zone, w, late) \in Int
         /\ ToUtc(zone, v, early) < ToUtc(zone, w, late)
         /\ Local(zone, ToUtc(zone, v, early)) = v
         /\ BoundaryExists(zone, v, early) /\ BoundaryExists(zone, w, late)
<1>1. PICK c, b, a : c = zone.change /\ b = zone.before /\ a = zone.after OBVIOUS
<1>2. c \in Int /\ b \in Int /\ a \in Int BY <1>1 DEF Zones
<1>3. PICK x, y : x = Max({b, a}) /\ y = Min({b, a}) OBVIOUS
<1>4. /\ x \in Int /\ y \in Int /\ x >= b /\ x >= a /\ y <= b /\ y <= a
      /\ (x = b \/ x = a) /\ (y = b \/ y = a)
  BY <1>2, <1>3, MaxOfTwo
<1>5. v < c + y \/ v >= c + x
  <2>1. v \notin c + y .. c + x - 1 BY <1>1, <1>3 DEF Shifted
  <2> QED BY <1>2, <1>4, <2>1
<1>6. w < c + b \/ w >= c + a
  <2>1. w \notin c + b .. c + a - 1 BY <1>1 DEF Skipped
  <2> QED BY <1>2, <2>1
<1>7. \A t, fold : ToUtc(zone, t, fold) =
        t - (IF t < c + (IF fold = 0 THEN x ELSE y) THEN b ELSE a)
  BY <1>1, <1>3 DEF ToUtc
<1>8. \A t : Local(zone, t) = t + (IF t < c THEN b ELSE a) BY <1>1 DEF Local, Offset
<1>9. \A t, fold : BoundaryExists(zone, t, fold) <=> Local(zone, ToUtc(zone, t, fold)) = t
  BY DEF BoundaryExists
<1>10. PICK p, q : p = ToUtc(zone, v, early) /\ q = ToUtc(zone, w, late) OBVIOUS
<1>11. p = v - (IF v < c + x THEN b ELSE a) /\ (v < c + x <=> v < c + y)
  BY <1>2, <1>4, <1>5, <1>7, <1>10
<1>12. q = w - (IF w < c + (IF late = 0 THEN x ELSE y) THEN b ELSE a) BY <1>7, <1>10
<1>13. p \in Int /\ q \in Int BY <1>2, <1>4, <1>11, <1>12
<1>14. p + (IF p < c THEN b ELSE a) = v BY <1>2, <1>4, <1>5, <1>11
<1>15. CASE late = 0
  <2>1. q = w - (IF w < c + x THEN b ELSE a) BY <1>12, <1>15
  <2>2. q + (IF q < c THEN b ELSE a) = w BY <1>2, <1>4, <1>6, <2>1
  <2>3. p < q BY <1>2, <1>4, <1>5, <1>6, <1>11, <2>1
  <2> QED BY <1>8, <1>9, <1>10, <1>13, <1>14, <2>2, <2>3
<1>16. CASE late # 0
  <2>1. q = w - (IF w < c + y THEN b ELSE a) BY <1>12, <1>16
  <2>2. q + (IF q < c THEN b ELSE a) = w BY <1>2, <1>4, <1>6, <2>1
  <2>3. p < q BY <1>2, <1>4, <1>5, <1>6, <1>11, <2>1
  <2> QED BY <1>8, <1>9, <1>10, <1>13, <1>14, <2>2, <2>3
<1> QED BY <1>15, <1>16

\* A session of any day has its hours, and starts on its day.
LEMMA SessionWhole ==
  ASSUME NEW id \in DOMAIN Sessions, NEW date \in Int
  PROVE  LET w == SessionWindow(Sessions[id], date)
         IN  /\ w.date = date /\ w.start \in Int /\ w.end \in Int /\ w.start < w.end /\ w.valid
             /\ Local(Sessions[id].zone, w.start) \div Day = date
<1> DEFINE s == Sessions[id]
<1>1. /\ Day \in Nat \ {0} /\ s.start \in 0 .. Day - 1 /\ s.end \in 0 .. Day - 1 /\ s.start # s.end
      /\ s.startFold \in {0, 1} /\ s.endFold \in {0, 1} /\ s.zone \in Zones
      /\ \A x \in Shifted(s.zone) : (x - s.start) % Day # 0
      /\ \A x \in Skipped(s.zone) : (x - s.end) % Day # 0
  BY DayAssumption, SessionsAssumption DEF Zones
<1> HIDE DEF s
<1>2. PICK last : last = (IF s.end < s.start THEN date + 1 ELSE date) OBVIOUS
<1>3. PICK from, to : from = date * Day + s.start /\ to = last * Day + s.end OBVIOUS
<1>4. /\ SessionWindow(s, date).date = date
      /\ SessionWindow(s, date).start = ToUtc(s.zone, from, s.startFold)
      /\ SessionWindow(s, date).end = ToUtc(s.zone, to, s.endFold)
      /\ SessionWindow(s, date).valid = (/\ BoundaryExists(s.zone, from, s.startFold)
                                         /\ BoundaryExists(s.zone, to, s.endFold))
  BY <1>2, <1>3 DEF SessionWindow
<1>5. last \in Int /\ date * Day \in Int /\ last * Day \in Int /\ (date + 1) * Day = date * Day + Day
  BY <1>1, <1>2
<1>6. from \in Int /\ to \in Int /\ from - s.start = date * Day /\ to - s.end = last * Day BY <1>1, <1>3, <1>5
<1>7. from < to
  <2>1. CASE s.end < s.start
    <3>1. last * Day = date * Day + Day BY <1>2, <1>5, <2>1
    <3> QED BY <1>1, <1>3, <1>5, <3>1
  <2>2. CASE ~(s.end < s.start) BY <1>1, <1>2, <1>3, <1>5, <2>2
  <2> QED BY <2>1, <2>2
<1>8. from \notin Shifted(s.zone) /\ to \notin Skipped(s.zone)
  <2>1. (from - s.start) % Day = 0 /\ (to - s.end) % Day = 0 BY <1>1, <1>5, <1>6, MultipleRest
  <2> QED BY <1>1, <2>1
<1>9. /\ ToUtc(s.zone, from, s.startFold) \in Int /\ ToUtc(s.zone, to, s.endFold) \in Int
      /\ ToUtc(s.zone, from, s.startFold) < ToUtc(s.zone, to, s.endFold)
      /\ Local(s.zone, ToUtc(s.zone, from, s.startFold)) = from
      /\ BoundaryExists(s.zone, from, s.startFold) /\ BoundaryExists(s.zone, to, s.endFold)
  <2>1. PICK zone, early, late : zone = s.zone /\ early = s.startFold /\ late = s.endFold OBVIOUS
  <2>2. zone \in Zones /\ early \in {0, 1} /\ late \in {0, 1} BY <1>1, <2>1
  <2>3. from \notin Shifted(zone) /\ to \notin Skipped(zone) BY <1>8, <2>1
  <2>4. /\ ToUtc(zone, from, early) \in Int /\ ToUtc(zone, to, late) \in Int
        /\ ToUtc(zone, from, early) < ToUtc(zone, to, late)
        /\ Local(zone, ToUtc(zone, from, early)) = from
        /\ BoundaryExists(zone, from, early) /\ BoundaryExists(zone, to, late)
    <3>1. from \in Int /\ to \in Int /\ from < to BY <1>6, <1>7
    <3> QED BY ONLY <2>2, <2>3, <3>1, WallTimesInOrder
  <2> QED BY <2>1, <2>4
<1>10. from \div Day = date
  <2>1. /\ from \div Day \in Int /\ (from \div Day) * Day <= from /\ from < (from \div Day) * Day + Day
    BY <1>1, <1>6, Divide
  <2>2. PICK k : k = from \div Day OBVIOUS
  <2>3. k \in Int /\ k * Day <= from /\ from < (k + 1) * Day
    <3>1. k \in Int BY <2>1, <2>2
    <3>2. (k + 1) * Day = k * Day + Day /\ k * Day \in Int BY <1>1, <3>1
    <3> QED BY <2>1, <2>2, <3>2
  <2>4. date * Day <= from /\ from < (date + 1) * Day BY <1>1, <1>3, <1>5
  <2>5. k * Day < (date + 1) * Day /\ date * Day < (k + 1) * Day
    <3>1. k * Day \in Int /\ (k + 1) * Day \in Int /\ (date + 1) * Day \in Int BY <1>1, <2>3
    <3>2. PICK x, y, u, v : x = k * Day /\ y = (k + 1) * Day /\ u = date * Day /\ v = (date + 1) * Day
      OBVIOUS
    <3>3. /\ x \in Int /\ y \in Int /\ u \in Int /\ v \in Int
          /\ x <= from /\ from < y /\ u <= from /\ from < v
      BY <1>5, <2>3, <2>4, <3>1, <3>2
    <3>4. x < v /\ u < y BY <1>6, <3>3
    <3> QED BY <3>2, <3>4
  <2>6. k <= date BY <1>1, <2>3, <2>5, MultipleLess
  <2>7. date <= k BY <1>1, <2>3, <2>5, MultipleLess
  <2> QED BY <2>2, <2>3, <2>6, <2>7
<1> QED BY <1>4, <1>9, <1>10 DEF s

SummaryOf(history, id, w) ==
  [id |-> id, date |-> w.date, start |-> w.start, end |-> w.end,
   candle |-> Merge(history, w.start, w.end),
   direction |-> Direction(Merge(history, w.start, w.end))]

SummariesOf(history, e, id, date) == {x \in CompletedSessions(history, e) : x.id = id /\ x.date = date}

\* A session is summarized when it has ended and none of its bars is missing.
WholeSession(history, e, w) == w.end <= e /\ w.start .. w.end - 1 \subseteq Completed(history, e)

LEMMA SummaryIs ==
  ASSUME NEW history, DOMAIN history \subseteq Int, NEW e \in Int, NEW id \in DOMAIN Sessions, NEW date \in Int
  PROVE  LET w == SessionWindow(Sessions[id], date)
         IN  SummariesOf(history, e, id, date) =
               IF WholeSession(history, e, w) THEN {SummaryOf(history, id, w)} ELSE {}
<1> DEFINE w == SessionWindow(Sessions[id], date)
           Dates(i) == SessionDates(history, e, Sessions[i])
           Wholes(i) == {v \in {SessionWindow(Sessions[i], d) : d \in Dates(i)} :
                           /\ v.end <= e /\ v.start .. v.end - 1 \subseteq Completed(history, e)}
<1>1. CompletedSessions(history, e) = UNION {{SummaryOf(history, i, v) : v \in Wholes(i)} : i \in DOMAIN Sessions}
  BY DEF CompletedSessions, SummaryOf
<1>2. \A i \in DOMAIN Sessions, d \in Int : SessionWindow(Sessions[i], d).date = d BY SessionWhole
<1>3. Dates(id) \subseteq Int
  <2>1. Day \in Nat \ {0} /\ Sessions[id].zone \in Zones BY DayAssumption, SessionsAssumption DEF Zones
  <2>2. \A t \in Completed(history, e) : t \in Int BY DEF Completed
  <2>3. \A t \in Completed(history, e) : Local(Sessions[id].zone, t) \div Day \in Int
    <3> TAKE t \in Completed(history, e)
    <3>1. Local(Sessions[id].zone, t) \in Int BY <2>1, <2>2 DEF Local, Offset, Zones
    <3> QED BY <2>1, <3>1, Divide
  <2> QED BY <2>3 DEF SessionDates
<1>4. /\ w.date = date /\ w.start \in Int /\ w.end \in Int /\ w.start < w.end
      /\ Local(Sessions[id].zone, w.start) \div Day = date
  BY SessionWhole
<1>5. ASSUME WholeSession(history, e, w) PROVE w \in Wholes(id)
  <2>1. w.start \in w.start .. w.end - 1 BY <1>4
  <2>2. w.start \in Completed(history, e) BY <1>5, <2>1 DEF WholeSession
  <2>3. date \in Dates(id) BY <1>4, <2>2 DEF SessionDates
  <2> QED BY <1>5, <2>3 DEF WholeSession
<1>6. ASSUME NEW v \in Wholes(id), v.date = date PROVE v = w /\ WholeSession(history, e, w)
  <2>1. PICK d \in Dates(id) : v = SessionWindow(Sessions[id], d) OBVIOUS
  <2>2. d = date BY <1>2, <1>3, <1>6, <2>1
  <2> QED BY <2>1, <2>2 DEF WholeSession
<1> HIDE DEF Wholes, Dates, w
<1>7. \A i, v : SummaryOf(history, i, v).id = i /\ SummaryOf(history, i, v).date = v.date BY DEF SummaryOf
<1>8. \A x : x \in SummariesOf(history, e, id, date)
               <=> \E v \in Wholes(id) : v.date = date /\ x = SummaryOf(history, id, v)
  BY <1>1, <1>7 DEF SummariesOf
<1>9. \A x : x \in SummariesOf(history, e, id, date)
               <=> WholeSession(history, e, w) /\ x = SummaryOf(history, id, w)
  BY <1>4, <1>5, <1>6, <1>8
<1> QED BY <1>9 DEF w

\* The slots at d are the same in histories with other bars from d on.
LEMMA SlotsSettle ==
  ASSUME NEW d \in Int, NEW e \in Int, NEW i \in Int, d <= e, d <= i, NEW g, NEW h, AgreeBefore(g, h, d)
  PROVE  SessionSlots(g, e, d) = SessionSlots(h, i, d)
<1>1. /\ DOMAIN g \subseteq Int /\ DOMAIN h \subseteq Int
      /\ \A t \in Int : t < d => (t \in Completed(g, e) <=> t \in Completed(h, i))
      /\ \A t \in Completed(g, e) : t < d => g[t] = h[t]
  BY DEF AgreeBefore, Completed
<1> DEFINE R(id) == Relevant(Sessions[id], d)
           Slot(k, f, id) == [window |-> Window(R(id)), active |-> R(id).start <= d /\ d < R(id).end,
                              summary |-> IF (R(id).start <= d /\ d < R(id).end) \/ SummariesOf(k, f, id, R(id).date) = {}
                                            THEN NoSummary
                                            ELSE CHOOSE x \in SummariesOf(k, f, id, R(id).date) : TRUE]
<1>2. \A k, f : SessionSlots(k, f, d) = [id \in DOMAIN Sessions |-> Slot(k, f, id)]
  BY DEF SessionSlots, SummariesOf
<1>3. ASSUME NEW id \in DOMAIN Sessions PROVE Slot(g, e, id) = Slot(h, i, id)
  <2>1. PICK w : w = R(id) OBVIOUS
  <2>2. \E date \in Int : w = SessionWindow(Sessions[id], date)
    <3>1. Day \in Nat \ {0} /\ Sessions[id].zone \in Zones BY DayAssumption, SessionsAssumption DEF Zones
    <3>2. Local(Sessions[id].zone, d) \in Int BY <3>1 DEF Local, Offset, Zones
    <3>3. Local(Sessions[id].zone, d) \div Day \in Int BY <3>1, <3>2, Divide
    <3>4. Local(Sessions[id].zone, d) \div Day - 1 \in Int BY <3>3
    <3> QED BY <2>1, <3>3, <3>4 DEF Relevant
  <2>3. PICK date \in Int : w = SessionWindow(Sessions[id], date) BY <2>2
  <2>4. w.date = date /\ w.start \in Int /\ w.end \in Int /\ w.start < w.end BY <2>3, SessionWhole
  <2>5. w.start <= d BY <2>1, RelevantHasStarted
  <2>6. CASE w.start <= d /\ d < w.end BY <2>1, <2>6
  <2>7. CASE ~(w.start <= d /\ d < w.end)
    <3>1. w.end <= d BY <2>4, <2>5, <2>7
    <3>2. \A t \in w.start .. w.end - 1 : t \in Int /\ t < d BY <2>4, <3>1
    <3>3. WholeSession(g, e, w) <=> WholeSession(h, i, w)
      <4>1. w.end <= e /\ w.end <= i BY <2>4, <3>1
      <4> QED BY <1>1, <3>2, <4>1 DEF WholeSession
    <3>4. ASSUME WholeSession(g, e, w) PROVE SummaryOf(g, id, w) = SummaryOf(h, id, w)
      <4>1. \A t \in w.start .. w.end - 1 : g[t] = h[t] BY <1>1, <3>2, <3>4 DEF WholeSession
      <4>2. w.start \in w.start .. w.end - 1 /\ w.end - 1 \in w.start .. w.end - 1 BY <2>4
      <4>3. /\ {g[t].h : t \in w.start .. w.end - 1} = {h[t].h : t \in w.start .. w.end - 1}
            /\ {g[t].l : t \in w.start .. w.end - 1} = {h[t].l : t \in w.start .. w.end - 1}
        BY <4>1
      <4>4. Merge(g, w.start, w.end) = Merge(h, w.start, w.end) BY <4>1, <4>2, <4>3 DEF Merge
      <4> QED BY <4>4 DEF SummaryOf
    <3>5. /\ SummariesOf(g, e, id, date) = IF WholeSession(g, e, w) THEN {SummaryOf(g, id, w)} ELSE {}
          /\ SummariesOf(h, i, id, date) = IF WholeSession(h, i, w) THEN {SummaryOf(h, id, w)} ELSE {}
      BY <1>1, <2>3, SummaryIs
    <3>6. SummariesOf(g, e, id, date) = SummariesOf(h, i, id, date) BY <3>3, <3>4, <3>5
    <3> QED BY <2>1, <2>4, <3>6
  <2> QED BY <2>6, <2>7
<1> HIDE DEF Slot
<1> QED BY <1>2, <1>3

-------------------------------------------------------------------------------
(* Feature rows. *)

LEMMA AtrSettles ==
  ASSUME NEW u, NEW i, NEW s, NEW n, Begins(u, i, s, n)
  PROVE  Begins(AtrSeries(u), i, AtrSeries(s), n)
<1>1. IsList(u, i) /\ IsList(s, n) /\ i \in Nat /\ n \in Nat /\ i <= n /\ \A j \in 1 .. i : u[j] = s[j]
  BY DEF Begins, IsList
<1>2. ASSUME NEW v, NEW m, IsList(v, m) PROVE IsList(AtrSeries(v), m)
  <2>1. \E run : AtrSeries(v) = [j \in 1 .. m |-> IF j <= AtrPeriod THEN NoValue ELSE Positive(run[j])]
    BY <1>2, AtrSeriesIsPass
  <2>2. m \in Nat BY <1>2 DEF IsList
  <2> QED BY <2>1, <2>2 DEF IsList
<1>3. ASSUME NEW j \in 1 .. i PROVE AtrSeries(u)[j] = AtrSeries(s)[j]
  <2> DEFINE v == [k \in 1 .. j |-> u[k]]
  <2>1. IsList(v, j) BY DEF IsList
  <2>2. \A k \in 1 .. j : k \in 1 .. i /\ v[k] = u[k] BY <1>1
  <2> HIDE DEF v
  <2>3. Begins(v, j, u, i) BY <1>1, <2>1, <2>2 DEF Begins
  <2>4. Begins(v, j, s, n) BY <1>1, <2>1, <2>2 DEF Begins
  <2>5. j > 0 OBVIOUS
  <2> QED BY <2>3, <2>4, <2>5, AtrAgrees
<1> QED BY <1>1, <1>2, <1>3 DEF Begins

LEMMA PercentileSettles ==
  ASSUME NEW f, NEW i, NEW g, NEW n, Begins(f, i, g, n), i > 0
  PROVE  PercentileSeries(f)[i] = PercentileSeries(g)[i]
<1>1. /\ IsList(f, i) /\ IsList(g, n) /\ i \in Nat /\ n \in Nat /\ i <= n /\ \A j \in 1 .. i : f[j] = g[j]
      /\ DOMAIN f = 1 .. i /\ DOMAIN g = 1 .. n
  BY ListIsSequence DEF Begins, IsList
<1>2. RankWindow \in Nat \ {0} BY StructureAssumption
<1>3. PICK first : first = i - RankWindow + 1 OBVIOUS
<1>4. \A v : PercentileSeries(v) =
        [j \in DOMAIN v |->
           IF j < RankWindow \/ NoValue \in Range(SubSeq(v, j - RankWindow + 1, j)) THEN NoValue
           ELSE CausalPercentile(v[j], SubSeq(v, j - RankWindow + 1, j))]
  BY DEF PercentileSeries
<1>5. i \in 1 .. i /\ i \in 1 .. n BY <1>1
<1>6. /\ PercentileSeries(f)[i] = IF i < RankWindow \/ NoValue \in Range(SubSeq(f, first, i)) THEN NoValue
                                  ELSE CausalPercentile(f[i], SubSeq(f, first, i))
      /\ PercentileSeries(g)[i] = IF i < RankWindow \/ NoValue \in Range(SubSeq(g, first, i)) THEN NoValue
                                  ELSE CausalPercentile(g[i], SubSeq(g, first, i))
  BY <1>1, <1>3, <1>4, <1>5
<1>7. CASE ~(i < RankWindow)
  <2>1. first \in Nat \ {0} /\ first <= i + 1 /\ i <= n BY <1>1, <1>2, <1>3, <1>7
  <2>2. /\ IsList(SubSeq(f, first, i), i + 1 - first)
        /\ \A k \in 1 .. i + 1 - first : SubSeq(f, first, i)[k] = f[first + k - 1]
    BY <1>1, <2>1, SubSeqList
  <2>3. /\ IsList(SubSeq(g, first, i), i + 1 - first)
        /\ \A k \in 1 .. i + 1 - first : SubSeq(g, first, i)[k] = g[first + k - 1]
    BY <1>1, <2>1, SubSeqList
  <2>4. \A k \in 1 .. i + 1 - first : first + k - 1 \in 1 .. i BY <1>1, <2>1
  <2>5. SubSeq(f, first, i) = SubSeq(g, first, i) BY <1>1, <2>2, <2>3, <2>4, ListsEqual
  <2> QED BY <1>1, <1>5, <1>6, <2>5
<1> QED BY <1>6, <1>7

LEMMA PriorSettles ==
  ASSUME NEW u, NEW i, NEW s, NEW n, Begins(u, i, s, n), i > 0
  PROVE  PriorStructure(u, i) = PriorStructure(s, i)
<1>1. i \in Nat /\ \A j \in 1 .. i : u[j] = s[j] BY DEF Begins, IsList
<1>2. Lookback \in Nat BY StructureAssumption
<1>3. CASE i <= Lookback BY <1>3 DEF PriorStructure
<1>4. CASE ~(i <= Lookback)
  <2>1. \A j \in i - Lookback .. i - 1 : j \in 1 .. i BY <1>1, <1>2, <1>4
  <2>2. /\ {u[j].h : j \in i - Lookback .. i - 1} = {s[j].h : j \in i - Lookback .. i - 1}
        /\ {u[j].l : j \in i - Lookback .. i - 1} = {s[j].l : j \in i - Lookback .. i - 1}
    BY <1>1, <2>1
  <2>3. u[i] = s[i] BY <1>1
  <2> QED BY <1>4, <2>2, <2>3 DEF PriorStructure
<1> QED BY <1>3, <1>4

\* The buckets of a context that have ended by d.
Ended(history, size, d) == {b \in CompletedBuckets(history, size) : b + size <= d}

WholeBuckets(S, size, d) == {b \in Int : /\ \E k \in Int : b = k * size
                                  /\ b .. b + size - 1 \subseteq S /\ b + size <= d}

LEMMA BucketsEnded ==
  ASSUME NEW history, DOMAIN history \subseteq Int, NEW size \in Nat \ {0}, NEW d \in Int
  PROVE  Ended(history, size, d) = WholeBuckets(DOMAIN history, size, d)
<1>1. \A t \in Int : t \div size \in Int BY Divide
<1>2. \A k \in Int : (k * size) \div size = k
  <2> TAKE k \in Int
  <2>1. PICK q : q = (k * size) \div size OBVIOUS
  <2>2. k * size \in Int OBVIOUS
  <2>3. q \in Int /\ q * size <= k * size /\ k * size < q * size + size BY <2>1, <2>2, Divide
  <2>4. /\ (q + 1) * size = q * size + size /\ (k + 1) * size = k * size + size
        /\ q * size \in Int /\ (q + 1) * size \in Int /\ (k + 1) * size \in Int
    BY <2>3
  <2>5. q * size < (k + 1) * size /\ k * size < (q + 1) * size
    <3>1. PICK x, y : x = q * size /\ y = k * size OBVIOUS
    <3>2. x \in Int /\ y \in Int /\ x <= y /\ y < x + size BY <2>2, <2>3, <2>4, <3>1
    <3>3. x < y + size BY <3>2
    <3> QED BY <2>3, <2>4, <3>1, <3>3
  <2>6. q <= k /\ k <= q BY <2>3, <2>5, MultipleLess
  <2> QED BY <2>1, <2>3, <2>6
<1>3. ASSUME NEW b \in Ended(history, size, d)
      PROVE  b \in Int /\ (\E k \in Int : b = k * size)
             /\ b .. b + size - 1 \subseteq DOMAIN history /\ b + size <= d
  <2>1. PICK t \in DOMAIN history : b = (t \div size) * size BY DEF Ended, CompletedBuckets
  <2>2. t \div size \in Int BY <1>1
  <2>3. b \in Int BY <2>1, <2>2
  <2> QED BY <2>1, <2>2, <2>3 DEF Ended, CompletedBuckets
<1>4. ASSUME NEW b \in Int, NEW k \in Int, b = k * size, b .. b + size - 1 \subseteq DOMAIN history, b + size <= d
      PROVE  b \in Ended(history, size, d)
  <2>1. b \in b .. b + size - 1 OBVIOUS
  <2>2. b \in DOMAIN history BY <1>4, <2>1
  <2>3. b = (b \div size) * size BY <1>2, <1>4
  <2> QED BY <1>4, <2>2, <2>3 DEF Ended, CompletedBuckets
<1> QED BY <1>3, <1>4 DEF WholeBuckets

LEMMA ContextAtSettles ==
  ASSUME NEW g, NEW a, NEW b, IsSegment(g, a, b), NEW d \in a .. b + 1, NEW size \in Nat \ {0}
  PROVE  ContextAt(g, size, d) = ContextAt(Cut(g, d), size, d)
<1>1. /\ a \in Int /\ b \in Int /\ d \in Int /\ DOMAIN g = a .. b /\ DOMAIN Cut(g, d) = a .. d - 1
      /\ \A t \in a .. d - 1 : Cut(g, d)[t] = g[t]
  <2>1. IsSegment(Cut(g, d), a, d - 1) /\ d \in Int /\ \A t \in a .. d - 1 : Cut(g, d)[t] = g[t]
    BY CutIsSegment
  <2>2. DOMAIN Cut(g, d) = a .. d - 1 BY <2>1 DEF IsSegment
  <2>3. a \in Int /\ b \in Int /\ DOMAIN g = a .. b BY DEF IsSegment
  <2> QED BY <2>1, <2>2, <2>3
<1>2. PICK E : E = Ended(g, size, d) OBVIOUS
<1>3. E = WholeBuckets(a .. b, size, d) /\ Ended(Cut(g, d), size, d) = WholeBuckets(a .. d - 1, size, d)
  <2>1. DOMAIN g \subseteq Int /\ DOMAIN Cut(g, d) \subseteq Int BY <1>1
  <2> QED BY <1>1, <1>2, <2>1, BucketsEnded
<1>4. ASSUME NEW x \in Int, x + size <= d
      PROVE  x .. x + size - 1 \subseteq a .. b <=> x .. x + size - 1 \subseteq a .. d - 1
  BY <1>1, <1>4
<1>5. Ended(Cut(g, d), size, d) = E BY <1>3, <1>4 DEF WholeBuckets
<1>6. \A x \in E : x \in Int /\ x \in a .. d - 1 /\ x + size - 1 \in a .. d - 1
  <2> TAKE x \in E
  <2>1. x \in Int /\ x .. x + size - 1 \subseteq a .. b /\ x + size <= d BY <1>3 DEF WholeBuckets
  <2>2. x \in x .. x + size - 1 /\ x + size - 1 \in x .. x + size - 1 BY <2>1
  <2>3. x \in a .. b /\ x + size - 1 \in a .. b BY <2>1, <2>2
  <2> QED BY <1>1, <2>1, <2>3
<1>7. E \in SUBSET Int /\ IsFiniteSet(E)
  <2>1. E \subseteq a .. d - 1 BY <1>6
  <2>2. IsFiniteSet(a .. d - 1) BY <1>1, FS_Interval
  <2> QED BY <1>6, <2>1, <2>2, FS_Subset
<1> DEFINE ended == InOrder(E)
           Of(h) == IF ended = <<>> THEN NoValue
                    ELSE <<h[ended[Len(ended)] + size - 1].c - h[ended[Len(ended)]].o,
                           [k \in DOMAIN ended |-> h[ended[k] + size - 1].c]>>
<1>8. ContextAt(g, size, d) = Of(g) BY <1>2 DEF ContextAt, Ended
<1>9. ContextAt(Cut(g, d), size, d) = Of(Cut(g, d)) BY <1>5 DEF ContextAt, Ended
<1>10. PICK c : IsList(ended, c) /\ \A k \in 1 .. c : ended[k] \in E BY <1>7, InOrderLists
<1>11. c \in Nat /\ DOMAIN ended = 1 .. c /\ Len(ended) = c /\ ended \in Seq(E)
  BY <1>10, ListIsSequence DEF IsList
<1> HIDE DEF ended
<1>12. \A k \in 1 .. c : /\ Cut(g, d)[ended[k]] = g[ended[k]]
                         /\ Cut(g, d)[ended[k] + size - 1] = g[ended[k] + size - 1]
  BY <1>1, <1>6, <1>10
<1>13. ended # <<>> => c \in 1 .. c BY <1>11
<1>14. [k \in DOMAIN ended |-> g[ended[k] + size - 1].c] = [k \in DOMAIN ended |-> Cut(g, d)[ended[k] + size - 1].c]
  BY <1>11, <1>12
<1>15. Of(g) = Of(Cut(g, d))
  <2>1. CASE ended = <<>> BY <2>1
  <2>2. CASE ended # <<>>
    <3>1. /\ Cut(g, d)[ended[c]] = g[ended[c]]
          /\ Cut(g, d)[ended[c] + size - 1] = g[ended[c] + size - 1]
      BY <1>12, <1>13, <2>2
    <3> QED BY <1>11, <1>14, <2>2, <3>1
  <2> QED BY <2>1, <2>2
<1> QED BY <1>8, <1>9, <1>15

ReadyOf(atr, atrRank, rangeRank, prior, context) ==
  /\ atr # NoValue /\ atrRank # NoValue /\ rangeRank # NoValue /\ prior # NoValue
  /\ \A c \in DOMAIN Contexts : context[c] # NoValue

LEMMA RowAtBar ==
  ASSUME NEW g, NEW a, NEW b, IsSegment(g, a, b), NEW i \in 1 .. b + 1 - a
  PROVE  LET s         == Series(g)
             atr       == AtrSeries(s)[i]
             atrRank   == PercentileSeries(AtrSeries(s))[i]
             rangeRank == PercentileSeries(Ranges(s))[i]
             prior     == PriorStructure(s, i)
             context   == [c \in DOMAIN Contexts |-> ContextAt(g, Contexts[c], a + i)]
         IN  FeatureRows(g)[i] =
               [decision |-> a + i, candle |-> s[i], atr |-> atr, atrRank |-> atrRank,
                rangeRank |-> rangeRank, prior |-> prior, context |-> context,
                ready |-> ReadyOf(atr, atrRank, rangeRank, prior, context)]
<1> DEFINE s == Series(g)
           n == b + 1 - a
           times == InOrder(DOMAIN g)
<1>1. n \in Nat /\ times = [k \in 1 .. n |-> a + k - 1] /\ a \in Int BY InOrderInterval DEF IsSegment
<1>2. IsList(s, n) BY SeriesLists
<1>3. DOMAIN s = 1 .. n BY <1>2, ListIsSequence
<1>4. times[i] + 1 = a + i BY <1>1
<1>5. FeatureRows(g)[i] =
        LET context == [c \in DOMAIN Contexts |-> ContextAt(g, Contexts[c], times[i] + 1)]
            prior   == PriorStructure(s, i)
        IN  [decision |-> times[i] + 1, candle |-> s[i], atr |-> AtrSeries(s)[i],
             atrRank |-> PercentileSeries(AtrSeries(s))[i],
             rangeRank |-> PercentileSeries(Ranges(s))[i], prior |-> prior, context |-> context,
             ready |-> ReadyOf(AtrSeries(s)[i], PercentileSeries(AtrSeries(s))[i],
                               PercentileSeries(Ranges(s))[i], prior, context)]
  BY <1>3 DEF FeatureRows, ReadyOf
<1> QED BY <1>4, <1>5

LEMMA RowSettles ==
  ASSUME NEW g, NEW a, NEW b, IsSegment(g, a, b), NEW d \in a + 1 .. b + 1
  PROVE  FeatureRows(g)[d - a] = FeatureRows(Cut(g, d))[d - a]
<1>1. PICK i, k, e, n : i = d - a /\ k = Cut(g, d) /\ e = d - 1 /\ n = b + 1 - a OBVIOUS
<1>2. a \in Int /\ b \in Int /\ d \in Int /\ i \in Nat /\ i > 0 /\ d \in a .. b + 1
      /\ e + 1 - a = i /\ a + i = d /\ e <= b /\ i \in 1 .. i /\ i \in 1 .. n /\ e \in Int
  BY <1>1 DEF IsSegment
<1>3. IsSegment(k, a, e) /\ \A t \in a .. e : k[t] = g[t] BY <1>1, <1>2, CutIsSegment
<1>4. PICK u, s : u = Series(k) /\ s = Series(g) OBVIOUS
<1>5. Begins(u, i, s, n) BY <1>1, <1>2, <1>3, <1>4, SeriesBegin
<1>6. IsList(u, i) /\ IsList(s, n) /\ i <= n /\ n \in Nat /\ \A j \in 1 .. i : u[j] = s[j] BY <1>5 DEF Begins, IsList
<1>7. u[i] = s[i] BY <1>2, <1>6
<1>8. Begins(AtrSeries(u), i, AtrSeries(s), n) BY <1>5, AtrSettles
<1>9. Begins(Ranges(u), i, Ranges(s), n)
  <2>1. DOMAIN u = 1 .. i /\ DOMAIN s = 1 .. n BY <1>6, ListIsSequence
  <2>2. Ranges(u) = [j \in 1 .. i |-> <<u[j].h - u[j].l, 1>>] /\ Ranges(s) = [j \in 1 .. n |-> <<s[j].h - s[j].l, 1>>]
    BY <2>1 DEF Ranges
  <2>3. IsList(Ranges(u), i) /\ IsList(Ranges(s), n) BY <1>2, <1>6, <2>2 DEF IsList
  <2>4. \A j \in 1 .. i : j \in 1 .. n BY <1>2, <1>6
  <2> QED BY <1>6, <2>2, <2>3, <2>4 DEF Begins
<1>10. PICK atr, atrRank, rangeRank, prior :
         /\ atr = AtrSeries(s)[i] /\ atrRank = PercentileSeries(AtrSeries(s))[i]
         /\ rangeRank = PercentileSeries(Ranges(s))[i] /\ prior = PriorStructure(s, i)
  OBVIOUS
<1>11. /\ atr = AtrSeries(u)[i] /\ atrRank = PercentileSeries(AtrSeries(u))[i]
       /\ rangeRank = PercentileSeries(Ranges(u))[i] /\ prior = PriorStructure(u, i)
  <2>1. AtrSeries(s)[i] = AtrSeries(u)[i] BY <1>2, <1>8 DEF Begins
  <2>2. PercentileSeries(AtrSeries(s))[i] = PercentileSeries(AtrSeries(u))[i] BY <1>2, <1>8, PercentileSettles
  <2>3. PercentileSeries(Ranges(s))[i] = PercentileSeries(Ranges(u))[i] BY <1>2, <1>9, PercentileSettles
  <2>4. PriorStructure(s, i) = PriorStructure(u, i) BY <1>2, <1>5, PriorSettles
  <2> QED BY <1>10, <2>1, <2>2, <2>3, <2>4
<1>12. PICK context : context = [c \in DOMAIN Contexts |-> ContextAt(g, Contexts[c], a + i)] OBVIOUS
<1>13. context = [c \in DOMAIN Contexts |-> ContextAt(k, Contexts[c], a + i)]
  <2>1. ASSUME NEW c \in DOMAIN Contexts PROVE ContextAt(g, Contexts[c], a + i) = ContextAt(k, Contexts[c], a + i)
    <3>1. Contexts[c] \in Nat \ {0} BY StructureAssumption
    <3> QED BY <1>1, <1>2, <3>1, ContextAtSettles
  <2> QED BY <1>12, <2>1
<1>14. FeatureRows(g)[i] =
         [decision |-> a + i, candle |-> s[i], atr |-> atr, atrRank |-> atrRank, rangeRank |-> rangeRank,
          prior |-> prior, context |-> context, ready |-> ReadyOf(atr, atrRank, rangeRank, prior, context)]
  BY <1>1, <1>2, <1>4, <1>10, <1>12, RowAtBar
<1>15. FeatureRows(k)[i] =
         [decision |-> a + i, candle |-> u[i], atr |-> atr, atrRank |-> atrRank, rangeRank |-> rangeRank,
          prior |-> prior, context |-> context, ready |-> ReadyOf(atr, atrRank, rangeRank, prior, context)]
  BY <1>2, <1>3, <1>4, <1>11, <1>13, RowAtBar
<1> QED BY <1>1, <1>7, <1>14, <1>15

LEMMA BreakAtSettles ==
  ASSUME NEW f, NEW p, NEW g, NEW q, NEW n \in Nat, Settles(f, p, g, q, n)
  PROVE  BreakAt(f, n) = BreakAt(g, n)
<1>1. /\ p \in Nat /\ q \in Nat /\ p <= q /\ IsList(f, p) /\ IsList(g, q)
      /\ \A k \in 1 .. p : f[k] = g[k]
      /\ \A k \in 1 .. q : g[k].at \in Nat
      /\ \A k \in p + 1 .. q : g[k].at > n
  BY DEF Settles, Begins, IsList
<1>2. DOMAIN f = 1 .. p /\ DOMAIN g = 1 .. q BY <1>1, ListIsSequence
<1> DEFINE here == {k \in 1 .. p : f[k].at = n}
<1>3. {k \in 1 .. q : g[k].at = n} = here
  <2>1. \A k \in 1 .. q : k \in 1 .. p \/ k \in p + 1 .. q BY <1>1
  <2>2. \A k \in 1 .. p : k \in 1 .. q BY <1>1
  <2>3. \A k \in p + 1 .. q : k \in 1 .. q /\ g[k].at # n
    <3> TAKE k \in p + 1 .. q
    <3>1. k \in 1 .. q BY <1>1
    <3>2. g[k].at \in Nat /\ g[k].at > n BY <1>1, <3>1
    <3> QED BY <3>1, <3>2
  <2> QED BY <1>1, <2>1, <2>2, <2>3
<1>4. /\ BreakAt(f, n) = IF here = {} THEN "none" ELSE <<f[Max(here)].kind, f[Max(here)].side>>
      /\ BreakAt(g, n) = IF here = {} THEN "none" ELSE <<g[Max(here)].kind, g[Max(here)].side>>
  BY <1>2, <1>3 DEF BreakAt
<1>5. here # {} => Max(here) \in here
  <2>1. here \in SUBSET Int /\ p \in Int /\ \A x \in here : x <= p BY <1>1
  <2> QED BY <2>1, GreatestInteger
<1>6. here # {} => f[Max(here)] = g[Max(here)] BY <1>1, <1>5
<1> HIDE DEF here
<1> QED BY <1>4, <1>6

\* The context of a bar is the same in every longer history.
LEMMA MarketSettles ==
  ASSUME NEW g, NEW a, NEW b, IsSegment(g, a, b), NEW d \in a + 1 .. b + 1
  PROVE  MarketContexts(g)[d - a] = MarketContexts(Cut(g, d))[d - a]
<1>1. PICK i, k, e, n : i = d - a /\ k = Cut(g, d) /\ e = d - 1 /\ n = b + 1 - a OBVIOUS
<1>2. a \in Int /\ b \in Int /\ d \in Int /\ i \in Nat /\ i > 0 /\ d \in a .. b + 1
      /\ e + 1 - a = i /\ e <= b /\ i \in 1 .. i /\ i \in 0 .. i /\ i \in 1 .. n /\ e \in Int
  BY <1>1 DEF IsSegment
<1>3. IsSegment(k, a, e) /\ \A t \in a .. e : k[t] = g[t] BY <1>1, <1>2, CutIsSegment
<1>4. PICK u, s : u = Series(k) /\ s = Series(g) OBVIOUS
<1>5. Begins(u, i, s, n) BY <1>1, <1>2, <1>3, <1>4, SeriesBegin
<1>6. u[i] = s[i] BY <1>2, <1>5 DEF Begins
<1>7. FeatureRows(g)[i] = FeatureRows(k)[i] BY <1>1, RowSettles
<1>8. ASSUME NEW kind \in Kinds
      PROVE  /\ StructureCounts(RecentSwings(SwingsOf(s)[kind], i)) = StructureCounts(RecentSwings(SwingsOf(u)[kind], i))
             /\ LatestSwing(SwingsOf(s)[kind], i, s[i].c) = LatestSwing(SwingsOf(u)[kind], i, u[i].c)
             /\ LabelAt(SwingsOf(s)[kind], i) = LabelAt(SwingsOf(u)[kind], i)
  <2>1. PICK f, h, p, q : f = SwingsOf(u)[kind] /\ h = SwingsOf(s)[kind] /\ Settles(f, p, h, q, i)
    BY <1>5, SwingsOfSettle DEF SwingsAgree
  <2>2. Settles(f, p, f, p, i)
    <3>1. p \in Nat /\ q \in Nat /\ p <= q /\ \A x \in 1 .. p : f[x] = h[x]
      BY <2>1 DEF Settles, Begins, IsList
    <3>2. \A x \in 1 .. p : x \in 1 .. q BY <3>1
    <3>3. \A x \in 1 .. p : f[x].at \in Nat \ {0} /\ f[x].at <= i BY <2>1, <3>1, <3>2 DEF Settles
    <3>4. Begins(f, p, f, p) BY <2>1, <3>1 DEF Settles, Begins
    <3>5. \A x \in p + 1 .. p : f[x].at > i BY <3>1
    <3> QED BY <3>3, <3>4, <3>5 DEF Settles
  <2>3. StructureCounts(RecentSwings(h, i)) = StructureCounts(f) BY <1>2, <2>1, CountsAgree
  <2>4. StructureCounts(RecentSwings(f, i)) = StructureCounts(f) BY <1>2, <2>2, CountsAgree
  <2>5. LatestSwing(h, i, s[i].c) = LatestSwing(f, i, s[i].c) BY <1>2, <2>1, LatestSwingAgrees
  <2>6. LabelAt(f, i) = LabelAt(h, i) BY <1>2, <2>1, LabelAtSettles
  <2> QED BY <1>6, <2>1, <2>3, <2>4, <2>5, <2>6
<1>9. PICK row, counts, latest, labels, break :
        /\ row = FeatureRows(g)[i] /\ counts = CountsAt(SwingsOf(s), i) /\ latest = LatestAt(s, SwingsOf(s), i)
        /\ labels = LabelsAt(SwingsOf(s), i) /\ break = BreakAt(StructureBreaks(s), i)
  OBVIOUS
<1>10. counts = CountsAt(SwingsOf(u), i) /\ latest = LatestAt(u, SwingsOf(u), i) /\ labels = LabelsAt(SwingsOf(u), i)
  BY <1>8, <1>9 DEF CountsAt, LatestAt, LabelsAt
<1>11. break = BreakAt(StructureBreaks(u), i)
  <2>1. PICK p, q : Settles(StructureBreaks(u), p, StructureBreaks(s), q, i) BY <1>5, BreaksSettle
  <2> QED BY <1>2, <1>9, <2>1, BreakAtSettles
<1>12. MarketContexts(g)[i] = [row |-> row, counts |-> counts, latest |-> latest, labels |-> labels, break |-> break]
  BY <1>1, <1>2, <1>4, <1>9, ContextIs
<1>13. MarketContexts(k)[i] = [row |-> row, counts |-> counts, latest |-> latest, labels |-> labels, break |-> break]
  BY <1>2, <1>3, <1>4, <1>7, <1>9, <1>10, <1>11, ContextIs
<1> QED BY <1>1, <1>12, <1>13

-------------------------------------------------------------------------------
(* Records. *)

\* The context joined to an anchor is the one its evidence instant shows,
\* however many bars of the segment are known.
LEMMA ContextSettles ==
  ASSUME NEW g, NEW a, NEW b, IsSegment(g, a, b), NEW anchor, anchor.evidence \in a + 1 .. b + 1,
         NEW last \in anchor.evidence .. b + 1
  PROVE  ContextOf(g, last, anchor) = ContextOf(Cut(g, anchor.evidence), anchor.evidence, anchor)
<1>1. PICK d, t, m, h, known :
        d = anchor.evidence /\ t = d - 1 /\ m = last - 1 /\ h = Cut(g, d) /\ known = Cut(g, last)
  OBVIOUS
<1>2. /\ a \in Int /\ b \in Int /\ d \in Int /\ last \in Int /\ t \in Int /\ m \in Int
      /\ t + 1 = d /\ m + 1 = last /\ d \in a .. b + 1 /\ last \in a .. b + 1 /\ d \in a .. last
      /\ d \in a .. m + 1 /\ d \in a .. d /\ t \in a .. m /\ t \in a .. t /\ m \in a .. m /\ a <= m /\ a <= t /\ a <= b
      /\ d <= last /\ d <= d /\ d \in a + 1 .. b + 1
  BY <1>1 DEF IsSegment
<1>3. IsSegment(known, a, m) /\ \A u \in a .. last : Cut(known, u) = Cut(g, u)
  BY <1>1, <1>2, CutIsSegment
<1>4. IsSegment(h, a, t) /\ \A u \in a .. d : Cut(h, u) = Cut(g, u)
  BY <1>1, <1>2, CutIsSegment
<1>5. Cut(known, d) = h /\ Cut(h, d) = h BY <1>1, <1>2, <1>3, <1>4
<1>6. AgreeBefore(known, h, d)
  <2>1. AgreeBefore(known, Cut(known, d), d) BY <1>2, <1>3, CutIsSegment
  <2> QED BY <1>5, <2>1
<1>7. DOMAIN known = a .. m /\ DOMAIN h = a .. t BY <1>3, <1>4 DEF IsSegment
<1>8. AgreeBefore(h, h, d) BY <1>2, <1>7 DEF AgreeBefore
<1>9. HistoricalSnapshots(known)[t] = MultiTimeframeSnapshot(h, t + 1)
  <2>1. t \in DOMAIN known /\ m \in DOMAIN known /\ \A u \in DOMAIN known : u <= m BY <1>2, <1>7
  <2>2. AgreeBefore(known, h, t + 1) BY <1>2, <1>6
  <2> QED BY <2>1, <2>2, SnapshotSettled
<1>10. HistoricalSnapshots(h)[t] = MultiTimeframeSnapshot(h, t + 1)
  <2>1. t \in DOMAIN h /\ \A u \in DOMAIN h : u <= t BY <1>2, <1>7
  <2>2. AgreeBefore(h, h, t + 1) BY <1>2, <1>8
  <2> QED BY <2>1, <2>2, SnapshotSettled
<1>11. JoinMultiTimeframe(known, d) = JoinMultiTimeframe(h, d)
  BY <1>1, <1>9, <1>10 DEF JoinMultiTimeframe
<1>12. SessionSlots(known, last, d) = SessionSlots(h, d, d) BY <1>2, <1>6, SlotsSettle
<1>13. MarketContexts(g)[d - a] = MarketContexts(h)[d - a] BY <1>1, <1>2, MarketSettles
<1>14. Min(DOMAIN g) = a /\ Min(DOMAIN h) = a BY <1>2, <1>4, SegmentEnds
<1>15. PICK frames, slots, market :
         frames = JoinMultiTimeframe(h, d) /\ slots = SessionSlots(h, d, d) /\ market = MarketContexts(h)[d - a]
  OBVIOUS
<1>16. ContextOf(g, last, anchor) =
         [frames |-> frames, sessions |-> slots, relationships |-> RelationshipSlots(slots),
          market |-> market, transition |-> anchor.semantics]
  BY <1>1, <1>11, <1>12, <1>13, <1>14, <1>15 DEF ContextOf
<1>17. ContextOf(h, d, anchor) =
         [frames |-> frames, sessions |-> slots, relationships |-> RelationshipSlots(slots),
          market |-> market, transition |-> anchor.semantics]
  BY <1>1, <1>5, <1>14, <1>15 DEF ContextOf
<1> QED BY <1>1, <1>16, <1>17

\* The longest horizon.
LEMMA HorizonIs == Max(Horizons) \in Nat \ {0} /\ \A h \in Horizons : h \in Nat \ {0} /\ h <= Max(Horizons)
<1>1. Horizons \in SUBSET Int /\ IsFiniteSet(Horizons) /\ Horizons # {} /\ Horizons \subseteq Nat \ {0}
  BY LevelsAssumption
<1>2. PICK n, list : n = Cardinality(Horizons) /\ list = InOrder(Horizons) OBVIOUS
<1>3. /\ \A k \in 1 .. n : list[k] \in Horizons
      /\ \A x \in Horizons : Rank(Horizons, x) + 1 \in 1 .. n /\ list[Rank(Horizons, x) + 1] = x
      /\ \A j, k \in 1 .. n : j < k => list[j] < list[k]
  BY <1>1, <1>2, InOrderLists
<1>4. n \in Nat BY <1>1, <1>2, FS_CardinalityType
<1>5. ASSUME NEW x \in Horizons PROVE n \in 1 .. n /\ x <= list[n]
  <2>1. PICK k \in 1 .. n : x = list[k] BY <1>3
  <2>2. n \in 1 .. n /\ (k = n \/ k < n) BY <1>4, <2>1
  <2>3. list[k] \in Int /\ list[n] \in Int BY <1>1, <1>3, <2>2
  <2> QED BY <1>3, <2>1, <2>2, <2>3
<1>6. list[n] \in Int /\ \A x \in Horizons : x <= list[n] BY <1>1, <1>3, <1>5
<1>7. Max(Horizons) \in Horizons /\ \A y \in Horizons : y <= Max(Horizons) BY <1>1, <1>6, GreatestInteger
<1> QED BY <1>1, <1>7

\* The bars of a segment that precede its horizon.
LEMMA EligibleIs ==
  ASSUME NEW g, NEW a, NEW b, IsSegment(g, a, b), a <= b
  PROVE  \E d \in a .. b + 1 :
           /\ Eligible(g) = Cut(g, d)
           /\ \A n \in a + 1 .. b + 1 : n + Max(Horizons) <= b + 1 <=> n <= d
<1>1. PICK H, e, d : H = Max(Horizons) /\ e = b + 1 - H /\ d = IF e < a THEN a ELSE e OBVIOUS
<1>2. a \in Int /\ b \in Int /\ H \in Nat \ {0} /\ DOMAIN g = a .. b BY <1>1, HorizonIs DEF IsSegment
<1>3. /\ e \in Int /\ d \in a .. b + 1 /\ d \in Int /\ b + 1 - H = e /\ (e < a => d = a) /\ (e >= a => d = e)
  BY <1>1, <1>2
<1>4. Eligible(g) = Cut(g, d)
  <2>1. Max(DOMAIN g) = b BY SegmentEnds
  <2>2. Eligible(g) = Cut(g, e) BY <1>1, <2>1 DEF Eligible
  <2>3. {u \in DOMAIN g : u < e} = {u \in DOMAIN g : u < d} BY <1>2, <1>3
  <2> QED BY <2>2, <2>3 DEF Cut
<1>5. \A n \in a + 1 .. b + 1 : n + H <= b + 1 <=> n <= d BY <1>2, <1>3
<1> QED BY <1>1, <1>3, <1>4, <1>5

\* The anchors of a segment are those whose outcomes it holds.
LEMMA SegmentAnchorsAre ==
  ASSUME NEW g, NEW a, NEW b, IsSegment(g, a, b), a <= b, NEW y
  PROVE  y \in SegmentAnchors(g) <=> y \in Anchors(g, b + 1) /\ y.evidence + Max(Horizons) <= b + 1
<1>1. PICK d \in a .. b + 1 :
        /\ Eligible(g) = Cut(g, d)
        /\ \A n \in a + 1 .. b + 1 : n + Max(Horizons) <= b + 1 <=> n <= d
  BY EligibleIs
<1>2. a \in Int /\ b \in Int /\ d \in Int BY <1>1 DEF IsSegment
<1>3. IsSegment(Cut(g, d), a, d - 1) BY CutIsSegment
<1>4. SegmentAnchors(g) = IF d = a THEN {} ELSE Anchors(Cut(g, d), d)
  <2>1. DOMAIN Cut(g, d) = a .. d - 1 BY <1>3 DEF IsSegment
  <2>2. (a .. d - 1 = {}) <=> d = a
    <3>1. a \in a .. d - 1 <=> d # a BY <1>1, <1>2
    <3>2. d = a => a .. d - 1 = {} BY <1>2
    <3> QED BY <3>1, <3>2
  <2>3. d # a => Max(DOMAIN Cut(g, d)) + 1 = d
    <3>1. d # a => Max(DOMAIN Cut(g, d)) = d - 1 BY <1>1, <1>2, <1>3, SegmentEnds
    <3> QED BY <1>2, <3>1
  <2> QED BY <1>1, <2>1, <2>2, <2>3 DEF SegmentAnchors
<1>5. y \in Anchors(g, b + 1) /\ y.evidence <= d <=> y \in Anchors(Cut(g, d), d) BY AnchorsSettle
<1>6. y \in Anchors(g, b + 1) => y.evidence \in a + 2 .. b + 1 BY AnchorShape
<1>7. y \in Anchors(g, b + 1) => (y.evidence + Max(Horizons) <= b + 1 <=> y.evidence <= d)
  <2>1. \A n \in a + 2 .. b + 1 : n \in a + 1 .. b + 1 BY <1>2
  <2> QED BY <1>1, <1>6, <2>1
<1>8. d = a => ~(y \in Anchors(g, b + 1) /\ y.evidence <= d) BY <1>2, <1>6
<1> QED BY <1>4, <1>5, <1>7, <1>8

\* A record, read off its anchor and its segment.
RecordOf(segment, y) ==
  [anchor   |-> y,
   context  |-> ContextOf(Cut(segment, y.evidence), y.evidence, y),
   outcomes |-> [h \in Horizons |-> ForwardOutcome(segment, y, h)]]

LEMMA RecordsOfSegment ==
  ASSUME NEW g, NEW a, NEW b, IsSegment(g, a, b), a <= b
  PROVE  /\ SegmentRecords(g) = {RecordOf(g, y) : y \in SegmentAnchors(g)}
         /\ \A y \in SegmentAnchors(g) :
              \E d \in a .. b + 1 :
                 /\ Eligible(g) = Cut(g, d)
                 /\ y.evidence \in a + 1 .. d
                 /\ LastEvidence(SegmentAnchors(g)) \in y.evidence .. d
<1>1. PICK d \in a .. b + 1 :
        /\ Eligible(g) = Cut(g, d)
        /\ \A n \in a + 1 .. b + 1 : n + Max(Horizons) <= b + 1 <=> n <= d
  BY EligibleIs
<1>2. a \in Int /\ b \in Int /\ d \in Int BY <1>1 DEF IsSegment
<1>3. ASSUME NEW y \in SegmentAnchors(g) PROVE y.evidence \in a + 1 .. d
  <2>1. y \in Anchors(g, b + 1) /\ y.evidence + Max(Horizons) <= b + 1 BY SegmentAnchorsAre
  <2>2. y.evidence \in a + 2 .. b + 1 BY <2>1, AnchorShape
  <2>3. y.evidence \in a + 1 .. b + 1 BY <1>2, <2>2
  <2> QED BY <1>1, <1>2, <2>1, <2>3
<1>4. PICK last : last = LastEvidence(SegmentAnchors(g)) OBVIOUS
<1>5. ASSUME NEW y \in SegmentAnchors(g) PROVE last \in y.evidence .. d
  <2>1. PICK T : T = {x.evidence : x \in SegmentAnchors(g)} OBVIOUS
  <2>2. T \in SUBSET Int /\ y.evidence \in T /\ \A n \in T : n \in a + 1 .. d BY <1>2, <1>3, <2>1
  <2>3. \A n \in T : n <= d BY <1>2, <2>2
  <2>4. Max(T) \in T /\ \A n \in T : n <= Max(T) BY <1>2, <2>2, <2>3, GreatestInteger
  <2>5. last = Max(T) BY <1>4, <2>1 DEF LastEvidence
  <2>6. last \in a + 1 .. d /\ y.evidence <= last /\ y.evidence \in a + 1 .. d BY <2>2, <2>4, <2>5
  <2> QED BY <1>2, <2>6
<1>6. ASSUME NEW y \in SegmentAnchors(g)
      PROVE  ContextOf(Eligible(g), last, y) = ContextOf(Cut(g, y.evidence), y.evidence, y)
  <2>1. PICK k, e : k = Cut(g, d) /\ e = d - 1 OBVIOUS
  <2>2. /\ IsSegment(k, a, e) /\ \A n \in a .. d : Cut(k, n) = Cut(g, n) BY <2>1, CutIsSegment
  <2>3. e + 1 = d /\ y.evidence \in a + 1 .. e + 1 /\ last \in y.evidence .. e + 1 /\ y.evidence \in a .. d
    BY <1>2, <1>3, <1>5, <2>1
  <2>4. ContextOf(k, last, y) = ContextOf(Cut(k, y.evidence), y.evidence, y) BY <2>2, <2>3, ContextSettles
  <2> QED BY <1>1, <2>1, <2>2, <2>3, <2>4
<1>7. SegmentRecords(g) = {RecordOf(g, y) : y \in SegmentAnchors(g)}
  BY <1>4, <1>6 DEF SegmentRecords, RecordOf
<1> QED BY <1>1, <1>3, <1>4, <1>5, <1>7

\* An outcome reads the bars of its window only.
LEMMA OutcomeSettles ==
  ASSUME NEW g, NEW k, NEW y, y.evidence \in Int, NEW n \in Nat \ {0},
         \A t \in y.evidence .. y.evidence + n - 1 : g[t] = k[t]
  PROVE  ForwardOutcome(g, y, n) = ForwardOutcome(k, y, n)
<1>1. PICK e, window : e = y.evidence /\ window = e .. e + n - 1 OBVIOUS
<1>2. e \in window /\ e + n - 1 \in window BY <1>1
<1>3. \A t \in window : g[t] = k[t] BY <1>1
<1>4. /\ {g[t].h : t \in window} = {k[t].h : t \in window}
      /\ {g[t].l : t \in window} = {k[t].l : t \in window}
  BY <1>3
<1>5. PICK high, low : high = Max({g[t].h : t \in window}) /\ low = Min({g[t].l : t \in window}) OBVIOUS
<1>6. high = Max({k[t].h : t \in window}) /\ low = Min({k[t].l : t \in window}) BY <1>4, <1>5
<1>7. /\ {t \in window : g[t].h = high} = {t \in window : k[t].h = high}
      /\ {t \in window : g[t].l = low} = {t \in window : k[t].l = low}
  BY <1>3
<1>8. g[e] = k[e] /\ g[e + n - 1] = k[e + n - 1] BY <1>2, <1>3
<1>9. ForwardOutcome(g, y, n) =
        [horizon |-> n, first |-> g[e].o, change |-> g[e + n - 1].c - y.reference,
         up |-> Max({0, high - y.reference}), down |-> Max({0, y.reference - low}),
         toHigh |-> Min({t \in window : g[t].h = high}) - e,
         toLow |-> Min({t \in window : g[t].l = low}) - e]
  BY <1>1, <1>5 DEF ForwardOutcome
<1>10. ForwardOutcome(k, y, n) =
        [horizon |-> n, first |-> k[e].o, change |-> k[e + n - 1].c - y.reference,
         up |-> Max({0, high - y.reference}), down |-> Max({0, y.reference - low}),
         toHigh |-> Min({t \in window : k[t].h = high}) - e,
         toLow |-> Min({t \in window : k[t].l = low}) - e]
  BY <1>1, <1>6 DEF ForwardOutcome
<1> QED BY <1>7, <1>8, <1>9, <1>10

\* The records of a segment are records of every segment that extends it.
LEMMA RecordsCarry ==
  ASSUME NEW g, NEW k, NEW a, NEW b, NEW c, IsSegment(g, a, b), IsSegment(k, a, c),
         a <= b, b <= c, \A t \in a .. b : g[t] = k[t]
  PROVE  SegmentRecords(g) \subseteq SegmentRecords(k)
<1>1. /\ a \in Int /\ b \in Int /\ c \in Int /\ DOMAIN g = a .. b /\ DOMAIN k = a .. c /\ a <= c
      /\ b + 1 \in a .. b + 1 /\ b + 1 \in a .. c + 1
  BY DEF IsSegment
<1>2. ASSUME NEW d \in a .. b + 1 PROVE Cut(g, d) = Cut(k, d)
  <2>1. {u \in DOMAIN g : u < d} = {u \in DOMAIN k : u < d} BY <1>1
  <2>2. \A u \in {v \in DOMAIN g : v < d} : g[u] = k[u] BY <1>1
  <2> QED BY <2>1, <2>2 DEF Cut
<1>3. ASSUME NEW y \in SegmentAnchors(g)
      PROVE  y \in SegmentAnchors(k) /\ RecordOf(g, y) = RecordOf(k, y)
  <2>1. y \in Anchors(g, b + 1) /\ y.evidence + Max(Horizons) <= b + 1 BY <1>3, SegmentAnchorsAre
  <2>2. y.evidence \in a + 2 .. b + 1 BY <2>1, AnchorShape
  <2>3. Max(Horizons) \in Nat \ {0} /\ \A n \in Horizons : n \in Nat \ {0} /\ n <= Max(Horizons)
    BY HorizonIs
  <2>4. /\ y.evidence \in Int /\ y.evidence <= b + 1 /\ y.evidence \in a .. b + 1
        /\ y.evidence + Max(Horizons) <= c + 1
    BY <1>1, <2>1, <2>2, <2>3
  <2>5. y \in Anchors(Cut(g, b + 1), b + 1) BY <1>1, <2>1, <2>4, AnchorsSettle
  <2>6. y \in Anchors(Cut(k, b + 1), b + 1) BY <1>1, <1>2, <2>5
  <2>7. y \in Anchors(k, c + 1) BY <1>1, <2>6, AnchorsSettle
  <2>8. y \in SegmentAnchors(k) BY <1>1, <2>4, <2>7, SegmentAnchorsAre
  <2>9. ASSUME NEW n \in Horizons PROVE ForwardOutcome(g, y, n) = ForwardOutcome(k, y, n)
    <3>1. n \in Nat \ {0} /\ n <= Max(Horizons) BY <2>3
    <3>2. \A t \in y.evidence .. y.evidence + n - 1 : t \in a .. b BY <1>1, <2>1, <2>3, <2>4, <3>1
    <3>3. \A t \in y.evidence .. y.evidence + n - 1 : g[t] = k[t] BY <3>2
    <3> QED BY <2>4, <3>1, <3>3, OutcomeSettles
  <2>10. [n \in Horizons |-> ForwardOutcome(g, y, n)] = [n \in Horizons |-> ForwardOutcome(k, y, n)]
    BY <2>9
  <2>11. Cut(g, y.evidence) = Cut(k, y.evidence) BY <1>2, <2>4
  <2>12. RecordOf(g, y) = RecordOf(k, y) BY <2>10, <2>11 DEF RecordOf
  <2> QED BY <2>8, <2>12
<1>4. SegmentRecords(g) = {RecordOf(g, y) : y \in SegmentAnchors(g)} BY RecordsOfSegment
<1>5. SegmentRecords(k) = {RecordOf(k, y) : y \in SegmentAnchors(k)} BY <1>1, RecordsOfSegment
<1> QED BY <1>3, <1>4, <1>5

LEMMA SpanIsSegment ==
  ASSUME NEW history, DOMAIN history \subseteq Int, NEW a, NEW b, Spans(history, a, b)
  PROVE  [t \in a .. b |-> history[t]] \in Segments(history)
<1>1. a \in Int /\ b \in Int /\ a <= b /\ a .. b \subseteq DOMAIN history
      /\ a - 1 \notin DOMAIN history /\ b + 1 \notin DOMAIN history
  BY DEF Spans
<1>2. a \in DOMAIN history /\ b \in DOMAIN history BY <1>1
<1>3. PICK x : x = <<a, b>> OBVIOUS
<1>4. x \in (DOMAIN history) \X (DOMAIN history) /\ x[1] = a /\ x[2] = b BY <1>2, <1>3
<1>5. x[1] <= x[2] /\ x[1] .. x[2] \subseteq DOMAIN history
      /\ x[1] - 1 \notin DOMAIN history /\ x[2] + 1 \notin DOMAIN history
  BY <1>1, <1>4
<1>6. [t \in x[1] .. x[2] |-> history[t]] \in Segments(history) BY <1>4, <1>5 DEF Segments
<1> QED BY <1>4, <1>6

\* A bar appended to a history extends the segment it follows and leaves the
\* others as they were, so no record is lost.
LEMMA RecordsGrow ==
  ASSUME NEW history, NEW n \in Int, DOMAIN history \subseteq Int, \A t \in DOMAIN history : t < n,
         NEW longer, DOMAIN longer = DOMAIN history \union {n},
         \A t \in DOMAIN history : longer[t] = history[t]
  PROVE  Records(history) \subseteq Records(longer)
<1> SUFFICES ASSUME NEW r \in Records(history) PROVE r \in Records(longer) OBVIOUS
<1>1. PICK g \in Segments(history) : r \in SegmentRecords(g) BY DEF Records
<1>2. PICK a, b : Spans(history, a, b) /\ IsSegment(g, a, b) /\ g = [t \in a .. b |-> history[t]]
  BY SegmentShape
<1>3. /\ a \in Int /\ b \in Int /\ a <= b /\ a .. b \subseteq DOMAIN history
      /\ a - 1 \notin DOMAIN history /\ b + 1 \notin DOMAIN history
      /\ b \in a .. b /\ a \in a .. b
  BY <1>2 DEF Spans
<1>4. b < n /\ a < n /\ DOMAIN longer \subseteq Int BY <1>3
<1>5. PICK c : c = IF n = b + 1 THEN n ELSE b OBVIOUS
<1>6. c \in Int /\ b <= c /\ a <= c /\ (n = b + 1 => c = b + 1) /\ (n # b + 1 => c = b) BY <1>3, <1>5
<1>7. Spans(longer, a, c)
  <2>1. \A t \in a .. c : t \in a .. b \/ t = n BY <1>3, <1>6
  <2>2. a .. c \subseteq DOMAIN longer BY <1>3, <2>1
  <2>3. a - 1 \notin DOMAIN longer BY <1>3, <1>4
  <2>4. c + 1 \notin DOMAIN longer BY <1>3, <1>4, <1>6
  <2> QED BY <1>3, <1>6, <2>2, <2>3, <2>4 DEF Spans
<1>8. PICK k : k = [t \in a .. c |-> longer[t]] OBVIOUS
<1>9. k \in Segments(longer) BY <1>4, <1>7, <1>8, SpanIsSegment
<1>10. IsSegment(k, a, c) BY <1>3, <1>6, <1>8 DEF IsSegment
<1>11. \A t \in a .. b : g[t] = k[t]
  <2>1. \A t \in a .. b : t \in a .. c /\ t \in DOMAIN history BY <1>3, <1>6
  <2> QED BY <1>2, <1>8, <2>1
<1>12. SegmentRecords(g) \subseteq SegmentRecords(k) BY <1>2, <1>3, <1>6, <1>10, <1>11, RecordsCarry
<1> QED BY <1>1, <1>9, <1>12 DEF Records

\* A slot that is not active has a window that ended.
LEMMA SlotEnded ==
  ASSUME NEW history, NEW last, NEW evidence \in Int, NEW id \in DOMAIN Sessions,
         ~SessionSlots(history, last, evidence)[id].active
  PROVE  ~(SessionSlots(history, last, evidence)[id].window.end > evidence)
<1>1. PICK w : w = Relevant(Sessions[id], evidence) OBVIOUS
<1>2. \E summary : SessionSlots(history, last, evidence)[id] =
        [window |-> Window(w), active |-> w.start <= evidence /\ evidence < w.end, summary |-> summary]
  BY <1>1 DEF SessionSlots
<1>3. /\ SessionSlots(history, last, evidence)[id].window = Window(w)
      /\ SessionSlots(history, last, evidence)[id].active <=> (w.start <= evidence /\ evidence < w.end)
  <2>1. PICK active : active = (w.start <= evidence /\ evidence < w.end) OBVIOUS
  <2>2. PICK summary : SessionSlots(history, last, evidence)[id] =
          [window |-> Window(w), active |-> active, summary |-> summary]
    BY <1>2, <2>1
  <2>3. SessionSlots(history, last, evidence)[id].window = Window(w) BY <2>2
  <2>4. SessionSlots(history, last, evidence)[id].active = active BY <2>2
  <2> QED BY <2>1, <2>3, <2>4
<1>4. SessionSlots(history, last, evidence)[id].window.end = w.end BY <1>3 DEF Window
<1>5. w.start <= evidence BY <1>1, RelevantHasStarted
<1>6. w.end \in Int
  <2>1. Day \in Nat \ {0} /\ Sessions[id].zone \in Zones BY DayAssumption, SessionsAssumption DEF Zones
  <2>2. Local(Sessions[id].zone, evidence) \in Int BY <2>1 DEF Local, Offset, Zones
  <2>3. Local(Sessions[id].zone, evidence) \div Day \in Int BY <2>1, <2>2, Divide
  <2>4. Local(Sessions[id].zone, evidence) \div Day - 1 \in Int BY <2>3
  <2>5. \E date \in Int : w = SessionWindow(Sessions[id], date) BY <1>1, <2>3, <2>4 DEF Relevant
  <2> QED BY <2>5, SessionWhole
<1> QED BY <1>3, <1>4, <1>5, <1>6

\* No aggregation of a segment's bars is rejected: blocks last, session
\* boundaries exist, and no bar of a level's history is missing.
LEMMA AggregationPasses ==
  ASSUME NEW k, NEW a, NEW e, IsSegment(k, a, e), NEW d, d = e + 1
  PROVE  /\ \A x \in GeometryInstances(k, d) : ~HistoryRaises(k, x, d)
         /\ \A f \in DOMAIN Frames : ~BlocksRaise(k, d, Frames[f])
         /\ ~SessionsRaise(k, d)
<1>1. a \in Int /\ e \in Int /\ d \in Int /\ DOMAIN k = a .. e /\ d - 1 = e /\ d \in a .. e + 1 BY DEF IsSegment
<1>2. ASSUME NEW x \in GeometryInstances(k, d) PROVE ~HistoryRaises(k, x, d)
  <2>1. x.available \in a + 1 .. e + 1 BY <1>1, <1>2, InstancesSettle
  <2>2. \A t \in x.available .. e : t \in a .. e BY <1>1, <2>1
  <2> QED BY <1>1, <2>2 DEF HistoryRaises
<1>3. ASSUME NEW f \in DOMAIN Frames PROVE ~BlocksRaise(k, d, Frames[f])
  <2>1. ASSUME NEW t \in Completed(k, d) PROVE ~(ResolveBlock(t, Frames[f]).end <= ResolveBlock(t, Frames[f]).start)
    <3>1. t \in Int BY <1>1 DEF Completed
    <3>2. Frame(Frames[f]) BY FramesAreFrames
    <3>3. PICK b : b = ResolveBlock(t, Frames[f]) OBVIOUS
    <3>4. b.start \in Int /\ b.end \in Int /\ b.start <= t /\ t < b.end BY <3>1, <3>2, <3>3, BlocksTile
    <3> QED BY <3>1, <3>3, <3>4
  <2> QED BY <2>1 DEF BlocksRaise
<1>4. ASSUME NEW id \in DOMAIN Sessions, NEW date \in SessionDates(k, d, Sessions[id])
      PROVE  LET w == SessionWindow(Sessions[id], date) IN w.valid /\ ~(w.end <= w.start)
  <2>1. Day \in Nat \ {0} /\ Sessions[id].zone \in Zones BY DayAssumption, SessionsAssumption DEF Zones
  <2>2. ASSUME NEW t \in Completed(k, d) PROVE Local(Sessions[id].zone, t) \div Day \in Int
    <3>1. t \in Int BY <1>1 DEF Completed
    <3>2. Local(Sessions[id].zone, t) \in Int BY <2>1, <3>1 DEF Local, Offset, Zones
    <3> QED BY <2>1, <3>2, Divide
  <2>3. date \in Int BY <1>4, <2>2 DEF SessionDates
  <2>4. PICK w : w = SessionWindow(Sessions[id], date) OBVIOUS
  <2>5. w.start \in Int /\ w.end \in Int /\ w.start < w.end /\ w.valid BY <2>3, <2>4, SessionWhole
  <2> QED BY <2>4, <2>5
<1>5. ~SessionsRaise(k, d) BY <1>4 DEF SessionsRaise
<1> QED BY <1>2, <1>3, <1>5

\* What the checks of a record, of its context and of its outcomes reject.
Rejected(segment, known, last, y) ==
  \/ y.evidence < y.instance.available
  \/ y.evidence - 1 \notin DOMAIN known
  \/ known[y.evidence - 1].c # y.reference
  \/ OutcomeRaises(segment, y)
  \/ \E id \in DOMAIN Sessions :
        /\ ~SessionSlots(known, last, y.evidence)[id].active
        /\ SessionSlots(known, last, y.evidence)[id].window.end > y.evidence

LEMMA RecordAccepted ==
  ASSUME NEW g, NEW a, NEW b, IsSegment(g, a, b), a <= b, NEW y \in SegmentAnchors(g)
  PROVE  LET last == LastEvidence(SegmentAnchors(g))
         IN  ~Rejected(g, Cut(Eligible(g), last), last, y)
<1>1. PICK last : last = LastEvidence(SegmentAnchors(g)) OBVIOUS
<1>2. PICK d \in a .. b + 1 : /\ Eligible(g) = Cut(g, d)
                              /\ y.evidence \in a + 1 .. d /\ last \in y.evidence .. d
  BY <1>1, RecordsOfSegment
<1>3. PICK e : e = y.evidence OBVIOUS
<1>4. /\ a \in Int /\ b \in Int /\ d \in Int /\ last \in Int /\ e \in Int /\ DOMAIN g = a .. b
      /\ last \in a .. d /\ last \in a .. b + 1 /\ e - 1 \in a .. last - 1
  BY <1>2, <1>3 DEF IsSegment
<1>5. y \in Anchors(g, b + 1) /\ e + Max(Horizons) <= b + 1 BY <1>3, SegmentAnchorsAre
<1>6. /\ y.instance.available \in a + 1 .. b + 1 /\ e \in y.instance.available + 1 .. b + 1
      /\ y.reference = g[e - 1].c
  BY <1>3, <1>5, AnchorShape
<1>7. PICK known : known = Cut(Eligible(g), last) OBVIOUS
<1>8. known = Cut(g, last) BY <1>2, <1>4, <1>7, CutIsSegment
<1>9. DOMAIN known = a .. last - 1 /\ known[e - 1] = g[e - 1]
  <2>1. IsSegment(Cut(g, last), a, last - 1) BY <1>4, CutIsSegment
  <2>2. DOMAIN Cut(g, last) = a .. last - 1 BY <2>1 DEF IsSegment
  <2>3. Cut(g, last)[e - 1] = g[e - 1]
    <3>1. \A t \in DOMAIN Cut(g, last) : Cut(g, last)[t] = g[t] BY DEF Cut
    <3> QED BY <1>4, <2>1, <3>1 DEF IsSegment
  <2> QED BY <1>8, <2>2, <2>3
<1>10. ~(e < y.instance.available) BY <1>4, <1>6
<1>11. ~OutcomeRaises(g, y)
  <2>1. Max(Horizons) \in Nat \ {0} BY HorizonIs
  <2>2. \A i \in 0 .. Max(Horizons) - 1 : e + i \in a .. b BY <1>4, <1>5, <2>1
  <2> QED BY <1>3, <1>4, <2>2 DEF OutcomeRaises
<1>12. \A id \in DOMAIN Sessions :
         ~(/\ ~SessionSlots(known, last, e)[id].active
           /\ SessionSlots(known, last, e)[id].window.end > e)
  BY <1>4, SlotEnded
<1> QED BY <1>1, <1>3, <1>4, <1>6, <1>7, <1>9, <1>10, <1>11, <1>12 DEF Rejected

-------------------------------------------------------------------------------
(* Episodes. *)

\* The maximal intervals of T, in order.
Intervals(f, c, T) ==
  /\ IsList(f, c)
  /\ \A k \in 1 .. c : /\ f[k] = [first |-> f[k].first, last |-> f[k].last]
                       /\ f[k].first \in Int /\ f[k].last \in Int /\ f[k].first <= f[k].last
                       /\ f[k].first .. f[k].last \subseteq T
                       /\ f[k].first - 1 \notin T /\ f[k].last + 1 \notin T
  /\ \A j, k \in 1 .. c : j < k => f[j].last < f[k].first
  /\ \A t \in T : \E k \in 1 .. c : t \in f[k].first .. f[k].last

\* Each interval of one list is in the other.
LEMMA IntervalShared ==
  ASSUME NEW T \in SUBSET Int, NEW f, NEW c, NEW g, NEW d,
         Intervals(f, c, T), Intervals(g, d, T), NEW k \in 1 .. c
  PROVE  \E j \in 1 .. d : g[j] = f[k]
<1>1. PICK a, b : a = f[k].first /\ b = f[k].last OBVIOUS
<1>2. /\ f[k] = [first |-> a, last |-> b] /\ a \in Int /\ b \in Int /\ a <= b
      /\ a .. b \subseteq T /\ a - 1 \notin T /\ b + 1 \notin T
  BY <1>1 DEF Intervals
<1>3. a \in a .. b /\ a \in T BY <1>2
<1>4. PICK j \in 1 .. d : a \in g[j].first .. g[j].last BY <1>3 DEF Intervals
<1>5. PICK x, y : x = g[j].first /\ y = g[j].last OBVIOUS
<1>6. /\ g[j] = [first |-> x, last |-> y] /\ x \in Int /\ y \in Int
      /\ x .. y \subseteq T /\ x - 1 \notin T /\ y + 1 \notin T
  BY <1>5 DEF Intervals
<1>7. a \in x .. y BY <1>4, <1>5
<1>8. a = x
  <2>1. x # a => a - 1 \in x .. y BY <1>2, <1>6, <1>7
  <2> QED BY <1>2, <1>6, <2>1
<1>9. b = y
  <2>1. b < y => b + 1 \in x .. y BY <1>2, <1>6, <1>8
  <2>2. y < b => y + 1 \in a .. b BY <1>2, <1>6, <1>7, <1>8
  <2>3. ~(b < y) /\ ~(y < b) BY <1>2, <1>6, <2>1, <2>2
  <2> QED BY <1>2, <1>6, <2>3
<1> QED BY <1>2, <1>6, <1>8, <1>9

\* The list of the intervals of a set is unique.
LEMMA IntervalsUnique ==
  ASSUME NEW T \in SUBSET Int, NEW f, NEW c, NEW g, NEW d, Intervals(f, c, T), Intervals(g, d, T)
  PROVE  f = g
<1>1. /\ IsList(f, c) /\ IsList(g, d) /\ c \in Nat /\ d \in Nat
      /\ \A k \in 1 .. c : f[k].first \in Int /\ f[k].last \in Int /\ f[k].first <= f[k].last
      /\ \A k \in 1 .. d : g[k].first \in Int /\ g[k].last \in Int /\ g[k].first <= g[k].last
      /\ \A j, k \in 1 .. c : j < k => f[j].last < f[k].first
      /\ \A j, k \in 1 .. d : j < k => g[j].last < g[k].first
  BY DEF Intervals, IsList
<1>2. /\ \A j, k \in 1 .. c : j < k => f[j].first < f[k].first
      /\ \A j, k \in 1 .. d : j < k => g[j].first < g[k].first
  <2>1. ASSUME NEW j \in 1 .. c, NEW k \in 1 .. c, j < k PROVE f[j].first < f[k].first
    <3>1. PICK p, q, r : p = f[j].first /\ q = f[j].last /\ r = f[k].first OBVIOUS
    <3>2. p \in Int /\ q \in Int /\ r \in Int /\ p <= q /\ q < r BY <1>1, <2>1, <3>1
    <3> QED BY <3>1, <3>2
  <2>2. ASSUME NEW j \in 1 .. d, NEW k \in 1 .. d, j < k PROVE g[j].first < g[k].first
    <3>1. PICK p, q, r : p = g[j].first /\ q = g[j].last /\ r = g[k].first OBVIOUS
    <3>2. p \in Int /\ q \in Int /\ r \in Int /\ p <= q /\ q < r BY <1>1, <2>2, <3>1
    <3> QED BY <3>1, <3>2
  <2> QED BY <2>1, <2>2
<1>3. \A k \in 1 .. c : \E j \in 1 .. d : g[j] = f[k] BY IntervalShared
<1>4. \A k \in 1 .. d : \E j \in 1 .. c : f[j] = g[k] BY IntervalShared
<1>5. \A k \in 1 .. c : k \in 1 .. d /\ f[k] = g[k]
  <2> DEFINE B == {k \in 1 .. c : ~(k \in 1 .. d /\ f[k] = g[k])}
  <2> SUFFICES ASSUME B # {} PROVE FALSE OBVIOUS
  <2>1. PICK k \in B : \A j \in B : k <= j
    <3>1. B \in SUBSET Nat OBVIOUS
    <3> HIDE DEF B
    <3> QED BY <3>1, LeastNatural
  <2>2. k \in 1 .. c /\ \A j \in 1 .. k - 1 : j \in 1 .. d /\ f[j] = g[j]
    <3>1. \A j \in 1 .. k - 1 : j \in 1 .. c /\ ~(k <= j) BY <1>1
    <3> QED BY <2>1, <3>1
  <2>3. PICK j \in 1 .. d : g[j] = f[k] BY <1>3, <2>2
  <2>4. ~(j < k)
    <3> SUFFICES ASSUME j < k PROVE FALSE OBVIOUS
    <3>1. j \in 1 .. k - 1 /\ j \in 1 .. c BY <1>1, <2>2
    <3>2. f[j] = f[k] BY <2>2, <2>3, <3>1
    <3>3. f[j].first < f[k].first /\ f[k].first \in Int BY <1>1, <1>2, <2>2, <3>1
    <3> QED BY <3>2, <3>3
  <2>5. j # k BY <2>1, <2>3
  <2>6. k < j /\ k \in 1 .. d BY <1>1, <2>2, <2>4, <2>5
  <2>7. PICK i \in 1 .. c : f[i] = g[k] BY <1>4, <2>6
  <2>8. g[k].first < g[j].first /\ g[k].first \in Int /\ g[j].first \in Int BY <1>1, <1>2, <2>6
  <2>9. f[i].first < f[k].first /\ f[i].first \in Int /\ f[k].first \in Int BY <2>3, <2>7, <2>8
  <2>10. ~(k < i) /\ k # i
    <3>1. k < i => f[k].first < f[i].first BY <1>2, <2>2
    <3> QED BY <2>9, <3>1
  <2>11. i \in 1 .. k - 1 BY <1>1, <2>2, <2>10
  <2>12. g[i] = g[k] /\ i \in 1 .. d /\ i < k BY <2>2, <2>7, <2>11
  <2>13. g[i].first < g[k].first BY <1>2, <2>6, <2>12
  <2> QED BY <2>8, <2>12, <2>13
<1>6. c = d
  <2> SUFFICES ASSUME c # d PROVE FALSE OBVIOUS
  <2>1. c <= d
    <3>1. c = 0 \/ c \in 1 .. c BY <1>1
    <3> QED BY <1>1, <1>5, <3>1
  <2>2. c + 1 \in 1 .. d BY <1>1, <2>1
  <2>3. PICK i \in 1 .. c : f[i] = g[c + 1] BY <1>4, <2>2
  <2>4. g[i] = g[c + 1] /\ i \in 1 .. d /\ i < c + 1 BY <1>1, <1>5, <2>3
  <2>5. g[i].first < g[c + 1].first /\ g[c + 1].first \in Int BY <1>1, <1>2, <2>2, <2>4
  <2> QED BY <2>4, <2>5
<1> QED BY <1>1, <1>5, <1>6, ListsEqual

\* A touched bar after all of the others joins the episodes.
LEMMA EpisodeJoins ==
  ASSUME NEW T \in SUBSET Int, NEW f, NEW c, Intervals(f, c, T),
         NEW i \in Int, \A t \in T : t < i
  PROVE  \E d : Intervals(JoinEpisode(f, i), d, T \union {i})
<1> DEFINE U == T \union {i}
<1>1. /\ IsList(f, c) /\ c \in Nat
      /\ \A k \in 1 .. c : /\ f[k] = [first |-> f[k].first, last |-> f[k].last]
                           /\ f[k].first \in Int /\ f[k].last \in Int /\ f[k].first <= f[k].last
                           /\ f[k].first .. f[k].last \subseteq T
                           /\ f[k].first - 1 \notin T /\ f[k].last + 1 \notin T
      /\ \A j, k \in 1 .. c : j < k => f[j].last < f[k].first
      /\ \A t \in T : \E k \in 1 .. c : t \in f[k].first .. f[k].last
  BY DEF Intervals, IsList
<1>2. f \in Seq({f[k] : k \in 1 .. c}) /\ Len(f) = c /\ DOMAIN f = 1 .. c BY <1>1, ListIsSequence
<1>3. f # <<>> <=> c # 0
  <2>1. f = <<>> => c = 0 BY <1>2
  <2>2. c = 0 => f = <<>> BY <1>2, EmptySeq
  <2> QED BY <2>1, <2>2
<1>4. \A k \in 1 .. c : /\ f[k].last < i /\ f[k].first - 1 \notin U
                        /\ k < c => f[k].last + 1 \notin U
  <2> TAKE k \in 1 .. c
  <2>1. PICK a, b : a = f[k].first /\ b = f[k].last OBVIOUS
  <2>2. a \in Int /\ b \in Int /\ a <= b /\ a .. b \subseteq T /\ a - 1 \notin T /\ b + 1 \notin T
    BY <1>1, <2>1
  <2>3. b \in a .. b BY <2>2
  <2>4. b < i BY <2>2, <2>3
  <2>5. a - 1 \notin U BY <2>2, <2>4
  <2>6. ASSUME k < c PROVE b + 1 \notin U
    <3>1. k + 1 \in 1 .. c /\ k < k + 1 BY <1>1, <2>6
    <3>2. PICK x, y : x = f[k + 1].first /\ y = f[k + 1].last OBVIOUS
    <3>3. x \in Int /\ y \in Int /\ x <= y /\ x .. y \subseteq T /\ b < x BY <1>1, <2>1, <3>1, <3>2
    <3>4. x \in x .. y BY <3>3
    <3>5. b + 1 < i \/ b + 1 = i BY <2>2, <2>4
    <3>6. x < i BY <3>3, <3>4
    <3> QED BY <2>2, <3>3, <3>6
  <2> QED BY <2>1, <2>4, <2>5, <2>6
<1>5. CASE f # <<>> /\ f[Len(f)].last = i - 1
  <2>1. c \in 1 .. c /\ f[c].last = i - 1 BY <1>1, <1>2, <1>3, <1>5
  <2>2. PICK a : a = f[c].first OBVIOUS
  <2>3. a \in Int /\ a <= i - 1 /\ a .. i - 1 \subseteq T /\ a - 1 \notin U BY <1>1, <1>4, <2>1, <2>2
  <2>4. PICK e : e = [first |-> a, last |-> i] OBVIOUS
  <2>5. [f[c] EXCEPT !.last = i] = e
    <3>1. f[c] = [first |-> a, last |-> i - 1] BY <1>1, <2>1, <2>2
    <3> QED BY <2>4, <3>1
  <2>6. PICK g : g = [k \in 1 .. c |-> IF k = c THEN e ELSE f[k]] OBVIOUS
  <2>7. JoinEpisode(f, i) = [f EXCEPT ![c].last = i] BY <1>2, <1>5 DEF JoinEpisode
  <2>8. [f EXCEPT ![c].last = i] = g BY <1>2, <2>1, <2>5, <2>6
  <2>9. IsList(g, c) BY <1>1, <2>6 DEF IsList
  <2>10. g[c] = e /\ g[c].first = a /\ g[c].last = i BY <2>1, <2>4, <2>6
  <2>11. \A k \in 1 .. c : k # c => g[k] = f[k] /\ k < c BY <1>1, <2>6
  <2>12. ASSUME NEW k \in 1 .. c
         PROVE  /\ g[k] = [first |-> g[k].first, last |-> g[k].last]
                /\ g[k].first \in Int /\ g[k].last \in Int /\ g[k].first <= g[k].last
                /\ g[k].first .. g[k].last \subseteq U
                /\ g[k].first - 1 \notin U /\ g[k].last + 1 \notin U
    <3>1. CASE k = c
      <4>1. a .. i \subseteq U
        <5>1. \A t \in a .. i : t \in a .. i - 1 \/ t = i BY <2>3
        <5> QED BY <2>3, <5>1
      <4>2. i + 1 \notin U
        <5>1. \A t \in T : t \in Int /\ t < i OBVIOUS
        <5>2. i + 1 # i /\ ~(i + 1 < i) OBVIOUS
        <5> QED BY <5>1, <5>2
      <4>3. g[k] = [first |-> a, last |-> i] BY <2>4, <2>10, <3>1
      <4>4. g[k].first = a /\ g[k].last = i BY <4>3
      <4> HIDE DEF U
      <4> QED BY <2>3, <4>1, <4>2, <4>3, <4>4
    <3>2. CASE k # c
      <4>1. g[k] = f[k] /\ k < c BY <2>11, <3>2
      <4>2. f[k].first .. f[k].last \subseteq U BY <1>1
      <4> QED BY <1>1, <1>4, <4>1, <4>2
    <3> QED BY <3>1, <3>2
  <2>13. \A j, k \in 1 .. c : j < k => g[j].last < g[k].first
    <3> SUFFICES ASSUME NEW j \in 1 .. c, NEW k \in 1 .. c, j < k PROVE g[j].last < g[k].first OBVIOUS
    <3>1. j # c BY <1>1
    <3>2. g[j] = f[j] BY <2>11, <3>1
    <3>3. g[k].first = f[k].first
      <4>1. CASE k = c BY <2>2, <2>10, <4>1
      <4>2. CASE k # c BY <2>11, <4>2
      <4> QED BY <4>1, <4>2
    <3>4. f[j].last < f[k].first BY <1>1
    <3> QED BY <3>2, <3>3, <3>4
  <2>14. \A t \in U : \E k \in 1 .. c : t \in g[k].first .. g[k].last
    <3> SUFFICES ASSUME NEW t \in U PROVE \E k \in 1 .. c : t \in g[k].first .. g[k].last OBVIOUS
    <3>1. CASE t = i
      <4>1. t \in a .. i BY <2>3, <3>1
      <4>2. t \in g[c].first .. g[c].last BY <2>10, <4>1
      <4> QED BY <2>1, <4>2
    <3>2. CASE t # i
      <4>1. t \in T BY <3>2
      <4>2. PICK k \in 1 .. c : t \in f[k].first .. f[k].last BY <1>1, <4>1
      <4>3. CASE k = c
        <5>1. t \in a .. i - 1 BY <2>1, <2>2, <4>2, <4>3
        <5>2. t \in a .. i BY <5>1
        <5>3. t \in g[c].first .. g[c].last BY <2>10, <5>2
        <5> QED BY <2>1, <5>3
      <4>4. CASE k # c
        <5>1. g[k] = f[k] BY <2>11, <4>4
        <5> QED BY <4>2, <5>1
      <4> QED BY <4>3, <4>4
    <3> QED BY <3>1, <3>2
  <2> HIDE DEF U
  <2>15. Intervals(g, c, U) BY <2>9, <2>12, <2>13, <2>14 DEF Intervals
  <2> QED BY <2>7, <2>8, <2>15 DEF U
<1>6. CASE ~(f # <<>> /\ f[Len(f)].last = i - 1)
  <2>1. PICK e : e = [first |-> i, last |-> i] OBVIOUS
  <2>2. PICK g : g = Append(f, e) OBVIOUS
  <2>3. JoinEpisode(f, i) = g BY <1>6, <2>1, <2>2 DEF JoinEpisode
  <2>4. Begins(f, c, g, c + 1) /\ g[c + 1] = e
    <3>1. IsList(f, c) BY <1>1
    <3>2. Lengthens(f, c, g, e) BY <2>2, <3>1, AppendBegins
    <3> QED BY <3>2 DEF Lengthens
  <2>5. IsList(g, c + 1) /\ c + 1 \in 1 .. c + 1 BY <1>1, <2>4 DEF Begins, IsList
  <2>6. g[c + 1].first = i /\ g[c + 1].last = i BY <2>1, <2>4
  <2>7. \A k \in 1 .. c + 1 : k # c + 1 => g[k] = f[k] /\ k \in 1 .. c BY <1>1, <2>4 DEF Begins
  <2>8. i - 1 \notin T
    <3> SUFFICES ASSUME i - 1 \in T PROVE FALSE OBVIOUS
    <3>1. PICK k \in 1 .. c : i - 1 \in f[k].first .. f[k].last BY <1>1
    <3>2. f[k].last < i /\ f[k].last \in Int /\ f[k].first \in Int BY <1>1, <1>4
    <3>3. f[k].last = i - 1 BY <3>1, <3>2
    <3>4. k # c
      <4>1. c # 0 BY <1>1
      <4> QED BY <1>2, <1>3, <1>6, <3>3, <4>1
    <3>5. k < c BY <1>1, <3>4
    <3>6. f[k].last + 1 \notin U BY <1>4, <3>5
    <3>7. (i - 1) + 1 = i OBVIOUS
    <3> QED BY <3>3, <3>6, <3>7
  <2>9. \A k \in 1 .. c : f[k].last + 1 \notin U
    <3> SUFFICES ASSUME NEW k \in 1 .. c, f[k].last + 1 \in U PROVE FALSE OBVIOUS
    <3>1. f[k].last \in Int /\ f[k].last + 1 \notin T BY <1>1
    <3>2. f[k].last + 1 = i BY <3>1
    <3>3. f[k].last = i - 1 BY <3>1, <3>2
    <3>4. f[k].first .. f[k].last \subseteq T /\ f[k].first \in Int /\ f[k].first <= f[k].last BY <1>1
    <3>5. f[k].last \in f[k].first .. f[k].last BY <3>1, <3>4
    <3> QED BY <2>8, <3>3, <3>4, <3>5
  <2>10. ASSUME NEW k \in 1 .. c + 1
         PROVE  /\ g[k] = [first |-> g[k].first, last |-> g[k].last]
                /\ g[k].first \in Int /\ g[k].last \in Int /\ g[k].first <= g[k].last
                /\ g[k].first .. g[k].last \subseteq U
                /\ g[k].first - 1 \notin U /\ g[k].last + 1 \notin U
    <3>1. CASE k = c + 1
      <4>1. i .. i \subseteq U /\ i <= i
        <5>1. \A t \in i .. i : t = i OBVIOUS
        <5> QED BY <5>1
      <4>2. i + 1 \notin U /\ i - 1 \notin U
        <5>1. \A t \in T : t \in Int /\ t < i OBVIOUS
        <5>2. i + 1 # i /\ ~(i + 1 < i) /\ i - 1 # i OBVIOUS
        <5> QED BY <2>8, <5>1, <5>2
      <4>3. g[k] = [first |-> i, last |-> i] BY <2>1, <2>4, <3>1
      <4>4. g[k].first = i /\ g[k].last = i BY <4>3
      <4> HIDE DEF U
      <4> QED BY <4>1, <4>2, <4>3, <4>4
    <3>2. CASE k # c + 1
      <4>1. g[k] = f[k] /\ k \in 1 .. c BY <2>7, <3>2
      <4>2. f[k].first .. f[k].last \subseteq U BY <1>1, <4>1
      <4> QED BY <1>1, <1>4, <2>9, <4>1, <4>2
    <3> QED BY <3>1, <3>2
  <2>11. \A j, k \in 1 .. c + 1 : j < k => g[j].last < g[k].first
    <3> SUFFICES ASSUME NEW j \in 1 .. c + 1, NEW k \in 1 .. c + 1, j < k PROVE g[j].last < g[k].first
      OBVIOUS
    <3>1. j # c + 1 BY <1>1
    <3>2. g[j] = f[j] /\ j \in 1 .. c BY <2>7, <3>1
    <3>3. CASE k = c + 1 BY <1>4, <2>6, <3>2, <3>3
    <3>4. CASE k # c + 1
      <4>1. g[k] = f[k] /\ k \in 1 .. c BY <2>7, <3>4
      <4>2. f[j].last < f[k].first BY <1>1, <3>2, <4>1
      <4> QED BY <3>2, <4>1, <4>2
    <3> QED BY <3>3, <3>4
  <2>12. \A t \in U : \E k \in 1 .. c + 1 : t \in g[k].first .. g[k].last
    <3> SUFFICES ASSUME NEW t \in U PROVE \E k \in 1 .. c + 1 : t \in g[k].first .. g[k].last OBVIOUS
    <3>1. CASE t = i
      <4>1. t \in i .. i BY <3>1
      <4>2. t \in g[c + 1].first .. g[c + 1].last BY <2>6, <4>1
      <4> QED BY <2>5, <4>2
    <3>2. CASE t # i
      <4>1. t \in T BY <3>2
      <4>2. PICK k \in 1 .. c : t \in f[k].first .. f[k].last BY <1>1, <4>1
      <4>3. k \in 1 .. c + 1 /\ k # c + 1 BY <1>1
      <4>4. g[k] = f[k] BY <2>7, <4>3
      <4> QED BY <4>2, <4>3, <4>4
    <3> QED BY <3>1, <3>2
  <2> HIDE DEF U
  <2>13. Intervals(g, c + 1, U) BY <2>5, <2>10, <2>11, <2>12 DEF Intervals
  <2> QED BY <2>3, <2>13 DEF U
<1> QED BY <1>5, <1>6

TouchesOf(touched) == [touched |-> touched]

LEMMA TouchEpisodesIsPass ==
  ASSUME NEW history, NEW touched, touched = InOrder({i \in DOMAIN history : history[i].touched})
  PROVE  \E run : /\ Pass(run, "episodes", TouchesOf(touched), <<>>, 0)
                  /\ TouchEpisodes(history) = run[Len(touched)]
<1> DEFINE form(f) == f = [n \in Nat |-> IF n = 0 THEN <<>> ELSE JoinEpisode(f[n - 1], touched[n])]
           run == CHOOSE f : form(f)
<1>1. \A f : form(f) <=> Pass(f, "episodes", TouchesOf(touched), <<>>, 0)
  <2> TAKE f
  <2>1. \A n \in Nat : n <= 0 <=> n = 0 OBVIOUS
  <2>2. \A n \in Nat : Grow("episodes", TouchesOf(touched), f[n - 1], n) = JoinEpisode(f[n - 1], touched[n])
    BY DEF Grow, TouchesOf
  <2>3. [n \in Nat |-> IF n = 0 THEN <<>> ELSE JoinEpisode(f[n - 1], touched[n])]
          = [n \in Nat |-> IF n <= 0 THEN <<>> ELSE Grow("episodes", TouchesOf(touched), f[n - 1], n)]
    BY <2>1, <2>2
  <2> QED BY <2>3 DEF Pass
<1>2. \E f : form(f) BY <1>1, PassExists
<1>3. TouchEpisodes(history) = run[Len(touched)] BY DEF TouchEpisodes
<1> HIDE DEF form
<1>4. form(run) BY <1>2
<1> QED BY <1>1, <1>3, <1>4

\* The episodes of a history are the maximal intervals of its touched bars.
LEMMA EpisodesAreIntervals ==
  ASSUME NEW history, NEW n, IsList(history, n)
  PROVE  \E c : Intervals(TouchEpisodes(history), c, {i \in 1 .. n : history[i].touched})
<1> DEFINE T == {i \in DOMAIN history : history[i].touched}
           Upto(touched, k) == {touched[j] : j \in 1 .. k}
<1>1. DOMAIN history = 1 .. n /\ n \in Nat BY ListIsSequence DEF IsList
<1>2. T \in SUBSET Int /\ IsFiniteSet(T) /\ T = {i \in 1 .. n : history[i].touched}
  <2>1. T \subseteq 1 .. n BY <1>1
  <2>2. IsFiniteSet(1 .. n) BY <1>1, FS_Interval
  <2> QED BY <1>1, <2>1, <2>2, FS_Subset
<1>3. PICK touched, m : touched = InOrder(T) /\ m = Cardinality(T) OBVIOUS
<1>4. PICK run : /\ Pass(run, "episodes", TouchesOf(touched), <<>>, 0)
                 /\ TouchEpisodes(history) = run[Len(touched)]
  BY <1>3, TouchEpisodesIsPass
<1> HIDE DEF T
<1>5. /\ IsList(touched, m) /\ m \in Nat
      /\ \A k \in 1 .. m : touched[k] \in T /\ touched[k] \in Int
      /\ \A x \in T : \E k \in 1 .. m : touched[k] = x
      /\ \A j, k \in 1 .. m : j < k => touched[j] < touched[k]
  <2>1. /\ IsList(touched, m)
        /\ \A k \in 1 .. m : touched[k] \in T
        /\ \A x \in T : Rank(T, x) + 1 \in 1 .. m /\ touched[Rank(T, x) + 1] = x
        /\ \A j, k \in 1 .. m : j < k => touched[j] < touched[k]
    BY <1>2, <1>3, InOrderLists
  <2>2. \A x \in T : \E k \in 1 .. m : touched[k] = x BY <2>1
  <2>3. \A k \in 1 .. m : touched[k] \in Int BY <1>2, <2>1
  <2> QED BY <2>1, <2>2, <2>3 DEF IsList
<1>6. Len(touched) = m BY <1>5, ListIsSequence
<1>7. \A k \in 0 .. m : \E c : Intervals(run[k], c, Upto(touched, k))
  <2> DEFINE B == {k \in 0 .. m : ~ \E c : Intervals(run[k], c, Upto(touched, k))}
  <2> SUFFICES ASSUME B # {} PROVE FALSE OBVIOUS
  <2>1. PICK k \in B : \A j \in B : k <= j
    <3>1. B \in SUBSET Nat BY <1>5
    <3> HIDE DEF B
    <3> QED BY <3>1, LeastNatural
  <2>2. run[k] = IF k <= 0 THEN <<>> ELSE Grow("episodes", TouchesOf(touched), run[k - 1], k)
    <3>1. k \in Nat BY <1>5, <2>1
    <3> QED BY <1>4, <3>1 DEF Pass
  <2>3. CASE k = 0
    <3>1. run[k] = <<>> /\ 1 .. k = {} BY <2>2, <2>3
    <3>2. Upto(touched, k) = {} BY <3>1
    <3>3. IsList(<<>>, 0) BY DEF IsList
    <3>4. Intervals(<<>>, 0, {}) BY <3>3 DEF Intervals
    <3> QED BY <2>1, <3>1, <3>2, <3>4
  <2>4. CASE k # 0
    <3>1. k \in 1 .. m /\ k - 1 \in 0 .. m /\ ~(k <= k - 1) /\ ~(k <= 0) BY <1>5, <2>1, <2>4
    <3>2. PICK c : Intervals(run[k - 1], c, Upto(touched, k - 1)) BY <2>1, <3>1
    <3>3. PICK i : i = touched[k] OBVIOUS
    <3>4. run[k] = JoinEpisode(run[k - 1], i) BY <2>2, <3>1, <3>3 DEF Grow, TouchesOf
    <3>5. \A j \in 1 .. k - 1 : j \in 1 .. m /\ j < k BY <1>5, <3>1
    <3>6. Upto(touched, k - 1) \in SUBSET Int /\ i \in Int BY <1>5, <3>1, <3>3, <3>5
    <3>7. \A t \in Upto(touched, k - 1) : t < i BY <1>5, <3>1, <3>3, <3>5
    <3>8. Upto(touched, k) = Upto(touched, k - 1) \union {i}
      <4>1. 1 .. k = (1 .. k - 1) \union {k} BY <1>5, <3>1
      <4> QED BY <3>3, <4>1
    <3>9. PICK f, U : f = run[k - 1] /\ U = Upto(touched, k - 1) OBVIOUS
    <3>10. Intervals(f, c, U) /\ U \in SUBSET Int /\ \A t \in U : t < i BY <3>2, <3>6, <3>7, <3>9
    <3>11. \E d : Intervals(JoinEpisode(f, i), d, U \union {i}) BY <3>6, <3>10, EpisodeJoins
    <3> QED BY <2>1, <3>4, <3>8, <3>9, <3>11
  <2> QED BY <2>3, <2>4
<1>8. Upto(touched, m) = T BY <1>5
<1>9. m \in 0 .. m BY <1>5
<1> QED BY <1>2, <1>4, <1>6, <1>7, <1>8, <1>9

\* The states of a run are equal, and differ from those beside it.
LEMMA RunsAreMaximal ==
  ASSUME NEW states, NEW n, IsList(states, n), NEW p, p = Cardinality(Starts(states))
  PROVE  LET runs == StateRuns(states)
         IN  /\ IsList(runs, p)
             /\ \A k \in 1 .. p :
                  /\ runs[k].first \in 1 .. n /\ runs[k].last \in 1 .. n /\ runs[k].first <= runs[k].last
                  /\ \A i \in runs[k].first .. runs[k].last : states[i] = runs[k].state
                  /\ runs[k].first # 1 => states[runs[k].first - 1] # runs[k].state
                  /\ runs[k].last # n => states[runs[k].last + 1] # runs[k].state
             /\ \A j, k \in 1 .. p : j < k => runs[j].last < runs[k].first
             /\ \A i \in 1 .. n : \E k \in 1 .. p : i \in runs[k].first .. runs[k].last
<1> DEFINE S == Starts(states)
           starts == InOrder(S)
           runs == StateRuns(states)
           end(k) == IF k < p THEN starts[k + 1] - 1 ELSE n
<1>1. n \in Nat /\ DOMAIN states = 1 .. n BY ListIsSequence DEF IsList
<1>2. /\ S \in SUBSET Int /\ IsFiniteSet(S) /\ IsList(runs, p) /\ p \in Nat
      /\ \A k \in 1 .. p : /\ starts[k] \in S /\ starts[k] \in 1 .. n
                           /\ runs[k] = [state |-> states[starts[k]], first |-> starts[k], last |-> end(k)]
  BY RunsList DEF IsList
<1>3. /\ \A x \in S : \E k \in 1 .. p : starts[k] = x
      /\ \A j, k \in 1 .. p : j < k => starts[j] < starts[k]
  <2>1. \A x \in S : Rank(S, x) + 1 \in 1 .. p /\ starts[Rank(S, x) + 1] = x BY <1>2, InOrderLists
  <2>2. \A j, k \in 1 .. p : j < k => starts[j] < starts[k] BY <1>2, InOrderLists
  <2> QED BY <2>1, <2>2
<1>4. \A i \in 1 .. n : i \in S <=> i = 1 \/ states[i] # states[i - 1] BY <1>1 DEF Starts
<1> HIDE DEF S, starts, runs
<1>5. \A k \in 1 .. p : end(k) \in 1 .. n /\ starts[k] <= end(k)
  <2> TAKE k \in 1 .. p
  <2>1. CASE k < p
    <3>1. k + 1 \in 1 .. p /\ k < k + 1 BY <1>2, <2>1
    <3>2. starts[k] \in 1 .. n /\ starts[k + 1] \in 1 .. n /\ starts[k] < starts[k + 1] BY <1>2, <1>3, <3>1
    <3> QED BY <1>1, <2>1, <3>2
  <2>2. CASE ~(k < p)
    <3>1. starts[k] \in 1 .. n BY <1>2
    <3> QED BY <1>1, <2>2, <3>1
  <2> QED BY <2>1, <2>2
<1>6. \A k \in 1 .. p : runs[k].state = states[starts[k]] /\ runs[k].first = starts[k] /\ runs[k].last = end(k)
  <2> TAKE k \in 1 .. p
  <2>1. PICK e : e = end(k) OBVIOUS
  <2>2. runs[k] = [state |-> states[starts[k]], first |-> starts[k], last |-> e] BY <1>2, <2>1
  <2> QED BY <2>1, <2>2
<1>7. \A k \in 1 .. p, i \in 1 .. n : starts[k] < i /\ i <= end(k) => i \notin S
  <2> SUFFICES ASSUME NEW k \in 1 .. p, NEW i \in 1 .. n, starts[k] < i, i <= end(k), i \in S PROVE FALSE
    OBVIOUS
  <2>1. PICK j \in 1 .. p : starts[j] = i BY <1>3
  <2>2. ~(j < k) /\ j # k
    <3>1. starts[k] \in Int /\ starts[j] \in Int BY <1>2
    <3>2. j < k => starts[j] < starts[k] BY <1>3
    <3> QED BY <2>1, <3>1, <3>2
  <2>3. k < j /\ k < p /\ k + 1 \in 1 .. p BY <1>2, <2>2
  <2>4. i <= starts[k + 1] - 1 /\ starts[k + 1] \in Int BY <1>2, <2>3
  <2>5. k + 1 < j => starts[k + 1] < starts[j] BY <1>3, <2>3
  <2>6. j = k + 1 \/ k + 1 < j BY <1>2, <2>3
  <2> QED BY <2>1, <2>4, <2>5, <2>6
<1>8. ASSUME NEW k \in 1 .. p PROVE \A i \in starts[k] .. end(k) : states[i] = states[starts[k]]
  <2> DEFINE B == {i \in starts[k] .. end(k) : states[i] # states[starts[k]]}
  <2> SUFFICES ASSUME B # {} PROVE FALSE OBVIOUS
  <2>0. starts[k] \in 1 .. n /\ end(k) \in 1 .. n BY <1>2, <1>5
  <2> HIDE DEF end
  <2>1. PICK i \in B : \A j \in B : i <= j
    <3>1. B \in SUBSET Nat BY <2>0
    <3> HIDE DEF B
    <3> QED BY <3>1, LeastNatural
  <2>2. i \in 1 .. n /\ starts[k] < i /\ i <= end(k)
    <3>1. i \in starts[k] .. end(k) /\ states[i] # states[starts[k]] BY <2>1
    <3>2. PICK x, y : x = starts[k] /\ y = end(k) OBVIOUS
    <3>3. x \in 1 .. n /\ y \in 1 .. n /\ i \in x .. y /\ i # x BY <2>0, <3>1, <3>2
    <3>4. i \in 1 .. n /\ x < i /\ i <= y BY <1>1, <3>3
    <3> QED BY <3>2, <3>4
  <2>3. i - 1 \in starts[k] .. end(k) /\ ~(i <= i - 1) BY <2>0, <2>2
  <2>4. states[i - 1] = states[starts[k]] BY <2>1, <2>3
  <2>5. i \in S BY <1>4, <2>1, <2>2, <2>4
  <2> QED BY <1>7, <2>2, <2>5
<1>9. ASSUME NEW k \in 1 .. p PROVE starts[k] # 1 => states[starts[k] - 1] # states[starts[k]]
  BY <1>2, <1>4
<1>10. ASSUME NEW k \in 1 .. p, end(k) # n PROVE states[end(k) + 1] # states[starts[k]]
  <2>1. k < p /\ k + 1 \in 1 .. p /\ k < k + 1 BY <1>2, <1>10
  <2>2. starts[k + 1] \in 1 .. n /\ starts[k] \in 1 .. n /\ starts[k] < starts[k + 1] /\ starts[k + 1] \in S
    BY <1>2, <1>3, <2>1
  <2>3. starts[k + 1] # 1 BY <2>2
  <2>4. states[starts[k + 1]] # states[starts[k + 1] - 1] BY <1>4, <2>2, <2>3
  <2>5. end(k) = starts[k + 1] - 1 /\ end(k) + 1 = starts[k + 1] BY <2>1, <2>2
  <2>6. end(k) \in starts[k] .. end(k) BY <2>2, <2>5
  <2>7. states[end(k)] = states[starts[k]] BY <1>8, <2>6
  <2> QED BY <2>4, <2>5, <2>7
<1>11. \A j, k \in 1 .. p : j < k => end(j) < starts[k]
  <2> SUFFICES ASSUME NEW j \in 1 .. p, NEW k \in 1 .. p, j < k PROVE end(j) < starts[k] OBVIOUS
  <2>1. j < p /\ j + 1 \in 1 .. p /\ (j + 1 = k \/ j + 1 < k) BY <1>2
  <2>2. end(j) = starts[j + 1] - 1 /\ starts[j + 1] \in Int /\ starts[k] \in Int BY <1>2, <2>1
  <2>3. j + 1 < k => starts[j + 1] < starts[k] BY <1>3, <2>1
  <2> QED BY <2>1, <2>2, <2>3
<1>12. ASSUME NEW i \in 1 .. n PROVE \E k \in 1 .. p : i \in starts[k] .. end(k)
  <2> DEFINE K == {k \in 1 .. p : starts[k] <= i}
  <2>1. K \in SUBSET Int /\ p \in Int /\ \A k \in K : k <= p BY <1>2
  <2>2. K # {}
    <3>1. 1 \in 1 .. n BY <1>1, <1>12
    <3>2. 1 \in S BY <1>4, <3>1
    <3>3. PICK k \in 1 .. p : starts[k] = 1 BY <1>3, <3>2
    <3>4. k \in K BY <3>3
    <3> QED BY <3>4
  <2>3. PICK k : k = Max(K) OBVIOUS
  <2>4. k \in K /\ \A j \in K : j <= k
    <3> HIDE DEF K
    <3> QED BY <2>1, <2>2, <2>3, GreatestInteger
  <2>5. k \in 1 .. p /\ starts[k] <= i /\ starts[k] \in Int BY <1>2, <2>4
  <2>6. CASE k < p
    <3>1. k + 1 \in 1 .. p /\ ~(k + 1 <= k) BY <1>2, <2>5, <2>6
    <3>2. k + 1 \notin K BY <2>4, <3>1
    <3>3. starts[k + 1] \in Int /\ ~(starts[k + 1] <= i) BY <1>2, <3>1, <3>2
    <3>4. i <= starts[k + 1] - 1 BY <3>3
    <3> QED BY <2>5, <2>6, <3>3, <3>4
  <2>7. CASE ~(k < p) BY <1>1, <2>5, <2>7
  <2> QED BY <2>6, <2>7
<1> HIDE DEF end
<1>13. \A k \in 1 .. p :
         /\ runs[k].first \in 1 .. n /\ runs[k].last \in 1 .. n /\ runs[k].first <= runs[k].last
         /\ \A i \in runs[k].first .. runs[k].last : states[i] = runs[k].state
         /\ runs[k].first # 1 => states[runs[k].first - 1] # runs[k].state
         /\ runs[k].last # n => states[runs[k].last + 1] # runs[k].state
  <2> TAKE k \in 1 .. p
  <2>1. PICK a, b, x : a = starts[k] /\ b = end(k) /\ x = states[a] OBVIOUS
  <2>2. runs[k].first = a /\ runs[k].last = b /\ runs[k].state = x BY <1>6, <2>1
  <2>3. a \in 1 .. n /\ b \in 1 .. n /\ a <= b BY <1>2, <1>5, <2>1
  <2>4. \A i \in a .. b : states[i] = x BY <1>8, <2>1
  <2>5. a # 1 => states[a - 1] # x BY <1>9, <2>1
  <2>6. b # n => states[b + 1] # x BY <1>10, <2>1
  <2> QED BY <2>2, <2>3, <2>4, <2>5, <2>6
<1>14. \A j, k \in 1 .. p : j < k => runs[j].last < runs[k].first BY <1>6, <1>11
<1>15. \A i \in 1 .. n : \E k \in 1 .. p : i \in runs[k].first .. runs[k].last BY <1>6, <1>12
<1> QED BY <1>2, <1>13, <1>14, <1>15 DEF runs

\* The touch runs of some states are the maximal intervals of touching bars.
LEMMA TouchRunsAreIntervals ==
  ASSUME NEW states, NEW n, IsList(states, n)
  PROVE  LET runs    == StateRuns(states)
             touches == InOrder(Touched(runs))
         IN  \E c : Intervals([j \in DOMAIN touches |-> [first |-> runs[touches[j]].first,
                                                        last  |-> runs[touches[j]].last]],
                              c, {i \in 1 .. n : states[i] = "TOUCH"})
<1> DEFINE runs == StateRuns(states)
           touches == InOrder(Touched(runs))
           T == {i \in 1 .. n : states[i] = "TOUCH"}
<1>1. PICK p : p = Cardinality(Starts(states)) OBVIOUS
<1>2. n \in Nat BY DEF IsList
<1>3. /\ IsList(runs, p) /\ p \in Nat
      /\ \A k \in 1 .. p :
           /\ runs[k].first \in 1 .. n /\ runs[k].last \in 1 .. n /\ runs[k].first <= runs[k].last
           /\ \A i \in runs[k].first .. runs[k].last : states[i] = runs[k].state
           /\ runs[k].first # 1 => states[runs[k].first - 1] # runs[k].state
           /\ runs[k].last # n => states[runs[k].last + 1] # runs[k].state
      /\ \A j, k \in 1 .. p : j < k => runs[j].last < runs[k].first
      /\ \A i \in 1 .. n : \E k \in 1 .. p : i \in runs[k].first .. runs[k].last
  <2>1. IsList(runs, p) BY <1>1, RunsAreMaximal
  <2>2. \A k \in 1 .. p :
          /\ runs[k].first \in 1 .. n /\ runs[k].last \in 1 .. n /\ runs[k].first <= runs[k].last
          /\ \A i \in runs[k].first .. runs[k].last : states[i] = runs[k].state
          /\ runs[k].first # 1 => states[runs[k].first - 1] # runs[k].state
          /\ runs[k].last # n => states[runs[k].last + 1] # runs[k].state
    BY <1>1, RunsAreMaximal
  <2>3. \A j, k \in 1 .. p : j < k => runs[j].last < runs[k].first BY <1>1, RunsAreMaximal
  <2>4. \A i \in 1 .. n : \E k \in 1 .. p : i \in runs[k].first .. runs[k].last BY <1>1, RunsAreMaximal
  <2> HIDE DEF runs
  <2> QED BY <2>1, <2>2, <2>3, <2>4 DEF IsList
<1> HIDE DEF runs
<1>4. DOMAIN runs = 1 .. p BY <1>3, ListIsSequence
<1>5. Touched(runs) \in SUBSET Int /\ IsFiniteSet(Touched(runs)) BY <1>3, PatternsList
<1>6. PICK c : c = Cardinality(Touched(runs)) OBVIOUS
<1>7. /\ IsList(touches, c) /\ c \in Nat
      /\ \A j \in 1 .. c : touches[j] \in 1 .. p /\ runs[touches[j]].state = "TOUCH"
      /\ \A k \in 1 .. p : runs[k].state = "TOUCH" => \E j \in 1 .. c : touches[j] = k
      /\ \A i, j \in 1 .. c : i < j => touches[i] < touches[j]
  <2>1. /\ IsList(touches, c)
        /\ \A j \in 1 .. c : touches[j] \in Touched(runs)
        /\ \A x \in Touched(runs) : Rank(Touched(runs), x) + 1 \in 1 .. c
                                     /\ touches[Rank(Touched(runs), x) + 1] = x
        /\ \A i, j \in 1 .. c : i < j => touches[i] < touches[j]
    BY <1>5, <1>6, InOrderLists
  <2>2. \A x \in Touched(runs) : \E j \in 1 .. c : touches[j] = x BY <2>1
  <2>3. \A k : k \in Touched(runs) <=> k \in 1 .. p /\ runs[k].state = "TOUCH" BY <1>4 DEF Touched
  <2> QED BY <2>1, <2>2, <2>3 DEF IsList
<1>8. DOMAIN touches = 1 .. c BY <1>7, ListIsSequence
<1> HIDE DEF touches
<1>9. PICK f : f = [j \in 1 .. c |-> [first |-> runs[touches[j]].first, last |-> runs[touches[j]].last]]
  OBVIOUS
<1>10. IsList(f, c) BY <1>7, <1>9 DEF IsList
<1>11. \A j \in 1 .. c : f[j] = [first |-> f[j].first, last |-> f[j].last]
                         /\ f[j].first = runs[touches[j]].first /\ f[j].last = runs[touches[j]].last
  BY <1>9
<1>12. ASSUME NEW j \in 1 .. c
       PROVE  /\ f[j] = [first |-> f[j].first, last |-> f[j].last]
              /\ f[j].first \in Int /\ f[j].last \in Int /\ f[j].first <= f[j].last
              /\ f[j].first .. f[j].last \subseteq T
              /\ f[j].first - 1 \notin T /\ f[j].last + 1 \notin T
  <2>1. PICK a, b, k : a = f[j].first /\ b = f[j].last /\ k = touches[j] OBVIOUS
  <2>2. /\ k \in 1 .. p /\ runs[k].state = "TOUCH" /\ runs[k].first = a /\ runs[k].last = b
        /\ f[j] = [first |-> a, last |-> b]
    BY <1>7, <1>11, <2>1
  <2>3. /\ a \in 1 .. n /\ b \in 1 .. n /\ a <= b
        /\ \A i \in a .. b : states[i] = "TOUCH"
        /\ a # 1 => states[a - 1] # "TOUCH"
        /\ b # n => states[b + 1] # "TOUCH"
    BY <1>3, <2>2
  <2>4. a .. b \subseteq T BY <1>2, <2>3
  <2>5. a - 1 \notin T /\ b + 1 \notin T BY <1>2, <2>3
  <2> HIDE DEF T
  <2> QED BY <2>1, <2>2, <2>3, <2>4, <2>5
<1>13. \A i, j \in 1 .. c : i < j => f[i].last < f[j].first
  <2> SUFFICES ASSUME NEW i \in 1 .. c, NEW j \in 1 .. c, i < j PROVE f[i].last < f[j].first OBVIOUS
  <2>1. touches[i] \in 1 .. p /\ touches[j] \in 1 .. p /\ touches[i] < touches[j] BY <1>7
  <2> QED BY <1>3, <1>11, <2>1
<1>14. \A t \in T : \E j \in 1 .. c : t \in f[j].first .. f[j].last
  <2> TAKE t \in T
  <2>1. PICK k \in 1 .. p : t \in runs[k].first .. runs[k].last BY <1>3
  <2>2. runs[k].state = "TOUCH" BY <1>3, <2>1
  <2>3. PICK j \in 1 .. c : touches[j] = k BY <1>7, <2>2
  <2> QED BY <1>11, <2>1, <2>3
<1> HIDE DEF T
<1>15. Intervals(f, c, T) BY <1>10, <1>12, <1>13, <1>14 DEF Intervals
<1> QED BY <1>8, <1>9, <1>15 DEF T, touches, runs

-------------------------------------------------------------------------------
(* Prices. *)

LEMMA CandleTyped ==
  ASSUME NEW k \in Candles
  PROVE  k.o \in Int /\ k.h \in Int /\ k.l \in Int /\ k.c \in Int
  BY StreamAssumption

\* The price of a level of bars is an integer.
LEMMA InstancePriced ==
  ASSUME NEW g, DOMAIN g \subseteq Int, \A t \in DOMAIN g : g[t] \in Candles, NEW e \in Int,
         NEW x \in GeometryInstances(g, e)
  PROVE  x.price \in Int
<1> DEFINE B(t) == ResolveBlock(t, Block)
           Members(b) == {t \in Completed(g, e) : B(t).start = b.start /\ B(t).end = b.end}
<1>1. PICK y \in CompletedBlocks(g, e, Block), id \in DOMAIN Levels : x.price = LevelPrice(y.candle, Levels[id])
  BY DEF GeometryInstances
<1>2. PICK b : y = [block |-> b, candle |-> Merge(g, b.start, b.end)]
  BY DEF CompletedBlocks
<1>3. b.start \in Int /\ b.end \in Int /\ b.start < b.end /\ b.start .. b.end - 1 \subseteq DOMAIN g
  <2>1. y.block = b BY <1>2
  <2> QED BY <2>1, BlockIsFrame, BlockShape
<1>4. g[b.start] \in Candles /\ g[b.end - 1] \in Candles
  <2>1. b.start \in b.start .. b.end - 1 /\ b.end - 1 \in b.start .. b.end - 1 BY <1>3
  <2> QED BY <1>3, <2>1
<1>5. PICK o, c : o = g[b.start].o /\ c = g[b.end - 1].c OBVIOUS
<1>6. o \in Int /\ c \in Int BY <1>4, <1>5, CandleTyped
<1>7. y.candle.o = o /\ y.candle.c = c BY <1>2, <1>5 DEF Merge
<1>8. PICK z : z = Levels[id] OBVIOUS
<1>9. z \in Int BY <1>8, LevelsAssumption
<1>10. x.price = o + z * (o - c) BY <1>1, <1>7, <1>8 DEF LevelPrice
<1>11. o - c \in Int BY <1>6
<1>12. z * (o - c) \in Int BY <1>9, <1>11
<1> QED BY <1>6, <1>10, <1>12

\* A bar is touched exactly when its state is that of a touch.
LEMMA TouchIsState ==
  ASSUME NEW k \in Candles, NEW price \in Int, NEW t
  PROVE  Observe(t, k, price).touched <=> RangeState(Observe(t, k, price), price) = "TOUCH"
<1>1. k.h \in Int /\ k.l \in Int BY CandleTyped
<1>2. PICK o : o = Observe(t, k, price) OBVIOUS
<1>3. PICK l, h : l = k.l /\ h = k.h /\ l \in Int /\ h \in Int BY <1>1
<1>4. o.low = l /\ o.high = h /\ (o.touched <=> l <= price /\ price <= h) BY <1>2, <1>3 DEF Observe
<1>5. CASE l <= price /\ price <= h
  <2>1. o.touched /\ ~(o.low > price) /\ ~(o.high < price) BY <1>3, <1>4, <1>5
  <2>2. RangeState(o, price) = "TOUCH" BY <2>1 DEF RangeState
  <2> QED BY <1>2, <2>1, <2>2
<1>6. CASE l > price
  <2>1. ~o.touched /\ o.low > price BY <1>3, <1>4, <1>6
  <2>2. RangeState(o, price) \in {"ABOVE", "BELOW"} BY <2>1 DEF RangeState
  <2> QED BY <1>2, <2>1, <2>2
<1>7. CASE h < price
  <2>1. ~o.touched /\ o.high < price BY <1>3, <1>4, <1>7
  <2>2. RangeState(o, price) \in {"ABOVE", "BELOW"} BY <2>1 DEF RangeState
  <2> QED BY <1>2, <2>1, <2>2
<1> QED BY <1>3, <1>5, <1>6, <1>7

ViewsAgreeOn(g, x, decision) ==
  LET history == InteractionHistory(g, x, decision)
      runs    == StateRuns(States(history, x.price))
      touches == InOrder({k \in DOMAIN runs : runs[k].state = "TOUCH"})
  IN  /\ TouchEpisodes(history) =
           [n \in DOMAIN touches |-> [first |-> runs[touches[n]].first,
                                      last  |-> runs[touches[n]].last]]
      /\ \A n \in {a.index : a \in CheckpointAnchors(x, history)} :
           \A p \in Range(TouchPatterns(runs)) : p.first > n

\* The episodes, the runs and the checkpoints of a level agree.
LEMMA ViewsAgree ==
  ASSUME NEW g, NEW a, NEW b, IsSegment(g, a, b), \A t \in a .. b : g[t] \in Candles,
         NEW x, x.available \in a .. b + 1, x.price \in Int
  PROVE  ViewsAgreeOn(g, x, b + 1)
<1> DEFINE history == InteractionHistory(g, x, b + 1)
           s == States(history, x.price)
           runs == StateRuns(s)
           touches == InOrder({k \in DOMAIN runs : runs[k].state = "TOUCH"})
<1>1. PICK n : n = (b + 1) - x.available OBVIOUS
<1>2. IsList(history, n) /\ IsList(s, n) /\ n \in Nat
  <2>1. IsList(history, n) /\ IsList(s, n) BY <1>1, HistoryLists
  <2> QED BY <2>1 DEF IsList
<1>3. \A i \in 1 .. n : history[i].touched <=> s[i] = "TOUCH"
  <2> TAKE i \in 1 .. n
  <2>1. /\ x.available + i - 1 \in a .. b
        /\ history[i] = Observe(x.available + i - 1, g[x.available + i - 1], x.price)
        /\ s[i] = RangeState(history[i], x.price)
    BY <1>1, HistoryLists
  <2>2. PICK k, t, price : k = g[x.available + i - 1] /\ t = x.available + i - 1 /\ price = x.price OBVIOUS
  <2>3. k \in Candles /\ price \in Int /\ history[i] = Observe(t, k, price) /\ s[i] = RangeState(history[i], price)
    BY <2>1, <2>2
  <2> QED BY <2>3, TouchIsState
<1> HIDE DEF history, s
<1>4. PICK T : T = {i \in 1 .. n : history[i].touched} OBVIOUS
<1>5. T = {i \in 1 .. n : s[i] = "TOUCH"} /\ T \in SUBSET Int BY <1>2, <1>3, <1>4
<1>6. runs = StateRuns(s) /\ touches = InOrder(Touched(runs)) BY DEF Touched
<1> HIDE DEF runs, touches
<1>7. TouchEpisodes(history) = [j \in DOMAIN touches |-> [first |-> runs[touches[j]].first,
                                                          last  |-> runs[touches[j]].last]]
  <2>1. PICK f, h : /\ f = TouchEpisodes(history)
                    /\ h = [j \in DOMAIN touches |-> [first |-> runs[touches[j]].first,
                                                      last  |-> runs[touches[j]].last]]
    OBVIOUS
  <2>2. \E c : Intervals(f, c, T) BY <1>2, <1>4, <2>1, EpisodesAreIntervals
  <2>3. \E d : Intervals(h, d, T)
    <3>1. \E d : Intervals([j \in DOMAIN touches |-> [first |-> runs[touches[j]].first,
                                                     last  |-> runs[touches[j]].last]],
                           d, {i \in 1 .. n : s[i] = "TOUCH"})
      BY <1>2, <1>6, TouchRunsAreIntervals DEF runs, touches, Touched
    <3> QED BY <1>5, <2>1, <3>1
  <2> QED BY <1>5, <2>1, <2>2, <2>3, IntervalsUnique
<1>8. ASSUME NEW m \in {y.index : y \in CheckpointAnchors(x, history)}, NEW p \in Range(TouchPatterns(runs))
      PROVE  p.first > m
  <2>1. m \in Untouched(history)
    <3>1. PICK k \in Untouched(history) : m = CheckpointOf(x, history, k).index BY <1>8, CheckpointsAre
    <3> QED BY <3>1 DEF CheckpointOf
  <2>2. m \in Int /\ \A i \in 1 .. m : ~history[i].touched
    <3>1. Checkpoints \subseteq Nat \ {0} BY LevelsAssumption
    <3> QED BY <2>1, <3>1 DEF Untouched
  <2>3. PICK q : q = Cardinality(Starts(s)) OBVIOUS
  <2>4. IsList(runs, q) BY <1>2, <1>6, <2>3, RunsAreMaximal
  <2>5. \A k \in 1 .. q :
          /\ runs[k].first \in 1 .. n /\ runs[k].last \in 1 .. n /\ runs[k].first <= runs[k].last
          /\ \A i \in runs[k].first .. runs[k].last : s[i] = runs[k].state
    BY <1>2, <1>6, <2>3, RunsAreMaximal
  <2>6. PICK j \in 1 .. Cardinality(Touched(runs)) : p = PatternOf(runs, q, InOrder(Touched(runs))[j], j - 1)
    BY <2>4, PatternsList
  <2>7. PICK k : k = InOrder(Touched(runs))[j] OBVIOUS
  <2>8. k \in Touched(runs) /\ k \in 1 .. q BY <2>4, <2>7, PatternsList
  <2>9. runs[k].state = "TOUCH" BY <2>8 DEF Touched
  <2>10. PICK u, v : u = runs[k].first /\ v = runs[k].last OBVIOUS
  <2>11. u \in 1 .. n /\ v \in 1 .. n /\ u <= v /\ \A i \in u .. v : s[i] = "TOUCH" BY <2>5, <2>8, <2>9, <2>10
  <2>12. u \in u .. v BY <2>11
  <2>13. history[u].touched BY <1>3, <2>11, <2>12
  <2>14. p.first = u BY <2>6, <2>7, <2>10 DEF PatternOf
  <2>15. u \notin 1 .. m BY <2>2, <2>13
  <2> QED BY <2>2, <2>11, <2>14, <2>15
<1> QED BY <1>7, <1>8 DEF ViewsAgreeOn, history, s, runs, touches

-------------------------------------------------------------------------------
(* The stream. *)

\* A history has a last bar, before the clock.
StreamInv ==
  /\ clock \in Nat
  /\ \A t \in DOMAIN bars : bars[t] \in Candles
  /\ DOMAIN bars \subseteq 0 .. clock - 1
  /\ DOMAIN bars # {} => \E m \in DOMAIN bars : \A t \in DOMAIN bars : t <= m

\* The history of a stream is finite and ends before the clock.
THEOREM StreamInvariant == Spec => []StreamInv
<1>1. Init => StreamInv
  <2> SUFFICES ASSUME Init PROVE StreamInv OBVIOUS
  <2>1. DOMAIN bars = {} /\ clock = 0 BY DEF Init
  <2> QED BY <2>1 DEF StreamInv
<1>2. ASSUME StreamInv, [Next]_vars PROVE StreamInv'
  <2>1. CASE NextBar
    <3>1. clock' = clock + 1 /\ DOMAIN bars' = DOMAIN bars \union {clock} BY <2>1 DEF NextBar
    <3>2. clock \in DOMAIN bars' /\ \A t \in DOMAIN bars' : t <= clock BY <1>2, <3>1 DEF StreamInv
    <3>3. \A t \in DOMAIN bars' : bars'[t] \in Candles
      <4>1. PICK candle \in Candles :
              bars' = [t \in DOMAIN bars \union {clock} |-> IF t = clock THEN candle ELSE bars[t]]
        BY <2>1 DEF NextBar
      <4> QED BY <1>2, <4>1 DEF StreamInv
    <3> QED BY <1>2, <3>1, <3>2, <3>3 DEF StreamInv
  <2>2. CASE MissBar
    <3>1. clock' = clock + 1 /\ bars' = bars BY <2>2 DEF MissBar
    <3> QED BY <1>2, <3>1 DEF StreamInv
  <2>3. CASE UNCHANGED vars BY <1>2, <2>3 DEF StreamInv, vars
  <2> QED BY <1>2, <2>1, <2>2, <2>3 DEF Next
<1> QED BY <1>1, <1>2, PTL DEF Spec

\* The look-up of completed windows (expected_completed_window) and of relevant
\* sessions finds the latest, whatever the zone, also where its clocks change.
THEOREM ClockFindsLatestHolds == Spec => []ClockFindsLatest
<1>1. StreamInv => ClockFindsLatest
  <2> SUFFICES ASSUME StreamInv PROVE ClockFindsLatest OBVIOUS
  <2>1. clock \in Int BY DEF StreamInv
  <2>2. ASSUME NEW f \in DOMAIN Frames
        PROVE  LET w == ExpectedCompletedWindow(clock, Frames[f])
               IN  /\ w.start < w.end /\ w.end <= clock
                   /\ \A t \in 0 .. clock :
                        LET b == ResolveBlock(t, Frames[f])
                        IN  b.start < b.end /\ b.end <= clock => b.end <= w.end
    <3>1. Frame(Frames[f]) BY FramesAreFrames
    <3> QED BY <2>1, <3>1, ExpectedHasEnded
  <2>3. \A id \in DOMAIN Sessions :
          LET w == Relevant(Sessions[id], clock)
          IN  /\ w.start <= clock
              /\ \A d \in w.date - 1 .. w.date + 2 :
                   SessionWindow(Sessions[id], d).start <= clock => d <= w.date
    BY <2>1, RelevantHasStarted
  <2> QED BY <2>2, <2>3 DEF ClockFindsLatest
<1> QED BY <1>1, StreamInvariant, PTL

\* The snapshots of a one-pass history (iter_historical_multitimeframe_snapshots)
\* know nothing that a snapshot asked for at their instant did not.
THEOREM HistoricalIsCausalHolds == Spec => []HistoricalIsCausal
<1>1. StreamInv => HistoricalIsCausal
  <2> SUFFICES ASSUME StreamInv, NEW t \in DOMAIN bars
               PROVE  /\ HistoricalSnapshots(bars)[t] = MultiTimeframeSnapshot(Cut(bars, t + 1), t + 1)
                      /\ HistoricalSnapshots(bars)[t] = MultiTimeframeSnapshot(bars, t + 1)
    BY DEF HistoricalIsCausal
  <2>1. DOMAIN bars \subseteq Int BY DEF StreamInv
  <2>2. PICK m \in DOMAIN bars : \A u \in DOMAIN bars : u <= m BY DEF StreamInv
  <2>3. AgreeBefore(bars, Cut(bars, t + 1), t + 1)
    <3>1. DOMAIN Cut(bars, t + 1) = {u \in DOMAIN bars : u < t + 1}
          /\ \A u \in DOMAIN bars : u < t + 1 => Cut(bars, t + 1)[u] = bars[u]
      BY DEF Cut
    <3> QED BY <2>1, <3>1 DEF AgreeBefore
  <2>4. AgreeBefore(bars, bars, t + 1) BY <2>1 DEF AgreeBefore
  <2>5. HistoricalSnapshots(bars)[t] = MultiTimeframeSnapshot(Cut(bars, t + 1), t + 1)
    BY <2>2, <2>3, SnapshotSettled
  <2>6. HistoricalSnapshots(bars)[t] = MultiTimeframeSnapshot(bars, t + 1)
    BY <2>2, <2>4, SnapshotSettled
  <2> QED BY <2>5, <2>6
<1> QED BY <1>1, StreamInvariant, PTL

\* A bar never revises a swing or a break (StructureNeverRevised).
THEOREM StructureNeverRevisedHolds == Spec => StructureNeverRevised
<1>1. ASSUME StreamInv, [Next]_vars, NEW g \in Segments(bars), NEW h \in Segments(bars'),
             Min(DOMAIN g) = Min(DOMAIN h)
      PROVE  /\ \A kind \in Kinds : Extends(ConfirmedSwings(Series(h), kind),
                                            ConfirmedSwings(Series(g), kind), Cardinality(DOMAIN g))
             /\ Extends(StructureBreaks(Series(h)), StructureBreaks(Series(g)), Cardinality(DOMAIN g))
  <2>1. DOMAIN bars \subseteq Int /\ clock \in Int BY <1>1 DEF StreamInv
  <2>2. DOMAIN bars' \subseteq Int /\ DOMAIN bars \subseteq DOMAIN bars'
        /\ \A t \in DOMAIN bars : bars'[t] = bars[t]
    <3>1. CASE NextBar
      <4>1. clock \notin DOMAIN bars BY <1>1 DEF StreamInv
      <4> QED BY <2>1, <3>1, <4>1 DEF NextBar
    <3>2. CASE bars' = bars BY <2>1, <3>2
    <3> QED BY <1>1, <3>1, <3>2 DEF Next, MissBar, vars
  <2>3. PICK n, m : Begins(Series(g), n, Series(h), m) /\ n = Cardinality(DOMAIN g)
    BY <1>1, <2>1, <2>2, SegmentGrows
  <2>4. ASSUME NEW kind \in Kinds PROVE Extends(ConfirmedSwings(Series(h), kind), ConfirmedSwings(Series(g), kind), n)
    BY <2>3, SwingsSettle, SettlesExtends
  <2>5. Extends(StructureBreaks(Series(h)), StructureBreaks(Series(g)), n)
    BY <2>3, BreaksSettle, SettlesExtends
  <2> QED BY <2>3, <2>4, <2>5
<1>2. StreamInv /\ [Next]_vars =>
        [\A g \in Segments(bars) : \A h \in Segments(bars') :
           Min(DOMAIN g) = Min(DOMAIN h) =>
             /\ \A kind \in Kinds : Extends(ConfirmedSwings(Series(h), kind),
                                            ConfirmedSwings(Series(g), kind), Cardinality(DOMAIN g))
             /\ Extends(StructureBreaks(Series(h)), StructureBreaks(Series(g)), Cardinality(DOMAIN g))]_bars
  BY <1>1
<1> QED BY <1>2, StreamInvariant, PTL DEF Spec, StructureNeverRevised

\* The contexts of the batch (build_discovery_market_contexts) and the snapshots
\* of the engine (MarketStateEngine.snapshot) agree, whatever the history.
THEOREM SnapshotsAgreeHolds == Spec => []SnapshotsAgree
<1>1. StreamInv => SnapshotsAgree
  <2> SUFFICES ASSUME StreamInv, NEW g \in Segments(bars), NEW i \in 1 .. Cardinality(DOMAIN g)
               PROVE  LET c == MarketContexts(g)[i]
                          s == MarketStateSnapshot(g, c.row.decision, c.row.decision)
                      IN  c.row.atr = s.atr /\ c.counts = s.counts /\ c.latest = s.latest
    BY DEF SnapshotsAgree
  <2>1. DOMAIN bars \subseteq Int BY DEF StreamInv
  <2>2. PICK a, b : IsSegment(g, a, b) /\ Cardinality(DOMAIN g) = b + 1 - a BY <2>1, SegmentShape
  <2> QED BY <2>2, SnapshotAgrees
<1> QED BY <1>1, StreamInvariant, PTL

\* The records of a history that a step finds are there after it: an anchor, its
\* contexts and its outcomes are final when the last bar of the horizon closes.
THEOREM RecordsNeverRevisedHolds == Spec => RecordsNeverRevised
<1>1. ASSUME StreamInv, [Next]_vars PROVE Records(bars) \subseteq Records(bars')
  <2>1. clock \in Int /\ DOMAIN bars \subseteq Int /\ \A t \in DOMAIN bars : t < clock
    BY <1>1 DEF StreamInv
  <2>2. CASE NextBar
    <3>1. DOMAIN bars' = DOMAIN bars \union {clock} /\ \A t \in DOMAIN bars : bars'[t] = bars[t]
      BY <2>1, <2>2 DEF NextBar
    <3> QED BY <2>1, <3>1, RecordsGrow
  <2>3. CASE bars' = bars BY <2>3
  <2> QED BY <1>1, <2>2, <2>3 DEF Next, MissBar, vars
<1>2. StreamInv /\ [Next]_vars => [Records(bars) \subseteq Records(bars')]_bars BY <1>1
<1> QED BY <1>2, StreamInvariant, PTL DEF Spec, RecordsNeverRevised

\* A record knew its anchor and its predictors at its evidence instant
\* (NoLookahead).
THEOREM NoLookaheadHolds == Spec => []NoLookahead
<1>1. StreamInv => NoLookahead
  <2> SUFFICES ASSUME StreamInv, NEW g \in Segments(bars), NEW r \in SegmentRecords(g)
               PROVE  LET seen == Cut(g, r.anchor.evidence)
                      IN  /\ r.anchor \in Anchors(seen, r.anchor.evidence)
                          /\ Project(r).x = Project([r EXCEPT
                               !.context = ContextOf(seen, r.anchor.evidence, r.anchor)]).x
    BY DEF NoLookahead
  <2>1. DOMAIN bars \subseteq Int BY DEF StreamInv
  <2>2. PICK a, b : Spans(bars, a, b) /\ IsSegment(g, a, b) BY <2>1, SegmentShape
  <2>3. a \in Int /\ b \in Int /\ a <= b BY <2>2 DEF Spans
  <2>4. PICK y \in SegmentAnchors(g) : r = RecordOf(g, y) BY <2>2, <2>3, RecordsOfSegment
  <2>5. PICK context, outcomes :
          /\ context = ContextOf(Cut(g, y.evidence), y.evidence, y)
          /\ outcomes = [h \in Horizons |-> ForwardOutcome(g, y, h)]
    OBVIOUS
  <2>6. r = [anchor |-> y, context |-> context, outcomes |-> outcomes] BY <2>4, <2>5 DEF RecordOf
  <2>7. r.anchor = y /\ [r EXCEPT !.context = context] = r BY <2>6
  <2>8. y \in Anchors(g, b + 1) BY <2>2, <2>3, SegmentAnchorsAre
  <2>9. y.evidence \in a + 2 .. b + 1 BY <2>2, <2>8, AnchorShape
  <2>10. y.evidence \in a .. b + 1 /\ y.evidence \in Int /\ y.evidence <= y.evidence BY <2>3, <2>9
  <2>11. y \in Anchors(Cut(g, y.evidence), y.evidence) BY <2>2, <2>8, <2>10, AnchorsSettle
  <2> QED BY <2>5, <2>7, <2>11
<1> QED BY <1>1, StreamInvariant, PTL

\* No check rejects what the builder assembles from a segment (RecordsAssemble).
THEOREM RecordsAssembleHolds == Spec => []RecordsAssemble
<1>1. StreamInv => RecordsAssemble
  <2> SUFFICES ASSUME StreamInv, NEW g \in Segments(bars) PROVE ~AssemblyRaises(g)
    BY DEF RecordsAssemble
  <2>1. DOMAIN bars \subseteq Int BY DEF StreamInv
  <2>2. PICK a, b : Spans(bars, a, b) /\ IsSegment(g, a, b) BY <2>1, SegmentShape
  <2>3. a \in Int /\ b \in Int /\ a <= b BY <2>2 DEF Spans
  <2>4. PICK d \in a .. b + 1 : Eligible(g) = Cut(g, d) BY <2>2, <2>3, EligibleIs
  <2>5. PICK k : k = Eligible(g) OBVIOUS
  <2>6. IsSegment(k, a, d - 1) BY <2>2, <2>4, <2>5, CutIsSegment
  <2>7. DOMAIN k # {} => Max(DOMAIN k) + 1 = d
    <3>1. DOMAIN k = a .. d - 1 /\ d \in Int BY <2>3, <2>6 DEF IsSegment
    <3>2. DOMAIN k # {} => a <= d - 1 BY <2>3, <3>1
    <3>3. DOMAIN k # {} => Max(DOMAIN k) = d - 1 BY <2>6, <3>2, SegmentEnds
    <3> QED BY <3>1, <3>3
  <2>8. /\ \A x \in GeometryInstances(k, d) : ~HistoryRaises(k, x, d)
        /\ \A f \in DOMAIN Frames : ~BlocksRaise(k, d, Frames[f])
        /\ ~SessionsRaise(k, d)
    <3>1. d = (d - 1) + 1 BY <2>3
    <3> QED BY <2>6, <3>1, AggregationPasses
  <2>9. \A y \in SegmentAnchors(g) :
          ~Rejected(g, Cut(k, LastEvidence(SegmentAnchors(g))), LastEvidence(SegmentAnchors(g)), y)
    BY <2>2, <2>3, <2>5, RecordAccepted
  <2> QED BY <2>5, <2>7, <2>8, <2>9 DEF AssemblyRaises, Rejected
<1> QED BY <1>1, StreamInvariant, PTL

\* The touch episodes (touch_episode.py), the runs of states
\* (level_state_sequence.py) and the untouched checkpoints of a level claim the
\* same bars, for any candles, any levels and any history.
THEOREM LevelViewsAgreeHolds == Spec => []LevelViewsAgree
<1>1. StreamInv => LevelViewsAgree
  <2> SUFFICES ASSUME StreamInv, NEW g \in Segments(bars), NEW x \in GeometryInstances(g, Max(DOMAIN g) + 1)
               PROVE  ViewsAgreeOn(g, x, Max(DOMAIN g) + 1)
    BY DEF LevelViewsAgree, ViewsAgreeOn
  <2>1. DOMAIN bars \subseteq Int BY DEF StreamInv
  <2>2. PICK a, b : /\ Spans(bars, a, b) /\ IsSegment(g, a, b) /\ g = [t \in a .. b |-> bars[t]]
                    /\ Max(DOMAIN g) = b
    BY <2>1, SegmentShape
  <2>3. a \in Int /\ b \in Int /\ a .. b \subseteq DOMAIN bars BY <2>2 DEF Spans
  <2>4. DOMAIN g = a .. b /\ \A t \in a .. b : g[t] \in Candles BY <2>2, <2>3 DEF StreamInv
  <2>5. x \in GeometryInstances(g, b + 1) BY <2>2
  <2>6. x.price \in Int
    <3>1. DOMAIN g \subseteq Int /\ b + 1 \in Int BY <2>3, <2>4
    <3> QED BY <2>4, <2>5, <3>1, InstancePriced
  <2>7. x.available \in a .. b + 1
    <3>1. b + 1 \in a .. b + 1 BY <2>2, <2>3 DEF IsSegment
    <3>2. x.available \in a + 1 .. b + 1 BY <2>2, <2>5, <3>1, InstancesSettle
    <3> QED BY <2>3, <3>2
  <2>8. ViewsAgreeOn(g, x, b + 1) BY <2>2, <2>4, <2>6, <2>7, ViewsAgree
  <2> QED BY <2>2, <2>8
<1> QED BY <1>1, StreamInvariant, PTL
================================================================================
