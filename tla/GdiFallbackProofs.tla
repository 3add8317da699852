-------------------------- MODULE GdiFallbackProofs --------------------------
(* What GdiFallback draws and repaints fits its cursors on a canvas of any size, for *)
(* any resolution of the position.                                                   *)
EXTENDS GdiFallback, TLAPS

CanvasOK == canvas \in Canvas /\ flip \in BOOLEAN

CursorsOK ==
  /\ vertical \in BOOLEAN /\ shade \in BOOLEAN
  /\ visible \in BOOLEAN /\ position \in Fraction
  /\ seeking \in BOOLEAN /\ seek \in Fraction

(* Cached rectangles are those of the bars. *)
CacheKept == valid => lastPlay = Play /\ lastSeek = Seek

GdiInv == CanvasOK /\ CursorsOK /\ CacheKept

-----------------------------------------------------------------------------
(* Columns. *)

(* Where the reverse of a column is. *)
Reversed(c) == IF flip THEN canvas.major - 1 - c ELSE c

LEMMA CanvasFacts ==
  ASSUME CanvasOK
  PROVE  /\ canvas.major \in Nat \ {0} /\ canvas.minor \in Nat \ {0}
         /\ Columns = 0..(canvas.major - 1)
         /\ \A c \in Columns : Reversed(c) \in Columns
         /\ None \notin Columns
<1>1. canvas.major \in Extent /\ canvas.minor \in Extent
  BY DEF CanvasOK, Canvas
<1>2. canvas.major \in Nat \ {0} /\ canvas.minor \in Nat \ {0}
  BY <1>1, CanvasAssumption
<1> QED
  BY <1>2, CanvasAssumption DEF Columns, Reversed, CanvasOK

(* Division with remainder. *)
LEMMA Division ==
  ASSUME NEW d \in Nat \ {0}
  PROVE  /\ \A x \in Nat : \E q \in Nat, r \in 0..(d - 1) : x = q * d + r /\ x \div d = q
         /\ \A q \in Nat, r \in 0..(d - 1) : (q * d + r) \div d = q
<1>1. ASSUME NEW x \in Nat
      PROVE  \E q \in Nat, r \in 0..(d - 1) : x = q * d + r /\ x \div d = q
  <2>1. /\ x \div d \in Nat /\ x % d \in 0..(d - 1)
        /\ x = (x \div d) * d + (x % d)
    OBVIOUS
  <2> QED
    BY <2>1
<1>2. ASSUME NEW q \in Nat, NEW r \in 0..(d - 1) PROVE (q * d + r) \div d = q
  OBVIOUS
<1> QED
  BY <1>1, <1>2

(* A fraction of the track falls on a column, and the fraction counted from the end
   on the column counted from the end, or on the one after that. *)
LEMMA ColumnFacts ==
  ASSUME CanvasOK, NEW f \in Fraction
  PROVE  /\ Column(f) \in Columns /\ BarColumn(f) \in Columns
         /\ ~flip => BarColumn(f) = Column(f)
         /\ BarColumn(f) - Reversed(Column(f)) \in 0..1
<1>1. PICK m \in Nat \ {0} : m = canvas.major
  BY CanvasFacts
<1>2. PICK n \in Nat \ {0} : n = Steps
  BY CanvasAssumption
<1>3. f \in 0..n /\ n - f \in 0..n /\ m * f \in Nat
  BY <1>1, <1>2 DEF Fraction
<1>4. PICK q \in Nat, r \in 0..(n - 1) : m * f = q * n + r /\ (m * f) \div n = q
  BY <1>2, <1>3, Division
<1>5. q <= m /\ (q = m => r = 0)
  <2>1. q * n + r <= m * n
    BY <1>1, <1>2, <1>3, <1>4
  <2> QED
    BY <1>1, <1>2, <1>4, <2>1
<1>6. m * (n - f) = m * n - (q * n + r)
  BY <1>1, <1>2, <1>3, <1>4
<1>7. (m * (n - f)) \div n = IF r = 0 THEN m - q ELSE m - q - 1
  <2>1. CASE r = 0
    <3>1. m * (n - f) = (m - q) * n + 0 /\ m - q \in Nat
      BY <1>1, <1>2, <1>4, <1>5, <1>6, <2>1
    <3> QED
      BY <1>2, <2>1, <3>1, Division
  <2>2. CASE r # 0
    <3>1. PICK a \in Nat, b \in 0..(n - 1) : a = m - q - 1 /\ b = n - r
      BY <1>1, <1>2, <1>4, <1>5, <2>2
    <3>2. m = (a + q) + 1 /\ m * n = (a * n + q * n) + n
      BY <1>1, <1>2, <1>4, <3>1
    <3>3. m * (n - f) = a * n + b
      <4>1. PICK x, y, z \in Int : x = a * n /\ y = q * n /\ z = m * n
        BY <1>1, <1>2, <1>4, <3>1
      <4> QED
        BY <1>2, <1>4, <1>6, <3>1, <3>2, <4>1
    <3>4. (a * n + b) \div n = a
      BY <1>2, <3>1, Division
    <3> QED
      BY <2>2, <3>1, <3>3, <3>4
  <2> QED
    BY <2>1, <2>2
<1>8. /\ Column(f) = Less(m - 1, q)
      /\ Column(n - f) = Less(m - 1, IF r = 0 THEN m - q ELSE m - q - 1)
  BY <1>1, <1>2, <1>4, <1>7 DEF Column
<1>9. /\ Less(m - 1, q) \in 0..(m - 1)
      /\ Less(m - 1, IF r = 0 THEN m - q ELSE m - q - 1) \in 0..(m - 1)
      /\ Less(m - 1, IF r = 0 THEN m - q ELSE m - q - 1) - (m - 1 - Less(m - 1, q)) \in 0..1
  BY <1>1, <1>4, <1>5 DEF Less
<1> QED
  BY <1>1, <1>2, <1>8, <1>9, CanvasFacts DEF BarColumn, Reversed, CanvasOK

(* What stands in the way of a cursor. *)
LEMMA CursorFacts ==
  ASSUME CanvasOK, CursorsOK
  PROVE  /\ Points \subseteq Columns /\ Bars \subseteq Columns
         /\ ~flip => Bars = Points
         /\ \A p \in Points : \E b \in Bars : b - Reversed(p) \in 0..1
         /\ visible => /\ Play \in Bars /\ Column(position) \in Points
                       /\ Play - Reversed(Column(position)) \in 0..1
         /\ seeking => Seek \in Bars
         /\ Bars = {} <=> ~visible /\ ~seeking
         /\ Points = {} <=> ~visible /\ ~seeking
<1>1. position \in Fraction /\ seek \in Fraction /\ visible \in BOOLEAN /\ seeking \in BOOLEAN
  BY DEF CursorsOK
<1>2. /\ Column(position) \in Columns /\ BarColumn(position) \in Columns
      /\ ~flip => BarColumn(position) = Column(position)
      /\ BarColumn(position) - Reversed(Column(position)) \in 0..1
  BY <1>1, ColumnFacts
<1>3. /\ Column(seek) \in Columns /\ BarColumn(seek) \in Columns
      /\ ~flip => BarColumn(seek) = Column(seek)
      /\ BarColumn(seek) - Reversed(Column(seek)) \in 0..1
  BY <1>1, ColumnFacts
<1>4. None \notin Columns
  BY CanvasFacts
<1>5. CASE visible
  BY <1>2, <1>3, <1>4, <1>5 DEF Points, Bars, Play, Seek
<1>6. CASE ~visible
  BY <1>2, <1>3, <1>4, <1>6 DEF Points, Bars, Play, Seek
<1> QED
  BY <1>5, <1>6

-----------------------------------------------------------------------------
(* Regions. *)

(* Three numbers have a largest and a smallest one. *)
LEMMA FewOrdered ==
  ASSUME NEW a \in Int, NEW b \in Int, NEW c \in Int, NEW S, S \subseteq {a, b, c}, S # {}
  PROVE  /\ \E x \in S : \A y \in S : x >= y
         /\ \E x \in S : \A y \in S : x <= y
<1>1. \A y \in S : y = a \/ y = b \/ y = c
  OBVIOUS
<1>2. (a \in S /\ b \in S /\ c \in S) \/ a \notin S \/ b \notin S \/ c \notin S
  OBVIOUS
<1>3. CASE a \in S /\ b \in S /\ c \in S
  BY <1>1, <1>3
<1>4. ASSUME NEW p \in {a, b, c}, NEW q \in {a, b, c}, \A y \in S : y = p \/ y = q
      PROVE  /\ \E x \in S : \A y \in S : x >= y
             /\ \E x \in S : \A y \in S : x <= y
  <2>1. p \in Int /\ q \in Int
    OBVIOUS
  <2>2. PICK s \in S : s = p \/ s = q
    BY <1>4
  <2>3. CASE p \in S /\ q \in S
    BY <1>4, <2>1, <2>3
  <2>4. CASE p \notin S \/ q \notin S
    BY <1>4, <2>1, <2>2, <2>4
  <2> QED
    BY <2>3, <2>4
<1> QED
  BY <1>1, <1>2, <1>3, <1>4

(* low_bound: behind the last point before end, or 0. *)
LEMMA LowFacts ==
  ASSUME CanvasOK, CursorsOK, NEW end \in Nat
  PROVE  /\ Low(end) \in Nat
         /\ \A q \in Points : q < end => q + 1 <= Low(end)
         /\ Low(end) = 0 \/ \E q \in Points : q < end /\ Low(end) = q + 1
<1> DEFINE S == {0} \cup {p + 1 : p \in {q \in Points : q < end}}
<1>1. Column(position) \in Nat /\ Column(seek) \in Nat /\ Points \subseteq Nat
  <2>1. Column(position) \in Columns /\ Column(seek) \in Columns
    BY ColumnFacts DEF CursorsOK
  <2> QED
    BY <2>1, CanvasFacts DEF Points
<1>2. S \subseteq {0, Column(position) + 1, Column(seek) + 1} /\ S # {}
  BY DEF Points
<1>3. \E x \in S : \A y \in S : x >= y
  <2>1. PICK a, b, c \in Int :
          a = 0 /\ b = Column(position) + 1 /\ c = Column(seek) + 1
    BY <1>1
  <2>2. S \subseteq {a, b, c}
    BY <1>2, <2>1
  <2> HIDE DEF S
  <2> QED
    BY <1>2, <2>2, FewOrdered
<1>4. Low(end) \in S /\ \A y \in S : Low(end) >= y
  BY <1>3 DEF Low, Max
<1>5. S \subseteq Nat
  BY <1>1
<1>6. \A q \in Points : q < end => q + 1 \in S
  OBVIOUS
<1> QED
  BY <1>1, <1>4, <1>5, <1>6

(* A column that no region covers is that of a cursor or the next one to it, before
   it is reversed. *)
LEMMA UncoveredFacts ==
  ASSUME CanvasOK, CursorsOK, NEW c \in Columns, \A r \in Regions : ~Covers(r, c), Points # {}
  PROVE  \E p \in Points : Reversed(c) - p \in -1..1
<1>1. PICK m \in Nat \ {0} : m = canvas.major
  BY CanvasFacts
<1>2. PICK k \in 0..(m - 1) : k = Reversed(c)
  BY <1>1, CanvasFacts
<1>3. Points \subseteq 0..(m - 1)
  BY <1>1, CursorFacts, CanvasFacts
<1>4. PICK end \in Points \cup {m} : k < end /\ \A e \in Points \cup {m} : k < e => end <= e
  <2> DEFINE S == {e \in Points \cup {m} : k < e}
  <2>1. Column(position) \in Int /\ Column(seek) \in Int
    BY ColumnFacts, CanvasFacts DEF CursorsOK
  <2>2. S \subseteq {m, Column(position), Column(seek)} /\ S # {}
    BY <1>2 DEF Points
  <2>3. \E x \in S : \A y \in S : x <= y
    <3>1. PICK a, b, d \in Int : a = m /\ b = Column(position) /\ d = Column(seek)
      BY <1>1, <2>1
    <3>2. S \subseteq {a, b, d}
      BY <2>2, <3>1
    <3> HIDE DEF S
    <3> QED
      BY <2>2, <3>2, FewOrdered
  <2> QED
    BY <2>3
<1>5. end \in Nat
  BY <1>1, <1>3, <1>4
<1>6. /\ Low(end) \in Nat
      /\ Low(end) = 0 \/ \E q \in Points : q < end /\ Low(end) = q + 1
  BY <1>5, LowFacts
<1>7. CASE k \in Points
  BY <1>2, <1>7
<1>8. CASE k \notin Points
  <2>1. Low(end) <= k
    BY <1>2, <1>3, <1>4, <1>6, <1>8
  <2>2. ~(end > Low(end) + 1)
    <3>1. ASSUME end > Low(end) + 1 PROVE FALSE
      <4> DEFINE r == [low |-> Low(end), high |-> end - 1,
                       shaded |-> ~visible \/ end <= Column(position)]
      <4>1. r \in Regions
        BY <1>1, <1>4, <3>1 DEF Regions
      <4>2. Covers(r, c)
        BY <1>2, <1>4, <1>5, <2>1 DEF Covers, Reversed
      <4> QED
        BY <4>1, <4>2
    <3> QED
      BY <3>1
  <2>3. k = Low(end) /\ end = k + 1
    BY <1>2, <1>4, <1>5, <1>6, <2>1, <2>2
  <2>4. CASE \E q \in Points : q < end /\ Low(end) = q + 1
    BY <1>2, <1>3, <2>3, <2>4
  <2>5. CASE end \in Points
    BY <1>2, <1>3, <2>3, <2>5
  <2>6. CASE Low(end) = 0 /\ end = m
    <3>0. k = 0 /\ m = k + 1
      BY <2>3, <2>6, Zenon
    <3>1. m = 1 /\ k = 0
      BY <3>0
    <3>2. PICK p \in Points : TRUE
      OBVIOUS
    <3>3. p = k
      BY <1>3, <3>1, <3>2
    <3> QED
      BY <1>8, <3>3
  <2> QED
    BY <1>4, <1>6, <2>4, <2>5, <2>6
<1> QED
  BY <1>2, <1>7, <1>8

(* What a region says of the columns it covers. *)
LEMMA CoveredFacts ==
  ASSUME CanvasOK, CursorsOK, visible, NEW c \in Columns, NEW r \in Regions, Covers(r, c)
  PROVE  r.shaded <=> Reversed(c) < Column(position)
<1>1. PICK end \in Points \cup {canvas.major} :
         r = [low |-> Low(end), high |-> end - 1, shaded |-> end <= Column(position)]
  BY DEF Regions
<1>2. end \in Nat /\ Column(position) \in Nat /\ Reversed(c) \in Nat
      /\ Column(position) \in Points
  BY CursorFacts, CanvasFacts
<1>3. Low(end) <= Reversed(c) /\ Reversed(c) <= end - 1
  BY <1>1 DEF Covers, Reversed
<1>4. Column(position) < end => Column(position) + 1 <= Low(end)
  BY <1>2, LowFacts
<1>5. Low(end) \in Nat
  BY <1>2, LowFacts
<1>6. r.shaded <=> end <= Column(position)
  BY <1>1
<1>7. PICK e, l, k, p \in Nat : /\ e = end /\ l = Low(end) /\ k = Reversed(c)
                              /\ p = Column(position)
  BY <1>2, <1>5
<1>8. e <= p <=> k < p
  BY <1>3, <1>4, <1>7
<1> QED
  BY <1>6, <1>7, <1>8

-----------------------------------------------------------------------------
LEMMA GapsFit == CanvasOK /\ CursorsOK => GapsOnlyBesideBars
<1> SUFFICES ASSUME CanvasOK, CursorsOK, NEW c \in Columns, Content(c) = "untouched"
             PROVE  \E b \in Bars : b - c \in IF flip THEN -2..2 ELSE -1..1
  BY DEF GapsOnlyBesideBars
<1>1. Points # {} /\ \A r \in Regions : ~Covers(r, c)
  BY DEF Content
<1>2. PICK p \in Points : Reversed(c) - p \in -1..1
  BY <1>1, UncoveredFacts
<1>3. PICK b \in Bars : b - Reversed(p) \in 0..1
  BY CursorFacts
<1>4. b \in Int /\ c \in Int /\ p \in Int /\ canvas.major \in Int
  BY CursorFacts, CanvasFacts
<1>5. CASE flip
  BY <1>2, <1>3, <1>4, <1>5 DEF Reversed
<1>6. CASE ~flip
  BY <1>2, <1>4, <1>6, CursorFacts DEF Reversed
<1> QED
  BY <1>5, <1>6

(* Which bitmap a column comes from, if any. *)
LEMMA ShadeFits == CanvasOK /\ CursorsOK => ShadeEndsAtTheCursor
<1> SUFFICES ASSUME CanvasOK, CursorsOK, visible, NEW c \in Columns,
                    Content(c) \in {"plain", "shaded"}
             PROVE  Content(c) = "shaded" <=> shade /\ IF flip THEN c > Play ELSE c < Play
  BY DEF ShadeEndsAtTheCursor
<1>1. c \notin Bars /\ Points # {}
  BY CursorFacts DEF Content
<1>2. PICK r \in Regions : Covers(r, c)
  BY <1>1 DEF Content
<1>3. \A s \in Regions : Covers(s, c) => (s.shaded <=> Reversed(c) < Column(position))
  BY CoveredFacts
<1>4. Content(c) = "shaded" <=> shade /\ Reversed(c) < Column(position)
  BY <1>1, <1>2, <1>3 DEF Content
<1>5. /\ Play \in Columns /\ Play # c /\ Column(position) \in Columns
      /\ Play - Reversed(Column(position)) \in 0..1
      /\ ~flip => Play = Column(position)
  BY <1>1, CursorFacts, ColumnFacts DEF CursorsOK, Play
<1>6. Reversed(c) < Column(position) <=> IF flip THEN c > Play ELSE c < Play
  <2>1. PICK m \in Nat \ {0}, p, q \in Nat :
          m = canvas.major /\ p = Play /\ q = Column(position) /\ c \in 0..(m - 1)
    BY <1>5, CanvasFacts
  <2>2. CASE flip
    BY <1>5, <2>1, <2>2 DEF Reversed
  <2>3. CASE ~flip
    BY <1>5, <2>1, <2>3 DEF Reversed
  <2> QED
    BY <2>2, <2>3
<1> QED
  BY <1>4, <1>6

-----------------------------------------------------------------------------
(* The state. *)
LEMMA InitGdi == Init => GdiInv
BY CanvasAssumption DEF Init, GdiInv, CanvasOK, CursorsOK, CacheKept, Fraction

(* The messages that move a cursor and nothing else, and go to update_positions. *)
CursorMoves ==
  \/ \E f \in Fraction : MoveCursor(f)
  \/ ShowCursor \/ HideCursor
  \/ \E f \in Fraction, inside \in BOOLEAN : Drag(f, inside)

(* Every message leaves the cached rectangles right or invalid. *)
LEMMA GdiStep ==
  ASSUME GdiInv, [Next]_vars
  PROVE  GdiInv'
<1> USE CanvasAssumption DEF GdiInv, CanvasOK, CursorsOK, settings, cursors, cache, Fraction
<1>1. CASE CursorMoves
  <2>1. CanvasOK' /\ CursorsOK'
    <3>1. ASSUME NEW f \in Fraction, MoveCursor(f) PROVE CanvasOK' /\ CursorsOK'
      BY <3>1 DEF MoveCursor
    <3>2. CASE ShowCursor \/ HideCursor
      <4>1. 0 \in Fraction
        OBVIOUS
      <4>2. UNCHANGED <<settings, seeking, seek>> /\ visible' \in BOOLEAN /\ position' = 0
        BY <3>2 DEF ShowCursor, HideCursor
      <4> QED
        BY <4>1, <4>2
    <3>3. ASSUME NEW f \in Fraction, NEW inside \in BOOLEAN, Drag(f, inside)
          PROVE  CanvasOK' /\ CursorsOK'
      BY <3>3 DEF Drag
    <3> QED
      BY <1>1, <3>1, <3>2, <3>3 DEF CursorMoves
  <2>2. CacheKept'
    BY <1>1 DEF CursorMoves, MoveCursor, ShowCursor, HideCursor, Drag, UpdatePositions,
       CacheKept
  <2> QED
    BY <2>1, <2>2
<1>2. CASE (\E c \in Canvas, v \in BOOLEAN : Resize(c, v)) \/ SetFlip \/ NewData \/ SetShade
  BY <1>2 DEF Resize, SetFlip, NewData, SetShade, UpdateData, CacheKept
<1>3. CASE (\E c \in Columns : Uncover(c)) \/ Draw \/ UNCHANGED vars
  BY <1>3 DEF Uncover, Draw, vars, CacheKept, Play, Seek, BarColumn, Column
<1> QED
  BY <1>1, <1>2, <1>3 DEF Next, CursorMoves

(* In every state of every window. *)
LEMMA GdiAlways == Spec => []GdiInv
BY InitGdi, GdiStep, PTL DEF Spec

(* On a canvas of any size, reversed or not, and wherever the cursors are: what draw
   leaves out lies next to a bar, and the shade begins or ends at the playback bar
   (GdiFallback.cc: compute_waveform_regions, draw). *)
THEOREM RegionsAlwaysFit == Spec => []RegionsFitTheBars
<1>1. GdiInv => RegionsFitTheBars
  BY GapsFit, ShadeFits DEF GdiInv, RegionsFitTheBars
<1> QED
  BY <1>1, GdiAlways, PTL

-----------------------------------------------------------------------------
(* Repaints. *)

(* What the cursors need for a step: bars are columns, and no column is None. *)
BarsIn ==
  /\ canvas.major \in Nat \ {0} /\ None \notin Columns
  /\ IF visible THEN Play \in Columns ELSE Play = None
  /\ IF seeking THEN Seek \in Columns ELSE Seek = None
  /\ Points = {} <=> ~visible /\ ~seeking

LEMMA BarsFit == CanvasOK /\ CursorsOK => BarsIn
<1> SUFFICES ASSUME CanvasOK, CursorsOK PROVE BarsIn
  OBVIOUS
<1>1. visible => Play \in Columns
  BY CursorFacts
<1>2. seeking => Seek \in Columns
  BY CursorFacts
<1> QED
  BY <1>1, <1>2, CursorFacts, CanvasFacts DEF BarsIn, Play, Seek

LEMMA BetweenFacts ==
  ASSUME NEW a \in Int, NEW b \in Int, NEW c \in Int
  PROVE  c \in Between(a, b) <=> (a <= c /\ c <= b) \/ (b <= c /\ c <= a)
BY DEF Between, Less

(* A track starts at the edge. *)
LEMMA StartColumn ==
  ASSUME CanvasOK
  PROVE  BarColumn(0) = IF flip THEN canvas.major - 1 ELSE 0
<1>1. PICK m \in Nat \ {0}, n \in Nat \ {0} : m = canvas.major /\ n = Steps
  BY CanvasFacts, CanvasAssumption
<1>2. (m * n) \div n = m /\ (m * 0) \div n = 0
  <2>1. (m * n + 0) \div n = m /\ (0 * n + 0) \div n = 0
    BY <1>1, Division
  <2> QED
    BY <1>1, <2>1
<1>3. m * (n - 0) = m * n
  BY <1>1
<1>4. (m * (n - 0)) \div n = m
  BY <1>2, <1>3
<1> QED
  BY <1>1, <1>2, <1>4 DEF BarColumn, Column, Less, CanvasOK

(* The damage of a cursor that has moved holds the column it left and the column it
   came to; with the shade, all between the two, or up to the origin. *)
LEMMA DamageFacts ==
  ASSUME BarsIn, NEW c \in Columns, NEW p \in Columns \cup {None}, NEW q \in Columns \cup {None},
         Origin \in Int
  PROVE  /\ p # q /\ (c = p \/ c = q) => c \in PlayDamage(p, q)
         /\ p # q /\ (c = p \/ c = q) => c \in SeekDamage(p, q)
         /\ shade /\ p # None /\ q # None /\ p # q /\ c \notin PlayDamage(p, q) =>
              (c < p <=> c < q) /\ (c > p <=> c > q)
         /\ shade /\ p # None /\ q = None /\ c \notin PlayDamage(p, q) =>
              ~(Origin <= c /\ c <= p) /\ ~(p <= c /\ c <= Origin)
<1>1. Columns \subseteq Int /\ None \notin Columns
  BY DEF BarsIn, Columns
<1>2. CASE p = None
  BY <1>1, <1>2 DEF PlayDamage, SeekDamage
<1>3. CASE p # None /\ q # None
  BY <1>1, <1>3, BetweenFacts DEF PlayDamage, SeekDamage
<1>4. CASE p # None /\ q = None
  BY <1>1, <1>4, BetweenFacts DEF PlayDamage, SeekDamage
<1> QED
  BY <1>2, <1>3, <1>4

(* What draw puts in a column is one of four things, and a bar where there is one. *)
LEMMA ContentFacts ==
  ASSUME NEW c
  PROVE  /\ Content(c) \in {"bar", "plain", "shaded", "untouched"}
         /\ Content(c) = "bar" <=> c \in Bars
         /\ c \notin Bars /\ Points = {} => Content(c) = "plain"
BY DEF Content

(* A message that moves cursors: what it changes is in the update region. *)
LEMMA MovesCovered ==
  ASSUME GdiInv, BarsIn, BarsIn', ShadeEndsAtTheCursor, ShadeEndsAtTheCursor',
         CursorMoves, NEW c \in Columns', c \notin invalid'
  PROVE  /\ c \notin invalid
         /\ \/ Content(c)' = Content(c) \/ GapCloses(c)
            \/ WithoutCursor(c) \/ OriginMisplaced(c)
<1>1. UpdatePositions /\ UNCHANGED settings
  BY DEF CursorMoves, MoveCursor, ShowCursor, HideCursor, Drag
<1>2. /\ canvas' = canvas /\ vertical' = vertical /\ flip' = flip /\ shade' = shade
      /\ Columns' = Columns /\ c \in Columns
  BY <1>1 DEF settings, Columns
<1>3. /\ valid /\ c \notin invalid
      /\ c \notin PlayDamage(lastPlay, Play') /\ c \notin SeekDamage(lastSeek, Seek')
  BY <1>1, <1>2 DEF UpdatePositions
<1>4. PICK p, q, s, t \in Columns \cup {None} :
         p = Play /\ q = Play' /\ s = Seek /\ t = Seek'
  BY <1>2 DEF BarsIn
<1>5. c \notin PlayDamage(p, q) /\ c \notin SeekDamage(s, t)
  BY <1>3, <1>4 DEF GdiInv, CacheKept
<1>6. Origin \in Int
  BY CanvasFacts DEF Origin, GdiInv
<1>7. /\ p # q => c # p /\ c # q
      /\ s # t => c # s /\ c # t
  BY <1>2, <1>5, <1>6, DamageFacts
<1>8. c \in Bars <=> c \in Bars'
  BY <1>4, <1>7 DEF Bars
<1>9. c \notin invalid
  BY <1>3
<1>10. CASE c \in Bars
  <2>1. Content(c) = "bar" /\ Content(c)' = "bar"
    BY <1>8, <1>10 DEF Content
  <2> QED
    BY <1>9, <2>1
<1>11. ASSUME c \notin Bars, "untouched" \notin {Content(c), Content(c)'},
              Content(c)' # Content(c)
       PROVE  WithoutCursor(c) \/ OriginMisplaced(c)
  <2>1. /\ Content(c) \in {"plain", "shaded"} /\ Content(c)' \in {"plain", "shaded"}
        /\ ShadeMoved(c)
    <3>1. Content(c) \in {"plain", "shaded"}
      BY <1>11, ContentFacts
    <3>2. Content(c)' \in {"plain", "shaded"}
      BY <1>8, <1>11 DEF Content
    <3> QED
      BY <1>11, <3>1, <3>2 DEF ShadeMoved
  <2>2. visible => (Content(c) = "shaded" <=> shade /\ IF flip THEN c > p ELSE c < p)
    BY <1>2, <1>4, <2>1 DEF ShadeEndsAtTheCursor
  <2>3. visible' => (Content(c)' = "shaded" <=> shade /\ IF flip THEN c > q ELSE c < q)
    BY <1>2, <1>4, <2>1 DEF ShadeEndsAtTheCursor
  <2>4. Columns \subseteq Int /\ c \in 0..(canvas.major - 1) /\ canvas.major \in Nat
    BY <1>2 DEF Columns, BarsIn
  <2>5. CASE visible /\ visible'
    <3>1. p \in Columns /\ q \in Columns /\ p # None /\ q # None
      BY <1>2, <1>4, <2>5 DEF BarsIn
    <3>2. shade /\ p # q
      BY <1>11, <2>1, <2>2, <2>3, <2>5
    <3>3. (c < p <=> c < q) /\ (c > p <=> c > q)
      BY <1>2, <1>5, <1>6, <3>1, <3>2, DamageFacts
    <3> QED
      BY <1>11, <2>1, <2>2, <2>3, <2>5, <3>3
  <2>6. CASE visible /\ ~visible'
    <3>1. p \in Columns /\ p # None /\ q = None
      BY <1>2, <1>4, <2>6 DEF BarsIn
    <3>2. CASE seeking'
      BY <2>1, <2>6, <3>2 DEF WithoutCursor
    <3>3. CASE ~seeking'
      <4>1. Points' = {}
        BY <2>6, <3>3 DEF BarsIn
      <4>2. Content(c)' = "plain"
        BY <1>8, <1>11, <4>1 DEF Content
      <4>3. shade /\ IF flip THEN c > p ELSE c < p
        BY <1>11, <2>1, <2>2, <2>6, <4>2
      <4>4. ~(Origin <= c /\ c <= p) /\ ~(p <= c /\ c <= Origin)
        BY <1>2, <1>5, <1>6, <3>1, <4>3, DamageFacts
      <4>5. flip /\ vertical
        BY <2>4, <3>1, <4>3, <4>4 DEF Origin
      <4> QED
        BY <2>1, <2>6, <4>5 DEF OriginMisplaced
    <3> QED
      BY <3>2, <3>3
  <2>7. CASE ~visible /\ visible'
    <3>1. CASE seeking
      BY <2>1, <2>7, <3>1 DEF WithoutCursor
    <3>2. CASE ~seeking
      <4>1. Content(c) = "plain"
        BY <1>11, <2>7, <3>2, ContentFacts DEF BarsIn
      <4>2. shade /\ IF flip THEN c > q ELSE c < q
        BY <1>11, <2>1, <2>3, <2>7, <4>1
      <4>3. q = BarColumn(0)
        <5>1. ShowCursor
          BY <2>7 DEF CursorMoves, MoveCursor, ShowCursor, HideCursor, Drag
        <5> QED
          BY <1>2, <1>4, <5>1 DEF ShowCursor, Play, BarColumn, Column
      <4>4. q = IF flip THEN canvas.major - 1 ELSE 0
        BY <4>3, StartColumn DEF GdiInv
      <4> QED
        BY <2>4, <4>2, <4>4
    <3> QED
      BY <3>1, <3>2
  <2>8. CASE ~visible /\ ~visible'
    <3>1. CASE seeking \/ seeking'
      BY <2>1, <2>8, <3>1 DEF WithoutCursor
    <3>2. CASE ~seeking /\ ~seeking'
      <4>1. Points = {} /\ Points' = {}
        BY <2>8, <3>2 DEF BarsIn
      <4> QED
        BY <1>8, <1>11, <4>1 DEF Content
    <3> QED
      BY <3>1, <3>2
  <2> QED
    BY <2>5, <2>6, <2>7, <2>8
<1> QED
  BY <1>9, <1>10, <1>11 DEF GapCloses

(* The column is painted, or need not be. *)
Covered(c) ==
  \/ c \in invalid'
  \/ c \notin invalid /\ (\/ Content(c)' = Content(c) \/ GapCloses(c)
                          \/ WithoutCursor(c) \/ OriginMisplaced(c)
                          \/ ShadeSwitched(c))

(* Bars and regions do not depend on the shade. *)
LEMMA SwitchCovered ==
  ASSUME SetShade, NEW c \in Columns'
  PROVE  Covered(c)
<1>1. /\ shade' # shade /\ ~valid' /\ UNCHANGED invalid
      /\ UNCHANGED <<canvas, vertical, flip, visible, position, seeking, seek>>
  BY DEF SetShade, cursors
<1>2. /\ Bars' = Bars /\ Points' = Points /\ Regions' = Regions
      /\ \A r : Covers(r, c)' = Covers(r, c)
  BY <1>1 DEF Bars, Points, Regions, Covers, Play, Seek, BarColumn, Column, Low
<1>3. Content(c)' = Content(c) \/ ShadeMoved(c)
  BY <1>2 DEF Content, ShadeMoved
<1> QED
  BY <1>1, <1>3 DEF Covered, ShadeSwitched

(* After any message, whatever would be drawn differently is to be repainted. *)
LEMMA StepCovered ==
  ASSUME GdiInv, BarsIn, BarsIn', ShadeEndsAtTheCursor, ShadeEndsAtTheCursor', Next,
         ~Draw
  PROVE  /\ \A c \in Columns' : Covered(c)
         /\ ~valid /\ valid' => invalid' = Columns'
<1>1. CASE CursorMoves
  <2>1. \A c \in Columns' : Covered(c)
    BY <1>1, MovesCovered DEF Covered
  <2>2. UpdatePositions /\ UNCHANGED settings
    BY <1>1 DEF CursorMoves, MoveCursor, ShowCursor, HideCursor, Drag
  <2> QED
    BY <2>1, <2>2 DEF UpdatePositions, settings, Columns
<1>2. CASE (\E d \in Canvas, v \in BOOLEAN : Resize(d, v)) \/ SetFlip \/ NewData
  <2>1. invalid' = Columns'
    BY <1>2 DEF Resize, SetFlip, NewData, UpdateData
  <2> QED
    BY <2>1 DEF Covered
<1>3. CASE SetShade
  BY <1>3, SwitchCovered DEF SetShade
<1>4. ASSUME NEW d \in Columns, Uncover(d)
      PROVE  (\A c \in Columns' : Covered(c)) /\ valid' = valid
  <2>1. /\ UNCHANGED <<canvas, vertical, flip, shade, visible, position, seeking, seek>>
        /\ UNCHANGED valid /\ invalid \subseteq invalid'
    BY <1>4 DEF Uncover, settings, cursors, cache
  <2>2. \A c \in Columns' : Content(c)' = Content(c)
    BY <2>1 DEF Content, Bars, Points, Regions, Covers, Play, Seek, BarColumn, Column, Low
  <2> QED
    BY <2>1, <2>2 DEF Covered
<1> QED
  BY <1>1, <1>2, <1>3, <1>4 DEF Next, CursorMoves

(* However the window has come there, on a canvas of any size: a column that would be
   drawn differently is in the update region, up to the four exceptions, of which the
   switched shade is painted with the next change of position (GdiFallback.cc:
   on_state_changed, update_positions, update_data). *)
THEOREM RepaintsCover == Spec => RepaintCoversChanges
<1>1. GdiInv => BarsIn /\ ShadeEndsAtTheCursor
  BY BarsFit, ShadeFits DEF GdiInv
<1>2. GdiInv /\ BarsIn /\ BarsIn' /\ ShadeEndsAtTheCursor /\ ShadeEndsAtTheCursor' /\ [Next]_vars =>
        [Draw \/ /\ \A c \in Columns' : Covered(c)
                 /\ ~valid /\ valid' => invalid' = Columns']_vars
  BY StepCovered
<1> QED
  BY <1>1, <1>2, GdiAlways, PTL DEF Spec, RepaintCoversChanges, Covered
=============================================================================
