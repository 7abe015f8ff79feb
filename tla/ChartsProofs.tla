---------------------------- MODULE ChartsProofs ----------------------------
(***************************************************************************)
(* For any sensors, store, limits, times and screens: the page with the    *)
(* charts holds at most one reading per sensor more than its limit, stops  *)
(* drawing only because of a table that is null or of an overtaken empty   *)
(* history, and leaves no gap in a line whose history came first; and the  *)
(* axes are readable.                                                      *)
(***************************************************************************)
EXTENDS Charts, FiniteSetTheorems, WellFoundedInduction, TLAPS

----------------------------------------------------------------------------
\* Rounding.

LEMMA Division ==
  ASSUME NEW a \in Int, NEW b \in Nat \ {0}
  PROVE  /\ a \div b \in Int
         /\ b * (a \div b) <= a /\ a < b * ((a \div b) + 1)
  OBVIOUS

LEMMA FloorsBound ==
  ASSUME NEW a \in Int, NEW b \in Nat \ {0}, NEW f \in Floors(a, b)
  PROVE  f \in Int /\ b * f <= a
<1>1. a \div b \in Int /\ b * (a \div b) <= a
  BY Division
<1>2. f = a \div b \/ f = (a \div b) - 1
  BY DEF Floors, Floor
<1>3. b * ((a \div b) - 1) <= b * (a \div b)
  BY <1>1
<1> QED
  BY <1>1, <1>2, <1>3

LEMMA CeilBound ==
  ASSUME NEW a \in Int, NEW b \in Nat \ {0}
  PROVE  Ceil(a, b) \in Int /\ a <= b * Ceil(a, b)
<1>1. (-a) \div b \in Int /\ b * ((-a) \div b) <= -a
  BY Division
<1>2. b * (-((-a) \div b)) = -(b * ((-a) \div b))
  BY <1>1
<1> QED
  BY <1>1, <1>2 DEF Ceil

LEMMA CeilsBound ==
  ASSUME NEW a \in Int, NEW b \in Nat \ {0}, NEW c \in Ceils(a, b)
  PROVE  c \in Int /\ a <= b * c
<1>1. Ceil(a, b) \in Int /\ a <= b * Ceil(a, b)
  BY CeilBound
<1>2. c = Ceil(a, b) \/ c = Ceil(a, b) + 1
  BY DEF Ceils
<1>3. b * Ceil(a, b) <= b * (Ceil(a, b) + 1)
  BY <1>1
<1> QED
  BY <1>1, <1>2, <1>3

----------------------------------------------------------------------------
\* A finite set of integers has a least and a greatest member.

LEMMA LeastNatural ==
  ASSUME NEW T \in SUBSET Nat, T # {}
  PROVE  \E x \in T : \A y \in T : x <= y
<1> DEFINE R == {ss \in Nat \X Nat : ss[1] < ss[2]}
<1>1. R = OpToRel(<, Nat)
  BY DEF OpToRel
<1>2. IsWellFoundedOn(R, Nat)
  BY <1>1, NatLessThanWellFounded
<1>3. ASSUME NEW x \in Nat, NEW y \in Nat
      PROVE  <<y, x>> \in R <=> y < x
  OBVIOUS
<1> HIDE DEF R
<1>4. PICK x \in T : \A y \in T : ~(<<y, x>> \in R)
  BY <1>2, WFMin
<1>5. ASSUME NEW y \in T
      PROVE  x <= y
  <2>1. x \in Nat /\ y \in Nat
    OBVIOUS
  <2>2. ~(y < x)
    BY <1>3, <1>4, <2>1, Zenon
  <2> QED
    BY <2>1, <2>2
<1> QED
  BY <1>5

LEMMA FiniteImage ==
  ASSUME NEW S, IsFiniteSet(S), NEW f
  PROVE  IsFiniteSet({f[x] : x \in S})
<1> DEFINE T == {f[x] : x \in S}
           g == [x \in S |-> f[x]]
<1>1. g \in Surjection(S, T)
  BY DEF Surjection
<1> QED
  BY <1>1, FS_Surjection

\* The member with the fewest members below it has none.
LEMMA Least ==
  ASSUME NEW S \in SUBSET Int, S # {}, IsFiniteSet(S)
  PROVE  \E v \in S : \A w \in S : v <= w
<1> DEFINE Below(v) == {w \in S : w < v}
           Counts == {Cardinality(Below(v)) : v \in S}
<1>1. ASSUME NEW v \in S
      PROVE  IsFiniteSet(Below(v)) /\ Cardinality(Below(v)) \in Nat
  BY FS_Subset, FS_CardinalityType
<1>2. Counts \in SUBSET Nat /\ Counts # {}
  BY <1>1
<1>3. PICK n \in Counts : \A m \in Counts : n <= m
  <2> HIDE DEF Counts
  <2> QED
    BY <1>2, LeastNatural
<1>4. PICK v \in S : n = Cardinality(Below(v))
  BY <1>3
<1>5. ASSUME NEW w \in S, w < v PROVE FALSE
  <2>1. ~(w < w) /\ \A u \in S : u < w => u < v
    BY <1>5
  <2>2. Below(w) \subseteq Below(v) /\ w \in Below(v) /\ w \notin Below(w)
    BY <1>5, <2>1, Zenon
  <2>3. Cardinality(Below(w)) < Cardinality(Below(v))
    <3> HIDE DEF Below
    <3> QED
      BY <1>1, <2>2, FS_Subset
  <2>4. n <= Cardinality(Below(w))
    BY <1>3
  <2> QED
    BY <1>1, <1>4, <2>3, <2>4
<1> QED
  BY <1>5

LEMMA Greatest ==
  ASSUME NEW S \in SUBSET Int, S # {}, IsFiniteSet(S)
  PROVE  \E v \in S : \A w \in S : w <= v
<1> DEFINE T == {-v : v \in S}
<1>1. T \in SUBSET Int /\ T # {} /\ IsFiniteSet(T)
  <2> DEFINE f == [v \in S |-> -v]
  <2>1. T = {f[v] : v \in S}
    OBVIOUS
  <2>2. IsFiniteSet({f[v] : v \in S})
    BY FiniteImage
  <2>3. \A v \in S : -v \in Int
    OBVIOUS
  <2>4. T \in SUBSET Int /\ T # {}
    BY <2>3, Zenon
  <2> QED
    BY <2>1, <2>2, <2>4, Zenon
<1>2. PICK v \in T : \A w \in T : v <= w
  <2> HIDE DEF T
  <2> QED
    BY <1>1, Least
<1>3. -v \in S /\ \A w \in S : -w \in T
  OBVIOUS
<1>4. \A w \in S : w <= -v
  BY <1>1, <1>2, <1>3
<1> QED
  BY <1>3, <1>4

LEMMA CommonMinMax ==
  ASSUME NEW S \in SUBSET Int, S # {}, IsFiniteSet(S)
  PROVE  LET range == calcCommonMinMax(S)
         IN  /\ range.min \in S /\ range.max \in S
             /\ \A v \in S : range.min <= v /\ v <= range.max
  BY Least, Greatest DEF calcCommonMinMax

----------------------------------------------------------------------------
\* The axis of times.

LEMMA AxisX ==
  ASSUME NEW times \in SUBSET Int, times # {}, IsFiniteSet(times),
         NEW width \in Int, Plot(width) > 0,
         NEW step \in StepX(xRange(times), width)
  PROVE  LET range == xRange(times)
         IN  /\ \A t \in times : range.min <= t /\ t <= range.max
             /\ step > 0
             /\ step * Plot(width) >= minPixelsPerTimestamp * (range.max - range.min)
             /\ \A epoch \in drawLegendX(range, step) :
                   range.min <= epoch /\ epoch < range.max
<1> DEFINE range == xRange(times)
           lo == range.min
           hi == range.max
           plot == Plot(width)
           need == 50 * (hi - lo)
<1>1. /\ lo \in Int /\ hi \in Int /\ lo <= hi - 1200
      /\ \A t \in times : lo <= t /\ t <= hi
  BY CommonMinMax DEF xRange
<1>2. plot \in Nat \ {0}
  BY DEF Plot, rightMargin, leftMargin
<1> HIDE DEF range, plot
<1>3. PICK factor \in Ceils(need, 300 * plot) : step = factor * 300
  BY DEF StepX, minPixelsPerTimestamp, fiveMinutesInSec, range, plot
<1>4. need \in Int /\ need > 0 /\ 300 * plot \in Nat \ {0}
  BY <1>1, <1>2
<1> HIDE DEF need
<1>5. factor \in Int /\ need <= (300 * plot) * factor
  BY <1>4, CeilsBound
<1>6. (300 * plot) * factor = step * plot /\ step \in Int
  BY <1>2, <1>3, <1>5
<1>7. step > 0
  <2>1. ASSUME step <= 0 PROVE FALSE
    <3>1. step * plot <= 0
      BY <1>2, <1>6, <2>1
    <3> QED
      BY <1>4, <1>5, <1>6, <3>1
  <2> QED
    BY <1>6, <2>1
<1>8. ASSUME NEW epoch \in drawLegendX(range, step)
      PROVE  lo <= epoch /\ epoch < hi
  <2> DEFINE start == Ceil(lo, 300) * 300
             turns == (hi - start - 1) \div step
  <2>1. start \in Int /\ lo <= start
    <3> DEFINE five == 300
    <3>1. five \in Nat \ {0}
      OBVIOUS
    <3> HIDE DEF five
    <3>2. Ceil(lo, five) \in Int /\ lo <= five * Ceil(lo, five)
      BY <1>1, <3>1, CeilBound, ZenonT(60)
    <3> QED
      BY <3>2 DEF five
  <2>2. PICK k \in 0..turns : epoch = start + k * step
    BY DEF drawLegendX, fiveMinutesInSec
  <2> HIDE DEF start
  <2>3. hi - start - 1 \in Int /\ step \in Nat \ {0}
    BY <1>1, <1>6, <1>7, <2>1
  <2>4. turns \in Int /\ step * turns <= hi - start - 1
    BY <2>3, Division
  <2> HIDE DEF turns
  <2>5. k \in Nat /\ k <= turns
    BY <2>2, <2>4
  <2>6. 0 <= k * step /\ k * step <= step * turns
    BY <2>3, <2>4, <2>5
  <2> QED
    BY <1>1, <2>1, <2>2, <2>3, <2>4, <2>6
<1> QED
  BY <1>1, <1>4, <1>5, <1>6, <1>7, <1>8
     DEF need, range, plot, minPixelsPerTimestamp

----------------------------------------------------------------------------
\* The axis of values.

\* Lines of one step are few where ten steps are as long as the axis.
LEMMA FewLines ==
  ASSUME NEW a \in Int, NEW b \in Int, NEW p \in Int, NEW step \in Nat \ {0},
         b - a <= 10 * step,
         NEW lines, lines = {line \in a..b : (line - p) % step = 0}
  PROVE  IsFiniteSet(lines) /\ Cardinality(lines) <= 11
<1> DEFINE first == (a - p) \div step
           turns == first..(first + 10)
           f == [k \in turns |-> p + step * k]
<1>1. first \in Int /\ step * first <= a - p
  BY Division
<1> HIDE DEF first
<1>2. ASSUME NEW line \in lines
      PROVE  \E k \in turns : line = p + step * k
  <2> DEFINE k == (line - p) \div step
  <2>1. line \in Int /\ a <= line /\ line <= b /\ (line - p) % step = 0
    OBVIOUS
  <2>2. k \in Int /\ line - p = step * k
    BY <2>1
  <2> HIDE DEF k
  <2>3. first <= k
    <3>1. ASSUME k < first PROVE FALSE
      <4>1. a - p < step * (k + 1)
        BY <2>1, <2>2
      <4> QED
        BY <1>1, <2>1, <2>2, <3>1
    <3> QED
      BY <1>1, <2>2, <3>1
  <2>4. k <= first + 10
    <3>1. ASSUME k >= first + 11 PROVE FALSE
      <4>1. a - p < step * (first + 1)
        BY Division DEF first
      <4>2. step * k >= step * (first + 11)
        BY <1>1, <2>2, <3>1
      <4>3. step * (first + 11) = step * (first + 1) + 10 * step
        BY <1>1
      <4> QED
        BY <1>1, <2>1, <2>2, <4>1, <4>2, <4>3
    <3> QED
      BY <1>1, <2>2, <3>1
  <2> QED
    BY <1>1, <2>2, <2>3, <2>4
<1>3. IsFiniteSet(turns) /\ Cardinality(turns) = 11
  BY <1>1, FS_Interval
<1> DEFINE all == {f[k] : k \in turns}
<1>4. f \in Surjection(turns, all)
  BY DEF Surjection
<1>5. IsFiniteSet(all) /\ Cardinality(all) <= 11
  BY <1>3, <1>4, FS_Surjection
<1>6. lines \subseteq all
  BY <1>2
<1>7. Cardinality(lines) \in Nat /\ Cardinality(all) \in Nat
  BY <1>5, <1>6, FS_Subset, FS_CardinalityType
<1> HIDE DEF all
<1>8. IsFiniteSet(lines) /\ Cardinality(lines) <= Cardinality(all)
  BY <1>5, <1>6, FS_Subset
<1> QED
  BY <1>5, <1>7, <1>8

LEMMA AxisY ==
  ASSUME NEW values \in SUBSET Int, values # {}, IsFiniteSet(values),
         NEW range \in expandRange(values)
  PROVE  /\ \A v \in values : 10 * range.min < v /\ v < 10 * range.max
         /\ range.min < Pivot(range) /\ Pivot(range) < range.max
         /\ StepY(range) >= 1
         /\ Cardinality(drawLegendY(range)) <= 13
<1> DEFINE common == calcCommonMinMax(values)
           lo == common.min
           hi == common.max
           a == range.min
           b == range.max
<1>1. /\ lo \in Int /\ hi \in Int /\ lo <= hi
      /\ \A v \in values : v \in Int /\ lo <= v /\ v <= hi
  BY CommonMinMax
<1> HIDE DEF common
<1>2. PICK f \in Floors(5 * lo - (hi - lo), 50), c \in Ceils(5 * hi + (hi - lo), 50) :
         a = f - 1 /\ b = c + 1
  BY DEF expandRange, common
<1>3. f \in Int /\ 10 * f <= lo
  <2> DEFINE fifty == 50
             x == 5 * lo - (hi - lo)
  <2>1. x \in Int /\ fifty \in Nat \ {0}
    BY <1>1
  <2> HIDE DEF fifty, x
  <2>2. f \in Floors(x, fifty)
    BY <1>2 DEF fifty, x
  <2>3. f \in Int /\ fifty * f <= x
    BY <2>1, <2>2, FloorsBound
  <2> QED
    BY <1>1, <2>3 DEF fifty, x
<1>4. c \in Int /\ hi <= 10 * c
  <2> DEFINE fifty == 50
             x == 5 * hi + (hi - lo)
  <2>1. x \in Int /\ fifty \in Nat \ {0}
    BY <1>1
  <2> HIDE DEF fifty, x
  <2>2. c \in Ceils(x, fifty)
    BY <1>2 DEF fifty, x
  <2>3. c \in Int /\ x <= fifty * c
    BY <2>1, <2>2, CeilsBound
  <2> QED
    BY <1>1, <2>3 DEF fifty, x
<1>5. a \in Int /\ b \in Int /\ b - a >= 2
  BY <1>1, <1>2, <1>3, <1>4
<1>6. \A v \in values : 10 * a < v /\ v < 10 * b
  BY <1>1, <1>2, <1>3, <1>4
<1>7. Pivot(range) \in Int /\ a < Pivot(range) /\ Pivot(range) < b
  BY <1>5 DEF Pivot, RoundHalf
<1> DEFINE step == StepY(range)
<1>8. step \in Nat \ {0} /\ 2 * b - 2 * a <= 10 * step
  BY <1>5 DEF StepY
<1> HIDE DEF step, a, b
<1>9. Cardinality(drawLegendY(range)) <= 13
  <2> DEFINE ends == {2 * a, 2 * b}
             lines == {line \in 2 * a..2 * b : (line - 2 * Pivot(range)) % step = 0}
  <2>1. 2 * a \in Int /\ 2 * b \in Int /\ 2 * Pivot(range) \in Int
    BY <1>5, <1>7
  <2>2. IsFiniteSet(lines) /\ Cardinality(lines) <= 11
    <3> DEFINE low == 2 * a
               high == 2 * b
               pivot == 2 * Pivot(range)
    <3>1. /\ low \in Int /\ high \in Int /\ pivot \in Int
          /\ high - low <= 10 * step
      BY <1>8, <2>1
    <3>2. lines = {line \in low..high : (line - pivot) % step = 0}
      OBVIOUS
    <3> HIDE DEF low, high, pivot, lines
    <3> QED
      BY <1>8, <3>1, <3>2, FewLines
  <2>3. IsFiniteSet(ends) /\ Cardinality(ends) <= 2
    <3> DEFINE one == {2 * a}
    <3>1. IsFiniteSet(one) /\ Cardinality(one) = 1
      BY FS_Singleton
    <3>2. ends = one \cup {2 * b}
      OBVIOUS
    <3> HIDE DEF one, ends
    <3>3. /\ IsFiniteSet(one \cup {2 * b})
          /\ \/ Cardinality(one \cup {2 * b}) = Cardinality(one)
             \/ Cardinality(one \cup {2 * b}) = Cardinality(one) + 1
      BY <3>1, FS_AddElement
    <3> QED
      BY <3>1, <3>2, <3>3
  <2>4. drawLegendY(range) = ends \cup lines
    BY DEF drawLegendY, step, a, b
  <2> HIDE DEF ends, lines
  <2>5. /\ Cardinality(ends \cup lines)
             = Cardinality(ends) + Cardinality(lines) - Cardinality(ends \cap lines)
        /\ IsFiniteSet(ends \cap lines)
    BY <2>2, <2>3, FS_Union, FS_Intersection
  <2>6. /\ Cardinality(ends) \in Nat /\ Cardinality(lines) \in Nat
        /\ Cardinality(ends \cap lines) \in Nat
    BY <2>2, <2>3, <2>5, FS_CardinalityType
  <2> QED
    BY <2>2, <2>3, <2>4, <2>5, <2>6
<1> QED
  BY <1>6, <1>7, <1>8, <1>9 DEF step, a, b

----------------------------------------------------------------------------
\* What the page has drawn are finitely many readings.
LEMMA DrawnTimes ==
  ASSUME TypeOK, Drawing
  PROVE  Drawn \subseteq Time /\ Drawn # {} /\ IsFiniteSet(Drawn)
<1>1. ASSUME NEW id \in DOMAIN data, NEW t \in Elements(data[id])
      PROVE  t \in Time
  <2>1. data[id] \in Seq(Time \cup {Undefined})
    BY DEF TypeOK, Values
  <2>2. t \in Time \cup {Undefined}
    BY <2>1 DEF Elements
  <2>3. Undefined \notin Elements(data[id])
    BY DEF Drawing, Throwing
  <2> QED
    BY <2>2, <2>3
<1>2. Drawn \subseteq Time
  BY <1>1 DEF Drawn
<1>3. IsFiniteSet(Time)
  BY ChartsAssumption, FS_Interval DEF Time
<1> QED
  BY <1>2, <1>3, FS_Subset DEF Drawing

LEMMA TimesFit == TypeOK => TimesReadable
<1> SUFFICES ASSUME TypeOK, Drawing PROVE TimesReadable
  BY DEF TimesReadable
<1> DEFINE times == {Seconds * t : t \in Drawn}
<1>1. Drawn \subseteq Time /\ Drawn # {} /\ IsFiniteSet(Drawn)
  BY DrawnTimes
<1>2. times \in SUBSET Int /\ times # {}
  <2>1. ASSUME NEW t \in Drawn PROVE Seconds * t \in Int
    BY <1>1, ChartsAssumption DEF Time
  <2> QED
    BY <1>1, <2>1, Zenon
<1>3. IsFiniteSet(times)
  <2> DEFINE f == [t \in Drawn |-> Seconds * t]
  <2>1. times = {f[t] : t \in Drawn}
    OBVIOUS
  <2>2. IsFiniteSet({f[t] : t \in Drawn})
    BY <1>1, FiniteImage
  <2> QED
    BY <2>1, <2>2
<1> HIDE DEF times
<1>4. ASSUME NEW width \in Width
      PROVE  width \in Int /\ Plot(width) > 0
  BY ChartsAssumption
<1> DEFINE range == xRange(times)
<1>5. \A t \in times : range.min <= t /\ t <= range.max
  BY <1>2, <1>3, CommonMinMax DEF xRange
<1>6. ASSUME NEW width \in Width, NEW step \in StepX(range, width)
      PROVE  /\ step > 0
             /\ step * Plot(width)
                  >= minPixelsPerTimestamp * (range.max - range.min)
             /\ \A epoch \in drawLegendX(range, step) :
                   range.min <= epoch /\ epoch < range.max
  BY <1>2, <1>3, <1>4, AxisX
<1> QED
  BY <1>5, <1>6 DEF TimesReadable, times

LEMMA ValuesFit == TypeOK => ValuesReadable
<1> SUFFICES ASSUME TypeOK, Drawing PROVE ValuesReadable
  BY DEF ValuesReadable
<1> DEFINE values == {Measured[t] : t \in Drawn}
<1>1. Drawn \subseteq Time /\ Drawn # {} /\ IsFiniteSet(Drawn)
  BY DrawnTimes
<1>2. values \in SUBSET Int /\ values # {}
  <2>1. ASSUME NEW t \in Drawn PROVE Measured[t] \in Int
    BY <1>1, ChartsAssumption DEF Time
  <2> QED
    BY <1>1, <2>1, Zenon
<1>3. IsFiniteSet(values)
  BY <1>1, FiniteImage
<1> HIDE DEF values
<1> QED
  BY <1>2, <1>3, AxisY DEF ValuesReadable, values

----------------------------------------------------------------------------
\* Array.sort.

LEMMA TimeIsNat == Time \subseteq Nat /\ Undefined \notin Nat /\ Undefined \notin Time
  BY ChartsAssumption DEF Time

LEMMA PrecedesOrders ==
  ASSUME NEW v \in Values, NEW i \in 1..Len(v), NEW j \in 1..Len(v), NEW k \in 1..Len(v)
  PROVE  /\ ~Precedes(v, i, i)
         /\ Precedes(v, i, j) /\ Precedes(v, j, k) => Precedes(v, i, k)
         /\ Precedes(v, i, j) \/ Precedes(v, j, i) \/ i = j
<1>1. \A m \in 1..Len(v) : v[m] = Undefined \/ v[m] \in Nat
  <2>1. \A m \in 1..Len(v) : v[m] \in Time \cup {Undefined}
    BY DEF Values
  <2> QED
    BY <2>1, TimeIsNat
<1>2. Undefined \notin Nat
  BY TimeIsNat
<1> QED
  BY <1>1, <1>2 DEF Precedes

\* Ranks are different, hence all of those there can be.
LEMMA RanksDiffer ==
  ASSUME NEW v \in Values
  PROVE  \E rank \in Bijection(1..Len(v), 0..Len(v) - 1) :
           /\ \A k \in 1..Len(v) : rank[k] = Rank(v, k)
           /\ \A j, k \in 1..Len(v) : rank[j] < rank[k] <=> Precedes(v, j, k)
<1> DEFINE n == Len(v)
           places == 1..n
           Before(k) == {j \in places : Precedes(v, j, k)}
           rank == [k \in places |-> Cardinality(Before(k))]
<1>1. n \in Nat /\ DOMAIN v = places
  BY DEF Values
<1>2. IsFiniteSet(places) /\ Cardinality(places) = n
  <2>1. /\ IsFiniteSet(places)
        /\ Cardinality(places) = IF 1 > n THEN 0 ELSE n - 1 + 1
    BY <1>1, FS_Interval
  <2> QED
    BY <1>1, <2>1
<1>3. \A k \in places : IsFiniteSet(Before(k)) /\ Cardinality(Before(k)) \in Nat
  BY <1>2, FS_Subset, FS_CardinalityType
<1>4. ASSUME NEW j \in places, NEW k \in places, Precedes(v, j, k)
      PROVE  Cardinality(Before(j)) < Cardinality(Before(k))
  <2>1. Before(j) \subseteq Before(k)
    BY <1>4, PrecedesOrders
  <2>2. j \in Before(k) /\ j \notin Before(j)
    BY <1>4, PrecedesOrders
  <2>3. PICK S : S = Before(j)
    OBVIOUS
  <2>4. PICK T : T = Before(k)
    OBVIOUS
  <2>5. IsFiniteSet(T) /\ S \in SUBSET T /\ S # T
    BY <1>3, <2>1, <2>2, <2>3, <2>4
  <2> HIDE DEF Before
  <2>6. /\ Cardinality(S) <= Cardinality(T)
        /\ Cardinality(S) # Cardinality(T)
    BY <2>5, FS_Subset
  <2>7. Cardinality(S) \in Nat /\ Cardinality(T) \in Nat
    BY <1>3, <2>3, <2>4
  <2> QED
    BY <2>3, <2>4, <2>6, <2>7
<1>5. ASSUME NEW k \in places PROVE Cardinality(Before(k)) \in 0..n - 1
  <2>1. Before(k) \subseteq places /\ k \notin Before(k)
    BY PrecedesOrders
  <2>2. PICK S : S = Before(k)
    OBVIOUS
  <2> HIDE DEF Before
  <2>3. S \in SUBSET places /\ S # places
    BY <2>1, <2>2
  <2>4. /\ Cardinality(S) <= n
        /\ Cardinality(S) # n
    BY <1>2, <2>3, FS_Subset
  <2> QED
    BY <1>1, <1>3, <2>2, <2>4
<1>6. rank \in [places -> 0..n - 1]
  BY <1>5
<1>7. \A j, k \in places : rank[j] < rank[k] <=> Precedes(v, j, k)
  <2> SUFFICES ASSUME NEW j \in places, NEW k \in places
               PROVE  rank[j] < rank[k] <=> Precedes(v, j, k)
    OBVIOUS
  <2>1. rank[j] \in Nat /\ rank[k] \in Nat
    BY <1>3
  <2>2. Precedes(v, j, k) => rank[j] < rank[k]
    BY <1>4
  <2>3. Precedes(v, k, j) => rank[k] < rank[j]
    BY <1>4
  <2>4. Precedes(v, j, k) \/ Precedes(v, k, j) \/ j = k
    BY PrecedesOrders
  <2> HIDE DEF rank
  <2> QED
    BY <2>1, <2>2, <2>3, <2>4
<1>8. rank \in Injection(places, 0..n - 1)
  <2>1. \A j, k \in places : rank[j] = rank[k] => j = k
    <3> SUFFICES ASSUME NEW j \in places, NEW k \in places, rank[j] = rank[k]
                 PROVE  j = k
      OBVIOUS
    <3>1. rank[j] \in Nat /\ rank[k] \in Nat
      BY <1>3
    <3>2. ~(rank[j] < rank[k]) /\ ~(rank[k] < rank[j])
      BY <3>1
    <3> HIDE DEF rank
    <3> QED
      BY <1>7, <3>2, PrecedesOrders
  <2> HIDE DEF rank, places
  <2> QED
    BY <1>6, <2>1 DEF Injection, IsInjective
<1>9. IsFiniteSet(0..n - 1) /\ Cardinality(0..n - 1) = n
  <2>1. 0 \in Int /\ n - 1 \in Int
    BY <1>1
  <2>2. /\ IsFiniteSet(0..n - 1)
        /\ Cardinality(0..n - 1) = IF 0 > n - 1 THEN 0 ELSE (n - 1) - 0 + 1
    BY <2>1, FS_Interval
  <2> QED
    BY <1>1, <2>2
<1>10. rank \in Bijection(places, 0..n - 1)
  <2>1. PICK T : T = 0..n - 1
    OBVIOUS
  <2> HIDE DEF rank, places
  <2>2. rank \in Surjection(places, T)
    BY <1>2, <1>8, <1>9, <2>1, FS_Injection
  <2> QED
    BY <1>8, <2>1, <2>2 DEF Bijection
<1>11. \A k \in places : rank[k] = Rank(v, k)
  BY <1>1 DEF Rank
<1>12. rank \in Bijection(1..Len(v), 0..Len(v) - 1)
  BY <1>10, Zenon
<1> HIDE DEF rank
<1> QED
  BY <1>7, <1>11, <1>12 DEF places

\* The sorted values are the values in another order.
LEMMA SortedOrder ==
  ASSUME NEW v \in Values
  PROVE  /\ Sorted[v] \in Values
         /\ Len(Sorted[v]) = Len(v)
         /\ \E place \in Bijection(1..Len(v), 1..Len(v)) :
              /\ \A i \in 1..Len(v) : Sorted[v][i] = v[place[i]]
              /\ \A i, j \in 1..Len(v) : i < j => Precedes(v, place[i], place[j])
<1> DEFINE n == Len(v)
<1>1. n \in Nat /\ DOMAIN v = 1..n
  BY DEF Values
<1>2. PICK rank \in Bijection(1..n, 0..n - 1) :
        /\ \A k \in 1..n : rank[k] = Rank(v, k)
        /\ \A j, k \in 1..n : rank[j] < rank[k] <=> Precedes(v, j, k)
  BY RanksDiffer
<1>3. /\ rank \in [1..n -> 0..n - 1]
      /\ \A j, k \in 1..n : rank[j] = rank[k] => j = k
      /\ \A m \in 0..n - 1 : \E k \in 1..n : rank[k] = m
  BY <1>2 DEF Bijection, Injection, IsInjective, Surjection
<1> DEFINE place == [i \in 1..n |-> CHOOSE k \in 1..n : rank[k] = i - 1]
<1>4. \A i \in 1..n : i - 1 \in 0..n - 1
  BY <1>1
<1>5. \A i \in 1..n : place[i] \in 1..n /\ rank[place[i]] = i - 1
  BY <1>3, <1>4
<1>6. Sorted[v] = [i \in 1..n |-> v[place[i]]]
  <2>1. Sorted[v] = [i \in 1..n |-> v[CHOOSE k \in 1..n : Rank(v, k) = i - 1]]
    BY <1>1 DEF Sorted
  <2>2. ASSUME NEW i \in 1..n
        PROVE  (CHOOSE k \in 1..n : Rank(v, k) = i - 1) = place[i]
    BY <1>2
  <2> HIDE DEF place
  <2> QED
    BY <2>1, <2>2
<1>7. Sorted[v] \in Values /\ Len(Sorted[v]) = n
  <2>1. \A k \in 1..n : v[k] \in Time \cup {Undefined}
    BY <1>1 DEF Values
  <2>2. \A i \in 1..n : v[place[i]] \in Time \cup {Undefined}
    BY <1>5, <2>1
  <2>3. Sorted[v] \in [1..n -> Time \cup {Undefined}]
    BY <1>6, <2>2
  <2> QED
    BY <1>1, <2>3 DEF Values
<1>8. \A i, j \in 1..n : i < j => Precedes(v, place[i], place[j])
  <2> SUFFICES ASSUME NEW i \in 1..n, NEW j \in 1..n, i < j
               PROVE  Precedes(v, place[i], place[j])
    OBVIOUS
  <2>1. rank[place[i]] < rank[place[j]]
    BY <1>5
  <2> QED
    BY <1>2, <1>5, <2>1
<1>9. place \in Bijection(1..n, 1..n)
  <2>1. place \in [1..n -> 1..n]
    BY <1>5
  <2>2. \A i, j \in 1..n : place[i] = place[j] => i = j
    BY <1>5
  <2>3. ASSUME NEW k \in 1..n PROVE \E i \in 1..n : place[i] = k
    <3>1. rank[k] \in 0..n - 1
      BY <1>3
    <3>2. PICK i \in 1..n : i - 1 = rank[k]
      <4>1. rank[k] + 1 \in 1..n /\ (rank[k] + 1) - 1 = rank[k]
        BY <1>1, <3>1
      <4> QED
        BY <4>1
    <3>3. place[i] \in 1..n /\ rank[place[i]] = rank[k]
      BY <1>5, <3>2
    <3> HIDE DEF place
    <3> QED
      BY <1>3, <3>3
  <2> HIDE DEF place
  <2> QED
    BY <2>1, <2>2, <2>3 DEF Bijection, Injection, IsInjective, Surjection
<1>10. \A i \in 1..n : Sorted[v][i] = v[place[i]]
  BY <1>6
<1> HIDE DEF place
<1> QED
  BY <1>7, <1>8, <1>9, <1>10

LEMMA SeqParts ==
  ASSUME NEW S, NEW s \in Seq(S)
  PROVE  /\ Len(s) \in Nat /\ DOMAIN s = 1..Len(s)
         /\ \A k \in 1..Len(s) : s[k] \in S
         /\ s \in [1..Len(s) -> S]
  OBVIOUS

\* What the newest values are, by their places.
LEMMA NewestParts ==
  ASSUME NEW S, NEW s \in Seq(S), NEW n \in Nat
  PROVE  LET newest == Store!Newest(s, n)
             more   == Len(s) - Len(newest)
         IN  /\ newest \in Seq(S)
             /\ Len(newest) = IF Len(s) <= n THEN Len(s) ELSE n
             /\ more \in Nat
             /\ \A k \in 1..Len(newest) : newest[k] = s[k + more]
<1>1. CASE Len(s) <= n
  BY <1>1 DEF Store!Newest
<1>2. CASE ~(Len(s) <= n)
  <2> DEFINE u == SubSeq(s, Len(s) - n + 1, Len(s))
  <2>1. Store!Newest(s, n) = u
    BY <1>2 DEF Store!Newest
  <2>2. Len(s) \in Nat /\ Len(s) - n + 1 \in 1..Len(s) + 1
    BY <1>2
  <2>3. u \in Seq(S) /\ Len(u) = n
    BY <2>2
  <2>4. \A k \in 1..n : u[k] = s[k + (Len(s) - n)]
    BY <2>2
  <2> HIDE DEF u
  <2> QED
    BY <1>2, <2>1, <2>2, <2>3, <2>4
<1> QED
  BY <1>1, <1>2

\* In values in order of time, the recent ones are the last.
LEMMA OnlyRecentParts ==
  ASSUME clock \in Nat, NEW u \in Seq(Time),
         \A i, j \in 1..Len(u) : i < j => u[i] <= u[j]
  PROVE  LET w    == OnlyRecent[u]
             more == Len(u) - Len(w)
         IN  /\ w \in Seq(Time) /\ Len(w) \in Nat /\ more \in Nat
             /\ \A k \in 1..Len(w) : w[k] = u[k + more]
             /\ \A j \in 1..more : ~Recent(u[j])
<1> DEFINE n == Len(u)
           recent == {k \in 1..n : Recent(u[k])}
           m == Cardinality(recent)
           w == Store!Newest(u, m)
<1>1. n \in Nat /\ DOMAIN u = 1..n /\ \A k \in 1..n : u[k] \in Time
  BY SeqParts
<1>2. OnlyRecent[u] = w
  <2>1. u \in Values
    BY <1>1 DEF Values
  <2> QED
    BY <1>1, <2>1 DEF OnlyRecent
<1>3. IsFiniteSet(1..n) /\ IsFiniteSet(recent) /\ m \in Nat /\ m <= n
  <2>1. IsFiniteSet(1..n) /\ Cardinality(1..n) = IF 1 > n THEN 0 ELSE n - 1 + 1
    BY <1>1, FS_Interval
  <2>2. IsFiniteSet(recent) /\ m <= Cardinality(1..n)
    BY <2>1, FS_Subset
  <2> QED
    BY <1>1, <2>1, <2>2, FS_CardinalityType
<1>4. ASSUME NEW k \in 1..n, Recent(u[k]) PROVE k > n - m
  <2>1. k..n \subseteq recent
    <3> SUFFICES ASSUME NEW j \in k..n PROVE j \in 1..n /\ Recent(u[j])
      OBVIOUS
    <3>1. j \in 1..n
      BY <1>1
    <3>2. u[k] \in Nat /\ u[j] \in Nat /\ Day \in Nat
      BY <1>1, <3>1, TimeIsNat, ChartsAssumption
    <3>3. u[k] <= u[j]
      BY <1>1, <3>1, <3>2
    <3> QED
      BY <1>4, <3>1, <3>2, <3>3 DEF Recent
  <2>2. Cardinality(k..n) = n - k + 1
    <3>1. k \in Int /\ n \in Int /\ ~(k > n)
      BY <1>1
    <3> QED
      BY <3>1, FS_Interval
  <2>3. Cardinality(k..n) <= m
    BY <1>3, <2>1, FS_Subset
  <2> QED
    BY <1>1, <1>3, <2>2, <2>3
<1> HIDE DEF m
<1>5. /\ w \in Seq(Time)
      /\ Len(w) = IF n <= m THEN n ELSE m
      /\ n - Len(w) \in Nat
      /\ \A k \in 1..Len(w) : w[k] = u[k + (n - Len(w))]
  BY <1>3, NewestParts
<1> HIDE DEF w, n
<1>6. Len(w) = m
  BY <1>1, <1>3, <1>5
<1>7. \A j \in 1..n - m : ~Recent(u[j])
  BY <1>1, <1>3, <1>4
<1> QED
  BY <1>2, <1>3, <1>5, <1>6, <1>7 DEF n

\* What is left of a sensor's values: the last ones in the order of time, all of
\* them unless the others are old or too many.
LEMMA TrimmedParts ==
  ASSUME clock \in Nat, NEW v \in Seq(Time)
  PROVE  /\ Trimmed(v) \in Seq(Time)
         /\ \E place \in Bijection(1..Len(v), 1..Len(v)), more \in 0..Len(v) :
              /\ Len(Trimmed(v)) = Len(v) - more
              /\ Len(Trimmed(v)) <= MAX_ARR_ELEMS
              /\ \A k \in 1..Len(Trimmed(v)) : Trimmed(v)[k] = v[place[k + more]]
              /\ \A i, j \in 1..Len(v) : i < j => v[place[i]] <= v[place[j]]
              /\ \A i \in 1..more :
                    Recent(v[place[i]]) => Len(Trimmed(v)) = MAX_ARR_ELEMS
<1> DEFINE n == Len(v)
           s == Sorted[v]
           u == Store!Newest(s, MAX_ARR_ELEMS)
           w == OnlyRecent[u]
<1>1. n \in Nat /\ DOMAIN v = 1..n /\ \A k \in 1..n : v[k] \in Time
  BY SeqParts
<1>2. v \in Values
  BY DEF Values
<1>3. PICK place \in Bijection(1..n, 1..n) :
        /\ \A i \in 1..n : s[i] = v[place[i]]
        /\ \A i, j \in 1..n : i < j => Precedes(v, place[i], place[j])
  BY <1>2, SortedOrder
<1>4. \A i \in 1..n : place[i] \in 1..n
  BY <1>3 DEF Bijection, Injection
<1>5. \A i, j \in 1..n : i < j => v[place[i]] <= v[place[j]]
  <2> SUFFICES ASSUME NEW i \in 1..n, NEW j \in 1..n, i < j
               PROVE  v[place[i]] <= v[place[j]]
    OBVIOUS
  <2>1. v[place[i]] \in Nat /\ v[place[j]] \in Nat /\ v[place[j]] # Undefined
    BY <1>1, <1>4, TimeIsNat
  <2>2. Precedes(v, place[i], place[j])
    BY <1>3
  <2> QED
    BY <2>1, <2>2 DEF Precedes
<1>6. s \in Seq(Time) /\ Len(s) = n
  <2>1. s \in Values /\ Len(s) = n
    BY <1>2, SortedOrder
  <2>2. DOMAIN s = 1..n
    BY <2>1 DEF Values
  <2>3. \A i \in 1..n : s[i] \in Time
    BY <1>1, <1>3, <1>4
  <2> HIDE DEF s
  <2>4. s \in [1..n -> Time]
    BY <2>1, <2>2, <2>3 DEF Values
  <2> QED
    BY <1>1, <2>1, <2>4
<1> DEFINE few == Len(u)
           first == n - few
<1>7. /\ u \in Seq(Time) /\ few \in Nat /\ first \in Nat
      /\ few = IF n <= MAX_ARR_ELEMS THEN n ELSE MAX_ARR_ELEMS
      /\ \A k \in 1..few : u[k] = s[k + first]
  <2>1. MAX_ARR_ELEMS \in Nat
    BY ChartsAssumption
  <2> HIDE DEF s
  <2>2. /\ u \in Seq(Time)
        /\ Len(u) = IF n <= MAX_ARR_ELEMS THEN n ELSE MAX_ARR_ELEMS
        /\ n - Len(u) \in Nat
        /\ \A k \in 1..Len(u) : u[k] = s[k + (n - Len(u))]
    BY <1>6, <2>1, NewestParts
  <2> QED
    BY <2>2, SeqParts
<1> HIDE DEF s, u, few, first
<1>8. /\ n \in Nat /\ few \in Nat /\ first \in Nat /\ MAX_ARR_ELEMS \in Nat
      /\ few + first = n /\ few <= MAX_ARR_ELEMS
      /\ first # 0 => few = MAX_ARR_ELEMS
  <2>1. n \in Nat /\ MAX_ARR_ELEMS \in Nat
    BY <1>1, ChartsAssumption
  <2>2. /\ few \in Nat /\ first \in Nat /\ first = n - few
        /\ few = IF n <= MAX_ARR_ELEMS THEN n ELSE MAX_ARR_ELEMS
    BY <1>7 DEF first
  <2> HIDE DEF n
  <2> QED
    BY <2>1, <2>2
<1>9. ASSUME NEW k \in 1..few
      PROVE  k + first \in 1..n /\ u[k] = v[place[k + first]]
  <2>1. k + first \in 1..n
    BY <1>8
  <2> QED
    BY <1>3, <1>7, <2>1
<1>10. \A i, j \in 1..few : i < j => u[i] <= u[j]
  <2> SUFFICES ASSUME NEW i \in 1..few, NEW j \in 1..few, i < j
               PROVE  u[i] <= u[j]
    OBVIOUS
  <2>1. i + first < j + first
    BY <1>7
  <2> QED
    BY <1>5, <1>9, <2>1
<1> DEFINE old == few - Len(w)
<1>11. /\ w \in Seq(Time) /\ Len(w) \in Nat /\ old \in Nat
       /\ \A k \in 1..Len(w) : w[k] = u[k + old]
       /\ \A j \in 1..old : ~Recent(u[j])
  BY <1>7, <1>10, OnlyRecentParts DEF few
<1>12. Trimmed(v) = w
  BY DEF Trimmed, s, u
<1> DEFINE more == old + first
<1> HIDE DEF w, old
<1>13. old \in Nat /\ Len(w) \in Nat /\ Len(w) + old = few
  <2>1. old \in Nat /\ Len(w) \in Nat
    BY <1>11
  <2> QED
    BY <1>8, <2>1 DEF old
<1>14. more \in 0..n /\ Len(w) = n - more /\ Len(w) <= MAX_ARR_ELEMS
  <2> HIDE DEF n
  <2> QED
    BY <1>8, <1>13
<1>15. ASSUME NEW k \in 1..Len(w) PROVE w[k] = v[place[k + more]]
  <2>1. k + old \in 1..few /\ k + old + first = k + more
    BY <1>8, <1>13
  <2> QED
    BY <1>9, <1>11, <2>1
<1>16. ASSUME NEW i \in 1..more, Recent(v[place[i]]) PROVE Len(w) = MAX_ARR_ELEMS
  <2>1. CASE i <= first
    <3>1. few = MAX_ARR_ELEMS /\ i \in 1..n
      <4>1. i \in Nat /\ i >= 1 /\ i <= more
        BY <1>14
      <4> HIDE DEF n
      <4> QED
        BY <1>8, <1>13, <2>1, <4>1
    <3>2. ASSUME Len(w) # few PROVE FALSE
      <4>1. 1 \in 1..old /\ 1 \in 1..few
        BY <1>8, <1>13, <3>2
      <4>2. ~Recent(u[1]) /\ 1 + first \in 1..n /\ u[1] = v[place[1 + first]]
        BY <1>9, <1>11, <4>1
      <4>3. v[place[i]] <= v[place[1 + first]]
        <5>1. i < 1 + first
          BY <1>8, <2>1, <3>1
        <5> QED
          BY <1>5, <3>1, <4>2, <5>1
      <4>4. v[place[i]] \in Nat /\ v[place[1 + first]] \in Nat /\ Day \in Nat
        BY <1>1, <1>4, <3>1, <4>2, TimeIsNat, ChartsAssumption
      <4> QED
        BY <1>16, <4>2, <4>3, <4>4, SMTT(60) DEF Recent
    <3> QED
      BY <3>1, <3>2
  <2>2. CASE ~(i <= first)
    <3>1. i - first \in 1..old /\ i - first \in 1..few /\ i - first + first = i
      <4>1. i \in Nat /\ i <= more
        BY <1>14
      <4> HIDE DEF n
      <4> QED
        BY <1>8, <1>13, <2>2, <4>1
    <3> QED
      BY <1>9, <1>11, <1>16, <3>1
  <2> QED
    BY <2>1, <2>2
<1>17. w \in Seq(Time)
  BY <1>11
<1> HIDE DEF more
<1> QED
  BY <1>3, <1>5, <1>12, <1>14, <1>15, <1>16, <1>17

\* The places of the values of a time or later.
Since(values, t) == {k \in DOMAIN values : t <= values[k]}

\* Every place is that of one value.
LEMMA PlaceFacts ==
  ASSUME NEW n \in Nat, NEW place \in Bijection(1..n, 1..n)
  PROVE  /\ \A i \in 1..n : place[i] \in 1..n
         /\ \A i, j \in 1..n : place[i] = place[j] => i = j
         /\ \A k \in 1..n : \E i \in 1..n : place[i] = k
  BY DEF Bijection, Injection, IsInjective, Surjection

\* The reading that is gone is older than those that fill the line.
LEMMA TrimmedValues ==
  ASSUME clock \in Nat, NEW v \in Seq(Time)
  PROVE  /\ Trimmed(v) \in Seq(Time)
         /\ Len(Trimmed(v)) <= MAX_ARR_ELEMS
         /\ Elements(Trimmed(v)) \subseteq Elements(v)
         /\ \A t \in Elements(v) :
              Recent(t) /\ t \notin Elements(Trimmed(v))
                => /\ Full(Trimmed(v))
                   /\ \A other \in Elements(Trimmed(v)) : t < other
         /\ Full(v) /\ (\A t \in Elements(v) : Recent(t)) => Full(Trimmed(v))
<1> DEFINE n == Len(v)
           w == Trimmed(v)
<1>1. n \in Nat /\ DOMAIN v = 1..n /\ \A k \in 1..n : v[k] \in Nat
  BY SeqParts, TimeIsNat
<1>2. PICK place \in Bijection(1..n, 1..n), more \in 0..n :
        /\ Len(w) = n - more
        /\ Len(w) <= MAX_ARR_ELEMS
        /\ \A k \in 1..Len(w) : w[k] = v[place[k + more]]
        /\ \A i, j \in 1..n : i < j => v[place[i]] <= v[place[j]]
        /\ \A i \in 1..more : Recent(v[place[i]]) => Len(w) = MAX_ARR_ELEMS
  BY TrimmedParts
<1>3. w \in Seq(Time) /\ Len(w) \in Nat /\ DOMAIN w = 1..Len(w)
  BY TrimmedParts, SeqParts
<1> HIDE DEF w
<1>4. more \in Nat /\ Len(w) + more = n
  BY <1>1, <1>2, <1>3
<1>5. \A k \in 1..Len(w) : k + more \in 1..n
  <2> HIDE DEF n
  <2> QED
    BY <1>3, <1>4
<1>6. /\ \A i \in 1..n : place[i] \in 1..n
      /\ \A k \in 1..n : \E i \in 1..n : place[i] = k
  BY <1>1, <1>2, PlaceFacts
<1>7. Elements(w) \subseteq Elements(v)
  <2> SUFFICES ASSUME NEW k \in 1..Len(w) PROVE w[k] \in Elements(v)
    BY <1>3 DEF Elements
  <2>1. w[k] = v[place[k + more]] /\ place[k + more] \in 1..n
    BY <1>2, <1>5, <1>6
  <2> QED
    BY <1>1, <2>1 DEF Elements
<1>8. ASSUME NEW t \in Elements(v), Recent(t), t \notin Elements(w)
      PROVE  Full(w) /\ \A other \in Elements(w) : t < other
  <2>1. PICK i \in 1..n : t = v[place[i]]
    BY <1>1, <1>6, SMTT(60) DEF Elements
  <2>2. i <= more
    <3> SUFFICES ASSUME ~(i <= more) PROVE FALSE
      BY <1>1, <1>4
    <3>1. i - more \in 1..Len(w) /\ (i - more) + more = i
      BY <1>1, <1>3, <1>4
    <3>2. w[i - more] = t
      BY <1>2, <2>1, <3>1
    <3> QED
      BY <1>3, <1>8, <3>1, <3>2 DEF Elements
  <2>3. Len(w) = MAX_ARR_ELEMS
    <3>1. i \in 1..more
      BY <1>4, <2>2
    <3> QED
      BY <1>2, <1>8, <2>1, <3>1
  <2>4. ASSUME NEW other \in Elements(w) PROVE t < other
    <3>1. PICK k \in 1..Len(w) : other = w[k]
      BY <1>3 DEF Elements
    <3>2. k + more \in 1..n /\ i < k + more /\ other = v[place[k + more]]
      BY <1>2, <1>3, <1>4, <1>5, <2>2, <3>1
    <3>3. t <= other
      BY <1>2, <2>1, <3>2
    <3>4. t \in Nat /\ other \in Nat
      BY <1>1, <1>6, <2>1, <3>2
    <3> QED
      BY <1>8, <3>3, <3>4
  <2> QED
    BY <1>3, <2>3, <2>4 DEF Full
<1>9. ASSUME Full(v), \A t \in Elements(v) : Recent(t) PROVE Full(w)
  <2>1. n >= MAX_ARR_ELEMS /\ MAX_ARR_ELEMS \in Nat
    BY <1>9, ChartsAssumption DEF Full
  <2>2. CASE more = 0
    BY <1>1, <1>2, <1>3, <1>4, <2>1, <2>2 DEF Full
  <2>3. CASE more # 0
    <3>1. 1 \in 1..more /\ 1 \in 1..n
      BY <1>1, <1>3, <1>4, <2>3
    <3>2. v[place[1]] \in Elements(v)
      BY <1>1, <1>6, <3>1 DEF Elements
    <3>3. Len(w) = MAX_ARR_ELEMS
      BY <1>2, <1>9, <3>1, <3>2
    <3> QED
      BY <2>1, <3>3 DEF Full
  <2> QED
    BY <2>2, <2>3
<1> QED
  BY <1>2, <1>3, <1>7, <1>8, <1>9 DEF w

\* Of the values since a time no more are left than there were, and all that are
\* recent when there were no more than the limit.
LEMMA TrimmedSince ==
  ASSUME clock \in Nat, NEW v \in Seq(Time), NEW t \in Time
  PROVE  /\ Cardinality(Since(Trimmed(v), t)) <= Cardinality(Since(v, t))
         /\ Cardinality(Since(v, t)) <= MAX_ARR_ELEMS
              => \A u \in Elements(v) :
                    t <= u /\ Recent(u) => u \in Elements(Trimmed(v))
<1> DEFINE n == Len(v)
           w == Trimmed(v)
           S == Since(v, t)
<1>1. n \in Nat /\ DOMAIN v = 1..n /\ \A k \in 1..n : v[k] \in Nat
  BY SeqParts, TimeIsNat
<1>2. PICK place \in Bijection(1..n, 1..n), more \in 0..n :
        /\ Len(w) = n - more
        /\ Len(w) <= MAX_ARR_ELEMS
        /\ \A k \in 1..Len(w) : w[k] = v[place[k + more]]
        /\ \A i, j \in 1..n : i < j => v[place[i]] <= v[place[j]]
        /\ \A i \in 1..more : Recent(v[place[i]]) => Len(w) = MAX_ARR_ELEMS
  BY TrimmedParts
<1>3. w \in Seq(Time) /\ Len(w) \in Nat /\ DOMAIN w = 1..Len(w)
  BY TrimmedParts, SeqParts
<1> HIDE DEF w
<1>4. more \in Nat /\ Len(w) + more = n
  BY <1>1, <1>2, <1>3
<1>5. \A k \in 1..Len(w) : k + more \in 1..n
  <2> HIDE DEF n
  <2> QED
    BY <1>3, <1>4
<1>6. /\ \A i \in 1..n : place[i] \in 1..n
      /\ \A i, j \in 1..n : place[i] = place[j] => i = j
      /\ \A k \in 1..n : \E i \in 1..n : place[i] = k
  BY <1>1, <1>2, PlaceFacts
<1>7. IsFiniteSet(S) /\ Cardinality(S) \in Nat
  <2>1. IsFiniteSet(1..n) /\ S \in SUBSET (1..n)
    BY <1>1, FS_Interval DEF Since
  <2> HIDE DEF S
  <2> QED
    BY <2>1, FS_Subset, FS_CardinalityType
<1>8. Cardinality(Since(w, t)) <= Cardinality(S)
  <2> DEFINE R == Since(w, t)
             f == [k \in R |-> place[k + more]]
  <2>1. ASSUME NEW k \in R PROVE k \in 1..Len(w) /\ place[k + more] \in S
    <3>1. k \in 1..Len(w) /\ t <= w[k]
      BY <1>3 DEF Since
    <3>2. k + more \in 1..n /\ w[k] = v[place[k + more]]
      BY <1>2, <1>5, <3>1
    <3> QED
      BY <1>1, <1>6, <3>1, <3>2 DEF Since
  <2>2. ASSUME NEW j \in R, NEW k \in R, f[j] = f[k] PROVE j = k
    <3>1. j + more = k + more
      BY <1>5, <1>6, <2>1, <2>2
    <3> QED
      BY <1>4, <2>1, <3>1
  <2>3. f \in [R -> S]
    BY <2>1
  <2> HIDE DEF R, f, S
  <2>4. f \in Injection(R, S)
    BY <2>2, <2>3 DEF Injection, IsInjective
  <2> QED
    BY <1>7, <2>4, FS_Injection DEF R
<1>9. ASSUME Cardinality(S) <= MAX_ARR_ELEMS,
             NEW u \in Elements(v), t <= u, Recent(u), u \notin Elements(w)
      PROVE  FALSE
  <2>1. PICK i \in 1..n : u = v[place[i]]
    <3>1. PICK k \in 1..n : u = v[k]
      BY <1>1 DEF Elements
    <3>2. PICK i \in 1..n : place[i] = k
      BY <1>6
    <3> QED
      BY <3>1, <3>2
  <2>2. i <= more
    <3> SUFFICES ASSUME ~(i <= more) PROVE FALSE
      BY <1>1, <1>4
    <3>1. i - more \in 1..Len(w) /\ (i - more) + more = i
      BY <1>1, <1>3, <1>4
    <3>2. w[i - more] = u
      BY <1>2, <2>1, <3>1
    <3> QED
      BY <1>3, <1>9, <3>1, <3>2 DEF Elements
  <2>3. Len(w) = MAX_ARR_ELEMS
    <3>1. i \in 1..more
      BY <1>4, <2>2
    <3> QED
      BY <1>2, <1>9, <2>1, <3>1
  <2> DEFINE f == [j \in i..n |-> place[j]]
  <2>4. ASSUME NEW j \in i..n PROVE j \in 1..n /\ place[j] \in S
    <3>1. j \in 1..n /\ (j = i \/ i < j)
      BY <1>1
    <3>2. v[place[j]] \in Nat /\ u \in Nat /\ t \in Nat
      BY <1>1, <1>6, <2>1, <3>1, TimeIsNat
    <3>3. u <= v[place[j]]
      <4>1. CASE j = i
        BY <2>1, <3>2, <4>1
      <4>2. CASE i < j
        BY <1>2, <2>1, <3>1, <4>2
      <4> QED
        BY <3>1, <4>1, <4>2
    <3>4. t <= v[place[j]]
      BY <1>9, <3>2, <3>3
    <3> QED
      BY <1>1, <1>6, <3>1, <3>4 DEF Since
  <2>5. f \in Injection(i..n, S)
    <3>1. f \in [i..n -> S]
      BY <2>4
    <3>2. \A j, k \in i..n : f[j] = f[k] => j = k
      BY <1>6, <2>4
    <3> HIDE DEF f, S
    <3> QED
      BY <3>1, <3>2 DEF Injection, IsInjective
  <2>6. Cardinality(i..n) <= Cardinality(S)
    <3> HIDE DEF f, S
    <3> QED
      BY <1>7, <2>5, FS_Injection
  <2>7. Cardinality(i..n) = n - i + 1
    <3>1. i \in Int /\ n \in Int /\ ~(i > n)
      BY <1>1
    <3> HIDE DEF n
    <3> QED
      BY <3>1, FS_Interval
  <2> HIDE DEF n, S
  <2> QED
    BY <1>1, <1>3, <1>4, <1>7, <1>9, <2>2, <2>3, <2>6, <2>7
<1> QED
  BY <1>8, <1>9 DEF w

\* A reading that is not there stays, for Array.sort puts it last.
LEMMA CutValues ==
  ASSUME NEW v \in Values, Undefined \in Elements(v)
  PROVE  LET w == Store!Newest(Sorted[v], MAX_ARR_ELEMS)
         IN  /\ w \in Values /\ Undefined \in Elements(w)
             /\ Elements(w) \subseteq Elements(v)
<1> DEFINE n == Len(v)
           s == Sorted[v]
           w == Store!Newest(s, MAX_ARR_ELEMS)
           more == Len(s) - Len(w)
<1>1. n \in Nat /\ DOMAIN v = 1..n /\ \A k \in 1..n : v[k] \in Time \cup {Undefined}
  BY SeqParts DEF Values
<1>2. PICK place \in Bijection(1..n, 1..n) :
        /\ \A i \in 1..n : s[i] = v[place[i]]
        /\ \A i, j \in 1..n : i < j => Precedes(v, place[i], place[j])
  BY SortedOrder
<1>3. /\ \A i \in 1..n : place[i] \in 1..n
      /\ \A k \in 1..n : \E i \in 1..n : place[i] = k
  BY <1>1, <1>2, PlaceFacts
<1>4. s \in Values /\ Len(s) = n
  BY SortedOrder
<1> HIDE DEF s
<1>5. /\ w \in Values /\ more \in Nat
      /\ Len(w) = IF n <= MAX_ARR_ELEMS THEN n ELSE MAX_ARR_ELEMS
      /\ \A k \in 1..Len(w) : w[k] = s[k + more]
  <2>1. MAX_ARR_ELEMS \in Nat
    BY ChartsAssumption
  <2> QED
    BY <1>4, <2>1, NewestParts DEF Values
<1>6. Len(w) \in Nat /\ DOMAIN w = 1..Len(w)
  BY <1>5, SeqParts DEF Values
<1> HIDE DEF w
<1>7. Len(w) + more = n
  BY <1>1, <1>4, <1>5, <1>6
<1>8. Elements(w) \subseteq Elements(v)
  <2> SUFFICES ASSUME NEW k \in 1..Len(w) PROVE w[k] \in Elements(v)
    BY <1>6 DEF Elements
  <2>1. k + more \in 1..n
    BY <1>1, <1>5, <1>6, <1>7
  <2>2. w[k] = v[place[k + more]] /\ place[k + more] \in 1..n
    BY <1>2, <1>3, <1>5, <2>1
  <2> QED
    BY <1>1, <2>2 DEF Elements
<1>9. PICK i \in 1..n : v[place[i]] = Undefined
  BY <1>1, <1>3 DEF Elements
<1>10. n >= 1 /\ n \in 1..n
  BY <1>1, <1>9
<1>11. s[n] = Undefined
  <2>1. CASE i = n
    BY <1>2, <1>9, <1>10, <2>1
  <2>2. CASE i < n
    <3>1. Precedes(v, place[i], place[n])
      BY <1>2, <1>10, <2>2
    <3>2. v[place[i]] = v[place[n]]
      BY <1>9, <3>1 DEF Precedes
    <3> QED
      BY <1>2, <1>9, <1>10, <3>2
  <2>3. i = n \/ i < n
    <3>1. i \in Int /\ n \in Int /\ i <= n
      BY <1>1
    <3> QED
      BY <3>1
  <2> QED
    BY <2>1, <2>2, <2>3
<1>12. Undefined \in Elements(w)
  <2>1. Len(w) \in 1..Len(w)
    BY <1>1, <1>5, <1>6, <1>10, ChartsAssumption
  <2>2. w[Len(w)] = s[n]
    BY <1>5, <1>7, <2>1
  <2> QED
    BY <1>6, <1>11, <2>1, <2>2 DEF Elements
<1> QED
  BY <1>5, <1>8, <1>12 DEF w, s

\* The newest reading of a store that has one.
LEMMA LastReading ==
  ASSUME NEW s \in Seq(Time), s # <<>>
  PROVE  /\ Len(s) \in Nat \ {0} /\ s[Len(s)] \in Time
         /\ Store!Newest(s, 1) = <<s[Len(s)]>>
<1>1. Len(s) \in Nat \ {0} /\ s[Len(s)] \in Time
  <2>1. Len(s) \in Nat /\ Len(s) # 0
    OBVIOUS
  <2>2. Len(s) \in 1..Len(s)
    BY <2>1
  <2> QED
    BY <2>1, <2>2
<1> DEFINE w == Store!Newest(s, 1)
<1>2. /\ w \in Seq(Time) /\ Len(w) = 1
      /\ w[1] = s[Len(s)]
  <2>1. /\ w \in Seq(Time)
        /\ Len(w) = IF Len(s) <= 1 THEN Len(s) ELSE 1
        /\ \A k \in 1..Len(w) : w[k] = s[k + (Len(s) - Len(w))]
    BY NewestParts, ZenonT(60)
  <2> HIDE DEF w
  <2>2. Len(w) = 1
    <3>1. PICK n \in Nat \ {0} : n = Len(s)
      BY <1>1
    <3>2. Len(w) = IF n <= 1 THEN n ELSE 1
      BY <2>1, <3>1
    <3> QED
      BY <3>2
  <2>3. 1 + (Len(s) - 1) = Len(s) /\ 1 \in 1..1
    BY <1>1
  <2>4. w[1] = s[1 + (Len(s) - 1)]
    BY <2>1, <2>2, <2>3
  <2> QED
    BY <2>1, <2>2, <2>3, <2>4
<1> HIDE DEF w
<1>3. w = <<w[1]>>
  BY <1>2
<1> QED
  BY <1>1, <1>2, <1>3 DEF w

\* What the page knows of a sensor after an answer or an event.
LEMMA AddedData ==
  ASSUME \A id \in DOMAIN data : data[id] \in Values,
         NEW answer, answer.values \in Seq(Time)
  PROVE  LET d    == addDataToSensor(answer)
             name == answer.identifier
         IN  /\ DOMAIN d = DOMAIN data \cup {name}
             /\ \A id \in DOMAIN d : d[id] \in Values
             /\ \A id \in DOMAIN data : id # name => d[id] = data[id]
             /\ name \in DOMAIN data
                  => d[name] = Append(data[name], First(answer.values))
             /\ name \notin DOMAIN data => d[name] = answer.values
<1> DEFINE d    == addDataToSensor(answer)
           name == answer.identifier
<1>1. First(answer.values) \in Time \cup {Undefined}
  BY DEF First
<1>2. answer.values \in Values
  BY DEF Values
<1>3. CASE name \in DOMAIN data
  <2>1. d = [data EXCEPT ![name] = Append(data[name], First(answer.values))]
    BY <1>3 DEF addDataToSensor
  <2>2. Append(data[name], First(answer.values)) \in Values
    BY <1>1, <1>3 DEF Values
  <2> HIDE DEF d, name
  <2>3. /\ DOMAIN d = DOMAIN data
        /\ d[name] = Append(data[name], First(answer.values))
        /\ \A id \in DOMAIN data : id # name => d[id] = data[id]
    BY <1>3, <2>1
  <2> QED
    BY <1>3, <2>2, <2>3 DEF d, name
<1>4. CASE name \notin DOMAIN data
  <2>1. d = [id \in DOMAIN data \cup {name} |->
               IF id = name THEN answer.values ELSE data[id]]
    BY <1>4 DEF addDataToSensor
  <2> HIDE DEF d, name
  <2>2. /\ DOMAIN d = DOMAIN data \cup {name}
        /\ d[name] = answer.values
        /\ \A id \in DOMAIN data : d[id] = data[id]
    BY <1>4, <2>1
  <2> QED
    BY <1>2, <1>4, <2>2 DEF d, name
<1> QED
  BY <1>3, <1>4

\* A new reading leaves a sensor's values as they are only when it throws before.
LEMMA RemovedData ==
  ASSUME clock \in Nat, NEW d, \A id \in DOMAIN d : d[id] \in Values,
         removeOlderReadingsThanOneDay(d)
  PROVE  /\ DOMAIN data' = DOMAIN d
         /\ Throwing(data)' = Throwing(d)
         /\ \A id \in DOMAIN d : /\ data'[id] \in Values
                                 /\ Elements(data'[id]) \subseteq Elements(d[id])
         /\ \A id \in DOMAIN d \ Throwing(d) :
              /\ d[id] \in Seq(Time)
              /\ \/ data'[id] = Trimmed(d[id])
                 \/ data'[id] = d[id] /\ Throwing(d) # {}
<1> DEFINE Cut(id) == Store!Newest(Sorted[d[id]], MAX_ARR_ELEMS)
<1>1. ASSUME NEW id \in DOMAIN d, id \notin Throwing(d)
      PROVE  d[id] \in Seq(Time)
  <2>1. d[id] \in Seq(Time \cup {Undefined}) /\ Undefined \notin Elements(d[id])
    BY <1>1 DEF Values, Throwing
  <2>2. /\ Len(d[id]) \in Nat /\ DOMAIN d[id] = 1..Len(d[id])
        /\ \A k \in 1..Len(d[id]) : d[id][k] \in Time \cup {Undefined}
        /\ d[id] \in [1..Len(d[id]) -> Time \cup {Undefined}]
    BY <2>1, SeqParts
  <2>3. \A k \in 1..Len(d[id]) : d[id][k] \in Time
    BY <2>1, <2>2 DEF Elements
  <2>4. d[id] \in [1..Len(d[id]) -> Time]
    BY <2>2, <2>3
  <2> QED
    BY <2>2, <2>4
<1>2. /\ DOMAIN data' = DOMAIN d
      /\ \A id \in DOMAIN d \ Throwing(d) :
           \/ data'[id] = Trimmed(d[id])
           \/ data'[id] = d[id] /\ Throwing(d) # {}
      /\ \A id \in Throwing(d) : data'[id] = Cut(id) \/ data'[id] = d[id]
  <2>1. CASE Throwing(d) = {}
    BY <2>1 DEF removeOlderReadingsThanOneDay
  <2>2. CASE Throwing(d) # {}
    <3>1. PICK done \in SUBSET (DOMAIN d \ Throwing(d)), cut \in Throwing(d) :
            data' = [id \in DOMAIN d |->
                       CASE id \in done -> Trimmed(d[id])
                         [] id \in {cut} -> Cut(id)
                         [] OTHER -> d[id]]
      BY <2>2 DEF removeOlderReadingsThanOneDay
    <3>2. Throwing(d) \subseteq DOMAIN d
      BY DEF Throwing
    <3> HIDE DEF Cut
    <3> QED
      BY <2>2, <3>1, <3>2
  <2> QED
    BY <2>1, <2>2
<1>3. ASSUME NEW id \in Throwing(d)
      PROVE  /\ id \in DOMAIN d
             /\ data'[id] \in Values /\ Undefined \in Elements(data'[id])
             /\ Elements(data'[id]) \subseteq Elements(d[id])
  <2>1. id \in DOMAIN d /\ d[id] \in Values /\ Undefined \in Elements(d[id])
    BY DEF Throwing
  <2>2. CASE data'[id] = Cut(id)
    BY <2>1, <2>2, CutValues
  <2>3. CASE data'[id] = d[id]
    BY <2>1, <2>3
  <2> HIDE DEF Cut
  <2> QED
    BY <1>2, <2>1, <2>2, <2>3
<1>4. ASSUME NEW id \in DOMAIN d, id \notin Throwing(d)
      PROVE  /\ data'[id] \in Values /\ Undefined \notin Elements(data'[id])
             /\ Elements(data'[id]) \subseteq Elements(d[id])
  <2>1. Undefined \notin Elements(d[id]) /\ d[id] \in Seq(Time) /\ d[id] \in Values
    BY <1>1, <1>4 DEF Throwing
  <2>2. CASE data'[id] = Trimmed(d[id])
    <3>1. /\ Trimmed(d[id]) \in Seq(Time)
          /\ Elements(Trimmed(d[id])) \subseteq Elements(d[id])
      BY <2>1, TrimmedValues
    <3>2. Trimmed(d[id]) \in Values
      BY <3>1 DEF Values
    <3> QED
      BY <2>1, <2>2, <3>1, <3>2
  <2>3. CASE data'[id] = d[id]
    BY <2>1, <2>3
  <2> QED
    BY <1>2, <1>4, <2>2, <2>3
<1>5. Throwing(data)' = Throwing(d)
  BY <1>2, <1>3, <1>4 DEF Throwing
<1> QED
  BY <1>1, <1>2, <1>3, <1>4, <1>5

----------------------------------------------------------------------------
Answered == [identifier : IDs, values : Seq(Time)]

\* What an event and an answer look like, and what is there when it is told.
Shapes ==
  /\ kept \in [IDs -> Seq(Time)]
  /\ events \in Seq(Answered)
  /\ pending # None => kept[pending] # <<>>
  /\ at = "mapping" => response = None \/ response.sensors \in SUBSET IDs
  /\ at \in IDs /\ response # None =>
       /\ response \in Answered /\ response.identifier = at
       /\ Len(response.values) <= Size

\* The loop asks for every sensor once, and what it has yet to ask for did not
\* come before any event.
Loop ==
  /\ at \notin todo
  /\ whole \cap (todo \cup {at}) = {}
  /\ at \in {"mapping", "null"} => whole = {}

\* A sensor whose history came first has only readings that are there.
Unbroken == Throwing(data) \cap whole = {}

Sound == TypeOK /\ Shapes /\ Loop /\ Unbroken

LEMMA Names ==
  /\ "mapping" \notin IDs /\ "loaded" \notin IDs /\ "failed" \notin IDs
  /\ "closed" \notin IDs /\ "null" \notin IDs /\ None \notin IDs
  BY ChartsAssumption

\* What Storage.getLastReading answers, where there is one.
Last(id) == kept[id][Len(kept[id])]

\* A new reading in the host's store, and then on the stream, if that is open.
LEMMA ReadingAdded ==
  ASSUME Sound, NEW id \in IDs, addReading(id)
  PROVE  /\ pending = None /\ pending' = id
         /\ clock' = clock + 1 /\ clock' \in Time
         /\ kept' \in [IDs -> Seq(Time)]
         /\ \A other \in IDs : other # id => kept'[other] = kept[other]
         /\ Len(kept'[id]) <= Size /\ kept'[id] # <<>>
         /\ Last(id)' = clock'
         /\ Elements(kept'[id]) \subseteq Elements(kept[id]) \cup {clock'}
<1>1. /\ pending = None /\ pending' = id
      /\ clock' = clock + 1 /\ clock' \in Time
  <2>1. /\ pending = None /\ pending' = id
        /\ clock' = clock + 1 /\ clock < MaxTime
    BY DEF addReading
  <2>2. clock \in 0..MaxTime /\ MaxTime \in Nat
    BY ChartsAssumption DEF Sound, TypeOK, Time
  <2> QED
    BY <2>1, <2>2 DEF Time
<1>2. kept \in [IDs -> Seq(Time)] /\ Size \in Nat \ {0}
  BY ChartsAssumption DEF Sound, Shapes
<1>3. PICK s \in Seq(Time) : s = Append(kept[id], clock')
  <2>1. kept[id] \in Seq(Time)
    BY <1>2
  <2>2. Append(kept[id], clock') \in Seq(Time)
    BY <1>1, <2>1
  <2> QED
    BY <2>2
<1>4. /\ Len(s) = Len(kept[id]) + 1 /\ Len(kept[id]) \in Nat
      /\ \A k \in 1..Len(kept[id]) : s[k] = kept[id][k]
      /\ s[Len(s)] = clock'
  BY <1>1, <1>2, <1>3
<1>5. PICK w : w = Store!Newest(s, Size)
  OBVIOUS
<1>6. /\ w \in Seq(Time)
      /\ Len(w) = IF Len(s) <= Size THEN Len(s) ELSE Size
      /\ Len(s) - Len(w) \in Nat
      /\ \A k \in 1..Len(w) : w[k] = s[k + (Len(s) - Len(w))]
  BY <1>2, <1>5, NewestParts
<1>7. kept' = [kept EXCEPT ![id] = w]
  BY <1>3, <1>5 DEF addReading, Store!Add
<1>8. /\ kept'[id] = w /\ kept' \in [IDs -> Seq(Time)]
      /\ \A other \in IDs : other # id => kept'[other] = kept[other]
  BY <1>2, <1>6, <1>7
<1>9. PICK n \in Nat \ {0} : n = Len(s)
  BY <1>4
<1>10. PICK m \in Nat : m = Len(w)
  BY <1>6
<1>11. m = (IF n <= Size THEN n ELSE Size) /\ m # 0 /\ m <= Size /\ m <= n
  BY <1>2, <1>6, <1>9, <1>10
<1>12. w[Len(w)] = clock'
  <2>1. m \in 1..m /\ m + (n - m) = n
    BY <1>11
  <2>2. w[m] = s[m + (n - m)]
    BY <1>6, <1>9, <1>10, <2>1
  <2> QED
    BY <1>4, <1>9, <1>10, <2>1, <2>2
<1>13. Elements(w) \subseteq Elements(kept[id]) \cup {clock'}
  <2> SUFFICES ASSUME NEW k \in 1..m
               PROVE  w[k] \in Elements(kept[id]) \cup {clock'}
    BY <1>6, <1>10, SeqParts DEF Elements
  <2>1. k + (n - m) \in 1..n /\ w[k] = s[k + (n - m)]
    BY <1>6, <1>9, <1>10, <1>11
  <2>2. PICK j \in 1..n : j = k + (n - m)
    BY <2>1
  <2>3. CASE j = n
    BY <1>4, <1>9, <2>1, <2>2, <2>3
  <2>4. CASE j # n
    <3>1. j \in 1..Len(kept[id]) /\ w[k] = kept[id][j]
      <4>1. PICK l \in Nat : l = Len(kept[id])
        BY <1>4
      <4>2. j \in 1..l
        BY <1>4, <1>9, <2>2, <2>4, <4>1
      <4> QED
        BY <1>4, <2>1, <2>2, <4>1, <4>2
    <3>2. DOMAIN kept[id] = 1..Len(kept[id])
      BY <1>2
    <3> QED
      BY <3>1, <3>2 DEF Elements
  <2> QED
    BY <2>3, <2>4
<1> QED
  BY <1>1, <1>6, <1>8, <1>10, <1>11, <1>12, <1>13 DEF Last

LEMMA EventSent ==
  ASSUME Sound, sendEvent
  PROVE  /\ pending \in IDs /\ pending' = None
         /\ Last(pending) \in Time
         /\ \/ /\ events' = Append(events, Store!Answer(pending, <<Last(pending)>>))
               /\ Len(events) < QueueLength
               /\ UNCHANGED lost
            \/ /\ lost' = lost \cup {<<pending, Last(pending)>>}
               /\ UNCHANGED events
         /\ UNCHANGED <<clock, mapped, null, kept, restarts, stream, page, whole>>
<1>1. pending # None /\ pending \in IDs
  BY DEF sendEvent, Send, Sound, TypeOK
<1>2. kept[pending] \in Seq(Time) /\ kept[pending] # <<>>
  BY <1>1 DEF Sound, Shapes
<1>3. /\ Last(pending) \in Time
      /\ Store!Newest(kept[pending], 1) = <<Last(pending)>>
  BY <1>2, LastReading DEF Last
<1>4. PICK t \in Time : t = Last(pending)
  BY <1>3
<1>5. Elements(<<t>>) = {t}
  BY DEF Elements
<1>6. Send(Store!Answer(pending, <<t>>))
  BY <1>3, <1>4 DEF sendEvent
<1>7. Store!Answer(pending, <<t>>).values = <<t>>
  BY DEF Store!Answer
<1>8. {<<pending, u>> : u \in Elements(<<t>>)} = {<<pending, t>>}
  BY <1>5
<1> QED
  BY <1>1, <1>4, <1>6, <1>7, <1>8 DEF Send

\* What an event does to the page: d is the page's data with the reading in it
\* and nothing removed yet.
LEMMA ReadingHandled ==
  ASSUME Sound, newReading
  PROVE  /\ events # <<>> /\ events' = Tail(events)
         /\ UNCHANGED <<clock, host, stream, loading, lost, whole>>
         /\ \E id \in IDs, t \in Time, d \in {addDataToSensor(Head(events))} :
              /\ events[1] = Store!Answer(id, <<t>>)
              /\ DOMAIN d = DOMAIN data \cup {id} /\ DOMAIN data' = DOMAIN d
              /\ Throwing(data)' = Throwing(d)
              /\ \A other \in DOMAIN data : other # id => d[other] = data[other]
              /\ id \in DOMAIN data => d[id] = Append(data[id], t)
              /\ id \notin DOMAIN data => d[id] = <<t>>
              /\ \A other \in DOMAIN d :
                    /\ data'[other] \in Values
                    /\ Elements(data'[other]) \subseteq Elements(d[other])
              /\ \A other \in DOMAIN d \ Throwing(d) :
                    /\ d[other] \in Seq(Time)
                    /\ \/ data'[other] = Trimmed(d[other])
                       \/ data'[other] = d[other] /\ Throwing(d) # {}
<1>1. /\ events # <<>> /\ events' = Tail(events)
      /\ UNCHANGED <<clock, host, stream, loading, lost, whole>>
  BY DEF newReading
<1>2. PICK event : event = Head(events)
  OBVIOUS
<1>3. event = events[1] /\ 1 \in DOMAIN events
  <2>1. events \in Seq(Answered)
    BY DEF Sound, Shapes
  <2> QED
    BY <1>1, <1>2, <2>1
<1>4. /\ event \in [identifier : IDs, values : Seq(Time)]
      /\ Len(event.values) = 1
  <2>1. events \in Seq(Answered)
    BY DEF Sound, Shapes
  <2>2. \A k \in DOMAIN events : events[k] \in Answered
    BY <2>1
  <2>3. \A k \in DOMAIN events : Len(events[k].values) = 1
    BY DEF Sound, TypeOK
  <2> QED
    BY <1>3, <2>2, <2>3 DEF Answered
<1>5. PICK id \in IDs : id = event.identifier
  BY <1>4
<1>6. PICK t \in Time : event.values = <<t>>
  BY <1>4
<1>7. event = Store!Answer(id, <<t>>)
  BY <1>4, <1>5, <1>6 DEF Store!Answer
<1>8. PICK d \in {addDataToSensor(Head(events))} :
        d = addDataToSensor(event) /\ removeOlderReadingsThanOneDay(d)
  BY <1>2 DEF newReading
<1>9. First(event.values) = t
  BY <1>6 DEF First
<1>10. \A other \in DOMAIN data : data[other] \in Values
  BY DEF Sound, TypeOK
<1>11. /\ DOMAIN d = DOMAIN data \cup {id}
       /\ \A other \in DOMAIN d : d[other] \in Values
       /\ \A other \in DOMAIN data : other # id => d[other] = data[other]
       /\ id \in DOMAIN data => d[id] = Append(data[id], t)
       /\ id \notin DOMAIN data => d[id] = <<t>>
  BY <1>4, <1>5, <1>6, <1>8, <1>9, <1>10, AddedData
<1>12. clock \in Nat
  BY TimeIsNat DEF Sound, TypeOK
<1>13. /\ DOMAIN data' = DOMAIN d
       /\ Throwing(data)' = Throwing(d)
       /\ \A other \in DOMAIN d : /\ data'[other] \in Values
                                  /\ Elements(data'[other]) \subseteq Elements(d[other])
       /\ \A other \in DOMAIN d \ Throwing(d) :
            /\ d[other] \in Seq(Time)
            /\ \/ data'[other] = Trimmed(d[other])
               \/ data'[other] = d[other] /\ Throwing(d) # {}
  BY <1>8, <1>11, <1>12, RemovedData
<1>14. events[1] = Store!Answer(id, <<t>>)
  BY <1>3, <1>7
<1> QED
  BY <1>1, <1>11, <1>13, <1>14, Zenon

\* The loop goes on, or ends.
LEMMA Requested ==
  ASSUME Sound, NEW rest \in SUBSET IDs, Ask(rest)
  PROVE  /\ at' \in IDs \cup {"loaded"} /\ todo' \subseteq rest
         /\ at' \in IDs => at' \in rest /\ at' \notin todo'
         /\ at' \notin {"mapping", "null"}
  BY Names DEF Ask

LEMMA AnswerHandled ==
  ASSUME initialFetchSensorsData
  PROVE  /\ at \in IDs /\ response # None /\ response' = None
         /\ data' = addDataToSensor(response)
         /\ whole' = IF at \in DOMAIN data THEN whole ELSE whole \cup {at}
         /\ Ask(todo) \/ (at' = "failed" /\ todo' = {})
         /\ UNCHANGED <<clock, host, network, lost>>
<1>1. CASE Throwing(data') = {}
  BY <1>1 DEF initialFetchSensorsData
<1>2. CASE Throwing(data') # {}
  BY <1>2 DEF initialFetchSensorsData
<1> QED
  BY <1>1, <1>2

LEMMA SoundInit == Init => Sound
<1> SUFFICES ASSUME Init PROVE Sound
  OBVIOUS
<1>1. 0 \in Time /\ 0 \in 0..MaxRestarts /\ Size \in Nat /\ QueueLength \in Nat
  BY ChartsAssumption DEF Time
<1>2. \A id \in IDs : kept[id] = <<>>
  BY DEF Init
<1>3. DOMAIN data = {}
  BY DEF Init, NoData
<1>4. TypeOK
  <2>1. mapped \subseteq IDs /\ null \in BOOLEAN
    BY DEF Init
  <2> QED
    BY <1>1, <1>2, <1>3, <2>1 DEF Init, TypeOK
<1>5. Shapes
  BY Names DEF Init, Shapes
<1>6. Loop /\ Unbroken
  BY <1>3 DEF Init, Loop, Unbroken
<1> QED
  BY <1>4, <1>5, <1>6 DEF Sound

LEMMA SoundStep == Sound /\ [Next]_vars => Sound'
<1> SUFFICES ASSUME Sound, [Next]_vars PROVE Sound'
  OBVIOUS
<1> USE DEF Sound, TypeOK, Shapes, Loop, Unbroken, host, network, loading, page
<1>1. CASE Tick
  <2>1. clock' \in Time
    BY <1>1, ChartsAssumption DEF Tick, Time
  <2> QED
    BY <1>1, <2>1 DEF Tick, Throwing
<1>2. CASE sendEvent
  <2>1. /\ pending \in IDs /\ pending' = None /\ Last(pending) \in Time
        /\ UNCHANGED <<clock, mapped, null, kept, restarts, stream, page, whole>>
    BY <1>2, EventSent
  <2>2. PICK event : event = Store!Answer(pending, <<Last(pending)>>)
    OBVIOUS
  <2>3. event \in Answered /\ Len(event.values) = 1
    BY <2>1, <2>2 DEF Answered, Store!Answer
  <2>4. CASE /\ events' = Append(events, event) /\ Len(events) < QueueLength
             /\ UNCHANGED lost
    <3>1. PICK s : s = Append(events, event)
      OBVIOUS
    <3>2. /\ s \in Seq(Answered) /\ Len(s) = Len(events) + 1
          /\ Len(events) \in Nat
          /\ DOMAIN s = DOMAIN events \cup {Len(s)}
          /\ s[Len(s)] = event /\ \A k \in DOMAIN events : s[k] = events[k]
      BY <2>3, <3>1
    <3>3. \A k \in DOMAIN s : Len(s[k].values) = 1 /\ s[k] \in Answered
      BY <2>3, <3>2
    <3>4. Len(s) <= QueueLength
      BY <2>4, <3>2, ChartsAssumption
    <3>5. events' = s
      BY <2>4, <3>1
    <3>6. Shapes'
      BY <2>1, <3>2, <3>5
    <3>7. \A k \in DOMAIN events' : /\ events'[k].identifier \in IDs
                                    /\ events'[k].values \in Seq(Time)
                                    /\ Len(events'[k].values) = 1
      BY <3>3, <3>5 DEF Answered
    <3>8. TypeOK'
      BY <2>1, <2>4, <3>4, <3>5, <3>7
    <3> QED
      BY <2>1, <3>6, <3>8 DEF Throwing
  <2>5. CASE UNCHANGED events /\ lost' = lost \cup {<<pending, Last(pending)>>}
    <3>1. lost' \subseteq IDs \X Time
      BY <2>1, <2>5
    <3> QED
      BY <2>1, <2>5, <3>1 DEF Throwing
  <2> QED
    BY <1>2, <2>2, <2>4, <2>5, EventSent
<1>3. CASE sensorIDsToNames
  BY <1>3, Names DEF sensorIDsToNames, Throwing
<1>4. CASE sensorData
  <2>1. at \in IDs /\ at # "mapping" /\ kept[at] \in Seq(Time) /\ Len(kept[at]) <= Size
    BY <1>4, Names DEF sensorData
  <2>2. /\ response' = Store!Answer(at, kept[at])
        /\ UNCHANGED <<clock, host, network, at, todo, data, lost, whole>>
    BY <1>4 DEF sensorData
  <2>3. /\ response'.identifier = at /\ response'.values = kept[at]
        /\ response' \in Answered
    BY <2>1, <2>2 DEF Answered, Store!Answer
  <2> QED
    BY <2>1, <2>2, <2>3 DEF Throwing
<1>5. ASSUME NEW id \in IDs, addReading(id) PROVE Sound'
  <2>1. /\ pending' = id /\ clock' \in Time
        /\ kept' \in [IDs -> Seq(Time)]
        /\ \A other \in IDs : other # id => kept'[other] = kept[other]
        /\ Len(kept'[id]) <= Size /\ kept'[id] # <<>>
    BY <1>5, ReadingAdded
  <2>2. UNCHANGED <<mapped, null, restarts, network, page, lost, whole>>
    BY <1>5 DEF addReading
  <2>3. \A other \in IDs : kept'[other] \in Seq(Time) /\ Len(kept'[other]) <= Size
    BY <2>1
  <2> QED
    BY <2>1, <2>2, <2>3 DEF Throwing
<1>6. ASSUME NEW id \in IDs, ChangeTable(id) PROVE Sound'
  BY <1>6 DEF ChangeTable, Throwing
<1>7. CASE setupEventsSource
  BY <1>7 DEF setupEventsSource, Throwing
<1>8. CASE StreamBreaks
  <2>1. /\ events' = <<>> /\ stream' = "connecting"
        /\ UNCHANGED <<clock, host, page, whole>>
        /\ lost' \subseteq IDs \X Time
    BY <1>8 DEF StreamBreaks, Disconnected
  <2>2. DOMAIN events' = {} /\ Len(events') = 0 /\ events' \in Seq(Answered)
    BY <2>1
  <2> QED
    BY <2>1, <2>2, ChartsAssumption DEF Throwing
<1>9. CASE FetchFails
  BY <1>9, Names DEF FetchFails, Rejected, Throwing
<1>10. CASE HostRestart
  <2>1. /\ events' = <<>> /\ stream' \in {"off", "connecting"}
        /\ kept' = [id \in IDs |-> <<>>] /\ pending' = None
        /\ restarts' = restarts + 1 /\ restarts < MaxRestarts
        /\ UNCHANGED <<clock, data, whole>>
        /\ UNCHANGED <<mapped, null>> \/ (mapped' = {} /\ null' = TRUE)
        /\ lost' \subseteq IDs \X Time
        /\ Rejected
    BY <1>10 DEF HostRestart, Disconnected
  <2>2. DOMAIN events' = {} /\ Len(events') = 0 /\ events' \in Seq(Answered)
    BY <2>1
  <2>3. \A id \in IDs : kept'[id] \in Seq(Time) /\ Len(kept'[id]) <= Size
    BY <2>1, ChartsAssumption
  <2>4. kept' \in [IDs -> Seq(Time)]
    BY <2>1
  <2>5. restarts' \in 0..MaxRestarts
    BY <2>1, ChartsAssumption
  <2>6. \/ at' = "failed" /\ response' = None /\ todo' = {}
        \/ UNCHANGED loading /\ at \notin IDs \cup {"mapping"}
    BY <2>1 DEF Rejected
  <2>7. TypeOK'
    <3>1. mapped' \subseteq IDs /\ null' \in BOOLEAN
      BY <2>1
    <3>2. /\ at' \in {"closed", "mapping", "null", "loaded", "failed"} \cup IDs
          /\ todo' \subseteq IDs
      BY <2>6
    <3> QED
      BY <2>1, <2>2, <2>3, <2>5, <3>1, <3>2, ChartsAssumption
  <2>8. Shapes' /\ Loop' /\ Unbroken'
    BY <2>1, <2>2, <2>4, <2>6, Names DEF Throwing
  <2> QED
    BY <2>7, <2>8
<1>11. CASE Load
  <2>1. /\ at' = "mapping" /\ response' = None /\ todo' = {}
        /\ data' = NoData /\ events' = <<>> /\ stream' = "connecting"
        /\ lost' = {} /\ whole' = {}
        /\ UNCHANGED <<clock, host>>
    BY <1>11 DEF Load
  <2>2. DOMAIN events' = {} /\ Len(events') = 0 /\ events' \in Seq(Answered)
    BY <2>1
  <2>3. DOMAIN data' = {}
    BY <2>1 DEF NoData
  <2> QED
    BY <2>1, <2>2, <2>3, Names, ChartsAssumption DEF Throwing
<1>12. CASE fetchSensorsMapping
  <2>1. /\ at = "mapping" /\ response' = None /\ response.sensors \in SUBSET IDs
        /\ whole = {}
        /\ Ask(response.sensors) \/ (at' = "null" /\ todo' = {})
        /\ UNCHANGED <<clock, host, network, data, lost, whole>>
    BY <1>12 DEF fetchSensorsMapping
  <2>2. PICK rest \in SUBSET IDs : Ask(rest) \/ (at' = "null" /\ todo' = {})
    BY <2>1
  <2>3. /\ at' \in IDs \cup {"loaded", "null"} /\ todo' \subseteq IDs
        /\ at' \notin todo' /\ at' # "mapping"
    BY <2>2, Requested, Names
  <2> QED
    BY <2>1, <2>3 DEF Throwing
<1>13. CASE initialFetchSensorsData
  <2>1. /\ at \in IDs /\ response # None /\ response' = None
        /\ response.values \in Seq(Time) /\ response.identifier = at
    BY <1>13 DEF initialFetchSensorsData, Answered
  <2>2. /\ UNCHANGED <<clock, host, network, lost>>
        /\ whole' = IF at \in DOMAIN data THEN whole ELSE whole \cup {at}
        /\ data' = addDataToSensor(response)
        /\ Ask(todo) \/ (at' = "failed" /\ todo' = {})
    BY <1>13, AnswerHandled
  <2>3. PICK rest \in SUBSET IDs : rest = todo
    OBVIOUS
  <2>4. /\ at' \in IDs \cup {"loaded", "failed"} /\ todo' \subseteq todo
        /\ at' \in IDs => at' \in todo
        /\ at' \notin todo' /\ at' \notin {"mapping", "null"}
    BY <2>2, <2>3, Requested, Names
  <2>5. PICK answer : answer = response
    OBVIOUS
  <2>6. /\ DOMAIN data' = DOMAIN data \cup {at}
        /\ \A id \in DOMAIN data' : data'[id] \in Values
        /\ \A id \in DOMAIN data : id # at => data'[id] = data[id]
        /\ at \notin DOMAIN data => data'[at] = response.values
    BY <2>1, <2>2, <2>5, AddedData
  <2>7. Unbroken'
    <3> SUFFICES ASSUME NEW id \in whole', Undefined \in Elements(data'[id])
                 PROVE  FALSE
      BY DEF Throwing
    <3>1. CASE id \in whole
      BY <2>6, <3>1 DEF Throwing
    <3>2. CASE id = at /\ at \notin DOMAIN data
      BY <2>1, <2>6, <3>2, TimeIsNat DEF Elements
    <3> QED
      BY <2>2, <3>1, <3>2
  <2>8. Shapes'
    BY <2>1, <2>2, <2>4
  <2>9. Loop'
    BY <2>1, <2>2, <2>4, ZenonT(60)
  <2>10. TypeOK'
    BY <2>1, <2>2, <2>4, <2>6
  <2> QED
    BY <2>7, <2>8, <2>9, <2>10
<1>14. CASE newReading
  <2>1. /\ events # <<>> /\ events' = Tail(events)
        /\ UNCHANGED <<clock, host, stream, loading, lost, whole>>
    BY <1>14, ReadingHandled
  <2>2. PICK id \in IDs, t \in Time, d \in {addDataToSensor(Head(events))} :
          /\ DOMAIN d = DOMAIN data \cup {id} /\ DOMAIN data' = DOMAIN d
          /\ Throwing(data)' = Throwing(d)
          /\ \A other \in DOMAIN data : other # id => d[other] = data[other]
          /\ id \in DOMAIN data => d[id] = Append(data[id], t)
          /\ id \notin DOMAIN data => d[id] = <<t>>
          /\ \A other \in DOMAIN d : data'[other] \in Values
    BY <1>14, ReadingHandled, ZenonT(60)
  <2>3. PICK s : s = Tail(events)
    OBVIOUS
  <2>4. /\ s \in Seq(Answered) /\ Len(s) = Len(events) - 1 /\ Len(events) \in Nat
        /\ \A k \in DOMAIN s : k + 1 \in DOMAIN events /\ s[k] = events[k + 1]
    BY <2>1, <2>3 DEF Throwing
  <2>5. \A k \in DOMAIN s : Len(s[k].values) = 1 /\ s[k] \in Answered
    BY <2>4
  <2>6. Len(s) <= QueueLength
    BY <2>4, ChartsAssumption
  <2>7. events' = s
    BY <2>1, <2>3 DEF Throwing
  <2>8. Shapes' /\ Loop'
    BY <2>1, <2>4, <2>7
  <2>9. \A k \in DOMAIN events' : /\ events'[k].identifier \in IDs
                                  /\ events'[k].values \in Seq(Time)
                                  /\ Len(events'[k].values) = 1
    BY <2>5, <2>7 DEF Answered
  <2>10. TypeOK'
    BY <2>1, <2>2, <2>6, <2>7, <2>9
  <2>11. Unbroken'
    <3> SUFFICES ASSUME NEW other \in whole, other \in Throwing(d)
                 PROVE  FALSE
      BY <2>1, <2>2
    <3>1. /\ other \in DOMAIN data /\ Undefined \notin Elements(data[other])
          /\ Undefined \in Elements(d[other])
      BY DEF Throwing
    <3>2. CASE other # id
      BY <2>2, <3>1, <3>2
    <3>3. CASE other = id
      <4>1. data[id] \in Seq(Time \cup {Undefined})
        BY <3>1, <3>3 DEF Values
      <4>2. Undefined \in Elements(Append(data[id], t))
        BY <2>2, <3>1, <3>3
      <4> QED
        BY <3>1, <3>3, <4>1, <4>2, TimeIsNat DEF Elements
    <3> QED
      BY <3>2, <3>3
  <2> QED
    BY <2>8, <2>10, <2>11
<1>15. CASE NameThrows
  <2>1. /\ events # <<>> /\ events' = Tail(events)
        /\ UNCHANGED <<clock, host, stream, page, lost, whole>>
    BY <1>15 DEF NameThrows
  <2>2. PICK s : s = Tail(events)
    OBVIOUS
  <2>3. /\ s \in Seq(Answered) /\ Len(s) = Len(events) - 1 /\ Len(events) \in Nat
        /\ \A k \in DOMAIN s : k + 1 \in DOMAIN events /\ s[k] = events[k + 1]
    BY <2>1, <2>2 DEF Throwing
  <2>4. \A k \in DOMAIN s : Len(s[k].values) = 1 /\ s[k] \in Answered
    BY <2>3
  <2>5. Len(s) <= QueueLength
    BY <2>3, ChartsAssumption
  <2>6. events' = s
    BY <2>1, <2>2 DEF Throwing
  <2>7. \A k \in DOMAIN events' : /\ events'[k].identifier \in IDs
                                  /\ events'[k].values \in Seq(Time)
                                  /\ Len(events'[k].values) = 1
    BY <2>4, <2>6 DEF Answered
  <2>8. TypeOK'
    BY <2>1, <2>5, <2>6, <2>7
  <2>9. Shapes' /\ Loop' /\ Unbroken'
    BY <2>1, <2>3, <2>6 DEF Throwing
  <2> QED
    BY <2>8, <2>9
<1>16. CASE UNCHANGED vars
  BY <1>16 DEF vars, Throwing
<1> QED
  BY <1>1, <1>2, <1>3, <1>4, <1>5, <1>6, <1>7, <1>8, <1>9, <1>10, <1>11, <1>12,
     <1>13, <1>14, <1>15, <1>16 DEF Next, Host, Connections, Page

\* Only a sensor whose history has come since the last event is over the limit.
Limited ==
  Throwing(data) = {}
    => \A id \in DOMAIN data :
         /\ Len(data[id]) <= MAX_ARR_ELEMS + 1
         /\ at = "mapping" \/ id \in todo \cup {at}
              => Len(data[id]) <= MAX_ARR_ELEMS

LEMMA LimitedInit == Init => Limited
  BY DEF Init, NoData, Limited

LEMMA LimitedStep == Sound /\ Limited /\ [Next]_vars => Limited'
<1> SUFFICES ASSUME Sound, Limited, [Next]_vars, Throwing(data') = {}
             PROVE  \A id \in DOMAIN data' :
                      /\ Len(data'[id]) <= MAX_ARR_ELEMS + 1
                      /\ at' = "mapping" \/ id \in todo' \cup {at'}
                           => Len(data'[id]) <= MAX_ARR_ELEMS
  BY DEF Limited, Throwing
<1> USE DEF host, network, loading, page
<1>1. /\ DOMAIN data \subseteq IDs
      /\ MAX_ARR_ELEMS \in Nat /\ Size \in Nat /\ Size <= MAX_ARR_ELEMS
  BY ChartsAssumption DEF Sound, TypeOK
<1> DEFINE Quiet == /\ data' = data
                    /\ \/ at' = at /\ todo' = todo
                       \/ at' = "failed" /\ todo' = {}
<1>2. CASE Quiet
  BY <1>1, <1>2, Names DEF Limited
<1>3. CASE Load
  BY <1>3 DEF Load, NoData
<1>4. CASE fetchSensorsMapping
  <2>1. at = "mapping" /\ data' = data
    BY <1>4 DEF fetchSensorsMapping
  <2> QED
    BY <1>4, <2>1 DEF Limited
<1>5. CASE initialFetchSensorsData
  <2>1. /\ at \in IDs /\ response # None /\ data' = addDataToSensor(response)
        /\ Ask(todo) \/ (at' = "failed" /\ todo' = {})
    BY <1>5, AnswerHandled
  <2>2. /\ response \in Answered /\ response.identifier = at
        /\ Len(response.values) <= Size /\ at \notin todo
    BY <2>1 DEF Sound, Shapes, Loop
  <2>3. PICK answer \in Answered : answer = response
    BY <2>2
  <2>4. PICK values \in Seq(Time) : values = answer.values
    BY DEF Answered
  <2>5. /\ DOMAIN data' = DOMAIN data \cup {at}
        /\ \A id \in DOMAIN data : id # at => data'[id] = data[id]
        /\ at \in DOMAIN data => data'[at] = Append(data[at], First(values))
        /\ at \notin DOMAIN data => data'[at] = values
    <3>1. \A id \in DOMAIN data : data[id] \in Values
      BY DEF Sound, TypeOK
    <3> QED
      BY <2>1, <2>2, <2>3, <2>4, <3>1, AddedData
  <2>6. ASSUME NEW id \in DOMAIN data
        PROVE  data[id] \in Seq(Time \cup {Undefined})
    BY DEF Sound, TypeOK, Values
  <2>7. First(values) \in Time \cup {Undefined}
    BY DEF First
  <2>8. ASSUME NEW id \in DOMAIN data
        PROVE  Elements(data[id]) \subseteq Elements(data'[id])
    <3>1. CASE id # at
      BY <2>5, <3>1
    <3>2. CASE id = at
      <4>1. PICK s \in Seq(Time \cup {Undefined}) : s = data[at]
        BY <2>6, <3>2
      <4>2. \A k \in DOMAIN s : /\ k \in DOMAIN Append(s, First(values))
                               /\ Append(s, First(values))[k] = s[k]
        BY <2>7
      <4>3. data'[id] = Append(s, First(values)) /\ data[id] = s
        BY <2>5, <3>2, <4>1
      <4> QED
        BY <4>2, <4>3 DEF Elements
    <3> QED
      BY <3>1, <3>2
  <2>9. Throwing(data) = {}
    BY <2>5, <2>8 DEF Throwing
  <2>10. Len(data'[at]) <= MAX_ARR_ELEMS + 1
    <3>1. CASE at \in DOMAIN data
      <4>1. Len(data[at]) <= MAX_ARR_ELEMS
        BY <2>9, <3>1 DEF Limited
      <4>2. Len(data'[at]) = Len(data[at]) + 1 /\ Len(data[at]) \in Nat
        BY <2>5, <2>6, <2>7, <3>1
      <4> QED
        BY <1>1, <4>1, <4>2
    <3>2. CASE at \notin DOMAIN data
      <4>1. Len(data'[at]) <= Size /\ Len(data'[at]) \in Nat
        BY <2>2, <2>3, <2>4, <2>5, <3>2
      <4> QED
        BY <1>1, <4>1
    <3> QED
      BY <3>1, <3>2
  <2>11. /\ at' # "mapping"
         /\ at' \in IDs => at' \in todo
         /\ todo' \subseteq todo
    <3>1. todo \in SUBSET IDs
      BY DEF Sound, TypeOK
    <3> QED
      BY <2>1, <3>1, Requested, Names
  <2>12. ASSUME NEW id \in DOMAIN data, id # at
         PROVE  /\ Len(data'[id]) <= MAX_ARR_ELEMS + 1
                /\ id \in todo' \cup {at'} => Len(data'[id]) <= MAX_ARR_ELEMS
    BY <1>1, <2>5, <2>9, <2>11, <2>12 DEF Limited
  <2>13. at \notin todo' /\ at' # at
    BY <2>1, <2>2, <2>11, Names
  <2> QED
    BY <2>5, <2>10, <2>11, <2>12, <2>13
<1>6. CASE newReading
  <2>1. PICK d :
          /\ DOMAIN data' = DOMAIN d /\ Throwing(data)' = Throwing(d)
          /\ \A id \in DOMAIN d \ Throwing(d) :
               /\ d[id] \in Seq(Time)
               /\ \/ data'[id] = Trimmed(d[id])
                  \/ data'[id] = d[id] /\ Throwing(d) # {}
    BY <1>6, ReadingHandled
  <2>2. Throwing(d) = {}
    BY <2>1 DEF Throwing
  <2>3. clock \in Nat
    BY TimeIsNat DEF Sound, TypeOK
  <2>4. ASSUME NEW id \in DOMAIN data'
        PROVE  Len(data'[id]) <= MAX_ARR_ELEMS /\ Len(data'[id]) \in Nat
    <3>1. data'[id] = Trimmed(d[id]) /\ d[id] \in Seq(Time)
      BY <2>1, <2>2
    <3>2. PICK v \in Seq(Time) : v = d[id]
      BY <3>1
    <3>3. Trimmed(v) \in Seq(Time) /\ Len(Trimmed(v)) <= MAX_ARR_ELEMS
      BY <2>3, TrimmedValues
    <3> QED
      BY <3>1, <3>2, <3>3
  <2> QED
    BY <1>1, <2>4
<1>7. ASSUME Host \/ setupEventsSource \/ StreamBreaks \/ NameThrows PROVE Quiet
  BY <1>7 DEF NameThrows, Host, Tick, sendEvent, Send, sensorIDsToNames, sensorData,
              addReading, ChangeTable, setupEventsSource, StreamBreaks
<1>8. ASSUME FetchFails \/ HostRestart PROVE Quiet
  BY <1>8 DEF FetchFails, HostRestart, Rejected
<1>9. ASSUME UNCHANGED vars PROVE Quiet
  BY <1>9 DEF vars
<1> HIDE DEF Quiet
<1> QED
  BY <1>2, <1>3, <1>4, <1>5, <1>6, <1>7, <1>8, <1>9 DEF Next, Connections, Page

----------------------------------------------------------------------------
\* No reading is told of before its time, and events come in the order of time.
Passed ==
  /\ \A id \in IDs : \A t \in Elements(kept[id]) : t <= clock
  /\ \A id \in DOMAIN data : \A t \in Elements(data[id]) : t = Undefined \/ t <= clock
  /\ at \in IDs /\ response # None => \A t \in Elements(response.values) : t <= clock

InTurn ==
  /\ \A k \in DOMAIN events : events[k].values[1] <= clock
  /\ \A j, k \in DOMAIN events :
       j < k => events[j].values[1] < events[k].values[1]
  /\ pending # None => \A k \in DOMAIN events : events[k].values[1] < Last(pending)

LEMMA OrderInit == Init => Passed /\ InTurn
<1> SUFFICES ASSUME Init PROVE Passed /\ InTurn
  OBVIOUS
<1>1. \A id \in IDs : Elements(kept[id]) = {}
  BY DEF Init, Elements
<1> QED
  BY <1>1, Names DEF Init, NoData, Passed, InTurn

\* Every event tells of one reading.
LEMMA EventTimes ==
  ASSUME Sound
  PROVE  /\ Len(events) \in Nat /\ DOMAIN events = 1..Len(events)
         /\ \A k \in DOMAIN events : /\ events[k] \in Answered
                                     /\ events[k].values[1] \in Time
                                     /\ events[k].values = <<events[k].values[1]>>
<1>1. events \in Seq(Answered)
  BY DEF Sound, Shapes
<1>2. Len(events) \in Nat /\ DOMAIN events = 1..Len(events)
  BY <1>1
<1>3. ASSUME NEW k \in DOMAIN events
      PROVE  /\ events[k] \in Answered
             /\ events[k].values[1] \in Time
             /\ events[k].values = <<events[k].values[1]>>
  <2>1. events[k] \in Answered
    BY <1>1
  <2>2. events[k].values \in Seq(Time) /\ Len(events[k].values) = 1
    BY DEF Sound, TypeOK
  <2> QED
    BY <2>1, <2>2
<1> QED
  BY <1>2, <1>3

LEMMA PassedStep == Sound /\ Sound' /\ Passed /\ InTurn /\ [Next]_vars => Passed'
<1> SUFFICES ASSUME Sound, Sound', Passed, InTurn, [Next]_vars PROVE Passed'
  OBVIOUS
<1> USE DEF host, network, loading, page
<1>1. /\ clock \in Nat /\ clock' \in Nat /\ DOMAIN data \subseteq IDs
      /\ \A id \in IDs : \A t \in Elements(kept[id]) : t \in Nat
      /\ \A id \in DOMAIN data : \A t \in Elements(data[id]) :
            t = Undefined \/ t \in Nat
      /\ at \in IDs /\ response # None =>
           \A t \in Elements(response.values) : t \in Nat
  <2>1. \A id \in IDs : \A t \in Elements(kept[id]) : t \in Time
    BY DEF Sound, TypeOK, Elements
  <2>2. \A id \in DOMAIN data : \A t \in Elements(data[id]) : t \in Time \cup {Undefined}
    BY DEF Sound, TypeOK, Elements, Values
  <2>3. at \in IDs /\ response # None =>
           \A t \in Elements(response.values) : t \in Time
    <3>1. at \in IDs /\ response # None => response.values \in Seq(Time)
      BY DEF Sound, Shapes, Answered
    <3> QED
      BY <3>1 DEF Elements
  <2> QED
    BY <2>1, <2>2, <2>3, TimeIsNat DEF Sound, TypeOK
<1> DEFINE Quiet == /\ clock' \in {clock, clock + 1}
                    /\ data' = data
                    /\ kept' = kept \/ \A id \in IDs : Elements(kept'[id]) = {}
                    /\ response' = None \/ (response' = response /\ at' = at)
<1>2. CASE Quiet
  BY <1>1, <1>2 DEF Passed
<1>3. CASE sensorData
  <2>1. /\ at \in IDs /\ response' = Store!Answer(at, kept[at])
        /\ UNCHANGED <<clock, kept, data>>
    BY <1>3 DEF sensorData
  <2>2. response'.values = kept[at]
    BY <2>1 DEF Store!Answer
  <2> QED
    BY <2>1, <2>2 DEF Passed
<1>4. ASSUME NEW id \in IDs, addReading(id) PROVE Passed'
  <2>1. /\ clock' = clock + 1
        /\ \A other \in IDs : other # id => kept'[other] = kept[other]
        /\ Elements(kept'[id]) \subseteq Elements(kept[id]) \cup {clock'}
        /\ UNCHANGED page
    BY <1>4, ReadingAdded DEF addReading
  <2> QED
    BY <1>1, <2>1 DEF Passed
<1>5. CASE sensorIDsToNames
  BY <1>5, Names DEF sensorIDsToNames, Passed
<1>6. CASE initialFetchSensorsData
  <2>1. /\ at \in IDs /\ response # None /\ response' = None
        /\ data' = addDataToSensor(response)
        /\ UNCHANGED <<clock, kept>>
    BY <1>6, AnswerHandled
  <2>2. /\ response \in Answered /\ response.identifier = at
    BY <2>1 DEF Sound, Shapes
  <2>3. PICK answer \in Answered : answer = response
    BY <2>2
  <2>4. PICK values \in Seq(Time) : values = answer.values
    BY DEF Answered
  <2>5. /\ DOMAIN data' = DOMAIN data \cup {at}
        /\ \A id \in DOMAIN data : id # at => data'[id] = data[id]
        /\ at \in DOMAIN data => data'[at] = Append(data[at], First(values))
        /\ at \notin DOMAIN data => data'[at] = values
    <3>1. \A id \in DOMAIN data : data[id] \in Values
      BY DEF Sound, TypeOK
    <3> QED
      BY <2>1, <2>2, <2>3, <2>4, <3>1, AddedData
  <2>6. \A t \in Elements(values) : t <= clock
    BY <2>1, <2>3, <2>4 DEF Passed
  <2>7. First(values) = Undefined \/ First(values) \in Elements(values)
    BY DEF First, Elements
  <2>8. First(values) \in Time \cup {Undefined}
    BY DEF First
  <2>9. ASSUME at \in DOMAIN data
        PROVE  Elements(data'[at]) \subseteq Elements(data[at]) \cup {First(values)}
    <3>1. data[at] \in Seq(Time \cup {Undefined})
      BY <2>9 DEF Sound, TypeOK, Values
    <3> QED
      BY <2>5, <2>8, <2>9, <3>1 DEF Elements
  <2>10. \A id \in DOMAIN data' : \A t \in Elements(data'[id]) :
            t = Undefined \/ t <= clock
    BY <2>5, <2>6, <2>7, <2>9 DEF Passed
  <2> QED
    BY <2>1, <2>10 DEF Passed
<1>7. CASE newReading
  <2>1. /\ events # <<>>
        /\ UNCHANGED <<clock, kept, response, at>>
    BY <1>7, ReadingHandled
  <2>2. PICK id \in IDs, t \in Time, d \in {addDataToSensor(Head(events))} :
          /\ events[1] = Store!Answer(id, <<t>>)
          /\ DOMAIN d = DOMAIN data \cup {id} /\ DOMAIN data' = DOMAIN d
          /\ \A other \in DOMAIN data : other # id => d[other] = data[other]
          /\ id \in DOMAIN data => d[id] = Append(data[id], t)
          /\ id \notin DOMAIN data => d[id] = <<t>>
          /\ \A other \in DOMAIN d : Elements(data'[other]) \subseteq Elements(d[other])
    BY <1>7, ReadingHandled
  <2>3. t <= clock
    <3>1. 1 \in DOMAIN events
      BY <2>1, EventTimes DEF Sound, Shapes
    <3>2. events[1].values[1] = t
      BY <2>2 DEF Store!Answer
    <3> QED
      BY <3>1, <3>2 DEF InTurn
  <2>4. ASSUME id \in DOMAIN data
        PROVE  Elements(d[id]) \subseteq Elements(data[id]) \cup {t}
    <3>1. data[id] \in Seq(Time \cup {Undefined})
      BY <2>4 DEF Sound, TypeOK, Values
    <3>2. PICK v : v = data[id]
      OBVIOUS
    <3>3. PICK w : w = Append(v, t)
      OBVIOUS
    <3>4. /\ Len(v) \in Nat /\ DOMAIN w = DOMAIN v \cup {Len(v) + 1}
          /\ \A k \in DOMAIN v : w[k] = v[k]
          /\ w[Len(v) + 1] = t
      BY <3>1, <3>2, <3>3
    <3>5. Elements(w) \subseteq Elements(v) \cup {t}
      BY <3>4 DEF Elements
    <3> QED
      BY <2>2, <2>4, <3>2, <3>3, <3>5
  <2>5. Elements(<<t>>) = {t}
    BY DEF Elements
  <2>6. ASSUME NEW other \in DOMAIN d, NEW u \in Elements(d[other])
        PROVE  u = Undefined \/ u <= clock
    BY <2>2, <2>3, <2>4, <2>5, <2>6 DEF Passed
  <2> QED
    BY <2>1, <2>2, <2>6 DEF Passed
<1>8. ASSUME \/ Tick \/ sendEvent \/ (\E id \in IDs : ChangeTable(id))
             \/ setupEventsSource \/ StreamBreaks \/ NameThrows
      PROVE  Quiet
  BY <1>8 DEF Tick, sendEvent, Send, ChangeTable, setupEventsSource, StreamBreaks,
              NameThrows
<1>9. ASSUME FetchFails \/ HostRestart PROVE Quiet
  <2>1. response' = None \/ (response' = response /\ at' = at)
    BY <1>9 DEF FetchFails, HostRestart, Rejected
  <2>2. Elements(<<>>) = {}
    BY DEF Elements
  <2> QED
    BY <1>9, <2>1, <2>2 DEF FetchFails, HostRestart
<1>10. ASSUME fetchSensorsMapping PROVE Quiet
  BY <1>10 DEF fetchSensorsMapping
<1>11. CASE Load
  BY <1>1, <1>11 DEF Load, NoData, Passed
<1>12. ASSUME UNCHANGED vars PROVE Quiet
  BY <1>12 DEF vars
<1> HIDE DEF Quiet
<1> QED
  BY <1>2, <1>3, <1>4, <1>5, <1>6, <1>7, <1>8, <1>9, <1>10, <1>11, <1>12
     DEF Next, Host, Connections, Page

LEMMA InTurnStep == Sound /\ Passed /\ InTurn /\ [Next]_vars => InTurn'
<1> SUFFICES ASSUME Sound, Passed, InTurn, [Next]_vars PROVE InTurn'
  OBVIOUS
<1> USE DEF host, network, loading, page
<1>1. clock \in Nat
  BY TimeIsNat DEF Sound, TypeOK
<1> DEFINE Quiet == /\ clock' \in {clock, clock + 1}
                    /\ \/ events' = events /\ pending' = pending /\ kept' = kept
                       \/ events' = <<>>
<1>2. CASE Quiet
  <2>1. CASE events' = <<>>
    BY <2>1 DEF InTurn
  <2>2. CASE events' # <<>>
    <3>1. events' = events /\ pending' = pending /\ Last(pending)' = Last(pending)
      BY <1>2, <2>2 DEF Last
    <3>2. \A k \in DOMAIN events : events[k].values[1] \in Nat
      BY EventTimes, TimeIsNat
    <3>3. \A k \in DOMAIN events : events[k].values[1] <= clock'
      BY <1>1, <1>2, <3>2 DEF InTurn
    <3> HIDE DEF Quiet
    <3> QED
      BY <3>1, <3>3 DEF InTurn
  <2> QED
    BY <2>1, <2>2
<1>3. ASSUME NEW id \in IDs, addReading(id) PROVE InTurn'
  <2>1. /\ pending' = id /\ clock' = clock + 1 /\ Last(id)' = clock'
        /\ UNCHANGED events
    BY <1>3, ReadingAdded DEF addReading
  <2>2. Last(pending)' = clock'
    BY <2>1 DEF Last
  <2>3. \A k \in DOMAIN events : events[k].values[1] \in Nat
    BY EventTimes, TimeIsNat
  <2> QED
    BY <1>1, <2>1, <2>2, <2>3 DEF InTurn
<1>4. CASE sendEvent
  <2>1. /\ pending \in IDs /\ pending' = None /\ Last(pending) \in Time
        /\ \/ events' = Append(events, Store!Answer(pending, <<Last(pending)>>))
           \/ UNCHANGED events
        /\ UNCHANGED <<clock, kept>>
    BY <1>4, EventSent
  <2>2. PICK t \in Time : t = Last(pending)
    BY <2>1
  <2>3. PICK event : event = Store!Answer(pending, <<t>>)
    OBVIOUS
  <2>4. event.values[1] = t
    BY <2>3 DEF Store!Answer
  <2>5. t <= clock
    <3>1. kept[pending] \in Seq(Time) /\ kept[pending] # <<>>
      BY <2>1, Names DEF Sound, Shapes
    <3>2. t \in Elements(kept[pending])
      BY <2>2, <3>1 DEF Last, Elements
    <3> QED
      BY <2>1, <3>2 DEF Passed
  <2>6. \A k \in DOMAIN events : events[k].values[1] < t
    BY <2>1, <2>2, Names DEF InTurn
  <2>7. CASE UNCHANGED events
    BY <2>1, <2>7 DEF InTurn
  <2>8. CASE events' = Append(events, event)
    <3>1. PICK s : s = Append(events, event)
      OBVIOUS
    <3>2. /\ Len(events) \in Nat /\ DOMAIN events = 1..Len(events)
          /\ DOMAIN s = 1..Len(events) + 1
          /\ \A k \in DOMAIN events : s[k] = events[k]
          /\ s[Len(events) + 1] = event
      BY <3>1 DEF Sound, Shapes
    <3>3. \A j, k \in DOMAIN s : j < k => s[j].values[1] < s[k].values[1]
      <4> SUFFICES ASSUME NEW j \in DOMAIN s, NEW k \in DOMAIN s, j < k
                   PROVE  s[j].values[1] < s[k].values[1]
        OBVIOUS
      <4>1. j \in DOMAIN events
        BY <3>2
      <4>2. CASE k \in DOMAIN events
        BY <3>2, <4>1, <4>2 DEF InTurn
      <4>3. CASE k \notin DOMAIN events
        BY <2>4, <2>6, <3>2, <4>1, <4>3
      <4> QED
        BY <4>2, <4>3
    <3>4. \A k \in DOMAIN s : s[k].values[1] <= clock
      BY <2>4, <2>5, <3>2 DEF InTurn
    <3> QED
      BY <2>1, <2>8, <3>1, <3>3, <3>4 DEF InTurn
  <2> QED
    BY <2>1, <2>2, <2>3, <2>7, <2>8
<1>5. CASE newReading \/ NameThrows
  <2>1. /\ events # <<>> /\ events' = Tail(events)
        /\ UNCHANGED <<clock, kept, pending>>
    BY <1>5, ReadingHandled DEF NameThrows
  <2>2. PICK s : s = Tail(events)
    OBVIOUS
  <2>3. \A k \in DOMAIN s : k \in Nat /\ k + 1 \in DOMAIN events /\ s[k] = events[k + 1]
    BY <2>1, <2>2 DEF Sound, Shapes
  <2>4. \A j, k \in DOMAIN s : j < k => s[j].values[1] < s[k].values[1]
    BY <2>3 DEF InTurn
  <2>5. /\ \A k \in DOMAIN s : s[k].values[1] <= clock
        /\ pending # None => \A k \in DOMAIN s : s[k].values[1] < Last(pending)
    BY <2>3 DEF InTurn
  <2> QED
    BY <2>1, <2>2, <2>4, <2>5 DEF InTurn, Last
<1>6. ASSUME \/ Tick \/ sensorIDsToNames \/ sensorData
             \/ (\E id \in IDs : ChangeTable(id))
             \/ setupEventsSource \/ StreamBreaks \/ FetchFails \/ HostRestart
      PROVE  Quiet
  BY <1>6 DEF Tick, sensorIDsToNames, sensorData, ChangeTable, setupEventsSource,
              StreamBreaks, FetchFails, HostRestart, Disconnected
<1>7. ASSUME Load \/ fetchSensorsMapping PROVE Quiet
  BY <1>7 DEF Load, fetchSensorsMapping
<1>8. ASSUME initialFetchSensorsData PROVE Quiet
  BY <1>8, AnswerHandled
<1>9. ASSUME UNCHANGED vars PROVE Quiet
  BY <1>9 DEF vars
<1> HIDE DEF Quiet
<1> QED
  BY <1>2, <1>3, <1>4, <1>5, <1>6, <1>7, <1>8, <1>9 DEF Next, Host, Connections, Page

----------------------------------------------------------------------------
\* Readings under way.

LEMMA NewestOne ==
  ASSUME NEW s \in Seq(Time), s # <<>>
  PROVE  Elements(Store!Newest(s, 1)) = {s[Len(s)]}
<1>1. PICK t \in Time : t = s[Len(s)]
  BY LastReading
<1>2. Elements(<<t>>) = {t}
  BY DEF Elements
<1> QED
  BY <1>1, <1>2, LastReading

LEMMA UnderwayMeans ==
  ASSUME Sound, NEW id \in IDs, NEW t \in Time
  PROVE  Underway(id, t) <=> Sent(id, t) \/ (pending = id /\ t = Last(id))
<1>1. pending = id => kept[id] \in Seq(Time) /\ kept[id] # <<>>
  BY Names DEF Sound, Shapes
<1> QED
  BY <1>1, NewestOne DEF Underway, Last

LEMMA UnderwayMeansNext ==
  ASSUME Sound', NEW id \in IDs, NEW t \in Time
  PROVE  Underway(id, t)' <=> Sent(id, t)' \/ (pending' = id /\ t = Last(id)')
<1>1. pending' = id => kept'[id] \in Seq(Time) /\ kept'[id] # <<>>
  BY Names DEF Sound, Shapes
<1>2. PICK s : s = kept'[id]
  OBVIOUS
<1>3. pending' = id => Elements(Store!Newest(s, 1)) = {s[Len(s)]}
  BY <1>1, <1>2, NewestOne
<1> QED
  BY <1>2, <1>3 DEF Underway, Last

\* Nothing under way comes up or goes away but lost.
NoneForgotten ==
  /\ \A id \in IDs : \A t \in Time :
       /\ Underway(id, t)' => Underway(id, t)
       /\ Underway(id, t) => Underway(id, t)' \/ <<id, t>> \in lost'
  /\ lost \subseteq lost'

LEMMA SentOn == ASSUME Sound, Sound', sendEvent PROVE NoneForgotten
<1>1. /\ pending \in IDs /\ pending' = None /\ Last(pending) \in Time
      /\ \/ /\ events' = Append(events, Store!Answer(pending, <<Last(pending)>>))
            /\ UNCHANGED lost
         \/ /\ lost' = lost \cup {<<pending, Last(pending)>>}
            /\ UNCHANGED events
  BY EventSent
<1>2. PICK last \in Time : last = Last(pending)
  BY <1>1
<1>3. PICK event : event = Store!Answer(pending, <<last>>)
  OBVIOUS
<1>4. ASSUME NEW id \in IDs, NEW t \in Time
      PROVE  event = Store!Answer(id, <<t>>) <=> id = pending /\ t = last
  BY <1>3 DEF Store!Answer
<1>5. ASSUME NEW id \in IDs, NEW t \in Time
      PROVE  /\ Underway(id, t) <=> Sent(id, t) \/ (id = pending /\ t = last)
             /\ Underway(id, t)' <=> Sent(id, t)'
  BY <1>1, <1>2, UnderwayMeans, UnderwayMeansNext, Names DEF Last
<1>6. CASE events' = Append(events, event) /\ UNCHANGED lost
  <2>1. PICK s : s = Append(events, event)
    OBVIOUS
  <2>2. /\ Len(events) \in Nat /\ DOMAIN events = 1..Len(events)
        /\ DOMAIN s = DOMAIN events \cup {Len(events) + 1}
        /\ \A k \in DOMAIN events : s[k] = events[k]
        /\ s[Len(events) + 1] = event
    BY <2>1 DEF Sound, Shapes
  <2>3. ASSUME NEW id \in IDs, NEW t \in Time
        PROVE  Sent(id, t)' <=> Sent(id, t) \/ (id = pending /\ t = last)
    <3>1. events' = s
      BY <1>6, <2>1
    <3>2. Sent(id, t)' <=> \E k \in DOMAIN s : s[k] = Store!Answer(id, <<t>>)
      BY <3>1 DEF Sent
    <3>3. Sent(id, t) <=> \E k \in DOMAIN events : s[k] = Store!Answer(id, <<t>>)
      BY <2>2 DEF Sent
    <3> QED
      BY <1>4, <2>2, <3>2, <3>3
  <2> QED
    BY <1>5, <1>6, <2>3 DEF NoneForgotten
<1>7. CASE lost' = lost \cup {<<pending, last>>} /\ UNCHANGED events
  <2>1. ASSUME NEW id \in IDs, NEW t \in Time PROVE Sent(id, t)' <=> Sent(id, t)
    BY <1>7 DEF Sent
  <2> QED
    BY <1>5, <1>7, <2>1 DEF NoneForgotten
<1> QED
  BY <1>1, <1>2, <1>3, <1>6, <1>7

LEMMA StreamBroken == ASSUME Sound, Sound', StreamBreaks PROVE NoneForgotten
<1>1. /\ events' = <<>> /\ UNCHANGED <<pending, kept>>
      /\ lost' = lost \cup {told \in IDs \X Time : Sent(told[1], told[2])}
  BY DEF StreamBreaks, Disconnected, host
<1>2. ASSUME NEW id \in IDs, NEW t \in Time
      PROVE  /\ Underway(id, t) <=> Sent(id, t) \/ (pending = id /\ t = Last(id))
             /\ Underway(id, t)' <=> pending = id /\ t = Last(id)
  <2>1. ~Sent(id, t)' /\ Last(id)' = Last(id)
    BY <1>1 DEF Sent, Last
  <2> QED
    BY <1>1, <2>1, UnderwayMeans, UnderwayMeansNext
<1>3. ASSUME NEW id \in IDs, NEW t \in Time, Sent(id, t)
      PROVE  <<id, t>> \in lost'
  BY <1>1, <1>3
<1> QED
  BY <1>1, <1>2, <1>3 DEF NoneForgotten

LEMMA NothingMoves ==
  ASSUME UNCHANGED <<events, pending, kept>>, lost \subseteq lost'
  PROVE  NoneForgotten
  BY DEF NoneForgotten, Underway, Sent

\* The event that is handled is the first of its sensor.
LEMMA HandledFirst ==
  ASSUME Sound, Sound', InTurn, NEW id \in IDs, NEW t \in Time,
         events # <<>>, events[1] = Store!Answer(id, <<t>>),
         events' = Tail(events), UNCHANGED <<pending, kept>>
  PROVE  /\ Underway(id, t)
         /\ \A other \in IDs : \A u \in Time :
              /\ Underway(other, u)' => Underway(other, u)
              /\ Underway(other, u) => Underway(other, u)' \/ (other = id /\ u = t)
              /\ Underway(other, u)' => t < u
<1>1. PICK s : s = Tail(events)
  OBVIOUS
<1>2. Len(events) \in Nat /\ DOMAIN events = 1..Len(events) /\ 1 \in DOMAIN events
  BY EventTimes DEF Sound, Shapes
<1>3. /\ \A k \in DOMAIN s : /\ k + 1 \in DOMAIN events /\ 1 < k + 1
                             /\ s[k] = events[k + 1]
      /\ \A k \in DOMAIN events : k = 1 \/ (k - 1 \in DOMAIN s /\ s[k - 1] = events[k])
  BY <1>1, <1>2 DEF Sound, Shapes
<1>4. events[1].values[1] = t
  BY DEF Store!Answer
<1>5. ASSUME NEW other \in IDs, NEW u \in Time
      PROVE  /\ Sent(other, u)' => Sent(other, u) /\ t < u
             /\ Sent(other, u) => Sent(other, u)' \/ (other = id /\ u = t)
  <2>1. Sent(other, u)' <=> \E k \in DOMAIN s : s[k] = Store!Answer(other, <<u>>)
    BY <1>1 DEF Sent
  <2>2. ASSUME NEW k \in DOMAIN s, s[k] = Store!Answer(other, <<u>>)
        PROVE  Sent(other, u) /\ t < u
    <3>1. k + 1 \in DOMAIN events /\ events[k + 1] = Store!Answer(other, <<u>>)
      BY <1>3, <2>2
    <3>2. events[k + 1].values[1] = u
      BY <3>1 DEF Store!Answer
    <3>3. t < u
      BY <1>2, <1>3, <1>4, <3>1, <3>2 DEF InTurn
    <3> QED
      BY <3>1, <3>3 DEF Sent
  <2>3. ASSUME Sent(other, u) PROVE Sent(other, u)' \/ (other = id /\ u = t)
    <3>1. PICK k \in DOMAIN events : events[k] = Store!Answer(other, <<u>>)
      BY <2>3 DEF Sent
    <3>2. CASE k = 1
      BY <3>1, <3>2 DEF Store!Answer
    <3>3. CASE k # 1
      BY <1>3, <2>1, <3>1, <3>3
    <3> QED
      BY <3>2, <3>3
  <2> QED
    BY <2>1, <2>2, <2>3
<1>6. ASSUME NEW other \in IDs, pending = other PROVE t < Last(other)
  BY <1>2, <1>4, <1>6, Names DEF InTurn
<1>7. \A other \in IDs : Last(other)' = Last(other)
  BY DEF Last
<1>8. Sent(id, t)
  BY <1>2 DEF Sent
<1>9. Underway(id, t)
  BY <1>8, UnderwayMeans
<1> QED
  BY <1>5, <1>6, <1>7, <1>9, UnderwayMeans, UnderwayMeansNext

\* A reading is under way once it is added, before it is sent.
LEMMA AddedUnderway ==
  ASSUME Sound, Sound', NEW id \in IDs, addReading(id)
  PROVE  /\ \A t \in Time : t = clock' => Underway(id, t)'
         /\ \A other \in IDs : \A t \in Time :
              /\ Underway(other, t)' => Underway(other, t) \/ (other = id /\ t = clock')
              /\ Underway(other, t) => Underway(other, t)'
<1>1. /\ pending = None /\ pending' = id /\ clock' \in Time
      /\ Last(id)' = clock' /\ UNCHANGED events
  BY ReadingAdded DEF addReading, network
<1>2. PICK now \in Time : now = clock'
  BY <1>1
<1>3. \A other \in IDs : \A t \in Time : Sent(other, t)' <=> Sent(other, t)
  BY <1>1 DEF Sent
<1>4. Underway(id, now)'
  BY <1>1, <1>2, UnderwayMeansNext
<1>5. ASSUME NEW other \in IDs, NEW t \in Time
      PROVE  /\ Underway(other, t)' => Underway(other, t) \/ (other = id /\ t = now)
             /\ Underway(other, t) => Underway(other, t)'
  BY <1>1, <1>2, <1>3, Names, UnderwayMeans, UnderwayMeansNext
<1> QED
  BY <1>2, <1>4, <1>5

----------------------------------------------------------------------------
\* Of what is under way, and later, a line that began whole holds few readings:
\* they came with the history.
Few ==
  \A id \in whole : \A t \in Time :
    Underway(id, t) => Cardinality(Since(data[id], t)) <= MAX_ARR_ELEMS

\* An answer that comes before any event of its sensor lacks only what is under
\* way or lost.
Told ==
  at \in IDs /\ response # None /\ at \notin DOMAIN data
    => \A t \in Elements(kept[at]) :
         t \in Elements(response.values) \/ Underway(at, t) \/ <<at, t>> \in lost

\* The line is full of later readings, and what is under way is later too.
Outgrown(id, t) ==
  /\ Full(data[id])
  /\ \A other \in Elements(data[id]) : t < other
  /\ \A other \in Time : Underway(id, other) => t < other

Covered ==
  \A id \in whole : \A t \in Elements(kept[id]) :
    Recent(t) => \/ t \in Elements(data[id]) \/ Underway(id, t)
                 \/ <<id, t>> \in lost \/ Outgrown(id, t)

Traced == Few /\ Told /\ Covered

LEMMA KeptTimes ==
  ASSUME Sound, Passed
  PROVE  \A id \in IDs : \A t \in Elements(kept[id]) :
            t \in Time /\ t \in Nat /\ t <= clock
<1>1. \A id \in IDs : \A t \in Elements(kept[id]) : t \in Time
  BY DEF Sound, TypeOK, Elements
<1> QED
  BY <1>1, TimeIsNat DEF Passed

LEMMA WholeValues ==
  ASSUME Sound
  PROVE  \A id \in whole : /\ id \in IDs /\ id \in DOMAIN data
                           /\ data[id] \in Seq(Time)
<1> SUFFICES ASSUME NEW id \in whole
             PROVE  id \in IDs /\ id \in DOMAIN data /\ data[id] \in Seq(Time)
  OBVIOUS
<1>1. /\ id \in IDs /\ id \in DOMAIN data /\ data[id] \in Values
      /\ Undefined \notin Elements(data[id])
  BY DEF Sound, TypeOK, Unbroken, Throwing
<1>2. PICK v \in Seq(Time \cup {Undefined}) : v = data[id]
  BY <1>1 DEF Values
<1>3. /\ Len(v) \in Nat /\ DOMAIN v = 1..Len(v)
      /\ v \in [1..Len(v) -> Time \cup {Undefined}]
  BY SeqParts
<1>4. \A k \in 1..Len(v) : v[k] # Undefined
  BY <1>1, <1>2, <1>3 DEF Elements
<1>5. v \in [1..Len(v) -> Time]
  BY <1>3, <1>4
<1> QED
  BY <1>1, <1>2, <1>3, <1>5

LEMMA RecentBefore ==
  ASSUME NEW t \in Nat, clock \in Nat, clock' \in {clock, clock + 1}, Recent(t)'
  PROVE  Recent(t)
  BY ChartsAssumption DEF Recent

\* Steps that neither add a reading nor take one into a line.
LEMMA TracedKept ==
  ASSUME Sound, Passed, Traced, NoneForgotten,
         clock' \in {clock, clock + 1}, UNCHANGED <<kept, data, whole>>,
         response' = None \/ UNCHANGED <<at, response>>
  PROVE  Traced'
<1>1. clock \in Nat
  BY TimeIsNat DEF Sound, TypeOK
<1>2. Few'
  <2> SUFFICES ASSUME NEW id \in whole', NEW t \in Time, Underway(id, t)'
               PROVE  Cardinality(Since(data'[id], t)) <= MAX_ARR_ELEMS
    BY DEF Few, Since
  <2> QED
    BY WholeValues DEF Traced, Few, NoneForgotten
<1>3. Told'
  <2> SUFFICES ASSUME at' \in IDs, response' # None, at' \notin DOMAIN data',
                      NEW t \in Elements(kept'[at'])
               PROVE  \/ t \in Elements(response'.values)
                      \/ Underway(at, t)' \/ <<at', t>> \in lost'
    BY DEF Told
  <2>1. /\ at' = at /\ response' = response
        /\ t \in Elements(kept[at]) /\ t \in Time
    BY KeptTimes
  <2>2. t \in Elements(response.values) \/ Underway(at, t) \/ <<at, t>> \in lost
    BY <2>1 DEF Traced, Told
  <2>3. PICK id \in IDs : id = at
    BY <2>1
  <2>4. Underway(id, t) => Underway(id, t)' \/ <<id, t>> \in lost'
    BY <2>1 DEF NoneForgotten
  <2>5. /\ Underway(id, t) <=> Underway(at, t)
        /\ Underway(id, t)' <=> Underway(at, t)'
    BY <2>1, <2>3 DEF Underway, Sent
  <2> QED
    BY <2>1, <2>2, <2>3, <2>4, <2>5 DEF NoneForgotten
<1>4. Covered'
  <2> SUFFICES ASSUME NEW id \in whole', NEW t \in Elements(kept'[id]), Recent(t)'
               PROVE  \/ t \in Elements(data'[id]) \/ Underway(id, t)'
                      \/ <<id, t>> \in lost' \/ Outgrown(id, t)'
    BY DEF Covered
  <2>1. /\ id \in whole /\ id \in IDs /\ t \in Elements(kept[id])
        /\ t \in Time /\ t \in Nat
    BY WholeValues, KeptTimes
  <2>2. Recent(t)
    BY <1>1, <2>1, RecentBefore
  <2>3. CASE t \in Elements(data[id])
    BY <2>3
  <2>4. CASE Underway(id, t) \/ <<id, t>> \in lost
    BY <2>1, <2>4 DEF NoneForgotten
  <2>5. CASE Outgrown(id, t)
    BY <2>1, <2>5 DEF Outgrown, NoneForgotten, Full
  <2> QED
    BY <2>1, <2>2, <2>3, <2>4, <2>5 DEF Traced, Covered
<1> QED
  BY <1>2, <1>3, <1>4 DEF Traced

\* A new reading in the store: what leaves the store is asked for no more, and the
\* new one is under way, later than everything else.
LEMMA TracedAdded ==
  ASSUME Sound, Sound', Passed, Traced, NEW id \in IDs, addReading(id)
  PROVE  Traced'
<1>1. /\ clock' = clock + 1 /\ clock \in Nat /\ clock' \in Time
      /\ \A other \in IDs : other # id => kept'[other] = kept[other]
      /\ Elements(kept'[id]) \subseteq Elements(kept[id]) \cup {clock'}
      /\ UNCHANGED <<at, response, data, lost, whole>>
  BY ReadingAdded, TimeIsNat DEF addReading, page, loading, Sound, TypeOK
<1>2. PICK now \in Time : now = clock'
  BY <1>1
<1>3. /\ Underway(id, now)'
      /\ \A other \in IDs : \A t \in Time :
           /\ Underway(other, t)' => Underway(other, t) \/ (other = id /\ t = now)
           /\ Underway(other, t) => Underway(other, t)'
  BY <1>2, AddedUnderway
<1>4. ASSUME NEW other \in IDs, NEW t \in Elements(kept'[other])
      PROVE  \/ t \in Elements(kept[other]) /\ t \in Time /\ t < now
             \/ other = id /\ t = now
  BY <1>1, <1>2, <1>4, KeptTimes
<1>5. Few'
  <2> SUFFICES ASSUME NEW other \in whole, NEW t \in Time, Underway(other, t)'
               PROVE  Cardinality(Since(data[other], t)) <= MAX_ARR_ELEMS
    BY <1>1 DEF Few, Since
  <2>1. other \in IDs /\ other \in DOMAIN data /\ data[other] \in Seq(Time)
    BY WholeValues
  <2>2. CASE Underway(other, t)
    BY <2>2 DEF Traced, Few
  <2>3. CASE t = now
    <3>1. ASSUME NEW k \in DOMAIN data[other] PROVE ~(t <= data[other][k])
      <4>1. data[other][k] \in Elements(data[other]) /\ data[other][k] \in Nat
        <5>1. data[other][k] \in Time
          BY <2>1
        <5> QED
          BY <5>1, TimeIsNat DEF Elements
      <4>2. data[other][k] <= clock
        BY <2>1, <4>1, TimeIsNat DEF Passed
      <4> QED
        BY <1>1, <1>2, <2>3, <4>1, <4>2
    <3>2. Since(data[other], t) = {}
      BY <3>1 DEF Since
    <3>3. Cardinality({}) = 0
      BY FS_EmptySet
    <3> QED
      BY <3>2, <3>3, ChartsAssumption
  <2> QED
    BY <1>3, <2>1, <2>2, <2>3
<1>6. Told'
  <2> SUFFICES ASSUME at \in IDs, response # None, at \notin DOMAIN data,
                      NEW t \in Elements(kept'[at])
               PROVE  \/ t \in Elements(response.values)
                      \/ Underway(at, t)' \/ <<at, t>> \in lost
    BY <1>1 DEF Told
  <2>1. PICK other \in IDs : other = at
    OBVIOUS
  <2>2. Underway(other, t)' <=> Underway(at, t)'
    BY <1>1, <2>1 DEF Underway, Sent
  <2>3. CASE t = now /\ other = id
    BY <1>3, <2>2, <2>3
  <2>4. CASE t \in Elements(kept[other]) /\ t \in Time
    <3>1. Underway(other, t) => Underway(other, t)'
      BY <1>3, <2>4
    <3> QED
      BY <2>1, <2>2, <2>4, <3>1 DEF Traced, Told
  <2> QED
    BY <1>4, <2>1, <2>3, <2>4
<1>7. Covered'
  <2> SUFFICES ASSUME NEW other \in whole, NEW t \in Elements(kept'[other]), Recent(t)'
               PROVE  \/ t \in Elements(data[other]) \/ Underway(other, t)'
                      \/ <<other, t>> \in lost \/ Outgrown(other, t)'
    BY <1>1 DEF Covered
  <2>1. other \in IDs
    BY WholeValues
  <2>2. CASE t = now /\ other = id
    BY <1>3, <2>2
  <2>3. CASE t \in Elements(kept[other]) /\ t \in Time /\ t < now
    <3>1. Recent(t)
      BY <1>1, <2>3, RecentBefore, TimeIsNat
    <3>2. Outgrown(other, t) => Outgrown(other, t)'
      BY <1>1, <1>3, <2>1, <2>3 DEF Outgrown, Full
    <3> QED
      BY <1>3, <2>1, <2>3, <3>1, <3>2 DEF Traced, Covered
  <2> QED
    BY <1>4, <2>1, <2>2, <2>3
<1> QED
  BY <1>5, <1>6, <1>7 DEF Traced

\* A history lacks nothing when it is answered.
LEMMA TracedAnswered ==
  ASSUME Sound, Passed, Traced, sensorData
  PROVE  Traced'
<1>1. /\ at \in IDs /\ response' = Store!Answer(at, kept[at])
      /\ UNCHANGED <<clock, kept, pending, events, at, data, lost, whole>>
  BY DEF sensorData, host, network
<1>2. response'.values = kept[at]
  BY <1>1 DEF Store!Answer
<1>3. Told'
  BY <1>1, <1>2 DEF Told
<1>4. Few' /\ Covered'
  BY <1>1 DEF Traced, Few, Covered, Outgrown, Full, Underway, Sent, Recent, Since
<1> QED
  BY <1>3, <1>4 DEF Traced

\* A history that comes first begins a line, with all the host had then.
LEMMA TracedBegun ==
  ASSUME Sound, Passed, Traced, initialFetchSensorsData
  PROVE  Traced'
<1>1. /\ at \in IDs /\ response # None /\ response' = None
      /\ data' = addDataToSensor(response)
      /\ whole' = IF at \in DOMAIN data THEN whole ELSE whole \cup {at}
      /\ UNCHANGED <<clock, kept, pending, events, lost>>
  BY AnswerHandled DEF host, network
<1>2. /\ response \in Answered /\ response.identifier = at
      /\ Len(response.values) <= Size /\ at \notin whole
  BY <1>1 DEF Sound, Shapes, Loop
<1>3. PICK answer \in Answered : answer = response
  BY <1>2
<1>4. PICK values \in Seq(Time) : values = answer.values
  BY DEF Answered
<1>5. /\ \A id \in DOMAIN data : id # at => data'[id] = data[id]
      /\ at \notin DOMAIN data => data'[at] = values
  <2>1. \A id \in DOMAIN data : data[id] \in Values
    BY DEF Sound, TypeOK
  <2> QED
    BY <1>1, <1>2, <1>3, <1>4, <2>1, AddedData
<1>6. ASSUME NEW id \in whole
      PROVE  id \in DOMAIN data /\ data'[id] = data[id]
  BY <1>2, <1>5, WholeValues
<1>7. ASSUME NEW id, NEW t
      PROVE  /\ Underway(id, t)' <=> Underway(id, t)
             /\ Recent(t)' <=> Recent(t)
  BY <1>1 DEF Underway, Sent, Recent
<1>8. Few'
  <2> SUFFICES ASSUME NEW id \in whole', NEW t \in Time, Underway(id, t)'
               PROVE  Cardinality(Since(data'[id], t)) <= MAX_ARR_ELEMS
    BY DEF Few, Since
  <2>1. CASE id \in whole
    BY <1>6, <1>7, <2>1 DEF Traced, Few
  <2>2. CASE id = at /\ at \notin DOMAIN data
    <3>1. Len(values) \in Nat /\ DOMAIN values = 1..Len(values)
      BY SeqParts
    <3>2. /\ IsFiniteSet(1..Len(values))
          /\ Cardinality(1..Len(values))
               = IF 1 > Len(values) THEN 0 ELSE Len(values) - 1 + 1
      BY <3>1, FS_Interval
    <3>3. Since(values, t) \in SUBSET (1..Len(values))
      BY <3>1 DEF Since
    <3>4. Cardinality(Since(values, t)) <= Cardinality(1..Len(values))
      BY <3>2, <3>3, FS_Subset
    <3>5. Cardinality(Since(values, t)) \in Nat
      BY <3>2, <3>3, FS_Subset, FS_CardinalityType
    <3>6. Len(values) <= MAX_ARR_ELEMS
      BY <1>2, <1>3, <1>4, <3>1, ChartsAssumption
    <3>7. Cardinality(Since(values, t)) <= MAX_ARR_ELEMS
      BY <3>1, <3>2, <3>4, <3>5, <3>6, ChartsAssumption
    <3> QED
      BY <1>5, <2>2, <3>7
  <2> QED
    BY <1>1, <2>1, <2>2
<1>9. Covered'
  <2> SUFFICES ASSUME NEW id \in whole', NEW t \in Elements(kept[id]), Recent(t)
               PROVE  \/ t \in Elements(data'[id]) \/ Underway(id, t)
                      \/ <<id, t>> \in lost \/ Outgrown(id, t)'
    BY <1>1, <1>7 DEF Covered
  <2>1. CASE id \in whole
    <3>1. Outgrown(id, t) => Outgrown(id, t)'
      BY <1>6, <1>7, <2>1 DEF Outgrown, Full
    <3> QED
      BY <1>6, <2>1, <3>1 DEF Traced, Covered
  <2>2. CASE id = at /\ at \notin DOMAIN data
    <3>1. t \in Elements(values) \/ Underway(at, t) \/ <<at, t>> \in lost
      BY <1>1, <1>3, <1>4, <2>2 DEF Traced, Told
    <3> QED
      BY <1>5, <2>2, <3>1
  <2> QED
    BY <1>1, <2>1, <2>2
<1>10. Told'
  BY <1>1 DEF Told
<1> QED
  BY <1>8, <1>9, <1>10 DEF Traced

\* An event comes into a line, and readings go out of it.
LEMMA TracedHandled ==
  ASSUME Sound, Sound', Passed, InTurn, Traced, newReading
  PROVE  Traced'
<1>1. /\ events # <<>> /\ events' = Tail(events)
      /\ UNCHANGED <<clock, kept, pending, at, response, lost, whole>>
  BY ReadingHandled DEF host, loading
<1>2. PICK id0 \in IDs, t0 \in Time, d \in {addDataToSensor(Head(events))} :
        /\ events[1] = Store!Answer(id0, <<t0>>)
        /\ DOMAIN d = DOMAIN data \cup {id0} /\ DOMAIN data' = DOMAIN d
        /\ Throwing(data)' = Throwing(d)
        /\ \A other \in DOMAIN data : other # id0 => d[other] = data[other]
        /\ id0 \in DOMAIN data => d[id0] = Append(data[id0], t0)
        /\ \A other \in DOMAIN d : Elements(data'[other]) \subseteq Elements(d[other])
        /\ \A other \in DOMAIN d \ Throwing(d) :
              /\ d[other] \in Seq(Time)
              /\ \/ data'[other] = Trimmed(d[other])
                 \/ data'[other] = d[other] /\ Throwing(d) # {}
  BY ReadingHandled
<1>3. /\ Underway(id0, t0)
      /\ \A id \in IDs : \A t \in Time :
           /\ Underway(id, t)' => Underway(id, t)
           /\ Underway(id, t) => Underway(id, t)' \/ (id = id0 /\ t = t0)
           /\ Underway(id, t)' => t0 < t
  BY <1>1, <1>2, HandledFirst
<1>4. clock \in Nat /\ t0 \in Nat /\ MAX_ARR_ELEMS \in Nat
  BY TimeIsNat, ChartsAssumption DEF Sound, TypeOK

\* The line before and after the reading is pushed, and as it is left.
<1>5. ASSUME NEW id \in whole
      PROVE  /\ id \in IDs /\ id \in DOMAIN data /\ data[id] \in Seq(Time)
             /\ d[id] \in Seq(Time)
             /\ data'[id] = Trimmed(d[id]) \/ data'[id] = d[id]
             /\ Elements(data'[id]) \subseteq Elements(d[id])
             /\ d[id] = data[id] \/ (id = id0 /\ d[id] = Append(data[id], t0))
             /\ id = id0 => t0 \in Elements(d[id])
  <2>1. id \in IDs /\ id \in DOMAIN data /\ data[id] \in Seq(Time)
    BY WholeValues
  <2>2. id \in DOMAIN d /\ id \notin Throwing(d)
    BY <1>1, <1>2, <2>1 DEF Sound, Unbroken
  <2>3. id = id0 => t0 \in Elements(Append(data[id], t0))
    <3>1. PICK v \in Seq(Time) : v = data[id]
      BY <2>1
    <3>2. Len(v) + 1 \in DOMAIN Append(v, t0) /\ Append(v, t0)[Len(v) + 1] = t0
      OBVIOUS
    <3> QED
      BY <3>1, <3>2 DEF Elements
  <2> QED
    BY <1>2, <2>1, <2>2, <2>3
<1>6. ASSUME NEW id \in whole
      PROVE  /\ Elements(data[id]) \subseteq Elements(d[id])
             /\ Elements(d[id])
                  \subseteq Elements(data[id]) \cup (IF id = id0 THEN {t0} ELSE {})
             /\ Len(d[id]) \in Nat /\ Len(data[id]) \in Nat
             /\ Len(d[id]) >= Len(data[id])
  <2>1. CASE d[id] = data[id]
    BY <1>5, <2>1
  <2>2. CASE id = id0 /\ d[id] = Append(data[id], t0)
    <3>1. PICK v \in Seq(Time) : v = data[id]
      BY <1>5
    <3>2. PICK w : w = Append(v, t0)
      OBVIOUS
    <3>3. /\ Len(v) \in Nat /\ DOMAIN v = 1..Len(v)
          /\ Len(w) = Len(v) + 1 /\ DOMAIN w = DOMAIN v \cup {Len(v) + 1}
          /\ \A k \in DOMAIN v : w[k] = v[k]
          /\ w[Len(v) + 1] = t0
      BY <3>2
    <3>4. /\ Elements(v) \subseteq Elements(w)
          /\ Elements(w) \subseteq Elements(v) \cup {t0}
      BY <3>3 DEF Elements
    <3> QED
      BY <2>2, <3>1, <3>2, <3>3, <3>4
  <2> QED
    BY <1>5, <2>1, <2>2

\* What is still under way comes after the reading, which adds nothing there.
<1>7. ASSUME NEW id \in whole, NEW t \in Time, Underway(id, t)'
      PROVE  Cardinality(Since(d[id], t)) <= MAX_ARR_ELEMS
  <2>1. Since(d[id], t) = Since(data[id], t)
    <3>1. CASE d[id] = data[id]
      BY <3>1
    <3>2. CASE id = id0 /\ d[id] = Append(data[id], t0)
      <4>1. t0 < t /\ t \in Nat
        BY <1>3, <1>5, <1>7, TimeIsNat
      <4>2. PICK v \in Seq(Time) : v = data[id]
        BY <1>5
      <4>3. PICK w : w = Append(v, t0)
        OBVIOUS
      <4>4. /\ Len(v) \in Nat /\ DOMAIN v = 1..Len(v)
            /\ DOMAIN w = DOMAIN v \cup {Len(v) + 1}
            /\ \A k \in DOMAIN v : w[k] = v[k]
            /\ w[Len(v) + 1] = t0
        BY <4>3
      <4>5. Since(w, t) = Since(v, t)
        BY <1>4, <4>1, <4>4 DEF Since
      <4> QED
        BY <3>2, <4>2, <4>3, <4>5
    <3> QED
      BY <1>5, <3>1, <3>2
  <2>2. Cardinality(Since(data[id], t)) <= MAX_ARR_ELEMS
    BY <1>3, <1>5, <1>7 DEF Traced, Few
  <2> QED
    BY <2>1, <2>2
<1>8. Few'
  <2> SUFFICES ASSUME NEW id \in whole, NEW t \in Time, Underway(id, t)'
               PROVE  Cardinality(Since(data'[id], t)) <= MAX_ARR_ELEMS
    BY <1>1 DEF Few, Since
  <2>1. PICK v \in Seq(Time) : v = d[id]
    BY <1>5
  <2>2. Cardinality(Since(v, t)) <= MAX_ARR_ELEMS
    BY <1>7, <2>1
  <2>3. Cardinality(Since(Trimmed(v), t)) <= Cardinality(Since(v, t))
    BY <1>4, TrimmedSince
  <2>4. /\ Cardinality(Since(v, t)) \in Nat
        /\ Cardinality(Since(Trimmed(v), t)) \in Nat
    <3>1. ASSUME NEW w \in Seq(Time) PROVE Cardinality(Since(w, t)) \in Nat
      <4>1. Len(w) \in Nat /\ DOMAIN w = 1..Len(w)
        OBVIOUS
      <4>2. IsFiniteSet(1..Len(w))
        BY <4>1, FS_Interval
      <4>3. Since(w, t) \subseteq 1..Len(w)
        BY <4>1 DEF Since
      <4> QED
        BY <4>2, <4>3, FS_Subset, FS_CardinalityType
    <3> QED
      BY <1>4, <3>1, TrimmedValues
  <2>5. Cardinality(Since(Trimmed(v), t)) <= MAX_ARR_ELEMS
    BY <1>4, <2>2, <2>3, <2>4
  <2> QED
    BY <1>5, <2>1, <2>2, <2>5
<1>9. Told'
  <2> SUFFICES ASSUME at \in IDs, response # None, at \notin DOMAIN data',
                      NEW t \in Elements(kept[at])
               PROVE  \/ t \in Elements(response.values)
                      \/ Underway(at, t)' \/ <<at, t>> \in lost
    BY <1>1 DEF Told
  <2>1. PICK id \in IDs : id = at
    OBVIOUS
  <2>2. /\ Underway(id, t)' <=> Underway(at, t)'
        /\ Underway(id, t) <=> Underway(at, t)
    BY <1>1, <2>1 DEF Underway, Sent
  <2>3. id \notin DOMAIN data /\ id # id0 /\ t \in Time
    BY <1>2, <2>1, KeptTimes
  <2>4. Underway(id, t) => Underway(id, t)'
    BY <1>3, <2>3
  <2> QED
    BY <2>1, <2>2, <2>3, <2>4 DEF Traced, Told
<1>10. Covered'
  <2> SUFFICES ASSUME NEW id \in whole, NEW t \in Elements(kept[id]), Recent(t)
               PROVE  \/ t \in Elements(data'[id]) \/ Underway(id, t)'
                      \/ <<id, t>> \in lost \/ Outgrown(id, t)'
    BY <1>1 DEF Covered, Recent
  <2>1. id \in IDs /\ t \in Time /\ t \in Nat
    BY <1>5, KeptTimes
  <2>2. PICK v \in Seq(Time) : v = d[id]
    BY <1>5
  \* A reading of the line that is not in it any more.
  <2>3. CASE t \in Elements(v)
    <3>1. CASE data'[id] = v
      BY <2>3, <3>1
    <3>2. CASE data'[id] = Trimmed(v) /\ t \notin Elements(Trimmed(v))
      <4>1. Full(Trimmed(v)) /\ \A other \in Elements(Trimmed(v)) : t < other
        BY <1>4, <2>3, <3>2, TrimmedValues
      <4>2. ASSUME NEW u \in Time, Underway(id, u)' PROVE t < u
        <5>1. u \in Nat
          BY TimeIsNat
        <5>2. ASSUME u <= t PROVE FALSE
          <6>1. Cardinality(Since(v, u)) <= MAX_ARR_ELEMS
            BY <1>7, <2>2, <4>2
          <6> QED
            BY <1>4, <2>3, <3>2, <5>2, <6>1, TrimmedSince
        <5> QED
          BY <2>1, <5>1, <5>2
      <4> QED
        BY <3>2, <4>1, <4>2 DEF Outgrown, Full
    <3> QED
      BY <1>5, <2>2, <3>1, <3>2
  <2>4. CASE Outgrown(id, t)
    <3>1. /\ Len(data[id]) >= MAX_ARR_ELEMS
          /\ \A other \in Elements(data[id]) : t < other
          /\ \A other \in Time : Underway(id, other) => t < other
      BY <2>4 DEF Outgrown, Full
    <3>2. ASSUME NEW other \in Elements(v) PROVE t < other
      <4>1. other \in Elements(data[id]) \/ (id = id0 /\ other = t0)
        BY <1>6, <2>2
      <4> QED
        BY <1>3, <3>1, <4>1
    <3>3. Full(v)
      BY <1>4, <1>6, <2>2, <3>1 DEF Full
    <3>4. ASSUME NEW other \in Elements(v) PROVE Recent(other)
      <4>1. other \in Nat /\ t < other /\ Day \in Nat
        <5>1. v \in Seq(Time)
          BY <1>5, <2>2
        <5>2. other \in Time
          BY <5>1 DEF Elements
        <5> QED
          BY <3>2, <5>2, TimeIsNat, ChartsAssumption
      <4> QED
        BY <1>4, <2>1, <4>1 DEF Recent
    <3>5. Full(Trimmed(v))
      BY <1>4, <3>3, <3>4, TrimmedValues
    <3>6. Full(data'[id])
      BY <1>5, <2>2, <3>3, <3>5
    <3>7. \A other \in Elements(data'[id]) : t < other
      BY <1>5, <2>2, <3>2
    <3>8. \A other \in Time : Underway(id, other)' => t < other
      BY <1>3, <2>1, <3>1
    <3> QED
      BY <3>6, <3>7, <3>8 DEF Outgrown, Full
  <2>5. CASE Underway(id, t)
    <3>1. Underway(id, t)' \/ (id = id0 /\ t = t0)
      BY <1>3, <2>1, <2>5
    <3> QED
      BY <1>5, <2>2, <2>3, <3>1
  <2>6. CASE t \in Elements(data[id])
    BY <1>6, <2>2, <2>3, <2>6
  <2> QED
    BY <2>4, <2>5, <2>6 DEF Traced, Covered
<1> QED
  BY <1>8, <1>9, <1>10 DEF Traced

LEMMA TracedInit == Init => Traced
  BY Names DEF Init, Traced, Few, Told, Covered

LEMMA TracedStep ==
  Sound /\ Sound' /\ Passed /\ InTurn /\ Traced /\ [Next]_vars => Traced'
<1> SUFFICES ASSUME Sound, Sound', Passed, InTurn, Traced, [Next]_vars
             PROVE  Traced'
  OBVIOUS
<1> DEFINE Still == /\ clock' \in {clock, clock + 1} /\ UNCHANGED <<kept, data, whole>>
                    /\ response' = None \/ UNCHANGED <<at, response>>
<1>1. ASSUME Still, NoneForgotten PROVE Traced'
  BY <1>1, TracedKept
<1>2. CASE \E id \in IDs : addReading(id)
  BY <1>2, TracedAdded
<1>3. CASE sensorData
  BY <1>3, TracedAnswered
<1>4. CASE initialFetchSensorsData
  BY <1>4, TracedBegun
<1>5. CASE newReading
  BY <1>5, TracedHandled
<1>6. CASE Load
  BY <1>6 DEF Load, Traced, Few, Told, Covered
<1>7. CASE HostRestart
  <2>1. /\ events' = <<>> /\ pending' = None
        /\ kept' = [id \in IDs |-> <<>>]
        /\ UNCHANGED <<data, whole>>
        /\ response' = None \/ (at \notin IDs /\ at' = at)
    <3>1. /\ events' = <<>> /\ pending' = None
          /\ kept' = [id \in IDs |-> <<>>]
          /\ UNCHANGED <<data, whole>>
      BY <1>7 DEF HostRestart, Disconnected
    <3>2. Rejected
      BY <1>7 DEF HostRestart
    <3>3. CASE at \in IDs \cup {"mapping"}
      BY <3>1, <3>2, <3>3 DEF Rejected
    <3>4. CASE at \notin IDs \cup {"mapping"}
      BY <3>1, <3>2, <3>4 DEF Rejected, loading
    <3> QED
      BY <3>3, <3>4
  <2>2. \A id \in IDs : Elements(kept'[id]) = {}
    BY <2>1 DEF Elements
  <2>3. ASSUME NEW id \in IDs, NEW t \in Time PROVE ~Underway(id, t)'
    BY <2>1, Names DEF Underway, Sent
  <2>4. Few' /\ Covered'
    BY <2>1, <2>2, <2>3, WholeValues DEF Few, Covered
  <2>5. Told'
    BY <2>1, <2>2 DEF Told
  <2> QED
    BY <2>4, <2>5 DEF Traced
<1>8. CASE sensorIDsToNames
  <2>1. /\ at = "mapping" /\ at \notin IDs
        /\ UNCHANGED <<clock, kept, pending, events, at, data, lost, whole>>
    BY <1>8, Names DEF sensorIDsToNames, host, network
  <2> QED
    BY <2>1 DEF Traced, Few, Told, Covered, Outgrown, Full, Underway, Sent,
                Recent, Since
<1>9. ASSUME sendEvent PROVE Still /\ NoneForgotten
  BY <1>9, SentOn DEF sendEvent, Send, page, loading
<1>10. ASSUME StreamBreaks PROVE Still /\ NoneForgotten
  BY <1>10, StreamBroken DEF StreamBreaks, host, page, loading
<1>11. ASSUME \/ Tick \/ (\E id \in IDs : ChangeTable(id)) \/ setupEventsSource
              \/ FetchFails \/ fetchSensorsMapping
       PROVE  Still /\ NoneForgotten
  <2>1. Still
    BY <1>11 DEF Tick, ChangeTable, setupEventsSource, FetchFails, Rejected,
                 fetchSensorsMapping, host, page, loading
  <2>2. UNCHANGED <<events, pending, kept>> /\ lost \subseteq lost'
    BY <1>11 DEF Tick, ChangeTable, setupEventsSource, FetchFails,
                 fetchSensorsMapping, host, network
  <2> QED
    BY <2>1, <2>2, NothingMoves
<1>12. CASE NameThrows
  <2>1. whole' = {} /\ at' = "null"
    BY <1>12 DEF NameThrows, page, loading, Sound, Loop
  <2> QED
    BY <2>1, Names DEF Traced, Few, Told, Covered
<1>13. ASSUME UNCHANGED vars PROVE Still /\ NoneForgotten
  BY <1>13, NothingMoves DEF vars, host, network, page, loading
<1> HIDE DEF Still
<1> QED
  BY <1>1, <1>2, <1>3, <1>4, <1>5, <1>6, <1>7, <1>8, <1>9, <1>10, <1>11, <1>12,
     <1>13 DEF Next, Host, Connections, Page

\* All parts together are inductive.
IInv == Sound /\ Limited /\ Passed /\ InTurn /\ Traced

LEMMA Inductive == Spec => []IInv
<1>1. Init => IInv
  BY SoundInit, LimitedInit, OrderInit, TracedInit DEF IInv
<1>2. IInv /\ [Next]_vars => IInv'
  <2> SUFFICES ASSUME IInv, [Next]_vars PROVE IInv'
    OBVIOUS
  <2>1. Sound /\ Limited /\ Passed /\ InTurn /\ Traced
    BY DEF IInv
  <2>2. Sound'
    BY <2>1, SoundStep
  <2> QED
    BY <2>1, <2>2, LimitedStep, PassedStep, InTurnStep, TracedStep DEF IInv
<1> QED
  BY <1>1, <1>2, PTL DEF Spec

\* In every state the page and the host hold what the rest of the proofs take
\* for granted: no more readings than the store's limit, one reading in an event,
\* and no more events that wait than the host's queue has room for
\* (charts.js:51-72, 103-115).
THEOREM TypeCorrect == Spec => []TypeOK
<1>1. IInv => TypeOK
  BY DEF IInv, Sound
<1> QED
  BY <1>1, Inductive, PTL

\* What a step does to a page that draws.
LEMMA DrawsOn ==
  ASSUME Sound, [Next]_vars, Draws, ~Draws'
  PROVE  /\ response # None
         /\ \/ at = "mapping" /\ response.null
            \/ at \in DOMAIN data /\ response.values = <<>>
<1> USE DEF host, network, loading, page
<1>1. DOMAIN data \subseteq IDs /\ \A id \in DOMAIN data : data[id] \in Values
  BY DEF Sound, TypeOK
\* Most steps leave the page's readings, and its table.
<1>2. ASSUME UNCHANGED data, at' # "null" PROVE FALSE
  BY <1>2 DEF Draws, Throwing
<1>3. ASSUME Host \/ setupEventsSource \/ StreamBreaks PROVE FALSE
  <2>1. UNCHANGED <<data, at>>
    BY <1>3 DEF Host, Tick, sendEvent, Send, sensorIDsToNames, sensorData,
                addReading, ChangeTable, setupEventsSource, StreamBreaks
  <2> QED
    BY <1>2, <2>1 DEF Draws
<1>4. ASSUME FetchFails \/ HostRestart PROVE FALSE
  <2>1. UNCHANGED data /\ (at' = at \/ at' = "failed")
    BY <1>4 DEF FetchFails, HostRestart, Rejected
  <2> QED
    BY <1>2, <2>1 DEF Draws
<1>5. ASSUME Load PROVE FALSE
  BY <1>5 DEF Load, NoData, Draws, Throwing
<1>6. CASE fetchSensorsMapping
  <2>1. /\ at = "mapping" /\ response # None /\ UNCHANGED data
        /\ ~response.null => Ask(response.sensors)
    BY <1>6 DEF fetchSensorsMapping
  <2>2. ASSUME ~response.null PROVE FALSE
    <3>1. PICK rest \in SUBSET IDs : Ask(rest)
      BY <2>1, <2>2 DEF Sound, Shapes
    <3> QED
      BY <1>2, <2>1, <3>1, Requested
  <2> QED
    BY <2>1, <2>2
<1>7. CASE initialFetchSensorsData
  <2>1. /\ at \in IDs /\ response # None
        /\ data' = addDataToSensor(response)
        /\ Ask(todo) \/ (at' = "failed" /\ todo' = {})
    BY <1>7, AnswerHandled
  <2>2. response \in Answered /\ response.identifier = at
    BY <2>1 DEF Sound, Shapes
  <2>3. PICK answer \in Answered : answer = response
    BY <2>2
  <2>4. PICK values \in Seq(Time) : values = answer.values
    BY DEF Answered
  <2>5. /\ DOMAIN data' = DOMAIN data \cup {at}
        /\ \A id \in DOMAIN data : id # at => data'[id] = data[id]
        /\ at \in DOMAIN data => data'[at] = Append(data[at], First(values))
        /\ at \notin DOMAIN data => data'[at] = values
    BY <1>1, <2>1, <2>2, <2>3, <2>4, AddedData
  <2>6. at' # "null"
    <3>1. PICK rest \in SUBSET IDs : rest = todo
      BY DEF Sound, TypeOK
    <3> QED
      BY <2>1, <3>1, Requested
  <2>7. PICK id \in DOMAIN data' : Undefined \in Elements(data'[id])
    BY <2>6 DEF Draws, Throwing
  <2>8. id = at
    BY <2>5, <2>7 DEF Draws, Throwing
  <2>9. at \in DOMAIN data
    BY <2>5, <2>7, <2>8, TimeIsNat DEF Elements
  <2>10. First(values) = Undefined
    <3>1. PICK v \in Seq(Time \cup {Undefined}) : v = data[at]
      BY <1>1, <2>9 DEF Values
    <3>2. Undefined \notin Elements(v)
      BY <2>9, <3>1 DEF Draws, Throwing
    <3>3. First(values) \in Time \cup {Undefined}
      BY DEF First
    <3>4. \A k \in DOMAIN Append(v, First(values)) :
             \/ k \in DOMAIN v /\ Append(v, First(values))[k] = v[k]
             \/ Append(v, First(values))[k] = First(values)
      BY <3>3
    <3> QED
      BY <2>5, <2>7, <2>8, <2>9, <3>1, <3>2, <3>4 DEF Elements
  <2>11. values = <<>>
    BY <2>10, TimeIsNat DEF First
  <2> QED
    BY <2>1, <2>3, <2>4, <2>9, <2>11
<1>8. ASSUME newReading PROVE FALSE
  <2>1. PICK id \in IDs, t \in Time, d \in {addDataToSensor(Head(events))} :
          /\ DOMAIN d = DOMAIN data \cup {id}
          /\ Throwing(data)' = Throwing(d)
          /\ \A other \in DOMAIN data : other # id => d[other] = data[other]
          /\ id \in DOMAIN data => d[id] = Append(data[id], t)
          /\ id \notin DOMAIN data => d[id] = <<t>>
    BY <1>8, ReadingHandled, ZenonT(60)
  <2>2. UNCHANGED at
    BY <1>8, ReadingHandled
  <2>3. PICK other \in DOMAIN d : Undefined \in Elements(d[other])
    BY <2>1, <2>2 DEF Draws, Throwing
  <2>4. other = id
    BY <2>1, <2>3 DEF Draws, Throwing
  <2>5. id \in DOMAIN data
    BY <2>1, <2>3, <2>4, TimeIsNat DEF Elements
  <2>6. PICK v \in Seq(Time \cup {Undefined}) : v = data[id]
    BY <1>1, <2>5 DEF Values
  <2>7. \A k \in DOMAIN Append(v, t) :
           \/ k \in DOMAIN v /\ Append(v, t)[k] = v[k]
           \/ Append(v, t)[k] = t
    OBVIOUS
  <2>8. Undefined \in Elements(v)
    BY <2>1, <2>3, <2>4, <2>5, <2>6, <2>7, TimeIsNat DEF Elements
  <2> QED
    BY <2>5, <2>6, <2>8 DEF Draws, Throwing
<1>9. ASSUME NameThrows PROVE FALSE
  BY <1>9 DEF NameThrows, Draws
<1>10. ASSUME UNCHANGED vars PROVE FALSE
  BY <1>10 DEF vars, Draws, Throwing
<1> QED
  BY <1>3, <1>4, <1>5, <1>6, <1>7, <1>8, <1>9, <1>10 DEF Next, Connections, Page

\* However events and answers overtake one another, a page that draws stops
\* doing so only on a table that is null, or on the empty history of a sensor
\* that an event came from before (charts.js:15-29, 51-72, 103-115).
THEOREM AlwaysStands == Spec => Stands
<1>1. IInv /\ [Next]_vars =>
        [Draws /\ ~Draws' =>
           /\ response # None
           /\ \/ at = "mapping" /\ response.null
              \/ at \in DOMAIN data /\ response.values = <<>>]_vars
  BY DrawsOn DEF IInv
<1> QED
  BY <1>1, Inductive, PTL DEF Spec, Stands

\* For any number of sensors, readings and reloads: while it draws, the page has
\* at most one reading per sensor more than MAX_ARR_ELEMS, the one a history adds
\* to a line without trimming it (charts.js:31-49, 51-72).
THEOREM AlwaysBounded == Spec => []Bounded
<1>1. IInv => Bounded
  BY DEF IInv, Limited, Bounded
<1> QED
  BY <1>1, Inductive, PTL

\* However requests and events overtake one another, and wherever the host
\* restarts or the stream breaks: the line of a sensor whose history came first
\* lacks no recent reading but those lost with the stream, still on their way,
\* or older than a full line (charts.js:15-72, 103-115; App.cpp:136-141).
THEOREM NoGaps == Spec => []NoGap
<1>1. IInv => NoGap
  BY DEF IInv, Traced, Covered, Outgrown, NoGap
<1> QED
  BY <1>1, Inductive, PTL

\* On every screen that is wide enough for a plot, for any readings at any times:
\* the page's grid of times is in the plot and its labels do not overlap
\* (microChart.js:55, 269-287).
THEOREM TimesAreReadable == Spec => []TimesReadable
  BY TypeCorrect, TimesFit, PTL

\* Whatever is measured, all values equal or on both sides of zero: the page's
\* grid of values has a step, few lines, and room for the lines of the sensors
\* (microChart.js:90-102, 215-258).
THEOREM ValuesAreReadable == Spec => []ValuesReadable
  BY TypeCorrect, ValuesFit, PTL
=============================================================================
