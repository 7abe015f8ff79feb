----------------------------- MODULE MicroChart -----------------------------
(***************************************************************************)
(* The axes of a chart (html/microChart.js): ranges, steps and lines.      *)
(* Times are whole seconds and measured values tenths; what is drawn is    *)
(* described on the axes, in seconds and in halves of a degree or percent, *)
(* which pixels are proportional to.  Where JavaScript rounds a quotient   *)
(* up or down that is exact, its floating point may be off by one.         *)
(***************************************************************************)
EXTENDS Integers, FiniteSets

leftMargin  == 80
rightMargin == 180
minPixelsPerTimestamp == 50
fiveMinutesInSec == 300

Floor(a, b) == a \div b
Ceil(a, b) == -((-a) \div b)

Floors(a, b) == {Floor(a, b)} \cup IF a % b = 0 THEN {Floor(a, b) - 1} ELSE {}
Ceils(a, b)  == {Ceil(a, b)}  \cup IF a % b = 0 THEN {Ceil(a, b) + 1}  ELSE {}

\* Math.round of half an integer: half up.
RoundHalf(a) == (a + 1) \div 2

\* The width of the plot on a canvas.
Plot(width) == width - rightMargin - leftMargin

\* Of all sensors' values, of which there are some.
calcCommonMinMax(values) ==
  [min |-> CHOOSE v \in values : \A w \in values : v <= w,
   max |-> CHOOSE v \in values : \A w \in values : w <= v]

\* What draw() makes of the times: 20 minutes at least.
xRange(times) ==
  LET range == calcCommonMinMax(times)
  IN  [range EXCEPT !.min = IF @ < range.max - 1200 THEN @ ELSE range.max - 1200]

\* Mutation: the range is not made wider than the values by a whole number.
expandExactly(values) ==
  LET range == calcCommonMinMax(values)
      span  == range.max - range.min
  IN  [min : Floors(5 * range.min - span, 50), max : Ceils(5 * range.max + span, 50)]

\* A fifth of the span is 1/50 of five times its tenths.
expandRange(values) ==
  LET range == calcCommonMinMax(values)
      span  == range.max - range.min
  IN  [min : {v - 1 : v \in Floors(5 * range.min - span, 50)},
       max : {v + 1 : v \in Ceils(5 * range.max + span, 50)}]

\* Mutation: as many minutes as fit, rounded down.
stepDown(range, width) ==
  {factor * fiveMinutesInSec : factor \in
     Floors(minPixelsPerTimestamp * (range.max - range.min),
            fiveMinutesInSec * Plot(width))}

\* The step of drawLegendX.
StepX(range, width) ==
  {factor * fiveMinutesInSec : factor \in
     Ceils(minPixelsPerTimestamp * (range.max - range.min),
           fiveMinutesInSec * Plot(width))}

drawLegendX(range, step) ==
  LET start == Ceil(range.min, fiveMinutesInSec) * fiveMinutesInSec
  IN  {start + k * step : k \in 0..((range.max - start - 1) \div step)}

\* The step of drawLegendY, in halves.  It is never zero, so the loop that would
\* look for a smaller one does nothing.
StepY(range) == (range.max - range.min + 2) \div 4

Pivot(range) == IF range.min < 0 /\ range.max > 0 THEN 0
                ELSE RoundHalf(range.min + range.max)

\* From the pivot up and down to the ends, and the ends.
drawLegendY(range) ==
  {2 * range.min, 2 * range.max} \cup
  {line \in 2 * range.min..2 * range.max :
     (line - 2 * Pivot(range)) % StepY(range) = 0}
=============================================================================
