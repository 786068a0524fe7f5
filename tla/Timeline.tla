------------------------------ MODULE Timeline ------------------------------
(***************************************************************************)
(* The date range of the dialog "New run" (ui/app.js): a bar on the time   *)
(* line of the selected symbols' data, which is placed when the dialog     *)
(* opens, dragged with the mouse, and moved and resized when symbols,      *)
(* intervals or the period change, in any order and even while it is       *)
(* dragged (a selection keeps the focus, so the keyboard still works).     *)
(***************************************************************************)
EXTENDS Integers, FiniteSetsExt

CONSTANTS Symbols,        \* symbol -> [first, last], its data
          Intervals,      \* the offered intervals: the time that 200 bars of each take
          DefaultWarmup,  \* the same for the interval that counts if none is checked
          Periods,        \* the offered periods, in whole days
          Day             \* the length of a day

VARIABLES symbols,    \* the checked symbols
          intervals,  \* the checked intervals
          period,
          tl,         \* tlState
          drag        \* where the bar was when the mouse was pressed on it

vars == <<symbols, intervals, period, tl, drag>>

NoTimeline == [dataStart |-> 0, dataEnd |-> 0, warmup |-> 0, assessStart |-> 0, assessEnd |-> 0]
NoDrag == -1

(* The first checked interval counts; the list is in ascending order. *)
WarmupOf(set) == IF set = {} THEN DefaultWarmup ELSE Min(set)
Warmup == WarmupOf(intervals')

First(set) == Min({Symbols[s].first : s \in set})
Last(set) == Max({Symbols[s].last : s \in set})
Larger(a, b) == Max({a, b})
Smaller(a, b) == Min({a, b})

InitTimeline ==
    IF symbols' = {} THEN tl' = NoTimeline
    ELSE LET available == First(symbols') + Warmup
             end == Last(symbols')
         IN  tl' = [dataStart |-> First(symbols'), dataEnd |-> end, warmup |-> Warmup,
                    assessStart |-> Larger(available, end - period'),
                    assessEnd |-> end]

(* Mutant of Placed: the end of the data is forgotten. *)
PlacedFirst(start, length, available, end) ==
    [from |-> Larger(start, available), to |-> Larger(start, available) + length]

(* The bar keeps its start if it can, is as long as the period, or as the  *)
(* data allow, and is moved back to end with the data.                     *)
Placed(start, length, available, end) ==
    LET from == Larger(start, available)
        over == from + length > end
    IN  [from |-> Larger(IF over THEN end - length ELSE from, available),
         to |-> IF over THEN end ELSE from + length]

UpdateTimelineOnChange ==
    IF tl = NoTimeline \/ symbols' = {} THEN InitTimeline
    ELSE LET available == First(symbols') + Warmup
             end == Last(symbols')
             bar == Placed(tl.assessStart, Smaller(period', end - available), available, end)
         IN  tl' = [dataStart |-> First(symbols'), dataEnd |-> end, warmup |-> Warmup,
                    assessStart |-> bar.from, assessEnd |-> bar.to]

Init ==
    /\ symbols = DOMAIN Symbols
    /\ intervals \in SUBSET Intervals
    /\ period \in Periods
    /\ tl = NoTimeline
    /\ drag = NoDrag

Open ==
    /\ symbols' = DOMAIN Symbols
    /\ UNCHANGED <<intervals, period, drag>>
    /\ InitTimeline

CheckSymbol(s) ==
    /\ symbols' = IF s \in symbols THEN symbols \ {s} ELSE symbols \cup {s}
    /\ UNCHANGED <<intervals, period, drag>>
    /\ InitTimeline

CheckInterval(m) ==
    /\ intervals' = IF m \in intervals THEN intervals \ {m} ELSE intervals \cup {m}
    /\ UNCHANGED <<symbols, period, drag>>
    /\ UpdateTimelineOnChange

ChoosePeriod(p) ==
    /\ period' = p
    /\ UNCHANGED <<symbols, intervals, drag>>
    /\ UpdateTimelineOnChange

MouseDown ==
    /\ tl # NoTimeline
    /\ drag' = tl.assessStart - tl.dataStart
    /\ UNCHANGED <<symbols, intervals, period, tl>>

MouseMove(delta) ==
    /\ drag # NoDrag
    /\ tl # NoTimeline
    /\ LET length == tl.assessEnd - tl.assessStart
           wanted == tl.dataStart + drag + delta
           start == Larger(tl.dataStart + tl.warmup, Smaller(tl.dataEnd - length, wanted))
       IN  tl' = [tl EXCEPT !.assessStart = start, !.assessEnd = start + length]
    /\ UNCHANGED <<symbols, intervals, period, drag>>

MouseUp ==
    /\ drag # NoDrag
    /\ drag' = NoDrag
    /\ UNCHANGED <<symbols, intervals, period, tl>>

(* Mouse movements: as far as the longest data reach. *)
Deltas == LET reach == Last(DOMAIN Symbols) - First(DOMAIN Symbols) IN -reach .. reach

Next ==
    \/ Open
    \/ \E s \in DOMAIN Symbols : CheckSymbol(s)
    \/ \E m \in Intervals : CheckInterval(m)
    \/ \E p \in Periods : ChoosePeriod(p)
    \/ MouseDown
    \/ \E delta \in Deltas : MouseMove(delta)
    \/ MouseUp

-----------------------------------------------------------------------------
(* "Start" posts two dates: the midnights before the ends of the bar. *)
DayOf(time) == time - (time % Day)
Posted == [startDate |-> DayOf(tl.assessStart), endDate |-> DayOf(tl.assessEnd)]

(* What is left of the data behind the warm-up: less than nothing if they  *)
(* are shorter than it.                                                    *)
Available == tl.dataStart + tl.warmup
Room == tl.dataEnd - Available

(* The bar lies behind the warm-up of the checked interval and within the  *)
(* data, and is as long as the chosen period or as the data allow.         *)
BarFits ==
    tl # NoTimeline =>
        /\ tl.warmup = WarmupOf(intervals)
        /\ Available <= tl.assessStart
        /\ tl.assessEnd <= tl.dataEnd
        /\ tl.assessEnd - tl.assessStart = Smaller(period, Room)

(* After any series of clicks, drags and changes the bar fits, though the  *)
(* three places that move it each maintain that in a way of their own.     *)
(* The dates a run would be posted with take less than a day from the      *)
(* warm-up, so they begin before the data only if it is less than a day,   *)
(* and end within the data; they are apart by the chosen period to the     *)
(* day, or, where the data allow less, by what they allow within a day     *)
(* (so a run may be posted that ends before it begins).                    *)
TimelineFits ==
    /\ BarFits
    /\ tl # NoTimeline =>
           LET length == Posted.endDate - Posted.startDate
           IN  /\ Available - Posted.startDate < Day
               /\ Posted.endDate <= tl.dataEnd
               /\ IF period <= Room THEN length = period
                  ELSE Room - Day < length /\ length < Room + Day
=============================================================================
