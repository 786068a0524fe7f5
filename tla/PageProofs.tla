----------------------------- MODULE PageProofs -----------------------------
(***************************************************************************)
(* The properties of the page, the chart and the deployment (MCPage), for  *)
(* every number of runs, requests and faults, every set of symbols,        *)
(* intervals and periods, and every set of scripts and senders.            *)
(***************************************************************************)
EXTENDS MCPage, FiniteSetTheorems, SequenceTheorems, WellFoundedInduction, TLAPS

-----------------------------------------------------------------------------
(* Each of the parts keeps to itself.                                      *)

LEMMA SamePart == [Next]_vars => part' = part
  BY DEF Next, vars, LoadRuns, Serve, Arrive,
         Browsing, Asking, Charting, Deploying, Looking, Comparing

LEMMA TableActs ==
    ASSUME [Next]_vars, part = "table"
    PROVE  Table!Next \/ UNCHANGED table
  BY DEF Next, vars, LoadRuns, Serve, Arrive, Table!Next,
         Browsing, Asking, Charting, Deploying, Looking, Comparing

LEMMA DialogActs ==
    ASSUME [Next]_vars, part = "dialog"
    PROVE  Dialog!Next \/ UNCHANGED dialog
  BY DEF Next, vars, LoadRuns, Serve, Arrive, Dialog!Next,
         Browsing, Asking, Charting, Deploying, Looking, Comparing

LEMMA BridgeActs ==
    ASSUME [Next]_vars, part = "bridge"
    PROVE  Bridge!Next \/ UNCHANGED bridge
  BY DEF Next, vars, LoadRuns, Serve, Arrive, Bridge!Next,
         Browsing, Asking, Charting, Deploying, Looking, Comparing

LEMMA ScriptsAct ==
    ASSUME [Next]_vars, part = "scripts"
    PROVE  Scripts!Next \/ UNCHANGED scripts
  BY DEF Next, vars, LoadRuns, Serve, Arrive, Scripts!Next,
         Browsing, Asking, Charting, Deploying, Looking, Comparing

LEMMA PagesAct ==
    ASSUME [Next]_vars
    PROVE  /\ part = "detail" =>
                  \/ UNCHANGED pages
                  \/ \E run \in Pages!Runs : Pages!OpenRunDetail(run)
                  \/ Pages!Recalculate \/ Pages!GeneratePine
                  \/ \E sizing \in Sizings : Pages!ChooseSizing(sizing)
                  \/ \E i \in DOMAIN requests : Pages!Arrive(i)
           /\ part = "compare" =>
                  \/ UNCHANGED pages
                  \/ \E a, b \in Pages!Runs : Pages!OpenCompare(a, b)
                  \/ \E i \in DOMAIN requests, lost \in SUBSET (1..2) : Pages!ArrivePair(i, lost)
  BY DEF Next, vars, LoadRuns, Serve, Arrive,
         Browsing, Asking, Charting, Deploying, Looking, Comparing

-----------------------------------------------------------------------------
(* The selection: the property is inductive as it stands.                  *)

LEMMA EmptyCardinality == Table!Cardinality({}) = 0
<1>1. \A S : Table!IsFiniteSet(S) <=> IsFiniteSet(S)
  BY DEF Table!IsFiniteSet, IsFiniteSet
<1>2. \A S : Table!Cardinality(S) = Cardinality(S)
  BY <1>1 DEF Table!Cardinality, Cardinality
<1> QED  BY <1>2, FS_EmptySet

LEMMA TableInit == Init => SelectionSurvives
<1> SUFFICES ASSUME Init, part = "table" PROVE Table!SelectionSurvives
  BY DEF SelectionSurvives
<1>1. Table!Init  BY DEF Init
<1> QED
  BY <1>1, EmptyCardinality DEF Table!Init, Table!Fresh, Table!SelectionSurvives

LEMMA TableStep ==
    ASSUME Table!SelectionSurvives, Table!Next
    PROVE  Table!SelectionSurvives'
<1> USE DEF Table!SelectionSurvives, Table!page, Table!table, Table!choice, Table!expansion
<1>1. CASE \/ Table!Post
           \/ \E id \in DOMAIN runs : Table!Progress(id)
           \/ Table!LoadRuns
           \/ \E s \in Slots : Table!Serve(s) \/ Table!Fail(s)
  BY <1>1 DEF Table!Post, Table!Progress, Table!LoadRuns, Table!Serve, Table!Fail
<1>2. CASE \/ \E id \in DOMAIN rows : Table!ToggleRunDetails(id)
           \/ Table!CloseExpand
  BY <1>2 DEF Table!ToggleRunDetails, Table!CloseExpand
<1>3. CASE \E s \in Slots : Table!Arrive(s)
  BY <1>3 DEF Table!Arrive
<1>4. CASE Table!Reload
  BY <1>4, EmptyCardinality DEF Table!Reload
<1>5. CASE Table!ToggleCompare
  BY <1>5 DEF Table!ToggleCompare, Table!UpdateCompareButtons, Table!Cleared
<1>6. CASE \E id \in DOMAIN rows : Table!ChangeBox(id)
  <2>1. PICK id \in DOMAIN rows : Table!ChangeBox(id)  BY <1>6
  <2>2. rows # << >>  BY <2>1
  <2>3. compareMode  BY <2>1, <2>2 DEF Table!ChangeBox
  <2> QED  BY <2>1, <2>3 DEF Table!ChangeBox, Table!UpdateCompareButtons
<1>7. CASE \E checked \in BOOLEAN : Table!SelectAll(checked)
  <2>1. PICK checked \in BOOLEAN : Table!SelectAll(checked)  BY <1>7
  <2>2. boxes' = selectedRunIds' \cap DOMAIN rows'  BY <2>1 DEF Table!SelectAll
  <2> QED  BY <2>1, <2>2 DEF Table!SelectAll, Table!UpdateCompareButtons
<1> QED  BY <1>1, <1>2, <1>3, <1>4, <1>5, <1>6, <1>7 DEF Table!Next

(* Whatever refreshes, old answers, clicks and reloads do to the runs      *)
(* table (renderRunsTable, toggleCompareMode, the boxes' handlers in       *)
(* ui/app.js): the checked boxes are the selected runs that are shown, and *)
(* the boxes and the button are displayed as the mode says.                *)
THEOREM SelectionSurvivesHolds == Spec => []SelectionSurvives
<1>1. SelectionSurvives /\ [Next]_vars => SelectionSurvives'
  <2> SUFFICES ASSUME SelectionSurvives, [Next]_vars, part' = "table"
               PROVE  Table!SelectionSurvives'
    BY DEF SelectionSurvives
  <2>1. part = "table"  BY SamePart
  <2>2. Table!SelectionSurvives  BY <2>1 DEF SelectionSurvives
  <2>3. CASE UNCHANGED table  BY <2>2, <2>3 DEF table, Table!SelectionSurvives
  <2>4. CASE Table!Next  BY <2>2, <2>4, TableStep
  <2> QED  BY <2>1, <2>3, <2>4, TableActs
<1> QED  BY <1>1, TableInit, PTL DEF Spec

-----------------------------------------------------------------------------
(* The time line.                                                          *)

\* By induction over finite sets: a smallest one without a least element
\* would lose it with one of its own.
LEMMA LeastExists ==
    ASSUME NEW S, IsFiniteSet(S), S \subseteq Int, S # {}
    PROVE  \E m \in S : \A x \in S : m <= x
<1> DEFINE Good(T) == \E m \in T : \A x \in T : m <= x
           Bad == {T \in FiniteSubsetsOf(S) : T # {} /\ ~ Good(T)}
<1> SUFFICES ASSUME Bad # {} PROVE FALSE
  <2>1. S \in FiniteSubsetsOf(S)  BY DEF FiniteSubsetsOf
  <2> QED  BY <2>1
<1>1. PICK T \in Bad : \A U \in Bad : <<U, T>> \notin StrictSubsetOrdering(S)
  <2> HIDE DEF Bad
  <2>1. IsWellFoundedOn(StrictSubsetOrdering(S), FiniteSubsetsOf(S))
    BY FS_StrictSubsetOrderingWellFounded
  <2>2. Bad \subseteq FiniteSubsetsOf(S)  BY DEF Bad
  <2> QED  BY <2>1, <2>2, WFMin
<1>2. PICK m \in T : TRUE  OBVIOUS
<1> DEFINE U == T \ {m}
<1>3. T \subseteq S /\ IsFiniteSet(T)  BY DEF FiniteSubsetsOf
<1>4. U \in FiniteSubsetsOf(S)  BY <1>3, FS_RemoveElement DEF FiniteSubsetsOf
<1>5. <<U, T>> \in StrictSubsetOrdering(S)  BY <1>2, <1>3 DEF StrictSubsetOrdering
<1>6. CASE U = {}
  <2>1. T = {m}  BY <1>2, <1>6
  <2> QED  BY <1>3, <2>1
<1>7. CASE Good(U)
  <2>1. PICK n \in U : \A x \in U : n <= x  BY <1>7
  <2>2. CASE n <= m
    <3>1. n \in T /\ \A x \in T : n <= x  BY <2>1, <2>2
    <3> QED  BY <3>1
  <2>3. CASE ~ (n <= m)
    <3>1. \A x \in T : m <= x  BY <1>3, <2>1, <2>3
    <3> QED  BY <3>1
  <2> QED  BY <2>2, <2>3
<1> QED  BY <1>1, <1>4, <1>5, <1>6, <1>7

LEMMA FiniteImage ==
    ASSUME NEW S, IsFiniteSet(S), NEW f, f = [x \in S |-> f[x]]
    PROVE  IsFiniteSet({f[x] : x \in S})
<1> DEFINE T == {f[x] : x \in S}
<1>1. f \in [S -> T] /\ \A t \in T : \E x \in S : f[x] = t  OBVIOUS
<1> HIDE DEF T
<1>2. f \in Surjection(S, T)  BY <1>1 DEF Surjection
<1>3. IsFiniteSet(T)  BY <1>2, FS_Surjection
<1> QED  BY <1>3 DEF T

LEMMA GreatestExists ==
    ASSUME NEW S, IsFiniteSet(S), S \subseteq Int, S # {}
    PROVE  \E m \in S : \A x \in S : m >= x
<1> DEFINE N == {-x : x \in S}
<1>1. IsFiniteSet(N)
  <2> DEFINE f == [x \in S |-> -x]
  <2>1. IsFiniteSet({f[x] : x \in S})
    <3>1. f = [x \in S |-> f[x]]  OBVIOUS
    <3> HIDE DEF f
    <3> QED  BY <3>1, FiniteImage
  <2>2. {f[x] : x \in S} = N  OBVIOUS
  <2> QED  BY <2>1, <2>2
<1>2. PICK n \in N : \A y \in N : n <= y
  <2>1. N \subseteq Int  OBVIOUS
  <2>2. N # {}  OBVIOUS
  <2> HIDE DEF N
  <2> QED  BY <1>1, <2>1, <2>2, LeastExists
<1>3. -n \in S /\ \A x \in S : -n >= x  BY <1>2
<1> QED  BY <1>3

LEMMA FirstAndLast ==
    ASSUME NEW set \in SUBSET DOMAIN Symbols, set # {}
    PROVE  Dialog!First(set) \in Int /\ Dialog!Last(set) \in Int
<1> DEFINE firsts == {Symbols[s].first : s \in set}
           lasts == {Symbols[s].last : s \in set}
<1>1. firsts \subseteq Int /\ lasts \subseteq Int /\ firsts # {} /\ lasts # {}
  BY TimelineAssumption
<1>2. IsFiniteSet(set)  BY TimelineAssumption, FS_Subset
<1>3. IsFiniteSet(firsts) /\ IsFiniteSet(lasts)
  <2>1. IsFiniteSet(firsts)
    <3> DEFINE f == [s \in set |-> Symbols[s].first]
    <3>1. IsFiniteSet({f[s] : s \in set})
      <4>1. f = [s \in set |-> f[s]]  OBVIOUS
      <4> HIDE DEF f
      <4> QED  BY <1>2, <4>1, FiniteImage
    <3>2. {f[s] : s \in set} = firsts  OBVIOUS
    <3> QED  BY <3>1, <3>2
  <2>2. IsFiniteSet(lasts)
    <3> DEFINE f == [s \in set |-> Symbols[s].last]
    <3>1. IsFiniteSet({f[s] : s \in set})
      <4>1. f = [s \in set |-> f[s]]  OBVIOUS
      <4> HIDE DEF f
      <4> QED  BY <1>2, <4>1, FiniteImage
    <3>2. {f[s] : s \in set} = lasts  OBVIOUS
    <3> QED  BY <3>1, <3>2
  <2> QED  BY <2>1, <2>2
<1> HIDE DEF firsts, lasts
<1>4. Dialog!Min(firsts) \in Int  BY <1>1, <1>3, LeastExists DEF Dialog!Min
<1>5. Dialog!Max(lasts) \in Int  BY <1>1, <1>3, GreatestExists DEF Dialog!Max
<1> QED  BY <1>4, <1>5 DEF Dialog!First, Dialog!Last, firsts, lasts

LEMMA WarmupIsInt ==
    ASSUME NEW set \in SUBSET Intervals
    PROVE  Dialog!WarmupOf(set) \in Int
<1>1. IsFiniteSet(set) /\ set \subseteq Int  BY TimelineAssumption, FS_Subset
<1>2. CASE set = {}  BY <1>2, TimelineAssumption DEF Dialog!WarmupOf
<1>3. CASE set # {}
  BY <1>1, <1>3, LeastExists DEF Dialog!WarmupOf, Dialog!Min
<1> QED  BY <1>2, <1>3

LEMMA LargerSmaller ==
    ASSUME NEW a \in Int, NEW b \in Int
    PROVE  /\ Dialog!Larger(a, b) = IF a >= b THEN a ELSE b
           /\ Dialog!Smaller(a, b) = IF a <= b THEN a ELSE b
  BY DEF Dialog!Larger, Dialog!Max, Dialog!Smaller, Dialog!Min

(* What the bar's three places rely on besides: its numbers are numbers.   *)
Bars == [dataStart : Int, dataEnd : Int, warmup : Int, assessStart : Int, assessEnd : Int]
DialogTypeOK ==
    /\ symbols \subseteq DOMAIN Symbols /\ intervals \subseteq Intervals
    /\ period \in Periods /\ drag \in Int /\ tl \in Bars
DialogInv == part = "dialog" => DialogTypeOK /\ Dialog!BarFits

LEMMA Repositioned ==
    ASSUME symbols' \subseteq DOMAIN Symbols, intervals' \subseteq Intervals, period' \in Int,
           Dialog!InitTimeline
    PROVE  tl' \in Bars /\ Dialog!BarFits'
<1>1. CASE symbols' = {}
  BY <1>1 DEF Dialog!InitTimeline, Dialog!NoTimeline, Dialog!BarFits, Bars
<1>2. CASE symbols' # {}
  <2>1. PICK first \in Int, end \in Int, warmup \in Int :
            first = Dialog!First(symbols') /\ end = Dialog!Last(symbols')
            /\ warmup = Dialog!WarmupOf(intervals')
    BY <1>2, FirstAndLast, WarmupIsInt
  <2>2. PICK p \in Int : p = period'  OBVIOUS
  <2>3. tl' = [dataStart |-> first, dataEnd |-> end, warmup |-> warmup,
               assessStart |-> IF first + warmup >= end - p THEN first + warmup ELSE end - p,
               assessEnd |-> end]
    BY <1>2, <2>1, <2>2, LargerSmaller DEF Dialog!InitTimeline, Dialog!Warmup
  <2>4. tl' \in Bars  BY <2>3 DEF Bars
  <2>5. Dialog!Smaller(p, end - (first + warmup))
            = IF p <= end - (first + warmup) THEN p ELSE end - (first + warmup)
    BY LargerSmaller
  <2> QED  BY <2>1, <2>2, <2>3, <2>4, <2>5 DEF Dialog!BarFits, Dialog!Available, Dialog!Room
<1> QED  BY <1>1, <1>2

LEMMA Updated ==
    ASSUME symbols' \subseteq DOMAIN Symbols, intervals' \subseteq Intervals, period' \in Int,
           tl \in Bars, Dialog!UpdateTimelineOnChange
    PROVE  tl' \in Bars /\ Dialog!BarFits'
<1>1. CASE tl = Dialog!NoTimeline \/ symbols' = {}
  BY <1>1, Repositioned DEF Dialog!UpdateTimelineOnChange
<1>2. CASE ~ (tl = Dialog!NoTimeline \/ symbols' = {})
  <2>1. PICK first \in Int, end \in Int, warmup \in Int :
            first = Dialog!First(symbols') /\ end = Dialog!Last(symbols')
            /\ warmup = Dialog!WarmupOf(intervals')
    BY <1>2, FirstAndLast, WarmupIsInt
  <2>2. PICK p \in Int, start \in Int : p = period' /\ start = tl.assessStart
    BY DEF Bars
  <2> DEFINE available == first + warmup
             length == IF p <= end - available THEN p ELSE end - available
             from == IF start >= available THEN start ELSE available
             over == from + length > end
             back == IF over THEN end - length ELSE from
  <2>3. Dialog!Smaller(p, end - available) = length /\ Dialog!Larger(start, available) = from
    BY LargerSmaller
  <2>4. Dialog!Larger(back, available) = IF back >= available THEN back ELSE available
    BY LargerSmaller
  <2>5. tl' = [dataStart |-> first, dataEnd |-> end, warmup |-> warmup,
               assessStart |-> IF back >= available THEN back ELSE available,
               assessEnd |-> IF over THEN end ELSE from + length]
    BY <1>2, <2>1, <2>2, <2>3, <2>4
    DEF Dialog!UpdateTimelineOnChange, Dialog!Warmup, Dialog!Placed
  <2>6. tl' \in Bars  BY <2>5 DEF Bars
  <2> QED  BY <2>1, <2>2, <2>3, <2>5, <2>6 DEF Dialog!BarFits, Dialog!Available, Dialog!Room
<1> QED  BY <1>1, <1>2

LEMMA Moved ==
    ASSUME DialogTypeOK, Dialog!BarFits, NEW delta \in Int, Dialog!MouseMove(delta)
    PROVE  tl' \in Bars /\ Dialog!BarFits'
<1> PICK bar \in Bars : bar = tl  BY DEF DialogTypeOK
<1> DEFINE length == bar.assessEnd - bar.assessStart
           wanted == bar.dataStart + drag + delta
           start == Dialog!Larger(bar.dataStart + bar.warmup,
                                  Dialog!Smaller(bar.dataEnd - length, wanted))
<1>1. PICK w \in Int : w = wanted  BY DEF DialogTypeOK, Bars
<1>0. period \in Int  BY TimelineAssumption DEF DialogTypeOK
<1>2. Dialog!Smaller(bar.dataEnd - length, w)
          = IF bar.dataEnd - length <= w THEN bar.dataEnd - length ELSE w
  BY LargerSmaller DEF Bars
<1>3. PICK m \in Int : m = Dialog!Smaller(bar.dataEnd - length, w)  BY <1>1, <1>2 DEF Bars
<1>4. start = IF bar.dataStart + bar.warmup >= m THEN bar.dataStart + bar.warmup ELSE m
  BY <1>1, <1>3, LargerSmaller DEF Bars
<1>5. tl' = [bar EXCEPT !.assessStart = start, !.assessEnd = start + length]
  BY DEF Dialog!MouseMove
<1>6. UNCHANGED <<intervals, period>> /\ tl # Dialog!NoTimeline  BY DEF Dialog!MouseMove
<1>7. start \in Int  BY <1>4 DEF Bars
<1>8. length \in Int  BY DEF Bars
<1> HIDE DEF start, length
<1>9. tl' \in Bars /\ tl'.assessStart = start /\ tl'.assessEnd = start + length
      /\ tl'.dataStart = bar.dataStart /\ tl'.dataEnd = bar.dataEnd /\ tl'.warmup = bar.warmup
  <2>1. PICK x \in Int, y \in Int : x = start /\ y = start + length  BY <1>7, <1>8
  <2>2. tl' = [bar EXCEPT !.assessStart = x, !.assessEnd = y]  BY <1>5, <2>1
  <2>3. [bar EXCEPT !.assessStart = x, !.assessEnd = y] \in Bars  BY DEF Bars
  <2> QED  BY <2>1, <2>2, <2>3 DEF Bars
<1>10. Dialog!BarFits'
  <2>1. /\ length = Dialog!Smaller(period, bar.dataEnd - (bar.dataStart + bar.warmup))
        /\ bar.warmup = Dialog!WarmupOf(intervals)
    BY <1>6, <1>9 DEF Dialog!BarFits, Dialog!Available, Dialog!Room, length
  <2>2. length <= bar.dataEnd - (bar.dataStart + bar.warmup)
    BY <1>0, <2>1, LargerSmaller DEF Bars
  <2>3. /\ bar.dataStart + bar.warmup <= start
        /\ start + length <= bar.dataEnd
    BY <1>2, <1>3, <1>4, <1>8, <2>2 DEF Bars
  <2>4. start + length - start = length  BY <1>7, <1>8
  <2>5. tl'.assessEnd - tl'.assessStart
            = Dialog!Smaller(period', tl'.dataEnd - (tl'.dataStart + tl'.warmup))
    BY <1>6, <1>7, <1>8, <1>9, <2>1, <2>4 DEF Bars
  <2>6. tl'.warmup = Dialog!WarmupOf(intervals')  BY <1>6, <1>9, <2>1
  <2>7. tl'.dataStart + tl'.warmup <= tl'.assessStart /\ tl'.assessEnd <= tl'.dataEnd
    BY <1>9, <2>3
  <2> QED  BY <2>5, <2>6, <2>7 DEF Dialog!BarFits, Dialog!Available, Dialog!Room
<1> QED  BY <1>9, <1>10

LEMMA DialogStep ==
    ASSUME DialogTypeOK, Dialog!BarFits, Dialog!Next
    PROVE  (DialogTypeOK /\ Dialog!BarFits)'
<1> USE DEF DialogTypeOK
<1>0. Periods \subseteq Int  BY TimelineAssumption
<1>1. CASE Dialog!Open \/ \E s \in DOMAIN Symbols : Dialog!CheckSymbol(s)
  BY <1>0, <1>1, Repositioned DEF Dialog!Open, Dialog!CheckSymbol
<1>2. CASE \/ \E m \in Intervals : Dialog!CheckInterval(m)
           \/ \E p \in Periods : Dialog!ChoosePeriod(p)
  BY <1>0, <1>2, Updated DEF Dialog!CheckInterval, Dialog!ChoosePeriod
<1>3. CASE Dialog!MouseDown
  BY <1>3 DEF Dialog!MouseDown, Dialog!BarFits, Dialog!Available, Dialog!Room, Bars
<1>4. CASE \E delta \in Dialog!Deltas : Dialog!MouseMove(delta)
  <2>1. PICK delta \in Dialog!Deltas : Dialog!MouseMove(delta)  BY <1>4
  <2>2. delta \in Int  BY DEF Dialog!Deltas
  <2>3. UNCHANGED <<symbols, intervals, period, drag>>  BY <2>1 DEF Dialog!MouseMove
  <2> QED  BY <2>1, <2>2, <2>3, Moved
<1>5. CASE Dialog!MouseUp
  BY <1>5 DEF Dialog!MouseUp, Dialog!BarFits, Dialog!Available, Dialog!Room, Dialog!NoDrag
<1> QED  BY <1>1, <1>2, <1>3, <1>4, <1>5 DEF Dialog!Next

(* Two midnights are as far apart as the times they stand for, to the day, *)
(* if these are whole days apart, and within a day otherwise.              *)
LEMMA Midnights ==
    ASSUME NEW s \in Int, NEW e \in Int
    PROVE  /\ Dialog!DayOf(s) \in Int /\ Dialog!DayOf(s) <= s /\ s - Dialog!DayOf(s) < Day
           /\ (e - s) % Day = 0 => Dialog!DayOf(e) - Dialog!DayOf(s) = e - s
<1> DEFINE d == Day
<1>1. d \in Nat \ {0}  BY TimelineAssumption
<1> HIDE DEF d
<1>2. \A t \in Int : t % d \in 0..(d - 1) /\ t = d * (t \div d) + (t % d) /\ t \div d \in Int
  BY <1>1
<1>3. ASSUME (e - s) % d = 0 PROVE e % d = s % d
  <2>1. PICK k \in Int : e - s = d * k
    <3>1. PICK w \in Int : w = e - s  OBVIOUS
    <3>2. w = d * (w \div d) + 0 /\ w \div d \in Int  BY <1>2, <1>3, <3>1
    <3> QED  BY <1>1, <3>1, <3>2
  <2>2. PICK m \in Int, n \in Int, x \in 0..(d - 1), y \in 0..(d - 1) :
            s = d * m + x /\ x = s % d /\ e = d * n + y /\ y = e % d
    BY <1>2
  <2>3. PICK j \in Int : j = n - m - k  OBVIOUS
  <2>4. d * j = x - y
    <3>1. d * j = d * n - d * m - d * k  BY <1>1, <2>3
    <3>2. PICK dn \in Int, dm \in Int, dk \in Int : dn = d * n /\ dm = d * m /\ dk = d * k
      BY <1>1
    <3>3. e - s = dk /\ s = dm + x /\ e = dn + y  BY <2>1, <2>2, <3>2
    <3>4. d * j = dn - dm - dk  BY <3>1, <3>2
    <3>5. x \in Int /\ y \in Int  BY <1>1, <2>2
    <3> QED  BY <3>2, <3>3, <3>4, <3>5
  <2>5. ~ (j >= 1)
    <3>1. j >= 1 => d * j >= d  BY <1>1
    <3> QED  BY <1>1, <2>2, <2>4, <3>1
  <2>6. ~ (j <= -1)
    <3>1. j <= -1 => d * j <= -d  BY <1>1
    <3> QED  BY <1>1, <2>2, <2>4, <3>1
  <2>7. j = 0  BY <2>5, <2>6
  <2>8. x - y = 0  BY <1>1, <2>4, <2>7
  <2> QED  BY <2>2, <2>8
<1> QED  BY <1>1, <1>2, <1>3 DEF Dialog!DayOf, d

LEMMA PostedFits ==
    ASSUME DialogTypeOK, Dialog!BarFits
    PROVE  Dialog!TimelineFits
<1> SUFFICES ASSUME tl # Dialog!NoTimeline PROVE Dialog!TimelineFits
  BY DEF Dialog!TimelineFits
<1>1. PICK s \in Int, e \in Int, available \in Int, end \in Int, p \in Int, d \in Int :
          /\ s = tl.assessStart /\ e = tl.assessEnd /\ available = tl.dataStart + tl.warmup
          /\ end = tl.dataEnd /\ p = period /\ d = Day
  BY TimelineAssumption DEF DialogTypeOK, Bars
<1>2. /\ available <= s /\ e <= end
      /\ e - s = IF p <= end - available THEN p ELSE end - available
  BY <1>1, LargerSmaller DEF Dialog!BarFits, Dialog!Available, Dialog!Room
<1>3. PICK from \in Int, to \in Int : from = Dialog!DayOf(s) /\ to = Dialog!DayOf(e)
  BY Midnights
<1>4. from <= s /\ s - from < d /\ to <= e /\ e - to < d
  BY <1>1, <1>3, Midnights
<1>5. p <= end - available => to - from = p
  <2>1. p % Day = 0  BY <1>1, TimelineAssumption DEF DialogTypeOK
  <2> QED  BY <1>2, <1>3, <2>1, Midnights
<1>6. Dialog!Posted = [startDate |-> from, endDate |-> to]  BY <1>1, <1>3 DEF Dialog!Posted
<1> QED
  BY <1>1, <1>2, <1>4, <1>5, <1>6 DEF Dialog!TimelineFits, Dialog!Available, Dialog!Room

(* After any series of clicks, drags and changes in the dialog "New run"   *)
(* (initTimeline, updateTimelineOnChange and the mouse handlers in         *)
(* ui/app.js), for all data, warm-ups and periods: the bar lies in the     *)
(* data behind the warm-up and is as long as chosen or as the data allow;  *)
(* the dates that are posted begin less than a day before the end of the   *)
(* warm-up, end in the data, and are as far apart as chosen, or within a   *)
(* day of what the data allow.                                             *)
THEOREM TimelineFitsHolds == Spec => []TimelineFits
<1>1. Init => DialogInv
  <2> SUFFICES ASSUME Init, part = "dialog" PROVE DialogTypeOK /\ Dialog!BarFits
    BY DEF DialogInv
  <2>1. Dialog!Init  BY DEF Init
  <2> QED
    BY <2>1, TimelineAssumption
    DEF Dialog!Init, Dialog!NoTimeline, Dialog!NoDrag, Dialog!BarFits, DialogTypeOK, Bars
<1>2. DialogInv /\ [Next]_vars => DialogInv'
  <2> SUFFICES ASSUME DialogInv, [Next]_vars, part' = "dialog"
               PROVE  (DialogTypeOK /\ Dialog!BarFits)'
    BY DEF DialogInv
  <2>1. part = "dialog"  BY SamePart
  <2>2. DialogTypeOK /\ Dialog!BarFits  BY <2>1 DEF DialogInv
  <2>3. CASE UNCHANGED dialog
    BY <2>2, <2>3 DEF dialog, DialogTypeOK, Dialog!BarFits, Dialog!Available, Dialog!Room
  <2>4. CASE Dialog!Next  BY <2>2, <2>4, DialogStep
  <2> QED  BY <2>1, <2>3, <2>4, DialogActs
<1>3. DialogInv => TimelineFits  BY PostedFits DEF DialogInv, TimelineFits
<1> QED  BY <1>1, <1>2, <1>3, PTL DEF Spec

-----------------------------------------------------------------------------
(* The chart.                                                              *)

Charts == [symbol : {Wanted(s).symbol : s \in Senders}, gene : {Wanted(s).gene : s \in Senders},
           resolution : {Wanted(s).resolution : s \in Senders}]
Reports == Charts \cup Bridge!Parts \cup {Bridge!NoReport, Bridge!Nothing}
Infos == {[symbol |-> c.symbol, resolution |-> c.resolution] : c \in Charts} \cup {Bridge!Nothing}
Stages == {"start", "symbol", "set symbol", "resolution", "set resolution", "info", "inputs",
           "wait", "poll", "answered", "failed"}
SenderStates == [at : Stages, info : Infos, last : Reports, metrics : Reports,
                 stable : Nat, polls : Nat, mixed : BOOLEAN]

BridgeTypeOK ==
    /\ chart \in Charts /\ report \in Reports
    /\ parts \in {Bridge!Finished} \cup (0..MaxParts)
    /\ slow \in BOOLEAN
    /\ looks \in [Senders -> 0..2]
    /\ sender \in [Senders -> SenderStates]

(* A report that is being shown is the chart's, or the part that is to be  *)
(* seen.                                                                   *)
ReportInv ==
    /\ parts = Bridge!Finished => report = chart
    /\ parts \in 1..MaxParts => report \in {Bridge!Part(parts), Bridge!NoReport}

(* What a request that is alone on the chart has brought about so far.     *)
OnItsChart(s) ==
    LET me == sender[s] IN
    ~ me.mixed =>
        /\ me.at \in {"resolution", "set resolution", "info", "inputs", "wait", "poll"} =>
               chart.symbol = Wanted(s).symbol
        /\ me.at \in {"info", "inputs", "wait", "poll"} =>
               chart.resolution = Wanted(s).resolution
        /\ me.at \in {"wait", "poll"} => chart.gene = Wanted(s).gene
        /\ me.at \in {"inputs", "wait", "poll", "answered"} =>
               me.info = [symbol |-> Wanted(s).symbol, resolution |-> Wanted(s).resolution]
        /\ me.at = "poll" /\ ~ slow => parts # 0

AnswerIsOwn(s) ==
    LET me == sender[s] IN
    me.at = "answered" /\ me.polls < MaxPolls /\ ~ me.mixed /\ ~ slow =>
        /\ me.metrics = Wanted(s)
        /\ me.info = [symbol |-> Wanted(s).symbol, resolution |-> Wanted(s).resolution]

(* A request that is alone has read no part that is still to come, and the *)
(* one that is shown at most as often as it has looked.                    *)
Counted(me, n) ==
    /\ \A k \in 1..MaxParts :
           me.last = Bridge!Part(k) => parts = Bridge!Finished \/ k <= parts
    /\ parts \in 1..MaxParts /\ me.last = Bridge!Part(parts) => me.stable < n
HasRead(s) ==
    LET me == sender[s] IN
    ~ me.mixed =>
        /\ me.at \notin {"poll", "answered"} => me.last = Bridge!Nothing
        /\ me.at = "poll" /\ ~ slow => Counted(me, looks[s])

BridgeInv ==
    /\ BridgeTypeOK
    /\ ReportInv
    /\ \A s \in Senders : OnItsChart(s) /\ AnswerIsOwn(s) /\ HasRead(s)

LEMMA WantedIsAChart ==
    ASSUME NEW s \in Senders
    PROVE  /\ Wanted(s) \in Charts
           /\ \A c \in Charts : c.symbol = Wanted(s).symbol /\ c.gene = Wanted(s).gene
                                /\ c.resolution = Wanted(s).resolution => c = Wanted(s)
<1>1. Wanted(s) = [symbol |-> Wanted(s).symbol, gene |-> Wanted(s).gene,
                   resolution |-> Wanted(s).resolution]
  BY BridgeAssumption
<1>2. Wanted(s) \in Charts  BY <1>1 DEF Charts
<1>3. ASSUME NEW c \in Charts, c.symbol = Wanted(s).symbol,
             c.resolution = Wanted(s).resolution, c.gene = Wanted(s).gene
      PROVE  c = Wanted(s)
  <2>1. c = [symbol |-> c.symbol, gene |-> c.gene, resolution |-> c.resolution]  BY DEF Charts
  <2> QED  BY <1>1, <1>3, <2>1
<1> QED  BY <1>2, <1>3

\* A request that does nothing, on a chart that nobody changes.
LEMMA Idles ==
    ASSUME NEW s \in Senders, OnItsChart(s), AnswerIsOwn(s), sender'[s] = sender[s],
           chart' = chart, slow => slow', parts' = 0 => parts = 0
    PROVE  OnItsChart(s)' /\ AnswerIsOwn(s)'
  BY DEF OnItsChart, AnswerIsOwn

LEMMA StillHasRead ==
    ASSUME NEW s \in Senders, HasRead(s), sender'[s] = sender[s],
           parts' = parts, slow => slow', looks'[s] = looks[s]
    PROVE  HasRead(s)'
  BY DEF HasRead, Counted

LEMMA NothingIsNoPart == \A k : Bridge!Nothing # Bridge!Part(k)
<1> SUFFICES ASSUME NEW k PROVE Bridge!Nothing # Bridge!Part(k)  OBVIOUS
<1>1. Bridge!Nothing.symbol # Bridge!Part(k).symbol  BY DEF Bridge!Nothing, Bridge!Part
<1> QED  BY <1>1

LEMMA NoReportIsNoPart == \A k : Bridge!NoReport # Bridge!Part(k)
<1> SUFFICES ASSUME NEW k PROVE Bridge!NoReport # Bridge!Part(k)  OBVIOUS
<1>1. Bridge!NoReport.symbol # Bridge!Part(k).symbol  BY DEF Bridge!NoReport, Bridge!Part
<1> QED  BY <1>1

LEMMA NotMixed ==
    ASSUME NEW me \in SenderStates, me.mixed = FALSE
    PROVE  [me EXCEPT !.mixed = FALSE] = me
  BY DEF SenderStates

\* One that does nothing while another changes the chart.
LEMMA GetsMixed ==
    ASSUME BridgeTypeOK, NEW s \in Senders, OnItsChart(s), AnswerIsOwn(s), HasRead(s),
           slow' = slow, sender'[s] = [sender[s] EXCEPT !.mixed = @ \/ Bridge!Working(s)]
    PROVE  OnItsChart(s)' /\ AnswerIsOwn(s)' /\ HasRead(s)' /\ sender'[s] \in SenderStates
<1> PICK me \in SenderStates : me = sender[s]  BY DEF BridgeTypeOK
<1>1. CASE me.mixed \/ Bridge!Working(s)
  <2>1. sender'[s] = [me EXCEPT !.mixed = TRUE]  BY <1>1
  <2> QED  BY <2>1 DEF OnItsChart, AnswerIsOwn, HasRead, SenderStates
<1>2. CASE ~ (me.mixed \/ Bridge!Working(s))
  <2>1. sender'[s] = [me EXCEPT !.mixed = FALSE]  BY <1>2
  <2>2. me.mixed = FALSE  BY <1>2 DEF SenderStates
  <2>3. sender'[s] = me  BY <2>1, <2>2, NotMixed
  <2>4. me.at \in {"start", "answered", "failed"}  BY <1>2 DEF Bridge!Working
  <2> QED  BY <2>3, <2>4 DEF OnItsChart, AnswerIsOwn, HasRead
<1> QED  BY <1>1, <1>2

\* The step of a request that leaves the chart alone, to the state new.
LEMMA OwnStep ==
    ASSUME BridgeInv, NEW s \in Senders, NEW new \in SenderStates,
           sender' = [sender EXCEPT ![s] = new],
           UNCHANGED <<chart, report, parts>>, slow' \in BOOLEAN, slow => slow',
           looks' \in [Senders -> 0..2], \A x \in Senders : x # s => looks'[x] = looks[x],
           OnItsChart(s)', AnswerIsOwn(s)', HasRead(s)'
    PROVE  BridgeInv'
<1>1. BridgeTypeOK'  BY DEF BridgeInv, BridgeTypeOK
<1>2. ReportInv'  BY DEF BridgeInv, ReportInv
<1>3. ASSUME NEW x \in Senders, x # s  PROVE OnItsChart(x)' /\ AnswerIsOwn(x)' /\ HasRead(x)'
  <2>1. sender'[x] = sender[x]  BY <1>3 DEF BridgeInv, BridgeTypeOK
  <2> QED  BY <1>3, <2>1, Idles, StillHasRead DEF BridgeInv
<1> QED  BY <1>1, <1>2, <1>3 DEF BridgeInv

\* The step of a request that changes the chart.
LEMMA ChangeStep ==
    ASSUME BridgeInv, NEW s \in Senders, NEW new \in Charts, NEW next \in Stages,
           next \notin {"poll", "answered"}, Bridge!Change(s, new, next), OnItsChart(s)',
           sender[s].at \notin {"poll", "answered"}
    PROVE  BridgeInv'
<1>1. /\ chart' = new /\ UNCHANGED <<report, looks, slow>>
      /\ parts' = IF new = chart THEN parts ELSE 0
      /\ sender' = [x \in Senders |->
             IF x = s THEN [sender[x] EXCEPT !.at = next]
             ELSE [sender[x] EXCEPT !.mixed = @ \/ Bridge!Working(x)]]
  BY DEF Bridge!Change, Bridge!Changed
<1>2. sender'[s] \in SenderStates /\ AnswerIsOwn(s)' /\ HasRead(s)'
  <2> PICK me \in SenderStates : me = sender[s]  BY DEF BridgeInv, BridgeTypeOK
  <2>1. sender'[s] = [me EXCEPT !.at = next]  BY <1>1
  <2>2. HasRead(s)  BY DEF BridgeInv
  <2> QED  BY <2>1, <2>2 DEF SenderStates, AnswerIsOwn, HasRead
<1>3. ASSUME NEW x \in Senders, x # s
      PROVE  OnItsChart(x)' /\ AnswerIsOwn(x)' /\ HasRead(x)' /\ sender'[x] \in SenderStates
  <2>1. sender'[x] = [sender[x] EXCEPT !.mixed = @ \/ Bridge!Working(x)]  BY <1>1, <1>3
  <2> QED  BY <1>1, <2>1, GetsMixed DEF BridgeInv
<1>4. BridgeTypeOK'
  <2>1. sender' \in [Senders -> SenderStates]  BY <1>1, <1>2, <1>3
  <2>2. parts' \in {Bridge!Finished} \cup (0..MaxParts)
    BY <1>1, BridgeAssumption DEF BridgeInv, BridgeTypeOK
  <2> QED  BY <1>1, <2>1, <2>2 DEF BridgeInv, BridgeTypeOK
<1>5. ReportInv'
  BY <1>1 DEF BridgeInv, BridgeTypeOK, ReportInv, Bridge!Finished
<1> QED  BY <1>2, <1>3, <1>4, <1>5 DEF BridgeInv

LEMMA PollStep ==
    ASSUME BridgeInv, NEW s \in Senders, Bridge!Poll(s)
    PROVE  BridgeInv'
<1> PICK me \in SenderStates : me = sender[s]  BY DEF BridgeInv, BridgeTypeOK
<1> PICK shown \in Reports : shown = report  BY DEF BridgeInv, BridgeTypeOK
<1> DEFINE equal == IF shown = me.last THEN me.stable + 1 ELSE 0
           taken == IF equal = 0 \/ Bridge!Settled(equal) THEN shown ELSE me.metrics
           read == IF shown = Bridge!NoReport THEN me
                   ELSE [me EXCEPT !.last = shown, !.stable = equal, !.metrics = taken]
           ends == (shown # Bridge!NoReport /\ Bridge!Settled(equal)) \/ me.polls + 1 = MaxPolls
           at == IF ends THEN "answered" ELSE "poll"
           new == [at |-> at, info |-> me.info, last |-> read.last, metrics |-> read.metrics,
                   stable |-> read.stable, polls |-> me.polls + 1, mixed |-> me.mixed]
<1>1. equal \in Nat /\ taken \in Reports  BY DEF SenderStates
<1>2. read \in SenderStates
  <2>1. PICK e \in Nat, t \in Reports : e = equal /\ t = taken  BY <1>1
  <2>2. [me EXCEPT !.last = shown, !.stable = e, !.metrics = t] \in SenderStates
    BY <2>1 DEF SenderStates
  <2> QED  BY <2>1, <2>2
<1>3. /\ me.at = "poll" /\ UNCHANGED <<chart, report, parts>>
      /\ slow' = (slow \/ (shown \in Bridge!Parts /\ looks[s] = 2))
      /\ looks' = IF shown \in Bridge!Parts
                  THEN [looks EXCEPT ![s] = IF @ < 2 THEN @ + 1 ELSE 2] ELSE looks
      /\ sender' = [sender EXCEPT ![s] = [read EXCEPT !.polls = me.polls + 1, !.at = at]]
  BY DEF Bridge!Poll, Bridge!At, Bridge!Equal
<1>4. read.info = me.info /\ read.mixed = me.mixed  BY DEF SenderStates
<1>5. [read EXCEPT !.polls = me.polls + 1, !.at = at] = new
  <2> PICK r \in SenderStates : r = read  BY <1>2
  <2> PICK a \in Stages : a = at  BY DEF Stages
  <2> PICK p \in Nat : p = me.polls + 1  BY DEF SenderStates
  <2>1. r = [at |-> r.at, info |-> r.info, last |-> r.last, metrics |-> r.metrics,
             stable |-> r.stable, polls |-> r.polls, mixed |-> r.mixed]
    BY DEF SenderStates
  <2> DEFINE counted == [at |-> r.at, info |-> r.info, last |-> r.last, metrics |-> r.metrics,
                         stable |-> r.stable, polls |-> p, mixed |-> r.mixed]
  <2>2. [r EXCEPT !.polls = p] = counted  BY <2>1 DEF SenderStates
  <2>3. [counted EXCEPT !.at = a]
        = [at |-> a, info |-> r.info, last |-> r.last, metrics |-> r.metrics,
           stable |-> r.stable, polls |-> p, mixed |-> r.mixed]
    OBVIOUS
  <2> HIDE DEF read, at, counted
  <2> QED  BY <1>4, <2>2, <2>3
<1>6. new \in SenderStates
  <2> PICK r \in SenderStates : r = read  BY <1>2
  <2> PICK a \in Stages : a = at  BY DEF Stages
  <2> PICK p \in Nat : p = me.polls + 1  BY DEF SenderStates
  <2> HIDE DEF read, at
  <2>1. new = [at |-> a, info |-> me.info, last |-> r.last, metrics |-> r.metrics,
               stable |-> r.stable, polls |-> p, mixed |-> me.mixed]
    OBVIOUS
  <2> QED  BY <2>1 DEF SenderStates
<1>7. sender'[s] = new  BY <1>3, <1>5 DEF BridgeInv, BridgeTypeOK
<1>8. OnItsChart(s)'
  <2>1. OnItsChart(s)  BY DEF BridgeInv
  <2>2. me.at = "poll" /\ UNCHANGED <<chart, parts>> /\ (slow => slow')  BY <1>3
  <2>3. new.mixed = me.mixed /\ new.info = me.info /\ new.at \in {"poll", "answered"}
    OBVIOUS
  <2> HIDE DEF new
  <2> QED  BY <1>7, <2>1, <2>2, <2>3 DEF OnItsChart
<1>9. AnswerIsOwn(s)'
  <2> SUFFICES ASSUME new.at = "answered", new.polls < MaxPolls, ~ new.mixed, ~ slow'
               PROVE  /\ new.metrics = Wanted(s)
                      /\ new.info = [symbol |-> Wanted(s).symbol,
                                     resolution |-> Wanted(s).resolution]
    BY <1>7 DEF AnswerIsOwn
  <2>1. ~ me.mixed /\ ~ slow /\ OnItsChart(s) /\ HasRead(s)  BY <1>3 DEF BridgeInv
  <2>2. /\ chart.symbol = Wanted(s).symbol /\ chart.resolution = Wanted(s).resolution
        /\ chart.gene = Wanted(s).gene
        /\ me.info = [symbol |-> Wanted(s).symbol, resolution |-> Wanted(s).resolution]
        /\ parts # 0
    BY <1>3, <2>1 DEF OnItsChart
  <2>3. chart = Wanted(s)  BY <2>2, WantedIsAChart DEF BridgeInv, BridgeTypeOK
  <2>4. shown # Bridge!NoReport /\ Bridge!Settled(equal)
    BY BridgeAssumption DEF SenderStates
  <2>5. ASSUME parts \in 1..MaxParts  PROVE FALSE
    <3>1. shown = Bridge!Part(parts)  BY <2>4, <2>5 DEF BridgeInv, ReportInv
    <3>2. shown \in Bridge!Parts  BY <2>5, <3>1 DEF Bridge!Parts
    <3>3. looks[s] \in 0..2 /\ looks[s] # 2 /\ me.stable \in Nat
      BY <1>3, <3>2 DEF BridgeInv, BridgeTypeOK, SenderStates
    <3>4. shown = me.last  BY <2>4 DEF Bridge!Settled
    <3>5. me.stable < looks[s]  BY <1>3, <2>1, <2>5, <3>1, <3>4 DEF HasRead, Counted
    <3>6. equal < 2  BY <3>3, <3>4, <3>5
    <3> QED  BY <1>1, <2>4, <3>6 DEF Bridge!Settled
  <2>6. parts = Bridge!Finished
    BY <2>2, <2>5 DEF BridgeInv, BridgeTypeOK
  <2>7. shown = Wanted(s)  BY <2>3, <2>6 DEF BridgeInv, ReportInv
  <2>8. read.metrics = shown  BY <2>4 DEF SenderStates
  <2> QED  BY <2>2, <2>7, <2>8
<1>14. /\ new.at \in {"poll", "answered"} /\ new.mixed = me.mixed
       /\ new.last = (IF shown = Bridge!NoReport THEN me.last ELSE shown)
       /\ new.stable = (IF shown = Bridge!NoReport THEN me.stable ELSE equal)
  BY DEF SenderStates
<1> HIDE DEF new
<1>10. sender' = [sender EXCEPT ![s] = new]  BY <1>3, <1>5
<1>11. slow' \in BOOLEAN /\ (slow => slow')  BY <1>3 DEF BridgeInv, BridgeTypeOK
<1>12. looks' \in [Senders -> 0..2] /\ \A x \in Senders : x # s => looks'[x] = looks[x]
  BY <1>3 DEF BridgeInv, BridgeTypeOK
<1>13. HasRead(s)'
  <2> SUFFICES ASSUME ~ new.mixed, new.at = "poll", ~ slow'
               PROVE  Counted(new, looks[s])'
    BY <1>7, <1>14 DEF HasRead
  <2>1. ~ me.mixed /\ ~ slow /\ HasRead(s) /\ OnItsChart(s)  BY <1>3, <1>14 DEF BridgeInv
  <2>2. Counted(me, looks[s]) /\ parts # 0 /\ parts' = parts
    BY <1>3, <2>1 DEF HasRead, OnItsChart
  <2>3. CASE shown = Bridge!NoReport
    <3>1. shown \notin Bridge!Parts  BY <2>3, NoReportIsNoPart DEF Bridge!Parts
    <3>2. new.last = me.last /\ new.stable = me.stable /\ looks'[s] = looks[s]
      BY <1>3, <1>14, <2>3, <3>1
    <3> QED  BY <2>2, <3>2 DEF Counted
  <2>4. CASE shown # Bridge!NoReport
    <3>1. CASE parts = Bridge!Finished
      BY <2>2, <3>1 DEF Counted, Bridge!Finished
    <3>2. CASE parts \in 1..MaxParts
      <4>1. shown = Bridge!Part(parts)  BY <2>4, <3>2 DEF BridgeInv, ReportInv
      <4>2. shown \in Bridge!Parts  BY <3>2, <4>1 DEF Bridge!Parts
      <4>8. looks[s] \in 0..2 /\ me.stable \in Nat /\ looks[s] # 2
        BY <1>3, <4>2 DEF BridgeInv, BridgeTypeOK, SenderStates
      <4>9. looks'[s] = IF looks[s] < 2 THEN looks[s] + 1 ELSE 2
        BY <1>3, <4>2 DEF BridgeInv, BridgeTypeOK
      <4>3. looks[s] \in 0..2 /\ looks'[s] = looks[s] + 1 /\ me.stable \in Nat
        BY <4>8, <4>9
      <4>4. shown = me.last => me.stable < looks[s]
        BY <2>2, <3>2, <4>1 DEF Counted
      <4>5. new.stable < looks'[s]
        <5>1. CASE shown = me.last
          <6>1. new.stable = me.stable + 1  BY <1>14, <2>4, <5>1
          <6> QED  BY <4>3, <4>4, <5>1, <6>1
        <5>2. CASE shown # me.last
          <6>1. new.stable = 0  BY <1>14, <2>4, <5>2
          <6> QED  BY <4>3, <6>1
        <5> QED  BY <5>1, <5>2
      <4>6. new.last = Bridge!Part(parts)  BY <1>14, <2>4, <4>1
      <4>7. \A k \in 1..MaxParts : new.last = Bridge!Part(k) => k <= parts
        BY <3>2, <4>6 DEF Bridge!Part
      <4> QED  BY <2>2, <4>5, <4>7 DEF Counted
    <3> QED  BY <2>2, <3>1, <3>2 DEF BridgeInv, BridgeTypeOK
  <2> QED  BY <2>3, <2>4
<1> QED  BY <1>3, <1>6, <1>8, <1>9, <1>10, <1>11, <1>12, <1>13, OwnStep

\* A request that only moves on to next.
LEMMA MovesOn ==
    ASSUME BridgeInv, NEW s \in Senders, NEW next \in Stages,
           next \notin {"wait", "answered", "set symbol", "inputs"},
           Bridge!Goto(s, next), UNCHANGED <<chart, report, parts, looks>>,
           sender[s].at \notin {"poll", "answered"}, slow' \in BOOLEAN, slow => slow',
           \/ next = "symbol"
           \/ next = "resolution" /\ chart.symbol = Wanted(s).symbol
           \/ next = "set resolution" /\ sender[s].at = "resolution"
           \/ next = "info" /\ sender[s].at = "resolution"
                             /\ chart.resolution = Wanted(s).resolution
           \/ next = "poll" /\ sender[s].at = "wait" /\ (~ slow' => parts # 0)
    PROVE  BridgeInv'
<1> PICK me \in SenderStates : me = sender[s]  BY DEF BridgeInv, BridgeTypeOK
<1> PICK new \in SenderStates : new = [me EXCEPT !.at = next]  BY DEF SenderStates
<1>1. new.at = next /\ new.info = me.info /\ new.mixed = me.mixed  BY DEF SenderStates
<1>2. sender' = [sender EXCEPT ![s] = new]  BY DEF Bridge!Goto
<1>3. sender'[s] = new  BY <1>2 DEF BridgeInv, BridgeTypeOK
<1>4. OnItsChart(s)  BY DEF BridgeInv
<1>5. OnItsChart(s)'  BY <1>1, <1>3, <1>4 DEF OnItsChart
<1>6. AnswerIsOwn(s)'  BY <1>1, <1>3 DEF AnswerIsOwn
<1>7. HasRead(s)'
  <2>1. new.mixed \/ new.last = Bridge!Nothing
    BY <1>1 DEF BridgeInv, SenderStates, HasRead
  <2>2. new.last = Bridge!Nothing => Counted(new, looks[s])'
    BY NothingIsNoPart DEF Counted
  <2>3. new.mixed => HasRead(s)'  BY <1>3 DEF HasRead
  <2>4. new.last = Bridge!Nothing => HasRead(s)'  BY <1>3, <2>2 DEF HasRead
  <2> QED  BY <2>1, <2>3, <2>4
<1>8. looks' \in [Senders -> 0..2]  BY DEF BridgeInv, BridgeTypeOK
<1> QED  BY <1>2, <1>5, <1>6, <1>7, <1>8, OwnStep

LEMMA BridgeStep ==
    ASSUME BridgeInv, Bridge!Next
    PROVE  BridgeInv'
<1> USE DEF Bridge!At, Bridge!tradingView
<1>1. CASE Bridge!Recalculate
  <2>1. UNCHANGED <<chart, slow, sender>> /\ parts' # 0
    BY <1>1 DEF Bridge!Recalculate, BridgeInv, BridgeTypeOK, Bridge!Finished
  <2>2. \A s \in Senders : OnItsChart(s)' /\ AnswerIsOwn(s)'
    BY <2>1, Idles DEF BridgeInv
  <2>5. looks' \in [Senders -> 0..2]  BY <1>1 DEF Bridge!Recalculate
  <2>6. \A s \in Senders : sender[s].last \in Reports /\ HasRead(s)
    BY DEF BridgeInv, BridgeTypeOK, SenderStates
  <2>3. CASE parts' = Bridge!Finished /\ report' = chart
    <3>1. ASSUME NEW s \in Senders  PROVE HasRead(s)'
      BY <2>1, <2>3, <2>6, <3>1 DEF HasRead, Counted, Bridge!Finished
    <3> QED
      BY <2>1, <2>2, <2>3, <2>5, <3>1
    DEF BridgeInv, BridgeTypeOK, ReportInv, Bridge!Finished, Reports
  <2>4. CASE parts < MaxParts /\ parts' = parts + 1
             /\ report' \in {Bridge!Part(parts'), Bridge!NoReport}
    <3>1. parts \in 0..MaxParts
      BY <1>1 DEF Bridge!Recalculate, BridgeInv, BridgeTypeOK, Bridge!Finished
    <3>2. parts' \in 1..MaxParts  BY <2>4, <3>1, BridgeAssumption
    <3>3. report' \in Bridge!Parts \cup {Bridge!NoReport}  BY <2>4, <3>2 DEF Bridge!Parts
    <3>4. ASSUME NEW s \in Senders  PROVE HasRead(s)'
      <4> SUFFICES ASSUME ~ sender[s].mixed, sender[s].at = "poll", ~ slow
                   PROVE  Counted(sender[s], looks[s])'
        BY <2>1, <2>6 DEF HasRead
      <4>1. Counted(sender[s], looks[s])  BY <2>6 DEF HasRead
      <4>2. parts # Bridge!Finished  BY <3>1 DEF Bridge!Finished
      <4>3. \A k \in 1..MaxParts : sender[s].last = Bridge!Part(k) => k <= parts
        BY <4>1, <4>2 DEF Counted
      <4>4. sender[s].last # Bridge!Part(parts')  BY <2>4, <3>1, <3>2, <4>3
      <4>5. \A k \in 1..MaxParts : k <= parts => k <= parts'  BY <2>4, <3>1
      <4> QED  BY <2>1, <4>3, <4>4, <4>5 DEF Counted
    <3> QED
      BY <2>1, <2>2, <2>4, <2>5, <3>2, <3>3, <3>4
      DEF BridgeInv, BridgeTypeOK, ReportInv, Bridge!Finished, Reports
  <2> QED  BY <1>1, <2>3, <2>4 DEF Bridge!Recalculate
<1> SUFFICES ASSUME NEW s \in Senders,
                    \/ Bridge!Connect(s) \/ Bridge!ReadSymbol(s) \/ Bridge!SetSymbol(s)
                    \/ Bridge!ReadResolution(s) \/ Bridge!SetResolution(s)
                    \/ Bridge!ReadChart(s) \/ Bridge!SetInputs(s) \/ Bridge!Wait(s)
                    \/ Bridge!Poll(s) \/ Bridge!Fail(s)
             PROVE  BridgeInv'
  BY <1>1 DEF Bridge!Next
<1> PICK me \in SenderStates : me = sender[s]  BY DEF BridgeInv, BridgeTypeOK
<1>2. /\ slow \in BOOLEAN /\ OnItsChart(s) /\ chart \in Charts /\ Wanted(s) \in Charts
      /\ HasRead(s) /\ looks \in [Senders -> 0..2]
  BY WantedIsAChart DEF BridgeInv, BridgeTypeOK
<1>3. CASE Bridge!Connect(s)
  BY <1>2, <1>3, MovesOn DEF Bridge!Connect, Stages
<1>4. CASE Bridge!ReadSymbol(s)
  <2>1. CASE chart.symbol = Wanted(s).symbol
    BY <1>2, <1>4, <2>1, MovesOn DEF Bridge!ReadSymbol, Stages
  <2>2. CASE chart.symbol # Wanted(s).symbol
    <3> PICK new \in SenderStates : new = [me EXCEPT !.at = "set symbol"]
      BY DEF SenderStates, Stages
    <3>1. new.at = "set symbol" /\ new.mixed = me.mixed /\ new.last = me.last
      BY DEF SenderStates
    <3>2. /\ sender' = [sender EXCEPT ![s] = new] /\ me.at = "symbol"
          /\ UNCHANGED <<chart, report, parts, looks, slow>>
      BY <1>4, <2>2 DEF Bridge!ReadSymbol, Bridge!Goto
    <3>3. sender'[s] = new  BY <3>2 DEF BridgeInv, BridgeTypeOK
    <3>4. OnItsChart(s)' /\ AnswerIsOwn(s)' /\ HasRead(s)'
      BY <1>2, <3>1, <3>2, <3>3 DEF OnItsChart, AnswerIsOwn, HasRead
    <3> QED  BY <1>2, <3>2, <3>4, OwnStep
  <2> QED  BY <2>1, <2>2
<1>5. CASE Bridge!SetSymbol(s)
  <2>1. /\ Bridge!Change(s, [chart EXCEPT !.symbol = Wanted(s).symbol], "resolution")
        /\ me.at = "set symbol"
    BY <1>5 DEF Bridge!SetSymbol
  <2> PICK new \in Charts : new = [chart EXCEPT !.symbol = Wanted(s).symbol]
    BY <1>2 DEF Charts
  <2>2. chart' = new /\ new.symbol = Wanted(s).symbol
        /\ sender'[s] = [me EXCEPT !.at = "resolution"]
    BY <1>2, <2>1 DEF Bridge!Change, Bridge!Changed, Charts
  <2>3. OnItsChart(s)'  BY <2>2 DEF OnItsChart, SenderStates
  <2> QED  BY <2>1, <2>3, ChangeStep DEF Stages
<1>6. CASE Bridge!ReadResolution(s)
  <2>1. CASE chart.resolution = Wanted(s).resolution
    BY <1>2, <1>6, <2>1, MovesOn DEF Bridge!ReadResolution, Stages
  <2>2. CASE chart.resolution # Wanted(s).resolution
    BY <1>2, <1>6, <2>2, MovesOn DEF Bridge!ReadResolution, Stages
  <2> QED  BY <2>1, <2>2
<1>7. CASE Bridge!SetResolution(s)
  <2>1. /\ Bridge!Change(s, [chart EXCEPT !.resolution = Wanted(s).resolution], "info")
        /\ me.at = "set resolution"
    BY <1>7 DEF Bridge!SetResolution
  <2> PICK new \in Charts : new = [chart EXCEPT !.resolution = Wanted(s).resolution]
    BY <1>2 DEF Charts
  <2>2. chart' = new /\ new.resolution = Wanted(s).resolution /\ new.symbol = chart.symbol
        /\ sender'[s] = [me EXCEPT !.at = "info"]
    BY <1>2, <2>1 DEF Bridge!Change, Bridge!Changed, Charts
  <2>3. OnItsChart(s)'  BY <1>2, <2>1, <2>2 DEF OnItsChart, SenderStates
  <2> QED  BY <2>1, <2>3, ChangeStep DEF Stages
<1>8. CASE Bridge!ReadChart(s)
  <2>1. PICK i \in Infos : i = [symbol |-> chart.symbol, resolution |-> chart.resolution]
    BY <1>2 DEF Infos
  <2> DEFINE new == [me EXCEPT !.at = "inputs", !.info = i]
  <2>2. me.at = "info" /\ UNCHANGED <<chart, report, parts, looks, slow>>
        /\ sender' = [sender EXCEPT ![s] = new]
    BY <1>8, <2>1 DEF Bridge!ReadChart
  <2>3. /\ new \in SenderStates /\ new.at = "inputs" /\ new.info = i
        /\ new.mixed = me.mixed /\ new.last = me.last
    BY DEF SenderStates, Stages
  <2> HIDE DEF new
  <2>4. sender'[s] = new  BY <2>2 DEF BridgeInv, BridgeTypeOK
  <2>5. OnItsChart(s)'  BY <1>2, <2>1, <2>2, <2>3, <2>4 DEF OnItsChart
  <2>6. AnswerIsOwn(s)' /\ HasRead(s)'  BY <1>2, <2>2, <2>3, <2>4 DEF AnswerIsOwn, HasRead
  <2> QED  BY <1>2, <2>2, <2>3, <2>5, <2>6, OwnStep
<1>9. CASE Bridge!SetInputs(s)
  <2>1. /\ Bridge!Change(s, [chart EXCEPT !.gene = Wanted(s).gene], "wait")
        /\ me.at = "inputs"
    BY <1>9 DEF Bridge!SetInputs
  <2> PICK new \in Charts : new = [chart EXCEPT !.gene = Wanted(s).gene]
    BY <1>2 DEF Charts
  <2>2. chart' = new /\ new.gene = Wanted(s).gene /\ new.symbol = chart.symbol
        /\ new.resolution = chart.resolution /\ sender'[s] = [me EXCEPT !.at = "wait"]
    BY <1>2, <2>1 DEF Bridge!Change, Bridge!Changed, Charts
  <2>3. OnItsChart(s)'  BY <1>2, <2>1, <2>2 DEF OnItsChart, SenderStates
  <2> QED  BY <2>1, <2>3, ChangeStep DEF Stages
<1>10. CASE Bridge!Wait(s)
  BY <1>2, <1>10, MovesOn DEF Bridge!Wait, Stages
<1>11. CASE Bridge!Poll(s)  BY <1>11, PollStep
<1>12. CASE Bridge!Fail(s)
  <2> DEFINE new == [Bridge!Idle EXCEPT !.at = "failed"]
  <2>1. new \in SenderStates /\ new.at = "failed" /\ new.last = Bridge!Nothing
    BY DEF SenderStates, Bridge!Idle, Stages, Reports, Infos
  <2>2. sender' = [sender EXCEPT ![s] = new] /\ UNCHANGED <<chart, report, parts, looks, slow>>
    BY <1>12 DEF Bridge!Fail
  <2> HIDE DEF new
  <2>3. sender'[s] = new  BY <2>2 DEF BridgeInv, BridgeTypeOK
  <2>4. OnItsChart(s)' /\ AnswerIsOwn(s)' /\ HasRead(s)'
    BY <2>1, <2>3 DEF OnItsChart, AnswerIsOwn, HasRead
  <2> QED  BY <1>2, <2>1, <2>2, <2>4, OwnStep
<1> QED
  BY <1>3, <1>4, <1>5, <1>6, <1>7, <1>8, <1>9, <1>10, <1>11, <1>12

(* Whatever was on the chart and whatever else changes it, for any number  *)
(* of requests: one that is answered before its polls run out, alone on    *)
(* the chart of a TradingView that was not slow, is answered with the      *)
(* metrics of its own gene on its own chart (sendToTradingView).           *)
THEOREM AnswersAreOwnHolds == Spec => []AnswersAreOwn
<1> DEFINE Inv == part = "bridge" => BridgeInv
<1>1. Init => Inv
  <2> SUFFICES ASSUME Init, part = "bridge" PROVE BridgeInv  OBVIOUS
  <2>1. Bridge!Init  BY DEF Init
  <2>2. chart \in Charts  BY <2>1, WantedIsAChart DEF Bridge!Init
  <2>3. /\ Bridge!Idle \in SenderStates /\ Bridge!Idle.at = "start"
        /\ Bridge!Idle.last = Bridge!Nothing
    BY DEF SenderStates, Bridge!Idle, Stages, Reports, Infos
  <2>4. BridgeTypeOK
    <3>1. sender \in [Senders -> SenderStates]  BY <2>1, <2>3 DEF Bridge!Init
    <3>2. looks \in [Senders -> 0..2]  BY <2>1 DEF Bridge!Init
    <3> QED
      BY <2>1, <2>2, <3>1, <3>2 DEF Bridge!Init, BridgeTypeOK, Reports, Bridge!Finished
  <2>5. ReportInv  BY <2>1 DEF Bridge!Init, ReportInv, Bridge!Finished
  <2>6. ASSUME NEW s \in Senders  PROVE OnItsChart(s) /\ AnswerIsOwn(s) /\ HasRead(s)
    <3>1. sender[s].at = "start" /\ sender[s].last = Bridge!Nothing
      BY <2>1, <2>3 DEF Bridge!Init
    <3> QED  BY <3>1 DEF OnItsChart, AnswerIsOwn, HasRead
  <2> QED  BY <2>4, <2>5, <2>6 DEF BridgeInv
<1>2. Inv /\ [Next]_vars => Inv'
  <2> SUFFICES ASSUME Inv, [Next]_vars, part' = "bridge" PROVE BridgeInv'  OBVIOUS
  <2>1. part = "bridge" /\ BridgeInv  BY SamePart
  <2>2. CASE UNCHANGED bridge
    BY <2>1, <2>2
    DEF bridge, BridgeInv, BridgeTypeOK, ReportInv, OnItsChart, AnswerIsOwn, HasRead, Counted
  <2>3. CASE Bridge!Next  BY <2>1, <2>3, BridgeStep
  <2> QED  BY <2>1, <2>2, <2>3, BridgeActs
<1>3. Inv => AnswersAreOwn
  BY DEF AnswersAreOwn, Bridge!AnswersAreOwn, BridgeInv, AnswerIsOwn
<1> QED  BY <1>1, <1>2, <1>3, PTL DEF Spec

-----------------------------------------------------------------------------
(* The deployment.                                                         *)

SavedTitles == UNION {{c[id].title : id \in DOMAIN c} : c \in Clouds}
SavedSources == UNION {{c[id].source : id \in DOMAIN c} : c \in Clouds}
Texts == {Scripts!Title, "title 1", Scripts!Ours, "strategy", "other", "blank"}
         \cup SavedTitles \cup SavedSources
SavedScripts == [title : Texts, source : Texts]
Steps == {"generate", "check", "list", "open", "set", "probe", "save", "poll", "list again",
          "compile", "open again", "done"}

ScriptsTypeOK ==
    /\ options \in [overwrite : BOOLEAN, dryRun : BOOLEAN]
    /\ step \in Steps
    /\ exit \in {Scripts!NotYet} \cup (0..7)
    /\ exit = Scripts!NotYet <=> step # "done"
    /\ cloud \in Seq(SavedScripts) /\ before \in Seq(SavedScripts)
    /\ editor \in [shows : {Scripts!None} \cup DOMAIN cloud, source : Texts]
    /\ {found, opened} \subseteq {Scripts!None} \cup DOMAIN cloud
    /\ late \in {Scripts!None, Scripts!NewTab} \cup DOMAIN cloud
    /\ overtaken \in BOOLEAN /\ disturbed \in BOOLEAN

(* The deploy script is the only one to tell the editor what to show.      *)
NothingIsLate ==
    step \in {"generate", "check", "list", "open"} => late = Scripts!None /\ ~ overtaken

(* What the deploy script has found before it writes anything.             *)
FoundIsThere ==
    /\ ~ options.dryRun
    /\ found # Scripts!None =>
           found \in DOMAIN before /\ before[found].title = Scripts!Title /\ options.overwrite
    /\ found = Scripts!None => \A id \in DOMAIN before : before[id].title # Scripts!Title

(* Its own script is saved over the one it has found, or at the end.       *)
SavedOver ==
    /\ found # Scripts!None
    /\ Len(cloud) = Len(before)
    /\ cloud[found] = Scripts!Script(Scripts!Title, Scripts!Ours)
    /\ \A id \in DOMAIN before \ {found} : cloud[id] = before[id]
SavedNew ==
    /\ found = Scripts!None
    /\ Len(cloud) = Len(before) + 1
    /\ cloud[Len(cloud)] = Scripts!Script(Scripts!Title, Scripts!Ours)
    /\ \A id \in DOMAIN before : cloud[id] = before[id]

Told == IF found = Scripts!None THEN Scripts!NewTab ELSE found

DeployProgress ==
    /\ step \in {"check", "list", "open", "set", "probe", "save"} => cloud = before
    /\ step \notin {"generate", "check", "list", "done"} => FoundIsThere
    /\ late # Scripts!None => late = Told
    /\ step \in {"check", "list", "open"} => editor.shows = opened
    /\ step = "set" => editor.shows = IF late = Scripts!None THEN found ELSE opened
    /\ step \in {"probe", "save"} => editor.shows = found \/ (overtaken /\ editor.shows = opened)
    /\ step \in {"probe", "save"} /\ ~ overtaken =>
           editor.source = Scripts!Ours /\ late = Scripts!None
    /\ step \in {"poll", "list again", "compile", "open again"} /\ ~ overtaken =>
           cloud = before \/ SavedOver \/ SavedNew

ScriptsInv ==
    /\ ScriptsTypeOK
    /\ NothingIsLate
    /\ Scripts!Alone => DeployProgress
    /\ Scripts!DeployIsHonest

LEMMA CloudsAreSaved ==
    ASSUME NEW c \in Clouds
    PROVE  c \in Seq(SavedScripts)
<1>1. c \in Seq([title : STRING, source : STRING])  BY ScriptsAssumption
<1>2. ASSUME NEW id \in DOMAIN c  PROVE c[id] \in SavedScripts
  <2> PICK S : S = [title : STRING, source : STRING]  OBVIOUS
  <2>0. c \in Seq(S) /\ id \in 1..Len(c)  BY <1>1
  <2>1. c[id] \in S  BY <2>0, ElementOfSeq
  <2>2. c[id] = [title |-> c[id].title, source |-> c[id].source]  BY <2>1
  <2>3. c[id].title \in SavedTitles
    <3>1. c[id].title \in {c[i].title : i \in DOMAIN c}  OBVIOUS
    <3> QED  BY <3>1 DEF SavedTitles
  <2>4. c[id].source \in SavedSources
    <3>1. c[id].source \in {c[i].source : i \in DOMAIN c}  OBVIOUS
    <3> QED  BY <3>1 DEF SavedSources
  <2>5. PICK t \in Texts, x \in Texts : t = c[id].title /\ x = c[id].source
    BY <2>3, <2>4 DEF Texts
  <2>6. c[id] = [title |-> t, source |-> x]  BY <2>2, <2>5
  <2> QED  BY <2>6 DEF SavedScripts
<1>3. Len(c) \in Nat /\ c \in [1..Len(c) -> SavedScripts]  BY <1>1, <1>2
<1> QED  BY <1>3, SeqDef

LEMMA Resourced ==
    ASSUME NEW c \in Seq(SavedScripts), NEW i \in DOMAIN c, NEW source \in Texts,
           NEW d, d = [c EXCEPT ![i].source = source]
    PROVE  /\ d \in Seq(SavedScripts) /\ Len(d) = Len(c) /\ DOMAIN d = DOMAIN c
           /\ d[i] = Scripts!Script(c[i].title, source)
           /\ \A j \in DOMAIN c \ {i} : d[j] = c[j]
<1>1. c[i] \in SavedScripts  OBVIOUS
<1> PICK r \in SavedScripts : r = [title |-> c[i].title, source |-> source]
  BY <1>1 DEF SavedScripts
<1>2. [c[i] EXCEPT !.source = source] = r  BY <1>1 DEF SavedScripts
<1>3. d = [c EXCEPT ![i] = r]  BY <1>2
<1>4. d \in Seq(SavedScripts) /\ Len(d) = Len(c) /\ DOMAIN d = DOMAIN c
  <2>1. i \in 1..Len(c)  OBVIOUS
  <2>2. [c EXCEPT ![i] = r] \in Seq(SavedScripts) /\ Len([c EXCEPT ![i] = r]) = Len(c)
    BY <2>1, ExceptSeq
  <2> QED  BY <1>3, <2>2
<1>5. d[i] = r /\ \A j \in DOMAIN c \ {i} : d[j] = c[j]  BY <1>3
<1> QED  BY <1>4, <1>5 DEF Scripts!Script

\* The first of the scripts with a title is one of them.
LEMMA FirstIsOne ==
    ASSUME ScriptsTypeOK, NEW title
    PROVE  /\ Scripts!Titled(title) = {} => Scripts!First(Scripts!Titled(title)) = Scripts!None
           /\ Scripts!Titled(title) # {} =>
                  Scripts!First(Scripts!Titled(title)) \in Scripts!Titled(title)
<1> DEFINE T == Scripts!Titled(title)
<1>1. T \subseteq 1..Len(cloud) /\ Len(cloud) \in Nat
  BY DEF ScriptsTypeOK, Scripts!Titled
<1> HIDE DEF T
<1>2. PICK n \in Nat : n = Len(cloud)  BY <1>1
<1>3. ASSUME T # {}  PROVE Scripts!First(T) \in T
  <2>0. IsFiniteSet(1..n)  BY FS_Interval
  <2>1. T \subseteq 1..n /\ IsFiniteSet(T)  BY <1>1, <1>2, <2>0, FS_Subset
  <2>2. T \subseteq Int  BY <2>1
  <2>3. \E m \in T : \A x \in T : m <= x  BY <1>3, <2>1, <2>2, LeastExists
  <2> QED  BY <1>3, <2>3 DEF Scripts!First
<1>4. T = {} => Scripts!First(T) = Scripts!None  BY DEF Scripts!First
<1> QED  BY <1>3, <1>4 DEF T

\* Nobody has disturbed what nobody disturbs later.
LEMMA WasAlone ==
    ASSUME ScriptsTypeOK, Scripts!Next, ~ Scripts!Generate, Scripts!Alone'
    PROVE  Scripts!Alone /\ UNCHANGED <<before, options>>
<1> USE DEF Scripts!Quiet, Scripts!Watch, Scripts!tradingView, Scripts!deploying, Scripts!Alone,
            Scripts!Started, Scripts!Continue, Scripts!Exit, Scripts!ghosts
<1>1. CASE \/ Scripts!CallFails \/ Scripts!Check \/ Scripts!List \/ Scripts!Set
           \/ Scripts!Probe \/ Scripts!Save \/ Scripts!Poll \/ Scripts!ListAgain
           \/ Scripts!Compile
  <2>1. step # "generate"
    BY <1>1 DEF Scripts!CallFails, Scripts!Check, Scripts!List, Scripts!Set, Scripts!Probe,
                Scripts!Save, Scripts!Poll, Scripts!ListAgain, Scripts!Compile
  <2>2. UNCHANGED <<disturbed, before, options>>
    <3>1. CASE \/ Scripts!CallFails \/ Scripts!Check \/ Scripts!List \/ Scripts!Set
      BY <3>1 DEF Scripts!CallFails, Scripts!Check, Scripts!List, Scripts!Set
    <3>2. CASE \/ Scripts!Probe \/ Scripts!Save \/ Scripts!Poll \/ Scripts!ListAgain
               \/ Scripts!Compile
      BY <3>2 DEF Scripts!Probe, Scripts!Save, Scripts!Poll, Scripts!ListAgain, Scripts!Compile
    <3> QED  BY <1>1, <3>1, <3>2
  <2> QED  BY <2>1, <2>2
<1>2. CASE Scripts!Open
  <2>1. step = "open" /\ UNCHANGED <<before, disturbed, options>>  BY <1>2 DEF Scripts!Open
  <2> QED  BY <2>1
<1>3. CASE Scripts!OpenAgain
  BY <1>3 DEF Scripts!OpenAgain
<1>4. CASE Scripts!Export  BY <1>4 DEF Scripts!Export, Scripts!Elsewhere
<1>5. CASE \/ Scripts!Push \/ Scripts!Twin
           \/ \E id \in DOMAIN cloud : Scripts!Switch(id)
  <2>1. disturbed' = (disturbed \/ Scripts!Started) /\ step' = step
    BY <1>5 DEF Scripts!Push, Scripts!Twin, Scripts!Switch, Scripts!Elsewhere, Scripts!Disturb
  <2> QED  BY <2>1
<1>6. CASE Scripts!LateShow  BY <1>6 DEF Scripts!LateShow
<1> QED  BY <1>1, <1>2, <1>3, <1>4, <1>5, <1>6 DEF Scripts!Next

\* What is true of the scripts as long as they stay as they are.
LEMMA StayHonest ==
    ASSUME Scripts!DeployIsHonest, Scripts!Alone,
           UNCHANGED <<cloud, before, options, opened, overtaken>>,
           exit' \in {3, 4} \/ (exit' = 0 /\ options.dryRun) => cloud = before,
           exit' = 0 /\ ~ options.dryRun /\ found' = Scripts!None /\ ~ overtaken => Scripts!IsStored
    PROVE  Scripts!DeployIsHonest'
  BY DEF Scripts!DeployIsHonest, Scripts!Deployed, Scripts!Titled, Scripts!IsStored,
         Scripts!MayReplace

\* The scripts are as they were, and the deploy script goes on.
LEMMA Untouched ==
    ASSUME cloud' = before', exit' = Scripts!NotYet
    PROVE  Scripts!DeployIsHonest'
<1>1. exit' \notin {0, 3, 4}  BY DEF Scripts!NotYet
<1> QED  BY <1>1 DEF Scripts!DeployIsHonest, Scripts!Deployed, Scripts!Titled

\* The steps that only look at TradingView, or find something out.
LEMMA LookingStep ==
    ASSUME ScriptsTypeOK, Scripts!Alone, DeployProgress, Scripts!DeployIsHonest,
           \/ Scripts!CallFails \/ Scripts!Check \/ Scripts!Probe \/ Scripts!Poll
           \/ Scripts!ListAgain \/ Scripts!Compile \/ Scripts!Export
    PROVE  (DeployProgress /\ Scripts!DeployIsHonest)'
<1> USE DEF Scripts!Continue, Scripts!Exit, Scripts!Quiet, Scripts!Watch, Scripts!tradingView,
            Scripts!deploying, Scripts!Elsewhere, Scripts!ghosts
<1>1. UNCHANGED <<cloud, before, options, editor, found, opened, late, overtaken>>
  BY DEF Scripts!CallFails, Scripts!Check, Scripts!Probe, Scripts!Poll, Scripts!ListAgain,
         Scripts!Compile, Scripts!Export
<1>2. step' = step \/ step' = "done" \/ <<step, step'>> \in
          {<<"check", "list">>, <<"probe", "save">>, <<"probe", "poll">>, <<"poll", "list again">>,
           <<"list again", "compile">>, <<"compile", "open again">>}
  BY DEF Scripts!CallFails, Scripts!Check, Scripts!Probe, Scripts!Poll, Scripts!ListAgain,
         Scripts!Compile, Scripts!Export
<1>3. exit' = exit \/ exit' \in {1, 6} \/ (exit' = 3 /\ step = "check")
  BY DEF Scripts!CallFails, Scripts!Check, Scripts!Probe, Scripts!Poll, Scripts!ListAgain,
         Scripts!Compile, Scripts!Export
<1>4. DeployProgress'
  BY <1>1, <1>2 DEF DeployProgress, FoundIsThere, SavedOver, SavedNew, Told
<1>5. Scripts!DeployIsHonest'
  <2>1. CASE exit' = exit
    BY <1>1, <2>1, StayHonest DEF Scripts!DeployIsHonest, Scripts!Deployed
  <2>2. CASE exit' \in {1, 6} \/ (exit' = 3 /\ step = "check")
    <3>1. ~ (exit' = 0)  BY <2>2
    <3>2. step = "check" => cloud = before  BY DEF DeployProgress
    <3>3. exit' \in {3, 4} => cloud = before  BY <2>2, <3>2
    <3> QED  BY <1>1, <3>1, <3>3, StayHonest
  <2> QED  BY <1>3, <2>1, <2>2
<1> QED  BY <1>4, <1>5

LEMMA ListStep ==
    ASSUME ScriptsTypeOK, NothingIsLate, Scripts!Alone, DeployProgress, Scripts!DeployIsHonest, Scripts!List
    PROVE  (DeployProgress /\ Scripts!DeployIsHonest)'
<1> USE DEF Scripts!Continue, Scripts!Exit, Scripts!Quiet, Scripts!Watch, Scripts!tradingView,
            Scripts!ghosts
<1>1. /\ step = "list" /\ UNCHANGED <<cloud, before, options, editor, opened, late, overtaken>>
      /\ found' = Scripts!First(Scripts!Titled(Scripts!Title))
      /\ \/ step' = "done" /\ exit' = 4
         \/ step' = "done" /\ exit' = 0 /\ options.dryRun
         \/ ~ Scripts!Collides /\ ~ options.dryRun /\ step' = "open" /\ exit' = exit
  BY DEF Scripts!List
<1>2. cloud = before /\ editor.shows = opened /\ late = Scripts!None
  BY <1>1 DEF DeployProgress, NothingIsLate
<1>3. CASE step' = "done"
  <2>1. DeployProgress'  BY <1>1, <1>2, <1>3 DEF DeployProgress
  <2>2. exit' = 0 => options.dryRun  BY <1>1, <1>3 DEF ScriptsTypeOK
  <2> QED  BY <1>1, <1>2, <2>1, <2>2, StayHonest
<1>4. CASE ~ Scripts!Collides /\ ~ options.dryRun /\ step' = "open" /\ exit' = exit
  <2>1. exit' = Scripts!NotYet  BY <1>1, <1>4 DEF ScriptsTypeOK
  <2>2. Scripts!DeployIsHonest'  BY <1>1, <1>2, <2>1, StayHonest DEF Scripts!NotYet
  <2>3. FoundIsThere'
    <3>1. CASE Scripts!Titled(Scripts!Title) = {}
      <4>1. found' = Scripts!None  BY <1>1, <3>1, FirstIsOne
      <4> QED  BY <1>1, <1>2, <1>4, <3>1, <4>1 DEF FoundIsThere, Scripts!Titled
    <3>2. CASE Scripts!Titled(Scripts!Title) # {}
      <4>1. found' \in Scripts!Titled(Scripts!Title)  BY <1>1, <3>2, FirstIsOne
      <4>2. found' \in DOMAIN before /\ before[found'].title = Scripts!Title
        BY <1>2, <4>1 DEF Scripts!Titled
      <4>3. found' # Scripts!None  BY <4>2 DEF ScriptsTypeOK, Scripts!None
      <4> QED  BY <1>1, <1>4, <3>2, <4>2, <4>3 DEF FoundIsThere, Scripts!Collides
    <3> QED  BY <3>1, <3>2
  <2> QED  BY <1>1, <1>2, <1>4, <2>2, <2>3 DEF DeployProgress
<1> QED  BY <1>1, <1>3, <1>4

LEMMA OpenStep ==
    ASSUME ScriptsTypeOK, NothingIsLate, Scripts!Alone, DeployProgress, Scripts!DeployIsHonest,
           Scripts!Open
    PROVE  (DeployProgress /\ Scripts!DeployIsHonest)'
<1> USE DEF Scripts!Continue, Scripts!Exit, Scripts!Quiet, Scripts!Watch, Scripts!tradingView,
            Scripts!ghosts
<1>1. step = "open" /\ UNCHANGED <<cloud, before, options, found, opened, overtaken>>
  BY DEF Scripts!Open
<1>2. cloud = before /\ FoundIsThere /\ editor.shows = opened /\ late = Scripts!None
  BY <1>1 DEF DeployProgress, NothingIsLate
<1>3. FoundIsThere'  BY <1>1, <1>2 DEF FoundIsThere
<1>4. CASE step' = "done" /\ exit' = 5 /\ late' = late
  BY <1>1, <1>2, <1>4, StayHonest DEF DeployProgress
<1> DEFINE told == IF found = Scripts!None THEN Scripts!NewTab ELSE found
<1>5. CASE /\ step' = "set" /\ exit' = exit
           /\ \/ late' = Scripts!None /\ editor'.shows = found
              \/ late' = told /\ editor' = editor
  <2>1. exit' = Scripts!NotYet  BY <1>1, <1>5 DEF ScriptsTypeOK
  <2>2. Scripts!DeployIsHonest'  BY <1>1, <1>2, <2>1, Untouched
  <2>3. told # Scripts!None  BY DEF Scripts!NewTab, Scripts!None
  <2>4. late' # Scripts!None => late' = Told'  BY <1>1, <1>5 DEF Told
  <2>5. editor'.shows = IF late' = Scripts!None THEN found' ELSE opened'
    BY <1>1, <1>2, <1>5, <2>3
  <2> QED  BY <1>1, <1>2, <1>3, <1>5, <2>2, <2>4, <2>5 DEF DeployProgress
<1>6. \/ step' = "done" /\ exit' = 5 /\ late' = late
      \/ /\ step' = "set" /\ exit' = exit
         /\ \/ late' = Scripts!None /\ editor'.shows = found
            \/ late' = told /\ editor' = editor
  <2>1. Scripts!WantOverwrite <=> found # Scripts!None
    BY <1>2 DEF Scripts!WantOverwrite, FoundIsThere
  <2>4. Scripts!Show(found) => editor'.shows = found  BY DEF Scripts!Show
  <2>5. editor' = Scripts!Untitled => editor'.shows = Scripts!None  BY DEF Scripts!Untitled
  <2>6. (IF Scripts!WantOverwrite THEN found ELSE Scripts!NewTab) = told  BY <2>1
  <2> QED  BY <1>2, <2>1, <2>4, <2>5, <2>6 DEF Scripts!Open
<1> QED  BY <1>4, <1>5, <1>6

LEMMA SetStep ==
    ASSUME ScriptsTypeOK, Scripts!Alone, DeployProgress, Scripts!DeployIsHonest, Scripts!Set
    PROVE  (DeployProgress /\ Scripts!DeployIsHonest)'
<1>1. /\ step = "set" /\ step' = "probe" /\ exit' = exit
      /\ UNCHANGED <<cloud, before, options, found, opened, late>>
      /\ overtaken' = (late # Scripts!None)
      /\ editor' = [editor EXCEPT !.source = Scripts!Ours]
  BY DEF Scripts!Set, Scripts!Continue
<1>2. /\ cloud = before /\ FoundIsThere /\ (late # Scripts!None => late = Told)
      /\ editor.shows = IF late = Scripts!None THEN found ELSE opened
  BY <1>1 DEF DeployProgress
<1>3. exit' = Scripts!NotYet  BY <1>1 DEF ScriptsTypeOK
<1>4. Scripts!DeployIsHonest'  BY <1>1, <1>2, <1>3, Untouched
<1>5. FoundIsThere' /\ (late' # Scripts!None => late' = Told')
  BY <1>1, <1>2 DEF FoundIsThere, Told
<1>6. editor'.shows = editor.shows /\ editor'.source = Scripts!Ours  BY <1>1 DEF ScriptsTypeOK
<1> QED  BY <1>1, <1>2, <1>4, <1>5, <1>6 DEF DeployProgress

LEMMA AppendedTo ==
    ASSUME NEW S, NEW q \in Seq(S), NEW e, NEW i \in 1..Len(q)
    PROVE  Append(q, e)[i] = q[i]
  OBVIOUS

LEMMA SaveStep ==
    ASSUME ScriptsTypeOK, Scripts!Alone, DeployProgress, Scripts!DeployIsHonest, Scripts!Save
    PROVE  (DeployProgress /\ Scripts!DeployIsHonest)'
<1>1. /\ step = "save" /\ step' = "poll" /\ exit' = exit
      /\ UNCHANGED <<before, options, found, opened, late, overtaken>>
  BY DEF Scripts!Save, Scripts!Continue, Scripts!Quiet, Scripts!ghosts
<1>2. /\ cloud = before /\ FoundIsThere
      /\ editor.shows = found \/ (overtaken /\ editor.shows = opened)
      /\ ~ overtaken => editor.shows = found /\ editor.source = Scripts!Ours
  BY <1>1 DEF DeployProgress
<1>3. exit' = Scripts!NotYet  BY <1>1 DEF ScriptsTypeOK
<1>4. FoundIsThere' /\ (late' # Scripts!None => late' = Told')
  BY <1>1, <1>2 DEF FoundIsThere, Told, DeployProgress
<1>5. CASE UNCHANGED cloud
  <2>1. Scripts!DeployIsHonest'  BY <1>1, <1>2, <1>3, <1>5, Untouched
  <2> QED  BY <1>1, <1>2, <1>4, <1>5, <2>1 DEF DeployProgress
<1>8. CASE overtaken /\ Scripts!Store
  <2>1. ASSUME NEW id \in DOMAIN before
        PROVE  cloud'[id] = before[id] \/ Scripts!MayReplace(id)' \/ id = opened
    <3>1. CASE editor.shows = Scripts!None
      <4> PICK src \in Texts : src = editor.source  BY DEF ScriptsTypeOK
      <4> PICK new \in SavedScripts : new = Scripts!Script(Scripts!FreeTitle, src)
        <5>1. Scripts!FreeTitle \in Texts  BY DEF Texts, Scripts!FreeTitle
        <5> QED  BY <5>1 DEF SavedScripts, Scripts!Script
      <4>1. cloud' = Append(before, new)  BY <1>2, <1>8, <3>1 DEF Scripts!Store
      <4>2. id \in 1..Len(before)  BY DEF ScriptsTypeOK
      <4>3. before \in Seq(SavedScripts)  BY DEF ScriptsTypeOK
      <4>4. Append(before, new)[id] = before[id]  BY <4>2, <4>3, AppendedTo
      <4> QED  BY <4>1, <4>4
    <3>2. CASE editor.shows # Scripts!None
      <4>1. /\ cloud' = [cloud EXCEPT ![editor.shows].source = editor.source]
            /\ editor.shows \in DOMAIN cloud /\ editor.source \in Texts
            /\ cloud \in Seq(SavedScripts)
        BY <1>8, <3>2 DEF Scripts!Store, ScriptsTypeOK
      <4>2. /\ cloud'[editor.shows].title = cloud[editor.shows].title
            /\ \A j \in DOMAIN cloud \ {editor.shows} : cloud'[j] = cloud[j]
        <5> PICK i \in DOMAIN cloud, src \in Texts : i = editor.shows /\ src = editor.source
          BY <4>1
        <5>1. cloud' = [cloud EXCEPT ![i].source = src]  BY <4>1
        <5>2. /\ cloud'[i] = Scripts!Script(cloud[i].title, src)
              /\ \A j \in DOMAIN cloud \ {i} : cloud'[j] = cloud[j]
          BY <4>1, <5>1, Resourced
        <5>3. cloud'[i].title = cloud[i].title  BY <5>2 DEF Scripts!Script
        <5> QED  BY <5>2, <5>3
      <4>3. CASE id = editor.shows /\ editor.shows = found
        <5>1. before[found].title = Scripts!Title /\ options.overwrite
          BY <1>2, <3>2, <4>3 DEF FoundIsThere
        <5> QED  BY <1>1, <1>2, <4>2, <4>3, <5>1 DEF Scripts!MayReplace
      <4> QED  BY <1>2, <4>2, <4>3
    <3> QED  BY <3>1, <3>2
  <2>2. exit' \notin {0, 3, 4}  BY <1>3 DEF Scripts!NotYet
  <2>3. Scripts!DeployIsHonest'
    BY <1>1, <1>8, <2>1, <2>2 DEF Scripts!DeployIsHonest, Scripts!Deployed
  <2> QED  BY <1>1, <1>4, <1>8, <2>3 DEF DeployProgress
<1>6. CASE ~ overtaken /\ editor.shows = Scripts!None /\ Scripts!Store
  <2>1. Scripts!Titled(Scripts!Title) = {}  BY <1>2, <1>6 DEF FoundIsThere, Scripts!Titled
  <2> PICK new \in SavedScripts : new = Scripts!Script(Scripts!Title, Scripts!Ours)
    BY DEF SavedScripts, Scripts!Script, Texts
  <2>2. cloud' = Append(before, new)
    BY <1>2, <1>6, <2>1 DEF Scripts!Store, Scripts!FreeTitle
  <2>3. /\ Len(cloud') = Len(before) + 1 /\ cloud' \in Seq(SavedScripts)
        /\ \A id \in 1..Len(before) : cloud'[id] = before[id]
        /\ cloud'[Len(before) + 1] = new
    BY <2>2, AppendProperties DEF ScriptsTypeOK
  <2>4. SavedNew'  BY <1>1, <1>2, <1>6, <2>3 DEF SavedNew, ScriptsTypeOK
  <2>5. new.title = Scripts!Title  BY DEF Scripts!Script
  <2>6. Scripts!Titled("title 1")' \subseteq DOMAIN before
    <3>1. cloud' \in Seq(SavedScripts) /\ before \in Seq(SavedScripts)
      BY <2>3 DEF ScriptsTypeOK
    <3>2. PICK n \in Nat : n = Len(before) /\ DOMAIN before = 1..n
      BY <3>1, LenProperties
    <3>3. DOMAIN cloud' = 1..(n + 1)  BY <2>3, <3>1, <3>2, LenProperties
    <3>4. \A id \in 1..(n + 1) : id \in 1..n \/ id = n + 1  OBVIOUS
    <3>5. cloud'[n + 1].title # "title 1"  BY <2>3, <2>5, <3>2 DEF Scripts!Title
    <3> QED  BY <3>2, <3>3, <3>4, <3>5 DEF Scripts!Titled
  <2>7. Scripts!DeployIsHonest'
    <3>1. DOMAIN before = 1..Len(before)  BY DEF ScriptsTypeOK
    <3>2. \A id \in DOMAIN before : cloud'[id] = before[id]  BY <2>3, <3>1
    <3>3. exit' \notin {0, 3, 4}  BY <1>3 DEF Scripts!NotYet
    <3> QED
      BY <1>1, <2>6, <3>2, <3>3 DEF Scripts!DeployIsHonest, Scripts!Deployed
  <2> QED  BY <1>1, <1>4, <2>4, <2>7 DEF DeployProgress
<1>7. CASE ~ overtaken /\ editor.shows # Scripts!None /\ Scripts!Store
  <2>1. found # Scripts!None /\ found \in DOMAIN before  BY <1>2, <1>7 DEF FoundIsThere
  <2>2. cloud' = [cloud EXCEPT ![found].source = Scripts!Ours]
    BY <1>2, <1>7 DEF Scripts!Store
  <2>0. Scripts!Ours \in Texts  BY DEF Texts
  <2>3. /\ Len(cloud') = Len(before) /\ DOMAIN cloud' = DOMAIN before
        /\ cloud'[found] = Scripts!Script(before[found].title, Scripts!Ours)
        /\ \A id \in DOMAIN before \ {found} : cloud'[id] = before[id]
    BY <1>2, <2>0, <2>1, <2>2, Resourced DEF ScriptsTypeOK
  <2>4. before[found].title = Scripts!Title /\ options.overwrite
    BY <1>2, <2>1 DEF FoundIsThere
  <2>5. SavedOver'  BY <1>1, <2>1, <2>3, <2>4 DEF SavedOver
  <2>6. cloud'[found].title = Scripts!Title  BY <2>3, <2>4 DEF Scripts!Script
  <2>7. Scripts!Titled("title 1")' \subseteq DOMAIN before  BY <2>3 DEF Scripts!Titled
  <2>8. Scripts!DeployIsHonest'
    <3>1. exit' \notin {0, 3, 4}  BY <1>3 DEF Scripts!NotYet
    <3> QED
      BY <1>1, <2>3, <2>4, <2>6, <2>7, <3>1
      DEF Scripts!DeployIsHonest, Scripts!Deployed, Scripts!MayReplace
  <2> QED  BY <1>1, <1>4, <2>5, <2>8 DEF DeployProgress
<1> QED  BY <1>5, <1>6, <1>7, <1>8 DEF Scripts!Save

LEMMA OpenAgainStep ==
    ASSUME ScriptsTypeOK, Scripts!Alone, DeployProgress, Scripts!DeployIsHonest,
           Scripts!OpenAgain
    PROVE  (DeployProgress /\ Scripts!DeployIsHonest)'
<1>1. /\ step = "open again" /\ step' = "done" /\ UNCHANGED <<cloud, before, options, found, opened>>
      /\ UNCHANGED <<late, overtaken>>
      /\ exit' = 7 \/ exit' = 0
      /\ exit' = 0 => Scripts!Titled(Scripts!Title) # {}
  <2>1. /\ step = "open again" /\ step' = "done" /\ UNCHANGED <<cloud, before, options, found, opened>>
        /\ UNCHANGED <<late, overtaken>>
        /\ exit' = 7 \/ exit' = 0
    BY DEF Scripts!OpenAgain, Scripts!Exit, Scripts!Quiet, Scripts!Watch, Scripts!tradingView,
           Scripts!ghosts
  <2>2. exit' = 7 \/ Scripts!Titled(Scripts!Title) # {}
    BY DEF Scripts!OpenAgain, Scripts!Exit
  <2>3. exit' = 0 => exit' # 7  OBVIOUS
  <2> QED  BY <2>1, <2>2, <2>3
<1>2. FoundIsThere /\ (~ overtaken => cloud = before \/ SavedOver \/ SavedNew)
  BY <1>1 DEF DeployProgress
<1>3. DeployProgress'  BY <1>1 DEF DeployProgress, Told
<1>4. ASSUME exit' = 0, found = Scripts!None, ~ overtaken  PROVE Scripts!IsStored
  <2>1. cloud # before
    <3>0. Scripts!Titled(Scripts!Title) # {}  BY <1>1, <1>4
    <3>1. PICK id \in DOMAIN cloud : cloud[id].title = Scripts!Title
      BY <3>0 DEF Scripts!Titled
    <3>2. \A i \in DOMAIN before : before[i].title # Scripts!Title
      BY <1>2, <1>4 DEF FoundIsThere
    <3> QED  BY <3>1, <3>2
  <2>2. SavedNew  BY <1>2, <1>4, <2>1 DEF SavedOver
  <2>3. Len(cloud) \in DOMAIN cloud  BY <2>2 DEF SavedNew, ScriptsTypeOK
  <2>4. cloud[Len(cloud)].title = Scripts!Title /\ cloud[Len(cloud)].source = Scripts!Ours
    BY <2>2 DEF SavedNew, Scripts!Script
  <2> QED  BY <2>3, <2>4 DEF Scripts!IsStored, Scripts!Titled
<1>5. ~ (exit' \in {3, 4} \/ (exit' = 0 /\ options.dryRun))
  <2>1. ~ options.dryRun  BY <1>2 DEF FoundIsThere
  <2>2. exit' = 7 \/ exit' = 0  BY <1>1
  <2>3. exit' \notin {3, 4}  BY <2>2
  <2> QED  BY <2>1, <2>2, <2>3
<1>6. Scripts!DeployIsHonest'  BY <1>1, <1>4, <1>5, StayHonest
<1> QED  BY <1>3, <1>6

LEMMA LateShowStep ==
    ASSUME ScriptsTypeOK, NothingIsLate, Scripts!Alone, DeployProgress, Scripts!DeployIsHonest,
           Scripts!LateShow
    PROVE  (DeployProgress /\ Scripts!DeployIsHonest)'
<1> USE DEF Scripts!deploying, Scripts!ghosts
<1>1. /\ late # Scripts!None /\ late' = Scripts!None
      /\ IF late = Scripts!NewTab THEN editor' = Scripts!Untitled ELSE Scripts!Show(late)
      /\ UNCHANGED <<options, step, exit, found, cloud, before, opened, overtaken>>
  BY DEF Scripts!LateShow
<1>2. Scripts!DeployIsHonest'  BY <1>1, StayHonest DEF Scripts!DeployIsHonest, Scripts!Deployed
<1>3. editor'.shows = found
  <2>1. late = Told  BY <1>1 DEF DeployProgress
  <2>2. CASE found = Scripts!None
    BY <1>1, <2>1, <2>2 DEF Told, Scripts!Untitled
  <2>3. CASE found # Scripts!None
    <3>1. found \in DOMAIN cloud /\ cloud \in Seq(SavedScripts)  BY <2>3 DEF ScriptsTypeOK
    <3>2. found # Scripts!NewTab  BY <3>1 DEF Scripts!NewTab
    <3> QED  BY <1>1, <2>1, <2>3, <3>2 DEF Told, Scripts!Show
  <2> QED  BY <2>2, <2>3
<1>4. DeployProgress'
  <2>1. step \notin {"check", "list", "open"}  BY <1>1 DEF NothingIsLate
  <2>2. step \in {"probe", "save"} => overtaken  BY <1>1 DEF DeployProgress
  <2>3. FoundIsThere => FoundIsThere'  BY <1>1 DEF FoundIsThere
  <2>4. (SavedOver => SavedOver') /\ (SavedNew => SavedNew')  BY <1>1 DEF SavedOver, SavedNew
  <2> QED  BY <1>1, <1>3, <2>1, <2>2, <2>3, <2>4 DEF DeployProgress
<1> QED  BY <1>2, <1>4

LEMMA NothingIsLateStep ==
    ASSUME ScriptsTypeOK, NothingIsLate, Scripts!Next
    PROVE  NothingIsLate'
<1> USE DEF Scripts!Quiet, Scripts!Watch, Scripts!tradingView, Scripts!deploying,
            Scripts!Continue, Scripts!Exit, Scripts!ghosts, NothingIsLate
<1>1. CASE \/ Scripts!Generate \/ Scripts!CallFails \/ Scripts!Check \/ Scripts!List
  BY <1>1 DEF Scripts!Generate, Scripts!CallFails, Scripts!Check, Scripts!List
<1>2. CASE Scripts!Open \/ Scripts!Set \/ Scripts!Probe \/ Scripts!Save \/ Scripts!Poll
  <2>1. step' \in {"set", "probe", "save", "poll", "list again", "done"}
    BY <1>2 DEF Scripts!Open, Scripts!Set, Scripts!Probe, Scripts!Save, Scripts!Poll
  <2> QED  BY <2>1
<1>3. CASE Scripts!ListAgain \/ Scripts!Compile \/ Scripts!OpenAgain
  <2>1. step' \in {"compile", "open again", "done"}
    BY <1>3 DEF Scripts!ListAgain, Scripts!Compile, Scripts!OpenAgain
  <2> QED  BY <2>1
<1>4. CASE \/ Scripts!Export \/ Scripts!Push \/ Scripts!Twin \/ Scripts!LateShow
           \/ \E id \in DOMAIN cloud : Scripts!Switch(id)
  <2>1. UNCHANGED <<step, overtaken>> /\ (late' = late \/ late' = Scripts!None)
    BY <1>4 DEF Scripts!Export, Scripts!Push, Scripts!Twin, Scripts!LateShow, Scripts!Switch,
                Scripts!Elsewhere
  <2> QED  BY <2>1
<1> QED  BY <1>1, <1>2, <1>3, <1>4 DEF Scripts!Next

LEMMA ScriptsTypeStep ==
    ASSUME ScriptsTypeOK, Scripts!Next
    PROVE  ScriptsTypeOK'
<1> USE DEF Scripts!ghosts
<1> USE DEF Scripts!Quiet, Scripts!Watch, Scripts!tradingView, Scripts!deploying,
            Scripts!Continue, Scripts!Exit
<1> DEFINE Sorts == [shows : {Scripts!None} \cup DOMAIN cloud, source : Texts]
<1>0. cloud \in Seq(SavedScripts) /\ Len(cloud) \in Nat /\ DOMAIN cloud = 1..Len(cloud)
  BY LenProperties DEF ScriptsTypeOK
\* The script goes on, or ends with an exit code.
<1>a. ASSUME \/ step # "done" /\ exit' = exit /\ step' \in Steps \ {"done"}
             \/ step' = "done" /\ exit' \in 0..7
      PROVE  /\ step' \in Steps /\ exit' \in {Scripts!NotYet} \cup (0..7)
             /\ exit' = Scripts!NotYet <=> step' # "done"
  <2>1. CASE step # "done" /\ exit' = exit /\ step' \in Steps \ {"done"}
    BY <2>1 DEF ScriptsTypeOK
  <2>2. CASE step' = "done" /\ exit' \in 0..7
    <3>1. \A code \in 0..7 : code # -1  OBVIOUS
    <3>2. exit' # Scripts!NotYet  BY <2>2, <3>1 DEF Scripts!NotYet
    <3>3. step' \in Steps  BY <2>2 DEF Steps
    <3> QED  BY <2>2, <3>2, <3>3
  <2> QED  BY <1>a, <2>1, <2>2
<1>1. CASE Scripts!Generate
  BY <1>1, <1>a DEF Scripts!Generate, ScriptsTypeOK, Steps
<1>2. CASE \/ Scripts!CallFails \/ Scripts!Check \/ Scripts!Probe \/ Scripts!Poll
           \/ Scripts!ListAgain \/ Scripts!Compile
  <2>1. UNCHANGED <<options, found, cloud, before, opened, editor, late, overtaken, disturbed>>
    BY <1>2 DEF Scripts!CallFails, Scripts!Check, Scripts!Probe, Scripts!Poll,
                Scripts!ListAgain, Scripts!Compile
  <2>2. \/ step # "done" /\ exit' = exit /\ step' \in Steps \ {"done"}
        \/ step' = "done" /\ exit' \in {1, 3, 6}
    BY <1>2 DEF Scripts!CallFails, Scripts!Check, Scripts!Probe, Scripts!Poll,
                Scripts!ListAgain, Scripts!Compile, Steps
  <2>3. exit' \in {1, 3, 6} => exit' \in 0..7  OBVIOUS
  <2>4. step' \in Steps /\ exit' \in {Scripts!NotYet} \cup (0..7)
        /\ (exit' = Scripts!NotYet <=> step' # "done")
    BY <1>a, <2>2, <2>3
  <2> QED  BY <2>1, <2>4 DEF ScriptsTypeOK
<1>3. CASE Scripts!List
  <2>1. found' \in {Scripts!None} \cup DOMAIN cloud
    BY <1>3, FirstIsOne DEF Scripts!List, Scripts!Titled
  <2>2. UNCHANGED <<options, cloud, before, opened, editor, late, overtaken, disturbed>>
    BY <1>3 DEF Scripts!List
  <2>3. \/ step # "done" /\ exit' = exit /\ step' \in Steps \ {"done"}
        \/ step' = "done" /\ exit' \in {0, 4}
    BY <1>3 DEF Scripts!List, Steps
  <2>4. exit' \in {0, 4} => exit' \in 0..7  OBVIOUS
  <2>5. step' \in Steps /\ exit' \in {Scripts!NotYet} \cup (0..7)
        /\ (exit' = Scripts!NotYet <=> step' # "done")
    BY <1>a, <2>3, <2>4
  <2> QED  BY <2>1, <2>2, <2>5 DEF ScriptsTypeOK
\* Showing a saved script.
<1>4. ASSUME NEW id \in DOMAIN cloud, Scripts!Show(id)  PROVE editor' \in Sorts
  <2>1. cloud[id] \in SavedScripts  BY <1>0, <1>4, ElementOfSeq
  <2>2. cloud[id].source \in Texts  BY <2>1 DEF SavedScripts
  <2> QED  BY <1>4, <2>2 DEF Scripts!Show
<1>5. CASE Scripts!Open
  <2>1. /\ UNCHANGED <<options, cloud, before, opened, found, overtaken, disturbed>>
        /\ late' = late \/ late' = Scripts!NewTab \/ (late' = found /\ found # Scripts!None)
        /\ \/ step' = "done" /\ exit' = 5
           \/ step' = "set" /\ exit' = exit /\ step = "open"
    BY <1>5 DEF Scripts!Open, Scripts!WantOverwrite
  <2>2. editor' \in Sorts
    <3>1. CASE editor' = Scripts!Untitled  BY <3>1 DEF Scripts!Untitled, Texts
    <3>2. CASE UNCHANGED editor  BY <3>2 DEF ScriptsTypeOK
    <3>3. CASE Scripts!WantOverwrite /\ Scripts!Show(found)
      BY <1>4, <3>3 DEF ScriptsTypeOK, Scripts!WantOverwrite
    <3> QED  BY <1>5, <3>1, <3>2, <3>3 DEF Scripts!Open
  <2>3. exit' = 5 => exit' \in 0..7  OBVIOUS
  <2>4. "set" \in Steps \ {"done"}  BY DEF Steps
  <2>5. step' \in Steps /\ exit' \in {Scripts!NotYet} \cup (0..7)
        /\ (exit' = Scripts!NotYet <=> step' # "done")
    BY <1>a, <2>1, <2>3, <2>4
  <2> QED  BY <2>1, <2>2, <2>5 DEF ScriptsTypeOK
<1>6. CASE Scripts!Set
  <2>1. editor' \in Sorts  BY <1>6 DEF Scripts!Set, ScriptsTypeOK, Texts
  <2> QED  BY <1>6, <2>1 DEF Scripts!Set, ScriptsTypeOK, Steps
<1>7. CASE Scripts!Save
  <2>1. UNCHANGED <<options, before, opened, found, late, overtaken, disturbed, exit>>
        /\ step = "save" /\ step' = "poll"
    BY <1>7 DEF Scripts!Save
  <2>2. /\ cloud' \in Seq(SavedScripts) /\ DOMAIN cloud \subseteq DOMAIN cloud'
        /\ editor' \in [shows : {Scripts!None} \cup DOMAIN cloud', source : Texts]
    <3>1. CASE UNCHANGED <<cloud, editor>>  BY <3>1 DEF ScriptsTypeOK
    <3>2. CASE editor.shows = Scripts!None /\ Scripts!Store
      <4> PICK src \in Texts : src = editor.source  BY DEF ScriptsTypeOK
      <4> PICK new \in SavedScripts : new = Scripts!Script(Scripts!FreeTitle, src)
        <5>1. Scripts!FreeTitle \in Texts  BY DEF Texts, Scripts!FreeTitle
        <5> QED  BY <5>1 DEF SavedScripts, Scripts!Script
      <4>1. cloud' = Append(cloud, new)
            /\ editor' = [editor EXCEPT !.shows = Len(cloud')]
        BY <3>2 DEF Scripts!Store
      <4>2. cloud' \in Seq(SavedScripts) /\ Len(cloud') = Len(cloud) + 1
        BY <1>0, <4>1, AppendProperties
      <4>3. DOMAIN cloud' = 1..(Len(cloud) + 1)  BY <4>2, LenProperties
      <4>4. \A n \in Nat : n + 1 \in 1..(n + 1) /\ 1..n \subseteq 1..(n + 1)  OBVIOUS
      <4>5. Len(cloud') \in DOMAIN cloud' /\ DOMAIN cloud \subseteq DOMAIN cloud'
        BY <1>0, <4>2, <4>3, <4>4
      <4> QED  BY <4>1, <4>2, <4>5 DEF ScriptsTypeOK
    <3>3. CASE editor.shows # Scripts!None /\ Scripts!Store
      <4>1. /\ cloud' = [cloud EXCEPT ![editor.shows].source = editor.source]
            /\ editor' = editor /\ editor.shows \in DOMAIN cloud /\ editor.source \in Texts
        BY <3>3 DEF Scripts!Store, ScriptsTypeOK
      <4>2. cloud' \in Seq(SavedScripts) /\ DOMAIN cloud' = DOMAIN cloud
        BY <1>0, <4>1, Resourced
      <4> QED  BY <4>1, <4>2 DEF ScriptsTypeOK
    <3> QED  BY <1>7, <3>1, <3>2, <3>3 DEF Scripts!Save
  <2> QED  BY <2>1, <2>2 DEF ScriptsTypeOK, Steps
<1>8. CASE Scripts!OpenAgain
  <2>1. /\ UNCHANGED <<options, cloud, before, opened, found, late, overtaken, disturbed>>
        /\ step' = "done" /\ exit' \in {0, 7}
    BY <1>8 DEF Scripts!OpenAgain
  <2>3. exit' \in {0, 7} => exit' \in 0..7  OBVIOUS
  <2>4. step' \in Steps /\ exit' \in {Scripts!NotYet} \cup (0..7)
        /\ (exit' = Scripts!NotYet <=> step' # "done")
    BY <1>a, <2>1, <2>3
  <2>2. editor' \in Sorts
    <3>1. CASE UNCHANGED editor  BY <3>1 DEF ScriptsTypeOK
    <3>2. CASE /\ Scripts!Titled(Scripts!Title) # {}
               /\ Scripts!Show(Scripts!First(Scripts!Titled(Scripts!Title)))
      BY <1>4, <3>2, FirstIsOne DEF Scripts!Titled
    <3> QED  BY <1>8, <3>1, <3>2 DEF Scripts!OpenAgain
  <2> QED  BY <2>1, <2>2, <2>4 DEF ScriptsTypeOK
<1> USE DEF Scripts!Elsewhere, Scripts!Disturb
<1>9. CASE Scripts!Export
  BY <1>9 DEF Scripts!Export, ScriptsTypeOK
<1>10. CASE Scripts!Push
  <2>1. /\ UNCHANGED <<options, step, exit, before, opened, found, late, overtaken>> /\ disturbed' \in BOOLEAN
        /\ editor' = [editor EXCEPT !.source = "strategy"]
        /\ cloud' = IF editor.shows = Scripts!None THEN cloud
                    ELSE [cloud EXCEPT ![editor.shows].source = "strategy"]
    BY <1>10 DEF Scripts!Push, Scripts!PushPineToTV, ScriptsTypeOK
  <2>2. "strategy" \in Texts /\ editor.shows \in {Scripts!None} \cup DOMAIN cloud
    BY DEF Texts, ScriptsTypeOK
  <2>3. cloud' \in Seq(SavedScripts) /\ DOMAIN cloud' = DOMAIN cloud
    BY <1>0, <2>1, <2>2, Resourced
  <2>4. editor' \in Sorts  BY <2>1, <2>2 DEF ScriptsTypeOK
  <2> QED  BY <2>1, <2>3, <2>4 DEF ScriptsTypeOK
<1>11. CASE Scripts!LateShow
  <2>1. /\ UNCHANGED <<options, step, exit, cloud, before, opened, found, overtaken, disturbed>>
        /\ late' = Scripts!None
    BY <1>11 DEF Scripts!LateShow
  <2>2. editor' \in Sorts
    <3>1. CASE editor' = Scripts!Untitled  BY <3>1 DEF Scripts!Untitled, Texts
    <3>2. CASE late \in DOMAIN cloud /\ Scripts!Show(late)  BY <1>4, <3>2
    <3> QED  BY <1>11, <3>1, <3>2 DEF Scripts!LateShow, ScriptsTypeOK
  <2> QED  BY <2>1, <2>2 DEF ScriptsTypeOK
<1>12. CASE \E id \in DOMAIN cloud : Scripts!Switch(id)
  <2>1. /\ UNCHANGED <<options, step, exit, cloud, before, opened, found, late, overtaken>>
        /\ disturbed' \in BOOLEAN
    BY <1>12 DEF Scripts!Switch, ScriptsTypeOK
  <2>2. editor' \in Sorts  BY <1>4, <1>12 DEF Scripts!Switch
  <2> QED  BY <2>1, <2>2 DEF ScriptsTypeOK
<1>13. CASE Scripts!Twin
  <2>1. /\ UNCHANGED <<options, step, exit, before, opened, found, late, overtaken, editor>>
        /\ disturbed' \in BOOLEAN
    BY <1>13 DEF Scripts!Twin, ScriptsTypeOK
  <2> PICK new \in SavedScripts : new = Scripts!Script(Scripts!Title, "other")
    BY DEF SavedScripts, Scripts!Script, Texts
  <2>2. cloud' = Append(cloud, new)  BY <1>13 DEF Scripts!Twin
  <2>3. cloud' \in Seq(SavedScripts) /\ Len(cloud') = Len(cloud) + 1
    BY <1>0, <2>2, AppendProperties
  <2>4. DOMAIN cloud' = 1..(Len(cloud) + 1)  BY <2>3, LenProperties
  <2>5. \A n \in Nat : 1..n \subseteq 1..(n + 1)  OBVIOUS
  <2>6. DOMAIN cloud \subseteq DOMAIN cloud'  BY <1>0, <2>4, <2>5
  <2> QED  BY <2>1, <2>3, <2>6 DEF ScriptsTypeOK
<1> QED
  BY <1>1, <1>2, <1>3, <1>5, <1>6, <1>7, <1>8, <1>9, <1>10, <1>11, <1>12, <1>13
  DEF Scripts!Next

LEMMA ScriptsStep ==
    ASSUME ScriptsInv, Scripts!Next
    PROVE  ScriptsInv'
<1>1. /\ ScriptsTypeOK /\ Scripts!DeployIsHonest /\ (Scripts!Alone => DeployProgress)
      /\ NothingIsLate
  BY DEF ScriptsInv
<1>2. ScriptsTypeOK' /\ NothingIsLate'  BY <1>1, ScriptsTypeStep, NothingIsLateStep
<1>3. CASE ~ Scripts!Alone'
  BY <1>2, <1>3 DEF ScriptsInv, Scripts!DeployIsHonest
<1>4. CASE Scripts!Generate
  <2>1. /\ step' = "check" /\ exit' = Scripts!NotYet /\ cloud' = cloud /\ before' = cloud
        /\ options' = options /\ late' = Scripts!None /\ editor'.shows = opened'
    BY <1>1, <1>4 DEF Scripts!Generate, Scripts!Continue, Scripts!Watch, Scripts!tradingView,
                      ScriptsTypeOK, NothingIsLate
  <2>2. DeployProgress'  BY <2>1 DEF DeployProgress
  <2>3. exit' \notin {0, 3, 4}  BY <2>1 DEF Scripts!NotYet
  <2>4. Scripts!DeployIsHonest'
    BY <2>1, <2>3 DEF Scripts!DeployIsHonest, Scripts!Deployed, Scripts!Titled
  <2> QED  BY <1>2, <2>2, <2>4 DEF ScriptsInv
<1>5. CASE Scripts!Alone' /\ ~ Scripts!Generate
  <2>1. Scripts!Alone /\ DeployProgress  BY <1>1, <1>5, WasAlone
  <2>2. CASE \/ Scripts!CallFails \/ Scripts!Check \/ Scripts!Probe \/ Scripts!Poll
             \/ Scripts!ListAgain \/ Scripts!Compile \/ Scripts!Export
    BY <1>1, <1>2, <2>1, <2>2, LookingStep DEF ScriptsInv
  <2>3. CASE Scripts!List  BY <1>1, <1>2, <2>1, <2>3, ListStep DEF ScriptsInv
  <2>4. CASE Scripts!Open  BY <1>1, <1>2, <2>1, <2>4, OpenStep DEF ScriptsInv
  <2>5. CASE Scripts!Set  BY <1>1, <1>2, <2>1, <2>5, SetStep DEF ScriptsInv
  <2>6. CASE Scripts!Save  BY <1>1, <1>2, <2>1, <2>6, SaveStep DEF ScriptsInv
  <2>7. CASE Scripts!OpenAgain  BY <1>1, <1>2, <2>1, <2>7, OpenAgainStep DEF ScriptsInv
  <2>8. CASE \/ Scripts!Push \/ Scripts!Twin
             \/ \E id \in DOMAIN cloud : Scripts!Switch(id)
    <3>1. disturbed'
      BY <2>1, <2>8
      DEF Scripts!Push, Scripts!Twin, Scripts!Switch, Scripts!Disturb, Scripts!Alone
    <3> QED  BY <1>5, <3>1 DEF Scripts!Alone
  <2>9. CASE Scripts!LateShow  BY <1>1, <1>2, <2>1, <2>9, LateShowStep DEF ScriptsInv
  <2> QED  BY <1>5, <2>2, <2>3, <2>4, <2>5, <2>6, <2>7, <2>8, <2>9 DEF Scripts!Next
<1> QED  BY <1>3, <1>4, <1>5

(* Whichever call of the deploy script fails (scripts/pine-deploy.js), and *)
(* whatever scripts were saved before, as long as nobody else uses         *)
(* TradingView meanwhile: what is not its own stays as it is, but for the  *)
(* one script that TradingView, slower than the wait, still showed when    *)
(* the source was set; a refused deployment and a dry run change nothing;  *)
(* and if TradingView was in time, no sibling "title 1" is made, and a new *)
(* script that is reported as deployed is stored.                          *)
THEOREM DeployIsHonestHolds == Spec => []DeployIsHonest
<1> DEFINE Inv == part = "scripts" => ScriptsInv
<1>1. Init => Inv
  <2> SUFFICES ASSUME Init, part = "scripts" PROVE ScriptsInv  OBVIOUS
  <2>1. Scripts!Init  BY DEF Init
  <2>2. cloud \in Seq(SavedScripts) /\ before = cloud
    BY <2>1, CloudsAreSaved DEF Scripts!Init
  <2>3. editor \in [shows : {Scripts!None} \cup DOMAIN cloud, source : Texts]
    <3>1. CASE editor = Scripts!Untitled  BY <3>1 DEF Scripts!Untitled, Texts
    <3>2. ASSUME NEW id \in DOMAIN cloud, editor = [shows |-> id, source |-> cloud[id].source]
          PROVE  editor \in [shows : {Scripts!None} \cup DOMAIN cloud, source : Texts]
      <4>1. cloud[id] \in SavedScripts  BY <2>2, LenProperties, ElementOfSeq
      <4> QED  BY <3>2, <4>1 DEF SavedScripts
    <3> QED  BY <2>1, <3>1, <3>2 DEF Scripts!Init
  <2>4. ScriptsTypeOK
    <3>1. opened \in {Scripts!None} \cup DOMAIN cloud  BY <2>1, <2>3 DEF Scripts!Init
    <3> QED  BY <2>1, <2>2, <2>3, <3>1 DEF Scripts!Init, ScriptsTypeOK, Steps, Scripts!NotYet
  <2>6. NothingIsLate  BY <2>1 DEF Scripts!Init, NothingIsLate
  <2>5. ~ Scripts!Alone  BY <2>1 DEF Scripts!Init, Scripts!Alone, Scripts!Started
  <2> QED  BY <2>4, <2>5, <2>6 DEF ScriptsInv, Scripts!DeployIsHonest
<1>2. Inv /\ [Next]_vars => Inv'
  <2> SUFFICES ASSUME Inv, [Next]_vars, part' = "scripts" PROVE ScriptsInv'  OBVIOUS
  <2>1. part = "scripts" /\ ScriptsInv  BY SamePart
  <2>2. CASE UNCHANGED scripts
    <3>1. UNCHANGED <<options, step, exit, found, cloud, before, opened, editor, late,
                      overtaken, disturbed>>
      BY <2>2 DEF scripts
    <3>2. (ScriptsTypeOK /\ NothingIsLate)'
      BY <2>1, <3>1 DEF ScriptsInv, ScriptsTypeOK, NothingIsLate
    <3>3. Scripts!Alone' = Scripts!Alone  BY <3>1 DEF Scripts!Alone, Scripts!Started
    <3>4. DeployProgress' = DeployProgress
      BY <3>1 DEF DeployProgress, Told, FoundIsThere, SavedOver, SavedNew
    <3>5. Scripts!DeployIsHonest'
      BY <2>1, <3>1, <3>3
      DEF ScriptsInv, Scripts!DeployIsHonest, Scripts!Titled, Scripts!Deployed,
          Scripts!IsStored, Scripts!MayReplace
    <3> QED  BY <2>1, <3>2, <3>3, <3>4, <3>5 DEF ScriptsInv
  <2>3. CASE Scripts!Next  BY <2>1, <2>3, ScriptsStep
  <2> QED  BY <2>1, <2>2, <2>3, ScriptsAct
<1>3. Inv => DeployIsHonest  BY DEF DeployIsHonest, ScriptsInv
<1> QED  BY <1>1, <1>2, <1>3, PTL DEF Spec

-----------------------------------------------------------------------------
(* The pages of runs: what is in flight.                                   *)

OutOf(q, what) == \E i \in DOMAIN q : q[i].what = what
Single(q) == \A i, j \in DOMAIN q : q[i].what = q[j].what /\ q[i].what # "pine" => i = j

Added(q, a) == Append(q, a)

LEMMA AskedFor ==
    ASSUME NEW S, NEW q \in Seq(S), NEW a \in S, NEW r, r = Added(q, a)
    PROVE  /\ r \in Seq(S)
           /\ \A x \in DOMAIN r : r[x] = a \/ \E y \in DOMAIN q : r[x] = q[y]
           /\ \A what : OutOf(r, what) <=> (OutOf(q, what) \/ a.what = what)
           /\ Single(q) /\ (a.what = "pine" \/ ~ OutOf(q, a.what)) => Single(r)
<1>1. PICK n \in Nat : n = Len(q) /\ DOMAIN q = 1..n  BY LenProperties
<1>2. r \in Seq(S) /\ DOMAIN r = 1..(n + 1)
  BY <1>1, AppendProperties, LenProperties DEF Added
<1>3. r[n + 1] = a /\ \A x \in 1..n : r[x] = q[x]  BY <1>1, AppendProperties DEF Added
<1>4. \A x \in 1..(n + 1) : x \in 1..n \/ x = n + 1  OBVIOUS
<1>5. \A x \in 1..n : x \in 1..(n + 1)  OBVIOUS
<1>6. n + 1 \in 1..(n + 1)  OBVIOUS
<1>7. \A x \in DOMAIN r : r[x] = a \/ \E y \in DOMAIN q : r[x] = q[y]
  BY <1>1, <1>2, <1>3, <1>4
<1>8. \A what : OutOf(r, what) <=> (OutOf(q, what) \/ a.what = what)
  BY <1>1, <1>2, <1>3, <1>4, <1>5, <1>6 DEF OutOf
<1>9. Single(q) /\ (a.what = "pine" \/ ~ OutOf(q, a.what)) => Single(r)
  BY <1>1, <1>2, <1>3, <1>4 DEF OutOf, Single
<1> QED  BY <1>2, <1>7, <1>8, <1>9

LEMMA Taken ==
    ASSUME NEW S, NEW q \in Seq(S), NEW i \in DOMAIN q, NEW r, r = Pages!RemoveAt(q, i)
    PROVE  /\ r \in Seq(S)
           /\ \A x \in DOMAIN r : \E y \in DOMAIN q : r[x] = q[y]
           /\ \A what : OutOf(r, what) => OutOf(q, what)
           /\ \A what : OutOf(q, what) /\ q[i].what # what => OutOf(r, what)
           /\ Single(q) => Single(r) /\ (q[i].what # "pine" => ~ OutOf(r, q[i].what))
<1>1. PICK n \in Nat : n = Len(q) /\ DOMAIN q = 1..n  BY LenProperties
<1>2. i \in 1..n  BY <1>1
<1> DEFINE u == SubSeq(q, 1, i - 1)
           v == SubSeq(q, i + 1, n)
<1>3. /\ u \in Seq(S) /\ Len(u) = i - 1
      /\ \A x \in 1..(i - 1) : u[x] = q[x]
  BY <1>1, <1>2
<1>4. /\ v \in Seq(S) /\ Len(v) = n - i
      /\ \A x \in 1..(n - i) : v[x] = q[i + x]
  BY <1>1, <1>2
<1>5. r = u \o v  BY <1>1 DEF Pages!RemoveAt
<1> HIDE DEF u, v
<1>6. /\ r \in Seq(S) /\ Len(r) = n - 1
      /\ \A x \in 1..(n - 1) : r[x] = IF x < i THEN q[x] ELSE q[x + 1]
  <2>1. /\ r \in Seq(S) /\ Len(r) = Len(u) + Len(v)
        /\ \A x \in 1..(Len(u) + Len(v)) : r[x] = IF x <= Len(u) THEN u[x] ELSE v[x - Len(u)]
    <3>1. u \in Seq(S) /\ v \in Seq(S)  BY <1>3, <1>4
    <3>2. /\ u \o v \in Seq(S)
          /\ Len(u \o v) = Len(u) + Len(v)
          /\ \A x \in 1..(Len(u) + Len(v)) :
                (u \o v)[x] = IF x <= Len(u) THEN u[x] ELSE v[x - Len(u)]
      BY <3>1, ConcatProperties, Zenon
    <3> QED  BY <3>2, <1>5, Zenon
  <2>2. Len(u) + Len(v) = n - 1  BY <1>2, <1>3, <1>4
  <2> SUFFICES ASSUME NEW x \in 1..(n - 1)
               PROVE  r[x] = IF x < i THEN q[x] ELSE q[x + 1]
    BY <2>1, <2>2
  <2>3. r[x] = IF x <= i - 1 THEN u[x] ELSE v[x - (i - 1)]  BY <2>1, <2>2, <1>3
  <2>4. CASE x < i
    <3>1. x <= i - 1 /\ x \in 1..(i - 1)  BY <1>2, <2>4
    <3> QED  BY <3>1, <2>3, <2>4, <1>3
  <2>5. CASE ~ (x < i)
    <3>1. ~ (x <= i - 1) /\ x - (i - 1) \in 1..(n - i)  BY <1>2, <2>5
    <3>2. i + (x - (i - 1)) = x + 1  BY <1>2
    <3>3. v[x - (i - 1)] = q[i + (x - (i - 1))]  BY <3>1, <1>4
    <3> QED  BY <3>1, <3>2, <3>3, <2>3, <2>5
  <2> QED  BY <2>4, <2>5
<1>7. DOMAIN r = 1..(n - 1)  BY <1>6, LenProperties
<1> DEFINE f(x) == IF x < i THEN x ELSE x + 1
<1>8. \A x \in DOMAIN r : f(x) \in DOMAIN q /\ f(x) # i /\ r[x] = q[f(x)]
  BY <1>1, <1>2, <1>6, <1>7
<1>9. \A x, y \in DOMAIN r : f(x) = f(y) => x = y  BY <1>2, <1>7
<1>10. \A y \in DOMAIN q \ {i} : \E x \in DOMAIN r : r[x] = q[y]
  <2> TAKE y \in DOMAIN q \ {i}
  <2>1. y \in 1..n /\ y # i  BY <1>1
  <2>2. CASE y < i
    <3>1. y \in 1..(n - 1)  BY <1>2, <2>1, <2>2
    <3>2. r[y] = q[y]  BY <1>6, <2>2, <3>1
    <3> QED  BY <1>7, <3>1, <3>2
  <2>3. CASE y > i
    <3>1. y - 1 \in 1..(n - 1) /\ ~ (y - 1 < i) /\ y - 1 + 1 = y  BY <1>2, <2>1, <2>3
    <3> QED  BY <1>6, <1>7, <3>1
  <2> QED  BY <1>2, <2>1, <2>2, <2>3
<1> HIDE DEF f
<1>11. \A x \in DOMAIN r : \E y \in DOMAIN q : r[x] = q[y]  BY <1>8
<1>12. \A what : OutOf(r, what) => OutOf(q, what)  BY <1>8 DEF OutOf
<1>13. \A what : OutOf(q, what) /\ q[i].what # what => OutOf(r, what)  BY <1>10 DEF OutOf
<1>14. Single(q) => Single(r) /\ (q[i].what # "pine" => ~ OutOf(r, q[i].what))
  BY <1>8, <1>9 DEF OutOf, Single
<1> QED  BY <1>6, <1>11, <1>12, <1>13, <1>14

-----------------------------------------------------------------------------
(* The detail page.  While nobody hurries, what is in flight is about the  *)
(* open run and, for trades, about the chosen sizing, and no question but  *)
(* for a script is asked twice.  A run that is still out shows "loading"   *)
(* and no script was asked for; trades that are out are not shown; and a   *)
(* loaded run whose script is out has a spec.                              *)
DetailAsks == [what : {"run", "trades", "pine"}, run : DOMAIN Kinds, sizing : Sizings \cup {"nothing"}]

DetailShape ==
    /\ DOMAIN detail = {"run", "title", "params", "cards", "metrics", "trades", "table",
                        "charts", "recalc", "pine", "source"}
    /\ detail.run \in DOMAIN Kinds \cup {"nothing"}
    /\ detail.recalc \in BOOLEAN /\ detail.pine \in BOOLEAN
    /\ detailSizing \in Sizings
    /\ requests \in Seq(DetailAsks)

AboutOpen(q, run, sizing) ==
    \A x \in DOMAIN q : q[x].run = run /\ (q[x].what = "trades" => q[x].sizing = sizing)

Accounted ==
    ~ hurried /\ detail.run # "nothing" =>
        /\ AboutOpen(requests, detail.run, detailSizing)
        /\ Single(requests)
        /\ OutOf(requests, "run") => detail.title = "loading" /\ ~ OutOf(requests, "pine")
        /\ OutOf(requests, "trades") => detail.metrics = << >> /\ detail.table = << >>
        /\ detail.title = detail.run /\ OutOf(requests, "pine") => Kinds[detail.run].spec

DetailInv == DetailShape /\ Accounted /\ Pages!DetailFits

LEMMA Opened ==
    ASSUME DetailInv, NEW run \in DOMAIN Kinds, Pages!OpenRunDetail(run)
    PROVE  DetailInv'
<1>1. /\ DOMAIN detail' = DOMAIN detail
      /\ detail'.run = run /\ detail'.title = "loading"
      /\ detail'.params = "nothing" /\ detail'.cards = "nothing"
      /\ detail'.metrics = << >> /\ detail'.trades = << >>
      /\ detail'.table = << >> /\ detail'.charts = << >>
      /\ detail'.recalc = TRUE /\ detail'.pine = detail.pine
  BY DEF DetailInv, DetailShape, Pages!OpenRunDetail, Pages!Blanked, Pages!Nothing, Pages!NoView
<1> DEFINE a == [what |-> "run", run |-> run, sizing |-> "nothing"]
<1>2. requests' = Append(requests, a) /\ detailSizing' = detailSizing
  BY DEF Pages!OpenRunDetail, Pages!Ask, Pages!Asked, Pages!Nothing
<1>3. a \in DetailAsks  BY DEF DetailAsks
<1>4. PICK q \in Seq(DetailAsks) : q = requests  BY DEF DetailInv, DetailShape
<1>5. PICK r : r = requests'  OBVIOUS
<1> HIDE DEF a
<1>6. r = Added(q, a)  BY <1>2, <1>4, <1>5 DEF Added
<1>7. /\ r \in Seq(DetailAsks)
      /\ \A x \in DOMAIN r : r[x] = a \/ \E y \in DOMAIN q : r[x] = q[y]
      /\ \A what : OutOf(r, what) <=> (OutOf(q, what) \/ a.what = what)
      /\ Single(q) /\ (a.what = "pine" \/ ~ OutOf(q, a.what)) => Single(r)
  BY <1>3, <1>6, AskedFor
<1>8. DetailShape'  BY <1>1, <1>2, <1>5, <1>7 DEF DetailInv, DetailShape
<1>9. a.run = run /\ a.what = "run"  BY DEF a
<1>10. ASSUME ~ hurried' PROVE q = << >>
  <2>1. hurried' = (requests # << >>)  BY DEF Pages!OpenRunDetail
  <2> QED  BY <1>4, <1>10, <2>1, Zenon
<1>11. q = << >> => Single(q) /\ (\A what : ~ OutOf(q, what)) /\ DOMAIN q = {}
  BY DEF Single, OutOf
<1>12. ASSUME ~ hurried'
       PROVE  /\ AboutOpen(r, run, detailSizing) /\ Single(r)
              /\ ~ OutOf(r, "trades") /\ ~ OutOf(r, "pine")
  BY <1>7, <1>9, <1>10, <1>11, <1>12 DEF AboutOpen
<1>13. Accounted'  BY <1>1, <1>2, <1>5, <1>12 DEF Accounted
<1>14. run # "loading"  BY KindsAssumption
<1>15. ~ hurried' => ~ Pages!Out("trades")'
  BY <1>5, <1>12 DEF Pages!Out, OutOf
<1>16. Pages!DetailFits'
  <2> SUFFICES ASSUME ~ hurried' PROVE Pages!DetailFits'  BY DEF Pages!DetailFits
  <2>1. {detail'.params, detail'.cards, detail'.title}
            \subseteq {"nothing", "loading", "error", "undefined", detail'.run}
    BY <1>1
  <2>2. detail'.recalc <=> ~ Pages!Out("trades")'  BY <1>1, <1>15
  <2> QED
    BY <1>1, <1>14, <2>1, <2>2
    DEF Pages!DetailFits, Pages!Exported, Pages!NoView, Pages!Nothing
<1> QED  BY <1>8, <1>13, <1>16 DEF DetailInv

LEMMA TradesAsked ==
    ASSUME DetailInv, NEW sizing \in Sizings, detail.run # "nothing",
           Pages!RecalcRun(sizing), detailSizing' = sizing
    PROVE  DetailInv'
<1>1. /\ DOMAIN detail' = DOMAIN detail
      /\ detail'.run = detail.run /\ detail'.title = detail.title
      /\ detail'.params = detail.params /\ detail'.cards = detail.cards
      /\ detail'.metrics = << >> /\ detail'.trades = detail.trades
      /\ detail'.table = << >> /\ detail'.charts = detail.charts
      /\ detail'.recalc = FALSE /\ detail'.pine = detail.pine /\ detail'.source = detail.source
  BY DEF DetailInv, DetailShape, Pages!RecalcRun, Pages!NoView
<1> DEFINE a == [what |-> "trades", run |-> detail.run, sizing |-> sizing]
<1>2. requests' = Append(requests, a)  BY DEF Pages!RecalcRun, Pages!Ask, Pages!Asked
<1>3. a \in DetailAsks  BY DEF DetailAsks, DetailInv, DetailShape
<1>4. PICK q \in Seq(DetailAsks) : q = requests  BY DEF DetailInv, DetailShape
<1>5. PICK r : r = requests'  OBVIOUS
<1>6. PICK b \in DetailAsks : b = a  BY <1>3
<1>7. b.run = detail.run /\ b.what = "trades" /\ b.sizing = sizing  BY <1>6
<1> HIDE DEF a
<1>8. r = Added(q, b)  BY <1>2, <1>4, <1>5, <1>6 DEF Added
<1>9. /\ r \in Seq(DetailAsks)
      /\ \A x \in DOMAIN r : r[x] = b \/ \E y \in DOMAIN q : r[x] = q[y]
      /\ \A what : OutOf(r, what) <=> (OutOf(q, what) \/ b.what = what)
      /\ Single(q) /\ (b.what = "pine" \/ ~ OutOf(q, b.what)) => Single(r)
  BY <1>8, AskedFor
<1>10. DetailShape'  BY <1>1, <1>5, <1>9 DEF DetailInv, DetailShape
<1>11. SUFFICES ASSUME ~ hurried' PROVE Accounted' /\ Pages!DetailFits'
  BY <1>10 DEF DetailInv, Accounted, Pages!DetailFits
<1>12. ~ hurried /\ ~ OutOf(q, "trades")
  BY <1>4, <1>11 DEF Pages!RecalcRun, Pages!Out, OutOf
<1>13. /\ AboutOpen(q, detail.run, detailSizing) /\ Single(q)
       /\ OutOf(q, "run") => detail.title = "loading" /\ ~ OutOf(q, "pine")
       /\ detail.title = detail.run /\ OutOf(q, "pine") => Kinds[detail.run].spec
  BY <1>4, <1>12 DEF DetailInv, Accounted
<1>14. AboutOpen(r, detail.run, sizing)
  BY <1>7, <1>9, <1>12, <1>13 DEF AboutOpen, OutOf
<1>15. Single(r) /\ OutOf(r, "trades")  BY <1>7, <1>9, <1>12, <1>13
<1>16. \A what : what # "trades" => (OutOf(r, what) <=> OutOf(q, what))  BY <1>7, <1>9
<1>17. Accounted'
  BY <1>1, <1>5, <1>13, <1>14, <1>15, <1>16 DEF Accounted
<1>18. Pages!Out("trades")'  BY <1>5, <1>15 DEF Pages!Out, OutOf
<1>19. Pages!DetailFits'
  BY <1>1, <1>12, <1>18 DEF DetailInv, Pages!DetailFits, Pages!Exported, Pages!NoView, Pages!Nothing
<1> QED  BY <1>17, <1>19

LEMMA ScriptAsked ==
    ASSUME DetailInv, Pages!GeneratePine
    PROVE  DetailInv'
<1>1. /\ DOMAIN detail' = DOMAIN detail
      /\ detail'.run = detail.run /\ detail'.title = detail.title
      /\ detail'.params = detail.params /\ detail'.cards = detail.cards
      /\ detail'.metrics = detail.metrics /\ detail'.trades = detail.trades
      /\ detail'.table = detail.table /\ detail'.charts = detail.charts
      /\ detail'.recalc = detail.recalc /\ detail'.pine = FALSE /\ detail'.source = "nothing"
  BY DEF DetailInv, DetailShape, Pages!GeneratePine, Pages!Nothing
<1> DEFINE a == [what |-> "pine", run |-> detail.run, sizing |-> "nothing"]
<1>2. requests' = Append(requests, a) /\ detailSizing' = detailSizing /\ detail.run # "nothing"
  BY DEF Pages!GeneratePine, Pages!Ask, Pages!Asked, Pages!Nothing
<1>3. a \in DetailAsks  BY <1>2 DEF DetailAsks, DetailInv, DetailShape
<1>4. PICK q \in Seq(DetailAsks) : q = requests  BY DEF DetailInv, DetailShape
<1>5. PICK r : r = requests'  OBVIOUS
<1>6. PICK b \in DetailAsks : b = a  BY <1>3
<1>7. b.run = detail.run /\ b.what = "pine"  BY <1>6
<1> HIDE DEF a
<1>8. r = Added(q, b)  BY <1>2, <1>4, <1>5, <1>6 DEF Added
<1>9. /\ r \in Seq(DetailAsks)
      /\ \A x \in DOMAIN r : r[x] = b \/ \E y \in DOMAIN q : r[x] = q[y]
      /\ \A what : OutOf(r, what) <=> (OutOf(q, what) \/ b.what = what)
      /\ Single(q) /\ (b.what = "pine" \/ ~ OutOf(q, b.what)) => Single(r)
  BY <1>8, AskedFor
<1>10. DetailShape'  BY <1>1, <1>2, <1>5, <1>9 DEF DetailInv, DetailShape
<1>11. SUFFICES ASSUME ~ hurried' PROVE Accounted' /\ Pages!DetailFits'
  BY <1>10 DEF DetailInv, Accounted, Pages!DetailFits
<1>12. ~ hurried /\ ~ OutOf(q, "run")
  BY <1>4, <1>11 DEF Pages!GeneratePine, Pages!Out, OutOf
<1>13. /\ AboutOpen(q, detail.run, detailSizing) /\ Single(q)
       /\ OutOf(q, "trades") => detail.metrics = << >> /\ detail.table = << >>
  BY <1>2, <1>4, <1>12 DEF DetailInv, Accounted
<1>14. AboutOpen(r, detail.run, detailSizing)
  BY <1>7, <1>9, <1>13 DEF AboutOpen
<1>15. Single(r) /\ ~ OutOf(r, "run")  BY <1>7, <1>9, <1>12, <1>13
<1>16. \A what : what # "pine" => (OutOf(r, what) <=> OutOf(q, what))  BY <1>7, <1>9
<1>17. Pages!DetailFits /\ detail.pine
  BY DEF DetailInv, Pages!GeneratePine
<1>18. detail.title = detail.run => Kinds[detail.run].spec
  BY <1>2, <1>12, <1>17 DEF Pages!DetailFits, Pages!Nothing
<1>19. Accounted'
  BY <1>1, <1>2, <1>5, <1>13, <1>14, <1>15, <1>16, <1>18 DEF Accounted
<1>20. Pages!Out("trades")' <=> Pages!Out("trades")
  BY <1>4, <1>5, <1>16 DEF Pages!Out, OutOf
<1>21. Pages!DetailFits'
  BY <1>1, <1>2, <1>12, <1>17, <1>20
  DEF Pages!DetailFits, Pages!Exported, Pages!NoView, Pages!Nothing, Pages!View, Pages!TradesOf
<1> QED  BY <1>19, <1>21

(* What each answer leaves of the page. *)
RestOfPage == /\ DOMAIN detail' = DOMAIN detail /\ detail'.run = detail.run
              /\ detail'.trades = detail.trades /\ detail'.charts = detail.charts

LEMMA RunAnswered ==
    ASSUME DetailShape, NEW i \in DOMAIN requests, Pages!Arrive(i), requests[i].what = "run"
    PROVE  /\ RestOfPage
           /\ detail'.metrics = detail.metrics /\ detail'.table = detail.table
           /\ detail'.recalc = detail.recalc
           /\ \/ /\ detail'.title = requests[i].run /\ detail'.source = "nothing"
                 /\ detail'.pine = Kinds[requests[i].run].spec
                 /\ {detail'.params, detail'.cards} \subseteq {"nothing", requests[i].run}
              \/ /\ detail'.title = "error" /\ detail'.pine = detail.pine
                 /\ detail'.params = detail.params /\ detail'.cards = detail.cards
              \/ /\ detail'.title = "undefined" /\ detail'.pine = FALSE
                 /\ {detail'.params, detail'.cards} \subseteq {"nothing"}
<1>1. \/ detail' = Pages!Loaded(requests[i].run)
      \/ detail' \in Pages!Errors(requests[i])
  BY DEF Pages!Arrive, Pages!Answered
<1>2. CASE detail' = Pages!Loaded(requests[i].run)
  <2>1. \A c, x : Pages!If(c, x) \in {"nothing", x}  BY DEF Pages!If, Pages!Nothing
  <2> QED  BY <1>2, <2>1 DEF Pages!Loaded, Pages!Nothing, DetailShape, RestOfPage
<1>3. CASE detail' \in Pages!Errors(requests[i])
  BY <1>3 DEF Pages!Errors, Pages!Nothing, DetailShape, RestOfPage
<1> QED  BY <1>1, <1>2, <1>3

LEMMA TradesAnswered ==
    ASSUME DetailShape, NEW i \in DOMAIN requests, Pages!Arrive(i), requests[i].what = "trades"
    PROVE  /\ DOMAIN detail' = DOMAIN detail /\ detail'.run = detail.run
           /\ detail'.title = detail.title /\ detail'.params = detail.params
           /\ detail'.cards = detail.cards /\ detail'.pine = detail.pine
           /\ detail'.source = detail.source /\ detail'.recalc = TRUE
           /\ \/ LET v == Pages!View(requests[i].run, requests[i].sizing)
                 IN  /\ detail'.metrics = v /\ detail'.charts = v
                     /\ detail'.trades = Pages!TradesOf(v)
                     /\ detail'.table = IF Kinds[requests[i].run].traded THEN v ELSE detail.table
              \/ /\ detail'.metrics = detail.metrics /\ detail'.charts = detail.charts
                 /\ detail'.trades = detail.trades /\ detail'.table = detail.table
<1>1. \/ detail' = Pages!Recalculated(requests[i].run, requests[i].sizing)
      \/ detail' \in Pages!Errors(requests[i])
  BY DEF Pages!Arrive, Pages!Answered
<1>2. CASE detail' = Pages!Recalculated(requests[i].run, requests[i].sizing)
  BY <1>2 DEF Pages!Recalculated, DetailShape
<1>3. CASE detail' \in Pages!Errors(requests[i])
  BY <1>3 DEF Pages!Errors, DetailShape
<1> QED  BY <1>1, <1>2, <1>3

LEMMA ScriptAnswered ==
    ASSUME DetailShape, NEW i \in DOMAIN requests, Pages!Arrive(i), requests[i].what = "pine"
    PROVE  /\ RestOfPage
           /\ detail'.metrics = detail.metrics /\ detail'.table = detail.table
           /\ detail'.recalc = detail.recalc
           /\ detail'.title = detail.title /\ detail'.params = detail.params
           /\ detail'.cards = detail.cards /\ detail'.pine = TRUE
           /\ \/ detail'.source = requests[i].run /\ Kinds[requests[i].run].spec
              \/ detail'.source = detail.source
<1>1. \/ /\ detail' = [detail EXCEPT !.pine = TRUE, !.source = requests[i].run]
         /\ Kinds[requests[i].run].spec
      \/ detail' \in Pages!Errors(requests[i])
  BY DEF Pages!Arrive, Pages!Answered, Pages!Refused, Pages!Scriptless
<1> QED  BY <1>1 DEF Pages!Errors, DetailShape, RestOfPage

LEMMA DetailAnswered ==
    ASSUME DetailInv, NEW i \in DOMAIN requests, Pages!Arrive(i)
    PROVE  DetailInv'
<1>1. PICK q \in Seq(DetailAsks) : q = requests  BY DEF DetailInv, DetailShape
<1>2. PICK r : r = requests'  OBVIOUS
<1>3. i \in DOMAIN q /\ r = Pages!RemoveAt(q, i)  BY <1>1, <1>2 DEF Pages!Arrive
<1>4. PICK b \in DetailAsks : b = q[i]  BY <1>1, <1>3, LenProperties, ElementOfSeq
<1>5. /\ b = requests[i] /\ b.what \in {"run", "trades", "pine"}
      /\ b.run \in DOMAIN Kinds /\ Kinds[b.run].spec \in BOOLEAN
  BY <1>1, <1>4, KindsAssumption DEF DetailAsks
<1>6. /\ r \in Seq(DetailAsks)
      /\ \A x \in DOMAIN r : \E y \in DOMAIN q : r[x] = q[y]
      /\ \A what : OutOf(r, what) => OutOf(q, what)
      /\ \A what : OutOf(q, what) /\ b.what # what => OutOf(r, what)
      /\ Single(q) => Single(r) /\ (b.what # "pine" => ~ OutOf(r, b.what))
  BY <1>3, <1>4, Taken
<1>7. OutOf(q, b.what)  BY <1>3, <1>4 DEF OutOf
<1>8. UNCHANGED <<detailSizing, hurried>>  BY DEF Pages!Arrive
<1>9. DetailShape  BY DEF DetailInv
<1>10. DetailShape'
  <2>1. DOMAIN detail' = DOMAIN detail /\ detail'.run = detail.run
        /\ detail'.recalc \in BOOLEAN /\ detail'.pine \in BOOLEAN
    <3>1. CASE b.what = "run"
      BY <1>5, <1>9, <3>1, RunAnswered DEF DetailShape, RestOfPage
    <3>2. CASE b.what = "trades"
      BY <1>5, <1>9, <3>2, TradesAnswered DEF DetailShape
    <3>3. CASE b.what = "pine"
      BY <1>5, <1>9, <3>3, ScriptAnswered DEF DetailShape, RestOfPage
    <3> QED  BY <1>5, <3>1, <3>2, <3>3
  <2> QED  BY <1>2, <1>6, <1>8, <1>9, <2>1 DEF DetailShape
<1>11. SUFFICES ASSUME ~ hurried, detail.run # "nothing", detail'.run = detail.run
                PROVE  Accounted' /\ Pages!DetailFits'
  <2>1. detail'.run = detail.run
    <3>1. CASE b.what = "run"  BY <1>5, <1>9, <3>1, RunAnswered DEF RestOfPage
    <3>2. CASE b.what = "trades"  BY <1>5, <1>9, <3>2, TradesAnswered
    <3>3. CASE b.what = "pine"  BY <1>5, <1>9, <3>3, ScriptAnswered DEF RestOfPage
    <3> QED  BY <1>5, <3>1, <3>2, <3>3
  <2> QED  BY <1>8, <1>10, <2>1 DEF DetailInv, Accounted, Pages!DetailFits, Pages!Nothing
<1>12. /\ AboutOpen(q, detail.run, detailSizing) /\ Single(q)
       /\ OutOf(q, "run") => detail.title = "loading" /\ ~ OutOf(q, "pine")
       /\ OutOf(q, "trades") => detail.metrics = << >> /\ detail.table = << >>
       /\ detail.title = detail.run /\ OutOf(q, "pine") => Kinds[detail.run].spec
  BY <1>1, <1>11 DEF DetailInv, Accounted
<1>13. b.run = detail.run /\ (b.what = "trades" => b.sizing = detailSizing)
  BY <1>3, <1>4, <1>12 DEF AboutOpen
<1>14. AboutOpen(r, detail.run, detailSizing)  BY <1>6, <1>12 DEF AboutOpen
<1>15. detail.run \in DOMAIN Kinds /\ detail.run \notin {"loading", "error", "undefined"}
  BY <1>5, <1>13, KindsAssumption
<1>16. Pages!DetailFits  BY DEF DetailInv
<1>17. (Pages!Out("trades") <=> OutOf(q, "trades")) /\ (Pages!Out("trades")' <=> OutOf(r, "trades"))
  BY <1>1, <1>2 DEF Pages!Out, OutOf
<1>18. CASE b.what = "run"
  <2>1. ~ OutOf(r, "run") /\ ~ OutOf(r, "pine")  BY <1>6, <1>7, <1>12, <1>18
  <2>2. OutOf(q, "trades") <=> OutOf(r, "trades")  BY <1>6, <1>18
  <2>3. Accounted'
    BY <1>2, <1>5, <1>6, <1>8, <1>9, <1>11, <1>12, <1>14, <1>18, <2>1, <2>2, RunAnswered
    DEF Accounted, RestOfPage
  <2>4. Pages!DetailFits'
    BY <1>5, <1>8, <1>9, <1>11, <1>13, <1>15, <1>16, <1>17, <1>18, <2>2, RunAnswered
    DEF RestOfPage, Pages!DetailFits, Pages!Exported, Pages!NoView, Pages!Nothing,
        Pages!View, Pages!TradesOf
  <2> QED  BY <2>3, <2>4
<1>19. CASE b.what = "trades"
  <2>1. ~ OutOf(r, "trades")  BY <1>6, <1>12, <1>19
  <2>2. \A what : what # "trades" => (OutOf(q, what) <=> OutOf(r, what))  BY <1>6, <1>19
  <2>3. Accounted'
    BY <1>2, <1>5, <1>6, <1>8, <1>9, <1>11, <1>12, <1>14, <1>19, <2>1, <2>2, TradesAnswered
    DEF Accounted
  <2>4. Pages!DetailFits'
    <3>1. /\ detail'.title = detail.title /\ detail'.params = detail.params
          /\ detail'.cards = detail.cards /\ detail'.pine = detail.pine
          /\ detail'.source = detail.source /\ detail'.recalc = TRUE
      BY <1>5, <1>9, <1>19, TradesAnswered
    <3>2. detail.metrics = << >> /\ detail.table = << >>  BY <1>7, <1>12, <1>19
    <3>3. PICK v : v = Pages!View(detail.run, detailSizing)  OBVIOUS
    <3>4. v[1] = detail.run /\ v # << >>  BY <3>3 DEF Pages!View
    <3>5. PICK list : list = Pages!TradesOf(v)  OBVIOUS
    <3>6. list = (IF Kinds[detail.run].traded THEN v ELSE << >>) /\ (list = v \/ list = << >>)
      BY <3>4, <3>5 DEF Pages!TradesOf, Pages!NoView
    <3>7. \/ /\ detail'.metrics = v /\ detail'.charts = v /\ detail'.trades = list
             /\ detail'.table = list
          \/ /\ detail'.metrics = << >> /\ detail'.charts = detail.charts
             /\ detail'.trades = detail.trades /\ detail'.table = << >>
      BY <1>5, <1>9, <1>13, <1>19, <3>2, <3>3, <3>5, <3>6, TradesAnswered
    <3>10. /\ {detail'.params, detail'.cards, detail'.title} \subseteq
                 {Pages!Nothing, "loading", "error", "undefined", detail'.run}
           /\ detail'.title = detail'.run =>
                  /\ detail'.source \in {Pages!Nothing, detail'.run}
                  /\ detail'.pine => Kinds[detail'.run].spec
           /\ detail'.recalc <=> ~ Pages!Out("trades")'
      BY <1>11, <1>16, <1>17, <2>1, <3>1 DEF Pages!DetailFits, Pages!Nothing
    <3>8. CASE detail'.metrics = v
      <4>1. detail'.charts = v /\ detail'.trades = list /\ detail'.table = list
        BY <3>4, <3>7, <3>8
      <4>2. /\ detail'.metrics = Pages!View(detail'.run, detailSizing')
            /\ detail'.trades = Pages!TradesOf(detail'.metrics)
            /\ detail'.table = detail'.trades
        BY <1>8, <1>11, <3>3, <3>5, <3>8, <4>1
      <4>3. detail'.charts[1] = detail'.run  BY <1>11, <3>4, <4>1
      <4>4. Pages!Exported.list' # Pages!NoView => Pages!Exported.list'[1] = Pages!Exported.name'
        BY <1>11, <3>4, <3>6, <4>1 DEF Pages!Exported, Pages!NoView
      <4>5. detail'.table # Pages!NoView => detail'.table = detail'.metrics
        BY <3>6, <3>8, <4>1 DEF Pages!NoView
      <4> QED  BY <3>8, <3>10, <4>1, <4>2, <4>3, <4>4, <4>5 DEF Pages!DetailFits
    <3>9. CASE detail'.metrics = << >>
      <4>1. detail'.charts = detail.charts /\ detail'.trades = detail.trades /\ detail'.table = << >>
        BY <3>4, <3>7, <3>9
      <4> QED
        BY <1>8, <1>11, <1>16, <1>17, <2>1, <3>1, <3>9, <4>1
        DEF Pages!DetailFits, Pages!Exported, Pages!NoView, Pages!Nothing
    <3> QED  BY <3>7, <3>8, <3>9
  <2> QED  BY <2>3, <2>4
<1>20. CASE b.what = "pine"
  <2>1. \A what : what # "pine" => (OutOf(q, what) <=> OutOf(r, what))  BY <1>6, <1>20
  <2>2. Accounted'
    BY <1>2, <1>5, <1>6, <1>7, <1>8, <1>9, <1>11, <1>12, <1>14, <1>20, <2>1, ScriptAnswered
    DEF Accounted, RestOfPage
  <2>3. Pages!DetailFits'
    <3>1. /\ detail'.trades = detail.trades /\ detail'.charts = detail.charts
          /\ detail'.metrics = detail.metrics /\ detail'.table = detail.table
          /\ detail'.recalc = detail.recalc /\ detail'.title = detail.title
          /\ detail'.params = detail.params /\ detail'.cards = detail.cards
          /\ detail'.source \in {detail.run, detail.source}
      BY <1>5, <1>9, <1>13, <1>20, ScriptAnswered DEF RestOfPage
    <3>2. Pages!Out("trades")' <=> Pages!Out("trades")  BY <1>17, <2>1
    <3>3. detail.title = detail.run => Kinds[detail.run].spec
      BY <1>7, <1>12, <1>20
    <3>4. detail.title = detail.run => detail'.source \in {Pages!Nothing, detail.run}
      BY <1>8, <1>11, <1>16, <3>1 DEF Pages!DetailFits, Pages!Nothing
    <3> QED
      BY <1>8, <1>11, <1>16, <3>1, <3>2, <3>3, <3>4
      DEF Pages!DetailFits, Pages!Exported, Pages!Nothing
  <2> QED  BY <2>2, <2>3
<1> QED  BY <1>5, <1>18, <1>19, <1>20


(* The compare page.  While nobody hurries, only the pair in the title is  *)
(* asked for, once, and until it is there nothing is warned of.            *)
PairAsks == [what : {"pair"}, run : (DOMAIN Kinds) \X (DOMAIN Kinds), sizing : {"nothing"}]

PairShape == /\ DOMAIN pair = {"title", "columns", "missing", "mismatch"}
             /\ requests \in Seq(PairAsks)

PairAccounted ==
    ~ hurried /\ pair.title # << >> =>
        /\ \A x \in DOMAIN requests : requests[x].run = pair.title
        /\ Single(requests)
        /\ OutOf(requests, "pair") => pair.missing = {} /\ pair.mismatch = FALSE

PairInv == PairShape /\ PairAccounted /\ Pages!PairFits

LEMMA PairAsked ==
    ASSUME PairInv, NEW one \in DOMAIN Kinds, NEW other \in DOMAIN Kinds, Pages!OpenCompare(one, other)
    PROVE  PairInv'
<1>1. /\ DOMAIN pair' = DOMAIN pair /\ pair'.title = <<one, other>>
      /\ pair'.missing = {} /\ pair'.mismatch = FALSE
  BY DEF PairInv, PairShape, Pages!OpenCompare
<1> DEFINE a == [what |-> "pair", run |-> <<one, other>>, sizing |-> "nothing"]
<1>2. requests' = Append(requests, a)
  BY DEF Pages!OpenCompare, Pages!Ask, Pages!Asked, Pages!Nothing
<1>3. a \in PairAsks
  <2>1. <<one, other>> \in (DOMAIN Kinds) \X (DOMAIN Kinds)  OBVIOUS
  <2> QED  BY <2>1 DEF PairAsks
<1>4. PICK q \in Seq(PairAsks) : q = requests  BY DEF PairInv, PairShape
<1>5. PICK r : r = requests'  OBVIOUS
<1>6. PICK b \in PairAsks : b = a  BY <1>3
<1>7. b.run = <<one, other>> /\ b.what = "pair"  BY <1>6
<1> HIDE DEF a
<1>8. r = Added(q, b)  BY <1>2, <1>4, <1>5, <1>6 DEF Added
<1>9. /\ r \in Seq(PairAsks)
      /\ \A x \in DOMAIN r : r[x] = b \/ \E y \in DOMAIN q : r[x] = q[y]
      /\ \A what : OutOf(r, what) <=> (OutOf(q, what) \/ b.what = what)
      /\ Single(q) /\ (b.what = "pine" \/ ~ OutOf(q, b.what)) => Single(r)
  BY <1>8, AskedFor
<1>10. PairShape'  BY <1>1, <1>5, <1>9 DEF PairInv, PairShape
<1>11. \A x \in DOMAIN q : q[x].what = "pair"
  <2> TAKE x \in DOMAIN q
  <2>1. q[x] \in PairAsks  BY LenProperties, ElementOfSeq
  <2> QED  BY <2>1 DEF PairAsks
<1>12. ASSUME ~ hurried' PROVE ~ OutOf(q, "pair")
  BY <1>4, <1>12 DEF Pages!OpenCompare, Pages!Out, OutOf
<1>13. ASSUME ~ hurried'
       PROVE  (\A x \in DOMAIN r : r[x].run = <<one, other>>) /\ Single(r)
  BY <1>7, <1>9, <1>11, <1>12, <1>13 DEF OutOf, Single
<1>14. PairAccounted'  BY <1>1, <1>5, <1>13 DEF PairAccounted
<1>15. Pages!Out("pair")'  BY <1>5, <1>7, <1>9 DEF Pages!Out, OutOf
<1>16. Pages!PairFits'  BY <1>15 DEF Pages!PairFits
<1> QED  BY <1>10, <1>14, <1>16 DEF PairInv

LEMMA PairAnswered ==
    ASSUME PairInv, NEW i \in DOMAIN requests, NEW lost \in SUBSET (1..2), Pages!ArrivePair(i, lost)
    PROVE  PairInv'
<1>1. PICK q \in Seq(PairAsks) : q = requests  BY DEF PairInv, PairShape
<1>2. PICK r : r = requests'  OBVIOUS
<1>3. i \in DOMAIN q /\ r = Pages!RemoveAt(q, i)  BY <1>1, <1>2 DEF Pages!ArrivePair
<1>4. PICK b \in PairAsks : b = q[i]  BY <1>1, <1>3, LenProperties, ElementOfSeq
<1>5. b = requests[i] /\ b.what = "pair"  BY <1>1, <1>4 DEF PairAsks
<1>6. /\ r \in Seq(PairAsks)
      /\ \A x \in DOMAIN r : \E y \in DOMAIN q : r[x] = q[y]
      /\ Single(q) => Single(r) /\ (b.what # "pine" => ~ OutOf(r, b.what))
  BY <1>3, <1>4, Taken
<1>7. PICK columns : columns = [c \in 1..2 |-> Pages!If(c \notin lost, b.run[c])]  OBVIOUS
<1> DEFINE missing == {c \in 1..2 : Pages!Scheme(columns[c]) = "nothing"}
       differ == Pages!Scheme(columns[1]) # Pages!Scheme(columns[2])
<1>8. /\ DOMAIN pair' = DOMAIN pair /\ pair'.title = pair.title /\ pair'.columns = columns
      /\ hurried' = hurried
      /\ pair'.missing = IF missing = {} THEN pair.missing ELSE missing
      /\ pair'.mismatch <=> (pair.mismatch \/ (missing = {} /\ differ))
  <2>1. PICK schemes : schemes = [c \in 1..2 |-> Pages!Scheme(columns[c])]  OBVIOUS
  <2>2. /\ pair' = [pair EXCEPT !.columns = columns,
                                !.missing = IF {c \in 1..2 : schemes[c] = "nothing"} = {} THEN @
                                            ELSE {c \in 1..2 : schemes[c] = "nothing"},
                                !.mismatch = @ \/ ({c \in 1..2 : schemes[c] = "nothing"} = {}
                                                    /\ schemes[1] # schemes[2])]
        /\ hurried' = hurried
    BY <1>5, <1>7, <2>1 DEF Pages!ArrivePair, Pages!Nothing
  <2>3. /\ {c \in 1..2 : schemes[c] = "nothing"} = missing
        /\ schemes[1] # schemes[2] <=> differ
    BY <2>1
  <2> HIDE DEF missing, differ
  <2> QED  BY <2>2, <2>3 DEF PairInv, PairShape
<1>9. PairShape'  BY <1>2, <1>6, <1>8 DEF PairInv, PairShape
<1>10. SUFFICES ASSUME ~ hurried, pair.title # << >> PROVE PairAccounted' /\ Pages!PairFits'
  BY <1>8, <1>9 DEF PairInv, PairAccounted, Pages!PairFits
<1>11. /\ b.run = pair.title /\ Single(q)
       /\ \A x \in DOMAIN q : q[x].run = pair.title
       /\ pair.missing = {} /\ pair.mismatch = FALSE
  BY <1>1, <1>3, <1>4, <1>5, <1>10 DEF PairInv, PairAccounted, OutOf
<1>12. ~ OutOf(r, "pair") /\ Single(r)  BY <1>5, <1>6, <1>11
<1>13. PairAccounted'  BY <1>2, <1>6, <1>8, <1>11, <1>12 DEF PairAccounted
<1>14. \A c \in 1..2 : columns[c] \in {"nothing", pair.title[c]}
  BY <1>7, <1>11 DEF Pages!If, Pages!Nothing
<1>15. pair'.missing = missing  BY <1>8, <1>11
<1>16. pair'.mismatch <=> (missing = {} /\ differ)  BY <1>8, <1>11, Zenon
<1>17. Pages!PairFits'
  BY <1>8, <1>14, <1>15, <1>16 DEF Pages!PairFits, Pages!Nothing, Pages!Scheme, Pages!Runs
<1> QED  BY <1>13, <1>17


-----------------------------------------------------------------------------
(* What the detail page and the compare page of the browser show belongs   *)
(* to the run, the sizing and the pair that are open (ui/app.js), for any  *)
(* runs and whatever fails, as long as the user asks for nothing that an   *)
(* answer which is out does not account for.                               *)
THEOREM PagesFitHolds == Spec => []PagesFit
<1> DEFINE Inv == /\ part = "detail" => DetailInv /\ pair.title = << >>
                  /\ part = "compare" => PairInv /\ detail.run = "nothing"
<1>1. Init => Inv
  <2> SUFFICES ASSUME Init, part \in {"detail", "compare"} PROVE Inv  OBVIOUS
  <2>1. Pages!Init  BY DEF Init
  <2>2. /\ requests = << >> /\ pair.title = << >> /\ detail.run = "nothing"
        /\ detail.recalc \in BOOLEAN /\ detail.pine \in BOOLEAN /\ detailSizing \in Sizings
        /\ DOMAIN detail = {"run", "title", "params", "cards", "metrics", "trades", "table",
                            "charts", "recalc", "pine", "source"}
        /\ DOMAIN pair = {"title", "columns", "missing", "mismatch"}
    BY <2>1 DEF Pages!Init, Pages!Nothing
  <2>3. DetailInv
    BY <2>2 DEF DetailInv, DetailShape, Accounted, Pages!DetailFits, Pages!Nothing
  <2>4. PairInv
    BY <2>2 DEF PairInv, PairShape, PairAccounted, Pages!PairFits
  <2> QED  BY <2>2, <2>3, <2>4
<1>2. Inv /\ [Next]_vars => Inv'
  <2> SUFFICES ASSUME Inv, [Next]_vars, part' \in {"detail", "compare"} PROVE Inv'  OBVIOUS
  <2>1. part' = part  BY SamePart
  <2>2. CASE UNCHANGED pages
    BY <2>1, <2>2
    DEF pages, DetailInv, DetailShape, Accounted, Pages!DetailFits, Pages!Exported, Pages!Out,
        PairInv, PairShape, PairAccounted, Pages!PairFits
  <2>3. CASE /\ part = "detail"
             /\ \/ \E run \in Pages!Runs : Pages!OpenRunDetail(run)
                \/ Pages!Recalculate
                \/ \E sizing \in Sizings : Pages!ChooseSizing(sizing)
                \/ Pages!GeneratePine
                \/ \E i \in DOMAIN requests : Pages!Arrive(i)
    <3>1. DetailInv /\ pair.title = << >>  BY <2>3
    <3>2. UNCHANGED pair
      BY <2>3
      DEF Pages!OpenRunDetail, Pages!Recalculate, Pages!ChooseSizing, Pages!GeneratePine, Pages!Arrive
    <3>3. ASSUME NEW run \in Pages!Runs, Pages!OpenRunDetail(run) PROVE DetailInv'
      BY <3>1, <3>3, Opened DEF Pages!Runs
    <3>4. ASSUME Pages!Recalculate PROVE DetailInv'
      <4>1. detailSizing \in Sizings  BY <3>1 DEF DetailInv, DetailShape
      <4>2. PICK sizing \in Sizings : sizing = detailSizing  BY <4>1
      <4>3. /\ Pages!RecalcRun(sizing) /\ detailSizing' = sizing
            /\ detail.run # "nothing"
        BY <3>4, <4>2 DEF Pages!Recalculate, Pages!RecalcRun, Pages!Nothing
      <4> QED  BY <3>1, <4>3, TradesAsked
    <3>5. ASSUME NEW sizing \in Sizings, Pages!ChooseSizing(sizing) PROVE DetailInv'
      <4>1. CASE detail.run = Pages!Nothing
        BY <3>1, <3>5, <4>1
        DEF Pages!ChooseSizing, Pages!Nothing, DetailInv, DetailShape, Accounted, Pages!DetailFits
      <4>2. CASE detail.run # Pages!Nothing
        BY <3>1, <3>5, <4>2, TradesAsked DEF Pages!ChooseSizing, Pages!Nothing
      <4> QED  BY <4>1, <4>2
    <3>6. ASSUME Pages!GeneratePine PROVE DetailInv'
      BY <3>1, <3>6, ScriptAsked
    <3>7. ASSUME NEW i \in DOMAIN requests, Pages!Arrive(i) PROVE DetailInv'
      BY <3>1, <3>7, DetailAnswered
    <3>8. DetailInv'  BY <2>3, <3>3, <3>4, <3>5, <3>6, <3>7
    <3> QED  BY <2>1, <2>3, <3>1, <3>2, <3>8
  <2>4. CASE /\ part = "compare"
             /\ \/ \E a, b \in Pages!Runs : Pages!OpenCompare(a, b)
                \/ \E i \in DOMAIN requests, lost \in SUBSET (1..2) : Pages!ArrivePair(i, lost)
    <3>1. PairInv /\ detail.run = "nothing"  BY <2>4
    <3>2. UNCHANGED detail  BY <2>4 DEF Pages!OpenCompare, Pages!ArrivePair
    <3>3. ASSUME NEW one \in Pages!Runs, NEW other \in Pages!Runs, Pages!OpenCompare(one, other)
          PROVE  PairInv'
      BY <3>1, <3>3, PairAsked DEF Pages!Runs
    <3>4. ASSUME NEW i \in DOMAIN requests, NEW lost \in SUBSET (1..2), Pages!ArrivePair(i, lost)
          PROVE  PairInv'
      BY <3>1, <3>4, PairAnswered
    <3>5. PairInv'  BY <2>4, <3>3, <3>4
    <3> QED  BY <2>1, <2>4, <3>1, <3>2, <3>5
  <2> QED  BY <2>1, <2>2, <2>3, <2>4, PagesAct
<1>3. Inv => PagesFit
  BY DEF PagesFit, DetailInv, PairInv, Pages!DetailFits, Pages!PairFits, Pages!Nothing
<1> QED  BY <1>1, <1>2, <1>3, PTL DEF Spec
=============================================================================
