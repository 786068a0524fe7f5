------------------------------ MODULE TvBridge ------------------------------
(***************************************************************************)
(* sendToTradingView (api/tradingview.js), the bridge behind               *)
(* POST /api/tv/send: it switches the chart of the one TradingView window  *)
(* to the symbol and resolution of a run, sets the inputs of the strategy  *)
(* that is on it to the run's gene, and reads the report that TradingView  *)
(* computes from then on until it does not change any more.  Requests are  *)
(* not serialized, so two of them may work on the chart at a time, each    *)
(* await of one a chance for the other.                                    *)
(*                                                                         *)
(* TradingView is external.  It is called slow when it has not begun a new *)
(* report within the wait of four seconds, or has shown a part of an       *)
(* unfinished one to three polls of the same request.                      *)
(***************************************************************************)
EXTENDS Integers, Sequences

CONSTANTS Senders,   \* the requests
          Wanted(_), \* the chart that each is about, [symbol, resolution, gene]
          MaxPolls,  \* bound: polls (25 in the code)
          MaxParts   \* bound: parts of a report

VARIABLES
    chart,   \* the chart and the inputs of its strategy
    report,  \* the chart it is about, or an unfinished one, or NoReport
    parts,   \* the parts shown since the chart was changed, or Finished
    looks,   \* per request: how often it has read the part that is shown (2: or more)
    slow,    \* TradingView once was slow
    sender   \* per request: where it is and what it has read

vars == <<chart, report, parts, looks, slow, sender>>
tradingView == <<chart, report, parts, looks, slow>>

Finished == -1
Part(n) == [symbol |-> "unfinished", resolution |-> n, gene |-> 0]
Parts == {Part(n) : n \in 1..MaxParts}
NoReport == [symbol |-> "none", resolution |-> 0, gene |-> 0]
Nothing == [symbol |-> "nothing", resolution |-> 0, gene |-> 0]

Idle == [at |-> "start", info |-> Nothing, last |-> Nothing, metrics |-> Nothing,
         stable |-> 0, polls |-> 0, mixed |-> FALSE]

Init ==
    /\ \E s \in Senders : chart = Wanted(s)
    /\ report = chart
    /\ parts = Finished
    /\ looks = [s \in Senders |-> 0]
    /\ slow = FALSE
    /\ sender = [s \in Senders |-> Idle]

At(s, step) == sender[s].at = step
Goto(s, step) == sender' = [sender EXCEPT ![s].at = step]
Working(s) == sender[s].at \notin {"start", "answered", "failed"}

-----------------------------------------------------------------------------
(* TradingView. *)
Changed(new) ==
    /\ chart' = new
    /\ parts' = IF new = chart THEN parts ELSE 0
    /\ UNCHANGED <<report, looks, slow>>

Recalculate ==
    /\ parts # Finished
    /\ \/ parts < MaxParts /\ parts' = parts + 1 /\ report' \in {Part(parts'), NoReport}
       \/ parts' = Finished /\ report' = chart
    /\ looks' = [s \in Senders |-> 0]
    /\ UNCHANGED <<chart, slow, sender>>

-----------------------------------------------------------------------------
(* What a request changes in the chart, the others that are at work get    *)
(* mixed up with.                                                          *)
Change(s, new, next) ==
    /\ Changed(new)
    /\ sender' = [x \in Senders |->
           IF x = s THEN [sender[x] EXCEPT !.at = next]
           ELSE [sender[x] EXCEPT !.mixed = @ \/ Working(x)]]

Connect(s) ==
    /\ At(s, "start")
    /\ Goto(s, "symbol")
    /\ UNCHANGED tradingView

ReadSymbol(s) ==
    /\ At(s, "symbol")
    /\ Goto(s, IF chart.symbol = Wanted(s).symbol THEN "resolution" ELSE "set symbol")
    /\ UNCHANGED tradingView

SetSymbol(s) ==
    /\ At(s, "set symbol")
    /\ Change(s, [chart EXCEPT !.symbol = Wanted(s).symbol], "resolution")

ReadResolution(s) ==
    /\ At(s, "resolution")
    /\ Goto(s, IF chart.resolution = Wanted(s).resolution THEN "info" ELSE "set resolution")
    /\ UNCHANGED tradingView

SetResolution(s) ==
    /\ At(s, "set resolution")
    /\ Change(s, [chart EXCEPT !.resolution = Wanted(s).resolution], "info")

ReadChart(s) ==
    /\ At(s, "info")
    /\ sender' = [sender EXCEPT ![s].at = "inputs",
                                ![s].info = [symbol |-> chart.symbol, resolution |-> chart.resolution]]
    /\ UNCHANGED tradingView

SetInputs(s) ==
    /\ At(s, "inputs")
    /\ Change(s, [chart EXCEPT !.gene = Wanted(s).gene], "wait")

(* Four seconds. *)
Wait(s) ==
    /\ At(s, "wait")
    /\ Goto(s, "poll")
    /\ slow' = (slow \/ parts = 0)
    /\ UNCHANGED <<chart, report, parts, looks>>

EqualKept(me) == IF report = me.last THEN me.stable + 1 ELSE me.stable   \* mutant of Equal

Equal(me) == IF report = me.last THEN me.stable + 1 ELSE 0
Settled(equal) == equal >= 2

(* The same report three times in a row is taken for the final one, the    *)
(* last one read if there is none.                                         *)
Poll(s) ==
    LET me == sender[s]
        equal == Equal(me)
        read == IF report = NoReport THEN me
                ELSE [me EXCEPT !.last = report, !.stable = equal,
                                !.metrics = IF equal = 0 \/ Settled(equal) THEN report ELSE @]
        ends == (report # NoReport /\ Settled(equal)) \/ me.polls + 1 = MaxPolls
    IN  /\ At(s, "poll")
        /\ sender' = [sender EXCEPT ![s] =
               [read EXCEPT !.polls = me.polls + 1, !.at = IF ends THEN "answered" ELSE "poll"]]
        /\ IF report \in Parts
           THEN looks' = [looks EXCEPT ![s] = IF @ < 2 THEN @ + 1 ELSE 2]
           ELSE UNCHANGED looks
        /\ slow' = (slow \/ (report \in Parts /\ looks[s] = 2))
        /\ UNCHANGED <<chart, report, parts>>

(* No connection, no strategy on the chart, or a timeout of 15 seconds. *)
Fail(s) ==
    /\ Working(s)
    /\ sender' = [sender EXCEPT ![s] = [Idle EXCEPT !.at = "failed"]]
    /\ UNCHANGED tradingView

Next ==
    \/ Recalculate
    \/ \E s \in Senders :
          \/ Connect(s) \/ ReadSymbol(s) \/ SetSymbol(s) \/ ReadResolution(s) \/ SetResolution(s)
          \/ ReadChart(s) \/ SetInputs(s) \/ Wait(s) \/ Poll(s) \/ Fail(s)

Spec == Init /\ [][Next]_vars

-----------------------------------------------------------------------------
(* A request that is answered before its polls run out, while no other one *)
(* changed the chart and TradingView was not slow, is answered with the    *)
(* report of its own gene on its own chart, whatever was on the chart, and *)
(* however the report came about.                                          *)
AnswersAreOwn ==
    \A s \in Senders :
        LET me == sender[s] IN
        me.at = "answered" /\ me.polls < MaxPolls /\ ~ me.mixed /\ ~ slow =>
            /\ me.metrics = Wanted(s)
            /\ me.info = [symbol |-> Wanted(s).symbol, resolution |-> Wanted(s).resolution]

(* The same, however slow TradingView is: that the bridge waits for the    *)
(* recalculation to settle.  It does not hold: the wait is fixed, and what *)
(* three polls find equal may be a part, or the report of the former       *)
(* inputs.                                                                 *)
SettledIsOwn ==
    \A s \in Senders :
        LET me == sender[s] IN
        me.at = "answered" /\ me.polls < MaxPolls /\ ~ me.mixed => me.metrics = Wanted(s)
=============================================================================
