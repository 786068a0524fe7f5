---------------------------- MODULE CandleStore ----------------------------
(***************************************************************************)
(* Minute candles: data/ingest.js fetches them from Binance in background  *)
(* jobs that the symbol endpoints of api/routes.js start, db/candles.js    *)
(* writes them through one staging table that all jobs share, and a run    *)
(* loads them aggregated to bars (optimizer/runner.js) and looks its       *)
(* fitness cache up by a data set id.                                      *)
(*                                                                         *)
(* Every await of a job is a point where other jobs, the endpoints and a   *)
(* crash come in; a statement executes in one step.  Time is in half       *)
(* minutes: a candle opens at an even number, and Date.now() falls into    *)
(* the middle of the current minute.  The values of a candle are reduced   *)
(* to whether its minute was over when it was fetched.                     *)
(***************************************************************************)
EXTENDS Integers, Sequences, FiniteSets, FiniteSetsExt

CONSTANTS Symbols,      \* traded on Binance since minute Earliest
          Jobs,         \* background jobs that may be active at once
          Limit,        \* KLINE_LIMIT
          Earliest,     \* the first minute Binance has
          Tf,           \* minutes per bar
          Optimized,    \* the symbols that runs are made on
          LastMinute,   \* bound: the clock stops here
          MaxStarts,    \* bound: jobs started
          MaxCached,    \* bound: cache files
          MaxFaults     \* bound: deletions, failed fetches and crashes

ASSUME CandleAssumption == /\ Limit \in Nat \ {0}
                           /\ Tf \in Nat \ {0}
                           /\ Earliest \in Nat
                           /\ LastMinute \in Nat
                           /\ Optimized \subseteq Symbols

VARIABLES minute,       \* the current minute
          candles,      \* table candles: rows [sym, ts, final], key (sym, ts)
          staging,      \* table _candle_staging, of the connection
          job,          \* what each background job is doing
          cache,        \* fitness cache: for each file the data it was computed from;
                        \* deleted (history): rows of its symbol have been since
          starts, faults,
          excused       \* history: keys with a known reason to be missing

vars == <<minute, candles, staging, job, cache, starts, faults, excused>>

Minute == 2
None == -1
Now == Minute * minute + 1
First == Minute * Earliest

Key(row) == <<row.sym, row.ts>>
Keys(rows) == {Key(row) : row \in rows}
Of(rows, sym) == {row \in rows : row.sym = sym}
Times(sym) == {row.ts : row \in Of(candles, sym)}
FirstTs(sym) == IF Times(sym) = {} THEN None ELSE Min(Times(sym))
LastTs(sym) == IF Times(sym) = {} THEN None ELSE Max(Times(sym))

Idle == [pc |-> "idle", kind |-> "", sym |-> "", rest |-> {}, phase |-> "", start |-> 0,
         cursor |-> 0, end |-> 0, batch |-> {}, unread |-> {}, first |-> None, last |-> None,
         now |-> 0]

(* The server starts with an empty table or with what was stored before,   *)
(* all but the first minute.                                               *)
Init ==
    /\ minute = LastMinute - 1
    /\ candles \in {{}, UNION {{[sym |-> sym, ts |-> Minute * m, final |-> TRUE] :
                                    m \in (Earliest + 1)..(minute - 1)} : sym \in Symbols}}
    /\ staging = {}
    /\ job = [j \in Jobs |-> Idle]
    /\ cache = {}
    /\ starts = 0
    /\ faults = 0
    /\ excused = {}

(* What Binance answers: the first Limit candles in a closed interval.     *)
Available(sym) ==
    {[sym |-> sym, ts |-> Minute * m, final |-> m < minute] : m \in Earliest..minute}
Within(sym, from, to) == {row \in Available(sym) : from <= row.ts /\ row.ts <= to}
Klines(sym, from, to) ==
    LET all == Within(sym, from, to)
    IN {row \in all : Cardinality({r \in all : r.ts < row.ts}) < Limit}

(* ------------------------------- the jobs ------------------------------ *)

(* The end of a job: update-all goes on with the next symbol, also after   *)
(* an error.                                                               *)
Ended(w) ==
    IF w.rest = {} THEN Idle
    ELSE LET sym == CHOOSE s \in w.rest : TRUE
         IN [Idle EXCEPT !.pc = "read", !.kind = "update", !.sym = sym,
                         !.rest = w.rest \ {sym}, !.unread = {"first", "last"}]

(* The second phase of an update: from the first stored candle back.       *)
Backfill(w) ==
    IF w.kind = "update" /\ w.phase # "backfill" /\ w.first > First /\ w.first - Minute > First
    THEN [w EXCEPT !.pc = "fetch", !.phase = "backfill", !.start = First,
                   !.cursor = w.first - Minute]
    ELSE Ended(w)

Forward(w) == w.phase = "forward"

(* Mutant of Moved: the next request begins with the last candle.          *)
MovedTooLittle(w) ==
    IF Forward(w) THEN [w EXCEPT !.cursor = Max({row.ts : row \in w.batch})]
    ELSE [w EXCEPT !.cursor = Min({row.ts : row \in w.batch}) - Minute]

(* Mutant of Moved: one minute too far.                                    *)
MovedTooFar(w) ==
    IF Forward(w) THEN [w EXCEPT !.cursor = Max({row.ts : row \in w.batch}) + 2 * Minute]
    ELSE [w EXCEPT !.cursor = Min({row.ts : row \in w.batch}) - 2 * Minute]

(* The cursor after a batch.                                               *)
Moved(w) ==
    IF Forward(w) THEN [w EXCEPT !.cursor = Max({row.ts : row \in w.batch}) + Minute]
    ELSE [w EXCEPT !.cursor = Min({row.ts : row \in w.batch}) - Minute]

(* The condition of the two while loops.                                   *)
Continued(w) ==
    IF IF Forward(w) THEN w.cursor < w.end ELSE w.cursor > w.start
    THEN [w EXCEPT !.pc = "fetch", !.batch = {}]
    ELSE Backfill([w EXCEPT !.batch = {}])

(* Interval of the next request.                                           *)
From(w) == IF Forward(w) THEN w.cursor ELSE Max({w.start, w.cursor - Limit * Minute})
To(w) == IF Forward(w) THEN w.end ELSE w.cursor

Set(j, w) == job' = [job EXCEPT ![j] = w]

Starts(j, w) ==
    /\ job[j].pc = "idle"
    /\ starts < MaxStarts
    /\ starts' = starts + 1
    /\ Set(j, w)
    /\ UNCHANGED <<minute, candles, staging, cache, faults, excused>>

(* POST ingest: all candles from now back to the first one.                *)
StartIngest(j, sym) ==
    Starts(j, Continued([Idle EXCEPT !.kind = "ingest", !.sym = sym, !.phase = "recent",
                                     !.start = First, !.cursor = Now]))

StartUpdate(j, sym) ==
    Starts(j, [Idle EXCEPT !.pc = "read", !.kind = "update", !.sym = sym,
                           !.unread = {"first", "last"}])

StartUpdateAll(j) ==
    LET stored == {sym \in Symbols : Times(sym) # {}}
    IN stored # {} /\ Starts(j, Ended([Idle EXCEPT !.rest = stored]))

(* Promise.all of the two queries: they execute in either order.           *)
Read(j) ==
    /\ job[j].pc = "read"
    /\ \E end \in job[j].unread :
         LET w == job[j]
             value == IF end = "first" THEN FirstTs(w.sym) ELSE LastTs(w.sym)
             unread == w.unread \ {end}
         IN Set(j, [w EXCEPT !.unread = unread,
                             !.first = IF end = "first" THEN value ELSE @,
                             !.last = IF end = "last" THEN value ELSE @,
                             !.pc = IF unread = {} THEN "check" ELSE "read"])
    /\ UNCHANGED <<minute, candles, staging, cache, starts, faults, excused>>

(* Without a stored candle the update throws.  Else the recent gap first,  *)
(* from the last stored candle to now.                                     *)
Check(j) ==
    LET w == [job[j] EXCEPT !.phase = "check", !.now = Now]
    IN /\ w.pc = "check"
       /\ Set(j, IF w.last = None THEN Ended(w)
                 ELSE IF Now - w.last > Minute
                 THEN Continued([w EXCEPT !.phase = "forward", !.cursor = w.last + Minute,
                                          !.end = Now])
                 ELSE Backfill(w))
       /\ UNCHANGED <<minute, candles, staging, cache, starts, faults, excused>>

Unasked(w) == {<<w.sym, ts>> : ts \in {t \in w.start..w.cursor : t % Minute = 0}}

Fetch(j) ==
    LET w == job[j]
        batch == Klines(w.sym, From(w), To(w))
    IN /\ w.pc = "fetch"
       /\ Set(j, IF batch = {} THEN Backfill(w) ELSE [w EXCEPT !.pc = "clear", !.batch = batch])
       /\ excused' = IF Forward(w) THEN excused
                     ELSE excused \union Keys(Within(w.sym, From(w), To(w)) \ batch)
       /\ UNCHANGED <<minute, candles, staging, cache, starts, faults>>

(* An HTTP error ends the update or ingest of this symbol.  (429 only      *)
(* waits: the request is repeated.)                                        *)
FetchFails(j) ==
    LET w == job[j]
    IN /\ w.pc \in {"check", "fetch"}
       /\ faults < MaxFaults
       /\ faults' = faults + 1
       /\ Set(j, Ended(w))
       /\ excused' = IF w.pc = "fetch" /\ ~ Forward(w) THEN excused \union Unasked(w) ELSE excused
       /\ UNCHANGED <<minute, candles, staging, cache, starts>>

(* insertCandles, in three steps.  The staging table belongs to the        *)
(* connection, so the first one removes what another job has appended and  *)
(* not merged yet.                                                         *)
Staged(k) == IF job[k].pc = "merge" THEN Keys(job[k].batch) ELSE {}

Clear(j) ==
    /\ job[j].pc = "clear"
    /\ staging' = {}
    /\ excused' = excused \union UNION {Staged(k) : k \in Jobs \ {j}}
    /\ Set(j, [job[j] EXCEPT !.pc = "append"])
    /\ UNCHANGED <<minute, candles, cache, starts, faults>>

Append2Staging(j) ==
    /\ job[j].pc = "append"
    /\ staging' = staging \union job[j].batch
    /\ Set(j, [job[j] EXCEPT !.pc = "merge"])
    /\ UNCHANGED <<minute, candles, cache, starts, faults, excused>>

(* INSERT OR IGNORE: of the rows with a key that is not there, one each.   *)
Merged(rows) ==
    LET new == {row \in rows : Key(row) \notin Keys(candles)}
        OneEach(s) == \A r, t \in s : Key(r) = Key(t) => r = t
    IN {candles \union one : one \in {s \in SUBSET new : Keys(s) = Keys(new) /\ OneEach(s)}}

Merge(j) ==
    /\ job[j].pc = "merge"
    /\ candles' \in Merged(staging)
    /\ Set(j, Continued(Moved(job[j])))
    /\ UNCHANGED <<minute, staging, cache, starts, faults, excused>>

(* ------------------------------ the others ----------------------------- *)

(* The rows alone: cache files stay.                                       *)
DeleteSymbol(sym) ==
    /\ faults < MaxFaults
    /\ faults' = faults + 1
    /\ candles' = candles \ Of(candles, sym)
    /\ cache' = {[sym |-> c.sym, bars |-> c.bars, deleted |-> c.deleted \/ c.sym = sym] : c \in cache}
    /\ excused' = excused \union Keys(Of(candles, sym))
    /\ UNCHANGED <<minute, staging, job, starts>>

(* The process ends: jobs and staging table are gone.                      *)
Crash ==
    LET Back(w) == w.pc # "idle" /\ w.phase \in {"recent", "backfill"}
    IN /\ faults < MaxFaults
       /\ \E j \in Jobs : job[j].pc # "idle"
       /\ faults' = faults + 1
       /\ job' = [j \in Jobs |-> Idle]
       /\ staging' = {}
       /\ excused' = excused \union UNION {Unasked(job[j]) : j \in {k \in Jobs : Back(job[k])}}
       /\ UNCHANGED <<minute, candles, cache, starts>>

Tick ==
    /\ minute < LastMinute
    /\ minute' = minute + 1
    /\ UNCHANGED <<candles, staging, job, cache, starts, faults, excused>>

(* loadCandles: the rows of every bar that has one.                        *)
BarOf(ts) == ts \div (Minute * Tf)
LoadCandles(sym) ==
    [b \in {BarOf(ts) : ts \in Times(sym)} |-> {row \in Of(candles, sym) : BarOf(row.ts) = b}]

(* Mutant of DatasetId: the last bar alone.                                *)
DatasetIdOfLast(bars) == Max(DOMAIN bars)

(* computeDatasetId: the number of bars and the start of the last one.     *)
DatasetId(bars) == <<Cardinality(DOMAIN bars), Max(DOMAIN bars)>>

(* The cache file a run of the symbol finds.                               *)
Hit(c) == Times(c.sym) # {} /\ DatasetId(LoadCandles(c.sym)) = DatasetId(c.bars)

(* A run that finds no cache file for its data set saves one.              *)
RunCached(sym) ==
    /\ sym \in Optimized
    /\ Times(sym) # {}
    /\ Cardinality(cache) < MaxCached
    /\ ~ \E c \in cache : c.sym = sym /\ Hit(c)
    /\ cache' = cache \union {[sym |-> sym, bars |-> LoadCandles(sym), deleted |-> FALSE]}
    /\ UNCHANGED <<minute, candles, staging, job, starts, faults, excused>>

Works(j) == Read(j) \/ Check(j) \/ Fetch(j) \/ Clear(j) \/ Append2Staging(j) \/ Merge(j)

Next ==
    \/ \E j \in Jobs : \/ Works(j)
                       \/ FetchFails(j)
                       \/ StartUpdateAll(j)
                       \/ \E sym \in Symbols : StartIngest(j, sym) \/ StartUpdate(j, sym)
    \/ \E sym \in Symbols : DeleteSymbol(sym) \/ RunCached(sym)
    \/ Crash
    \/ Tick

(* Statements are executed and requests are answered in the end.           *)
Spec == Init /\ [][Next]_vars /\ \A j \in Jobs : WF_vars(Works(j))

-----------------------------------------------------------------------------
(* A minute that is missing between two stored ones has a reason: a window *)
(* of Limit + 1 minutes lost its last one, a batch was removed from the    *)
(* shared staging table, a backward job was cut off or the rows were       *)
(* deleted; or a backward job has still to ask for it.                     *)
StillAsked(key) ==
    \E j \in Jobs : LET w == job[j] IN
        /\ w.pc \in {"fetch", "clear", "append", "merge"}
        /\ w.phase \in {"recent", "backfill"} => key \in Unasked(w)
        /\ Forward(w) => key \in Keys(w.batch)
HolesHaveACause ==
    \A sym \in Symbols :
        \A ts \in {t \in FirstTs(sym)..LastTs(sym) : t % Minute = 0} \ Times(sym) :
            <<sym, ts>> \in excused \/ StillAsked(<<sym, ts>>)

(* As long as a symbol is not deleted, a bar that is added anywhere - in    *)
(* front, in a hole, at the end - changes the data set id: a cached fitness *)
(* is used for the very bars it was computed from, with no minute less.     *)
AddedBarsMiss ==
    \A c \in cache :
        ~ c.deleted /\ Hit(c) =>
            /\ DOMAIN LoadCandles(c.sym) = DOMAIN c.bars
            /\ \A b \in DOMAIN c.bars : c.bars[b] \subseteq LoadCandles(c.sym)[b]

(* (Does not hold.)  Adding candles invalidates the cache: a cached fitness *)
(* is used for the data it was computed from and for no other.              *)
AddedCandlesMiss == \A c \in cache : Hit(c) => LoadCandles(c.sym) = c.bars

(* Every background job ends.                                              *)
JobsEnd == \A j \in Jobs : job[j].pc # "idle" ~> job[j].pc = "idle"
=============================================================================
