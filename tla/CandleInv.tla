----------------------------- MODULE CandleInv -----------------------------
(***************************************************************************)
(* The inductive invariant of the candle store (CandleStore).              *)
(*                                                                         *)
(* At its heart: the minutes of a symbol that are known - stored, or       *)
(* excused - together with those a backward job has still to ask for leave *)
(* no gap.  A forward job extends them from a known minute, a backward job *)
(* moves minutes from those to be asked for to those that are known, and   *)
(* what is on its way through the staging table is not lost unexcused.     *)
(***************************************************************************)
EXTENDS CandleStore

Even == {Minute * k : k \in Int}
Minutes == {Minute * m : m \in Earliest..minute}
Rows == [sym : Symbols, ts : Minutes, final : BOOLEAN]

Working == {"fetch", "clear", "append", "merge"}
Backward(w) == w.pc \in Working /\ ~ Forward(w)

Known(sym) == Times(sym) \union {t \in Minutes : <<sym, t>> \in excused}
Open(w) == {t \in w.start..w.cursor : t % Minute = 0}
Asked(w, sym) == IF Backward(w) /\ w.sym = sym THEN Open(w) ELSE {}
Covered(sym) == Known(sym) \union UNION {Asked(job[j], sym) : j \in Jobs}

Contiguous(S) == \A a, c \in S : \A b \in Even : a < b /\ b < c => b \in S

-----------------------------------------------------------------------------
Stores ==
    /\ minute \in Int
    /\ candles \subseteq Rows
    /\ staging \subseteq Rows
    /\ excused \subseteq Symbols \X Minutes
    /\ \A r, s \in candles : Key(r) = Key(s) => r = s

(* What a job is doing, and what it has read.                              *)
JobShape(w) ==
    /\ DOMAIN w = DOMAIN Idle
    /\ w.pc \in {"idle", "read", "check"} \union Working
    /\ w.rest \subseteq Symbols
    /\ w.cursor \in Int /\ w.start \in Int /\ w.end \in Int
    /\ w.first \in Int /\ w.last \in Int
    /\ w.batch \subseteq Rows
    /\ w.pc = "idle" => w = Idle
    /\ w.pc # "idle" => w.sym \in Symbols
    /\ w.pc \in {"read", "check"} => w.kind = "update" /\ w.phase = ""
    /\ w.pc = "read" => w.unread \subseteq {"first", "last"}
    /\ w.pc \in Working => \/ w.kind = "ingest" /\ w.phase = "recent"
                           \/ w.kind = "update" /\ w.phase \in {"forward", "backfill"}
    /\ w.pc \notin {"clear", "append", "merge"} => w.batch = {}
    /\ w.pc \in {"clear", "append", "merge"} => w.batch # {}
    /\ \A row \in w.batch : row.sym = w.sym

EndsKnown(w) ==
    w.pc # "idle" => /\ w.first = None \/ w.first \in Known(w.sym)
                     /\ w.last = None \/ w.last \in Known(w.sym)

(* A forward job extends a known minute without a gap.                     *)
ForwardJob(w) ==
    w.pc \in Working /\ Forward(w) =>
        /\ w.cursor - Minute \in Known(w.sym)
        /\ \A row \in w.batch : /\ w.cursor <= row.ts
                                /\ \A t \in Even : w.cursor <= t /\ t <= row.ts =>
                                       \E r \in w.batch : r.ts = t

(* Of what a backward job has to ask for, all from the first row of its    *)
(* batch on is in the batch or excused.                                    *)
BackwardJob(w) ==
    Backward(w) =>
        /\ w.start = First /\ First < w.cursor /\ w.cursor <= Now
        /\ \A row \in w.batch : row.ts <= w.cursor
        /\ \A t \in Open(w) : \/ \E r \in w.batch : r.ts = t
                              \/ <<w.sym, t>> \in excused
                              \/ \A row \in w.batch : t < row.ts

(* The staging table.                                                      *)
BatchStaged(w) == w.pc = "merge" => Keys(w.batch) \subseteq Keys(staging) \union excused
StagedKnown ==
    \A row \in staging : \/ row.ts \in Known(row.sym)
                         \/ \E j \in Jobs : job[j].pc = "merge" /\ Key(row) \in Keys(job[j].batch)

JobInv(w) == JobShape(w) /\ EndsKnown(w) /\ ForwardJob(w) /\ BackwardJob(w) /\ BatchStaged(w)

NoGap == \A sym \in Symbols : Contiguous(Covered(sym))

(* What was cached is still stored, until it is deleted.                   *)
CachedStored ==
    \A c \in cache : ~ c.deleted => \A b \in DOMAIN c.bars :
        /\ c.bars[b] # {}
        /\ c.bars[b] \subseteq {row \in candles : row.sym = c.sym /\ BarOf(row.ts) = b}

Inductive ==
    /\ Stores
    /\ DOMAIN job = Jobs
    /\ \A w \in {job[j] : j \in Jobs} : JobInv(w)
    /\ StagedKnown
    /\ NoGap
    /\ CachedStored
=============================================================================
