--------------------------- MODULE IslandProofs ---------------------------
(***************************************************************************)
(* What is proved of an optimization run (IslandRun) besides the           *)
(* consistency of its results, for every number of planets, islands,       *)
(* threads and generations and every pace:                                 *)
(*                                                                         *)
(*  - the mutation rates follow the hypermutation events and automatic     *)
(*    events keep their distance;                                          *)
(*  - no batch begins once a cancel has been asked for;                    *)
(*  - the messages and the barrier implement the rounds of IslandRounds    *)
(*    (RoundsSpec).  An island ages where its thread's loop runs a         *)
(*    generation; migrants are sent where the coordinator finds its        *)
(*    barrier complete, and delivered where a thread takes a migrate.      *)
(*    Everything else is a stuttering step of the rounds.                  *)
(***************************************************************************)
EXTENDS IslandConsistency


-----------------------------------------------------------------------------
(* Hypermutation.  Besides the property: the state of an island is well    *)
(* formed, and while no event is active the last one ended with the last   *)
(* boosted generation.                                                     *)
Rates == {"base", "boosted"}

Tracks(h) ==
    /\ DOMAIN h = {"active", "source", "lastEnd", "mutationRate", "perGeneMut"}
    /\ h.active \in Nat
    /\ h.mutationRate \in Rates
    /\ h.active > 0 <=> h.mutationRate = "boosted"
    /\ h.mutationRate = h.perGeneMut
    /\ h.active > 0 <=> h.source # "none"

HyperInv ==
    /\ DOMAIN hyper = Islands /\ DOMAIN lastBoosted = Islands /\ DOMAIN evolved = Islands
    /\ \A i \in Islands : Tracks(hyper[i])
    /\ \A i \in Islands : hyper[i].active = 0 => lastBoosted[i] = hyper[i].lastEnd

LEMMA Triggered ==
    ASSUME NEW h, Tracks(h), NEW source \in {"auto", "manual"}
    PROVE  Tracks(Trigger(h, source)) /\ Trigger(h, source).active > 0
<1>1. PICK t : t = Trigger(h, source)  OBVIOUS
<1>2. /\ DOMAIN t = DOMAIN h /\ t.active = HyperDuration /\ t.source = source
      /\ t.mutationRate = "boosted" /\ t.perGeneMut = "boosted"
  BY <1>1 DEF Trigger, Tracks
<1> QED  BY <1>1, <1>2, HyperAssumption DEF Tracks, Rates

LEMMA Decayed ==
    ASSUME NEW h, Tracks(h), NEW g
    PROVE  /\ Tracks(Decay(h, g))
           /\ Decay(h, g).active = 0 => Decay(h, g).lastEnd = IF h.active > 0 THEN g ELSE h.lastEnd
<1>1. PICK d : d = Decay(h, g)  OBVIOUS
<1>2. CASE h.active = 0  BY <1>1, <1>2 DEF Decay, Tracks
<1>3. CASE h.active > 1
  <2>1. /\ DOMAIN d = DOMAIN h /\ d.active = h.active - 1 /\ d.source = h.source
        /\ d.mutationRate = h.mutationRate /\ d.perGeneMut = h.perGeneMut
    BY <1>1, <1>3 DEF Decay, Tracks
  <2> QED  BY <1>1, <1>3, <2>1 DEF Tracks, Rates
<1>4. CASE h.active = 1
  <2>1. /\ DOMAIN d = DOMAIN h /\ d.active = 0 /\ d.source = "none" /\ d.lastEnd = g
        /\ d.mutationRate = "base" /\ d.perGeneMut = "base"
    BY <1>1, <1>4 DEF Decay, Tracks
  <2> QED  BY <1>1, <1>4, <2>1 DEF Tracks, Rates
<1> QED  BY <1>2, <1>3, <1>4 DEF Tracks

(* A generation of an island: a boosted one is its last boosted one, and   *)
(* if no event was active it waited for the cooldown.                      *)
LEMMA Evolved ==
    ASSUME HyperInv, NEW w, NEW i, NEW g, NEW from, NEW msgs, Evolve(w, i, g, from, msgs)
    PROVE  /\ HyperInv'
           /\ \A j \in Islands : lastBoosted'[j] # lastBoosted[j] /\ hyper[j].active = 0
                                    => evolved'[j] - lastBoosted[j] > HyperCooldown
<1>1. PICK h \in Outcomes(hyper[i], g) :
          /\ evolved' = [evolved EXCEPT ![i] = g]
          /\ hyper' = [hyper EXCEPT ![i] = Decay(h, g)]
          /\ lastBoosted' = IF h.mutationRate = "boosted"
                            THEN [lastBoosted EXCEPT ![i] = g] ELSE lastBoosted
  BY DEF Evolve
<1>2. \A j \in Islands : j # i => /\ hyper'[j] = hyper[j] /\ lastBoosted'[j] = lastBoosted[j]
                                  /\ evolved'[j] = evolved[j]
  BY <1>1 DEF HyperInv
<1>3. DOMAIN hyper' = Islands /\ DOMAIN lastBoosted' = Islands /\ DOMAIN evolved' = Islands
  BY <1>1 DEF HyperInv
<1>4. ASSUME i \in Islands
      PROVE  /\ Tracks(hyper'[i])
             /\ hyper'[i].active = 0 => lastBoosted'[i] = hyper'[i].lastEnd
             /\ lastBoosted'[i] # lastBoosted[i] /\ hyper[i].active = 0
                   => evolved'[i] - lastBoosted[i] > HyperCooldown
  <2>1. PICK k : k = hyper[i]  OBVIOUS
  <2>2. Tracks(k) /\ (k.active = 0 => lastBoosted[i] = k.lastEnd)  BY <1>4, <2>1 DEF HyperInv
  <2>3. \/ h = k
        \/ h = Trigger(k, "auto") /\ k.active = 0 /\ g - k.lastEnd > HyperCooldown
    BY <1>1, <2>1 DEF Outcomes
  <2>4. Tracks(h) /\ (h # k => h.active > 0)
    BY <2>2, <2>3, Triggered
  <2>5. PICK d : d = Decay(h, g)  OBVIOUS
  <2>6. Tracks(d) /\ (d.active = 0 => d.lastEnd = IF h.active > 0 THEN g ELSE h.lastEnd)
    BY <2>4, <2>5, Decayed
  <2>7. hyper'[i] = d /\ evolved'[i] = g
        /\ lastBoosted'[i] = IF h.active > 0 THEN g ELSE lastBoosted[i]
    BY <1>1, <1>4, <2>4, <2>5 DEF HyperInv, Tracks
  <2>8. h.active \in Nat  BY <2>4 DEF Tracks
  <2> QED  BY <2>1, <2>2, <2>3, <2>4, <2>6, <2>7, <2>8
<1> QED  BY <1>2, <1>3, <1>4 DEF HyperInv

LEMMA HyperKept ==
    ASSUME HyperInv, UNCHANGED <<hyper, evolved, lastBoosted>>
    PROVE  HyperInv'
  BY DEF HyperInv

LEMMA Hypermutated ==
    ASSUME HyperInv, NEW w, OnHypermutate(w)
    PROVE  HyperInv' /\ lastBoosted' = lastBoosted
<1>1. /\ hyper' = [i \in Islands |-> IF i \in Hosted(w) /\ hyper[i].active = 0
                                     THEN Trigger(hyper[i], "manual") ELSE hyper[i]]
      /\ UNCHANGED <<evolved, lastBoosted>>
  BY DEF OnHypermutate
<1>2. DOMAIN hyper' = Islands /\ DOMAIN lastBoosted' = Islands /\ DOMAIN evolved' = Islands
  BY <1>1 DEF HyperInv
<1>3. ASSUME NEW i \in Islands
      PROVE  Tracks(hyper'[i]) /\ (hyper'[i].active = 0 => lastBoosted'[i] = hyper'[i].lastEnd)
  <2>1. PICK k : k = hyper[i]  OBVIOUS
  <2>2. Tracks(k) /\ (k.active = 0 => lastBoosted[i] = k.lastEnd)  BY <2>1 DEF HyperInv
  <2>3. hyper'[i] = k \/ hyper'[i] = Trigger(k, "manual")  BY <1>1, <2>1
  <2>4. CASE hyper'[i] = k  BY <1>1, <2>2, <2>4
  <2>5. CASE hyper'[i] = Trigger(k, "manual")
    <3>1. PICK t : t = Trigger(k, "manual")  OBVIOUS
    <3>2. Tracks(t) /\ t.active > 0  BY <2>2, <3>1, Triggered
    <3>3. hyper'[i] = t /\ t.active \in Nat  BY <2>5, <3>1, <3>2 DEF Tracks
    <3> QED  BY <3>2, <3>3
  <2> QED  BY <2>3, <2>4, <2>5
<1> QED  BY <1>1, <1>2, <1>3 DEF HyperInv

LEMMA HyperStep ==
    ASSUME HyperInv, [Next]_vars
    PROVE  /\ HyperInv'
           /\ \A j \in Islands : lastBoosted'[j] # lastBoosted[j] /\ hyper[j].active = 0
                                    => evolved'[j] - lastBoosted[j] > HyperCooldown
<1>1. ASSUME NEW w \in Workers, Turn(w) \/ OnEvolve(w),
             ~ UNCHANGED <<hyper, evolved, lastBoosted>>
      PROVE  \E i, g, from, msgs : Evolve(w, i, g, from, msgs)
  BY <1>1 DEF Turn, OnEvolve, LastTurn
<1>2. ASSUME NEW w \in Workers, Turn(w) \/ OnEvolve(w)
      PROVE  /\ HyperInv'
             /\ \A j \in Islands : lastBoosted'[j] # lastBoosted[j] /\ hyper[j].active = 0
                                      => evolved'[j] - lastBoosted[j] > HyperCooldown
  <2>1. CASE UNCHANGED <<hyper, evolved, lastBoosted>>  BY <2>1, HyperKept
  <2>2. CASE ~ UNCHANGED <<hyper, evolved, lastBoosted>>
    BY <1>1, <1>2, <2>2, Evolved
  <2> QED  BY <2>1, <2>2
<1>3. ASSUME NEW w \in Workers, OnHypermutate(w)
      PROVE  HyperInv' /\ lastBoosted' = lastBoosted
  BY <1>3, Hypermutated
<1>4. ASSUME ~ \E w \in Workers : Turn(w) \/ OnEvolve(w) \/ OnHypermutate(w)
      PROVE  UNCHANGED <<hyper, evolved, lastBoosted>>
  BY <1>4
  DEF Next, vars, workers, ToWorker, FromWorker, Load, OnReady, OnProgress, OnBatchDone,
      OnMigrateDone, OnResults, OnMigrate, OnGetResults, OnCancel, PollCancel, PollHyper,
      SaveCache, TerminateWorkers, WalkForward, RequestCancel, RequestHyper
<1> QED  BY <1>2, <1>3, <1>4, HyperKept

LEMMA HyperInit == Init => HyperInv
<1> SUFFICES ASSUME Init PROVE HyperInv  OBVIOUS
<1>1. /\ DOMAIN hyper = Islands /\ DOMAIN lastBoosted = Islands /\ DOMAIN evolved = Islands
      /\ \A i \in Islands : hyper[i] = Calm /\ lastBoosted[i] = NeverEnded
  BY DEF Init
<1>2. Tracks(Calm) /\ Calm.lastEnd = NeverEnded  BY DEF Calm, Tracks, Rates
<1> QED  BY <1>1, <1>2 DEF HyperInv

(* Whoever triggers a hypermutation (island-worker.js, hypermutation.js),  *)
(* and in whatever order events, decays and triggers come, both mutation   *)
(* rates of an island are boosted exactly while its event is active.       *)
THEOREM RatesFollowEventHolds == Spec => []RatesFollowEvent
<1>1. HyperInv /\ [Next]_vars => HyperInv'  BY HyperStep
<1>2. HyperInv => RatesFollowEvent  BY DEF HyperInv, Tracks, RatesFollowEvent
<1> QED  BY HyperInit, <1>1, <1>2, PTL DEF Spec

(* An island that begins an automatic event has run more than the cooldown *)
(* since its last boosted generation, also when that one was manual.       *)
THEOREM AutoWaitsHolds == Spec => AutoWaits
<1>1. HyperInv /\ [Next]_vars => HyperInv'  BY HyperStep
<1>2. HyperInv /\ [Next]_vars =>
          [\A i \in Islands : lastBoosted'[i] # lastBoosted[i] /\ hyper[i].active = 0
                                  => evolved'[i] - lastBoosted[i] > HyperCooldown]_lastBoosted
  BY HyperStep
<1> QED  BY HyperInit, <1>1, <1>2, PTL DEF Spec, AutoWaits


-----------------------------------------------------------------------------
(* Cancelling.  Every way into a batch looks at the request first.         *)
Resting == ~ (phase # "evolve" /\ phase' = "evolve") /\ startGen' = startGen

LEMMA CancelCollects == ASSUME NEW stopping, Collect(stopping) PROVE Resting
  BY DEF Collect, Resting

LEMMA CancelEnters == ASSUME cancelRequested, NEW g, EnterBatch(g) PROVE Resting
  BY CancelCollects DEF EnterBatch, ShouldCancel

LEMMA CancelMigrates == ASSUME cancelRequested, Migrated PROVE Resting
<1>1. CASE NextBatch  BY <1>1, CancelEnters DEF NextBatch
<1>2. CASE \E D, to : Await("travel", D, to)  BY <1>2 DEF Await, Resting
<1> QED  BY <1>1, <1>2 DEF Migrated

LEMMA CancelEndsBatch == ASSUME cancelRequested, BatchOver PROVE Resting
<1>1. CASE Collect(TRUE)  BY <1>1, CancelCollects
<1> QED  BY <1>1 DEF BatchOver, ShouldCancel

LEMMA CancelStep == ASSUME cancelRequested, [Next]_vars PROVE Resting
<1>1. ASSUME NEW w \in Workers, OnReady(w) PROVE Resting
  BY <1>1, CancelEnters DEF OnReady, Resting
<1>2. ASSUME NEW w \in Workers, OnBatchDone(w) PROVE Resting
  <2>1. CASE BatchOver  BY <2>1, CancelEndsBatch
  <2>2. CASE UNCHANGED <<phase, startGen>>  BY <2>2 DEF Resting
  <2> QED  BY <1>2, <2>1, <2>2 DEF OnBatchDone, Resolve
<1>3. ASSUME NEW w \in Workers, OnMigrateDone(w) PROVE Resting
  <2>1. CASE Migrated  BY <2>1, CancelMigrates
  <2>2. CASE NextBatch  BY <2>2, CancelEnters DEF NextBatch
  <2>3. CASE UNCHANGED <<phase, startGen>>  BY <2>3 DEF Resting
  <2> QED  BY <1>3, <2>1, <2>2, <2>3 DEF OnMigrateDone, Resolve
<1>4. ASSUME ~ \E w \in Workers : OnReady(w) \/ OnBatchDone(w) \/ OnMigrateDone(w)
      PROVE  Resting
  <2> USE DEF Resting, coordinator
  <2>1. ASSUME NEW w \in Workers, Load(w) PROVE Resting  BY <2>1 DEF Load
  <2>2. ASSUME NEW w \in Workers, Turn(w) PROVE Resting  BY <2>2 DEF Turn
  <2>3. ASSUME NEW w \in Workers, ToWorker(w) PROVE Resting
    BY <2>3 DEF ToWorker, OnEvolve, OnMigrate, OnGetResults, OnHypermutate, OnCancel, Receives
  <2>4. ASSUME NEW w \in Workers, OnProgress(w) PROVE Resting  BY <2>4 DEF OnProgress
  <2>5. ASSUME NEW w \in Workers, OnResults(w) PROVE Resting  BY <2>5 DEF OnResults, Collected
  <2>6. CASE PollCancel \/ PollHyper \/ SaveCache \/ TerminateWorkers \/ WalkForward
             \/ RequestCancel \/ RequestHyper
    BY <2>6 DEF PollCancel, PollHyper, SaveCache, TerminateWorkers, WalkForward,
                RequestCancel, RequestHyper
  <2>7. CASE UNCHANGED vars  BY <2>7 DEF vars
  <2> QED  BY <1>4, <2>1, <2>2, <2>3, <2>4, <2>5, <2>6, <2>7 DEF Next, FromWorker
<1> QED  BY <1>1, <1>2, <1>3, <1>4

(* Once POST /api/runs/:id/cancel has set the flag no batch begins         *)
(* (runner.js), wherever the run is when it is set.                        *)
THEOREM CancelEndsBatchesHolds == Spec => CancelEndsBatches
<1>1. [Next]_vars => [cancelRequested => /\ ~ (phase # "evolve" /\ phase' = "evolve")
                                         /\ startGen' = startGen]_vars
  BY CancelStep DEF Resting
<1> QED  BY <1>1, PTL DEF Spec, CancelEndsBatches

-----------------------------------------------------------------------------
(* The rounds: the migrants under way to every island.                     *)
Due == [i \in Islands |-> MigratesTo(i)]

-----------------------------------------------------------------------------
(* Counting messages.                                                      *)
Places(s, a) == {k \in DOMAIN s : s[k] = a}

LEMMA Counted ==
    ASSUME NEW S, NEW s \in Seq(S), NEW a
    PROVE  /\ Count(s, a) \in Nat
           /\ Count(s, a) = 0 <=> \A k \in DOMAIN s : s[k] # a
<1>1. IsFiniteSet(1..Len(s))
  <2>1. PICK n \in Nat : n = Len(s)  BY LenProperties
  <2>2. IsFiniteSet(1..n)  BY <2>1, FS_Interval
  <2> QED  BY <2>1, <2>2
<1>2. DOMAIN s = 1..Len(s)  BY LenProperties
<1>3. Places(s, a) \subseteq 1..Len(s)  BY <1>2 DEF Places
<1>4. IsFiniteSet(Places(s, a))  BY <1>1, <1>3, FS_Subset
<1>5. Count(s, a) = Cardinality(Places(s, a))  BY DEF Count, Places
<1>6. Cardinality(Places(s, a)) = 0 <=> Places(s, a) = {}  BY <1>4, FS_EmptySet
<1> QED  BY <1>4, <1>5, <1>6, FS_CardinalityType DEF Places

(* What is posted without an a leaves their number.                        *)
LEMMA CountJoined ==
    ASSUME NEW S, NEW q \in Seq(S), NEW m \in Seq(S), NEW r, r = Joint(q, m),
           NEW a, \A k \in DOMAIN m : m[k] # a
    PROVE  Count(r, a) = Count(q, a)
<1>1. /\ \A k \in DOMAIN q : k \in DOMAIN r /\ r[k] = q[k]
      /\ \A x \in DOMAIN r : x \in DOMAIN q \/ \E k \in DOMAIN m : x = Len(q) + k
      /\ \A k \in DOMAIN m : Len(q) + k \in DOMAIN r /\ r[Len(q) + k] = m[k]
  BY JoinedBy
<1>2. {k \in DOMAIN r : r[k] = a} = {k \in DOMAIN q : q[k] = a}  BY <1>1
<1> QED  BY <1>2 DEF Count

(* Taking the first message leaves one less of its like.                   *)
LEMMA CountRest ==
    ASSUME NEW S, NEW q \in Seq(S), q # << >>, NEW r, r = Rest(q), NEW a
    PROVE  Count(r, a) = IF Head(q) = a THEN Count(q, a) - 1 ELSE Count(q, a)
<1>1. PICK n \in Nat \ {0} : n = Len(q) /\ DOMAIN q = 1..n  BY LenProperties, EmptySeq
<1>2. /\ r \in Seq(S) /\ Len(r) = n - 1 /\ DOMAIN r = 1..(n - 1)
      /\ \A k \in 1..(n - 1) : r[k] = q[k + 1]
  BY <1>1 DEF Rest
<1>3. Head(q) = q[1]  BY <1>1
<1> DEFINE P == {k \in 1..n : q[k] = a}
           T == {k \in 2..n : q[k] = a}
           R == {k \in 1..(n - 1) : r[k] = a}
           f == [k \in R |-> k + 1]
<1>4. IsFiniteSet(P) /\ IsFiniteSet(T) /\ IsFiniteSet(R)
  <2>1. IsFiniteSet(1..n)  BY FS_Interval
  <2>2. P \subseteq 1..n /\ T \subseteq 1..n /\ R \subseteq 1..n  OBVIOUS
  <2> QED  BY <2>1, <2>2, FS_Subset
<1>5. Cardinality(R) = Cardinality(T)
  <2>1. f \in [R -> T]  BY <1>2
  <2>2. \A k, l \in R : f[k] = f[l] => k = l  OBVIOUS
  <2>3. \A t \in T : \E k \in R : f[k] = t
    <3> TAKE t \in T
    <3>1. t - 1 \in R /\ (t - 1) + 1 = t  BY <1>2
    <3> QED  BY <3>1
  <2>4. f \in Bijection(R, T)
    BY <2>1, <2>2, <2>3 DEF Bijection, Injection, Surjection, IsInjective
  <2>5. ExistsBijection(R, T)  BY <2>4 DEF ExistsBijection
  <2> QED  BY <1>4, <2>5, FS_Bijection
<1>6. Cardinality(P) = IF q[1] = a THEN Cardinality(T) + 1 ELSE Cardinality(T)
  <2>1. CASE q[1] = a
    <3>1. P = T \cup {1} /\ 1 \notin T  BY <2>1
    <3> QED  BY <1>4, <2>1, <3>1, FS_AddElement
  <2>2. CASE q[1] # a
    <3>1. P = T  BY <2>2
    <3> QED  BY <2>2, <3>1
  <2> QED  BY <2>1, <2>2
<1>7. Count(q, a) = Cardinality(P) /\ Count(r, a) = Cardinality(R)
  BY <1>1, <1>2 DEF Count
<1>8. Cardinality(T) \in Nat  BY <1>4, FS_CardinalityType
<1> QED  BY <1>3, <1>5, <1>6, <1>7, <1>8

-----------------------------------------------------------------------------
(* Migrants under way.                                                     *)
LEMMA DueIsNat ==
    ASSUME TypeOK, NEW i \in Islands
    PROVE  /\ MigratesTo(i) \in Nat
           /\ MigratesTo(i) = 0 <=> \A k \in DOMAIN inbox[WorkerOf(i)] :
                                       inbox[WorkerOf(i)][k] # Reply("migrate", i)
<1>1. PICK w \in Workers : w = WorkerOf(i)  BY Hosts
<1>2. PICK q \in Seq(ToMsg) : q = inbox[w]  BY <1>1, TypeSplit DEF WorkerTypes
<1> QED  BY <1>1, <1>2, Counted DEF MigratesTo

LEMMA DueIsNatNext ==
    ASSUME TypeOK', NEW i \in Islands
    PROVE  MigratesTo(i)' \in Nat
<1>1. PICK w \in Workers : w = WorkerOf(i)  BY Hosts
<1>2. inbox' \in [Workers -> Seq(ToMsg)]  BY DEF TypeOK, ToMsg
<1>3. PICK q \in Seq(ToMsg) : q = inbox'[w]  BY <1>2
<1> QED  BY <1>1, <1>3, Counted DEF MigratesTo

LEMMA NothingDue ==
    ASSUME TypeOK, NEW w \in Workers, ~ Has(inbox[w], "migrate"), NEW i \in Hosted(w)
    PROVE  MigratesTo(i) = 0
<1>1. i \in Islands /\ WorkerOf(i) = w  BY Hosts
<1>2. \A k \in DOMAIN inbox[w] : inbox[w][k] # Reply("migrate", i)
  BY DEF Has, Reply, Message
<1> QED  BY <1>1, <1>2, DueIsNat

(* Orders, evolves and requests for results are no migrants.               *)
LEMMA DuePosted ==
    ASSUME TypeOK, NEW ms \in [Workers -> Seq(ToMsg)], Post(ms),
           \A w \in Workers : \A k \in DOMAIN ms[w] : ms[w][k].type # "migrate"
    PROVE  UNCHANGED Due
<1>1. ASSUME NEW i \in Islands PROVE MigratesTo(i)' = MigratesTo(i)
  <2>1. PICK w \in Workers : w = WorkerOf(i)  BY Hosts
  <2>2. PICK q \in Seq(ToMsg) : q = inbox[w]  BY <2>1, TypeSplit DEF WorkerTypes
  <2>3. PICK m \in Seq(ToMsg) : m = ms[w]  OBVIOUS
  <2>4. PICK r : r = Joint(q, m)  OBVIOUS
  <2>5. inbox'[w] = r  BY <2>2, <2>3, <2>4 DEF Post, Joint
  <2>6. PICK a : a = Reply("migrate", i)  OBVIOUS
  <2>7. \A k \in DOMAIN m : m[k] # a  BY <2>3, <2>6 DEF Reply, Message
  <2>8. Count(r, a) = Count(q, a)  BY <2>4, <2>7, CountJoined
  <2> QED  BY <2>1, <2>2, <2>5, <2>6, <2>8 DEF MigratesTo
<1> QED  BY <1>1 DEF Due

LEMMA DueToAll ==
    ASSUME TypeOK, NEW m \in ToMsg, m.type # "migrate", Post(ToAll(m))
    PROVE  UNCHANGED Due
<1>1. PICK s : s = <<m>>  OBVIOUS
<1>2. s \in Seq(ToMsg) /\ \A k \in DOMAIN s : s[k] = m  BY <1>1
<1>3. PICK ms : ms = [w \in Workers |-> s]  OBVIOUS
<1>4. ms \in [Workers -> Seq(ToMsg)] /\ \A w \in Workers : ms[w] = s  BY <1>2, <1>3
<1>5. Post(ms)  BY <1>1, <1>3 DEF ToAll
<1> QED  BY <1>2, <1>4, <1>5, DuePosted

LEMMA DueTaken ==
    ASSUME Inductive, NEW w \in Workers, NEW type, Receives(w, type), NEW i \in Islands
    PROVE  MigratesTo(i)' = IF type = "migrate" /\ Head(inbox[w]).island = i
                            THEN MigratesTo(i) - 1 ELSE MigratesTo(i)
<1>1. PICK q \in Seq(ToMsg) : q = inbox[w]  BY TypeSplit DEF Inductive, WorkerTypes
<1>2. q # << >>  BY <1>1 DEF Receives
<1>3. PICK h : h = Head(q)  OBVIOUS
<1>4. /\ inbox' \in [Workers -> Seq(ToMsg)] /\ h \in ToMsg
      /\ \A x \in Workers \ {w} : inbox'[x] = inbox[x]
      /\ Takes(q, h, inbox'[w])
  BY <1>1, <1>3, Receiving DEF Inductive
<1>5. PICK r : r = Rest(q)  OBVIOUS
<1>6. inbox'[w] = r
  <2>1. WorkerTypes  BY TypeSplit DEF Inductive
  <2> QED  BY <1>1, <1>5, <2>1 DEF Receives, Rest, WorkerTypes
<1>7. h.type = type  BY <1>1, <1>3 DEF Receives
<1>8. type = "migrate" => h.gen = 0 /\ h.island \in Hosted(w)
  BY <1>1, <1>4, <1>7 DEF Inductive, Thread, Addressed, Takes
<1>9. PICK a : a = Reply("migrate", i)  OBVIOUS
<1>10. h = a <=> type = "migrate" /\ h.island = i
  <2>1. h = [type |-> h.type, island |-> h.island, gen |-> h.gen]  BY <1>4 DEF ToMsg
  <2> QED  BY <1>7, <1>8, <1>9, <2>1 DEF Reply, Message
<1>11. Count(r, a) = IF h = a THEN Count(q, a) - 1 ELSE Count(q, a)
  BY <1>2, <1>3, <1>5, CountRest
<1>12. CASE WorkerOf(i) = w
  BY <1>1, <1>3, <1>6, <1>9, <1>10, <1>11, <1>12 DEF MigratesTo
<1>13. CASE WorkerOf(i) # w
  <2>1. inbox'[WorkerOf(i)] = inbox[WorkerOf(i)]  BY <1>4, <1>13, Hosts
  <2>2. ~ (type = "migrate" /\ h.island = i)  BY <1>8, <1>13, Hosts
  <2> QED  BY <1>1, <1>3, <2>1, <2>2 DEF MigratesTo
<1> QED  BY <1>12, <1>13

LEMMA DueUntaken ==
    ASSUME Inductive, NEW w \in Workers, NEW type, Receives(w, type), type # "migrate"
    PROVE  UNCHANGED Due
  BY DueTaken DEF Due

-----------------------------------------------------------------------------
(* The steps of the rounds.                                                *)
Same == UNCHANGED <<evolved, Round, Due, cancelRequested>>

LEMMA AsStutter == Same => UNCHANGED Rounds!vars
  BY DEF Same, Due, Rounds!vars

LEMMA AsAge ==
    ASSUME NEW i \in Islands, Round > 0, MigratesTo(i) = 0, evolved[i] < EndGen(Round),
           evolved' = [evolved EXCEPT ![i] = evolved[i] + 1],
           UNCHANGED <<Round, Due, cancelRequested>>
    PROVE  Rounds!Next
<1>1. Rounds!Age(i)  BY DEF Rounds!Age, Rounds!End, EndGen, Due
<1> QED  BY <1>1 DEF Rounds!Next

LEMMA AsDeliver ==
    ASSUME NEW i \in Islands, TypeOK, MigratesTo(i) # 0,
           \A j \in Islands : MigratesTo(j)' = IF j = i THEN MigratesTo(j) - 1 ELSE MigratesTo(j),
           UNCHANGED <<evolved, Round, cancelRequested>>
    PROVE  Rounds!Next
<1>1. MigratesTo(i) > 0  BY DueIsNat
<1>2. Due' = [Due EXCEPT ![i] = Due[i] - 1]  BY DEF Due
<1>3. Rounds!Deliver(i)  BY <1>1, <1>2 DEF Rounds!Deliver, Due
<1> QED  BY <1>3 DEF Rounds!Next

LEMMA AsNextRound ==
    ASSUME TypeOK', Round > 0, \A i \in Islands : evolved[i] = EndGen(Round),
           EndGen(Round) < Generations, Round' = EndGen(Round) + 1,
           \A i \in Islands : MigratesTo(i) = 0,
           UNCHANGED <<evolved, cancelRequested>>
    PROVE  Rounds!Next
<1>1. \A i \in Islands : MigratesTo(i)' \in Nat  BY DueIsNatNext
<1>2. Rounds!Send  BY <1>1 DEF Rounds!Send
<1>3. Rounds!NextRound  BY <1>2 DEF Rounds!NextRound, Rounds!End, EndGen
<1> QED  BY <1>3 DEF Rounds!Next

LEMMA AsTravel ==
    ASSUME TypeOK', Round > 1, \A i \in Islands : evolved[i] = Round - 1,
           \A i \in Islands : MigratesTo(i) = 0,
           UNCHANGED <<evolved, Round, cancelRequested>>
    PROVE  Rounds!Next
<1>1. \A i \in Islands : MigratesTo(i)' \in Nat  BY DueIsNatNext
<1>2. Rounds!Send  BY <1>1 DEF Rounds!Send
<1>3. Rounds!Travel  BY <1>2 DEF Rounds!Travel
<1> QED  BY <1>3 DEF Rounds!Next

LEMMA AsStop ==
    ASSUME \/ cancelRequested
           \/ \A i \in Islands : evolved[i] = Generations
           \/ \A i \in Islands : evolved[i] = 0,
           Round' = 0, UNCHANGED <<evolved, Due, cancelRequested>>
    PROVE  Rounds!Next
<1>1. Rounds!Stop  BY DEF Rounds!Stop, Due
<1> QED  BY <1>1 DEF Rounds!Next

LEMMA AsAsk ==
    ASSUME cancelRequested' = TRUE, UNCHANGED <<evolved, Round, Due>>
    PROVE  Rounds!Next
<1>1. Rounds!Ask  BY DEF Rounds!Ask, Due
<1> QED  BY <1>1 DEF Rounds!Next

-----------------------------------------------------------------------------
(* The steps of a worker.                                                  *)
LEMMA RoundKept ==
    ASSUME UNCHANGED <<phase, startGen>>
    PROVE  UNCHANGED Round
  BY DEF Round, EndGen

LEMMA DueKept ==
    ASSUME UNCHANGED inbox
    PROVE  UNCHANGED Due
  BY DEF Due, MigratesTo

(* Where a thread has work, the run is in a batch.                         *)
LEMMA InARound ==
    ASSUME Inductive, NEW w \in Workers, job[w] # NoJob \/ Has(inbox[w], "evolve")
    PROVE  /\ phase = "evolve" /\ InBatch(w) /\ Round = startGen /\ Round > 0
           /\ startGen \in 1..Generations /\ EndGen(startGen) \in startGen..Generations
<1>1. Thread(w) /\ TypeOK  BY DEF Inductive
<1>2. ~ Loading(w)  BY DEF Loading, Has
<1>3. ~ After(w)  BY DEF After, Only, Has, Orders
<1>4. ~ Between(w)  BY DEF Between, Only, Has, Orders
<1>5. phase = "evolve" /\ InBatch(w)
  BY <1>1, <1>2, <1>3, <1>4 DEF Thread, InPhase, TypeOK, Before, Ending
<1>6. startGen \in 1..Generations  BY <1>1 DEF TypeOK
<1>7. Round = startGen  BY <1>5 DEF Round
<1>8. startGen > 0  BY <1>6
<1> QED  BY <1>5, <1>6, <1>7, <1>8, Ends

LEMMA RoundTurn ==
    ASSUME Inductive, NEW w \in Workers, Turn(w)
    PROVE  [Rounds!Next]_(Rounds!vars)
<1> DEFINE i == job[w].island
           g == job[w].gen
           from == job[w].startGen
<1>1. /\ i # None
      /\ UNCHANGED <<coordinator, requests, inbox, thread, cancelled>>
  BY DEF Turn
<1>2. job[w] # NoJob  BY <1>1 DEF NoJob
<1>3. /\ phase = "evolve" /\ InBatch(w) /\ Round = startGen /\ Round > 0
      /\ startGen \in 1..Generations /\ EndGen(startGen) \in startGen..Generations
  BY <1>2, InARound
<1>4. ~ Has(inbox[w], "evolve") /\ Only(inbox[w], Orders) /\ Runs(w)
  BY <1>2, <1>3 DEF InBatch, Begins
<1>5. /\ i \in Hosted(w) /\ from = startGen /\ g = evolved[i] + 1
      /\ startGen <= evolved[i] /\ evolved[i] <= EndGen(startGen)
  BY <1>4 DEF Runs
<1>6. Progress(w, i)  BY <1>2, <1>3, <1>4 DEF InBatch, Reached
<1>7. i \in Islands /\ i \in Int /\ \A j \in Islands : evolved[j] \in Int /\ j \in Int
  <2>1. evolved \in [Islands -> 0..Generations]  BY DEF Inductive, TypeOK
  <2>2. \A j \in Islands : evolved[j] \in Int  BY <2>1
  <2>3. i \in Islands  BY <1>5, Hosts
  <2> QED  BY <2>2, <2>3, Sizes
<1>8. UNCHANGED <<Round, Due, cancelRequested>>
  BY <1>1, RoundKept, DueKept DEF coordinator, requests
<1>9. \A j \in Hosted(w) : MigratesTo(j) = 0
  <2>1. ~ Has(inbox[w], "migrate")  BY <1>4 DEF Only, Has, Orders
  <2> QED  BY <2>1, NothingDue DEF Inductive
<1>10. CASE ~ cancelled[w] /\ g <= EndGen(from)
  <2>1. evolved' = [evolved EXCEPT ![i] = g]  BY <1>10 DEF Turn, Evolve
  <2>2. PICK j \in Hosted(w) : j = i  BY <1>5
  <2>3. j \in Islands  BY Hosts
  <2>4. evolved' = [evolved EXCEPT ![j] = evolved[j] + 1]  BY <1>5, <2>1, <2>2
  <2>5. evolved[j] < EndGen(Round)  BY <1>3, <1>5, <1>7, <1>10, <2>2
  <2> QED  BY <1>3, <1>8, <1>9, <2>3, <2>4, <2>5, AsAge
<1>11. CASE ~ (~ cancelled[w] /\ g <= EndGen(from)) /\ ~ cancelled[w] /\ i + WorkerCount \in Islands
  <2>1. evolved' = [evolved EXCEPT ![i + WorkerCount] = from]  BY <1>11 DEF Turn, Evolve
  <2>2. PICK j \in Islands : j = i + WorkerCount  BY <1>11
  <2>3. i + WorkerCount \in Hosted(w)  BY <1>5, <1>11, NextHosted
  <2>4. j \in Hosted(w) /\ i < j  BY <1>7, <2>2, <2>3, Sizes
  <2>5. evolved[j] = startGen - 1  BY <1>6, <2>4 DEF Progress
  <2>6. evolved' = [evolved EXCEPT ![j] = evolved[j] + 1]  BY <1>3, <1>5, <2>1, <2>2, <2>5
  <2>7. evolved[j] < EndGen(Round)  BY <1>3, <2>5
  <2> QED  BY <1>3, <1>8, <1>9, <2>4, <2>6, <2>7, AsAge
<1>12. CASE ~ (~ cancelled[w] /\ g <= EndGen(from))
            /\ ~ (~ cancelled[w] /\ i + WorkerCount \in Islands)
  <2>1. UNCHANGED evolved  BY <1>12 DEF Turn, LastTurn
  <2> QED  BY <1>8, <2>1, AsStutter DEF Same
<1> QED  BY <1>10, <1>11, <1>12

LEMMA RoundOnEvolve ==
    ASSUME Inductive, NEW w \in Workers, OnEvolve(w)
    PROVE  [Rounds!Next]_(Rounds!vars)
<1>1. Receives(w, "evolve") /\ UNCHANGED <<coordinator, requests, thread, cancelled>>
  BY DEF OnEvolve, Receives
<1>2. PICK h : h = Head(inbox[w])  OBVIOUS
<1>3. Takes(inbox[w], h, inbox'[w])  BY <1>1, <1>2, Receiving DEF Inductive
<1>4. h.type = "evolve"  BY <1>1, <1>2 DEF Receives
<1>5. Has(inbox[w], "evolve")  BY <1>3, <1>4 DEF Takes, Has
<1>6. /\ InBatch(w) /\ Round = startGen /\ Round > 0
      /\ startGen \in 1..Generations /\ EndGen(startGen) \in startGen..Generations
  BY <1>5, InARound
<1>7. Begins(w) /\ Reached(w) = None  BY <1>5, <1>6 DEF InBatch, Reached
<1>8. h.gen = startGen  BY <1>3, <1>4, <1>7 DEF Takes, Begins
<1>9. UNCHANGED <<Round, Due, cancelRequested>>
  BY <1>1, RoundKept, DueUntaken DEF coordinator, requests
<1>10. w \in Hosted(w) /\ w \in Islands  BY Hosts, Sizes
<1>11. evolved[w] = startGen - 1
  BY <1>6, <1>7, <1>10, Sizes DEF InBatch, Progress
<1>12. CASE cancelled[w]
  <2>1. UNCHANGED evolved  BY <1>12 DEF OnEvolve, LastTurn
  <2> QED  BY <1>9, <2>1, AsStutter DEF Same
<1>13. CASE ~ cancelled[w]
  <2>1. evolved' = [evolved EXCEPT ![w] = startGen]
    BY <1>2, <1>8, <1>13 DEF OnEvolve, Evolve
  <2>2. evolved' = [evolved EXCEPT ![w] = evolved[w] + 1] /\ evolved[w] < EndGen(Round)
    BY <1>6, <1>11, <2>1
  <2>3. MigratesTo(w) = 0
    <3>1. MigratesTo(w)' = 0
      <4>1. Only(inbox'[w], Orders)
        BY <1>3, <1>4 DEF Inductive, Thread, InOrder, Takes, Follows, Only
      <4>2. inbox' \in [Workers -> Seq(ToMsg)]  BY <1>1, Receiving DEF Inductive
      <4>3. PICK q \in Seq(ToMsg) : q = inbox'[w]  BY <4>2
      <4>4. PICK a : a = Reply("migrate", w)  OBVIOUS
      <4>5. \A k \in DOMAIN q : q[k] # a  BY <4>1, <4>3, <4>4 DEF Only, Orders, Reply, Message
      <4>6. Count(q, a) = 0  BY <4>5, Counted
      <4>7. WorkerOf(w) = w  BY <1>10, Hosts
      <4> QED  BY <4>3, <4>4, <4>6, <4>7 DEF MigratesTo
    <3> QED  BY <1>1, <1>10, <3>1, DueTaken
  <2> QED  BY <1>6, <1>9, <1>10, <2>2, <2>3, AsAge
<1> QED  BY <1>12, <1>13

LEMMA RoundOnMigrate ==
    ASSUME Inductive, NEW w \in Workers, OnMigrate(w)
    PROVE  [Rounds!Next]_(Rounds!vars)
<1>1. Receives(w, "migrate") /\ UNCHANGED <<coordinator, requests, thread, evolved>>
  BY DEF OnMigrate, Receives
<1>2. PICK h : h = Head(inbox[w])  OBVIOUS
<1>3. Takes(inbox[w], h, inbox'[w])  BY <1>1, <1>2, Receiving DEF Inductive
<1>4. h.type = "migrate"  BY <1>1, <1>2 DEF Receives
<1>5. h.island \in Hosted(w) /\ h.gen = 0
  BY <1>3, <1>4 DEF Inductive, Thread, Addressed, Takes
<1>6. PICK i \in Islands : i = h.island /\ WorkerOf(i) = w  BY <1>5, Hosts
<1>7. UNCHANGED <<evolved, Round, cancelRequested>>
  BY <1>1, RoundKept DEF coordinator, requests
<1>8. \A j \in Islands : MigratesTo(j)' = IF j = i THEN MigratesTo(j) - 1 ELSE MigratesTo(j)
  BY <1>1, <1>2, <1>6, DueTaken
<1>9. MigratesTo(i) # 0
  <2>1. PICK q \in Seq(ToMsg) : q = inbox[w]  BY TypeSplit DEF Inductive, WorkerTypes
  <2>2. q # << >>  BY <1>1, <2>1 DEF Receives
  <2>3. h \in ToMsg /\ 1 \in DOMAIN q /\ q[1] = h  BY <1>2, <2>1, <2>2
  <2>4. h = [type |-> h.type, island |-> h.island, gen |-> h.gen]  BY <2>3 DEF ToMsg
  <2>5. h = Reply("migrate", i)  BY <1>4, <1>5, <1>6, <2>4 DEF Reply, Message
  <2> QED  BY <1>6, <2>1, <2>3, <2>5, DueIsNat DEF Inductive
<1> QED  BY <1>7, <1>8, <1>9, AsDeliver DEF Inductive

LEMMA RoundWorkerRest ==
    ASSUME Inductive, NEW w \in Workers, OnGetResults(w) \/ OnHypermutate(w) \/ OnCancel(w)
    PROVE  [Rounds!Next]_(Rounds!vars)
<1>1. PICK type \in {"get_results", "hypermutate", "cancel"} : Receives(w, type)
  BY DEF OnGetResults, OnHypermutate, OnCancel
<1>2. UNCHANGED <<coordinator, requests, evolved>>
  BY DEF OnGetResults, OnHypermutate, OnCancel, Receives
<1>3. UNCHANGED Due  BY <1>1, DueUntaken
<1> QED  BY <1>2, <1>3, RoundKept, AsStutter DEF Same, coordinator, requests

(* A thread that fails to load ends a run that has not begun.              *)
LEMMA RoundLoad ==
    ASSUME Inductive, NEW w \in Workers, Load(w)
    PROVE  [Rounds!Next]_(Rounds!vars)
<1>1. /\ thread[w] = "loading"
      /\ UNCHANGED <<startGen, inbox, evolved, cancelRequested>>
  BY DEF Load, requests
<1>2. UNCHANGED Due  BY <1>1, DueKept
<1>3. CASE UNCHANGED phase
  BY <1>1, <1>2, <1>3, RoundKept, AsStutter DEF Same
<1>4. CASE phase' = "failed"
  <2>1. phase \in Before  BY <1>1 DEF Inductive, Thread, InPhase
  <2>2. \A i \in Islands : evolved[i] = 0
    <3> TAKE i \in Islands
    <3>1. PICK x \in Workers : i \in Hosted(x)  BY Hosts
    <3> QED  BY <2>1, <3>1 DEF Inductive, Thread, InPhase, Loading
  <2>3. Round' = 0  BY <1>4 DEF Round
  <2> QED  BY <1>1, <1>2, <2>2, <2>3, AsStop
<1> QED  BY <1>3, <1>4 DEF Load

-----------------------------------------------------------------------------
(* The coordinator at its barrier.                                         *)
LEMMA RoundCollect ==
    ASSUME TypeOK, NEW stopping \in BOOLEAN, Collect(stopping)
    PROVE  Round' = 0 /\ UNCHANGED Due
<1>1. PICK c : c = Signal("cancel")  OBVIOUS
<1>2. PICK g : g = Signal("get_results")  OBVIOUS
<1>3. c \in ToMsg /\ g \in ToMsg /\ c.type = "cancel" /\ g.type = "get_results"
  BY <1>1, <1>2, PaceAssumption DEF Signal, Message, ToMsg
<1>4. PICK m : m = IF stopping /\ ~ cancelSent THEN <<c, g>> ELSE <<g>>  OBVIOUS
<1>5. m \in Seq(ToMsg) /\ \A k \in DOMAIN m : m[k] = c \/ m[k] = g  BY <1>3, <1>4
<1>6. PICK ms : ms = [w \in Workers |-> m]  OBVIOUS
<1>7. ms \in [Workers -> Seq(ToMsg)] /\ \A w \in Workers : ms[w] = m  BY <1>5, <1>6
<1>8. Post(ms)
  <2>1. ms = [w \in Workers |-> IF stopping /\ ~ cancelSent
                                THEN <<Signal("cancel"), Signal("get_results")>>
                                ELSE <<Signal("get_results")>>]
    BY <1>1, <1>2, <1>4, <1>6
  <2> QED  BY <2>1 DEF Collect
<1>9. UNCHANGED Due  BY <1>3, <1>5, <1>7, <1>8, DuePosted
<1>10. phase' = "collect"  BY DEF Collect
<1> QED  BY <1>9, <1>10 DEF Round

LEMMA RoundEnter ==
    ASSUME TypeOK, NEW g \in 1..Generations, EnterBatch(g)
    PROVE  UNCHANGED Due /\ (Round' = g \/ (cancelRequested /\ Round' = 0))
<1>1. ~ (g > Generations)  BY PaceAssumption
<1>2. CASE ShouldCancel
  <2>1. Collect(TRUE)  BY <1>1, <1>2 DEF EnterBatch
  <2> QED  BY <1>2, <2>1, RoundCollect DEF ShouldCancel
<1>3. CASE ~ ShouldCancel
  <2>1. PICK m : m = Message("evolve", None, g)  OBVIOUS
  <2>2. phase' = "evolve" /\ startGen' = g /\ Post(ToAll(m))
    BY <1>1, <1>3, <2>1 DEF EnterBatch
  <2>3. m \in ToMsg /\ m.type = "evolve"  BY <2>1, PaceAssumption DEF Message, ToMsg
  <2> QED  BY <2>2, <2>3, DueToAll DEF Round
<1> QED  BY <1>2, <1>3

LEMMA RoundNext ==
    ASSUME TypeOK, NextBatch, EndGen(startGen) < Generations
    PROVE  /\ UNCHANGED Due
           /\ Round' = EndGen(startGen) + 1 \/ (cancelRequested /\ Round' = 0)
<1>1. startGen \in 1..Generations  BY DEF TypeOK
<1>2. PICK e \in 1..Generations : e = EndGen(startGen)  BY <1>1, Ends, PaceAssumption
<1>3. PICK g \in Int : g = e + 1  OBVIOUS
<1>4. g \in 1..Generations  BY <1>2, <1>3, PaceAssumption
<1>5. EnterBatch(g)  BY <1>2, <1>3 DEF NextBatch
<1> QED  BY <1>2, <1>3, <1>4, <1>5, RoundEnter

LEMMA RoundAwait ==
    ASSUME NEW p \in {"migrate", "travel"}, NEW D, NEW to, Await(p, D, to)
    PROVE  Round' = EndGen(startGen) + 1
<1>1. phase' = p /\ startGen' = startGen  BY DEF Await
<1>2. Round' = EndGen(startGen') + 1  BY <1>1 DEF Round, EndGen
<1> QED  BY <1>1, <1>2

LEMMA RoundMigrated ==
    ASSUME TypeOK, TypeOK', Migrated, phase \in {"evolve", "migrate"},
           EndGen(startGen) < Generations,
           \A i \in Islands : evolved[i] = EndGen(startGen),
           \A i \in Islands : MigratesTo(i) = 0,
           UNCHANGED <<evolved, cancelRequested>>
    PROVE  [Rounds!Next]_(Rounds!vars)
<1>1. startGen \in 1..Generations  BY DEF TypeOK
<1>2. PICK e \in 1..Generations : e = EndGen(startGen)  BY <1>1, Ends, PaceAssumption
<1>3. \/ \E R \in Routes : \E land \in Landings(R) : Await("travel", R, land)
      \/ NextBatch
  BY DEF Migrated
<1>4. \/ Round' = e + 1
      \/ cancelRequested /\ Round' = 0 /\ UNCHANGED Due
  BY <1>2, <1>3, RoundAwait, RoundNext
<1>6. CASE cancelRequested /\ Round' = 0 /\ UNCHANGED Due  BY <1>6, AsStop
<1>7. CASE Round' = e + 1 /\ phase = "evolve"
  <2>1. Round = startGen /\ startGen > 0  BY <1>1, <1>7 DEF Round
  <2> QED  BY <1>2, <1>7, <2>1, AsNextRound
<1>8. CASE Round' = e + 1 /\ phase = "migrate"
  <2>1. Round = e + 1  BY <1>2, <1>8 DEF Round
  <2>2. Round > 1 /\ Round - 1 = e  BY <2>1
  <2> QED  BY <1>2, <1>8, <2>1, <2>2, AsTravel
<1> QED  BY <1>4, <1>6, <1>7, <1>8

LEMMA RoundBatchOver ==
    ASSUME Inductive, TypeOK', Silent, BatchOver, phase = "evolve",
           \A i \in Islands : cancelSent \/ evolved[i] = EndGen(startGen),
           UNCHANGED <<evolved, cancelRequested>>
    PROVE  [Rounds!Next]_(Rounds!vars)
<1>1. /\ TypeOK /\ startGen \in 1..Generations /\ Generations \in Nat
      /\ cancelSent => cancelRequested
  BY PaceAssumption DEF Inductive, TypeOK, Coordinator
<1>2. Round = startGen /\ startGen > 0  BY <1>1 DEF Round
<1>3. \A i \in Islands : MigratesTo(i) = 0
  <2> TAKE i \in Islands
  <2>1. PICK w \in Workers : i \in Hosted(w)  BY Hosts
  <2>2. ~ Has(inbox[w], "migrate")  BY DEF Silent, Only, Has, Orders
  <2> QED  BY <1>1, <2>1, <2>2, NothingDue
<1>4. PICK e \in 1..Generations : e = EndGen(startGen) /\ e <= Generations
  BY <1>1, Ends
<1>5. ASSUME NEW stopping \in BOOLEAN, Collect(stopping), stopping => cancelRequested,
             ~ stopping => e = Generations
      PROVE  Rounds!Next
  <2>1. Round' = 0 /\ UNCHANGED Due  BY <1>1, <1>5, RoundCollect
  <2>2. cancelRequested \/ \A i \in Islands : evolved[i] = Generations
    BY <1>1, <1>4, <1>5
  <2> QED  BY <2>1, <2>2, AsStop
<1>6. CASE ShouldCancel
  <2>1. Collect(TRUE)  BY <1>6 DEF BatchOver
  <2> QED  BY <1>5, <1>6, <2>1 DEF ShouldCancel
<1>7. CASE ~ ShouldCancel /\ TotalWorkers > 1 /\ EndGen(startGen) < Generations
  <2>1. Migrate  BY <1>7 DEF BatchOver
  <2>2. \A i \in Islands : evolved[i] = EndGen(startGen)  BY <1>1, <1>7 DEF ShouldCancel
  <2>3. CASE Spin
    <3>1. UNCHANGED <<startGen, inbox>> /\ phase' = "spinning"  BY <2>3 DEF Spin
    <3>2. Round' = Round  BY <1>2, <3>1 DEF Round
    <3> QED  BY <3>1, <3>2, DueKept, AsStutter DEF Same
  <2>4. CASE Migrated  BY <1>1, <1>3, <1>7, <2>2, <2>4, RoundMigrated
  <2>5. ASSUME NEW T, NEW to, Await("migrate", T, to) PROVE Rounds!Next
    <3>1. Round' = EndGen(startGen) + 1  BY <2>5, RoundAwait
    <3> QED  BY <1>2, <1>3, <1>7, <2>2, <3>1, AsNextRound
  <2> QED  BY <2>1, <2>3, <2>4, <2>5 DEF Migrate
<1>8. CASE ~ ShouldCancel /\ ~ (TotalWorkers > 1 /\ EndGen(startGen) < Generations)
  <2>1. NextBatch  BY <1>8 DEF BatchOver
  <2>2. e = Generations
    <3>1. PICK g \in 1..Generations : g = startGen  BY <1>1
    <3>2. CASE TotalWorkers > 1  BY <1>1, <1>4, <1>8, <3>2
    <3>3. CASE ~ (TotalWorkers > 1)
      <4>1. TotalWorkers = 1  BY <3>3, Sizes
      <4>2. MigrationInterval = Generations  BY <4>1, PaceAssumption
      <4> QED  BY <1>4, <3>1, <4>2, PaceAssumption DEF EndGen
    <3> QED  BY <3>2, <3>3
  <2>3. PICK g : g = EndGen(startGen) + 1  OBVIOUS
  <2>4. g > Generations
    <3>1. g = Generations + 1  BY <1>4, <2>2, <2>3
    <3> QED  BY <3>1, PaceAssumption
  <2>5. EnterBatch(g)  BY <2>1, <2>3 DEF NextBatch
  <2>6. Collect(FALSE)  BY <2>4, <2>5 DEF EnterBatch
  <2> QED  BY <1>5, <2>2, <2>6
<1> QED  BY <1>6, <1>7, <1>8

-----------------------------------------------------------------------------
(* The coordinator's messages and ticks.                                   *)
LEMMA RoundOnReady ==
    ASSUME Inductive, NEW w \in Workers, OnReady(w)
    PROVE  [Rounds!Next]_(Rounds!vars)
<1>1. UNCHANGED <<evolved, cancelRequested>>  BY DEF OnReady, requests, workers
<1>2. CASE phase = "spawn" /\ \A x \in Workers \ {w} : thread[x] = "up" /\ outbox[x] = << >>
  <2>1. EnterBatch(1)  BY <1>2 DEF OnReady
  <2>2. 1 \in 1..Generations  BY PaceAssumption
  <2>3. UNCHANGED Due /\ (Round' = 1 \/ (cancelRequested /\ Round' = 0))
    BY <2>1, <2>2, RoundEnter DEF Inductive
  <2>4. Round = 1
    BY <1>2 DEF Inductive, Coordinator, Before, Round
  <2>5. CASE Round' = 1  BY <1>1, <2>3, <2>4, <2>5, AsStutter DEF Same
  <2>6. CASE cancelRequested /\ Round' = 0  BY <1>1, <2>3, <2>6, AsStop
  <2> QED  BY <2>3, <2>5, <2>6
<1>3. CASE ~ (phase = "spawn" /\ \A x \in Workers \ {w} : thread[x] = "up" /\ outbox[x] = << >>)
  <2>1. UNCHANGED <<phase, startGen, inbox>>  BY <1>3 DEF OnReady
  <2> QED  BY <1>1, <2>1, RoundKept, DueKept, AsStutter DEF Same
<1> QED  BY <1>2, <1>3

LEMMA RoundOnBatchDone ==
    ASSUME Inductive, TypeOK', NEW w \in Workers, OnBatchDone(w)
    PROVE  [Rounds!Next]_(Rounds!vars)
<1>1. /\ Arrives(w, "batch_done") /\ Take(w) /\ phase = "evolve"
      /\ UNCHANGED <<reports, wfReport, requests, workers>>
      /\ UNCHANGED <<evolved, cancelRequested>>
  BY DEF OnBatchDone, requests, workers
<1>2. CASE awaited = {Head(outbox[w]).island}
  <2>1. BatchOver  BY <1>2 DEF OnBatchDone, Resolve
  <2>2. Silent /\ \A i \in Islands : cancelSent \/ evolved[i] = EndGen(startGen)
    BY <1>1, <1>2, LastBatchDone
  <2> QED  BY <1>1, <2>1, <2>2, RoundBatchOver
<1>3. CASE awaited # {Head(outbox[w]).island}
  <2>1. UNCHANGED <<phase, startGen, inbox>>  BY <1>3 DEF OnBatchDone, Resolve
  <2> QED  BY <1>1, <2>1, RoundKept, DueKept, AsStutter DEF Same
<1> QED  BY <1>2, <1>3

(* The last answer that an island migration waits for: all have come.      *)
LEMMA AllAnswered ==
    ASSUME Inductive, NEW w \in Workers, Arrives(w, "migrate_done"), Take(w),
           phase = "migrate", awaited = {Head(outbox[w]).island}, NEW i \in Islands
    PROVE  MigratesTo(i) = 0
<1>1. PICK h : h = Head(outbox[w])  OBVIOUS
<1>2. Tells(outbox[w], "migrate_done", h.island) /\ h.island \in Hosted(w)
  BY <1>1, Heard
<1>3. PICK x \in Workers : x = WorkerOf(i) /\ i \in Hosted(x)  BY Hosts
<1>4. SentOnce(x)  BY DEF Inductive, Thread, InPhase
<1>5. ~ Tells(inbox[x], "migrate", i)
  <2> SUFFICES ASSUME Tells(inbox[x], "migrate", i) PROVE FALSE  OBVIOUS
  <2>1. i \in awaited  BY <1>3, <1>4 DEF SentOnce
  <2>2. i = h.island /\ x = w  BY <1>1, <1>2, <1>3, <2>1, Hosts
  <2> QED  BY <1>2, <1>3, <1>4, <2>2 DEF SentOnce
<1>6. \A k \in DOMAIN inbox[x] : inbox[x][k] # Reply("migrate", i)
  BY <1>5 DEF Tells, Reply, Message
<1> QED  BY <1>3, <1>6, DueIsNat DEF Inductive

LEMMA RoundOnMigrateDone ==
    ASSUME Inductive, TypeOK', NEW w \in Workers, OnMigrateDone(w)
    PROVE  [Rounds!Next]_(Rounds!vars)
<1>1. /\ Arrives(w, "migrate_done") /\ Take(w)
      /\ UNCHANGED <<reports, wfReport, requests, workers>>
      /\ UNCHANGED <<evolved, cancelRequested>>
  BY DEF OnMigrateDone, requests, workers
<1>2. PICK i : i = Head(outbox[w]).island  OBVIOUS
<1>3. TypeOK  BY DEF Inductive
<1>4. CASE awaited = {i} /\ phase = "migrate"
  <2>1. Migrated  BY <1>2, <1>4 DEF OnMigrateDone, Resolve
  <2>2. /\ EndGen(startGen) < Generations
        /\ \A j \in Islands : evolved[j] = EndGen(startGen)
    BY <1>1, <1>4, BetweenBatches
  <2>3. \A j \in Islands : MigratesTo(j) = 0  BY <1>1, <1>2, <1>4, AllAnswered
  <2> QED  BY <1>1, <1>3, <1>4, <2>1, <2>2, <2>3, RoundMigrated
<1>5. CASE awaited = {i} /\ phase = "travel"
  <2>1. NextBatch  BY <1>2, <1>5 DEF OnMigrateDone, Resolve
  <2>2. EndGen(startGen) < Generations  BY <1>1, <1>5, BetweenBatches
  <2>3. Round = EndGen(startGen) + 1  BY <1>5 DEF Round
  <2>4. UNCHANGED Due /\ (Round' = Round \/ (cancelRequested /\ Round' = 0))
    BY <1>3, <2>1, <2>2, <2>3, RoundNext
  <2>5. CASE Round' = Round  BY <1>1, <2>4, <2>5, AsStutter DEF Same
  <2>6. CASE cancelRequested /\ Round' = 0  BY <1>1, <2>4, <2>6, AsStop
  <2> QED  BY <2>4, <2>5, <2>6
<1>6. CASE awaited # {i} \/ phase \notin {"migrate", "travel"}
  <2>1. UNCHANGED <<phase, startGen, inbox>>
    BY <1>2, <1>6 DEF OnMigrateDone, Resolve
  <2> QED  BY <1>1, <2>1, RoundKept, DueKept, AsStutter DEF Same
<1> QED  BY <1>4, <1>5, <1>6

LEMMA RoundHeard ==
    ASSUME Inductive, NEW w \in Workers, OnProgress(w) \/ OnResults(w)
    PROVE  [Rounds!Next]_(Rounds!vars)
<1>1. CASE OnProgress(w)
  <2>1. UNCHANGED <<phase, startGen, inbox, evolved, cancelRequested>>
    BY <1>1 DEF OnProgress, requests, workers
  <2> QED  BY <2>1, RoundKept, DueKept, AsStutter DEF Same
<1>2. CASE OnResults(w)
  <2>1. UNCHANGED <<startGen, inbox, evolved, cancelRequested>>
    BY <1>2 DEF OnResults, requests, workers
  <2>2. phase = "collect" /\ phase' \in {"collect", "save", "terminate"}
    BY <1>2 DEF OnResults, Collected
  <2>3. Round = 0 /\ Round' = 0  BY <2>2 DEF Round
  <2> QED  BY <2>1, <2>3, DueKept, AsStutter DEF Same
<1> QED  BY <1>1, <1>2

LEMMA RoundPoll ==
    ASSUME Inductive, PollCancel \/ PollHyper
    PROVE  [Rounds!Next]_(Rounds!vars)
<1>1. /\ UNCHANGED <<phase, startGen, evolved, cancelRequested>>
      /\ \E type \in Orders : Post(ToAll(Signal(type)))
  BY DEF PollCancel, PollHyper, coordinator, requests, workers, Orders
<1>2. PICK type \in Orders : Post(ToAll(Signal(type)))  BY <1>1
<1>3. PICK m : m = Signal(type)  OBVIOUS
<1>4. m \in ToMsg /\ m.type # "migrate"
  BY <1>3, PaceAssumption DEF Signal, Message, ToMsg, Orders
<1>5. Post(ToAll(m))  BY <1>2, <1>3
<1>6. UNCHANGED Due  BY <1>4, <1>5, DueToAll DEF Inductive
<1> QED  BY <1>1, <1>6, RoundKept, AsStutter DEF Same

LEMMA RoundAside ==
    ASSUME SaveCache \/ TerminateWorkers \/ WalkForward \/ RequestCancel \/ RequestHyper
    PROVE  [Rounds!Next]_(Rounds!vars)
<1>1. CASE SaveCache \/ TerminateWorkers \/ WalkForward
  <2>1. UNCHANGED <<inbox, evolved, cancelRequested>>
    BY <1>1 DEF SaveCache, TerminateWorkers, WalkForward, requests, workers
  <2>2. Round = 0 /\ Round' = 0
    BY <1>1 DEF SaveCache, TerminateWorkers, WalkForward, Round
  <2> QED  BY <2>1, <2>2, DueKept, AsStutter DEF Same
<1>2. CASE RequestCancel
  <2>1. UNCHANGED <<phase, startGen, inbox, evolved>> /\ cancelRequested' = TRUE
    BY <1>2 DEF RequestCancel, coordinator, workers
  <2> QED  BY <2>1, RoundKept, DueKept, AsAsk
<1>3. CASE RequestHyper
  <2>1. UNCHANGED <<phase, startGen, inbox, evolved, cancelRequested>>
    BY <1>3 DEF RequestHyper, coordinator, workers
  <2> QED  BY <2>1, RoundKept, DueKept, AsStutter DEF Same
<1> QED  BY <1>1, <1>2, <1>3

-----------------------------------------------------------------------------
LEMMA RoundsInit == Init => Rounds!Init
<1> SUFFICES ASSUME Init PROVE Rounds!Init  OBVIOUS
<1>1. TypeOK /\ \A w \in Workers : inbox[w] = << >>
  BY Initially DEF Inductive, Init
<1>2. \A i \in Islands : MigratesTo(i) = 0
  <2> TAKE i \in Islands
  <2>1. PICK w \in Workers : i \in Hosted(w)  BY Hosts
  <2>2. ~ Has(inbox[w], "migrate")  BY <1>1 DEF Has
  <2> QED  BY <1>1, <2>1, <2>2, NothingDue
<1>3. Round = 1  BY DEF Init, Round
<1>4. evolved = [i \in Islands |-> 0] /\ cancelRequested = FALSE  BY DEF Init
<1> QED  BY <1>2, <1>3, <1>4 DEF Rounds!Init

LEMMA RoundsNext ==
    ASSUME Inductive, Inductive', [Next]_vars
    PROVE  [Rounds!Next]_(Rounds!vars)
<1>1. CASE UNCHANGED vars
  <2>1. UNCHANGED <<phase, startGen, inbox, evolved, cancelRequested>>
    BY <1>1 DEF vars, coordinator, requests, workers
  <2> QED  BY <2>1, RoundKept, DueKept, AsStutter DEF Same
<1>2. ASSUME NEW w \in Workers, Load(w) \/ Turn(w) \/ ToWorker(w)
      PROVE  [Rounds!Next]_(Rounds!vars)
  BY <1>2, RoundLoad, RoundTurn, RoundOnEvolve, RoundOnMigrate, RoundWorkerRest DEF ToWorker
<1>3. ASSUME NEW w \in Workers, FromWorker(w) PROVE [Rounds!Next]_(Rounds!vars)
  <2>1. TypeOK'  BY DEF Inductive
  <2> QED
    BY <1>3, <2>1, RoundOnReady, RoundOnBatchDone, RoundOnMigrateDone, RoundHeard DEF FromWorker
<1>4. CASE PollCancel \/ PollHyper  BY <1>4, RoundPoll
<1>5. CASE SaveCache \/ TerminateWorkers \/ WalkForward \/ RequestCancel \/ RequestHyper
  BY <1>5, RoundAside
<1> QED  BY <1>1, <1>2, <1>3, <1>4, <1>5 DEF Next

\* The coordinator's promises and the threads' FIFO channels implement rounds,
\* for any number of planets, islands, threads and generations: no island runs a
\* generation beyond the end of its batch or while migrants are on their way to
\* it, migrants are sent only when every island has come to the end of the batch,
\* and a run ends early only when it was asked to or could not begin
\* (runOptimization and the handlers of island-worker.js).
THEOREM ImplementsRounds == Spec => RoundsSpec
<1>1. Inductive /\ [Next]_vars => Inductive'  BY EveryStep
<1>2. Inductive /\ Inductive' /\ [Next]_vars => [Rounds!Next]_(Rounds!vars)  BY RoundsNext
<1> QED  BY Initially, RoundsInit, <1>1, <1>2, PTL DEF Spec, RoundsSpec, Rounds!Spec
=============================================================================
