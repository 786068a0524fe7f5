------------------------- MODULE IslandConsistency -------------------------
(***************************************************************************)
(* What coordinator and threads of an optimization run know of each other  *)
(* fits together (RunIsConsistent), for any shape of the run: the          *)
(* invariant of IslandInv is inductive.                                    *)
(*                                                                         *)
(* The lemmas come in this order: sequences, the arithmetic of islands and *)
(* workers, the channels, the steps of a worker, the messages after which  *)
(* the coordinator goes on waiting, and the barrier: the last message that *)
(* it waited for, with all that it does then.                              *)
(***************************************************************************)
EXTENDS IslandInv, FiniteSetTheorems, SequenceTheorems, TLAPS

-----------------------------------------------------------------------------
(* Sequences: what joining two and taking the first element of one do to   *)
(* what they hold and to its order.                                        *)
Joint(q, m) == q \o m
Rest(q) == Tail(q)

LEMMA JoinedBy ==
    ASSUME NEW S, NEW q \in Seq(S), NEW m \in Seq(S), NEW r, r = Joint(q, m)
    PROVE  /\ r \in Seq(S)
           /\ \A k \in DOMAIN q : k \in DOMAIN r /\ r[k] = q[k]
           /\ \A k \in DOMAIN m : Len(q) + k \in DOMAIN r /\ r[Len(q) + k] = m[k]
           /\ \A x \in DOMAIN r : x \in DOMAIN q \/ \E k \in DOMAIN m : x = Len(q) + k
<1>1. PICK n \in Nat : n = Len(q) /\ DOMAIN q = 1..n  BY LenProperties
<1>2. PICK p \in Nat : p = Len(m) /\ DOMAIN m = 1..p  BY LenProperties
<1>3. /\ r \in Seq(S) /\ Len(r) = n + p
      /\ \A x \in 1..(n + p) : r[x] = IF x <= n THEN q[x] ELSE m[x - n]
  <2>1. /\ q \o m \in Seq(S)
        /\ Len(q \o m) = Len(q) + Len(m)
        /\ \A x \in 1..(Len(q) + Len(m)) : (q \o m)[x] = IF x <= Len(q) THEN q[x] ELSE m[x - Len(q)]
    BY ConcatProperties, Zenon
  <2> QED  BY <2>1, <1>1, <1>2, Zenon DEF Joint
<1>4. DOMAIN r = 1..(n + p)  BY <1>3, LenProperties
<1>5. ASSUME NEW k \in 1..n PROVE k \in 1..(n + p) /\ r[k] = q[k]  BY <1>3
<1>6. ASSUME NEW k \in 1..p PROVE n + k \in 1..(n + p) /\ r[n + k] = m[k]
  <2>1. n + k \in 1..(n + p) /\ ~ (n + k <= n) /\ n + k - n = k  OBVIOUS
  <2> QED  BY <2>1, <1>3
<1>7. ASSUME NEW x \in 1..(n + p) PROVE x \in 1..n \/ \E k \in 1..p : x = n + k
  <2>1. CASE x <= n  BY <2>1
  <2>2. CASE x > n
    <3>1. x - n \in 1..p /\ x = n + (x - n)  BY <2>2
    <3> QED  BY <3>1
  <2>3. x <= n \/ x > n  OBVIOUS
  <2> QED  BY Zenon, <2>1, <2>2, <2>3
<1>8. \A k \in DOMAIN q : k \in DOMAIN r /\ r[k] = q[k]  BY Zenon, <1>1, <1>4, <1>5
<1>9. \A k \in DOMAIN m : Len(q) + k \in DOMAIN r /\ r[Len(q) + k] = m[k]
  BY Zenon, <1>1, <1>2, <1>4, <1>6
<1>10. ASSUME NEW x \in DOMAIN r PROVE x \in DOMAIN q \/ \E k \in DOMAIN m : x = Len(q) + k
  <2>1. x \in 1..(n + p)  BY Zenon, <1>4
  <2>2. CASE x \in 1..n  BY Zenon, <1>1, <2>2
  <2>3. CASE \E k \in 1..p : x = n + k
    <3>1. PICK k \in 1..p : x = n + k  BY Zenon, <2>3
    <3>2. k \in DOMAIN m /\ x = Len(q) + k  BY Zenon, <1>1, <1>2, <3>1
    <3> QED  BY Zenon, <3>2
  <2> QED  BY Zenon, <1>7, <2>1, <2>2, <2>3
<1> QED  BY Zenon, <1>3, <1>8, <1>9, <1>10

LEMMA Joined ==
    ASSUME NEW S, NEW q \in Seq(S), NEW m \in Seq(S), NEW r, r = Joint(q, m)
    PROVE  /\ r \in Seq(S)
           /\ \A x \in DOMAIN r : \/ \E k \in DOMAIN q : r[x] = q[k]
                                  \/ \E k \in DOMAIN m : r[x] = m[k]
           /\ \A k \in DOMAIN q : \E x \in DOMAIN r : r[x] = q[k]
           /\ \A k \in DOMAIN m : \E x \in DOMAIN r : r[x] = m[k]
           /\ \A types : Only(r, types) <=> Only(q, types) /\ Only(m, types)
           /\ \A type : Has(r, type) <=> Has(q, type) \/ Has(m, type)
           /\ \A type, i : Tells(r, type, i) <=> Tells(q, type, i) \/ Tells(m, type, i)
<1>1. /\ r \in Seq(S)
      /\ \A k \in DOMAIN q : k \in DOMAIN r /\ r[k] = q[k]
      /\ \A k \in DOMAIN m : Len(q) + k \in DOMAIN r /\ r[Len(q) + k] = m[k]
      /\ \A x \in DOMAIN r : x \in DOMAIN q \/ \E k \in DOMAIN m : x = Len(q) + k
  BY JoinedBy
<1>2. \A x \in DOMAIN r : \/ \E k \in DOMAIN q : r[x] = q[k]
                          \/ \E k \in DOMAIN m : r[x] = m[k]
  BY <1>1
<1>3. \A k \in DOMAIN q : \E x \in DOMAIN r : r[x] = q[k]  BY <1>1
<1>4. \A k \in DOMAIN m : \E x \in DOMAIN r : r[x] = m[k]  BY <1>1
<1>5. \A types : Only(r, types) <=> Only(q, types) /\ Only(m, types)
  BY <1>2, <1>3, <1>4 DEF Only
<1>6. \A type : Has(r, type) <=> Has(q, type) \/ Has(m, type)
  BY <1>2, <1>3, <1>4 DEF Has
<1>7. \A type, i : Tells(r, type, i) <=> Tells(q, type, i) \/ Tells(m, type, i)
  BY <1>2, <1>3, <1>4 DEF Tells
<1> QED  BY <1>1, <1>2, <1>3, <1>4, <1>5, <1>6, <1>7

LEMMA JoinedOrdered ==
    ASSUME NEW S, NEW q \in Seq(S), NEW m \in Seq(S), NEW r, r = Joint(q, m),
           Ordered(q), Ordered(m), \A k \in DOMAIN q, l \in DOMAIN m : Follows(q[k], m[l])
    PROVE  Ordered(r)
<1>1. /\ \A k \in DOMAIN q : k \in DOMAIN r /\ r[k] = q[k]
      /\ \A k \in DOMAIN m : Len(q) + k \in DOMAIN r /\ r[Len(q) + k] = m[k]
      /\ \A x \in DOMAIN r : x \in DOMAIN q \/ \E k \in DOMAIN m : x = Len(q) + k
  BY JoinedBy
<1>2. PICK n \in Nat : n = Len(q) /\ DOMAIN q = 1..n  BY LenProperties
<1>3. PICK p \in Nat : p = Len(m) /\ DOMAIN m = 1..p  BY LenProperties
<1> SUFFICES ASSUME NEW x \in DOMAIN r, NEW y \in DOMAIN r, x < y PROVE Follows(r[x], r[y])
  BY DEF Ordered
<1>4. CASE y \in DOMAIN q
  <2>1. x \in DOMAIN q
    <3>1. CASE \E k \in DOMAIN m : x = Len(q) + k  BY <1>2, <1>3, <1>4, <3>1
    <3> QED  BY <1>1, <3>1
  <2> QED  BY <1>1, <1>4, <2>1 DEF Ordered
<1>5. ASSUME NEW l \in DOMAIN m, y = Len(q) + l PROVE Follows(r[x], r[y])
  <2>1. r[y] = m[l]  BY <1>1, <1>5
  <2>2. CASE x \in DOMAIN q  BY <1>1, <2>1, <2>2
  <2>3. ASSUME NEW k \in DOMAIN m, x = Len(q) + k PROVE Follows(r[x], r[y])
    <3>1. k < l  BY <1>2, <1>3, <1>5, <2>3
    <3> QED  BY <1>1, <2>1, <2>3, <3>1 DEF Ordered
  <2> QED  BY <1>1, <2>2, <2>3
<1> QED  BY <1>1, <1>4, <1>5

LEMMA Tailed ==
    ASSUME NEW S, NEW q \in Seq(S), q # << >>, NEW r, r = Rest(q), NEW h, h = Head(q)
    PROVE  /\ r \in Seq(S) /\ h \in S
           /\ \E k \in DOMAIN q : q[k] = h
           /\ \A x \in DOMAIN r : \E k \in DOMAIN q : r[x] = q[k]
           /\ \A k \in DOMAIN q : q[k] = h \/ \E x \in DOMAIN r : r[x] = q[k]
           /\ \A types : Only(q, types) => Only(r, types) /\ h.type \in types
           /\ \A type : Has(r, type) => Has(q, type)
           /\ \A type : Has(q, type) /\ h.type # type => Has(r, type)
           /\ \A type, i : Tells(r, type, i) => Tells(q, type, i)
           /\ \A type, i : Tells(q, type, i) => Tells(r, type, i) \/ (h.type = type /\ h.island = i)
           /\ Ordered(q) => Ordered(r) /\ \A x \in DOMAIN r : Follows(h, r[x])
           /\ \A type : Once(q, type) => /\ Once(r, type)
                                         /\ h.type = type => ~ Tells(r, type, h.island)
<1>1. PICK n \in Nat \ {0} : n = Len(q) /\ DOMAIN q = 1..n
  BY LenProperties, EmptySeq
<1>2. /\ r \in Seq(S) /\ Len(r) = n - 1
      /\ \A x \in 1..(n - 1) : r[x] = q[x + 1]
  BY <1>1 DEF Rest
<1>3. DOMAIN r = 1..(n - 1)  BY <1>2, LenProperties
<1>4. h = q[1] /\ h \in S  BY <1>1
<1>5. 1 \in DOMAIN q  BY <1>1
<1>6. \A x \in DOMAIN r : x + 1 \in DOMAIN q /\ r[x] = q[x + 1] /\ 1 < x + 1
  BY <1>1, <1>2, <1>3
<1>7. \A x \in DOMAIN r : \E k \in DOMAIN q : r[x] = q[k]  BY <1>6
<1>8. \A k \in DOMAIN q : q[k] = h \/ \E x \in DOMAIN r : r[x] = q[k]
  <2> TAKE k \in DOMAIN q
  <2>1. CASE k = 1  BY <1>4, <2>1
  <2>2. CASE k # 1
    <3>1. k - 1 \in 1..(n - 1) /\ k - 1 + 1 = k  BY <1>1, <2>2
    <3> QED  BY <1>3, <1>6, <3>1
  <2> QED  BY <2>1, <2>2
<1>9. \E k \in DOMAIN q : q[k] = h  BY <1>4, <1>5
<1>10. \A types : Only(q, types) => Only(r, types) /\ h.type \in types  BY <1>7, <1>9 DEF Only
<1>11. /\ \A type : Has(r, type) => Has(q, type)
       /\ \A type : Has(q, type) /\ h.type # type => Has(r, type)
  BY <1>7, <1>8 DEF Has
<1>12. /\ \A type, i : Tells(r, type, i) => Tells(q, type, i)
       /\ \A type, i : Tells(q, type, i) => Tells(r, type, i) \/ (h.type = type /\ h.island = i)
  BY <1>7, <1>8 DEF Tells
<1>13. Ordered(q) => Ordered(r) /\ \A x \in DOMAIN r : Follows(h, r[x])
  <2> SUFFICES ASSUME Ordered(q) PROVE Ordered(r) /\ \A x \in DOMAIN r : Follows(h, r[x])
    OBVIOUS
  <2>1. \A x \in DOMAIN r : Follows(h, r[x])  BY <1>4, <1>5, <1>6 DEF Ordered
  <2>2. \A x, y \in DOMAIN r : x < y => x + 1 < y + 1  BY <1>3
  <2>3. Ordered(r)  BY <1>6, <2>2 DEF Ordered
  <2> QED  BY <2>1, <2>3
<1>14. ASSUME NEW type, Once(q, type)
       PROVE  Once(r, type) /\ (h.type = type => ~ Tells(r, type, h.island))
  <2>1. \A x, y \in DOMAIN r : x + 1 = y + 1 => x = y  BY <1>3
  <2>2. Once(r, type)  BY <1>6, <1>14, <2>1 DEF Once
  <2>3. \A x \in DOMAIN r : x + 1 # 1  BY <1>3
  <2>4. h.type = type => ~ Tells(r, type, h.island)
    BY <1>4, <1>5, <1>6, <1>14, <2>3 DEF Once, Tells
  <2> QED  BY <2>2, <2>4
<1>15. \A type : Once(q, type) => /\ Once(r, type)
                                  /\ h.type = type => ~ Tells(r, type, h.island)
  BY <1>14
<1> QED  BY <1>2, <1>4, <1>7, <1>8, <1>9, <1>10, <1>11, <1>12, <1>13, <1>15

-----------------------------------------------------------------------------
(* Arithmetic: division, and the islands of a worker.                      *)
LEMMA Division ==
    ASSUME NEW a \in Nat, NEW b \in Nat \ {0}
    PROVE  \E q \in Nat, r \in 0..(b - 1) : a = b*q + r /\ q = a \div b /\ r = a % b
<1>1. a \div b \in Int /\ a % b \in 0..(b - 1)  OBVIOUS
<1>2. PICK q \in Int : q = a \div b  BY <1>1
<1>3. PICK r \in 0..(b - 1) : r = a % b  BY <1>1
<1>4. a = b*q + r  BY <1>2, <1>3
<1>5. q >= 0
  <2> SUFFICES ASSUME q <= -1 PROVE FALSE  OBVIOUS
  <2>1. b*q <= -b  OBVIOUS
  <2> QED  BY <2>1, <1>4
<1>6. q \in Nat  BY <1>5
<1> QED  BY <1>2, <1>3, <1>4, <1>6, Zenon

LEMMA Quotient ==
    ASSUME NEW b \in Nat \ {0}, NEW q \in Int, NEW r \in 0..(b - 1), NEW a \in Nat, a = b*q + r
    PROVE  a \div b = q /\ a % b = r
  OBVIOUS

LEMMA SameRemainder ==
    ASSUME NEW b \in Nat \ {0}, NEW i \in Nat
    PROVE  (i + b) % b = i % b
<1>1. PICK q \in Nat, r \in 0..(b - 1) : i = b*q + r /\ r = i % b  BY Division
<1>2. PICK a \in Nat : a = i + b  OBVIOUS
<1>3. PICK p \in Int : p = q + 1  OBVIOUS
<1>4. a = b*p + r
  <2>1. b*(q + 1) = b*q + b  OBVIOUS
  <2>2. b*p = b*q + b  BY <1>3, <2>1, Zenon
  <2>3. i = b*q + r  BY <1>1
  <2> QED  BY <1>2, <2>2, <2>3
<1>5. a % b = r  BY <1>4, Quotient
<1> QED  BY <1>1, <1>2, <1>5

LEMMA RemainderGap ==
    ASSUME NEW b \in Nat \ {0}, NEW i \in Nat, NEW j \in Nat, i % b = j % b, i <= j
    PROVE  \E d \in Nat : j = i + d*b
<1>1. PICK q \in Nat, r \in 0..(b - 1) : i = b*q + r /\ r = i % b  BY Division
<1>2. PICK p \in Nat, s \in 0..(b - 1) : j = b*p + s /\ s = j % b  BY Division
<1>3. r = s  BY <1>1, <1>2
<1>4. i = b*q + r /\ j = b*p + r  BY <1>1, <1>2, <1>3
<1>5. PICK d \in Int : d = p - q  OBVIOUS
<1>6. d*b = b*p - b*q
  <2>1. (p - q)*b = b*p - b*q  OBVIOUS
  <2> QED  BY <1>5, <2>1, Zenon
<1>7. j = i + d*b  BY <1>4, <1>6
<1>8. d >= 0
  <2> SUFFICES ASSUME d <= -1 PROVE FALSE  OBVIOUS
  <2>1. d*b <= -b  OBVIOUS
  <2> QED  BY <2>1, <1>7
<1> QED  BY <1>7, <1>8

LEMMA Sizes ==
    /\ TotalWorkers \in Nat \ {0} /\ WorkerCount \in Nat \ {0} /\ WorkerCount <= TotalWorkers
    /\ Islands \subseteq Nat /\ Workers \subseteq Islands
    /\ None \notin Islands /\ TotalWorkers \notin Islands
    /\ \A i \in Islands : /\ None < i /\ i < TotalWorkers
                          /\ ~ (i < None) /\ ~ (TotalWorkers < i)
                          /\ None <= i /\ ~ (TotalWorkers <= i)
                          /\ i \in Nat /\ i \in Int /\ i # None
<1>1. PICK a \in Nat \ {0} : a = NumPlanets  BY ShapeAssumption
<1>2. PICK b \in Nat \ {0} : b = NumIslands  BY ShapeAssumption
<1>3. a * b \in Nat \ {0}  OBVIOUS
<1>4. TotalWorkers \in Nat \ {0}  BY <1>1, <1>2, <1>3 DEF TotalWorkers
<1>5. WorkerCount \in Nat \ {0} /\ WorkerCount <= TotalWorkers  BY <1>4, ShapeAssumption
<1> QED  BY <1>4, <1>5 DEF Islands, Workers, None

LEMMA Hosts ==
    /\ \A w \in Workers : \A i : i \in Hosted(w) <=> i \in Islands /\ WorkerOf(i) = w
    /\ \A i \in Islands : WorkerOf(i) \in Workers
    /\ \A w \in Workers : w \in Hosted(w)
<1>1. PICK c \in Nat \ {0} : c = WorkerCount  BY Sizes
<1>2. \A i \in Nat : i % c \in 0..(c - 1)  OBVIOUS
<1>3. \A i \in 0..(c - 1) : i % c = i  OBVIOUS
<1> QED  BY <1>1, <1>2, <1>3, Sizes DEF Hosted, WorkerOf, Workers

LEMMA NextHosted ==
    ASSUME NEW w \in Workers, NEW i \in Hosted(w)
    PROVE  /\ w <= i
           /\ i + WorkerCount \in Islands => i + WorkerCount \in Hosted(w)
           /\ \A j \in Hosted(w) : i < j => i + WorkerCount <= j
<1>1. PICK c \in Nat \ {0} : c = WorkerCount  BY Sizes
<1>2. i \in Nat /\ w \in Nat /\ i % c = w /\ w \in 0..(c - 1)
  BY <1>1, Hosts, Sizes DEF WorkerOf, Workers
<1>3. w <= i
  <2> SUFFICES ASSUME i < w PROVE FALSE  BY <1>2
  <2>1. i \in 0..(c - 1)  BY <1>2
  <2>2. i % c = i  BY <2>1
  <2> QED  BY <1>2, <2>2
<1>4. (i + c) % c = w  BY <1>2, SameRemainder
<1>5. ASSUME NEW j \in Hosted(w), i < j PROVE i + c <= j
  <2>1. j \in Nat /\ j % c = w  BY <1>1, Hosts, Sizes DEF WorkerOf
  <2>5. i % c = j % c /\ i <= j  BY <1>2, <1>5, <2>1
  <2>2. PICK d \in Nat : j = i + d*c  BY <1>2, <2>1, <2>5, RemainderGap, Zenon
  <2>3. d # 0  BY <1>2, <1>5, <2>2
  <2>4. d*c >= c  BY <2>3
  <2> QED  BY <1>2, <2>2, <2>4
<1> QED  BY <1>1, <1>3, <1>4, <1>5, Hosts DEF WorkerOf

LEMMA Ends ==
    ASSUME NEW g \in 1..Generations
    PROVE  /\ EndGen(g) \in g..Generations
           /\ EndGen(g) < Generations => EndGen(g) = g + MigrationInterval - 1
  BY PaceAssumption DEF EndGen

LEMMA Scaled ==
    ASSUME NEW c \in Nat \ {0}, NEW x \in Int, NEW y \in Int
    PROVE  /\ x < y => x*c < y*c
           /\ x <= y => x*c <= y*c
           /\ x*c < y*c => x < y
<1>1. PICK d \in Int : d = y - x  OBVIOUS
<1>2. d*c = y*c - x*c
  <2>1. (y - x)*c = y*c - x*c  OBVIOUS
  <2> QED  BY <1>1, <2>1, Zenon
<1>3. d > 0 => d*c > 0  OBVIOUS
<1>4. d >= 0 => d*c >= 0  OBVIOUS
<1>5. d <= 0 => d*c <= 0  OBVIOUS
<1> QED  BY <1>1, <1>2, <1>3, <1>4, <1>5

(* Messages to a worker, and from one. *)
ToMsg == [type : {"evolve", "migrate", "get_results", "hypermutate", "cancel"},
          island : Islands \cup {None}, gen : 0..Generations]
FromMsg == [type : {"ready", "gen_progress", "batch_done", "migrate_done", "results", "cache_delta"},
            island : Islands \cup {None}, gen : 0..Generations]

LEMMA Remaining ==
    ASSUME NEW type \in {"batch_done", "results"}, NEW w \in Workers, NEW i \in Hosted(w),
           NEW s, s = FromEach(type, i)
    PROVE  /\ s \in Seq(FromMsg)
           /\ \A k \in DOMAIN s : /\ s[k].type = type
                                  /\ s[k].island \in Hosted(w)
                                  /\ i <= s[k].island
           /\ \A j \in Hosted(w) : i <= j => Tells(s, type, j)
           /\ Ordered(s)
<1>1. PICK c \in Nat \ {0} : c = WorkerCount  BY Sizes
<1>2. PICK t \in Nat \ {0} : t = TotalWorkers /\ Islands = 0..(t - 1)  BY Sizes DEF Islands
<1>3. i \in Nat /\ i <= t - 1 /\ i % c = w /\ w \in 0..(c - 1)
  BY <1>1, <1>2, Hosts DEF WorkerOf, Workers
<1>4. PICK q \in Nat, r \in 0..(c - 1) : t - 1 - i = c*q + r /\ q = (t - 1 - i) \div c
  <2>1. t - 1 - i \in Nat  BY <1>2, <1>3
  <2> QED  BY <2>1, Division
<1>6. s = [k \in 1..(q + 1) |-> Message(type, i + (k - 1)*c, 0)]
  BY <1>1, <1>2, <1>4 DEF FromEach
<1>7. ASSUME NEW k \in 1..(q + 1)
      PROVE  i + (k - 1)*c \in Hosted(w) /\ i <= i + (k - 1)*c
  <2>1. PICK d \in 0..q : d = k - 1  OBVIOUS
  <2>2. d*c <= q*c /\ 0 <= d*c
    <3>1. 0*c <= d*c  BY Scaled
    <3> QED  BY <2>1, <3>1, Scaled
  <2>3. q*c = c*q  OBVIOUS
  <2>4. i + d*c \in 0..(t - 1)
    <3>1. d*c \in Int  OBVIOUS
    <3>2. t - 1 - i = c*q + r /\ c*q \in Int  BY <1>4
    <3> QED  BY <1>2, <1>3, <2>2, <2>3, <3>1, <3>2
  <2>5. PICK p \in Nat : i = c*p + w
    <3>1. PICK p \in Nat, x \in 0..(c - 1) : i = c*p + x /\ x = i % c  BY <1>3, Division
    <3> QED  BY <1>3, <3>1
  <2>6. i + d*c = c*(p + d) + w
    <3>1. c*(p + d) = c*p + d*c  OBVIOUS
    <3>2. w \in Nat  BY <1>3
    <3> QED  BY <2>5, <3>1, <3>2
  <2>7. (i + d*c) % c = w
    <3>1. PICK x \in Nat : x = i + d*c  BY <2>4
    <3>2. PICK y \in Int : y = p + d  OBVIOUS
    <3>3. x = c*y + w  BY <2>6, <3>1, <3>2, Zenon
    <3>4. x % c = w  BY <1>3, <3>3, Quotient
    <3> QED  BY <3>1, <3>4
  <2>8. i + d*c \in Hosted(w)  BY <1>1, <1>2, <2>4, <2>7, Hosts DEF WorkerOf
  <2> QED  BY <1>3, <2>1, <2>2, <2>8
<1>8. ASSUME NEW k \in 1..(q + 1)
      PROVE  /\ s[k] = Message(type, i + (k - 1)*c, 0)
             /\ s[k] \in FromMsg /\ s[k].type = type
             /\ s[k].island = i + (k - 1)*c
  <2>1. PICK j \in Islands : j = i + (k - 1)*c  BY <1>7, Hosts
  <2>2. s[k] = Message(type, j, 0)  BY <1>6, <2>1
  <2>3. 0 \in 0..Generations  BY PaceAssumption
  <2> QED  BY <2>1, <2>2, <2>3 DEF Message, FromMsg
<1>9. s \in Seq(FromMsg) /\ DOMAIN s = 1..(q + 1)
  <2>1. s \in [1..(q + 1) -> FromMsg]  BY <1>6, <1>8
  <2>2. q + 1 \in Nat  OBVIOUS
  <2> QED  BY <2>1, <2>2, SeqDef
<1>10. ASSUME NEW j \in Hosted(w), i <= j PROVE Tells(s, type, j)
  <2>1. j \in Nat /\ j <= t - 1 /\ j % c = i % c
    <3>1. j \in Islands /\ WorkerOf(j) = w  BY Hosts
    <3>2. j % c = w  BY <1>1, <3>1 DEF WorkerOf
    <3> QED  BY <1>2, <1>3, <3>1, <3>2
  <2>2. i % c = j % c /\ i <= j  BY <1>10, <2>1
  <2>3. PICK d \in Nat : j = i + d*c  BY <1>3, <2>1, <2>2, RemainderGap, Zenon
  <2>4. d <= q
    <3>1. c*q = q*c /\ (q + 1)*c = q*c + c  OBVIOUS
    <3>2. d*c <= c*q + r /\ d*c \in Int  BY <1>2, <1>3, <1>4, <2>1, <2>3
    <3>3. d*c < (q + 1)*c  BY <3>1, <3>2
    <3>4. PICK x \in Int : x = q + 1  OBVIOUS
    <3>5. d*c < x*c  BY <3>3, <3>4
    <3>6. d < x  BY <3>5, Scaled
    <3> QED  BY <3>4, <3>6
  <2>5. d + 1 \in 1..(q + 1) /\ d + 1 - 1 = d  BY <2>4
  <2>6. s[d + 1].type = type /\ s[d + 1].island = i + (d + 1 - 1)*c  BY <1>8, <2>5
  <2> QED  BY <1>9, <2>3, <2>5, <2>6 DEF Tells
<1>11. Ordered(s)
  <2> SUFFICES ASSUME NEW k \in 1..(q + 1), NEW l \in 1..(q + 1), k < l
               PROVE  Follows(s[k], s[l])
    BY <1>9 DEF Ordered
  <2>1. (k - 1)*c < (l - 1)*c
    <3>1. PICK x \in Int : x = k - 1  OBVIOUS
    <3>2. PICK y \in Int : y = l - 1  OBVIOUS
    <3>3. x < y  BY <3>1, <3>2
    <3>4. x*c < y*c  BY <3>3, Scaled
    <3> QED  BY <3>1, <3>2, <3>4
  <2>2. i + (k - 1)*c # i + (l - 1)*c  BY <1>3, <2>1
  <2> QED  BY <1>8, <2>2 DEF Follows
<1>12. \A k \in DOMAIN s : s[k].type = type /\ s[k].island \in Hosted(w) /\ i <= s[k].island
  BY <1>7, <1>8, <1>9
<1> QED  BY <1>9, <1>10, <1>11, <1>12

-----------------------------------------------------------------------------
(* Migrants: what the coordinator posts to whom.                           *)
LEMMA Enumeration ==
    ASSUME NEW S, IsFiniteSet(S), NEW f, f = SetToSeq(S)
    PROVE  /\ f \in Seq(S)
           /\ \A x \in S : \E k \in DOMAIN f : f[k] = x
           /\ \A k, l \in DOMAIN f : f[k] = f[l] => k = l
<1>1. PICK n \in Nat : n = Cardinality(S)  BY FS_CardinalityType
<1>2. PICK g : g \in Bijection(1..n, S)
  BY <1>1, FS_CardinalityType DEF ExistsBijection
<1>3. g \in [1..n -> S] /\ \A k, l \in 1..n : g[k] = g[l] => k = l
  BY <1>2 DEF Bijection, Injection, IsInjective
<1>4. IsInjective(g)  BY <1>3 DEF IsInjective
<1>5. f \in [1..n -> S] /\ IsInjective(f)  BY <1>1, <1>3, <1>4 DEF SetToSeq
<1>6. f \in Injection(1..n, S)  BY <1>5 DEF Injection, IsInjective
<1>7. Cardinality(1..n) = n  BY FS_Interval
<1>8. f \in Surjection(1..n, S)  BY <1>1, <1>6, <1>7, FS_Injection
<1>9. \A x \in S : \E k \in 1..n : f[k] = x  BY <1>8 DEF Surjection
<1>10. f \in Seq(S)  BY <1>5, SeqDef
<1> QED  BY <1>5, <1>9, <1>10 DEF IsInjective

(* m has one migrate for each d, to the island to[d] if w hosts it.        *)
Sends(D, to, w, m) ==
    /\ m \in Seq(ToMsg)
    /\ \A k \in DOMAIN m : m[k].type = "migrate" /\ m[k].island \in Hosted(w) /\ m[k].gen = 0
    /\ \A i \in Hosted(w) : (\E d \in D : to[d] = i) <=> Tells(m, "migrate", i)
    /\ (\A d, e \in D : to[d] = to[e] => d = e) => Once(m, "migrate")

LEMMA Posted ==
    ASSUME NEW D, IsFiniteSet(D), NEW to \in [D -> Islands], NEW w \in Workers
    PROVE  Sends(D, to, w, Migrates(D, to)[w])
<1> DEFINE m == Migrates(D, to)[w]
<1> DEFINE own == {d \in D : WorkerOf(to[d]) = w}
<1>1. IsFiniteSet(own)  BY FS_Subset
<1>2. PICK f : f = SetToSeq(own)  OBVIOUS
<1>3. /\ f \in Seq(own)
      /\ \A x \in own : \E k \in DOMAIN f : f[k] = x
      /\ \A k, l \in DOMAIN f : f[k] = f[l] => k = l
  BY <1>1, <1>2, Enumeration
<1>4. PICK n \in Nat : n = Len(f) /\ DOMAIN f = 1..n  BY <1>3, LenProperties
<1>5. m = [k \in 1..n |-> Message("migrate", to[f[k]], 0)]
  BY <1>2, <1>4 DEF Migrates
<1>6. ASSUME NEW k \in 1..n
      PROVE  /\ f[k] \in own /\ to[f[k]] \in Hosted(w)
             /\ m[k] \in ToMsg /\ m[k].type = "migrate" /\ m[k].island = to[f[k]] /\ m[k].gen = 0
  <2>1. f[k] \in own  BY <1>3, <1>4, ElementOfSeq
  <2>2. PICK i \in Islands : i = to[f[k]]  BY <2>1
  <2>3. i \in Hosted(w)  BY <2>1, <2>2, Hosts
  <2>4. m[k] = Message("migrate", i, 0)  BY <1>5, <2>2
  <2>5. 0 \in 0..Generations  BY PaceAssumption
  <2> QED  BY <2>1, <2>2, <2>3, <2>4, <2>5 DEF Message, ToMsg
<1>7. m \in Seq(ToMsg) /\ DOMAIN m = 1..n
  <2>1. m \in [1..n -> ToMsg]  BY <1>5, <1>6
  <2> QED  BY <2>1, SeqDef
<1>8. ASSUME NEW i \in Hosted(w)
      PROVE  (\E d \in D : to[d] = i) <=> Tells(m, "migrate", i)
  <2>1. ASSUME NEW d \in D, to[d] = i PROVE Tells(m, "migrate", i)
    <3>1. d \in own  BY <1>8, <2>1, Hosts
    <3>2. PICK k \in 1..n : f[k] = d  BY <1>3, <1>4, <3>1
    <3> QED  BY <1>6, <1>7, <2>1, <3>2 DEF Tells
  <2>2. ASSUME Tells(m, "migrate", i) PROVE \E d \in D : to[d] = i
    BY <1>6, <1>7, <2>2 DEF Tells
  <2> QED  BY <2>1, <2>2
<1>9. ASSUME \A d, e \in D : to[d] = to[e] => d = e PROVE Once(m, "migrate")
  <2> SUFFICES ASSUME NEW k \in 1..n, NEW l \in 1..n, m[k].island = m[l].island PROVE k = l
    BY <1>7 DEF Once
  <2>1. to[f[k]] = to[f[l]] /\ f[k] \in own /\ f[l] \in own  BY <1>6
  <2>2. f[k] = f[l]  BY <1>9, <2>1
  <2> QED  BY <1>3, <1>4, <2>2
<1>10. \A k \in DOMAIN m : m[k].type = "migrate" /\ m[k].island \in Hosted(w) /\ m[k].gen = 0
  BY <1>6, <1>7
<1> QED  BY <1>7, <1>8, <1>9, <1>10 DEF Sends

-----------------------------------------------------------------------------
(* The same for a channel of the run: r is q after m was posted, or after  *)
(* its first message h was taken.                                          *)
Joins(q, m, r) ==
    /\ \A x \in DOMAIN r : \/ \E k \in DOMAIN q : r[x] = q[k]
                           \/ \E k \in DOMAIN m : r[x] = m[k]
    /\ \A k \in DOMAIN q : \E x \in DOMAIN r : r[x] = q[k]
    /\ \A k \in DOMAIN m : \E x \in DOMAIN r : r[x] = m[k]
    /\ \A types : Only(r, types) <=> Only(q, types) /\ Only(m, types)
    /\ \A type : Has(r, type) <=> Has(q, type) \/ Has(m, type)
    /\ \A type, i : Tells(r, type, i) <=> Tells(q, type, i) \/ Tells(m, type, i)
    /\ \A w : MigrantsOf(w, q) /\ MigrantsOf(w, m) => MigrantsOf(w, r)
    /\ \A w : ReportsOf(w, q) /\ ReportsOf(w, m) => ReportsOf(w, r)
    /\ Plain(q) /\ Plain(m) => Plain(r)
    /\ Ordered(q) /\ Ordered(m) /\ (\A k \in DOMAIN q, l \in DOMAIN m : Follows(q[k], m[l]))
          => Ordered(r)

Takes(q, h, r) ==
    /\ \E k \in DOMAIN q : q[k] = h
    /\ \A x \in DOMAIN r : \E k \in DOMAIN q : r[x] = q[k]
    /\ \A k \in DOMAIN q : q[k] = h \/ \E x \in DOMAIN r : r[x] = q[k]
    /\ \A types : Only(q, types) => Only(r, types) /\ h.type \in types
    /\ \A type : Has(r, type) => Has(q, type)
    /\ \A type : Has(q, type) /\ h.type # type => Has(r, type)
    /\ \A type, i : Tells(r, type, i) => Tells(q, type, i)
    /\ \A type, i : Tells(q, type, i) => Tells(r, type, i) \/ (h.type = type /\ h.island = i)
    /\ Tells(q, h.type, h.island)
    /\ \A w : MigrantsOf(w, q) => /\ MigrantsOf(w, r)
                                  /\ h.type = "migrate" => h.island \in Hosted(w)
    /\ \A w : ReportsOf(w, q) =>
          /\ ReportsOf(w, r)
          /\ h.type \in {"migrate_done", "batch_done", "gen_progress"} => h.island \in Hosted(w)
    /\ Plain(q) => Plain(r) /\ (h.type \in {"migrate", "migrate_done"} => h.gen = 0)
    /\ Ordered(q) => Ordered(r) /\ \A x \in DOMAIN r : Follows(h, r[x])
    /\ \A type : Once(q, type) => /\ Once(r, type)
                                  /\ h.type = type => ~ Tells(r, type, h.island)

LEMMA Joining ==
    ASSUME NEW S, NEW q \in Seq(S), NEW m \in Seq(S), NEW r, r = Joint(q, m)
    PROVE  r \in Seq(S) /\ Joins(q, m, r)
<1>1. /\ r \in Seq(S)
      /\ \A x \in DOMAIN r : \/ \E k \in DOMAIN q : r[x] = q[k]
                             \/ \E k \in DOMAIN m : r[x] = m[k]
      /\ \A k \in DOMAIN q : \E x \in DOMAIN r : r[x] = q[k]
      /\ \A k \in DOMAIN m : \E x \in DOMAIN r : r[x] = m[k]
      /\ \A types : Only(r, types) <=> Only(q, types) /\ Only(m, types)
      /\ \A type : Has(r, type) <=> Has(q, type) \/ Has(m, type)
      /\ \A type, i : Tells(r, type, i) <=> Tells(q, type, i) \/ Tells(m, type, i)
  BY Joined
<1>2. /\ \A w : MigrantsOf(w, q) /\ MigrantsOf(w, m) => MigrantsOf(w, r)
      /\ \A w : ReportsOf(w, q) /\ ReportsOf(w, m) => ReportsOf(w, r)
      /\ Plain(q) /\ Plain(m) => Plain(r)
  <2>1. \A x \in DOMAIN r : \/ \E k \in DOMAIN q : r[x] = q[k]
                            \/ \E k \in DOMAIN m : r[x] = m[k]
    BY <1>1
  <2>2. \A w : MigrantsOf(w, q) /\ MigrantsOf(w, m) => MigrantsOf(w, r)  BY <2>1 DEF MigrantsOf
  <2>3. \A w : ReportsOf(w, q) /\ ReportsOf(w, m) => ReportsOf(w, r)  BY <2>1 DEF ReportsOf
  <2>4. Plain(q) /\ Plain(m) => Plain(r)  BY <2>1 DEF Plain
  <2> QED  BY <2>2, <2>3, <2>4
<1>3. Ordered(q) /\ Ordered(m) /\ (\A k \in DOMAIN q, l \in DOMAIN m : Follows(q[k], m[l]))
         => Ordered(r)
  BY JoinedOrdered
<1> QED  BY <1>1, <1>2, <1>3 DEF Joins

LEMMA Taking ==
    ASSUME NEW S, NEW q \in Seq(S), q # << >>, NEW r, r = Rest(q), NEW h, h = Head(q)
    PROVE  r \in Seq(S) /\ h \in S /\ Takes(q, h, r)
<1>1. /\ r \in Seq(S) /\ h \in S
      /\ \E k \in DOMAIN q : q[k] = h
      /\ \A x \in DOMAIN r : \E k \in DOMAIN q : r[x] = q[k]
      /\ \A k \in DOMAIN q : q[k] = h \/ \E x \in DOMAIN r : r[x] = q[k]
      /\ \A types : Only(q, types) => Only(r, types) /\ h.type \in types
      /\ \A type : Has(r, type) => Has(q, type)
      /\ \A type : Has(q, type) /\ h.type # type => Has(r, type)
      /\ \A type, i : Tells(r, type, i) => Tells(q, type, i)
      /\ \A type, i : Tells(q, type, i) => Tells(r, type, i) \/ (h.type = type /\ h.island = i)
      /\ Ordered(q) => Ordered(r) /\ \A x \in DOMAIN r : Follows(h, r[x])
      /\ \A type : Once(q, type) => /\ Once(r, type)
                                    /\ h.type = type => ~ Tells(r, type, h.island)
  BY Tailed
<1>2. Tells(q, h.type, h.island)  BY <1>1 DEF Tells
<1>3. ASSUME NEW w, MigrantsOf(w, q)
      PROVE  MigrantsOf(w, r) /\ (h.type = "migrate" => h.island \in Hosted(w))
  <2>1. MigrantsOf(w, r)  BY <1>1, <1>3 DEF MigrantsOf
  <2>2. h.type = "migrate" => h.island \in Hosted(w)  BY <1>1, <1>3 DEF MigrantsOf
  <2> QED  BY <2>1, <2>2
<1>4. ASSUME NEW w, ReportsOf(w, q)
      PROVE  /\ ReportsOf(w, r)
             /\ h.type \in {"migrate_done", "batch_done", "gen_progress"} => h.island \in Hosted(w)
  <2>1. ReportsOf(w, r)  BY <1>1, <1>4 DEF ReportsOf
  <2>2. h.type \in {"migrate_done", "batch_done", "gen_progress"} => h.island \in Hosted(w)
    BY <1>1, <1>4 DEF ReportsOf
  <2> QED  BY <2>1, <2>2
<1>5. ASSUME Plain(q)
      PROVE  Plain(r) /\ (h.type \in {"migrate", "migrate_done"} => h.gen = 0)
  <2>1. Plain(r)  BY <1>1, <1>5 DEF Plain
  <2>2. h.type \in {"migrate", "migrate_done"} => h.gen = 0  BY <1>1, <1>5 DEF Plain
  <2> QED  BY <2>1, <2>2
<1> QED  BY <1>1, <1>2, <1>3, <1>4, <1>5 DEF Takes

(* One message, or two.                                                    *)
LEMMA Single ==
    ASSUME NEW S, NEW a \in S, NEW m, m = <<a>>
    PROVE  /\ m \in Seq(S)
           /\ \A k \in DOMAIN m : m[k] = a
           /\ \E k \in DOMAIN m : m[k] = a
           /\ \A types : Only(m, types) <=> a.type \in types
           /\ \A type : Has(m, type) <=> a.type = type
           /\ \A type, i : Tells(m, type, i) <=> a.type = type /\ a.island = i
           /\ Ordered(m)
<1>1. m \in Seq(S) /\ DOMAIN m = {1} /\ m[1] = a  OBVIOUS
<1>2. \A k \in DOMAIN m : m[k] = a  BY <1>1
<1>3. \E k \in DOMAIN m : m[k] = a  BY <1>1
<1>4. Ordered(m)  BY <1>1 DEF Ordered
<1> QED  BY <1>1, <1>2, <1>3, <1>4 DEF Only, Has, Tells

LEMMA Posting ==
    ASSUME TypeOK, NEW ms \in [Workers -> Seq(ToMsg)], Post(ms)
    PROVE  /\ inbox' \in [Workers -> Seq(ToMsg)]
           /\ \A w \in Workers : Joins(inbox[w], ms[w], inbox'[w])
<1>1. inbox \in [Workers -> Seq(ToMsg)]  BY DEF TypeOK, ToMsg
<1>2. ASSUME NEW w \in Workers PROVE inbox'[w] \in Seq(ToMsg) /\ Joins(inbox[w], ms[w], inbox'[w])
  <2>1. PICK q \in Seq(ToMsg) : q = inbox[w]  BY <1>1
  <2>2. PICK m \in Seq(ToMsg) : m = ms[w]  OBVIOUS
  <2>3. PICK r : r = inbox'[w]  OBVIOUS
  <2>4. r = Joint(q, m)  BY <2>1, <2>2, <2>3 DEF Post, Joint
  <2>5. r \in Seq(ToMsg) /\ Joins(q, m, r)  BY <2>4, Joining
  <2> QED  BY <2>1, <2>2, <2>3, <2>5
<1>3. inbox' = [w \in Workers |-> inbox[w] \o ms[w]]  BY DEF Post
<1> QED  BY <1>2, <1>3

LEMMA Sending ==
    ASSUME TypeOK, NEW w \in Workers, NEW m \in Seq(FromMsg),
           outbox' = [outbox EXCEPT ![w] = @ \o m]
    PROVE  /\ outbox' \in [Workers -> Seq(FromMsg)]
           /\ \A x \in Workers \ {w} : outbox'[x] = outbox[x]
           /\ Joins(outbox[w], m, outbox'[w])
<1>1. outbox \in [Workers -> Seq(FromMsg)]  BY DEF TypeOK, FromMsg
<1>2. PICK q \in Seq(FromMsg) : q = outbox[w]  BY <1>1
<1>3. PICK r : r = Joint(q, m)  OBVIOUS
<1>4. r \in Seq(FromMsg) /\ Joins(q, m, r)  BY <1>3, Joining
<1>5. outbox' = [outbox EXCEPT ![w] = r]  BY <1>2, <1>3 DEF Joint
<1>6. outbox'[w] = r /\ outbox' \in [Workers -> Seq(FromMsg)]
      /\ \A x \in Workers \ {w} : outbox'[x] = outbox[x]
  BY <1>1, <1>4, <1>5
<1> QED  BY <1>2, <1>4, <1>6

LEMMA Removing ==
    ASSUME TypeOK, NEW w \in Workers, outbox[w] # << >>, Take(w)
    PROVE  /\ outbox' \in [Workers -> Seq(FromMsg)] /\ Head(outbox[w]) \in FromMsg
           /\ \A x \in Workers \ {w} : outbox'[x] = outbox[x]
           /\ Takes(outbox[w], Head(outbox[w]), outbox'[w])
<1>1. outbox \in [Workers -> Seq(FromMsg)]  BY DEF TypeOK, FromMsg
<1>2. PICK q \in Seq(FromMsg) : q = outbox[w]  BY <1>1
<1>3. PICK r : r = Rest(q)  OBVIOUS
<1>4. PICK h : h = Head(q)  OBVIOUS
<1>5. q # << >>  BY <1>2
<1>6. r \in Seq(FromMsg) /\ h \in FromMsg /\ Takes(q, h, r)  BY <1>3, <1>4, <1>5, Taking
<1>7. outbox' = [outbox EXCEPT ![w] = r]  BY <1>2, <1>3 DEF Rest, Take
<1>8. outbox'[w] = r /\ outbox' \in [Workers -> Seq(FromMsg)]
      /\ \A x \in Workers \ {w} : outbox'[x] = outbox[x]
  BY <1>1, <1>6, <1>7
<1> QED  BY <1>2, <1>4, <1>6, <1>8

LEMMA Receiving ==
    ASSUME TypeOK, NEW w \in Workers, NEW type, Receives(w, type)
    PROVE  /\ inbox' \in [Workers -> Seq(ToMsg)] /\ Head(inbox[w]) \in ToMsg
           /\ \A x \in Workers \ {w} : inbox'[x] = inbox[x]
           /\ Takes(inbox[w], Head(inbox[w]), inbox'[w])
<1>1. inbox \in [Workers -> Seq(ToMsg)]  BY DEF TypeOK, ToMsg
<1>2. PICK q \in Seq(ToMsg) : q = inbox[w]  BY <1>1
<1>3. PICK r : r = Rest(q)  OBVIOUS
<1>4. PICK h : h = Head(q)  OBVIOUS
<1>5. q # << >>  BY <1>2 DEF Receives
<1>6. r \in Seq(ToMsg) /\ h \in ToMsg /\ Takes(q, h, r)  BY <1>3, <1>4, <1>5, Taking
<1>7. inbox' = [inbox EXCEPT ![w] = r]  BY <1>2, <1>3 DEF Rest, Receives
<1>8. inbox'[w] = r /\ inbox' \in [Workers -> Seq(ToMsg)]
      /\ \A x \in Workers \ {w} : inbox'[x] = inbox[x]
  BY <1>1, <1>6, <1>7
<1> QED  BY <1>2, <1>4, <1>6, <1>8

-----------------------------------------------------------------------------
(* A worker that a step leaves alone.                                      *)
LEMMA Untouched ==
    ASSUME NEW x \in Workers, Thread(x), UNCHANGED <<phase, startGen, cancelSent>>,
           inbox'[x] = inbox[x], outbox'[x] = outbox[x], job'[x] = job[x],
           cancelled'[x] = cancelled[x], thread'[x] = thread[x],
           \A i \in Hosted(x) : /\ evolved'[i] = evolved[i] /\ islandGen'[i] = islandGen[i]
                                /\ i \in awaited' <=> i \in awaited
    PROVE  Thread(x)'
<1>1. Addressed(x)' /\ InOrder(x)'  BY DEF Thread, Addressed, InOrder
<1>2. Loading(x)' <=> Loading(x)  BY DEF Loading
<1>3. InBatch(x) => InBatch(x)'
  <2> SUFFICES ASSUME InBatch(x) PROVE InBatch(x)'  OBVIOUS
  <2>1. Reached(x)' = Reached(x)  BY DEF Reached
  <2>2. Begins(x) => Begins(x)'  BY DEF Begins
  <2>3. Runs(x) => Runs(x)'  BY DEF Runs, EndGen
  <2>4. PICK at : at = Reached(x)  OBVIOUS
  <2>5. Progress(x, at) => Progress(x, at)'  BY DEF Progress, EndGen
  <2>6. Spoken(x, outbox[x], at) => Spoken(x, outbox[x], at)'  BY DEF Spoken
  <2>7. Progress(x, Reached(x))'  BY <2>1, <2>4, <2>5 DEF InBatch
  <2>8. Spoken(x, outbox[x], Reached(x))'  BY <2>1, <2>4, <2>6 DEF InBatch
  <2> QED  BY <2>2, <2>3, <2>7, <2>8 DEF InBatch
<1>4. Between(x) => Between(x)'  BY DEF Between, EndGen
<1>5. SentOnce(x) => SentOnce(x)'  BY DEF SentOnce
<1>6. After(x) => After(x)'  BY DEF After
<1>7. InPhase(x)'  BY <1>2, <1>3, <1>4, <1>5, <1>6 DEF Thread, InPhase
<1>8. Reported(x, outbox[x])'
  <2>1. ReportsOf(x, outbox[x]) /\ Reported(x, outbox[x])  BY DEF Thread, Addressed
  <2> QED  BY <2>1 DEF Reported, ReportsOf
<1>9. Stopped(x)'  BY DEF Thread, Stopped
<1> QED  BY <1>1, <1>7, <1>8, <1>9 DEF Thread

LEMMA CountersKept ==
    ASSUME Coordinator,
           UNCHANGED <<phase, startGen, cancelSent, cancelRequested, counters>>
    PROVE  Coordinator'
  BY DEF Coordinator, Tally, EndGen, counters

JobType == [island : Islands \cup {None}, gen : 0..Generations + 1, startGen : 0..Generations]
HyperType == [active : 0..HyperDuration, source : {"none", "auto", "manual"},
              lastEnd : {NeverEnded} \cup 0..Generations,
              mutationRate : {"base", "boosted"}, perGeneMut : {"base", "boosted"}]

WorkerTypes ==
    /\ inbox \in [Workers -> Seq(ToMsg)] /\ outbox \in [Workers -> Seq(FromMsg)]
    /\ thread \in [Workers -> {"loading", "up", "gone"}]
    /\ cancelled \in [Workers -> BOOLEAN]
    /\ job \in [Workers -> JobType]
    /\ evolved \in [Islands -> 0..Generations]
    /\ hyper \in [Islands -> HyperType]
    /\ lastBoosted \in [Islands -> {NeverEnded} \cup 0..Generations]

LEMMA TypeSplit ==
    /\ TypeOK => WorkerTypes
    /\ TypeOK /\ WorkerTypes' /\ UNCHANGED <<coordinator, requests>> => TypeOK'
  BY DEF TypeOK, WorkerTypes, JobType, HyperType, ToMsg, FromMsg, coordinator, requests,
         reports, counters

LEMMA WorkerStep ==
    ASSUME Inductive, NEW w \in Workers, UNCHANGED <<coordinator, requests>>, WorkerTypes',
           \A x \in Workers \ {w} :
              /\ inbox'[x] = inbox[x] /\ outbox'[x] = outbox[x] /\ job'[x] = job[x]
              /\ cancelled'[x] = cancelled[x] /\ thread'[x] = thread[x],
           \A i \in Islands : i \notin Hosted(w) => evolved'[i] = evolved[i],
           Thread(w)'
    PROVE  Inductive'
<1>1. TypeOK'  BY TypeSplit DEF Inductive
<1>2. UNCHANGED <<phase, startGen, cancelSent, cancelRequested, awaited, islandGen,
                  generationLog, counters>>
  BY DEF coordinator, requests, reports
<1>3. LogIsGapless'  BY <1>2 DEF Inductive, LogIsGapless
<1>4. Coordinator'  BY <1>2, CountersKept DEF Inductive
<1>5. ASSUME NEW x \in Workers, x # w PROVE Thread(x)'
  <2>1. \A i \in Hosted(x) : i \in Islands /\ i \notin Hosted(w)  BY <1>5, Hosts
  <2>2. \A i \in Hosted(x) : /\ evolved'[i] = evolved[i] /\ islandGen'[i] = islandGen[i]
                             /\ i \in awaited' <=> i \in awaited
    BY <1>2, <2>1
  <2>3. Thread(x)  BY DEF Inductive
  <2> QED  BY <1>2, <1>5, <2>2, <2>3, Untouched
<1> QED  BY <1>1, <1>3, <1>4, <1>5 DEF Inductive

LEMMA Triggers ==
    ASSUME NEW h \in HyperType, NEW source \in {"auto", "manual"}
    PROVE  Trigger(h, source) \in HyperType
<1>1. HyperDuration \in 0..HyperDuration  BY HyperAssumption
<1> QED  BY <1>1 DEF Trigger, HyperType

LEMMA Decays ==
    ASSUME NEW h \in HyperType, NEW g \in 0..Generations
    PROVE  Decay(h, g) \in HyperType
<1>1. CASE h.active = 0  BY <1>1 DEF Decay
<1>2. CASE h.active > 1
  <2>1. h.active - 1 \in 0..HyperDuration  BY <1>2, HyperAssumption DEF HyperType
  <2> QED  BY <1>2, <2>1 DEF Decay, HyperType
<1>3. CASE h.active = 1
  <2>1. 0 \in 0..HyperDuration  BY HyperAssumption DEF HyperType
  <2>2. Decay(h, g) = [h EXCEPT !.active = 0, !.source = "none", !.lastEnd = g,
                                !.mutationRate = "base", !.perGeneMut = "base"]
    BY <1>3 DEF Decay
  <2> QED  BY <2>1, <2>2 DEF HyperType
<1> QED  BY <1>1, <1>2, <1>3, HyperAssumption DEF HyperType

(* A worker takes a cancel or a hypermutate.                               *)
LEMMA OrderTaken ==
    ASSUME Inductive, NEW w \in Workers, NEW type \in Orders, Receives(w, type),
           UNCHANGED <<outbox, job, evolved>>,
           cancelled'[w] = cancelled[w] \/ (cancelled'[w] = TRUE /\ type = "cancel")
    PROVE  Thread(w)'
<1>1. UNCHANGED <<coordinator, requests, thread>>  BY DEF Receives
<1>2. PICK h : h = Head(inbox[w])  OBVIOUS
<1>3. Takes(inbox[w], h, inbox'[w])
  BY <1>2, Receiving DEF Inductive
<1>4. h.type = type /\ type \in {"cancel", "hypermutate"}  BY <1>2 DEF Receives, Orders
<1>5. cancelled[w] \in BOOLEAN  BY DEF Inductive, TypeOK
<1>7. Thread(w)  BY DEF Inductive
<1>8. UNCHANGED <<phase, startGen, cancelSent, awaited, islandGen>>
  BY <1>1 DEF coordinator, reports
<1>9. Has(inbox[w], h.type)  BY <1>3 DEF Takes, Has
<1>10. Addressed(w)' /\ InOrder(w)'
  BY <1>3, <1>7 DEF Thread, Addressed, InOrder, Takes
<1>11. ~ Loading(w)  BY <1>9 DEF Loading, Has
<1>12. InBatch(w) => InBatch(w)'
  <2> SUFFICES ASSUME InBatch(w) PROVE InBatch(w)'  OBVIOUS
  <2>1. Has(inbox'[w], "evolve") <=> Has(inbox[w], "evolve")
    BY <1>3, <1>4 DEF Takes
  <2>2. Reached(w)' = Reached(w)  BY <2>1 DEF Reached
  <2>3. Begins(w) => Begins(w)'  BY <1>3, <1>8 DEF Begins, Takes
  <2>4. Runs(w) => Runs(w)'  BY <1>8 DEF Runs, EndGen
  <2>5. PICK at : at = Reached(w)  OBVIOUS
  <2>6. Progress(w, at) => Progress(w, at)'  BY <1>5, <1>8 DEF Progress, EndGen
  <2>7. Spoken(w, outbox[w], at) => Spoken(w, outbox[w], at)'  BY <1>8 DEF Spoken
  <2>8. Progress(w, Reached(w))' /\ Spoken(w, outbox[w], Reached(w))'
    BY <2>2, <2>5, <2>6, <2>7 DEF InBatch
  <2>9. \A types : Only(inbox[w], types) => Only(inbox'[w], types)  BY <1>3 DEF Takes
  <2> QED  BY <2>1, <2>3, <2>4, <2>8, <2>9 DEF InBatch
<1>13. Between(w) => Between(w)'  BY <1>3, <1>8 DEF Between, EndGen, Takes
<1>14. SentOnce(w) => SentOnce(w)'  BY <1>3, <1>4, <1>8 DEF SentOnce, Takes
<1>15. After(w) => After(w)'  BY <1>3, <1>8 DEF After, Takes
<1>16. InPhase(w)'
  BY <1>1, <1>7, <1>8, <1>11, <1>12, <1>13, <1>14, <1>15 DEF Thread, InPhase
<1>17. Reported(w, outbox[w])'  BY <1>7, <1>8 DEF Thread, Reported
<1>18. Stopped(w)'  BY <1>3, <1>5, <1>7, <1>8, <1>9, <1>4 DEF Thread, Stopped, Takes
<1> QED  BY <1>10, <1>16, <1>17, <1>18 DEF Thread

LEMMA StepOnCancel ==
    ASSUME Inductive, NEW w \in Workers, OnCancel(w)
    PROVE  Inductive'
<1>1. /\ Receives(w, "cancel") /\ cancelled' = [cancelled EXCEPT ![w] = TRUE]
      /\ UNCHANGED <<outbox, job, evolved, hyper, lastBoosted>>
      /\ UNCHANGED <<coordinator, requests, thread>>
  BY DEF OnCancel, Receives
<1>2. /\ inbox' \in [Workers -> Seq(ToMsg)]
      /\ \A x \in Workers \ {w} : inbox'[x] = inbox[x]
  BY <1>1, Receiving DEF Inductive
<1>3. WorkerTypes  BY TypeSplit DEF Inductive
<1>4. WorkerTypes' /\ cancelled'[w] = TRUE
      /\ \A x \in Workers \ {w} : cancelled'[x] = cancelled[x]
  BY <1>1, <1>2, <1>3 DEF WorkerTypes
<1>5. Thread(w)'  BY <1>1, <1>4, OrderTaken DEF Orders
<1> QED  BY <1>1, <1>2, <1>4, <1>5, WorkerStep

LEMMA StepOnHypermutate ==
    ASSUME Inductive, NEW w \in Workers, OnHypermutate(w)
    PROVE  Inductive'
<1>1. /\ Receives(w, "hypermutate")
      /\ hyper' = [i \in Islands |-> IF i \in Hosted(w) /\ hyper[i].active = 0
                                     THEN Trigger(hyper[i], "manual") ELSE hyper[i]]
      /\ UNCHANGED <<outbox, cancelled, job, evolved, lastBoosted>>
      /\ UNCHANGED <<coordinator, requests, thread>>
  BY DEF OnHypermutate, Receives
<1>2. /\ inbox' \in [Workers -> Seq(ToMsg)]
      /\ \A x \in Workers \ {w} : inbox'[x] = inbox[x]
  BY <1>1, Receiving DEF Inductive
<1>3. WorkerTypes  BY TypeSplit DEF Inductive
<1>4. hyper' \in [Islands -> HyperType]
  <2>1. \A i \in Islands : hyper[i] \in HyperType  BY <1>3 DEF WorkerTypes
  <2>2. \A i \in Islands : Trigger(hyper[i], "manual") \in HyperType  BY <2>1, Triggers
  <2> QED  BY <1>1, <2>1, <2>2
<1>5. WorkerTypes'  BY <1>1, <1>2, <1>3, <1>4 DEF WorkerTypes
<1>6. Thread(w)'  BY <1>1, OrderTaken DEF Orders
<1> QED  BY <1>1, <1>2, <1>5, <1>6, WorkerStep

LEMMA Saying ==
    ASSUME TypeOK, NEW w \in Workers, NEW a \in FromMsg,
           outbox' = [outbox EXCEPT ![w] = Append(@, a)]
    PROVE  /\ outbox' \in [Workers -> Seq(FromMsg)]
           /\ \A x \in Workers \ {w} : outbox'[x] = outbox[x]
           /\ Joins(outbox[w], <<a>>, outbox'[w])
<1>1. outbox \in [Workers -> Seq(FromMsg)]  BY DEF TypeOK, FromMsg
<1>2. PICK q \in Seq(FromMsg) : q = outbox[w]  BY <1>1
<1>3. Append(q, a) = q \o <<a>>  BY AppendIsConcat
<1>4. outbox' = [outbox EXCEPT ![w] = @ \o <<a>>]  BY <1>2, <1>3
<1>5. <<a>> \in Seq(FromMsg)  OBVIOUS
<1> QED  BY <1>4, <1>5, Sending

LEMMA StepOnMigrate ==
    ASSUME Inductive, NEW w \in Workers, OnMigrate(w)
    PROVE  Inductive'
<1>1. /\ Receives(w, "migrate")
      /\ UNCHANGED <<cancelled, job, evolved, hyper, lastBoosted>>
      /\ UNCHANGED <<coordinator, requests, thread>>
  BY DEF OnMigrate, Receives
<1>2. PICK h : h = Head(inbox[w])  OBVIOUS
<1>3. /\ inbox' \in [Workers -> Seq(ToMsg)]
      /\ \A x \in Workers \ {w} : inbox'[x] = inbox[x]
      /\ Takes(inbox[w], h, inbox'[w]) /\ h \in ToMsg
  BY <1>1, <1>2, Receiving DEF Inductive
<1>4. h.type = "migrate"  BY <1>1, <1>2 DEF Receives
<1>5. Thread(w)  BY DEF Inductive
<1>6. PICK i : i = h.island  OBVIOUS
<1>7. i \in Hosted(w) /\ i \in Islands
  BY <1>3, <1>4, <1>5, <1>6, Hosts DEF Thread, Addressed, Takes
<1>8. PICK a : a = Message("migrate_done", i, 0)  OBVIOUS
<1>9. a \in FromMsg /\ a.type = "migrate_done" /\ a.island = i /\ a.gen = 0
  <2>1. 0 \in 0..Generations  BY PaceAssumption
  <2> QED  BY <1>7, <1>8, <2>1 DEF FromMsg, Message
<1>10. outbox' = [outbox EXCEPT ![w] = Append(@, a)]
  BY <1>2, <1>6, <1>8 DEF OnMigrate
<1>11. /\ outbox' \in [Workers -> Seq(FromMsg)]
       /\ \A x \in Workers \ {w} : outbox'[x] = outbox[x]
       /\ Joins(outbox[w], <<a>>, outbox'[w])
  BY <1>9, <1>10, Saying DEF Inductive
<1>12. PICK m : m = <<a>>  OBVIOUS
<1>13. /\ \A k \in DOMAIN m : m[k] = a
       /\ \A types : Only(m, types) <=> a.type \in types
       /\ \A type : Has(m, type) <=> a.type = type
       /\ \A type, j : Tells(m, type, j) <=> a.type = type /\ a.island = j
       /\ Ordered(m)
  BY <1>9, <1>12, Single
<1>14. Joins(outbox[w], m, outbox'[w])  BY <1>11, <1>12
<1>15. WorkerTypes'  BY <1>1, <1>3, <1>11, TypeSplit DEF Inductive, WorkerTypes
<1>16. UNCHANGED <<phase, startGen, cancelSent, awaited, islandGen>>
  BY <1>1 DEF coordinator, reports
<1>17. Has(inbox[w], "migrate") /\ Tells(inbox[w], "migrate", i)
  BY <1>3, <1>4, <1>6 DEF Takes, Has
<1>18. Thread(w)'
  <2>1. Addressed(w)'
    <3>1. ReportsOf(w, m) /\ Plain(m)  BY <1>7, <1>9, <1>13 DEF ReportsOf, Plain
    <3> QED  BY <1>3, <1>5, <1>14, <3>1 DEF Thread, Addressed, Takes, Joins
  <2>2. ~ Loading(w)  BY <1>17 DEF Loading, Has
  <2>3. ASSUME InBatch(w)
        PROVE  /\ Has(inbox[w], "evolve") /\ Reached(w) = None
               /\ ~ Has(outbox[w], "batch_done") /\ ~ Has(outbox[w], "gen_progress")
    <3>1. Has(inbox[w], "evolve")  BY <1>17, <2>3 DEF InBatch, Only, Has, Orders
    <3>2. Reached(w) = None  BY <3>1 DEF Reached
    <3>3. \A j \in Hosted(w) : j \in Islands /\ None < j /\ ~ (j < None)  BY Hosts, Sizes
    <3>4. /\ \A j \in Hosted(w) : ~ Tells(outbox[w], "batch_done", j)
          /\ \A j \in Hosted(w) : evolved[j] = startGen - 1 /\ startGen - 1 <= islandGen[j]
      BY <2>3, <3>2, <3>3 DEF InBatch, Progress, Spoken
    <3>5. ReportsOf(w, outbox[w])  BY <1>5 DEF Thread, Addressed
    <3>6. ~ Has(outbox[w], "batch_done")  BY <3>4, <3>5 DEF Has, Tells, ReportsOf
    <3>7. ASSUME NEW k \in DOMAIN outbox[w], outbox[w][k].type = "gen_progress" PROVE FALSE
      <4>1. PICK j \in Hosted(w) : j = outbox[w][k].island  BY <3>5, <3>7 DEF ReportsOf
      <4>2. PICK g : g = outbox[w][k].gen  OBVIOUS
      <4>3. g \in Int
        <5>1. outbox[w] \in Seq(FromMsg)  BY TypeSplit DEF Inductive, WorkerTypes
        <5>2. outbox[w][k] \in FromMsg  BY <5>1, ElementOfSeq, LenProperties
        <5> QED  BY <4>2, <5>2 DEF FromMsg
      <4>4. islandGen[j] < g /\ g <= evolved[j]
        BY <1>5, <3>7, <4>1, <4>2 DEF Thread, Reported
      <4>5. islandGen[j] \in Int /\ startGen \in Int
        BY <4>1, Hosts DEF Inductive, TypeOK
      <4> QED  BY <3>4, <4>1, <4>3, <4>4, <4>5
    <3>8. ~ Has(outbox[w], "gen_progress")  BY <3>7 DEF Has
    <3> QED  BY <3>1, <3>2, <3>6, <3>8
  <2>4. ~ Has(outbox[w], "batch_done") /\ ~ Has(outbox[w], "gen_progress")
    <3>1. phase \in {"evolve", "migrate", "travel"} \cup Ending \cup {"spinning"}
      BY <1>5, <2>2 DEF Thread, InPhase, Inductive, TypeOK, Before, Ending
    <3>2. CASE phase = "evolve"  BY <1>5, <2>3, <3>2 DEF Thread, InPhase
    <3>3. CASE phase \in {"migrate", "travel"}
      BY <1>5, <3>3 DEF Thread, InPhase, Between, Only, Has
    <3>4. CASE phase \in Ending \cup {"spinning"}
      BY <1>5, <3>4 DEF Thread, InPhase, After, Only, Has
    <3> QED  BY <3>1, <3>2, <3>3, <3>4
  <2>5. Ordered(inbox[w])'  BY <1>3, <1>5 DEF Thread, InOrder, Takes
  <2>6. Ordered(outbox[w])'
    <3>1. \A k \in DOMAIN outbox[w] : outbox[w][k].type # "evolve"
      <4>1. outbox[w] \in Seq(FromMsg)  BY TypeSplit DEF Inductive, WorkerTypes
      <4>2. \A k \in DOMAIN outbox[w] : outbox[w][k] \in FromMsg  BY <4>1, ElementOfSeq, LenProperties
      <4> QED  BY <4>2 DEF FromMsg
    <3>2. \A k \in DOMAIN outbox[w] : outbox[w][k].type \notin {"batch_done", "gen_progress"}
      BY <2>4 DEF Has
    <3>3. \A k \in DOMAIN outbox[w], l \in DOMAIN m : Follows(outbox[w][k], m[l])
      BY <1>9, <1>13, <3>1, <3>2 DEF Follows
    <3> QED  BY <1>5, <1>13, <1>14, <3>3 DEF Thread, InOrder, Joins
  <2>7. InBatch(w) => InBatch(w)'
    <3> SUFFICES ASSUME InBatch(w) PROVE InBatch(w)'  OBVIOUS
    <3>1. Has(inbox[w], "evolve") /\ Reached(w) = None  BY <2>3
    <3>2. Has(inbox'[w], "evolve")  BY <1>3, <1>4, <3>1 DEF Takes
    <3>3. Reached(w)' = Reached(w)  BY <3>1, <3>2 DEF Reached
    <3>4. Begins(w)'
      BY <1>1, <1>3, <1>16, <3>1 DEF InBatch, Begins, Takes
    <3>5. Progress(w, None)'
      BY <1>1, <1>16, <3>1 DEF InBatch, Progress, EndGen
    <3>6. Hosted(w) \subseteq awaited
      <4>1. \A j \in Hosted(w) : None <= j  BY Hosts, Sizes
      <4> QED  BY <3>1, <4>1 DEF InBatch, Progress
    <3>7. Spoken(w, outbox[w], None)'
      BY <1>9, <1>13, <1>14, <1>16, <3>1, <3>6 DEF InBatch, Spoken, Joins
    <3>8. \A types : Only(inbox[w], types) => Only(inbox'[w], types)  BY <1>3 DEF Takes
    <3> QED  BY <3>1, <3>2, <3>3, <3>4, <3>5, <3>7, <3>8 DEF InBatch
  <2>8. Between(w) => Between(w)'
    BY <1>1, <1>3, <1>9, <1>13, <1>14, <1>16 DEF Between, EndGen, Takes, Joins
  <2>9. SentOnce(w) => SentOnce(w)'
    <3> SUFFICES ASSUME SentOnce(w) PROVE SentOnce(w)'  OBVIOUS
    <3>1. ~ Tells(outbox[w], "migrate_done", i) /\ ~ Tells(inbox'[w], "migrate", i)
      BY <1>3, <1>4, <1>6, <1>7, <1>17 DEF SentOnce, Takes
    <3>2. Once(inbox[w], "migrate")'  BY <1>3 DEF SentOnce, Takes
    <3>3. Once(outbox[w], "migrate_done")'
      <4>1. PICK q \in Seq(FromMsg) : q = outbox[w]  BY TypeSplit DEF Inductive, WorkerTypes
      <4>2. m \in Seq(FromMsg)  BY <1>9, <1>12
      <4>3. PICK r : r = Joint(q, m)  OBVIOUS
      <4>4. r = outbox'[w]
        <5>1. Append(q, a) = q \o <<a>>  BY <4>1, <1>9, AppendIsConcat
        <5>2. outbox \in [Workers -> Seq(FromMsg)]  BY TypeSplit DEF Inductive, WorkerTypes
        <5> QED  BY <1>10, <1>12, <4>1, <4>3, <5>1, <5>2 DEF Joint
      <4>5. /\ \A k \in DOMAIN q : k \in DOMAIN r /\ r[k] = q[k]
            /\ \A k \in DOMAIN m : Len(q) + k \in DOMAIN r /\ r[Len(q) + k] = m[k]
            /\ \A x \in DOMAIN r : x \in DOMAIN q \/ \E k \in DOMAIN m : x = Len(q) + k
        BY <4>2, <4>3, JoinedBy
      <4>6. DOMAIN m = {1}  BY <1>12
      <4>7. \A k \in DOMAIN q : ~ (q[k].type = "migrate_done" /\ q[k].island = i)
        BY <3>1, <4>1 DEF Tells
      <4>8. \A x \in DOMAIN r : \/ x \in DOMAIN q /\ r[x] = q[x]
                                \/ x = Len(q) + 1 /\ r[x] = a
        BY <1>13, <4>5, <4>6
      <4>9. Once(q, "migrate_done")  BY <4>1 DEF SentOnce
      <4>10. Once(r, "migrate_done")
        BY <1>9, <4>7, <4>8, <4>9 DEF Once
      <4> QED  BY <4>4, <4>10
    <3>4. \A j \in Hosted(w) : (Tells(inbox[w], "migrate", j) <=>
                                  Tells(inbox'[w], "migrate", j) \/ j = i)
      BY <1>3, <1>4, <1>6, <1>17 DEF Takes
    <3>5. \A j \in Hosted(w) : (Tells(outbox'[w], "migrate_done", j) <=>
                                  Tells(outbox[w], "migrate_done", j) \/ j = i)
      BY <1>9, <1>13, <1>14 DEF Joins
    <3>6. \A j \in Hosted(w) :
             /\ ~ (Tells(inbox'[w], "migrate", j) /\ Tells(outbox'[w], "migrate_done", j))
             /\ j \in awaited' <=> \/ Tells(inbox'[w], "migrate", j)
                                   \/ Tells(outbox'[w], "migrate_done", j)
      BY <1>16, <3>1, <3>4, <3>5 DEF SentOnce
    <3> QED  BY <3>2, <3>3, <3>6 DEF SentOnce
  <2>10. After(w) => After(w)'
    BY <1>1, <1>3, <1>9, <1>13, <1>14, <1>16 DEF After, Takes, Joins
  <2>11. InPhase(w)'
    BY <1>1, <1>5, <1>16, <2>2, <2>7, <2>8, <2>9, <2>10 DEF Thread, InPhase
  <2>12. Reported(w, outbox[w])'
    <3>1. \A k \in DOMAIN outbox'[w] : outbox'[w][k].type = "gen_progress" =>
             \E l \in DOMAIN outbox[w] : outbox'[w][k] = outbox[w][l]
      BY <1>9, <1>13, <1>14 DEF Joins
    <3>2. \A k \in DOMAIN outbox[w] : \E l \in DOMAIN outbox'[w] : outbox'[w][l] = outbox[w][k]
      BY <1>14 DEF Joins
    <3> QED  BY <1>1, <1>5, <1>16, <3>1, <3>2 DEF Thread, Reported
  <2>13. Stopped(w)'  BY <1>1, <1>3, <1>5, <1>16 DEF Thread, Stopped, Takes
  <2> QED  BY <2>1, <2>5, <2>6, <2>11, <2>12, <2>13 DEF Thread, InOrder
<1> QED  BY <1>1, <1>3, <1>11, <1>15, <1>18, WorkerStep

LEMMA Sayable ==
    ASSUME TypeOK, NEW w \in Workers
    PROVE  /\ outbox[w] \in Seq(FromMsg)
           /\ \A k \in DOMAIN outbox[w] : outbox[w][k] \in FromMsg /\ outbox[w][k].type # "evolve"
<1>1. outbox[w] \in Seq(FromMsg)  BY DEF TypeOK, FromMsg
<1>2. \A k \in DOMAIN outbox[w] : outbox[w][k] \in FromMsg  BY <1>1, ElementOfSeq, LenProperties
<1> QED  BY <1>1, <1>2 DEF FromMsg

LEMMA StepOnGetResults ==
    ASSUME Inductive, NEW w \in Workers, OnGetResults(w)
    PROVE  Inductive'
<1>1. /\ Receives(w, "get_results")
      /\ UNCHANGED <<cancelled, job, evolved, hyper, lastBoosted>>
      /\ UNCHANGED <<coordinator, requests, thread>>
  BY DEF OnGetResults, Receives
<1>2. PICK h : h = Head(inbox[w])  OBVIOUS
<1>3. /\ inbox' \in [Workers -> Seq(ToMsg)]
      /\ \A x \in Workers \ {w} : inbox'[x] = inbox[x]
      /\ Takes(inbox[w], h, inbox'[w])
  BY <1>1, <1>2, Receiving DEF Inductive
<1>4. h.type = "get_results"  BY <1>1, <1>2 DEF Receives
<1>5. Thread(w)  BY DEF Inductive
<1>6. PICK n : n = IF SpecMode THEN <<Signal("cache_delta")>> ELSE <<>>  OBVIOUS
<1>7. n \in Seq(FromMsg) /\ \A k \in DOMAIN n : n[k].type = "cache_delta"
  <2>1. Signal("cache_delta") \in FromMsg /\ Signal("cache_delta").type = "cache_delta"
    BY PaceAssumption DEF Signal, Message, FromMsg
  <2>2. CASE SpecMode  BY <1>6, <2>1, <2>2
  <2>3. CASE ~ SpecMode  BY <1>6, <2>3
  <2> QED  BY <2>2, <2>3
<1>8. PICK s : s = FromEach("results", w)  OBVIOUS
<1>9. s \in Seq(FromMsg) /\ \A k \in DOMAIN s : s[k].type = "results"
  BY <1>8, Remaining, Hosts
<1>10. PICK m : m = Joint(s, n)  OBVIOUS
<1>11. m \in Seq(FromMsg) /\ Joins(s, n, m)  BY <1>7, <1>9, <1>10, Joining
<1>12. Only(m, {"results", "cache_delta"})  BY <1>7, <1>9, <1>11 DEF Joins, Only
<1>13. outbox' = [outbox EXCEPT ![w] = @ \o m]
  <2>1. PICK q \in Seq(FromMsg) : q = outbox[w]  BY Sayable DEF Inductive
  <2>2. q \o s \o n = q \o m  BY <1>7, <1>9, <1>10, ConcatAssociative DEF Joint
  <2>3. outbox' = [outbox EXCEPT ![w] = q \o s \o n]  BY <1>6, <1>8, <2>1 DEF OnGetResults
  <2> QED  BY <2>1, <2>2, <2>3
<1>14. /\ outbox' \in [Workers -> Seq(FromMsg)]
       /\ \A x \in Workers \ {w} : outbox'[x] = outbox[x]
       /\ Joins(outbox[w], m, outbox'[w])
  BY <1>11, <1>13, Sending DEF Inductive
<1>15. WorkerTypes'  BY <1>1, <1>3, <1>14, TypeSplit DEF Inductive, WorkerTypes
<1>16. UNCHANGED <<phase, startGen, cancelSent, awaited, islandGen>>
  BY <1>1 DEF coordinator, reports
<1>17. Has(inbox[w], "get_results")  BY <1>3, <1>4 DEF Takes, Has
<1>18. Thread(w)'
  <2>1. phase \in Ending \cup {"spinning"}
    <3>1. ~ Loading(w)  BY <1>17 DEF Loading, Has
    <3>2. ~ InBatch(w)  BY <1>17 DEF InBatch, Only, Has, Orders
    <3>3. ~ Between(w)  BY <1>17 DEF Between, Only, Has, Orders
    <3> QED  BY <1>5, <3>1, <3>2, <3>3 DEF Thread, InPhase, Inductive, TypeOK, Before, Ending
  <2>2. phase \notin Before /\ phase \notin {"evolve", "migrate", "travel"}
    BY <2>1 DEF Before, Ending
  <2>3. After(w)  BY <1>5, <2>1 DEF Thread, InPhase
  <2>4. Addressed(w)'
    <3>1. ReportsOf(w, m) /\ Plain(m)  BY <1>12 DEF ReportsOf, Plain, Only
    <3> QED  BY <1>3, <1>5, <1>14, <3>1 DEF Thread, Addressed, Takes, Joins
  <2>5. Ordered(inbox[w])'  BY <1>3, <1>5 DEF Thread, InOrder, Takes
  <2>6. Ordered(outbox[w])'
    <3>1. \A k \in DOMAIN outbox[w] :
             outbox[w][k].type \notin {"batch_done", "gen_progress", "evolve"}
      BY <2>3 DEF After, Only
    <3>2. \A k \in DOMAIN outbox[w], l \in DOMAIN m : Follows(outbox[w][k], m[l])
      BY <3>1 DEF Follows
    <3>3. Ordered(m)  BY <1>12 DEF Ordered, Only, Follows
    <3> QED  BY <1>5, <1>14, <3>2, <3>3 DEF Thread, InOrder, Joins
  <2>7. After(w)'
    <3>1. Only(inbox'[w], {"migrate", "get_results"} \cup Orders)  BY <1>3, <2>3 DEF After, Takes
    <3>2. Only(m, {"migrate_done", "results", "cache_delta"})  BY <1>12 DEF Only
    <3>3. Only(outbox'[w], {"migrate_done", "results", "cache_delta"})
      BY <1>14, <2>3, <3>2 DEF After, Joins
    <3> QED  BY <1>1, <2>3, <3>1, <3>3 DEF After
  <2>8. InPhase(w)'  BY <1>1, <1>5, <1>16, <2>2, <2>7 DEF Thread, InPhase
  <2>9. Reported(w, outbox[w])'
    <3>1. \A k \in DOMAIN outbox'[w] : outbox'[w][k].type = "gen_progress" =>
             \E l \in DOMAIN outbox[w] : outbox'[w][k] = outbox[w][l]
      BY <1>12, <1>14 DEF Joins, Only
    <3>2. \A k \in DOMAIN outbox[w] : \E l \in DOMAIN outbox'[w] : outbox'[w][l] = outbox[w][k]
      BY <1>14 DEF Joins
    <3> QED  BY <1>1, <1>5, <1>16, <3>1, <3>2 DEF Thread, Reported
  <2>10. Stopped(w)'  BY <1>1, <1>3, <1>5, <1>16 DEF Thread, Stopped, Takes
  <2> QED  BY <2>4, <2>5, <2>6, <2>8, <2>9, <2>10 DEF Thread, InOrder
<1> QED  BY <1>1, <1>3, <1>14, <1>15, <1>18, WorkerStep

LEMMA StepLoad ==
    ASSUME Inductive, NEW w \in Workers, Load(w)
    PROVE  Inductive'
<1>1. /\ thread[w] = "loading"
      /\ UNCHANGED <<startGen, awaited, deltas, reports, counters, cancelSent, wfReport,
                     requests, inbox, cancelled, job, evolved, hyper, lastBoosted>>
  BY DEF Load
<1>2. \A x \in Workers : Thread(x)  BY DEF Inductive
<1>3. phase \in Before  BY <1>1, <1>2 DEF Thread, InPhase
<1>4. phase \in {"spawn", "failed"} /\ phase \notin {"evolve", "migrate", "travel"}
      /\ phase \notin Ending \cup {"spinning"}
  BY <1>3 DEF Before, Ending
<1>5. Loading(w) /\ outbox[w] = << >>
  BY <1>1, <1>2, <1>3 DEF Thread, InPhase, Loading
<1>6. CASE /\ thread' = [thread EXCEPT ![w] = "up"]
           /\ outbox' = [outbox EXCEPT ![w] = Append(@, Signal("ready"))]
           /\ UNCHANGED phase
  <2>1. PICK a : a = Signal("ready")  OBVIOUS
  <2>2. a \in FromMsg /\ a.type = "ready"
    BY <2>1, PaceAssumption DEF Signal, Message, FromMsg
  <2>3. outbox' = [outbox EXCEPT ![w] = Append(@, a)]  BY <1>6, <2>1
  <2>4. WorkerTypes  BY TypeSplit DEF Inductive
  <2>5. Append(<< >>, a) = <<a>>  OBVIOUS
  <2>6. outbox' = [outbox EXCEPT ![w] = <<a>>]  BY <1>5, <2>3, <2>5
  <2>7. <<a>> \in Seq(FromMsg)  BY <2>2
  <2>8. /\ outbox'[w] = <<a>> /\ outbox' \in [Workers -> Seq(FromMsg)]
        /\ \A x \in Workers \ {w} : outbox'[x] = outbox[x]
    BY <2>4, <2>6, <2>7 DEF WorkerTypes
  <2>9. thread'[w] = "up" /\ \A x \in Workers \ {w} : thread'[x] = thread[x]
    BY <1>6, <2>4 DEF WorkerTypes
  <2>10. WorkerTypes'  BY <1>1, <1>6, <2>4, <2>8 DEF WorkerTypes
  <2>11. PICK m : m = <<a>>  OBVIOUS
  <2>12. /\ \A k \in DOMAIN m : m[k] = a
         /\ Ordered(m)
    BY <2>2, <2>11, Single
  <2>13. UNCHANGED <<coordinator, requests>>  BY <1>1, <1>6 DEF coordinator
  <2>14. UNCHANGED <<islandGen, inbox, job, evolved, cancelled, cancelSent, phase>>
    BY <1>1, <1>6 DEF reports
  <2>15. Thread(w)'
    <3>1. Addressed(w)'
      <4>1. ReportsOf(w, m) /\ Plain(m)  BY <2>2, <2>12 DEF ReportsOf, Plain
      <4>2. inbox'[w] = inbox[w] /\ outbox'[w] = m  BY <2>8, <2>11, <2>14
      <4> QED  BY <1>2, <4>1, <4>2 DEF Thread, Addressed
    <3>2. InOrder(w)'  BY <1>2, <2>8, <2>11, <2>12, <2>14 DEF Thread, InOrder
    <3>3. Loading(w)'  BY <1>5, <2>1, <2>8, <2>9, <2>14 DEF Loading
    <3>4. InPhase(w)'  BY <1>4, <2>9, <2>14, <3>3 DEF InPhase
    <3>5. Reported(w, outbox[w])'
      <4>1. Reported(w, outbox[w]) /\ DOMAIN outbox[w] = {}
        BY <1>2, <1>5 DEF Thread
      <4>2. \A k \in DOMAIN m : m[k].type # "gen_progress"  BY <2>2, <2>12
      <4>3. outbox'[w] = m  BY <2>8, <2>11
      <4> QED  BY <2>14, <4>1, <4>2, <4>3 DEF Reported
    <3>6. Stopped(w)'  BY <1>2, <2>14 DEF Thread, Stopped
    <3> QED  BY <3>1, <3>2, <3>4, <3>5, <3>6 DEF Thread
  <2> QED  BY <1>1, <1>6, <2>8, <2>9, <2>10, <2>13, <2>14, <2>15, WorkerStep
<1>7. CASE /\ thread' = [thread EXCEPT ![w] = "gone"]
           /\ phase' = "failed"
           /\ UNCHANGED outbox
  <2>1. WorkerTypes  BY TypeSplit DEF Inductive
  <2>2. TypeOK'
    BY <1>1, <1>7 DEF Inductive, TypeOK, reports, counters, requests
  <2>3. LogIsGapless'  BY <1>1 DEF Inductive, LogIsGapless, reports
  <2>4. Coordinator'
    BY <1>1, <1>3, <1>7 DEF Inductive, Coordinator, Tally, Ending, requests
  <2>5. ASSUME NEW x \in Workers PROVE Thread(x)'
    <3>1. UNCHANGED <<islandGen, inbox, job, evolved, cancelled, cancelSent, outbox>>
      BY <1>1, <1>7 DEF reports
    <3>2. Addressed(x)' /\ InOrder(x)' /\ Reported(x, outbox[x])' /\ Stopped(x)'
      BY <1>2, <3>1 DEF Thread, Addressed, InOrder, Reported, Stopped
    <3>3. Loading(x)  BY <1>2, <1>3 DEF Thread, InPhase
    <3>4. thread'[x] = "loading" => thread[x] = "loading"  BY <1>7, <2>1 DEF WorkerTypes
    <3>5. Loading(x)'  BY <3>1, <3>3, <3>4 DEF Loading
    <3>6. InPhase(x)'  BY <1>7, <3>5 DEF InPhase, Before, Ending
    <3> QED  BY <3>2, <3>6 DEF Thread
  <2> QED  BY <2>2, <2>3, <2>4, <2>5 DEF Inductive
<1> QED  BY <1>6, <1>7 DEF Load

-----------------------------------------------------------------------------
(* The evolve loop.  Worker w, having said q and come to island i, runs    *)
(* generation g of it.                                                     *)
LEMMA Advancing ==
    ASSUME Inductive, phase = "evolve", NEW w \in Workers, NEW i \in Hosted(w), NEW g \in Int,
           g = evolved[i] + 1, startGen <= g, g <= EndGen(startGen),
           NEW q \in Seq(FromMsg), Ordered(q), ReportsOf(w, q), Plain(q),
           Spoken(w, q, i), Reported(w, q), Progress(w, i),
           NEW a, a = Message("gen_progress", i, g), outbox'[w] = Joint(q, <<a>>),
           Only(inbox'[w], Orders), Plain(inbox'[w]), MigrantsOf(w, inbox'[w]),
           Ordered(inbox'[w]), Has(inbox'[w], "cancel") => Has(inbox[w], "cancel"),
           evolved' = [evolved EXCEPT ![i] = g],
           job'[w] = [island |-> i, gen |-> g + 1, startGen |-> startGen],
           UNCHANGED <<coordinator, cancelled, thread>>
    PROVE  Thread(w)' /\ a \in FromMsg
<1>1. i \in Islands /\ i \in Int /\ i # None  BY Hosts, Sizes
<1>2. /\ evolved \in [Islands -> 0..Generations] /\ islandGen \in [Islands -> 0..Generations]
      /\ startGen \in 1..Generations
  BY DEF Inductive, TypeOK
<1>3. EndGen(startGen) \in startGen..Generations  BY <1>2, Ends
<1>4. g \in 1..Generations  BY <1>2, <1>3, PaceAssumption
<1>5. /\ a \in FromMsg /\ a.type = "gen_progress" /\ a.island = i /\ a.gen = g
  BY <1>1, <1>4 DEF Message, FromMsg
<1>6. PICK m : m = <<a>>  OBVIOUS
<1>7. /\ m \in Seq(FromMsg)
      /\ \A k \in DOMAIN m : m[k] = a
      /\ \E k \in DOMAIN m : m[k] = a
      /\ \A types : Only(m, types) <=> a.type \in types
      /\ \A type : Has(m, type) <=> a.type = type
      /\ \A type, j : Tells(m, type, j) <=> a.type = type /\ a.island = j
      /\ Ordered(m)
  BY <1>5, <1>6, Single
<1>8. PICK r : r = Joint(q, m)  OBVIOUS
<1>9. Joins(q, m, r) /\ r \in Seq(FromMsg)  BY <1>7, <1>8, Joining
<1>10. outbox'[w] = r  BY <1>6, <1>8
<1>11. UNCHANGED <<phase, startGen, cancelSent, awaited, islandGen>>
  BY DEF coordinator, reports
<1>12. evolved'[i] = g /\ \A j \in Islands : j # i => evolved'[j] = evolved[j]
  BY <1>1, <1>2
<1>13. \A k \in DOMAIN q : q[k] \in FromMsg  BY ElementOfSeq, LenProperties
<1>14. Thread(w)  BY DEF Inductive
<1>15. Addressed(w)'
  <2>1. ReportsOf(w, m) /\ Plain(m)  BY <1>5, <1>7 DEF ReportsOf, Plain
  <2>2. ReportsOf(w, r) /\ Plain(r)  BY <1>9, <2>1 DEF Joins
  <2> QED  BY <1>10, <2>2 DEF Addressed
<1>16. Ordered(r)
  <2>1. ASSUME NEW k \in DOMAIN q PROVE Follows(q[k], a)
    <3>1. q[k] \in FromMsg /\ q[k].type # "evolve" /\ q[k].gen \in Int
      BY <1>13 DEF FromMsg
    <3>2. q[k].type = "gen_progress" /\ q[k].island = i => q[k].gen <= evolved[i]
      BY DEF Reported
    <3>3. ~ (q[k].type = "batch_done" /\ q[k].island = i)
      BY <1>1 DEF Spoken, Tells
    <3> QED  BY <1>1, <1>2, <1>5, <3>1, <3>2, <3>3 DEF Follows
  <2>2. \A k \in DOMAIN q, l \in DOMAIN m : Follows(q[k], m[l])  BY <1>7, <2>1
  <2> QED  BY <1>7, <1>9, <2>2 DEF Joins
<1>17. InBatch(w)'
  <2>1. ~ Has(inbox'[w], "evolve") /\ Only(inbox'[w], {"evolve", "migrate"} \cup Orders)
    BY DEF Has, Only, Orders
  <2>2. job'[w].island = i /\ job'[w].gen = g + 1 /\ job'[w].startGen = startGen
    OBVIOUS
  <2>3. job'[w] # NoJob  BY <1>1, <2>2 DEF NoJob
  <2>4. Reached(w)' = i  BY <2>1, <2>2, <2>3 DEF Reached
  <2>5. Runs(w)'  BY <1>11, <1>12, <2>2 DEF Runs, EndGen
  <2>6. Progress(w, i)'
    <3>1. \A j \in Hosted(w) : j \in Islands /\ j \in Int  BY Hosts, Sizes
    <3> QED  BY <1>1, <1>11, <1>12, <3>1 DEF Progress, EndGen
  <2>7. Spoken(w, r, i)'
    <3>1. \A j \in Hosted(w) : Tells(r, "batch_done", j) <=> Tells(q, "batch_done", j)
      BY <1>5, <1>7, <1>9 DEF Joins
    <3>2. \A j \in Hosted(w) : Tells(r, "gen_progress", j) => Tells(q, "gen_progress", j) \/ j = i
      BY <1>5, <1>7, <1>9 DEF Joins
    <3>3. i \in awaited  BY <1>1 DEF Progress
    <3>4. Only(r, {"gen_progress", "batch_done", "migrate_done"})
      BY <1>5, <1>7, <1>9 DEF Joins, Spoken
    <3>5. Has(r, "migrate_done") => Has(q, "migrate_done")  BY <1>5, <1>7, <1>9 DEF Joins
    <3> QED  BY <1>11, <3>1, <3>2, <3>3, <3>4, <3>5 DEF Spoken
  <2> QED  BY <1>10, <2>1, <2>4, <2>5, <2>6, <2>7 DEF InBatch
<1>18. InPhase(w)'
  BY <1>11, <1>14, <1>17 DEF Thread, InPhase, Before, Ending
<1>19. Reported(w, r)'
  <2>1. ASSUME NEW k \in DOMAIN r, r[k].type = "gen_progress"
        PROVE  islandGen'[r[k].island] < r[k].gen /\ r[k].gen <= evolved'[r[k].island]
    <3>1. CASE \E l \in DOMAIN m : r[k] = m[l]
      <4>1. r[k] = a  BY <1>7, <3>1
      <4>2. islandGen[i] <= evolved[i] /\ islandGen[i] \in Int
        BY <1>1, <1>2 DEF Reported
      <4> QED  BY <1>1, <1>2, <1>5, <1>11, <1>12, <4>1, <4>2
    <3>2. ASSUME NEW l \in DOMAIN q, r[k] = q[l]
          PROVE  islandGen'[r[k].island] < r[k].gen /\ r[k].gen <= evolved'[r[k].island]
      <4>1. PICK j \in Hosted(w) : j = q[l].island  BY <2>1, <3>2 DEF ReportsOf
      <4>2. islandGen[j] < q[l].gen /\ q[l].gen <= evolved[j] /\ q[l].gen \in Int
        BY <1>13, <2>1, <3>2, <4>1 DEF Reported, FromMsg
      <4>3. evolved[j] \in Int /\ j \in Islands  BY <1>2, Hosts
      <4>4. evolved[j] <= evolved'[j]  BY <1>12, <4>3
      <4> QED  BY <1>11, <1>12, <3>2, <4>1, <4>2, <4>3, <4>4
    <3> QED  BY <1>9, <3>1, <3>2 DEF Joins
  <2>2. ASSUME NEW j \in Hosted(w)
        PROVE  /\ islandGen'[j] <= evolved'[j]
               /\ \A n \in 1..Generations : islandGen'[j] < n /\ n <= evolved'[j] =>
                     \E k \in DOMAIN r : r[k] = Message("gen_progress", j, n)
    <3>1. /\ islandGen[j] <= evolved[j]
          /\ \A n \in 1..Generations : islandGen[j] < n /\ n <= evolved[j] =>
                \E k \in DOMAIN q : q[k] = Message("gen_progress", j, n)
      BY DEF Reported
    <3>2. \A n \in 1..Generations : islandGen[j] < n /\ n <= evolved[j] =>
                \E k \in DOMAIN r : r[k] = Message("gen_progress", j, n)
      BY <1>9, <3>1 DEF Joins
    <3>3. j \in Islands /\ evolved[j] \in Int /\ islandGen[j] \in Int  BY <1>2, Hosts
    <3>4. \E k \in DOMAIN r : r[k] = a  BY <1>7, <1>9 DEF Joins
    <3>5. CASE j = i
      <4>1. \A n \in 1..Generations : n <= g => n <= evolved[i] \/ n = g  BY <1>1, <1>2
      <4> QED  BY <1>11, <1>12, <3>1, <3>2, <3>3, <3>4, <3>5, <4>1
    <3>6. CASE j # i  BY <1>11, <1>12, <3>1, <3>2, <3>3, <3>6
    <3> QED  BY <3>5, <3>6
  <2> QED  BY <2>1, <2>2 DEF Reported
<1>20. Stopped(w)'  BY <1>11, <1>14 DEF Thread, Stopped
<1>21. InOrder(w)'  BY <1>10, <1>16 DEF InOrder
<1>22. Reported(w, outbox[w])'  BY <1>10, <1>19
<1> QED  BY <1>5, <1>15, <1>18, <1>20, <1>21, <1>22 DEF Thread

(* Worker w, having come to island i, ends its loop.                       *)
LEMMA Finishing ==
    ASSUME Inductive, phase = "evolve", NEW w \in Workers, NEW i \in Hosted(w),
           Spoken(w, outbox[w], i), Progress(w, i),
           cancelled[w] \/ (evolved[i] = EndGen(startGen) /\ i + WorkerCount \notin Islands),
           LastTurn(w, i),
           Only(inbox'[w], Orders), Plain(inbox'[w]), MigrantsOf(w, inbox'[w]),
           Ordered(inbox'[w]), Has(inbox'[w], "cancel") => Has(inbox[w], "cancel"),
           UNCHANGED <<coordinator, cancelled, thread>>
    PROVE  /\ Thread(w)'
           /\ outbox' \in [Workers -> Seq(FromMsg)]
           /\ \A x \in Workers \ {w} : outbox'[x] = outbox[x]
<1>1. i \in Islands /\ i \in Int /\ i # None  BY Hosts, Sizes
<1>2. UNCHANGED <<phase, startGen, cancelSent, awaited, islandGen>>
  BY DEF coordinator, reports
<1>3. Thread(w)  BY DEF Inductive
<1>4. PICK m : m = RestDone(i)  OBVIOUS
<1>5. /\ m \in Seq(FromMsg)
      /\ \A k \in DOMAIN m : /\ m[k].type = "batch_done"
                             /\ m[k].island \in Hosted(w)
                             /\ i <= m[k].island
      /\ \A j \in Hosted(w) : i <= j => Tells(m, "batch_done", j)
      /\ Ordered(m)
  BY <1>4, Remaining DEF RestDone
<1>6. /\ outbox' \in [Workers -> Seq(FromMsg)]
      /\ \A x \in Workers \ {w} : outbox'[x] = outbox[x]
      /\ Joins(outbox[w], m, outbox'[w])
  <2>1. outbox' = [outbox EXCEPT ![w] = @ \o m]  BY <1>4 DEF LastTurn
  <2> QED  BY <1>5, <2>1, Sending DEF Inductive
<1>7. job'[w] = NoJob /\ UNCHANGED evolved
  BY TypeSplit DEF LastTurn, Inductive, WorkerTypes
<1>8. Addressed(w)'
  <2>1. ReportsOf(w, m) /\ Plain(m)  BY <1>5 DEF ReportsOf, Plain
  <2> QED  BY <1>3, <1>6, <2>1 DEF Thread, Addressed, Joins
<1>9. Ordered(outbox'[w])
  <2>1. ASSUME NEW k \in DOMAIN outbox[w], NEW l \in DOMAIN m PROVE Follows(outbox[w][k], m[l])
    <3>1. outbox[w][k].type # "evolve"  BY Sayable DEF Inductive
    <3>2. ASSUME outbox[w][k].type = "batch_done" PROVE outbox[w][k].island # m[l].island
      <4>1. PICK j \in Hosted(w) : j = outbox[w][k].island
        BY <1>3, <3>2 DEF Thread, Addressed, ReportsOf
      <4>2. j < i  BY <3>2, <4>1 DEF Spoken, Tells
      <4>3. j \in Int /\ i <= m[l].island  BY <1>5, Hosts, Sizes
      <4> QED  BY <1>1, <4>1, <4>2, <4>3
    <3> QED  BY <1>5, <3>1, <3>2 DEF Follows
  <2> QED  BY <1>3, <1>5, <1>6, <2>1 DEF Thread, InOrder, Joins
<1>10. \A j \in Hosted(w) : j \in Islands /\ j \in Int /\ j < TotalWorkers /\ ~ (TotalWorkers < j)
                            /\ ~ (TotalWorkers <= j)
  BY Hosts, Sizes
<1>11. InBatch(w)'
  <2>1. ~ Has(inbox'[w], "evolve") /\ Only(inbox'[w], {"evolve", "migrate"} \cup Orders)
    BY DEF Has, Only, Orders
  <2>2. Reached(w)' = TotalWorkers  BY <1>7, <2>1 DEF Reached
  <2>3. ASSUME NEW j \in Hosted(w) PROVE cancelled[w] \/ evolved[j] = EndGen(startGen)
    <3>1. CASE j < i  BY <3>1 DEF Progress
    <3>2. CASE i < j
      <4>1. i + WorkerCount <= j  BY <3>2, NextHosted
      <4>2. WorkerCount \in Nat  BY Sizes
      <4>3. i + WorkerCount \in Islands
        <5>1. PICK t \in Nat : t = TotalWorkers /\ Islands = 0..(t - 1)  BY Sizes DEF Islands
        <5>2. i \in Nat /\ j \in 0..(t - 1)  BY <1>1, <1>10, <5>1, Sizes
        <5> QED  BY <4>1, <4>2, <5>1, <5>2
      <4> QED  BY <4>3
    <3>3. CASE j = i  BY <3>3
    <3> QED  BY <1>1, <1>10, <3>1, <3>2, <3>3
  <2>4. Progress(w, TotalWorkers)'
    BY <1>2, <1>7, <1>10, <2>3 DEF Progress, EndGen
  <2>5. Spoken(w, outbox[w], TotalWorkers)'
    <3>1. \A j \in Hosted(w) : Tells(m, "batch_done", j) <=> i <= j
      BY <1>1, <1>5, <1>10 DEF Tells
    <3>2. \A j \in Hosted(w) : ~ Tells(m, "gen_progress", j)  BY <1>5 DEF Tells
    <3>3. ~ Has(m, "migrate_done") /\ Only(m, {"gen_progress", "batch_done", "migrate_done"})
      BY <1>5 DEF Has, Only
    <3>4. \A j \in Hosted(w) : i <= j => j \in awaited  BY DEF Progress
    <3>5. \A j \in Hosted(w) : Tells(outbox'[w], "batch_done", j) <=> j \in awaited
      BY <1>1, <1>6, <1>10, <3>1, <3>4 DEF Joins, Spoken
    <3>6. \A j \in Hosted(w) : Tells(outbox'[w], "gen_progress", j) => j \in awaited
      BY <1>6, <3>2 DEF Joins, Spoken
    <3> QED  BY <1>2, <1>6, <1>10, <3>3, <3>5, <3>6 DEF Joins, Spoken
  <2> QED  BY <1>7, <2>1, <2>2, <2>4, <2>5 DEF InBatch
<1>12. InPhase(w)'
  BY <1>2, <1>3, <1>11 DEF Thread, InPhase, Before, Ending
<1>13. Reported(w, outbox[w])'
  <2>1. \A k \in DOMAIN outbox'[w] : outbox'[w][k].type = "gen_progress" =>
           \E l \in DOMAIN outbox[w] : outbox'[w][k] = outbox[w][l]
    BY <1>5, <1>6 DEF Joins
  <2>2. \A k \in DOMAIN outbox[w] : \E l \in DOMAIN outbox'[w] : outbox'[w][l] = outbox[w][k]
    BY <1>6 DEF Joins
  <2> QED  BY <1>2, <1>3, <1>7, <2>1, <2>2 DEF Thread, Reported
<1>14. Stopped(w)'  BY <1>2, <1>3 DEF Thread, Stopped
<1> QED  BY <1>6, <1>8, <1>9, <1>12, <1>13, <1>14 DEF Thread, InOrder

LEMMA EvolveTypes ==
    ASSUME TypeOK, NEW w \in Workers, NEW i \in Islands, NEW g \in 1..Generations,
           NEW from \in 1..Generations, NEW msgs, Evolve(w, i, g, from, msgs)
    PROVE  /\ evolved' = [evolved EXCEPT ![i] = g] /\ evolved' \in [Islands -> 0..Generations]
           /\ \A j \in Islands : j # i => evolved'[j] = evolved[j]
           /\ hyper' \in [Islands -> HyperType]
           /\ lastBoosted' \in [Islands -> {NeverEnded} \cup 0..Generations]
           /\ job' \in [Workers -> JobType]
           /\ job'[w] = [island |-> i, gen |-> g + 1, startGen |-> from]
           /\ \A x \in Workers \ {w} : job'[x] = job[x]
<1>1. PICK h \in Outcomes(hyper[i], g) :
        /\ evolved' = [evolved EXCEPT ![i] = g]
        /\ hyper' = [hyper EXCEPT ![i] = Decay(h, g)]
        /\ lastBoosted' = IF h.mutationRate = "boosted"
                          THEN [lastBoosted EXCEPT ![i] = g] ELSE lastBoosted
        /\ job' = [job EXCEPT ![w] = [island |-> i, gen |-> g + 1, startGen |-> from]]
  BY DEF Evolve
<1>2. WorkerTypes /\ g \in 0..Generations  BY TypeSplit
<1>3. hyper[i] \in HyperType  BY <1>2 DEF WorkerTypes
<1>4. h \in HyperType
  <2>1. Trigger(hyper[i], "auto") \in HyperType  BY <1>3, Triggers
  <2> QED  BY <1>3, <2>1 DEF Outcomes
<1>5. Decay(h, g) \in HyperType  BY <1>2, <1>4, Decays
<1>6. [island |-> i, gen |-> g + 1, startGen |-> from] \in JobType
  BY PaceAssumption DEF JobType
<1>7. hyper' \in [Islands -> HyperType]  BY <1>1, <1>2, <1>5 DEF WorkerTypes
<1>8. lastBoosted' \in [Islands -> {NeverEnded} \cup 0..Generations]
  BY <1>1, <1>2 DEF WorkerTypes
<1>9. evolved' \in [Islands -> 0..Generations]
      /\ \A j \in Islands : j # i => evolved'[j] = evolved[j]
  BY <1>1, <1>2 DEF WorkerTypes
<1>10. /\ job' \in [Workers -> JobType]
       /\ job'[w] = [island |-> i, gen |-> g + 1, startGen |-> from]
       /\ \A x \in Workers \ {w} : job'[x] = job[x]
  BY <1>1, <1>2, <1>6 DEF WorkerTypes
<1> QED  BY <1>1, <1>7, <1>8, <1>9, <1>10

LEMMA StepTurn ==
    ASSUME Inductive, NEW w \in Workers, Turn(w)
    PROVE  Inductive'
<1> DEFINE i == job[w].island
           g == job[w].gen
           from == job[w].startGen
<1>1. /\ i # None
      /\ UNCHANGED <<coordinator, requests, inbox, thread, cancelled>>
  BY DEF Turn
<1>2. Thread(w) /\ TypeOK /\ WorkerTypes  BY TypeSplit DEF Inductive
<1>3. job[w] # NoJob  BY <1>1 DEF NoJob
<1>4. phase = "evolve" /\ InBatch(w)
  BY <1>2, <1>3 DEF Thread, InPhase, Loading, Between, After, TypeOK, Before, Ending
<1>5. ~ Has(inbox[w], "evolve") /\ Only(inbox[w], Orders) /\ Runs(w)
  BY <1>3, <1>4 DEF InBatch, Begins
<1>6. /\ i \in Hosted(w) /\ from = startGen /\ g = evolved[i] + 1
      /\ startGen <= evolved[i] /\ evolved[i] <= EndGen(startGen)
  BY <1>5 DEF Runs
<1>7. Reached(w) = i  BY <1>3, <1>5 DEF Reached
<1>8. Progress(w, i) /\ Spoken(w, outbox[w], i)  BY <1>4, <1>7 DEF InBatch
<1>9. /\ i \in Islands /\ i \in Int /\ evolved[i] \in 0..Generations /\ startGen \in 1..Generations
      /\ EndGen(startGen) \in startGen..Generations
      /\ Generations \in Nat
  BY <1>2, <1>6, Hosts, Sizes, Ends, PaceAssumption DEF TypeOK
<1>10. /\ Only(inbox'[w], Orders) /\ Plain(inbox'[w]) /\ MigrantsOf(w, inbox'[w])
       /\ Ordered(inbox'[w])
       /\ Has(inbox'[w], "cancel") => Has(inbox[w], "cancel")
  BY <1>1, <1>2, <1>5 DEF Thread, Addressed, InOrder
<1>11. UNCHANGED <<coordinator, cancelled, thread>>  BY <1>1
<1>12. \A x \in Workers : inbox'[x] = inbox[x] /\ cancelled'[x] = cancelled[x] /\ thread'[x] = thread[x]
  BY <1>1
<1>13. CASE ~ cancelled[w] /\ g <= EndGen(from)
  <2>1. Evolve(w, i, g, from, << >>)  BY <1>13 DEF Turn
  <2>2. PICK n \in 1..Generations : n = g  BY <1>6, <1>9, <1>13
  <2>3. PICK f \in 1..Generations : f = from  BY <1>6, <1>9
  <2>4. PICK k \in Hosted(w) : k = i  BY <1>6
  <2>5. Evolve(w, k, n, f, << >>)  BY <2>1, <2>2, <2>3, <2>4
  <2>6. /\ evolved' = [evolved EXCEPT ![k] = n] /\ evolved' \in [Islands -> 0..Generations]
        /\ \A j \in Islands : j # k => evolved'[j] = evolved[j]
        /\ hyper' \in [Islands -> HyperType]
        /\ lastBoosted' \in [Islands -> {NeverEnded} \cup 0..Generations]
        /\ job' \in [Workers -> JobType]
        /\ job'[w] = [island |-> k, gen |-> n + 1, startGen |-> f]
        /\ \A x \in Workers \ {w} : job'[x] = job[x]
    BY <1>2, <1>9, <2>4, <2>5, EvolveTypes
  <2>7. PICK q \in Seq(FromMsg) : q = outbox[w]  BY <1>2, Sayable
  <2>8. PICK a : a = Message("gen_progress", k, n)  BY <2>5
  <2>9. outbox' = [outbox EXCEPT ![w] = q \o << >> \o <<a>>]  BY <2>5, <2>7, <2>8 DEF Evolve
  <2>10. q \o << >> = q  BY <2>7
  <2>11. outbox' = [outbox EXCEPT ![w] = Joint(q, <<a>>)]  BY <2>9, <2>10 DEF Joint
  <2>12. outbox'[w] = Joint(q, <<a>>) /\ \A x \in Workers \ {w} : outbox'[x] = outbox[x]
    BY <1>2, <2>11 DEF WorkerTypes
  <2>13. /\ Ordered(q) /\ ReportsOf(w, q) /\ Plain(q)
         /\ Spoken(w, q, k) /\ Reported(w, q) /\ Progress(w, k)
    BY <1>2, <1>8, <2>4, <2>7 DEF Thread, Addressed, InOrder
  <2>14. n = evolved[k] + 1 /\ startGen <= n /\ n <= EndGen(startGen) /\ f = startGen /\ n \in Int
    BY <1>6, <1>9, <1>13, <2>2, <2>3, <2>4
  <2>15. Thread(w)' /\ a \in FromMsg
    BY <1>4, <1>10, <1>11, <2>6, <2>8, <2>12, <2>13, <2>14, Advancing
  <2>16. outbox' \in [Workers -> Seq(FromMsg)]
    <3>1. <<a>> \in Seq(FromMsg)  BY <2>15
    <3>2. Joint(q, <<a>>) \in Seq(FromMsg)  BY <3>1, ConcatProperties DEF Joint
    <3> QED  BY <1>2, <2>11, <3>2 DEF WorkerTypes
  <2>17. WorkerTypes'  BY <1>1, <1>2, <2>6, <2>16 DEF WorkerTypes
  <2>18. \A j \in Islands : j \notin Hosted(w) => evolved'[j] = evolved[j]  BY <2>4, <2>6
  <2> QED  BY <1>1, <1>12, <2>6, <2>12, <2>15, <2>17, <2>18, WorkerStep
<1>14. CASE /\ ~ (~ cancelled[w] /\ g <= EndGen(from))
            /\ ~ cancelled[w] /\ i + WorkerCount \in Islands
  <2>1. Evolve(w, i + WorkerCount, from, from, <<Message("batch_done", i, 0)>>)
    BY <1>14 DEF Turn
  <2>2. PICK n \in 1..Generations : n = startGen  BY <1>9
  <2>3. PICK c \in Nat \ {0} : c = WorkerCount  BY Sizes
  <2>4. PICK k \in Hosted(w) : k = i + c  BY <1>6, <1>14, <2>3, NextHosted
  <2>5. PICK b : b = Message("batch_done", i, 0)  OBVIOUS
  <2>6. Evolve(w, k, n, n, <<b>>)  BY <1>6, <2>1, <2>2, <2>3, <2>4, <2>5
  <2>7. k \in Islands /\ k \in Int /\ i < k  BY <1>9, <2>3, <2>4, Hosts, Sizes
  <2>8. /\ evolved' = [evolved EXCEPT ![k] = n] /\ evolved' \in [Islands -> 0..Generations]
        /\ \A j \in Islands : j # k => evolved'[j] = evolved[j]
        /\ hyper' \in [Islands -> HyperType]
        /\ lastBoosted' \in [Islands -> {NeverEnded} \cup 0..Generations]
        /\ job' \in [Workers -> JobType]
        /\ job'[w] = [island |-> k, gen |-> n + 1, startGen |-> n]
        /\ \A x \in Workers \ {w} : job'[x] = job[x]
    BY <1>2, <2>6, <2>7, EvolveTypes
  <2>9. b \in FromMsg /\ b.type = "batch_done" /\ b.island = i
    BY <1>9, <2>5 DEF Message, FromMsg
  <2>10. PICK m : m = <<b>>  OBVIOUS
  <2>11. /\ m \in Seq(FromMsg)
         /\ \A l \in DOMAIN m : m[l] = b
         /\ \A types : Only(m, types) <=> b.type \in types
         /\ \A type : Has(m, type) <=> b.type = type
         /\ \A type, j : Tells(m, type, j) <=> b.type = type /\ b.island = j
         /\ Ordered(m)
    BY <2>9, <2>10, Single
  <2>12. PICK p \in Seq(FromMsg) : p = outbox[w]  BY <1>2, Sayable
  <2>13. PICK q : q = Joint(p, m)  OBVIOUS
  <2>14. q \in Seq(FromMsg) /\ Joins(p, m, q)  BY <2>11, <2>13, Joining
  <2>15. PICK a : a = Message("gen_progress", k, n)  OBVIOUS
  <2>16. outbox' = [outbox EXCEPT ![w] = p \o m \o <<a>>]
    BY <2>6, <2>10, <2>12, <2>15 DEF Evolve
  <2>17. outbox' = [outbox EXCEPT ![w] = Joint(q, <<a>>)]  BY <2>13, <2>16 DEF Joint
  <2>18. outbox'[w] = Joint(q, <<a>>) /\ \A x \in Workers \ {w} : outbox'[x] = outbox[x]
    BY <1>2, <2>17 DEF WorkerTypes
  <2>19. /\ Ordered(p) /\ ReportsOf(w, p) /\ Plain(p)
         /\ Spoken(w, p, i) /\ Reported(w, p)
    BY <1>2, <1>8, <2>12 DEF Thread, Addressed, InOrder
  <2>20. ReportsOf(w, q) /\ Plain(q)
    <3>1. ReportsOf(w, m) /\ Plain(m)  BY <1>6, <2>9, <2>11 DEF ReportsOf, Plain
    <3> QED  BY <2>14, <2>19, <3>1 DEF Joins
  <2>21. Ordered(q)
    <3>1. \A l \in DOMAIN p : /\ p[l].type # "evolve"
                              /\ ~ (p[l].type = "batch_done" /\ p[l].island = i)
      BY <1>2, <1>6, <1>9, <2>12, <2>19, Sayable DEF Spoken, Tells
    <3>2. \A l \in DOMAIN p : Follows(p[l], b)  BY <2>9, <3>1 DEF Follows
    <3>3. \A l \in DOMAIN p, x \in DOMAIN m : Follows(p[l], m[x])  BY <2>11, <3>2
    <3> QED  BY <2>11, <2>14, <2>19, <3>3 DEF Joins
  <2>22. \A j \in Hosted(w) : (j < k <=> j <= i) /\ (k <= j <=> i < j) /\ j \in Int
    <3> TAKE j \in Hosted(w)
    <3>1. j \in Int  BY Hosts, Sizes
    <3>2. i < j => i + c <= j  BY <1>6, <2>3, NextHosted
    <3> QED  BY <1>9, <2>3, <2>4, <3>1, <3>2
  <2>23. Spoken(w, q, k)
    <3>1. i \in awaited  BY <1>6, <1>8, <1>9 DEF Progress
    <3>2. Only(q, {"gen_progress", "batch_done", "migrate_done"})
      BY <2>9, <2>11, <2>14, <2>19 DEF Joins, Spoken
    <3>3. Has(q, "migrate_done") => Has(p, "migrate_done")  BY <2>9, <2>11, <2>14 DEF Joins
    <3>4. \A j \in Hosted(w) : Tells(q, "batch_done", j) <=> Tells(p, "batch_done", j) \/ j = i
      BY <2>9, <2>11, <2>14 DEF Joins
    <3>5. \A j \in Hosted(w) : Tells(q, "gen_progress", j) <=> Tells(p, "gen_progress", j)
      BY <2>9, <2>11, <2>14 DEF Joins
    <3>6. \A j \in Hosted(w) : j < k <=> j < i \/ j = i  BY <1>9, <2>22
    <3> QED  BY <2>19, <3>1, <3>2, <3>3, <3>4, <3>5, <3>6 DEF Spoken
  <2>24. Progress(w, k)
    <3>1. evolved[i] = EndGen(startGen)  BY <1>6, <1>9, <1>14
    <3>2. \A j \in Hosted(w) : /\ k < j => i < j
                               /\ j < k => j < i \/ j = i
                               /\ k <= j => i <= j
      BY <1>9, <2>7, <2>22
    <3> QED  BY <1>8, <3>1, <3>2 DEF Progress
  <2>25. Reported(w, q)
    <3>1. \A l \in DOMAIN q : q[l].type = "gen_progress" => \E x \in DOMAIN p : q[l] = p[x]
      BY <2>9, <2>11, <2>14 DEF Joins
    <3>2. \A x \in DOMAIN p : \E l \in DOMAIN q : q[l] = p[x]  BY <2>14 DEF Joins
    <3> QED  BY <2>19, <3>1, <3>2 DEF Reported
  <2>26. n = evolved[k] + 1 /\ startGen <= n /\ n <= EndGen(startGen) /\ n \in Int
    <3>1. evolved[k] = startGen - 1  BY <1>8, <2>7 DEF Progress
    <3> QED  BY <1>9, <2>2, <3>1
  <2>27. job'[w] = [island |-> k, gen |-> n + 1, startGen |-> startGen]  BY <2>2, <2>8
  <2>28. Thread(w)' /\ a \in FromMsg
    BY <1>4, <1>10, <1>11, <2>8, <2>14, <2>15, <2>18, <2>20, <2>21, <2>23, <2>24, <2>25, <2>26,
       <2>27, Advancing
  <2>29. outbox' \in [Workers -> Seq(FromMsg)]
    <3>1. <<a>> \in Seq(FromMsg)  BY <2>28
    <3>2. Joint(q, <<a>>) \in Seq(FromMsg)  BY <2>14, <3>1, ConcatProperties DEF Joint
    <3> QED  BY <1>2, <2>17, <3>2 DEF WorkerTypes
  <2>30. WorkerTypes'  BY <1>1, <1>2, <2>8, <2>29 DEF WorkerTypes
  <2>31. \A j \in Islands : j \notin Hosted(w) => evolved'[j] = evolved[j]  BY <2>8
  <2> QED  BY <1>1, <1>12, <2>8, <2>18, <2>28, <2>30, <2>31, WorkerStep
<1>15. CASE /\ ~ (~ cancelled[w] /\ g <= EndGen(from))
            /\ ~ (~ cancelled[w] /\ i + WorkerCount \in Islands)
  <2>1. PICK k \in Hosted(w) : k = i  BY <1>6
  <2>2. LastTurn(w, k)  BY <1>15, <2>1 DEF Turn
  <2>3. cancelled[w] \/ (evolved[k] = EndGen(startGen) /\ k + WorkerCount \notin Islands)
    BY <1>6, <1>9, <1>15, <2>1
  <2>4. Spoken(w, outbox[w], k) /\ Progress(w, k)  BY <1>8, <2>1
  <2>5. /\ Thread(w)'
        /\ outbox' \in [Workers -> Seq(FromMsg)]
        /\ \A x \in Workers \ {w} : outbox'[x] = outbox[x]
    BY <1>4, <1>10, <1>11, <2>2, <2>3, <2>4, Finishing
  <2>6. NoJob \in JobType  BY PaceAssumption DEF NoJob, JobType
  <2>7. /\ job' \in [Workers -> JobType] /\ \A x \in Workers \ {w} : job'[x] = job[x]
        /\ UNCHANGED <<evolved, hyper, lastBoosted>>
    BY <1>2, <2>2, <2>6 DEF LastTurn, WorkerTypes
  <2>8. WorkerTypes'  BY <1>1, <1>2, <2>5, <2>7 DEF WorkerTypes
  <2> QED  BY <1>1, <1>12, <2>5, <2>7, <2>8, WorkerStep
<1> QED  BY <1>13, <1>14, <1>15

LEMMA StepOnEvolve ==
    ASSUME Inductive, NEW w \in Workers, OnEvolve(w)
    PROVE  Inductive'
<1>1. Receives(w, "evolve") /\ UNCHANGED <<coordinator, requests, thread, cancelled>>
  BY DEF OnEvolve, Receives
<1>2. PICK h : h = Head(inbox[w])  OBVIOUS
<1>3. /\ inbox' \in [Workers -> Seq(ToMsg)]
      /\ \A x \in Workers \ {w} : inbox'[x] = inbox[x]
      /\ Takes(inbox[w], h, inbox'[w])
  BY <1>1, <1>2, Receiving DEF Inductive
<1>4. h.type = "evolve"  BY <1>1, <1>2 DEF Receives
<1>5. Thread(w) /\ TypeOK /\ WorkerTypes  BY TypeSplit DEF Inductive
<1>6. Has(inbox[w], "evolve")  BY <1>3, <1>4 DEF Takes, Has
<1>7. phase = "evolve" /\ InBatch(w)
  <2>1. ~ Loading(w)  BY <1>6 DEF Loading, Has
  <2>2. ~ After(w)  BY <1>6 DEF After, Only, Has, Orders
  <2>3. ~ Between(w)  BY <1>6 DEF Between, Only, Has, Orders
  <2> QED  BY <1>5, <2>1, <2>2, <2>3 DEF Thread, InPhase, TypeOK, Before, Ending
<1>8. Begins(w) /\ Reached(w) = None  BY <1>6, <1>7 DEF InBatch, Reached
<1>9. h.gen = startGen  BY <1>3, <1>4, <1>8 DEF Takes, Begins
<1>10. w \in Hosted(w) /\ w \in Islands /\ w \in Int  BY Hosts, Sizes
<1>11. \A j \in Hosted(w) : /\ None < j /\ None <= j /\ ~ (j < None) /\ ~ (j < w)
                            /\ j \in Int /\ j \in Islands
  <2> TAKE j \in Hosted(w)
  <2>1. j \in Islands  BY Hosts
  <2>2. w <= j  BY NextHosted
  <2> QED  BY <1>10, <2>1, <2>2, Sizes
<1>12. Progress(w, w) /\ Spoken(w, outbox[w], w)
  BY <1>7, <1>8, <1>11 DEF InBatch, Progress, Spoken
<1>13. /\ Only(inbox'[w], Orders) /\ Plain(inbox'[w]) /\ MigrantsOf(w, inbox'[w])
       /\ Ordered(inbox'[w])
       /\ Has(inbox'[w], "cancel") => Has(inbox[w], "cancel")
  <2>1. Only(inbox'[w], Orders)  BY <1>3, <1>4, <1>5 DEF Thread, InOrder, Takes, Follows, Only
  <2> QED  BY <1>3, <1>5, <2>1 DEF Thread, Addressed, InOrder, Takes
<1>14. UNCHANGED <<coordinator, cancelled, thread>>  BY <1>1
<1>15. evolved[w] = startGen - 1
  BY <1>7, <1>8, <1>10, <1>11 DEF InBatch, Progress
<1>16. /\ startGen \in 1..Generations /\ EndGen(startGen) \in startGen..Generations
       /\ Generations \in Nat
  BY <1>5, Ends, PaceAssumption DEF TypeOK
<1>17. CASE ~ cancelled[w]
  <2>1. PICK n \in 1..Generations : n = startGen  BY <1>16
  <2>2. Evolve(w, w, n, n, << >>)  BY <1>2, <1>9, <1>17, <2>1 DEF OnEvolve
  <2>3. /\ evolved' = [evolved EXCEPT ![w] = n] /\ evolved' \in [Islands -> 0..Generations]
        /\ \A j \in Islands : j # w => evolved'[j] = evolved[j]
        /\ hyper' \in [Islands -> HyperType]
        /\ lastBoosted' \in [Islands -> {NeverEnded} \cup 0..Generations]
        /\ job' \in [Workers -> JobType]
        /\ job'[w] = [island |-> w, gen |-> n + 1, startGen |-> n]
        /\ \A x \in Workers \ {w} : job'[x] = job[x]
    BY <1>5, <1>10, <2>2, EvolveTypes
  <2>4. PICK q \in Seq(FromMsg) : q = outbox[w]  BY <1>5, Sayable
  <2>5. PICK a : a = Message("gen_progress", w, n)  OBVIOUS
  <2>6. outbox' = [outbox EXCEPT ![w] = q \o << >> \o <<a>>]  BY <2>2, <2>4, <2>5 DEF Evolve
  <2>7. q \o << >> = q  BY <2>4
  <2>8. outbox' = [outbox EXCEPT ![w] = Joint(q, <<a>>)]  BY <2>6, <2>7 DEF Joint
  <2>9. outbox'[w] = Joint(q, <<a>>) /\ \A x \in Workers \ {w} : outbox'[x] = outbox[x]
    BY <1>5, <2>8 DEF WorkerTypes
  <2>10. /\ Ordered(q) /\ ReportsOf(w, q) /\ Plain(q)
         /\ Spoken(w, q, w) /\ Reported(w, q) /\ Progress(w, w)
    BY <1>5, <1>12, <2>4 DEF Thread, Addressed, InOrder
  <2>11. n = evolved[w] + 1 /\ startGen <= n /\ n <= EndGen(startGen) /\ n \in Int
    BY <1>15, <1>16, <2>1
  <2>12. job'[w] = [island |-> w, gen |-> n + 1, startGen |-> startGen]  BY <2>1, <2>3
  <2>13. Thread(w)' /\ a \in FromMsg
    BY <1>7, <1>10, <1>13, <1>14, <2>3, <2>5, <2>9, <2>10, <2>11, <2>12, Advancing
  <2>14. outbox' \in [Workers -> Seq(FromMsg)]
    <3>1. <<a>> \in Seq(FromMsg)  BY <2>13
    <3>2. Joint(q, <<a>>) \in Seq(FromMsg)  BY <3>1, ConcatProperties DEF Joint
    <3> QED  BY <1>5, <2>8, <3>2 DEF WorkerTypes
  <2>15. WorkerTypes'  BY <1>1, <1>3, <1>5, <2>3, <2>14 DEF WorkerTypes
  <2>16. \A j \in Islands : j \notin Hosted(w) => evolved'[j] = evolved[j]  BY <1>10, <2>3
  <2> QED  BY <1>1, <1>3, <2>3, <2>9, <2>13, <2>15, <2>16, WorkerStep
<1>18. CASE cancelled[w]
  <2>1. LastTurn(w, w)  BY <1>18 DEF OnEvolve
  <2>2. /\ Thread(w)'
        /\ outbox' \in [Workers -> Seq(FromMsg)]
        /\ \A x \in Workers \ {w} : outbox'[x] = outbox[x]
    BY <1>7, <1>10, <1>12, <1>13, <1>14, <1>18, <2>1, Finishing
  <2>3. NoJob \in JobType  BY PaceAssumption DEF NoJob, JobType
  <2>4. /\ job' \in [Workers -> JobType] /\ \A x \in Workers \ {w} : job'[x] = job[x]
        /\ UNCHANGED <<evolved, hyper, lastBoosted>>
    BY <1>5, <2>1, <2>3 DEF LastTurn, WorkerTypes
  <2>5. WorkerTypes'  BY <1>1, <1>3, <1>5, <2>2, <2>4 DEF WorkerTypes
  <2> QED  BY <1>1, <1>3, <2>2, <2>4, <2>5, WorkerStep
<1> QED  BY <1>17, <1>18

-----------------------------------------------------------------------------
(* Steps that leave the channels and the islands alone.                    *)
LEMMA ChannelsKept ==
    ASSUME Inductive, TypeOK',
           UNCHANGED <<startGen, awaited, reports, counters, cancelSent, inbox, outbox,
                       cancelled, job, evolved>>,
           phase' = phase \/ (phase \in Ending /\ phase' \in Ending),
           cancelRequested => cancelRequested',
           \A w \in Workers : thread'[w] = thread[w] \/ thread'[w] = "gone"
    PROVE  Inductive'
<1>1. UNCHANGED <<islandGen, generationLog, totalMigrations, totalSpaceTravels>>
  BY DEF reports, counters
<1>2. LogIsGapless'  BY <1>1 DEF Inductive, LogIsGapless
<1>3. phase' = phase \/ ( /\ phase \in Ending /\ phase' \in Ending
                          /\ phase \notin Before /\ phase' \notin Before
                          /\ phase' \notin {"spawn", "evolve", "migrate", "travel"})
  BY DEF Ending, Before
<1>4. Coordinator'
  BY <1>1, <1>3 DEF Inductive, Coordinator, Tally, EndGen
<1>5. ASSUME NEW w \in Workers PROVE Thread(w)'
  <2>1. Thread(w)  BY DEF Inductive
  <2>2. Addressed(w)' /\ InOrder(w)' /\ Reported(w, outbox[w])' /\ Stopped(w)'
    BY <1>1, <2>1 DEF Thread, Addressed, InOrder, Reported, Stopped
  <2>3. Loading(w) => Loading(w)'  BY DEF Loading
  <2>4. InBatch(w) => InBatch(w)'
    <3>1. Reached(w)' = Reached(w)  BY DEF Reached
    <3>2. PICK at : at = Reached(w)  OBVIOUS
    <3>3. Progress(w, at) => Progress(w, at)'  BY <1>1 DEF Progress, EndGen
    <3>4. Spoken(w, outbox[w], at) => Spoken(w, outbox[w], at)'  BY DEF Spoken
    <3>5. (Begins(w) => Begins(w)') /\ (Runs(w) => Runs(w)')  BY DEF Begins, Runs, EndGen
    <3> QED  BY <3>1, <3>2, <3>3, <3>4, <3>5 DEF InBatch
  <2>5. Between(w) => Between(w)'  BY DEF Between, EndGen
  <2>6. SentOnce(w) => SentOnce(w)'  BY DEF SentOnce
  <2>7. After(w) => After(w)'  BY DEF After
  <2>8. InPhase(w)'
    BY <1>3, <2>1, <2>3, <2>4, <2>5, <2>6, <2>7 DEF Thread, InPhase, Before
  <2> QED  BY <2>1, <2>2, <2>8 DEF Thread
<1> QED  BY <1>2, <1>4, <1>5 DEF Inductive

LEMMA StepAside ==
    ASSUME Inductive,
           SaveCache \/ TerminateWorkers \/ WalkForward \/ RequestCancel \/ RequestHyper
    PROVE  Inductive'
<1>1. TypeOK  BY DEF Inductive
<1>2. CASE SaveCache
  <2>1. TypeOK'  BY <1>1, <1>2 DEF SaveCache, TypeOK, reports, counters, requests, workers
  <2>2. UNCHANGED <<startGen, awaited, reports, counters, cancelSent, inbox, outbox,
                    cancelled, job, evolved, cancelRequested, thread>>
    BY <1>2 DEF SaveCache, requests, workers
  <2>3. phase \in Ending /\ phase' \in Ending  BY <1>2 DEF SaveCache, Ending
  <2> QED  BY <2>1, <2>2, <2>3, ChannelsKept
<1>3. CASE TerminateWorkers
  <2>1. TypeOK'  BY <1>1, <1>3 DEF TerminateWorkers, TypeOK, reports, counters, requests
  <2>2. UNCHANGED <<startGen, awaited, reports, counters, cancelSent, inbox, outbox,
                    cancelled, job, evolved, cancelRequested>>
    BY <1>3 DEF TerminateWorkers, requests
  <2>3. phase \in Ending /\ phase' \in Ending  BY <1>3 DEF TerminateWorkers, Ending
  <2>4. \A w \in Workers : thread'[w] = "gone"  BY <1>3 DEF TerminateWorkers
  <2> QED  BY <2>1, <2>2, <2>3, <2>4, ChannelsKept
<1>4. CASE WalkForward
  <2>1. TypeOK'  BY <1>1, <1>4 DEF WalkForward, TypeOK, reports, counters, requests, workers
  <2>2. UNCHANGED <<startGen, awaited, reports, counters, cancelSent, inbox, outbox,
                    cancelled, job, evolved, cancelRequested, thread>>
    BY <1>4 DEF WalkForward, requests, workers
  <2>3. phase \in Ending /\ phase' \in Ending  BY <1>4 DEF WalkForward, Ending
  <2> QED  BY <2>1, <2>2, <2>3, ChannelsKept
<1>5. CASE RequestCancel
  <2>1. TypeOK'
    BY <1>1, <1>5 DEF RequestCancel, TypeOK, coordinator, reports, counters, workers
  <2>2. UNCHANGED <<phase, startGen, awaited, reports, counters, cancelSent, inbox, outbox,
                    cancelled, job, evolved, thread>> /\ cancelRequested'
    BY <1>5 DEF RequestCancel, coordinator, workers
  <2> QED  BY <2>1, <2>2, ChannelsKept
<1>6. CASE RequestHyper
  <2>1. TypeOK'
    <3>1. hyperQuota' \in 0..MaxHyper /\ hyperRequested' \in BOOLEAN
      BY <1>1, <1>6, HyperAssumption DEF RequestHyper, TypeOK
    <3>2. UNCHANGED <<coordinator, cancelRequested, inbox, outbox, workers>>
      BY <1>6 DEF RequestHyper
    <3> QED  BY <1>1, <3>1, <3>2 DEF TypeOK, coordinator, reports, counters, workers
  <2>2. UNCHANGED <<phase, startGen, awaited, reports, counters, cancelSent, inbox, outbox,
                    cancelled, job, evolved, thread, cancelRequested>>
    BY <1>6 DEF RequestHyper, coordinator, workers
  <2> QED  BY <2>1, <2>2, ChannelsKept
<1> QED  BY <1>2, <1>3, <1>4, <1>5, <1>6

(* An order goes to every worker.                                          *)
LEMMA Ordering ==
    ASSUME Inductive, TypeOK', phase = "evolve", NEW type \in Orders, Post(ToAll(Signal(type))),
           UNCHANGED <<phase, startGen, awaited, reports, counters, outbox, workers,
                       cancelRequested>>,
           cancelSent' = cancelSent \/ (cancelSent' = TRUE /\ cancelRequested),
           type = "cancel" => cancelSent'
    PROVE  Inductive'
<1>1. UNCHANGED <<islandGen, generationLog, totalMigrations, totalSpaceTravels, thread,
                  cancelled, job, evolved>>
  BY DEF reports, counters, workers
<1>2. LogIsGapless'  BY <1>1 DEF Inductive, LogIsGapless
<1>3. Coordinator'
  BY <1>1 DEF Inductive, Coordinator, Tally, EndGen, Before, Ending
<1>4. PICK a : a = Signal(type)  OBVIOUS
<1>5. a \in ToMsg /\ a.type = type
  BY <1>4, PaceAssumption DEF Signal, Message, ToMsg, Orders
<1>6. PICK m : m = <<a>>  OBVIOUS
<1>7. /\ m \in Seq(ToMsg)
      /\ \A k \in DOMAIN m : m[k] = a
      /\ \A types : Only(m, types) <=> a.type \in types
      /\ \A t : Has(m, t) <=> a.type = t
      /\ Ordered(m)
  BY <1>5, <1>6, Single
<1>8. PICK ms : ms = [w \in Workers |-> m]  OBVIOUS
<1>9. ms \in [Workers -> Seq(ToMsg)] /\ Post(ms) /\ \A w \in Workers : ms[w] = m
  BY <1>4, <1>6, <1>7, <1>8 DEF ToAll
<1>10. \A w \in Workers : Joins(inbox[w], m, inbox'[w])
  BY <1>9, Posting DEF Inductive
<1>11. a.type \in Orders /\ a.type # "evolve" /\ a.type # "migrate" /\ a.type # "migrate_done"
  BY <1>5 DEF Orders
<1>12. ASSUME NEW w \in Workers PROVE Thread(w)'
  <2>1. Thread(w) /\ InBatch(w)  BY DEF Inductive, Thread, InPhase
  <2>2. Joins(inbox[w], m, inbox'[w])  BY <1>10
  <2>3. Addressed(w)'
    <3>1. MigrantsOf(w, m) /\ Plain(m)  BY <1>7, <1>11 DEF MigrantsOf, Plain
    <3> QED  BY <2>1, <2>2, <3>1 DEF Thread, Addressed, Joins
  <2>4. InOrder(w)'
    <3>1. \A k \in DOMAIN inbox[w] : inbox[w][k].type \notin {"gen_progress", "batch_done"}
      BY <2>1 DEF InBatch, Only, Orders
    <3>2. \A k \in DOMAIN inbox[w], l \in DOMAIN m : Follows(inbox[w][k], m[l])
      BY <1>7, <1>11, <3>1 DEF Follows
    <3> QED  BY <1>7, <2>1, <2>2, <3>2 DEF Thread, InOrder, Joins
  <2>5. InBatch(w)'
    <3>1. Has(inbox'[w], "evolve") <=> Has(inbox[w], "evolve")  BY <1>7, <1>11, <2>2 DEF Joins
    <3>2. Reached(w)' = Reached(w)  BY <1>1, <3>1 DEF Reached
    <3>3. PICK at : at = Reached(w)  OBVIOUS
    <3>4. Progress(w, at) => Progress(w, at)'  BY <1>1 DEF Progress, EndGen
    <3>5. Spoken(w, outbox[w], at) => Spoken(w, outbox[w], at)'  BY DEF Spoken
    <3>6. Begins(w) => Begins(w)'  BY <1>1, <1>7, <1>11, <2>2 DEF Begins, Joins
    <3>7. Runs(w) => Runs(w)'  BY <1>1 DEF Runs, EndGen
    <3>8. Only(m, Orders) /\ Only(m, {"evolve", "migrate"} \cup Orders)  BY <1>7, <1>11
    <3>9. /\ Only(inbox[w], Orders) => Only(inbox'[w], Orders)
          /\ Only(inbox[w], {"evolve", "migrate"} \cup Orders) =>
                Only(inbox'[w], {"evolve", "migrate"} \cup Orders)
      BY <2>2, <3>8 DEF Joins
    <3>10. Progress(w, Reached(w))' /\ Spoken(w, outbox[w], Reached(w))'
      BY <2>1, <3>2, <3>3, <3>4, <3>5 DEF InBatch
    <3> QED  BY <1>1, <2>1, <3>1, <3>6, <3>7, <3>9, <3>10 DEF InBatch
  <2>6. InPhase(w)'  BY <1>1, <2>1, <2>5 DEF Thread, InPhase, Before, Ending
  <2>7. Reported(w, outbox[w])'  BY <1>1, <2>1 DEF Thread, Reported
  <2>8. Stopped(w)'  BY <1>1, <1>5, <1>7, <2>1, <2>2 DEF Thread, Stopped, Joins
  <2> QED  BY <2>3, <2>4, <2>6, <2>7, <2>8 DEF Thread
<1> QED  BY <1>2, <1>3, <1>12 DEF Inductive

LEMMA StepPoll ==
    ASSUME Inductive, PollCancel \/ PollHyper
    PROVE  Inductive'
<1>1. ASSUME NEW type \in Orders, Post(ToAll(Signal(type))) PROVE inbox' \in [Workers -> Seq(ToMsg)]
  <2>1. PICK a : a = Signal(type)  OBVIOUS
  <2>2. a \in ToMsg  BY <2>1, PaceAssumption DEF Signal, Message, ToMsg, Orders
  <2>3. <<a>> \in Seq(ToMsg)  BY <2>2
  <2>4. PICK ms : ms = [w \in Workers |-> <<a>>]  OBVIOUS
  <2>5. ms \in [Workers -> Seq(ToMsg)] /\ Post(ms)  BY <1>1, <2>1, <2>3, <2>4 DEF ToAll
  <2> QED  BY <2>5, Posting DEF Inductive
<1>2. CASE PollCancel
  <2>1. "cancel" \in Orders  BY DEF Orders
  <2>2. inbox' \in [Workers -> Seq(ToMsg)]  BY <1>1, <1>2, <2>1 DEF PollCancel
  <2>3. TypeOK'
    BY <1>2, <2>2 DEF PollCancel, Inductive, TypeOK, reports, counters, requests, workers, ToMsg
  <2>4. /\ phase = "evolve" /\ Post(ToAll(Signal("cancel"))) /\ cancelSent' = TRUE /\ cancelRequested
        /\ UNCHANGED <<phase, startGen, awaited, reports, counters, outbox, workers,
                       cancelRequested>>
    BY <1>2 DEF PollCancel, ShouldCancel, requests
  <2> QED  BY <2>1, <2>3, <2>4, Ordering
<1>3. CASE PollHyper
  <2>1. "hypermutate" \in Orders  BY DEF Orders
  <2>2. inbox' \in [Workers -> Seq(ToMsg)]  BY <1>1, <1>3, <2>1 DEF PollHyper
  <2>3. TypeOK'
    BY <1>3, <2>2 DEF PollHyper, Inductive, TypeOK, coordinator, reports, counters, workers, ToMsg
  <2>4. /\ phase = "evolve" /\ Post(ToAll(Signal("hypermutate"))) /\ cancelSent' = cancelSent
        /\ UNCHANGED <<phase, startGen, awaited, reports, counters, outbox, workers,
                       cancelRequested>>
    BY <1>3 DEF PollHyper, coordinator
  <2> QED  BY <2>1, <2>3, <2>4, Ordering
<1> QED  BY <1>2, <1>3

-----------------------------------------------------------------------------
(* The coordinator takes a message and goes on waiting.                    *)
LEMMA StepWaits ==
    ASSUME Inductive, TypeOK', LogIsGapless', Coordinator', NEW w \in Workers, Thread(w)',
           UNCHANGED <<phase, startGen, cancelSent, inbox, workers>>,
           \A x \in Workers \ {w} : outbox'[x] = outbox[x],
           \A i \in Islands : i \notin Hosted(w) =>
              islandGen'[i] = islandGen[i] /\ (i \in awaited' <=> i \in awaited)
    PROVE  Inductive'
<1>1. UNCHANGED <<job, cancelled, thread, evolved>>  BY DEF workers
<1>2. ASSUME NEW x \in Workers, x # w PROVE Thread(x)'
  <2>1. \A i \in Hosted(x) : i \in Islands /\ i \notin Hosted(w)  BY <1>2, Hosts
  <2>2. \A i \in Hosted(x) : /\ evolved'[i] = evolved[i] /\ islandGen'[i] = islandGen[i]
                             /\ i \in awaited' <=> i \in awaited
    BY <1>1, <2>1
  <2>3. Thread(x) /\ inbox'[x] = inbox[x] /\ outbox'[x] = outbox[x] /\ job'[x] = job[x]
        /\ cancelled'[x] = cancelled[x] /\ thread'[x] = thread[x]
    BY <1>1, <1>2 DEF Inductive
  <2> QED  BY <2>2, <2>3, Untouched
<1> QED  BY <1>2 DEF Inductive

LEMMA Heard ==
    ASSUME Inductive, NEW w \in Workers, NEW type, Arrives(w, type), Take(w), NEW h,
           h = Head(outbox[w])
    PROVE  /\ outbox' \in [Workers -> Seq(FromMsg)] /\ h \in FromMsg
           /\ \A x \in Workers \ {w} : outbox'[x] = outbox[x]
           /\ Takes(outbox[w], h, outbox'[w])
           /\ h.type = type /\ Has(outbox[w], type) /\ Tells(outbox[w], type, h.island)
           /\ type \in {"gen_progress", "batch_done", "migrate_done"} => h.island \in Hosted(w)
<1>1. outbox[w] # << >> /\ h.type = type  BY DEF Arrives
<1>2. /\ outbox' \in [Workers -> Seq(FromMsg)] /\ h \in FromMsg
      /\ \A x \in Workers \ {w} : outbox'[x] = outbox[x]
      /\ Takes(outbox[w], h, outbox'[w])
  BY <1>1, Removing DEF Inductive
<1>3. Has(outbox[w], type) /\ Tells(outbox[w], type, h.island)  BY <1>1, <1>2 DEF Takes, Has
<1>4. ReportsOf(w, outbox[w])  BY DEF Inductive, Thread, Addressed
<1>5. type \in {"gen_progress", "batch_done", "migrate_done"} => h.island \in Hosted(w)
  BY <1>1, <1>2, <1>4 DEF Takes
<1> QED  BY <1>1, <1>2, <1>3, <1>5

(* What remains of a report when one message is taken that is none.        *)
LEMMA ReportKept ==
    ASSUME NEW w \in Workers, Thread(w), NEW h, Takes(outbox[w], h, outbox'[w]),
           h.type # "gen_progress", UNCHANGED <<islandGen, evolved>>
    PROVE  Reported(w, outbox[w])'
<1>1. \A k \in DOMAIN outbox'[w] : \E l \in DOMAIN outbox[w] : outbox'[w][k] = outbox[w][l]
  BY DEF Takes
<1>2. \A k \in DOMAIN outbox[w] : outbox[w][k].type = "gen_progress" =>
         \E l \in DOMAIN outbox'[w] : outbox'[w][l] = outbox[w][k]
  BY DEF Takes
<1>3. Reported(w, outbox[w])  BY DEF Thread
<1>4. ASSUME NEW i \in Hosted(w), NEW g \in 1..Generations, islandGen[i] < g /\ g <= evolved[i]
      PROVE  \E k \in DOMAIN outbox'[w] : outbox'[w][k] = Message("gen_progress", i, g)
  <2>1. PICK k \in DOMAIN outbox[w] : outbox[w][k] = Message("gen_progress", i, g)
    BY <1>3, <1>4 DEF Reported
  <2>2. outbox[w][k].type = "gen_progress"  BY <2>1 DEF Message
  <2> QED  BY <1>2, <2>1, <2>2
<1> QED  BY <1>1, <1>3, <1>4 DEF Reported

LEMMA StepReady ==
    ASSUME Inductive, NEW w \in Workers, Arrives(w, "ready"), Take(w),
           UNCHANGED <<coordinator, requests, inbox, workers>>
    PROVE  Inductive'
<1>1. PICK h : h = Head(outbox[w])  OBVIOUS
<1>2. /\ outbox' \in [Workers -> Seq(FromMsg)] /\ h \in FromMsg
      /\ \A x \in Workers \ {w} : outbox'[x] = outbox[x]
      /\ Takes(outbox[w], h, outbox'[w])
      /\ h.type = "ready" /\ Has(outbox[w], "ready")
  BY <1>1, Heard
<1>3. Thread(w)  BY DEF Inductive
<1>4. ~ InBatch(w) /\ ~ Between(w) /\ ~ After(w)
  BY <1>2 DEF InBatch, Spoken, Between, After, Only, Has
<1>5. phase \in Before
  BY <1>3, <1>4 DEF Thread, InPhase, Inductive, TypeOK, Before, Ending
<1>6. Loading(w)  BY <1>3, <1>5 DEF Thread, InPhase
<1>7. outbox[w] = <<Signal("ready")>>  BY <1>2, <1>6 DEF Loading, Has
<1>8. outbox'[w] = << >>
  <2>1. WorkerTypes  BY TypeSplit DEF Inductive
  <2>2. outbox'[w] = Tail(outbox[w])  BY <2>1 DEF Take, WorkerTypes
  <2> QED  BY <1>7, <2>2
<1>9. UNCHANGED <<phase, startGen, cancelSent, islandGen, inbox, job, cancelled, thread, evolved>>
  BY DEF coordinator, reports, workers
<1>10. Thread(w)'
  <2>1. Addressed(w)' /\ InOrder(w)'  BY <1>2, <1>3, <1>9 DEF Thread, Addressed, InOrder, Takes
  <2>2. Loading(w)'  BY <1>6, <1>8, <1>9 DEF Loading
  <2>3. InPhase(w)'  BY <1>5, <1>9, <2>2 DEF InPhase, Before, Ending
  <2>4. Reported(w, outbox[w])'  BY <1>2, <1>3, <1>9, ReportKept
  <2>5. Stopped(w)'  BY <1>3, <1>9 DEF Thread, Stopped
  <2> QED  BY <2>1, <2>3, <2>4, <2>5 DEF Thread
<1>11. UNCHANGED <<job, cancelled, thread, evolved, hyper, lastBoosted>>  BY DEF workers
<1>12. WorkerTypes'  BY <1>2, <1>11, TypeSplit DEF Inductive, WorkerTypes
<1> QED  BY <1>2, <1>10, <1>11, <1>12, WorkerStep

LEMMA StepOnProgress ==
    ASSUME Inductive, NEW w \in Workers, OnProgress(w)
    PROVE  Inductive'
<1>1. /\ Arrives(w, "gen_progress") /\ Take(w)
      /\ UNCHANGED <<phase, startGen, awaited, deltas, counters, cancelSent, wfReport,
                     requests, inbox, workers>>
  BY DEF OnProgress
<1>2. PICK h : h = Head(outbox[w])  OBVIOUS
<1>3. /\ outbox' \in [Workers -> Seq(FromMsg)] /\ h \in FromMsg
      /\ \A x \in Workers \ {w} : outbox'[x] = outbox[x]
      /\ Takes(outbox[w], h, outbox'[w])
      /\ h.type = "gen_progress" /\ Has(outbox[w], "gen_progress")
      /\ Tells(outbox[w], "gen_progress", h.island) /\ h.island \in Hosted(w)
  BY <1>1, <1>2, Heard
<1>4. Thread(w) /\ TypeOK /\ WorkerTypes  BY TypeSplit DEF Inductive
<1>5. phase = "evolve" /\ InBatch(w)
  <2>1. ~ Loading(w) /\ ~ Between(w) /\ ~ After(w)
    <3>1. ~ Loading(w)  BY <1>3 DEF Loading, Has, Signal, Message
    <3>2. ~ Between(w) /\ ~ After(w)  BY <1>3 DEF Between, After, Only, Has
    <3> QED  BY <3>1, <3>2
  <2> QED  BY <1>4, <2>1 DEF Thread, InPhase, TypeOK, Before, Ending
<1>6. PICK i \in Hosted(w) : i = h.island  BY <1>3
<1>7. PICK g \in 0..Generations : g = h.gen  BY <1>3 DEF FromMsg
<1>8. i \in awaited  BY <1>3, <1>5, <1>6 DEF InBatch, Spoken
<1>9. islandGen' = [islandGen EXCEPT ![i] = g] /\ generationLog' = Logged(g)
  BY <1>2, <1>5, <1>6, <1>7, <1>8 DEF OnProgress, Listening
<1>10. /\ islandGen \in [Islands -> 0..Generations] /\ evolved \in [Islands -> 0..Generations]
       /\ startGen \in 1..Generations /\ Generations \in Nat \ {0}
       /\ i \in Islands
  BY <1>4, Hosts, PaceAssumption DEF TypeOK
<1>11. islandGen[i] < g /\ g <= evolved[i]
  BY <1>3, <1>4, <1>6, <1>7 DEF Thread, Reported, Takes
<1>12. islandGen[i] + 1 \in 1..Generations /\ g \in 1..Generations  BY <1>10, <1>11
<1>13. g = islandGen[i] + 1
  <2> SUFFICES ASSUME g # islandGen[i] + 1 PROVE FALSE  OBVIOUS
  <2>1. PICK n \in 1..Generations : n = islandGen[i] + 1  BY <1>12
  <2>2. islandGen[i] < n /\ n <= evolved[i] /\ n < g  BY <1>10, <1>11, <2>1
  <2>3. PICK k \in DOMAIN outbox[w] : outbox[w][k] = Message("gen_progress", i, n)
    BY <1>4, <2>2 DEF Thread, Reported
  <2>4. outbox[w][k].gen = n /\ outbox[w][k].type = "gen_progress" /\ outbox[w][k].island = i
    BY <2>3 DEF Message
  <2>5. outbox[w][k] # h  BY <1>7, <2>2, <2>4
  <2>6. Ordered(outbox[w])  BY <1>4 DEF Thread, InOrder
  <2>7. Follows(h, outbox[w][k])  BY <1>3, <2>5, <2>6 DEF Takes
  <2>8. g < n  BY <1>3, <1>6, <1>7, <2>4, <2>7 DEF Follows
  <2> QED  BY <2>2, <2>8
<1>14. islandGen'[i] = g /\ \A j \in Islands : j # i => islandGen'[j] = islandGen[j]
  BY <1>9, <1>10
<1>15. PICK L \in Nat : /\ L = Len(generationLog) /\ DOMAIN generationLog = 1..L
                        /\ \A k \in 1..L : generationLog[k] = k
                        /\ \A j \in Islands : islandGen[j] <= L
                        /\ generationLog # << >> => \E j \in Islands : islandGen[j] = L
  BY <1>4, LenProperties DEF TypeOK, Inductive, LogIsGapless
<1>16. g \in ToSet(generationLog) <=> g <= L
  <2>1. g \in ToSet(generationLog) <=> \E k \in 1..L : generationLog[k] = g  BY <1>15 DEF ToSet
  <2> QED  BY <1>12, <1>15, <2>1
<1>17. /\ generationLog' \in Seq(1..Generations)
       /\ LogIsGapless'
  <2>1. CASE g <= L
    <3>1. generationLog' = generationLog  BY <1>9, <1>16, <2>1 DEF Logged
    <3>2. generationLog # << >>  BY <1>12, <1>15, <2>1
    <3>3. PICK j \in Islands : islandGen[j] = L  BY <1>15, <3>2
    <3>4. islandGen[i] < L  BY <1>10, <1>13, <2>1
    <3>5. j # i  BY <3>3, <3>4
    <3>6. islandGen'[j] = L  BY <1>14, <3>3, <3>5
    <3>7. \A x \in Islands : islandGen'[x] <= L  BY <1>14, <1>15, <2>1
    <3>8. Len(generationLog') = L  BY <1>15, <3>1
    <3>9. \A k \in 1..L : generationLog'[k] = k  BY <1>15, <3>1
    <3> QED  BY <1>4, <3>1, <3>6, <3>7, <3>8, <3>9 DEF TypeOK, LogIsGapless
  <2>2. CASE g > L
    <3>1. generationLog' = Append(generationLog, g)  BY <1>9, <1>16, <2>2 DEF Logged
    <3>2. islandGen[i] <= L  BY <1>10, <1>15
    <3>3. g = L + 1  BY <1>10, <1>13, <2>2, <3>2
    <3>4. /\ generationLog' \in Seq(1..Generations) /\ Len(generationLog') = L + 1
          /\ \A k \in 1..L : generationLog'[k] = generationLog[k]
          /\ generationLog'[L + 1] = g
      BY <1>4, <1>12, <1>15, <3>1, AppendProperties DEF TypeOK
    <3>5. \A k \in 1..(L + 1) : generationLog'[k] = k
      <4> TAKE k \in 1..(L + 1)
      <4>1. k \in 1..L \/ k = L + 1  OBVIOUS
      <4> QED  BY <1>15, <3>3, <3>4, <4>1
    <3>6. \A x \in Islands : islandGen'[x] <= L + 1
      <4> TAKE x \in Islands
      <4>1. islandGen[x] <= L /\ islandGen[x] \in Int  BY <1>10, <1>15
      <4> QED  BY <1>14, <3>3, <4>1
    <3>7. islandGen'[i] = L + 1  BY <1>14, <3>3
    <3> QED  BY <1>10, <3>4, <3>5, <3>6, <3>7 DEF LogIsGapless
  <2> QED  BY <2>1, <2>2, <1>12
<1>18. TypeOK'
  <2>1. islandGen' \in [Islands -> 0..Generations]  BY <1>9, <1>10
  <2> QED  BY <1>1, <1>3, <1>4, <1>17, <2>1 DEF TypeOK, counters, requests, workers, FromMsg
<1>19. Coordinator'
  BY <1>1, CountersKept DEF Inductive, requests
<1>20. UNCHANGED <<job, cancelled, thread, evolved>>  BY <1>1 DEF workers
<1>21. Thread(w)'
  <2>1. Addressed(w)' /\ InOrder(w)'  BY <1>1, <1>3, <1>4 DEF Thread, Addressed, InOrder, Takes
  <2>2. InBatch(w)'
    <3>1. Reached(w)' = Reached(w)  BY <1>1, <1>20 DEF Reached
    <3>2. PICK at : at = Reached(w)  OBVIOUS
    <3>3. Progress(w, at)'
      <4>1. \A j \in Hosted(w) : startGen - 1 <= islandGen[j] /\ j \in Islands
        BY <1>5, Hosts DEF InBatch, Progress
      <4>2. \A j \in Hosted(w) : startGen - 1 <= islandGen'[j]
        BY <1>10, <1>11, <1>14, <4>1
      <4> QED  BY <1>1, <1>5, <1>20, <3>2, <4>2 DEF InBatch, Progress, EndGen
    <3>4. Spoken(w, outbox[w], at)'  BY <1>1, <1>3, <1>5, <3>2 DEF InBatch, Spoken, Takes
    <3>5. (Begins(w) => Begins(w)') /\ (Runs(w) => Runs(w)')
      BY <1>1, <1>20 DEF Begins, Runs, EndGen
    <3> QED  BY <1>1, <1>5, <1>20, <3>1, <3>2, <3>3, <3>4, <3>5 DEF InBatch
  <2>3. InPhase(w)'  BY <1>1, <1>4, <1>5, <1>20, <2>2 DEF Thread, InPhase, Before, Ending
  <2>4. Reported(w, outbox[w])'
    <3>1. Reported(w, outbox[w]) /\ ReportsOf(w, outbox[w]) /\ Ordered(outbox[w])
      BY <1>4 DEF Thread, Addressed, InOrder
    <3>2. ASSUME NEW k \in DOMAIN outbox'[w], outbox'[w][k].type = "gen_progress"
          PROVE  /\ islandGen'[outbox'[w][k].island] < outbox'[w][k].gen
                 /\ outbox'[w][k].gen <= evolved'[outbox'[w][k].island]
      <4>1. PICK l \in DOMAIN outbox[w] : outbox'[w][k] = outbox[w][l]  BY <1>3 DEF Takes
      <4>2. PICK j \in Hosted(w) : j = outbox[w][l].island
        BY <3>1, <3>2, <4>1 DEF ReportsOf
      <4>3. islandGen[j] < outbox[w][l].gen /\ outbox[w][l].gen <= evolved[j]
        BY <3>1, <3>2, <4>1, <4>2 DEF Reported
      <4>4. Follows(h, outbox'[w][k])  BY <1>3, <3>1 DEF Takes
      <4>5. j = i => g < outbox[w][l].gen
        BY <1>3, <1>6, <1>7, <3>2, <4>1, <4>2, <4>4 DEF Follows
      <4>6. j \in Islands  BY Hosts
      <4> QED  BY <1>14, <1>20, <4>1, <4>2, <4>3, <4>5, <4>6
    <3>3. ASSUME NEW j \in Hosted(w)
          PROVE  /\ islandGen'[j] <= evolved'[j]
                 /\ \A n \in 1..Generations : islandGen'[j] < n /\ n <= evolved'[j] =>
                       \E k \in DOMAIN outbox'[w] : outbox'[w][k] = Message("gen_progress", j, n)
      <4>1. islandGen[j] <= evolved[j] /\ j \in Islands  BY <3>1, Hosts DEF Reported
      <4>2. islandGen'[j] <= evolved'[j]  BY <1>11, <1>14, <1>20, <4>1
      <4>3. ASSUME NEW n \in 1..Generations, islandGen'[j] < n, n <= evolved'[j]
            PROVE  \E k \in DOMAIN outbox'[w] : outbox'[w][k] = Message("gen_progress", j, n)
        <5>1. islandGen[j] < n /\ (j = i => g < n)
          BY <1>10, <1>11, <1>14, <4>1, <4>3
        <5>2. PICK k \in DOMAIN outbox[w] : outbox[w][k] = Message("gen_progress", j, n)
          BY <1>20, <3>1, <4>3, <5>1 DEF Reported
        <5>3. outbox[w][k].island = j /\ outbox[w][k].gen = n  BY <5>2 DEF Message
        <5>4. outbox[w][k] # h  BY <1>6, <1>7, <5>1, <5>3
        <5> QED  BY <1>3, <5>2, <5>4 DEF Takes
      <4> QED  BY <4>2, <4>3
    <3> QED  BY <3>2, <3>3 DEF Reported
  <2>5. Stopped(w)'  BY <1>1, <1>4, <1>20 DEF Thread, Stopped
  <2> QED  BY <2>1, <2>3, <2>4, <2>5 DEF Thread
<1>22. \A j \in Islands : j \notin Hosted(w) => islandGen'[j] = islandGen[j]  BY <1>14
<1> QED  BY <1>1, <1>3, <1>17, <1>18, <1>19, <1>21, <1>22, StepWaits

LEMMA StepOnResults ==
    ASSUME Inductive, NEW w \in Workers, OnResults(w)
    PROVE  Inductive'
<1>1. /\ Take(w) /\ phase = "collect"
      /\ awaited' = awaited \ {Head(outbox[w]).island}
      /\ deltas' = IF Arrives(w, "cache_delta") THEN deltas \ {w} ELSE deltas
      /\ Collected
      /\ UNCHANGED <<startGen, reports, counters, cancelSent, wfReport, requests, inbox, workers>>
  BY DEF OnResults
<1>2. PICK type : type \in {"results", "cache_delta"} /\ Arrives(w, type)  BY DEF OnResults
<1>3. PICK h : h = Head(outbox[w])  OBVIOUS
<1>4. /\ outbox' \in [Workers -> Seq(FromMsg)]
      /\ \A x \in Workers \ {w} : outbox'[x] = outbox[x]
      /\ Takes(outbox[w], h, outbox'[w]) /\ h.type = type
  BY <1>1, <1>2, <1>3, Heard
<1>5. phase' \in {"collect", "save", "terminate"}  BY <1>1 DEF Collected
<1>6. /\ phase' \in Ending /\ phase' \notin Before
      /\ phase' \notin {"spawn", "evolve", "migrate", "travel"}
      /\ phase \in Ending /\ phase \notin Before
  BY <1>1, <1>5 DEF Ending, Before
<1>7. TypeOK  BY DEF Inductive
<1>8. TypeOK'
  <2>1. awaited' \subseteq Islands /\ deltas' \subseteq Workers  BY <1>1, <1>7 DEF TypeOK
  <2> QED  BY <1>1, <1>4, <1>5, <1>7, <2>1 DEF TypeOK, FromMsg, reports, counters, requests, workers
<1>9. UNCHANGED <<islandGen, generationLog, totalMigrations, totalSpaceTravels,
                  job, cancelled, thread, evolved, cancelRequested>>
  BY <1>1 DEF reports, counters, workers, requests
<1>10. LogIsGapless'  BY <1>9 DEF Inductive, LogIsGapless
<1>11. Coordinator'  BY <1>1, <1>6, <1>9 DEF Inductive, Coordinator, Tally
<1>12. ASSUME NEW x \in Workers PROVE Thread(x)'
  <2>1. Thread(x) /\ Thread(w)  BY DEF Inductive
  <2>2. /\ \A k \in DOMAIN outbox'[x] : \E l \in DOMAIN outbox[x] : outbox'[x][k] = outbox[x][l]
        /\ Ordered(outbox'[x]) /\ ReportsOf(x, outbox'[x]) /\ Plain(outbox'[x])
        /\ Only(outbox[x], {"migrate_done", "results", "cache_delta"}) =>
              Only(outbox'[x], {"migrate_done", "results", "cache_delta"})
    <3>1. CASE x = w
      BY <1>4, <2>1, <3>1 DEF Takes, Thread, InOrder, Addressed
    <3>2. CASE x # w
      BY <1>4, <2>1, <3>2 DEF Thread, InOrder, Addressed
    <3> QED  BY <3>1, <3>2
  <2>3. Addressed(x)' /\ InOrder(x)'
    BY <1>1, <2>1, <2>2 DEF Thread, Addressed, InOrder
  <2>4. After(x)  BY <1>6, <2>1 DEF Thread, InPhase
  <2>5. After(x)'  BY <1>1, <1>9, <2>2, <2>4 DEF After
  <2>6. InPhase(x)'  BY <1>1, <1>6, <1>9, <2>1, <2>5 DEF Thread, InPhase
  <2>7. Reported(x, outbox[x])'
    <3>1. CASE x = w
      <4>1. h.type # "gen_progress"  BY <1>2, <1>4
      <4> QED  BY <1>4, <1>9, <2>1, <3>1, <4>1, ReportKept
    <3>2. CASE x # w  BY <1>4, <1>9, <2>1, <3>2 DEF Thread, Reported
    <3> QED  BY <3>1, <3>2
  <2>8. Stopped(x)'  BY <1>1, <1>9, <2>1 DEF Thread, Stopped
  <2> QED  BY <2>3, <2>6, <2>7, <2>8 DEF Thread
<1> QED  BY <1>8, <1>10, <1>11, <1>12 DEF Inductive

(* The promise of one island is resolved, others are pending.              *)
LEMMA StepBatchDone ==
    ASSUME Inductive, NEW w \in Workers, Arrives(w, "batch_done"), Take(w), phase = "evolve",
           awaited' = awaited \ {Head(outbox[w]).island},
           UNCHANGED <<phase, startGen, deltas, counters, cancelSent, inbox,
                       reports, wfReport, requests, workers>>
    PROVE  Inductive'
<1>1. PICK h : h = Head(outbox[w])  OBVIOUS
<1>2. /\ outbox' \in [Workers -> Seq(FromMsg)]
      /\ \A x \in Workers \ {w} : outbox'[x] = outbox[x]
      /\ Takes(outbox[w], h, outbox'[w]) /\ h.type = "batch_done"
      /\ Tells(outbox[w], "batch_done", h.island) /\ h.island \in Hosted(w)
  BY <1>1, Heard
<1>3. PICK i \in Hosted(w) : i = h.island  BY <1>2
<1>4. awaited' = awaited \ {i}  BY <1>1, <1>3
<1>5. TypeOK /\ Thread(w) /\ InBatch(w)  BY DEF Inductive, Thread, InPhase
<1>6. TypeOK'
  BY <1>2, <1>4, <1>5 DEF TypeOK, FromMsg, reports, counters, requests, workers
<1>7. UNCHANGED <<islandGen, generationLog, job, cancelled, thread, evolved, cancelRequested>>
  BY DEF reports, workers, requests
<1>8. LogIsGapless'  BY <1>7 DEF Inductive, LogIsGapless
<1>9. Coordinator'  BY <1>7, CountersKept DEF Inductive
<1>10. Thread(w)'
  <2>1. Addressed(w)' /\ InOrder(w)'  BY <1>2, <1>5 DEF Thread, Addressed, InOrder, Takes
  <2>2. \A x \in DOMAIN outbox'[w] : Follows(h, outbox'[w][x])
    BY <1>2, <1>5 DEF Thread, InOrder, Takes
  <2>3. /\ ~ Tells(outbox'[w], "batch_done", i) /\ ~ Tells(outbox'[w], "gen_progress", i)
        /\ ~ Has(outbox'[w], "migrate_done")
    BY <1>2, <1>3, <2>2 DEF Follows, Tells, Has
  <2>4. InBatch(w)'
    <3>1. Reached(w)' = Reached(w)  BY <1>7 DEF Reached
    <3>2. PICK at : at = Reached(w)  OBVIOUS
    <3>3. Progress(w, at) /\ Spoken(w, outbox[w], at)  BY <1>5, <3>2 DEF InBatch
    <3>4. i < at  BY <1>2, <1>3, <3>3 DEF Spoken
    <3>5. ~ (at <= i)
      <4>1. i \in Int /\ (at = None \/ at = TotalWorkers \/ at \in Hosted(w))
        BY <1>5, <3>2, Hosts, Sizes DEF Reached, InBatch, Runs
      <4>2. None \in Int /\ TotalWorkers \in Int /\ \A j \in Hosted(w) : j \in Int
        <5>1. None \in Int  BY DEF None
        <5>2. TotalWorkers \in Int  BY Sizes
        <5>3. \A j \in Hosted(w) : j \in Int  BY Hosts, Sizes
        <5> QED  BY <5>1, <5>2, <5>3
      <4>3. at \in Int  BY <4>1, <4>2
      <4> QED  BY <3>4, <4>1, <4>3
    <3>6. Progress(w, at)'  BY <1>4, <1>7, <3>3, <3>5 DEF Progress, EndGen
    <3>7. Spoken(w, outbox[w], at)'
      <4>1. \A j \in Hosted(w) : j # i =>
               /\ Tells(outbox'[w], "batch_done", j) <=> (j < at /\ j \in awaited')
               /\ Tells(outbox'[w], "gen_progress", j) => j \in awaited'
        BY <1>2, <1>3, <1>4, <3>3 DEF Spoken, Takes
      <4>2. Only(outbox'[w], {"gen_progress", "batch_done", "migrate_done"})
        BY <1>2, <3>3 DEF Spoken, Takes
      <4> QED  BY <1>4, <2>3, <4>1, <4>2 DEF Spoken
    <3>8. (Begins(w) => Begins(w)') /\ (Runs(w) => Runs(w)')
      BY <1>7 DEF Begins, Runs, EndGen
    <3> QED  BY <1>5, <1>7, <3>1, <3>2, <3>6, <3>7, <3>8 DEF InBatch
  <2>5. InPhase(w)'  BY <1>5, <1>7, <2>4 DEF Thread, InPhase, Before, Ending
  <2>6. Reported(w, outbox[w])'
    <3>1. h.type # "gen_progress"  BY <1>2
    <3> QED  BY <1>2, <1>5, <1>7, <3>1, ReportKept
  <2>7. Stopped(w)'  BY <1>5, <1>7 DEF Thread, Stopped
  <2> QED  BY <2>1, <2>5, <2>6, <2>7 DEF Thread
<1>11. \A j \in Islands : j \notin Hosted(w) =>
          islandGen'[j] = islandGen[j] /\ (j \in awaited' <=> j \in awaited)
  BY <1>4, <1>7
<1> QED  BY <1>2, <1>6, <1>8, <1>9, <1>10, <1>11, StepWaits

(* An answer to migrants, one that was waited for or one that was not.     *)
LEMMA StepMigrateDone ==
    ASSUME Inductive, NEW w \in Workers, Arrives(w, "migrate_done"), Take(w), phase # "spinning",
           \/ phase \in {"migrate", "travel"} /\ awaited' = awaited \ {Head(outbox[w]).island}
           \/ /\ ~ (phase \in {"migrate", "travel"} /\ Head(outbox[w]).island \in awaited)
              /\ UNCHANGED awaited,
           UNCHANGED <<phase, startGen, deltas, counters, cancelSent, inbox,
                       reports, wfReport, requests, workers>>
    PROVE  Inductive'
<1>1. PICK h : h = Head(outbox[w])  OBVIOUS
<1>2. /\ outbox' \in [Workers -> Seq(FromMsg)]
      /\ \A x \in Workers \ {w} : outbox'[x] = outbox[x]
      /\ Takes(outbox[w], h, outbox'[w]) /\ h.type = "migrate_done"
      /\ Tells(outbox[w], "migrate_done", h.island) /\ h.island \in Hosted(w)
      /\ Has(outbox[w], "migrate_done")
  BY <1>1, Heard
<1>3. PICK i \in Hosted(w) : i = h.island  BY <1>2
<1>4. TypeOK /\ Thread(w)  BY DEF Inductive
<1>5. awaited' = awaited \/ (awaited' = awaited \ {i} /\ phase \in {"migrate", "travel"})
  BY <1>1, <1>3
<1>6. TypeOK'
  BY <1>2, <1>4, <1>5 DEF TypeOK, FromMsg, reports, counters, requests, workers
<1>7. UNCHANGED <<islandGen, generationLog, job, cancelled, thread, evolved, cancelRequested>>
  BY DEF reports, workers, requests
<1>8. LogIsGapless'  BY <1>7 DEF Inductive, LogIsGapless
<1>9. Coordinator'  BY <1>7, CountersKept DEF Inductive
<1>10. Thread(w)'
  <2>1. Addressed(w)' /\ InOrder(w)'  BY <1>2, <1>4 DEF Thread, Addressed, InOrder, Takes
  <2>2. ~ Loading(w)  BY <1>2 DEF Loading, Has, Signal, Message
  <2>3. ASSUME phase = "evolve" PROVE InBatch(w)'
    <3>1. awaited' = awaited /\ InBatch(w)  BY <1>4, <1>5, <2>3 DEF Thread, InPhase
    <3>2. Reached(w)' = Reached(w)  BY <1>7 DEF Reached
    <3>3. PICK at : at = Reached(w)  OBVIOUS
    <3>4. Progress(w, at) /\ Spoken(w, outbox[w], at)  BY <3>1, <3>3 DEF InBatch
    <3>5. Progress(w, at)'  BY <1>7, <3>1, <3>4 DEF Progress, EndGen
    <3>6. Spoken(w, outbox[w], at)'
      <4>1. \A j \in Hosted(w) : /\ Tells(outbox'[w], "batch_done", j) <=> Tells(outbox[w], "batch_done", j)
                                 /\ Tells(outbox'[w], "gen_progress", j) => Tells(outbox[w], "gen_progress", j)
        BY <1>2 DEF Takes
      <4>2. Has(outbox'[w], "migrate_done") => Has(outbox[w], "migrate_done")
        BY <1>2 DEF Takes
      <4>3. Only(outbox'[w], {"gen_progress", "batch_done", "migrate_done"})
        BY <1>2, <3>4 DEF Spoken, Takes
      <4> QED  BY <3>1, <3>4, <4>1, <4>2, <4>3 DEF Spoken
    <3>7. (Begins(w) => Begins(w)') /\ (Runs(w) => Runs(w)')
      BY <1>7 DEF Begins, Runs, EndGen
    <3> QED  BY <1>7, <3>1, <3>2, <3>3, <3>5, <3>6, <3>7 DEF InBatch
  <2>4. Between(w) => Between(w)'  BY <1>2, <1>7 DEF Between, EndGen, Takes
  <2>5. ASSUME phase = "migrate" PROVE SentOnce(w)'
    <3>1. SentOnce(w)  BY <1>4, <2>5 DEF Thread, InPhase
    <3>2. i \in awaited  BY <1>2, <1>3, <3>1 DEF SentOnce
    <3>3. awaited' = awaited \ {i}  BY <1>1, <1>3, <1>5, <2>5, <3>2
    <3>4. ~ Tells(outbox'[w], "migrate_done", i) /\ ~ Tells(inbox[w], "migrate", i)
      BY <1>2, <1>3, <3>1 DEF SentOnce, Takes
    <3>5. Once(outbox'[w], "migrate_done")  BY <1>2, <3>1 DEF SentOnce, Takes
    <3>6. \A j \in Hosted(w) : j # i =>
             (Tells(outbox'[w], "migrate_done", j) <=> Tells(outbox[w], "migrate_done", j))
      BY <1>2, <1>3 DEF Takes
    <3>7. \A j \in Hosted(w) :
             /\ ~ (Tells(inbox[w], "migrate", j) /\ Tells(outbox'[w], "migrate_done", j))
             /\ j \in awaited' <=> Tells(inbox[w], "migrate", j) \/ Tells(outbox'[w], "migrate_done", j)
      BY <3>1, <3>3, <3>4, <3>6 DEF SentOnce
    <3> QED  BY <3>1, <3>5, <3>7 DEF SentOnce
  <2>6. After(w) => After(w)'  BY <1>2, <1>7 DEF After, Takes
  <2>7. InPhase(w)'
    BY <1>4, <1>7, <2>2, <2>3, <2>4, <2>5, <2>6 DEF Thread, InPhase
  <2>8. Reported(w, outbox[w])'
    <3>1. h.type # "gen_progress"  BY <1>2
    <3> QED  BY <1>2, <1>4, <1>7, <3>1, ReportKept
  <2>9. Stopped(w)'  BY <1>4, <1>7 DEF Thread, Stopped
  <2> QED  BY <2>1, <2>7, <2>8, <2>9 DEF Thread
<1>11. \A j \in Islands : j \notin Hosted(w) =>
          islandGen'[j] = islandGen[j] /\ (j \in awaited' <=> j \in awaited)
  BY <1>5, <1>7
<1> QED  BY <1>2, <1>6, <1>8, <1>9, <1>10, <1>11, StepWaits

-----------------------------------------------------------------------------
(* The barrier: the coordinator has taken the last message it waited for.  *)
(* No thread works, no report is under way, and it turns to the next batch *)
(* or the end.                                                             *)
Gathered ==
    /\ outbox' \in [Workers -> Seq(FromMsg)]
    /\ \A w \in Workers :
          /\ Only(inbox[w], {"migrate"} \cup Orders)
          /\ Only(outbox'[w], {"migrate_done"})
          /\ ReportsOf(w, outbox'[w]) /\ Plain(outbox'[w])
          /\ job[w] = NoJob /\ thread[w] # "loading"
    /\ \A i \in Islands : islandGen[i] = evolved[i]
    /\ UNCHANGED <<reports, wfReport, requests, workers>>

LEMMA PostedAll ==
    ASSUME Inductive, Gathered, NEW ms \in [Workers -> Seq(ToMsg)], Post(ms),
           \A w \in Workers : /\ MigrantsOf(w, ms[w]) /\ Plain(ms[w]) /\ Ordered(ms[w])
                              /\ Has(ms[w], "cancel") => cancelSent',
           cancelSent => cancelSent'
    PROVE  /\ LogIsGapless'
           /\ inbox' \in [Workers -> Seq(ToMsg)]
           /\ \A w \in Workers : /\ Addressed(w)' /\ InOrder(w)' /\ Reported(w, outbox[w])'
                                 /\ Stopped(w)' /\ Joins(inbox[w], ms[w], inbox'[w])
<1>1. UNCHANGED <<islandGen, generationLog, job, cancelled, evolved>>
  BY DEF Gathered, reports, workers
<1>2. LogIsGapless'  BY <1>1 DEF Inductive, LogIsGapless
<1>3. /\ inbox' \in [Workers -> Seq(ToMsg)]
      /\ \A w \in Workers : Joins(inbox[w], ms[w], inbox'[w])
  BY Posting DEF Inductive
<1>4. ASSUME NEW w \in Workers
      PROVE  Addressed(w)' /\ InOrder(w)' /\ Reported(w, outbox[w])' /\ Stopped(w)'
  <2>1. Thread(w) /\ Joins(inbox[w], ms[w], inbox'[w])  BY <1>3 DEF Inductive
  <2>2. Addressed(w)'  BY <2>1 DEF Gathered, Thread, Addressed, Joins
  <2>3. Ordered(inbox'[w])
    <3>1. \A k \in DOMAIN inbox[w] :
             inbox[w][k].type \notin {"gen_progress", "batch_done", "evolve"}
      BY DEF Gathered, Only, Orders
    <3>2. \A k \in DOMAIN inbox[w], l \in DOMAIN ms[w] : Follows(inbox[w][k], ms[w][l])
      BY <3>1 DEF Follows
    <3> QED  BY <2>1, <3>2 DEF Thread, InOrder, Joins
  <2>4. Ordered(outbox'[w])
    <3>1. Only(outbox'[w], {"migrate_done"})  BY DEF Gathered
    <3> QED  BY <3>1 DEF Only, Ordered, Follows
  <2>5. Reported(w, outbox[w])'
    <3>1. \A k \in DOMAIN outbox'[w] : outbox'[w][k].type # "gen_progress"
      BY DEF Gathered, Only
    <3>2. \A i \in Hosted(w) : /\ islandGen'[i] = evolved'[i] /\ evolved'[i] \in Int
      BY <1>1, Hosts DEF Gathered, Inductive, TypeOK
    <3> QED  BY <3>1, <3>2, PaceAssumption DEF Reported
  <2>6. Stopped(w)'  BY <1>1, <2>1 DEF Thread, Stopped, Joins
  <2> QED  BY <2>2, <2>3, <2>4, <2>5, <2>6 DEF InOrder
<1> QED  BY <1>2, <1>3, <1>4

LEMMA GatheredTypes ==
    ASSUME Inductive, Gathered, inbox' \in [Workers -> Seq(ToMsg)],
           phase' \in {"evolve", "migrate", "travel", "collect", "spinning"},
           startGen' \in 1..Generations, awaited' \subseteq Islands, deltas' \subseteq Workers,
           totalMigrations' \in Nat, totalSpaceTravels' \in Nat, cancelSent' \in BOOLEAN
    PROVE  TypeOK'
  BY DEF Inductive, TypeOK, Gathered, reports, requests, workers, ToMsg, FromMsg

\* What the counters say when a run that was not cancelled ends.
Complete(m, t) ==
    /\ \A i \in Islands : evolved[i] = Generations
    /\ m = (Generations - 1) \div MigrationInterval
    /\ t = Travels(m)

LEMMA Collecting ==
    ASSUME Inductive, Gathered, NEW stopping \in BOOLEAN, Collect(stopping),
           stopping => cancelRequested,
           totalMigrations' \in Nat, totalSpaceTravels' \in Nat,
           ~ stopping /\ ~ cancelSent => Complete(totalMigrations', totalSpaceTravels')
    PROVE  Inductive'
<1>1. /\ phase' = "collect" /\ awaited' = Islands
      /\ deltas' = (IF SpecMode THEN Workers ELSE {})
      /\ cancelSent' = (cancelSent \/ stopping) /\ startGen' = startGen
  BY DEF Collect
<1>2. cancelSent \in BOOLEAN /\ startGen \in 1..Generations  BY DEF Inductive, TypeOK
<1>3. cancelSent' \in BOOLEAN /\ (cancelSent' <=> cancelSent \/ stopping)  BY <1>1, <1>2
<1>4. PICK c : c = Signal("cancel")  OBVIOUS
<1>5. PICK g : g = Signal("get_results")  OBVIOUS
<1>6. /\ c \in ToMsg /\ g \in ToMsg /\ c.type = "cancel" /\ g.type = "get_results"
  BY <1>4, <1>5, PaceAssumption DEF Signal, Message, ToMsg
<1>7. PICK m : m = IF stopping /\ ~ cancelSent THEN <<c, g>> ELSE <<g>>  OBVIOUS
<1>8. /\ m \in Seq(ToMsg)
      /\ \A k \in DOMAIN m : m[k] = c \/ m[k] = g
      /\ stopping \/ cancelSent \/ \A k \in DOMAIN m : m[k] = g
  BY <1>6, <1>7
<1>9. /\ \A w \in Workers : MigrantsOf(w, m)
      /\ Plain(m) /\ Ordered(m) /\ (Has(m, "cancel") => cancelSent')
  <2>1. \A k \in DOMAIN m : m[k].type \in {"cancel", "get_results"}  BY <1>6, <1>8
  <2>2. Ordered(m)  BY <2>1 DEF Ordered, Follows
  <2>3. Has(m, "cancel") => cancelSent'  BY <1>3, <1>6, <1>8 DEF Has
  <2> QED  BY <2>1, <2>2, <2>3 DEF MigrantsOf, Plain
<1>10. PICK ms : ms = [w \in Workers |-> m]  OBVIOUS
<1>11. ms \in [Workers -> Seq(ToMsg)] /\ \A w \in Workers : ms[w] = m  BY <1>8, <1>10
<1>12. Post(ms)
  <2>1. ms = [w \in Workers |-> IF stopping /\ ~ cancelSent
                                THEN <<Signal("cancel"), Signal("get_results")>>
                                ELSE <<Signal("get_results")>>]
    BY <1>4, <1>5, <1>7, <1>10
  <2> QED  BY <2>1 DEF Collect
<1>13. /\ LogIsGapless'
       /\ inbox' \in [Workers -> Seq(ToMsg)]
       /\ \A w \in Workers : /\ Addressed(w)' /\ InOrder(w)' /\ Reported(w, outbox[w])'
                             /\ Stopped(w)' /\ Joins(inbox[w], m, inbox'[w])
  BY <1>3, <1>9, <1>11, <1>12, PostedAll
<1>14. TypeOK'
  <2>1. awaited' \subseteq Islands /\ deltas' \subseteq Workers  BY <1>1
  <2> QED  BY <1>1, <1>2, <1>3, <1>13, <2>1, GatheredTypes
<1>15. UNCHANGED <<cancelRequested, job, thread, evolved>>
  BY DEF Gathered, requests, workers
<1>16. Coordinator'
  BY <1>1, <1>3, <1>15 DEF Inductive, Coordinator, Tally, Complete, Before
<1>17. ASSUME NEW w \in Workers PROVE InPhase(w)'
  <2>1. Only(m, {"migrate", "get_results"} \cup Orders)  BY <1>6, <1>8 DEF Only, Orders
  <2>2. Only(inbox[w], {"migrate", "get_results"} \cup Orders)  BY DEF Gathered, Only
  <2>3. Only(inbox'[w], {"migrate", "get_results"} \cup Orders)  BY <1>13, <2>1, <2>2 DEF Joins
  <2>4. After(w)'  BY <1>15, <2>3 DEF After, Gathered, Only
  <2>5. ~ cancelSent' => \A i \in Hosted(w) : evolved'[i] = Generations
    BY <1>3, <1>15, Hosts DEF Complete
  <2>6. thread'[w] # "loading"  BY <1>15 DEF Gathered
  <2> QED  BY <1>1, <2>4, <2>5, <2>6 DEF InPhase, Before, Ending
<1> QED  BY <1>13, <1>14, <1>16, <1>17 DEF Inductive, Thread

LEMMA Beginning ==
    ASSUME Inductive, Gathered, NEW g \in 1..Generations,
           phase' = "evolve", startGen' = g, awaited' = Islands,
           Post(ToAll(Message("evolve", None, g))), UNCHANGED <<deltas, cancelSent>>,
           totalMigrations' \in Nat, totalSpaceTravels' \in Nat,
           \A i \in Islands : evolved[i] = g - 1,
           MigrationInterval * totalMigrations' = g - 1,
           totalSpaceTravels' = Travels(totalMigrations')
    PROVE  Inductive'
<1>1. PICK a : a = Message("evolve", None, g)  OBVIOUS
<1>2. a \in ToMsg /\ a.type = "evolve" /\ a.gen = g
  BY <1>1, PaceAssumption DEF Message, ToMsg
<1>3. PICK m : m = <<a>>  OBVIOUS
<1>4. /\ m \in Seq(ToMsg)
      /\ \A k \in DOMAIN m : m[k] = a
      /\ \A types : Only(m, types) <=> a.type \in types
      /\ \A type : Has(m, type) <=> a.type = type
      /\ Ordered(m)
  BY <1>2, <1>3, Single
<1>5. PICK ms : ms = [w \in Workers |-> m]  OBVIOUS
<1>6. ms \in [Workers -> Seq(ToMsg)] /\ \A w \in Workers : ms[w] = m  BY <1>4, <1>5
<1>7. Post(ms)  BY <1>1, <1>3, <1>5 DEF ToAll
<1>8. /\ \A w \in Workers : MigrantsOf(w, m)
      /\ Plain(m) /\ ~ Has(m, "cancel")
  BY <1>2, <1>4 DEF MigrantsOf, Plain
<1>9. /\ LogIsGapless'
      /\ inbox' \in [Workers -> Seq(ToMsg)]
      /\ \A w \in Workers : /\ Addressed(w)' /\ InOrder(w)' /\ Reported(w, outbox[w])'
                            /\ Stopped(w)' /\ Joins(inbox[w], m, inbox'[w])
  BY <1>4, <1>6, <1>7, <1>8, PostedAll
<1>10. TypeOK'
  <2>1. awaited' \subseteq Islands /\ deltas' \subseteq Workers /\ cancelSent' \in BOOLEAN
    BY DEF Inductive, TypeOK
  <2> QED  BY <1>9, <2>1, GatheredTypes
<1>11. UNCHANGED <<cancelRequested, job, thread, evolved, islandGen, cancelSent>>
  BY DEF Gathered, requests, workers, reports
<1>12. Coordinator'
  BY <1>11 DEF Inductive, Coordinator, Tally, Before, Ending
<1>13. ASSUME NEW w \in Workers PROVE InPhase(w)'
  <2>1. Has(inbox'[w], "evolve")  BY <1>2, <1>4, <1>9 DEF Joins
  <2>2. Reached(w)' = None  BY <2>1 DEF Reached
  <2>3. Only(inbox'[w], {"evolve", "migrate"} \cup Orders)
    <3>1. Only(m, {"evolve", "migrate"} \cup Orders)  BY <1>2, <1>4
    <3>2. Only(inbox[w], {"evolve", "migrate"} \cup Orders)  BY DEF Gathered, Only
    <3> QED  BY <1>9, <3>1, <3>2 DEF Joins
  <2>4. Begins(w)'
    <3>1. job'[w] = NoJob  BY <1>11 DEF Gathered
    <3>2. \A k \in DOMAIN inbox[w] : inbox[w][k].type # "evolve"
      BY DEF Gathered, Only, Orders
    <3>3. \A k \in DOMAIN inbox'[w] : inbox'[w][k].type = "evolve" => inbox'[w][k] = a
      BY <1>4, <1>9, <3>2 DEF Joins
    <3> QED  BY <1>2, <3>1, <3>3 DEF Begins
  <2>5. \A i \in Hosted(w) : /\ i \in Islands /\ ~ (i < None)
                             /\ evolved'[i] = g - 1 /\ islandGen'[i] = g - 1
    BY <1>11, Hosts, Sizes DEF Gathered
  <2>6. Progress(w, None)'  BY <2>5 DEF Progress
  <2>7. Spoken(w, outbox[w], None)'
    <3>1. Only(outbox'[w], {"migrate_done"})  BY DEF Gathered
    <3>2. Only(outbox'[w], {"gen_progress", "batch_done", "migrate_done"})
      BY <3>1 DEF Only
    <3>3. \A i \in Hosted(w) : /\ ~ Tells(outbox'[w], "batch_done", i)
                               /\ ~ Tells(outbox'[w], "gen_progress", i)
      BY <3>1 DEF Only, Tells
    <3> QED  BY <2>5, <3>2, <3>3 DEF Spoken
  <2>8. InBatch(w)'  BY <2>1, <2>2, <2>3, <2>4, <2>6, <2>7 DEF InBatch
  <2>9. thread'[w] # "loading"  BY <1>11 DEF Gathered
  <2> QED  BY <2>8, <2>9 DEF InPhase, Before, Ending
<1> QED  BY <1>9, <1>10, <1>12, <1>13 DEF Inductive, Thread

(* Nothing at all is under way but orders.                                 *)
Silent == \A w \in Workers : Only(inbox[w], Orders) /\ Only(outbox'[w], {})

LEMMA Awaiting ==
    ASSUME Inductive, Gathered, NEW p \in {"migrate", "travel"},
           NEW D, IsFiniteSet(D), NEW to \in [D -> Islands], Await(p, D, to),
           p = "migrate" => Silent /\ \A d, e \in D : to[d] = to[e] => d = e,
           EndGen(startGen) < Generations,
           \A i \in Islands : evolved[i] = EndGen(startGen),
           totalMigrations' \in Nat, totalSpaceTravels' \in Nat,
           p = "migrate" => /\ MigrationInterval * totalMigrations' = startGen - 1
                            /\ totalSpaceTravels' = Travels(totalMigrations'),
           p = "travel" => /\ MigrationInterval * totalMigrations' = EndGen(startGen)
                           /\ totalSpaceTravels' + 1 = Travels(totalMigrations')
    PROVE  Inductive'
<1>1. /\ phase' = p /\ awaited' = {to[d] : d \in D} /\ Post(Migrates(D, to))
      /\ UNCHANGED <<startGen, deltas, cancelSent>>
  BY DEF Await
<1>2. PICK ms : ms = Migrates(D, to)  OBVIOUS
<1>3. \A w \in Workers :
          /\ ms[w] \in Seq(ToMsg)
          /\ \A k \in DOMAIN ms[w] : /\ ms[w][k].type = "migrate"
                                     /\ ms[w][k].island \in Hosted(w) /\ ms[w][k].gen = 0
          /\ \A i \in Hosted(w) : (\E d \in D : to[d] = i) <=> Tells(ms[w], "migrate", i)
          /\ (\A d, e \in D : to[d] = to[e] => d = e) => Once(ms[w], "migrate")
  <2> TAKE w \in Workers
  <2>1. PICK m : m = ms[w]  OBVIOUS
  <2>2. m = Migrates(D, to)[w]  BY <1>2, <2>1
  <2>3. Sends(D, to, w, m)  BY <2>2, Posted, Zenon
  <2> QED  BY <2>1, <2>3 DEF Sends
<1>4. ms \in [Workers -> Seq(ToMsg)]
  <2>1. ms = [w \in Workers |-> ms[w]]  BY <1>2 DEF Migrates
  <2> QED  BY <1>3, <2>1
<1>5. \A w \in Workers : /\ MigrantsOf(w, ms[w]) /\ Plain(ms[w]) /\ Ordered(ms[w])
                         /\ Has(ms[w], "cancel") => cancelSent'
  BY <1>3 DEF MigrantsOf, Plain, Ordered, Follows, Has
<1>6. /\ LogIsGapless'
      /\ inbox' \in [Workers -> Seq(ToMsg)]
      /\ \A w \in Workers : /\ Addressed(w)' /\ InOrder(w)' /\ Reported(w, outbox[w])'
                            /\ Stopped(w)' /\ Joins(inbox[w], ms[w], inbox'[w])
  BY <1>1, <1>2, <1>4, <1>5, PostedAll
<1>7. TypeOK'
  <2>1. awaited' \subseteq Islands /\ deltas' \subseteq Workers /\ cancelSent' \in BOOLEAN
        /\ startGen' \in 1..Generations
    BY <1>1 DEF Inductive, TypeOK
  <2> QED  BY <1>1, <1>6, <2>1, GatheredTypes
<1>8. UNCHANGED <<cancelRequested, job, thread, evolved>>
  BY DEF Gathered, requests, workers
<1>9. Coordinator'
  BY <1>1, <1>8 DEF Inductive, Coordinator, Tally, Before, Ending, EndGen
<1>10. ASSUME NEW w \in Workers PROVE InPhase(w)'
  <2>1. Joins(inbox[w], ms[w], inbox'[w])  BY <1>6
  <2>2. Between(w)'
    <3>1. Only(ms[w], {"migrate"} \cup Orders)  BY <1>3 DEF Only
    <3>2. Only(inbox'[w], {"migrate"} \cup Orders)  BY <2>1, <3>1 DEF Gathered, Joins
    <3>3. \A i \in Hosted(w) : evolved'[i] = EndGen(startGen)'
      BY <1>1, <1>8, Hosts DEF EndGen
    <3> QED  BY <1>8, <3>2, <3>3 DEF Between, Gathered
  <2>3. ASSUME p = "migrate" PROVE SentOnce(w)'
    <3>1. Silent /\ Once(ms[w], "migrate")  BY <1>3, <2>3
    <3>2. \A k \in DOMAIN outbox'[w] : FALSE  BY <3>1 DEF Silent, Only
    <3>3. \A type, i : ~ Tells(inbox[w], "migrate", i) /\ ~ Tells(outbox'[w], type, i)
      BY <3>1, <3>2 DEF Silent, Only, Tells, Orders
    <3>4. \A i : Tells(inbox'[w], "migrate", i) <=> Tells(ms[w], "migrate", i)
      BY <2>1, <3>3 DEF Joins
    <3>5. \A i \in Hosted(w) : i \in awaited' <=> Tells(ms[w], "migrate", i)
      BY <1>1, <1>3
    <3>6. Once(outbox'[w], "migrate_done")  BY <3>2 DEF Once
    <3>7. Once(inbox'[w], "migrate")
      <4>1. PICK q \in Seq(ToMsg) : q = inbox[w]  BY TypeSplit DEF Inductive, WorkerTypes
      <4>2. PICK m \in Seq(ToMsg) : m = ms[w]  BY <1>3
      <4>3. PICK r : r = Joint(q, m)  OBVIOUS
      <4>4. r = inbox'[w]  BY <1>1, <1>2, <4>1, <4>2, <4>3 DEF Post, Joint
      <4>5. /\ \A k \in DOMAIN q : k \in DOMAIN r /\ r[k] = q[k]
            /\ \A k \in DOMAIN m : Len(q) + k \in DOMAIN r /\ r[Len(q) + k] = m[k]
            /\ \A x \in DOMAIN r : x \in DOMAIN q \/ \E k \in DOMAIN m : x = Len(q) + k
        BY <4>3, JoinedBy
      <4>6. \A k \in DOMAIN q : q[k].type # "migrate"  BY <3>1, <4>1 DEF Silent, Only, Orders
      <4>7. \A x \in DOMAIN r : r[x].type = "migrate" =>
               \E k \in DOMAIN m : x = Len(q) + k /\ r[x] = m[k]
        BY <4>5, <4>6
      <4>8. Once(m, "migrate")  BY <3>1, <4>2
      <4>9. Once(r, "migrate")
        <5> SUFFICES ASSUME NEW x \in DOMAIN r, NEW y \in DOMAIN r,
                            r[x].type = "migrate", r[y].type = "migrate",
                            r[x].island = r[y].island
                     PROVE  x = y
          BY DEF Once
        <5>1. PICK k \in DOMAIN m : x = Len(q) + k /\ r[x] = m[k]  BY <4>7
        <5>2. PICK l \in DOMAIN m : y = Len(q) + l /\ r[y] = m[l]  BY <4>7
        <5>3. k = l  BY <4>8, <5>1, <5>2 DEF Once
        <5> QED  BY <5>1, <5>2, <5>3
      <4> QED  BY <4>4, <4>9
    <3> QED  BY <3>3, <3>4, <3>5, <3>6, <3>7 DEF SentOnce
  <2>4. thread'[w] # "loading"  BY <1>8 DEF Gathered
  <2> QED  BY <1>1, <2>2, <2>3, <2>4 DEF InPhase, Before, Ending
<1> QED  BY <1>6, <1>7, <1>9, <1>10 DEF Inductive, Thread

LEMMA Spinning ==
    ASSUME Inductive, Gathered, Spin
    PROVE  Inductive'
<1>1. /\ phase' = "spinning"
      /\ UNCHANGED <<startGen, awaited, deltas, cancelSent, counters, inbox>>
  BY DEF Spin
<1>2. PICK ms : ms = [w \in Workers |-> << >>]  OBVIOUS
<1>3. UNCHANGED <<cancelRequested, job, thread, evolved, islandGen, generationLog, cancelled>>
  BY DEF Gathered, requests, workers, reports
<1>4. LogIsGapless'  BY <1>3 DEF Inductive, LogIsGapless
<1>5. TypeOK'
  <2>1. TypeOK  BY DEF Inductive
  <2> QED
    BY <1>1, <2>1 DEF TypeOK, Gathered, reports, requests, workers, counters, ToMsg, FromMsg
<1>6. Coordinator'
  BY <1>1, <1>3 DEF Inductive, Coordinator, Tally, Before, Ending
<1>7. ASSUME NEW w \in Workers PROVE Thread(w)'
  <2>1. Thread(w)  BY DEF Inductive
  <2>2. Addressed(w)'  BY <1>1, <2>1 DEF Gathered, Thread, Addressed
  <2>3. InOrder(w)'
    <3>1. Only(outbox'[w], {"migrate_done"})  BY DEF Gathered
    <3>2. Ordered(outbox'[w])  BY <3>1 DEF Only, Ordered, Follows
    <3> QED  BY <1>1, <2>1, <3>2 DEF Thread, InOrder
  <2>4. Reported(w, outbox[w])'
    <3>1. \A k \in DOMAIN outbox'[w] : outbox'[w][k].type # "gen_progress"
      BY DEF Gathered, Only
    <3>2. \A i \in Hosted(w) : /\ islandGen'[i] = evolved'[i] /\ evolved'[i] \in Int
      BY <1>3, Hosts DEF Gathered, Inductive, TypeOK
    <3> QED  BY <3>1, <3>2, PaceAssumption DEF Reported
  <2>5. Stopped(w)'  BY <1>1, <1>3, <2>1 DEF Thread, Stopped
  <2>6. After(w)'  BY <1>1, <1>3 DEF After, Gathered, Only
  <2>7. thread'[w] # "loading"  BY <1>3 DEF Gathered
  <2>8. InPhase(w)'  BY <1>1, <2>6, <2>7 DEF InPhase, Before, Ending
  <2> QED  BY <2>2, <2>3, <2>4, <2>5, <2>8 DEF Thread
<1> QED  BY <1>4, <1>5, <1>6, <1>7 DEF Inductive

-----------------------------------------------------------------------------
(* Who is sent migrants, and what the counters come to.                    *)
LEMMA DrawnNodes ==
    ASSUME NEW n \in Nat \ {0}, NEW f \in Drawings(n), NEW k \in 0..(n - 1)
    PROVE  f[k] \subseteq 0..(n - 1)
<1>1. CASE Topology = "ring"
  <2>1. f[k] = {(k + 1) % n}  BY <1>1 DEF Drawings
  <2>2. (k + 1) % n \in 0..(n - 1)  OBVIOUS
  <2> QED  BY <2>1, <2>2
<1>2. CASE Topology = "torus"
  <2>1. f[k] = TorusTargets(n, k)  BY <1>2 DEF Drawings
  <2> QED  BY <2>1 DEF TorusTargets
<1>3. CASE Topology = "random"
  <2>1. f \in [0..(n - 1) -> {{x} : x \in 0..(n - 1)}]  BY <1>3 DEF Drawings
  <2>2. PICK x \in 0..(n - 1) : f[k] = {x}  BY <2>1
  <2> QED  BY <2>2
<1> QED  BY <1>1, <1>2, <1>3, ShapeAssumption

LEMMA TargetsAreIslands ==
    ASSUME NEW targets \in IslandTargets
    PROVE  \A i \in Islands : targets[i] \subseteq Islands
<1>1. PICK d \in [0..NumPlanets - 1 -> Drawings(NumIslands)] :
          targets = [i \in Islands |-> { (i \div NumIslands)*NumIslands + x :
                                           x \in d[i \div NumIslands][i % NumIslands] }]
  BY DEF IslandTargets
<1>2. PICK a \in Nat \ {0} : a = NumPlanets  BY ShapeAssumption
<1>3. PICK b \in Nat \ {0} : b = NumIslands  BY ShapeAssumption
<1> SUFFICES ASSUME NEW i \in Islands, NEW y \in targets[i] PROVE y \in Islands
  OBVIOUS
<1>4. i \in Nat /\ i < a*b  BY <1>2, <1>3, Sizes DEF TotalWorkers
<1>5. PICK q \in Nat, r \in 0..(b - 1) : i = b*q + r /\ q = i \div b /\ r = i % b
  BY <1>3, <1>4, Division
<1>6. q <= a - 1
  <2> SUFFICES ASSUME a <= q PROVE FALSE  BY <1>2, <1>5
  <2>1. a \in Int /\ q \in Int  OBVIOUS
  <2>2. a*b <= q*b  BY <2>1, Scaled, Zenon
  <2>3. q*b = b*q  OBVIOUS
  <2>4. PICK u \in Int, v \in Int : u = a*b /\ v = b*q  OBVIOUS
  <2>5. u <= v /\ i < u /\ i = v + r  BY <1>4, <1>5, <2>2, <2>3, <2>4
  <2>6. r >= 0  OBVIOUS
  <2> QED  BY <2>5, <2>6
<1>7. d[q] \in Drawings(b)  BY <1>2, <1>3, <1>5, <1>6
<1>8. \A k \in 0..(b - 1) : d[q][k] \subseteq 0..(b - 1)
  BY <1>3, <1>7, DrawnNodes
<1>9. PICK x \in d[q][r] : y = q*b + x  BY <1>1, <1>3, <1>5
<1>10. x \in 0..(b - 1)  BY <1>5, <1>8, <1>9
<1>11. q*b <= (a - 1)*b
  <2>1. q \in Int /\ a - 1 \in Int  OBVIOUS
  <2> QED  BY <1>6, <2>1, Scaled, Zenon
<1>12. (a - 1)*b = a*b - b  BY <1>2, <1>3
<1>13. q*b \in Nat  BY <1>3, <1>5
<1>14. y \in Nat /\ y < a*b  BY <1>9, <1>10, <1>11, <1>12, <1>13
<1> QED  BY <1>2, <1>3, <1>14 DEF Islands, TotalWorkers

LEMMA IslandsAreFinite ==
    /\ IsFiniteSet(Islands)
    /\ IsFiniteSet((0..NumPlanets - 1) \X (0..NumPlanets - 1))
<1>1. 0 \in Int /\ TotalWorkers - 1 \in Int /\ NumPlanets - 1 \in Int
  BY Sizes, ShapeAssumption
<1> QED  BY <1>1, FS_Interval, FS_Product DEF Islands

LEMMA Batches ==
    ASSUME NEW g \in 1..Generations, NEW n \in Nat, MigrationInterval * n = g - 1
    PROVE  /\ EndGen(g) < Generations => MigrationInterval * (n + 1) = EndGen(g)
           /\ EndGen(g) = Generations => n = (Generations - 1) \div MigrationInterval
<1>1. PICK m \in Nat \ {0} : m = MigrationInterval  BY PaceAssumption
<1>2. PICK e \in Nat \ {0} : e = Generations  BY PaceAssumption
<1>3. g \in Nat /\ g >= 1 /\ g <= e /\ m*n = g - 1  BY <1>1, <1>2
<1>4. EndGen(g) = IF g + m - 1 < e THEN g + m - 1 ELSE e  BY <1>1, <1>2 DEF EndGen
<1>5. ASSUME EndGen(g) < e PROVE m*(n + 1) = EndGen(g)
  <2>1. m*(n + 1) = m*n + m  OBVIOUS
  <2> QED  BY <1>3, <1>4, <1>5, <2>1
<1>6. ASSUME EndGen(g) = e PROVE n = (e - 1) \div m
  <2>1. PICK a \in Nat : a = e - 1  OBVIOUS
  <2>2. PICK r \in Int : r = e - g  BY <1>3
  <2>3. r \in 0..(m - 1)  BY <1>3, <1>4, <1>6, <2>2
  <2>4. a = m*n + r  BY <1>3, <2>1, <2>2
  <2>5. a \div m = n
    <3>1. n \in Int  OBVIOUS
    <3> QED  BY Zenon, <2>3, <2>4, <3>1, Quotient
  <2> QED  BY <2>1, <2>5
<1> QED  BY <1>1, <1>2, <1>5, <1>6

LEMMA Trips ==
    ASSUME NEW s \in Nat \ {0}, NEW n \in Nat
    PROVE  /\ n \div s \in Nat
           /\ (n + 1) % s = 0 => (n + 1) \div s = n \div s + 1
           /\ (n + 1) % s # 0 => (n + 1) \div s = n \div s
<1>1. PICK q \in Nat, r \in 0..(s - 1) : n = s*q + r /\ q = n \div s /\ r = n % s
  BY Division
<1>2. PICK a \in Nat : a = n + 1  OBVIOUS
<1>6. n = s*q + r  BY <1>1
<1>3. ASSUME r < s - 1 PROVE a \div s = q /\ a % s # 0
  <2>1. PICK t \in Nat : t = r + 1  OBVIOUS
  <2>2. t \in 0..(s - 1) /\ a = s*q + t  BY <1>2, <1>3, <1>6, <2>1
  <2>3. a \div s = q /\ a % s = t  BY <2>2, Quotient
  <2> QED  BY <2>1, <2>3
<1>4. ASSUME r = s - 1 PROVE a \div s = q + 1 /\ a % s = 0
  <2>1. PICK p \in Int : p = q + 1  OBVIOUS
  <2>2. s*(q + 1) = s*q + s  OBVIOUS
  <2>3. s*p = s*q + s  BY <2>1, <2>2, Zenon
  <2>4. a = s*p + 0 /\ 0 \in 0..(s - 1)
    <3>1. a = s*p + 0  BY <1>2, <1>4, <1>6, <2>3
    <3> QED  BY <3>1
  <2>5. a \div s = p /\ a % s = 0  BY <2>4, Quotient
  <2> QED  BY <2>1, <2>5
<1>5. r < s - 1 \/ r = s - 1  OBVIOUS
<1> QED  BY <1>1, <1>2, <1>3, <1>4, <1>5

LEMMA Travelled ==
    ASSUME NEW n \in Nat, NumPlanets > 1
    PROVE  /\ Travels(n) \in Nat
           /\ (n + 1) % SpaceTravelInterval = 0 => Travels(n) + 1 = Travels(n + 1)
           /\ (n + 1) % SpaceTravelInterval # 0 => Travels(n) = Travels(n + 1)
<1>1. PICK s \in Nat \ {0} : s = SpaceTravelInterval  BY PaceAssumption
<1>2. \A k : Travels(k) = k \div s  BY <1>1 DEF Travels
<1> QED  BY <1>1, <1>2, Trips

(* The head of the batch loop, while there are batches to come.            *)
LEMMA Entering ==
    ASSUME Inductive, Gathered, NEW g \in 1..Generations, EnterBatch(g),
           totalMigrations' \in Nat, totalSpaceTravels' \in Nat,
           \A i \in Islands : evolved[i] = g - 1,
           MigrationInterval * totalMigrations' = g - 1,
           totalSpaceTravels' = Travels(totalMigrations')
    PROVE  Inductive'
<1>1. ~ (g > Generations)  BY PaceAssumption
<1>2. CASE ShouldCancel
  <2>1. Collect(TRUE)  BY <1>1, <1>2 DEF EnterBatch
  <2> QED  BY <1>2, <2>1, Collecting DEF ShouldCancel
<1>3. CASE ~ ShouldCancel
  <2>1. /\ phase' = "evolve" /\ startGen' = g /\ awaited' = Islands
        /\ Post(ToAll(Message("evolve", None, g))) /\ UNCHANGED <<deltas, cancelSent>>
    BY <1>1, <1>3 DEF EnterBatch
  <2> QED  BY <2>1, Beginning
<1> QED  BY <1>2, <1>3

(* The next batch, after the last generation has not been reached.         *)
LEMMA GoingOn ==
    ASSUME Inductive, Gathered, NextBatch, EndGen(startGen) < Generations,
           totalMigrations' \in Nat, totalSpaceTravels' \in Nat,
           \A i \in Islands : evolved[i] = EndGen(startGen),
           MigrationInterval * totalMigrations' = EndGen(startGen),
           totalSpaceTravels' = Travels(totalMigrations')
    PROVE  Inductive'
<1>1. startGen \in 1..Generations  BY DEF Inductive, TypeOK
<1>2. PICK e \in 1..Generations : e = EndGen(startGen)  BY <1>1, Ends, PaceAssumption
<1>3. PICK g \in Int : g = e + 1  OBVIOUS
<1>4. g \in 1..Generations /\ g - 1 = e  BY <1>2, <1>3, PaceAssumption
<1>5. EnterBatch(g)  BY <1>2, <1>3 DEF NextBatch
<1> QED  BY <1>2, <1>4, <1>5, Entering

(* The loop ends with the last generation.                                 *)
LEMMA Closing ==
    ASSUME Inductive, Gathered, NextBatch, EndGen(startGen) = Generations, phase = "evolve",
           UNCHANGED counters,
           \A i \in Islands : cancelSent \/ evolved[i] = Generations
    PROVE  Inductive'
<1>1. startGen \in 1..Generations /\ totalMigrations \in Nat /\ totalSpaceTravels \in Nat
  BY DEF Inductive, TypeOK
<1>2. Collect(FALSE)
  <2>1. PICK g : g = EndGen(startGen) + 1  OBVIOUS
  <2>2. g > Generations  BY <2>1, PaceAssumption
  <2>3. EnterBatch(g)  BY <2>1 DEF NextBatch
  <2> QED  BY <2>2, <2>3 DEF EnterBatch
<1>3. UNCHANGED <<totalMigrations, totalSpaceTravels>>  BY DEF counters
<1>4. /\ MigrationInterval * totalMigrations = startGen - 1
      /\ totalSpaceTravels = Travels(totalMigrations)
  BY DEF Inductive, Coordinator, Tally
<1>5. PICK g \in 1..Generations : g = startGen  BY <1>1
<1>6. PICK n \in Nat : n = totalMigrations  BY <1>1
<1>7. n = (Generations - 1) \div MigrationInterval  BY <1>4, <1>5, <1>6, Batches
<1>8. ~ cancelSent => Complete(totalMigrations', totalSpaceTravels')
  BY <1>3, <1>4, <1>6, <1>7 DEF Complete
<1> QED  BY <1>1, <1>2, <1>3, <1>8, Collecting

LEMMA RoutesAreFinite ==
    ASSUME NEW R \in Routes, NEW land \in Landings(R)
    PROVE  IsFiniteSet(R) /\ land \in [R -> Islands]
<1>1. R \subseteq (0..NumPlanets - 1) \X (0..NumPlanets - 1)  BY DEF Routes
<1> QED  BY <1>1, IslandsAreFinite, FS_Subset DEF Landings

(* The island migration is over: travel, or begin the next batch.          *)
LEMMA Migrating ==
    ASSUME Inductive, Gathered, Migrated, phase \in {"evolve", "migrate"},
           EndGen(startGen) < Generations,
           \A i \in Islands : evolved[i] = EndGen(startGen)
    PROVE  Inductive'
<1>1. startGen \in 1..Generations /\ totalMigrations \in Nat /\ totalSpaceTravels \in Nat
  BY DEF Inductive, TypeOK
<1>2. /\ totalMigrations' = totalMigrations + 1
      /\ totalSpaceTravels' = totalSpaceTravels
  BY DEF Migrated
<1>3. PICK n \in Nat : n = totalMigrations  BY <1>1
<1>4. PICK g \in 1..Generations : g = startGen  BY <1>1
<1>5. MigrationInterval * n = g - 1 /\ totalSpaceTravels = Travels(n)
  BY <1>3, <1>4 DEF Inductive, Coordinator, Tally
<1>6. MigrationInterval * (n + 1) = EndGen(startGen)  BY <1>4, <1>5, Batches
<1>7. /\ totalMigrations' = n + 1 /\ totalSpaceTravels' = Travels(n)
      /\ totalMigrations' \in Nat /\ totalSpaceTravels' \in Nat
      /\ MigrationInterval * totalMigrations' = EndGen(startGen)
  BY <1>1, <1>2, <1>3, <1>5, <1>6
<1>8. CASE NumPlanets > 1 /\ totalMigrations' % SpaceTravelInterval = 0
  <2>0. PICK R \in Routes : \E land \in Landings(R) : Await("travel", R, land)
    BY <1>8 DEF Migrated
  <2>1. PICK land \in Landings(R) : Await("travel", R, land)  BY <2>0
  <2>2. Travels(n) + 1 = Travels(n + 1)  BY <1>7, <1>8, Travelled
  <2>3. totalSpaceTravels' + 1 = Travels(totalMigrations')  BY <1>7, <2>2
  <2> QED  BY <1>7, <2>1, <2>3, RoutesAreFinite, Awaiting
<1>9. CASE ~ (NumPlanets > 1 /\ totalMigrations' % SpaceTravelInterval = 0)
  <2>1. NextBatch  BY <1>9 DEF Migrated
  <2>2. Travels(n) = Travels(n + 1)
    <3>1. CASE NumPlanets > 1  BY <1>7, <1>9, <3>1, Travelled
    <3>2. CASE ~ (NumPlanets > 1)
      <4>1. NumPlanets = 1  BY <3>2, ShapeAssumption
      <4> QED  BY <4>1 DEF Travels
    <3> QED  BY <3>1, <3>2
  <2>3. totalSpaceTravels' = Travels(totalMigrations')  BY <1>7, <2>2
  <2> QED  BY <1>7, <2>1, <2>3, GoingOn
<1> QED  BY <1>8, <1>9

(* Every island has sent its batch_done.                                   *)
LEMMA BatchEnds ==
    ASSUME Inductive, Gathered, Silent, BatchOver, phase = "evolve",
           \A i \in Islands : cancelSent \/ evolved[i] = EndGen(startGen)
    PROVE  Inductive'
<1>1. /\ startGen \in 1..Generations /\ totalMigrations \in Nat /\ totalSpaceTravels \in Nat
      /\ cancelSent => cancelRequested
  BY DEF Inductive, TypeOK, Coordinator
<1>2. CASE ShouldCancel
  <2>1. Collect(TRUE) /\ UNCHANGED counters  BY <1>2 DEF BatchOver
  <2> QED  BY <1>1, <1>2, <2>1, Collecting DEF ShouldCancel, counters
<1>3. CASE ~ ShouldCancel /\ TotalWorkers > 1 /\ EndGen(startGen) < Generations
  <2>1. Migrate  BY <1>3 DEF BatchOver
  <2>2. \A i \in Islands : evolved[i] = EndGen(startGen)  BY <1>1, <1>3 DEF ShouldCancel
  <2>3. CASE IslandTargets = {} /\ Spin  BY <2>3, Spinning
  <2>4. ASSUME NEW targets \in IslandTargets,
               LET T == UNION {targets[i] : i \in Islands}
               IN  IF T = {} THEN Migrated
                   ELSE Await("migrate", T, [i \in T |-> i]) /\ UNCHANGED counters
        PROVE  Inductive'
    <3>1. PICK T : T = UNION {targets[i] : i \in Islands}  OBVIOUS
    <3>2. T \subseteq Islands  BY <3>1, TargetsAreIslands
    <3>3. CASE T = {}  BY <2>2, <2>4, <1>3, <3>1, <3>3, Migrating
    <3>4. CASE T # {}
      <4>1. PICK to : to = [i \in T |-> i]  OBVIOUS
      <4>2. to \in [T -> Islands] /\ \A d, e \in T : to[d] = to[e] => d = e
        BY <3>2, <4>1
      <4>3. Await("migrate", T, to) /\ UNCHANGED counters  BY <2>4, <3>1, <3>4, <4>1
      <4>4. IsFiniteSet(T)  BY <3>2, IslandsAreFinite, FS_Subset
      <4>5. /\ MigrationInterval * totalMigrations' = startGen - 1
            /\ totalSpaceTravels' = Travels(totalMigrations')
            /\ totalMigrations' \in Nat /\ totalSpaceTravels' \in Nat
        BY <1>1, <4>3 DEF Inductive, Coordinator, Tally, counters
      <4> QED  BY <1>3, <2>2, <4>2, <4>3, <4>4, <4>5, Awaiting
    <3> QED  BY <3>3, <3>4
  <2> QED  BY <2>1, <2>3, <2>4 DEF Migrate
<1>4. CASE ~ ShouldCancel /\ ~ (TotalWorkers > 1 /\ EndGen(startGen) < Generations)
  <2>1. NextBatch /\ UNCHANGED counters  BY <1>4 DEF BatchOver
  <2>2. EndGen(startGen) = Generations
    <3>1. PICK g \in 1..Generations : g = startGen  BY <1>1
    <3>2. EndGen(g) \in g..Generations  BY <3>1, Ends
    <3>3. CASE TotalWorkers > 1  BY <1>4, <3>1, <3>2, <3>3, PaceAssumption
    <3>4. CASE ~ (TotalWorkers > 1)
      <4>1. TotalWorkers = 1  BY <3>4, Sizes
      <4>2. MigrationInterval = Generations  BY <4>1, PaceAssumption
      <4> QED  BY <3>1, <4>2, PaceAssumption DEF EndGen
    <3> QED  BY <3>3, <3>4
  <2> QED  BY <2>1, <2>2, Closing
<1> QED  BY <1>2, <1>3, <1>4

-----------------------------------------------------------------------------
(* The last message that the coordinator waited for.                       *)
LEMMA AllReported ==
    ASSUME Inductive, NEW w \in Workers,
           \A k \in DOMAIN outbox[w] : outbox[w][k].type # "gen_progress",
           NEW i \in Hosted(w)
    PROVE  islandGen[i] = evolved[i]
<1>1. Reported(w, outbox[w])  BY DEF Inductive, Thread
<1>2. i \in Islands  BY Hosts
<1>3. PICK a \in 0..Generations : a = islandGen[i]  BY <1>2 DEF Inductive, TypeOK
<1>4. PICK b \in 0..Generations : b = evolved[i]  BY <1>2 DEF Inductive, TypeOK
<1>5. a <= b  BY <1>1, <1>3, <1>4 DEF Reported
<1>6. ~ (a < b)
  <2> SUFFICES ASSUME a < b PROVE FALSE  OBVIOUS
  <2>1. b \in 1..Generations /\ b <= b  BY PaceAssumption
  <2>2. PICK k \in DOMAIN outbox[w] : outbox[w][k] = Message("gen_progress", i, b)
    BY <1>1, <1>3, <1>4, <2>1 DEF Reported
  <2> QED  BY <2>2 DEF Message
<1> QED  BY <1>3, <1>4, <1>5, <1>6, PaceAssumption

LEMMA LastBatchDone ==
    ASSUME Inductive, NEW w \in Workers, Arrives(w, "batch_done"), Take(w), phase = "evolve",
           awaited = {Head(outbox[w]).island},
           UNCHANGED <<reports, wfReport, requests, workers>>
    PROVE  /\ Gathered /\ Silent
           /\ \A i \in Islands : cancelSent \/ evolved[i] = EndGen(startGen)
<1>1. PICK h : h = Head(outbox[w])  OBVIOUS
<1>2. /\ outbox' \in [Workers -> Seq(FromMsg)]
      /\ \A x \in Workers \ {w} : outbox'[x] = outbox[x]
      /\ Takes(outbox[w], h, outbox'[w]) /\ h.type = "batch_done"
      /\ Tells(outbox[w], "batch_done", h.island) /\ h.island \in Hosted(w)
  BY <1>1, Heard
<1>3. PICK i \in Hosted(w) : i = h.island  BY <1>2
<1>4. awaited = {i}  BY <1>1, <1>3
<1>5. ASSUME NEW x \in Workers
      PROVE  /\ Only(inbox[x], Orders) /\ job[x] = NoJob /\ thread[x] # "loading"
             /\ \A k \in DOMAIN outbox[x] : outbox[x][k].type # "gen_progress"
             /\ \A k \in DOMAIN outbox'[x] : FALSE
             /\ \A j \in Hosted(x) : cancelSent \/ evolved[j] = EndGen(startGen)
  <2>1. /\ Thread(x) /\ InBatch(x) /\ thread[x] # "loading"
        /\ ReportsOf(x, outbox[x]) /\ Ordered(outbox[x])
    BY DEF Inductive, Thread, InPhase, Addressed, InOrder, Before
  <2>2. PICK at : at = Reached(x)  OBVIOUS
  <2>3. Progress(x, at) /\ Spoken(x, outbox[x], at)  BY <2>1, <2>2 DEF InBatch
  <2>4. \A j \in Hosted(x) : j \in awaited => j = i /\ x = w
    BY <1>4, Hosts
  <2>5. \A j \in Hosted(x) : ~ (at <= j)
    <3> SUFFICES ASSUME NEW j \in Hosted(x), at <= j PROVE FALSE  OBVIOUS
    <3>1. j \in awaited  BY <2>3 DEF Progress
    <3>2. j = i /\ x = w  BY <2>4, <3>1
    <3>3. i < at  BY <1>2, <1>3, <2>3, <3>2 DEF Spoken
    <3>4. i \in Int /\ (at = None \/ at = TotalWorkers \/ at \in Hosted(w))
      BY <2>1, <2>2, <3>2, Hosts, Sizes DEF Reached, InBatch, Runs
    <3>5. None \in Int  BY DEF None
    <3>6. TotalWorkers \in Int /\ \A l \in Hosted(w) : l \in Int
      <4>1. TotalWorkers \in Int  BY Sizes
      <4>2. \A l \in Hosted(w) : l \in Islands  BY Hosts
      <4>3. \A l \in Islands : l \in Int  BY Sizes
      <4> QED  BY <4>1, <4>2, <4>3
    <3>7. at \in Int  BY <3>4, <3>5, <3>6
    <3> QED  BY <3>2, <3>3, <3>4, <3>7
  <2>6. x \in Hosted(x)  BY Hosts
  <2>7. ~ Has(inbox[x], "evolve") /\ job[x] = NoJob
    <3>1. at # None
      <4>1. None <= x  BY Sizes
      <4> QED  BY <2>5, <2>6, <4>1
    <3>2. ~ Has(inbox[x], "evolve")  BY <2>2, <3>1 DEF Reached
    <3>3. ASSUME job[x] # NoJob PROVE FALSE
      <4>1. at = job[x].island /\ at \in Hosted(x)
        BY <2>1, <2>2, <3>2, <3>3 DEF Reached, InBatch, Runs
      <4>2. PICK a \in Islands : a = at  BY <4>1, Hosts
      <4>3. a \in Int  BY Sizes
      <4>4. at <= at  BY <4>2, <4>3
      <4> QED  BY <2>5, <4>1, <4>4
    <3> QED  BY <3>2, <3>3
  <2>8. Only(inbox[x], Orders) /\ at = TotalWorkers
    BY <2>1, <2>2, <2>7 DEF InBatch, Reached
  <2>9. \A j \in Hosted(x) : cancelSent \/ evolved[j] = EndGen(startGen)
    <3>1. \A j \in Hosted(x) : j < at  BY <2>8, Hosts, Sizes
    <3> QED  BY <2>1, <2>3, <3>1 DEF Progress, Thread, Stopped
  <2>10. \A k \in DOMAIN outbox[x] :
           outbox[x][k].type \in {"gen_progress", "batch_done", "migrate_done"}
    BY <2>3 DEF Spoken, Only
  <2>11. \A k \in DOMAIN outbox[x] : \/ x = w /\ outbox[x][k].island = i
                                     \/ outbox[x][k].type = "migrate_done"
    BY <2>1, <2>3, <2>4, <2>10 DEF Spoken, ReportsOf, Tells
  <2>12. \A k \in DOMAIN outbox'[x] : FALSE
    <3>1. CASE x = w
      <4>1. \A k \in DOMAIN outbox'[w] :
               /\ Follows(h, outbox'[w][k])
               /\ \E l \in DOMAIN outbox[w] : outbox'[w][k] = outbox[w][l]
        BY <1>2, <2>1, <3>1 DEF Takes
      <4>2. \A k \in DOMAIN outbox'[w] : outbox'[w][k].type # "migrate_done"
        BY <1>2, <4>1 DEF Follows
      <4>3. \A k \in DOMAIN outbox'[w] : outbox'[w][k].island # i
        BY <1>2, <1>3, <2>10, <3>1, <4>1 DEF Follows
      <4> QED  BY <2>11, <3>1, <4>1, <4>2, <4>3
    <3>2. CASE x # w
      <4>1. outbox'[x] = outbox[x]  BY <1>2, <3>2
      <4>2. x \notin awaited  BY <2>4, <2>6, <3>2
      <4>3. ~ Has(outbox[x], "migrate_done")  BY <2>3, <2>6, <4>2 DEF Spoken
      <4> QED  BY <2>11, <3>2, <4>1, <4>3 DEF Has
    <3> QED  BY <3>1, <3>2
  <2>13. \A k \in DOMAIN outbox[x] : outbox[x][k].type # "gen_progress"
    <3>1. \A k \in DOMAIN outbox[x] : outbox[x][k] = h \/ \E l \in DOMAIN outbox'[x] : TRUE
      BY <1>2 DEF Takes
    <3> QED  BY <1>2, <2>12, <3>1
  <2> QED  BY <2>1, <2>7, <2>8, <2>9, <2>12, <2>13
<1>6. \A j \in Islands : \E x \in Workers : j \in Hosted(x)  BY Hosts
<1>7. \A j \in Islands : islandGen[j] = evolved[j]
  <2> TAKE j \in Islands
  <2>1. PICK x \in Workers : j \in Hosted(x)  BY <1>6
  <2> QED  BY <1>5, <2>1, AllReported
<1>8. Silent  BY <1>5 DEF Silent, Only
<1>9. Gathered  BY <1>2, <1>5, <1>7 DEF Gathered, Only, ReportsOf, Plain
<1> QED  BY <1>5, <1>6, <1>8, <1>9

LEMMA BetweenBatches ==
    ASSUME Inductive, NEW w \in Workers, Arrives(w, "migrate_done"), Take(w),
           phase \in {"migrate", "travel"},
           UNCHANGED <<reports, wfReport, requests, workers>>
    PROVE  /\ Gathered /\ EndGen(startGen) < Generations
           /\ \A i \in Islands : evolved[i] = EndGen(startGen)
<1>1. PICK h : h = Head(outbox[w])  OBVIOUS
<1>2. /\ outbox' \in [Workers -> Seq(FromMsg)]
      /\ \A x \in Workers \ {w} : outbox'[x] = outbox[x]
      /\ Takes(outbox[w], h, outbox'[w])
  BY <1>1, Heard
<1>3. ASSUME NEW x \in Workers
      PROVE  /\ Only(inbox[x], {"migrate"} \cup Orders) /\ Only(outbox'[x], {"migrate_done"})
             /\ ReportsOf(x, outbox'[x]) /\ Plain(outbox'[x])
             /\ job[x] = NoJob /\ thread[x] # "loading"
             /\ \A j \in Hosted(x) : islandGen[j] = evolved[j] /\ evolved[j] = EndGen(startGen)
  <2>1. /\ Thread(x) /\ Between(x) /\ thread[x] # "loading"
        /\ ReportsOf(x, outbox[x]) /\ Plain(outbox[x])
    BY DEF Inductive, Thread, InPhase, Addressed, Before
  <2>2. /\ Only(outbox'[x], {"migrate_done"})
        /\ ReportsOf(x, outbox'[x]) /\ Plain(outbox'[x])
    <3>1. CASE x = w  BY <1>2, <2>1, <3>1 DEF Between, Takes
    <3>2. CASE x # w  BY <1>2, <2>1, <3>2 DEF Between
    <3> QED  BY <3>1, <3>2
  <2>3. \A k \in DOMAIN outbox[x] : outbox[x][k].type # "gen_progress"
    BY <2>1 DEF Between, Only
  <2>4. \A j \in Hosted(x) : islandGen[j] = evolved[j]  BY <2>3, AllReported
  <2> QED  BY <2>1, <2>2, <2>4 DEF Between
<1>4. \A j \in Islands : \E x \in Workers : j \in Hosted(x)  BY Hosts
<1>5. \A j \in Islands : islandGen[j] = evolved[j] /\ evolved[j] = EndGen(startGen)
  BY <1>3, <1>4
<1>6. EndGen(startGen) < Generations  BY DEF Inductive, Coordinator
<1>7. Gathered  BY <1>2, <1>3, <1>5 DEF Gathered
<1> QED  BY <1>5, <1>6, <1>7

LEMMA LastReady ==
    ASSUME Inductive, NEW w \in Workers, Arrives(w, "ready"), Take(w), phase = "spawn",
           \A x \in Workers \ {w} : thread[x] = "up" /\ outbox[x] = << >>,
           UNCHANGED <<reports, wfReport, requests, workers>>
    PROVE  Gathered /\ \A i \in Islands : evolved[i] = 0
<1>1. PICK h : h = Head(outbox[w])  OBVIOUS
<1>2. /\ outbox' \in [Workers -> Seq(FromMsg)]
      /\ \A x \in Workers \ {w} : outbox'[x] = outbox[x]
      /\ h.type = "ready" /\ Has(outbox[w], "ready")
  BY <1>1, Heard
<1>3. outbox'[w] = Tail(outbox[w])
  <2>1. WorkerTypes  BY TypeSplit DEF Inductive
  <2> QED  BY <2>1 DEF Take, WorkerTypes
<1>4. ASSUME NEW x \in Workers
      PROVE  /\ inbox[x] = << >> /\ outbox'[x] = << >>
             /\ job[x] = NoJob /\ thread[x] # "loading"
             /\ \A j \in Hosted(x) : islandGen[j] = evolved[j] /\ evolved[j] = 0
  <2>1. Loading(x)  BY DEF Inductive, Thread, InPhase, Before
  <2>2. outbox'[x] = << >> /\ thread[x] # "loading"
    <3>1. CASE x = w
      <4>1. outbox[w] # << >>  BY DEF Arrives
      <4>2. outbox[w] = <<Signal("ready")>>  BY <2>1, <3>1, <4>1 DEF Loading
      <4> QED  BY <1>3, <2>1, <3>1, <4>1, <4>2 DEF Loading
    <3>2. CASE x # w  BY <1>2, <3>2
    <3> QED  BY <3>1, <3>2
  <2>3. \A k \in DOMAIN outbox[x] : outbox[x][k].type # "gen_progress"
    <3>1. outbox[x] = << >> \/ outbox[x] = <<Signal("ready")>>  BY <2>1 DEF Loading
    <3> QED  BY <3>1 DEF Signal, Message
  <2>4. \A j \in Hosted(x) : islandGen[j] = evolved[j]  BY <2>3, AllReported
  <2> QED  BY <2>1, <2>2, <2>4 DEF Loading
<1>5. \A j \in Islands : \E x \in Workers : j \in Hosted(x)  BY Hosts
<1>6. \A j \in Islands : islandGen[j] = evolved[j] /\ evolved[j] = 0
  BY <1>4, <1>5
<1>7. \A x \in Workers : /\ Only(inbox[x], {"migrate"} \cup Orders)
                         /\ Only(outbox'[x], {"migrate_done"})
                         /\ ReportsOf(x, outbox'[x]) /\ Plain(outbox'[x])
  <2> TAKE x \in Workers
  <2>1. inbox[x] = << >> /\ outbox'[x] = << >>  BY <1>4
  <2>2. \A k \in DOMAIN inbox[x] : FALSE  BY <2>1
  <2>3. \A k \in DOMAIN outbox'[x] : FALSE  BY <2>1
  <2> QED  BY <2>2, <2>3 DEF Only, ReportsOf, Plain
<1>8. Gathered  BY <1>2, <1>4, <1>6, <1>7 DEF Gathered
<1> QED  BY <1>6, <1>8

-----------------------------------------------------------------------------
(* The three handlers that may find their barrier complete.                *)
LEMMA StepOnReady ==
    ASSUME Inductive, NEW w \in Workers, OnReady(w)
    PROVE  Inductive'
<1>1. Arrives(w, "ready") /\ Take(w)  BY DEF OnReady
<1>2. UNCHANGED <<reports, counters, wfReport, requests, workers>>  BY DEF OnReady
<1>3. CASE phase = "spawn" /\ \A x \in Workers \ {w} : thread[x] = "up" /\ outbox[x] = << >>
  <2>1. EnterBatch(1)  BY <1>3 DEF OnReady
  <2>2. Gathered /\ \A i \in Islands : evolved[i] = 0  BY <1>1, <1>2, <1>3, LastReady
  <2>3. /\ MigrationInterval * totalMigrations = startGen - 1 /\ startGen = 1
        /\ totalSpaceTravels = Travels(totalMigrations)
        /\ totalMigrations \in Nat /\ totalSpaceTravels \in Nat
    BY <1>3 DEF Inductive, TypeOK, Coordinator, Tally, Before
  <2>4. UNCHANGED <<totalMigrations, totalSpaceTravels>>  BY <1>2 DEF counters
  <2>5. 1 \in 1..Generations /\ 1 - 1 = 0  BY PaceAssumption
  <2>6. PICK g \in 1..Generations : g = 1  BY <2>5
  <2>7. EnterBatch(g)  BY <2>1, <2>6
  <2>8. /\ \A i \in Islands : evolved[i] = g - 1
        /\ MigrationInterval * totalMigrations' = g - 1
    BY <2>2, <2>3, <2>4, <2>6
  <2> QED  BY <2>2, <2>3, <2>4, <2>7, <2>8, Entering
<1>4. CASE ~ (phase = "spawn" /\ \A x \in Workers \ {w} : thread[x] = "up" /\ outbox[x] = << >>)
  <2>1. UNCHANGED <<phase, startGen, awaited, deltas, cancelSent, inbox>>
    BY <1>4 DEF OnReady
  <2>2. UNCHANGED <<coordinator, requests, inbox, workers>>
    BY <1>2, <2>1 DEF coordinator
  <2> QED  BY <1>1, <2>2, StepReady
<1> QED  BY <1>3, <1>4

LEMMA StepOnBatchDone ==
    ASSUME Inductive, NEW w \in Workers, OnBatchDone(w)
    PROVE  Inductive'
<1>1. /\ Arrives(w, "batch_done") /\ Take(w) /\ phase = "evolve"
      /\ UNCHANGED <<reports, wfReport, requests, workers>>
  BY DEF OnBatchDone
<1>2. CASE awaited = {Head(outbox[w]).island}
  <2>1. BatchOver  BY <1>2 DEF OnBatchDone, Resolve
  <2> QED  BY <1>1, <1>2, <2>1, LastBatchDone, BatchEnds
<1>3. CASE awaited # {Head(outbox[w]).island}
  <2>1. /\ awaited' = awaited \ {Head(outbox[w]).island}
        /\ UNCHANGED <<phase, startGen, deltas, counters, cancelSent, inbox>>
    BY <1>3 DEF OnBatchDone, Resolve
  <2> QED  BY <1>1, <2>1, StepBatchDone
<1> QED  BY <1>2, <1>3

LEMMA StepOnMigrateDone ==
    ASSUME Inductive, NEW w \in Workers, OnMigrateDone(w)
    PROVE  Inductive'
<1>1. /\ Arrives(w, "migrate_done") /\ Take(w)
      /\ UNCHANGED <<reports, wfReport, requests, workers>>
  BY DEF OnMigrateDone
<1>2. PICK i : i = Head(outbox[w]).island  OBVIOUS
<1>3. phase # "spinning"  BY <1>1 DEF Arrives
<1>4. CASE awaited = {i} /\ phase = "migrate"
  <2>1. Migrated  BY <1>2, <1>4 DEF OnMigrateDone, Resolve
  <2>2. /\ Gathered /\ EndGen(startGen) < Generations
        /\ \A j \in Islands : evolved[j] = EndGen(startGen)
    BY <1>1, <1>4, BetweenBatches
  <2> QED  BY <1>4, <2>1, <2>2, Migrating
<1>5. CASE awaited = {i} /\ phase = "travel"
  <2>1. /\ NextBatch /\ totalSpaceTravels' = totalSpaceTravels + 1
        /\ totalMigrations' = totalMigrations
    BY <1>2, <1>5 DEF OnMigrateDone, Resolve
  <2>2. /\ Gathered /\ EndGen(startGen) < Generations
        /\ \A j \in Islands : evolved[j] = EndGen(startGen)
    BY <1>1, <1>5, BetweenBatches
  <2>3. /\ totalMigrations \in Nat /\ totalSpaceTravels \in Nat
        /\ MigrationInterval * totalMigrations = EndGen(startGen)
        /\ totalSpaceTravels + 1 = Travels(totalMigrations)
    BY <1>5 DEF Inductive, TypeOK, Coordinator, Tally
  <2>4. /\ totalMigrations' \in Nat /\ totalSpaceTravels' \in Nat
        /\ MigrationInterval * totalMigrations' = EndGen(startGen)
        /\ totalSpaceTravels' = Travels(totalMigrations')
    BY <2>1, <2>3
  <2> QED  BY <2>1, <2>2, <2>4, GoingOn
<1>6. CASE awaited # {i} \/ phase \notin {"migrate", "travel"}
  <2>1. CASE phase \in {"migrate", "travel"} /\ i \in awaited
    <3>1. Resolve(i, Migrated) \/ Resolve(i, /\ NextBatch
                                             /\ totalSpaceTravels' = totalSpaceTravels + 1
                                             /\ UNCHANGED totalMigrations)
      BY <1>2, <2>1 DEF OnMigrateDone
    <3>2. /\ awaited' = awaited \ {i}
          /\ UNCHANGED <<phase, startGen, deltas, counters, cancelSent, inbox>>
      BY <1>6, <2>1, <3>1 DEF Resolve
    <3> QED  BY <1>1, <1>2, <1>3, <2>1, <3>2, StepMigrateDone
  <2>2. CASE ~ (phase \in {"migrate", "travel"} /\ i \in awaited)
    <3>1. UNCHANGED <<phase, startGen, awaited, deltas, counters, cancelSent, inbox>>
      BY <1>2, <2>2 DEF OnMigrateDone
    <3> QED  BY <1>1, <1>2, <1>3, <2>2, <3>1, StepMigrateDone
  <2> QED  BY <2>1, <2>2
<1> QED  BY <1>4, <1>5, <1>6

-----------------------------------------------------------------------------
(* Every step of a run keeps the invariant.                                *)
LEMMA Initially == Init => Inductive
<1> SUFFICES ASSUME Init PROVE Inductive  OBVIOUS
<1>1. TypeOK
  <2>1. /\ 1 \in 1..Generations /\ 0 \in 0..Generations /\ 0 \in Nat
        /\ None \in Islands \cup {None} /\ MaxHyper \in 0..MaxHyper
        /\ 0 \in 0..Generations + 1 /\ 0 \in 0..HyperDuration
    BY PaceAssumption, HyperAssumption
  <2>2. NoJob \in JobType  BY <2>1 DEF NoJob, JobType
  <2>3. Calm \in HyperType  BY <2>1 DEF Calm, HyperType
  <2>4. /\ job \in [Workers -> JobType] /\ hyper \in [Islands -> HyperType]
        /\ lastBoosted \in [Islands -> {NeverEnded} \cup 0..Generations]
    BY <2>2, <2>3 DEF Init
  <2>5. /\ inbox \in [Workers -> Seq(ToMsg)] /\ outbox \in [Workers -> Seq(FromMsg)]
        /\ generationLog \in Seq(1..Generations)
    BY DEF Init
  <2>6. /\ thread \in [Workers -> {"loading", "up", "gone"}]
        /\ cancelled \in [Workers -> BOOLEAN]
        /\ evolved \in [Islands -> 0..Generations] /\ islandGen \in [Islands -> 0..Generations]
    BY <2>1 DEF Init
  <2> QED  BY <2>1, <2>4, <2>5, <2>6 DEF Init, TypeOK, JobType, HyperType, ToMsg, FromMsg
<1>2. LogIsGapless
  <2>1. \A i \in Islands : islandGen[i] = 0  BY DEF Init
  <2> QED  BY <2>1 DEF Init, LogIsGapless
<1>3. Coordinator
  <2>1. Travels(0) = 0
    <3>1. PICK s \in Nat \ {0} : s = SpaceTravelInterval  BY PaceAssumption
    <3>2. 0 = s*0 + 0 /\ 0 \in 0..(s - 1)  OBVIOUS
    <3>3. 0 \div s = 0  BY <3>2, Quotient
    <3> QED  BY <3>1, <3>3 DEF Travels
  <2>2. MigrationInterval * 0 = 1 - 1  BY PaceAssumption
  <2> QED  BY <2>1, <2>2 DEF Init, Coordinator, Tally, Before, Ending
<1>4. ASSUME NEW w \in Workers PROVE Thread(w)
  <2>1. /\ inbox[w] = << >> /\ outbox[w] = << >> /\ job[w] = NoJob /\ ~ cancelled[w]
        /\ \A i \in Hosted(w) : evolved[i] = 0 /\ islandGen[i] = 0
    BY Hosts DEF Init
  <2>2. /\ \A k \in DOMAIN inbox[w] : FALSE
        /\ \A k \in DOMAIN outbox[w] : FALSE
    BY <2>1
  <2>3. Addressed(w) /\ InOrder(w)
    BY <2>2 DEF Addressed, MigrantsOf, ReportsOf, Plain, InOrder, Ordered
  <2>4. Loading(w)  BY <2>1 DEF Loading
  <2>5. InPhase(w)  BY <2>4 DEF Init, InPhase, Before, Ending
  <2>6. Reported(w, outbox[w])  BY <2>1, <2>2, PaceAssumption DEF Reported
  <2>7. Stopped(w)  BY <2>1, <2>2 DEF Stopped, Has
  <2> QED  BY <2>3, <2>5, <2>6, <2>7 DEF Thread
<1> QED  BY <1>1, <1>2, <1>3, <1>4 DEF Inductive

LEMMA EveryStep ==
    ASSUME Inductive, [Next]_vars
    PROVE  Inductive'
<1>1. CASE UNCHANGED vars
  <2>1. UNCHANGED <<startGen, awaited, reports, counters, cancelSent, inbox, outbox,
                    cancelled, job, evolved, phase, cancelRequested, thread>>
    BY <1>1 DEF vars, coordinator, requests, workers
  <2>2. TypeOK'
    BY <1>1 DEF Inductive, TypeOK, vars, coordinator, requests, workers, reports, counters
  <2> QED  BY <2>1, <2>2, ChannelsKept
<1>2. ASSUME NEW w \in Workers, Load(w) \/ Turn(w) \/ ToWorker(w) \/ FromWorker(w)
      PROVE  Inductive'
  <2>1. CASE Load(w)  BY <2>1, StepLoad
  <2>2. CASE Turn(w)  BY <2>2, StepTurn
  <2>3. CASE ToWorker(w)
    <3>1. CASE OnEvolve(w)  BY <3>1, StepOnEvolve
    <3>2. CASE OnMigrate(w)  BY <3>2, StepOnMigrate
    <3>3. CASE OnGetResults(w)  BY <3>3, StepOnGetResults
    <3>4. CASE OnHypermutate(w)  BY <3>4, StepOnHypermutate
    <3>5. CASE OnCancel(w)  BY <3>5, StepOnCancel
    <3> QED  BY <2>3, <3>1, <3>2, <3>3, <3>4, <3>5 DEF ToWorker
  <2>4. CASE FromWorker(w)
    <3>1. CASE OnReady(w)  BY <3>1, StepOnReady
    <3>2. CASE OnProgress(w)  BY <3>2, StepOnProgress
    <3>3. CASE OnBatchDone(w)  BY <3>3, StepOnBatchDone
    <3>4. CASE OnMigrateDone(w)  BY <3>4, StepOnMigrateDone
    <3>5. CASE OnResults(w)  BY <3>5, StepOnResults
    <3> QED  BY <2>4, <3>1, <3>2, <3>3, <3>4, <3>5 DEF FromWorker
  <2> QED  BY <1>2, <2>1, <2>2, <2>3, <2>4
<1>3. CASE PollCancel \/ PollHyper  BY <1>3, StepPoll
<1>4. CASE SaveCache \/ TerminateWorkers \/ WalkForward \/ RequestCancel \/ RequestHyper
  BY <1>4, StepAside
<1> QED  BY <1>1, <1>2, <1>3, <1>4 DEF Next

-----------------------------------------------------------------------------
(* What it comes to.                                                       *)
LEMMA CountOne ==
    ASSUME NEW S, NEW s \in Seq(S), S = ToMsg \/ S = FromMsg,
           NEW type \in {"migrate", "migrate_done"}, Once(s, type), Plain(s), NEW i
    PROVE  Count(s, Reply(type, i)) = IF Tells(s, type, i) THEN 1 ELSE 0
<1>1. PICK K : K = {k \in DOMAIN s : s[k] = Reply(type, i)}  OBVIOUS
<1>2. \A k \in DOMAIN s : s[k] = Reply(type, i) <=> s[k].type = type /\ s[k].island = i
  <2> TAKE k \in DOMAIN s
  <2>1. PICK m : m = s[k]  OBVIOUS
  <2>2. m \in S  BY <2>1, ElementOfSeq, LenProperties
  <2>3. m = [type |-> m.type, island |-> m.island, gen |-> m.gen]
    <3>1. CASE S = ToMsg  BY <2>2, <3>1 DEF ToMsg
    <3>2. CASE S = FromMsg  BY <2>2, <3>2 DEF FromMsg
    <3> QED  BY <3>1, <3>2
  <2>4. m.type = type => m.gen = 0  BY <2>1 DEF Plain
  <2>5. m = Reply(type, i) => m.type = type /\ m.island = i  BY DEF Reply, Message
  <2>6. m.type = type /\ m.island = i => m = Reply(type, i)
    BY <2>3, <2>4 DEF Reply, Message
  <2> QED  BY <2>1, <2>5, <2>6
<1>3. CASE Tells(s, type, i)
  <2>1. PICK k \in DOMAIN s : s[k].type = type /\ s[k].island = i  BY <1>3 DEF Tells
  <2>2. \A l \in K : l = k  BY <1>1, <1>2, <2>1 DEF Once
  <2>3. K = {k}  BY <1>1, <1>2, <2>1, <2>2
  <2>4. Cardinality(K) = 1  BY <2>3, FS_Singleton
  <2> QED  BY <1>1, <1>3, <2>4 DEF Count
<1>4. CASE ~ Tells(s, type, i)
  <2>1. K = {}  BY <1>1, <1>2, <1>4 DEF Tells
  <2>2. Cardinality(K) = 0  BY <2>1, FS_EmptySet
  <2> QED  BY <1>1, <1>4, <2>2 DEF Count
<1> QED  BY <1>3, <1>4

LEMMA FreeWorkers == Inductive => WorkersAreFree
<1> SUFFICES ASSUME Inductive, NEW w \in Workers, inbox[w] # << >>,
                    Head(inbox[w]).type \in {"evolve", "migrate", "get_results"}
             PROVE  job[w] = NoJob
  BY DEF WorkersAreFree
<1>1. PICK q \in Seq(ToMsg) : q = inbox[w]  BY TypeSplit DEF Inductive, WorkerTypes
<1>2. 1 \in DOMAIN q /\ q[1] = Head(q)  BY <1>1
<1>3. \E k \in DOMAIN inbox[w] : inbox[w][k].type \in {"evolve", "migrate", "get_results"}
  BY <1>1, <1>2
<1>4. InPhase(w)  BY DEF Inductive, Thread
<1>5. CASE phase \in Before  BY <1>4, <1>5 DEF InPhase, Loading
<1>6. CASE phase = "evolve"
  <2>1. InBatch(w)  BY <1>4, <1>6 DEF InPhase
  <2>2. CASE Has(inbox[w], "evolve")  BY <2>1, <2>2 DEF InBatch, Begins
  <2>3. CASE ~ Has(inbox[w], "evolve")
    <3>1. Only(inbox[w], Orders)  BY <2>1, <2>3 DEF InBatch
    <3> QED  BY <1>3, <3>1 DEF Only, Orders
  <2> QED  BY <2>2, <2>3
<1>7. CASE phase \in {"migrate", "travel"}  BY <1>4, <1>7 DEF InPhase, Between
<1>8. CASE phase \in Ending \cup {"spinning"}  BY <1>4, <1>8 DEF InPhase, After
<1> QED  BY <1>5, <1>6, <1>7, <1>8 DEF Inductive, TypeOK, Before, Ending

LEMMA MatchingReplies == Inductive => RepliesMatch
<1> SUFFICES ASSUME Inductive, phase = "migrate", NEW i \in Islands
             PROVE  Count(inbox[WorkerOf(i)], Reply("migrate", i))
                      + Count(outbox[WorkerOf(i)], Reply("migrate_done", i))
                    = IF i \in awaited THEN 1 ELSE 0
  BY DEF RepliesMatch
<1>1. PICK w \in Workers : w = WorkerOf(i) /\ i \in Hosted(w)  BY Hosts
<1>2. SentOnce(w) /\ Addressed(w)  BY DEF Inductive, Thread, InPhase
<1>3. PICK q \in Seq(ToMsg) : q = inbox[w]  BY TypeSplit DEF Inductive, WorkerTypes
<1>4. PICK r \in Seq(FromMsg) : r = outbox[w]  BY TypeSplit DEF Inductive, WorkerTypes
<1>5. Once(q, "migrate") /\ Plain(q) /\ Once(r, "migrate_done") /\ Plain(r)
  BY <1>2, <1>3, <1>4 DEF SentOnce, Addressed
<1>6. Count(q, Reply("migrate", i)) = IF Tells(q, "migrate", i) THEN 1 ELSE 0
  BY <1>5, CountOne
<1>7. Count(r, Reply("migrate_done", i)) = IF Tells(r, "migrate_done", i) THEN 1 ELSE 0
  BY <1>5, CountOne
<1>8. /\ ~ (Tells(q, "migrate", i) /\ Tells(r, "migrate_done", i))
      /\ i \in awaited <=> Tells(q, "migrate", i) \/ Tells(r, "migrate_done", i)
  BY <1>1, <1>2, <1>3, <1>4 DEF SentOnce
<1> QED  BY <1>1, <1>3, <1>4, <1>6, <1>7, <1>8

LEMMA CurrentReports == Inductive => ReportsAreCurrent
<1> SUFFICES ASSUME Inductive, phase \notin {"spawn", "evolve", "failed"}
             PROVE  islandGen = evolved
  BY DEF ReportsAreCurrent
<1>1. ASSUME NEW i \in Islands PROVE islandGen[i] = evolved[i]
  <2>1. PICK w \in Workers : i \in Hosted(w)  BY Hosts
  <2>2. Between(w) \/ After(w)
    BY DEF Inductive, Thread, InPhase, TypeOK, Ending
  <2>3. \A k \in DOMAIN outbox[w] : outbox[w][k].type # "gen_progress"
    BY <2>2 DEF Between, After, Only
  <2> QED  BY <2>1, <2>3, AllReported
<1>2. /\ islandGen \in [Islands -> 0..Generations]
      /\ evolved \in [Islands -> 0..Generations]
  BY DEF Inductive, TypeOK
<1> QED  BY <1>1, <1>2

LEMMA CompleteRuns == Inductive => FullRunIsComplete
<1> SUFFICES ASSUME Inductive, phase \in {"save", "terminate", "walkForward", "returned"},
                    ~ cancelSent
             PROVE  LET migrations == IF TotalWorkers = 1 THEN 0
                                      ELSE (Generations - 1) \div MigrationInterval
                    IN  /\ \A i \in Islands : evolved[i] = Generations
                        /\ totalMigrations = migrations
                        /\ totalSpaceTravels = IF NumPlanets = 1 THEN 0
                                               ELSE migrations \div SpaceTravelInterval
  BY DEF FullRunIsComplete
<1>1. phase \in Ending  BY DEF Ending
<1>2. /\ totalMigrations = (Generations - 1) \div MigrationInterval
      /\ totalSpaceTravels = Travels(totalMigrations)
  BY <1>1 DEF Inductive, Coordinator, Tally
<1>3. \A i \in Islands : evolved[i] = Generations
  <2> TAKE i \in Islands
  <2>1. PICK w \in Workers : i \in Hosted(w)  BY Hosts
  <2> QED  BY <1>1, <2>1 DEF Inductive, Thread, InPhase
<1>4. TotalWorkers = 1 => (Generations - 1) \div MigrationInterval = 0
  <2> SUFFICES ASSUME TotalWorkers = 1 PROVE (Generations - 1) \div MigrationInterval = 0
    OBVIOUS
  <2>1. PICK n \in Nat \ {0} : n = Generations /\ n = MigrationInterval  BY PaceAssumption
  <2>2. PICK a \in Nat : a = n - 1  OBVIOUS
  <2>3. a = n*0 + a /\ a \in 0..(n - 1)  BY <2>2
  <2>4. a \div n = 0  BY <2>3, Quotient
  <2> QED  BY <2>1, <2>2, <2>4
<1> QED  BY <1>2, <1>3, <1>4 DEF Travels

\* Throughout a run, whatever the topology, the number of islands, threads and
\* generations and the order of messages, timers and requests: a thread that is
\* told to evolve, to take in migrants or to hand over its results is between two
\* batches, the coordinator waits for exactly the answers that are under way,
\* generationLog has no gap and no repetition, a batch is over only when every
\* report has been heard, and a run that nobody cancelled ends with all
\* generations, migrations and travels done (runOptimization and the handlers of
\* island-worker.js).
THEOREM RunIsConsistentHolds == Spec => []RunIsConsistent
<1>1. Inductive => RunIsConsistent
  BY FreeWorkers, MatchingReplies, CurrentReports, CompleteRuns DEF Inductive, RunIsConsistent
<1>2. Inductive /\ [Next]_vars => Inductive'  BY EveryStep
<1> QED  BY Initially, <1>1, <1>2, PTL DEF Spec
=============================================================================
