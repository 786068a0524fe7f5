---------------------------- MODULE StoresProofs ----------------------------
(***************************************************************************)
(* Proofs about the stores: the inductive invariant of StoresInv, one group*)
(* of conjuncts after the other.                                           *)
(***************************************************************************)
EXTENDS StoresInv, SequenceTheorems, TLAPS

\* What a request looks like, by its operation.
LEMMA RequestShapes ==
    ASSUME NEW r \in Requests
    PROVE  /\ r.op = "none" => r = NoReq
           /\ r.op = "run" => r \in RunRequest
           /\ r.op = "deploy" => r \in DeployRequest
           /\ r.op = "alert" /\ r.at = "resolve" => r \in NewAlert
           /\ r.op = "alert" /\ r.at # "resolve" => r \in KnownAlert
           /\ r.op = "save" => r \in SaveRequest
           /\ r.op \in {"none", "run", "deploy", "alert", "save"}
  BY DEF Requests, NoReq, RunRequest, DeployRequest, NewAlert, KnownAlert, SaveRequest

\* A request that goes on stays the request it is.
LEMMA RequestGoesOn ==
    ASSUME NEW r \in Requests, NEW at,
           \/ r.op = "run" /\ at \in {"probe", "insert", "row"}
           \/ r.op = "alert" /\ r.at # "resolve" /\ at \in {"probe", "insert", "reread"}
           \/ r.op = "save" /\ at \in {"stat", "open", "fill", "rename"}
    PROVE  /\ [r EXCEPT !.at = at] \in Requests
           /\ [r EXCEPT !.at = at].op = r.op
           /\ [r EXCEPT !.at = at].at = at
           /\ r.op = "run" => [r EXCEPT !.at = at].hash = r.hash
           /\ r.op = "alert" => /\ [r EXCEPT !.at = at].alert = r.alert
                                /\ [r EXCEPT !.at = at].key = r.key
           /\ r.op = "save" => /\ [r EXCEPT !.at = at].file = r.file
                               /\ [r EXCEPT !.at = at].content = r.content
<1>1. CASE r.op = "run"
  BY <1>1, RequestShapes DEF Requests, RunRequest
<1>2. CASE r.op = "alert"
  BY <1>2, RequestShapes DEF Requests, KnownAlert
<1>3. CASE r.op = "save"
  BY <1>3, RequestShapes DEF Requests, SaveRequest
<1> QED  BY <1>1, <1>2, <1>3

\* The requests after one of them moved.
LEMMA ReqSet ==
    ASSUME TypeOK, NEW c \in Clients, NEW r, req' = [req EXCEPT ![c] = r]
    PROVE  /\ req'[c] = r
           /\ \A d \in Clients \ {c} : req'[d] = req[d]
           /\ r \in Requests => req' \in [Clients -> Requests]
  BY DEF TypeOK

LEMMA GoesOn ==
    ASSUME TypeOK, NEW c \in Clients, NEW at, Goes(c, at),
           \/ req[c].op = "run" /\ at \in {"probe", "insert", "row"}
           \/ /\ req[c].op = "alert" /\ req[c].at # "resolve"
              /\ at \in {"probe", "insert", "reread"}
           \/ req[c].op = "save" /\ at \in {"stat", "open", "fill", "rename"}
    PROVE  /\ req' \in [Clients -> Requests]
           /\ \A d \in Clients \ {c} : req'[d] = req[d]
           /\ req'[c].op = req[c].op /\ req'[c].at = at
           /\ req[c].op = "run" => req'[c].hash = req[c].hash
           /\ req[c].op = "alert" => /\ req'[c].alert = req[c].alert
                                     /\ req'[c].key = req[c].key
           /\ req[c].op = "save" => /\ req'[c].file = req[c].file
                                    /\ req'[c].content = req[c].content
<1>1. PICK r : r = req[c]  OBVIOUS
<1>2. r \in Requests  BY <1>1 DEF TypeOK
<1>3. req' = [req EXCEPT ![c] = [r EXCEPT !.at = at]]
  BY <1>1 DEF Goes
<1>4. /\ req'[c] = [r EXCEPT !.at = at]
      /\ \A d \in Clients \ {c} : req'[d] = req[d]
      /\ [r EXCEPT !.at = at] \in Requests => req' \in [Clients -> Requests]
  BY <1>3, ReqSet
<1> QED  BY <1>1, <1>2, <1>4, RequestGoesOn

LEMMA NobodyAsks ==
    /\ NoReq \in Requests /\ NoReq.op = "none" /\ NoReq.at = "idle"
  BY DEF Requests, NoReq

LEMMA EndsAreNoReq ==
    ASSUME TypeOK, NEW c \in Clients, Ends(c)
    PROVE  /\ req' \in [Clients -> Requests] /\ req'[c] = NoReq
           /\ \A d \in Clients \ {c} : req'[d] = req[d]
  BY ReqSet, NobodyAsks DEF Ends

\* A request arrives.
LEMMA NewRequest ==
    ASSUME NEW c \in Clients,
           \/ \E h \in Hashes : PostRun(c, h)
           \/ \E r \in 1 .. MaxRows : Deploy(c, r)
           \/ \E a \in Alerts : Send(c, a)
           \/ \E f \in Files, h \in Hashes, o \in BOOLEAN : PostSpec(c, f, h, o)
    PROVE  /\ \E r \in Requests :
               /\ req' = [req EXCEPT ![c] = r]
               /\ r.op = "deploy" => r.run \in DOMAIN rows
               /\ r.op = "run" => r.at = "probe"
               /\ r.op = "alert" => r.at = "resolve"
               /\ r.op = "save" => r.at = "stat" /\ (OneEditor => ~Saving(r.file))
           /\ UNCHANGED <<specs, rows, deployments, events, answers, disk, temp>>
<1>1. UNCHANGED <<specs, rows, deployments, events, answers, disk, temp>>
  BY DEF PostRun, Deploy, Send, PostSpec, database
<1>2. CASE \E h \in Hashes : PostRun(c, h)
  <2>1. PICK h \in Hashes : req' = [req EXCEPT ![c] = [op |-> "run", at |-> "probe", hash |-> h]]
    BY <1>2 DEF PostRun, Arrives
  <2>2. PICK r : r = [op |-> "run", at |-> "probe", hash |-> h]  OBVIOUS
  <2>3. r \in Requests /\ r.op = "run" /\ r.at = "probe"
    BY <2>2 DEF Requests, RunRequest
  <2> QED  BY <1>1, <2>1, <2>2, <2>3
<1>3. CASE \E r \in 1 .. MaxRows : Deploy(c, r)
  <2>1. PICK n \in 1 .. MaxRows :
              /\ n \in DOMAIN rows
              /\ req' = [req EXCEPT ![c] = [op |-> "deploy", at |-> "insert", run |-> n]]
    BY <1>3 DEF Deploy, Arrives
  <2>2. PICK r : r = [op |-> "deploy", at |-> "insert", run |-> n]  OBVIOUS
  <2>3. r \in Requests /\ r.op = "deploy" /\ r.run = n
    BY <2>2 DEF Requests, DeployRequest
  <2> QED  BY <1>1, <2>1, <2>2, <2>3
<1>4. CASE \E a \in Alerts : Send(c, a)
  <2>1. PICK a \in Alerts :
              req' = [req EXCEPT ![c] = [op |-> "alert", at |-> "resolve", alert |-> a]]
    BY <1>4 DEF Send, Arrives
  <2>2. PICK r : r = [op |-> "alert", at |-> "resolve", alert |-> a]  OBVIOUS
  <2>3. r \in Requests /\ r.op = "alert" /\ r.at = "resolve"
    BY <2>2 DEF Requests, NewAlert
  <2> QED  BY <1>1, <2>1, <2>2, <2>3
<1>5. CASE \E f \in Files, h \in Hashes, o \in BOOLEAN : PostSpec(c, f, h, o)
  <2>1. PICK f \in Files, h \in Hashes, o \in BOOLEAN :
              /\ OneEditor => ~Saving(f)
              /\ req' = [req EXCEPT ![c] = [op |-> "save", at |-> "stat", file |-> f,
                                            content |-> h, overwrite |-> o]]
    BY <1>5 DEF PostSpec, Arrives
  <2>2. PICK r : r = [op |-> "save", at |-> "stat", file |-> f,
                      content |-> h, overwrite |-> o]  OBVIOUS
  <2>3. r \in Requests /\ r.op = "save" /\ r.at = "stat" /\ r.file = f
    BY <2>2 DEF Requests, SaveRequest
  <2> QED  BY <1>1, <2>1, <2>2, <2>3
<1> QED  BY <1>2, <1>3, <1>4, <1>5

\* The alert is resolved.
LEMMA AlertResolved ==
    ASSUME TypeOK, NEW c \in Clients, Resolve(c)
    PROVE  /\ \/ Ends(c)
              \/ \E r \in Requests :
                    /\ req' = [req EXCEPT ![c] = r]
                    /\ r.op = "alert" /\ r.at = "probe"
                    /\ r.key = IF r.alert \in Authentic THEN KeyOf[r.alert] ELSE AuthFail
           /\ UNCHANGED <<specs, rows, deployments, events, answers, disk, temp>>
<1>1. /\ req[c] \in NewAlert
      /\ UNCHANGED <<specs, rows, deployments, events, answers, disk, temp>>
  BY RequestShapes DEF Resolve, At, database, TypeOK
<1>2. PICK a : a = req[c].alert  OBVIOUS
<1>3. a \in Alerts  BY <1>1, <1>2 DEF NewAlert
<1>4. PICK k : k = IF a \in Authentic THEN KeyOf[a] ELSE AuthFail  OBVIOUS
<1>5. k \in Keys  BY <1>4 DEF Keys
<1>6. PICK r : r = [op |-> "alert", at |-> "probe", alert |-> a, key |-> k]  OBVIOUS
<1>7. r \in Requests /\ r.op = "alert" /\ r.at = "probe" /\ r.key = k /\ r.alert = a
  BY <1>3, <1>5, <1>6 DEF Requests, KnownAlert
<1>8. req' = [req EXCEPT ![c] = r] \/ Ends(c)
  BY <1>2, <1>4, <1>6 DEF Resolve
<1> QED  BY <1>1, <1>4, <1>7, <1>8

-----------------------------------------------------------------------------
(* The schema: the requests do not touch it.                               *)

LEMMA NamesOfSchema ==
    /\ Len(Schema) \in Nat /\ DOMAIN Schema = 1 .. Len(Schema)
    /\ \A i \in 1 .. Len(Schema) : Schema[i].name \in Names
  BY SchemaAssumption, LenProperties DEF Names

\* A checkpoint moves the log into the file.
LEMMA Flushed ==
    ASSUME TypeOK, Flush
    PROVE  /\ main' \subseteq Names /\ wal' \in Seq(Names)
           /\ Catalog' = Catalog /\ Replays'
<1>1. wal' = <<>> /\ DOMAIN wal' = {} /\ wal' \in Seq(Names)
  BY DEF Flush
<1>2. Catalog \subseteq Names
  BY ElementOfSeq, LenProperties DEF TypeOK, Catalog
<1>3. main' = Catalog  BY DEF Flush
<1>4. Catalog' = main' \cup {wal'[i] : i \in DOMAIN wal'}  BY DEF Catalog
<1> QED  BY <1>1, <1>2, <1>3, <1>4 DEF Replays

\* A statement that is logged was not in the catalog.
LEMMA Logged ==
    ASSUME TypeOK, SchemaInv, Migrate
    PROVE  /\ wal' \in Seq(Names) /\ Replays'
           /\ Catalog' = Catalog \cup {Schema[stmt].name}
<1>1. stmt \in 1 .. Len(Schema)
  BY NamesOfSchema DEF Migrate, SchemaInv, MigrationProgress
<1>2. PICK n : n = Schema[stmt].name  OBVIOUS
<1>3. n \in Names  BY <1>1, <1>2, NamesOfSchema
<1>4. main' = main  BY DEF Migrate
<1>5. wal \in Seq(Names) /\ Len(wal) \in Nat /\ DOMAIN wal = 1 .. Len(wal)
  BY LenProperties DEF TypeOK
<1>6. CASE n \in Catalog
  <2>1. wal' = wal  BY <1>2, <1>6 DEF Migrate, Skips
  <2> QED  BY <1>2, <1>4, <1>5, <1>6, <2>1 DEF Catalog, SchemaInv, Replays
<1>7. CASE n \notin Catalog
  <2>1. wal' = Append(wal, n)  BY <1>2, <1>7 DEF Migrate, Skips
  <2>2. /\ wal' \in Seq(Names) /\ Len(wal') = Len(wal) + 1
        /\ wal'[Len(wal) + 1] = n
        /\ \A i \in 1 .. Len(wal) : wal'[i] = wal[i]
    BY <1>3, <1>5, <2>1, AppendProperties
  <2>3. DOMAIN wal' = (DOMAIN wal) \cup {Len(wal) + 1}
    BY <1>5, <2>2, LenProperties
  <2>4. n \notin main /\ \A i \in DOMAIN wal : wal[i] # n
    BY <1>7 DEF Catalog
  <2>5. Replays'
    BY <1>4, <1>5, <2>2, <2>3, <2>4 DEF Replays, SchemaInv
  <2>6. {wal'[i] : i \in DOMAIN wal'} = {wal[i] : i \in DOMAIN wal} \cup {n}
    BY <1>5, <2>2, <2>3
  <2> QED  BY <1>2, <1>4, <2>2, <2>5, <2>6 DEF Catalog
<1> QED  BY <1>6, <1>7

LEMMA SchemaNext ==
    ASSUME TypeOK, SchemaInv, [Next]_vars
    PROVE  /\ SchemaInv'
           /\ phase' \in {"down", "migrate", "up", "dead"} /\ stmt' \in Nat
           /\ main' \subseteq Names /\ wal' \in Seq(Names) /\ crashes' \in 0 .. MaxCrashes
<1> USE BoundsAssumption
<1>1. CASE UNCHANGED server
  <2>1. Catalog' = Catalog  BY <1>1 DEF server, Catalog
  <2> QED
    BY <1>1, <2>1
    DEF server, TypeOK, SchemaInv, Replays, MigrationProgress, SchemaIsUsable
<1>2. CASE Open
  <2>1. /\ phase' = "migrate" /\ stmt' = 1 /\ UNCHANGED <<main, wal, crashes>>
    BY <1>2 DEF Open, SchemaInv
  <2>2. stmt' \in 1 .. (Len(Schema) + 1) /\ 1 .. (stmt' - 1) = {}
    BY <2>1, NamesOfSchema
  <2> QED
    BY <2>1, <2>2 DEF TypeOK, SchemaInv, Replays, MigrationProgress, SchemaIsUsable
<1>3. CASE Migrate
  <2>1. /\ phase = "migrate" /\ phase' = "migrate" /\ stmt' = stmt + 1
        /\ stmt \in 1 .. Len(Schema) /\ UNCHANGED <<main, crashes>>
    BY <1>3, NamesOfSchema DEF Migrate, SchemaInv, MigrationProgress
  <2>2. \A i \in 1 .. (stmt - 1) : Schema[i].name \in Catalog
    BY <2>1 DEF SchemaInv, MigrationProgress
  <2>3. MigrationProgress'
    BY <1>3, <2>1, <2>2, Logged, NamesOfSchema DEF MigrationProgress
  <2> QED
    BY <1>3, <2>1, <2>3, Logged, NamesOfSchema DEF TypeOK, SchemaInv, SchemaIsUsable
<1>4. CASE Checkpoint
  <2>1. /\ phase = "migrate" /\ phase' = "up" /\ stmt > Len(Schema)
        /\ Flush /\ UNCHANGED <<stmt, crashes>>
    BY <1>4 DEF Checkpoint
  <2>2. stmt = Len(Schema) + 1
    BY <2>1, NamesOfSchema DEF SchemaInv, MigrationProgress
  <2>3. Names \subseteq Catalog
    BY <2>1, <2>2, NamesOfSchema DEF SchemaInv, MigrationProgress, Names
  <2>4. Catalog \subseteq Names
    BY ElementOfSeq, LenProperties DEF TypeOK, Catalog
  <2> QED
    BY <2>1, <2>3, <2>4, Flushed DEF TypeOK, SchemaInv, MigrationProgress, SchemaIsUsable
<1>5. CASE OwnCheckpoint
  BY <1>5, Flushed DEF OwnCheckpoint, TypeOK, SchemaInv, MigrationProgress, SchemaIsUsable
<1>6. CASE Crash
  BY <1>6 DEF Crash, TypeOK, SchemaInv, MigrationProgress, SchemaIsUsable, Replays
<1>7. CASE UNCHANGED vars
  BY <1>1, <1>7 DEF vars, server
<1>8. CASE \E a \in Authentic : Age(a)
  BY <1>1, <1>8 DEF Age
<1>9. CASE \E c \in Clients :
              \/ Handle(c)
              \/ \E h \in Hashes : PostRun(c, h)
              \/ \E r \in 1 .. MaxRows : Deploy(c, r)
              \/ \E a \in Alerts : Send(c, a)
              \/ \E f \in Files, h \in Hashes, o \in BOOLEAN : PostSpec(c, f, h, o)
  BY <1>1, <1>9
  DEF Handle, ProbeSpec, InsertSpec, InsertRun, InsertDeployment, Resolve, ProbeEvent,
      InsertEvent, Reread, Stat, OpenTemp, FillTemp, Rename, PostRun, Deploy, Send, PostSpec
<1> QED
  BY <1>2, <1>3, <1>4, <1>5, <1>6, <1>7, <1>8, <1>9 DEF Next, Boot

-----------------------------------------------------------------------------
(* Signals.                                                                *)

\* Nothing is stored or answered, and no request comes to believe that it has
\* stored a signal.
LEMMA SignalAside ==
    ASSUME SignalInv, UNCHANGED <<events, answers>>,
           \A c \in Clients :
               \/ req'[c] = req[c]
               \/ req'[c].op # "alert"
               \/ req'[c].at = "resolve"
               \/ /\ req'[c].at \in {"probe", "insert"}
                  /\ req'[c].key = IF req'[c].alert \in Authentic
                                     THEN KeyOf[req'[c].alert] ELSE AuthFail
    PROVE  SignalInv'
<1>1. \A c \in Clients : Rereads(c)' => req'[c] = req[c] /\ Rereads(c)
  BY DEF Rereads
<1>2. KeyIsOwn'  BY DEF SignalInv, KeyIsOwn
<1>3. NewsIsOwn'  BY <1>1 DEF SignalInv, NewsIsOwn, EventWith
<1> QED
  BY <1>2, <1>3 DEF SignalInv, FailuresAreMarked, AnswersExist, SignalIsOneEvent

\* What a request that knows its alert knows.
LEMMA KnownKey ==
    ASSUME TypeOK, SignalInv, NEW c \in Clients, req[c].op = "alert", req[c].at # "resolve"
    PROVE  /\ req[c] \in KnownAlert
           /\ req[c].key = AuthFail <=> req[c].alert \notin Authentic
           /\ req[c].alert \in Authentic => req[c].key = KeyOf[req[c].alert]
<1>1. req[c] \in KnownAlert  BY RequestShapes DEF TypeOK
<1> QED
  BY <1>1, KeysAssumption, AlertsAssumption DEF SignalInv, KeyIsOwn, KnownAlert

\* A request answers its alert with the event that carries its key.
LEMMA AnswerStep ==
    ASSUME TypeOK, SignalInv, NEW c \in Clients, req[c].op = "alert", req[c].at # "resolve",
           NEW i \in EventWith(req[c].key), NEW deduped \in BOOLEAN,
           Answered(c, i, deduped), Ends(c), events' = events,
           ~deduped => Rereads(c)
    PROVE  SignalInv' /\ answers' \subseteq [alert : Authentic, id : Nat, deduped : BOOLEAN]
<1>1. PICK a, k : a = req[c].alert /\ k = req[c].key  OBVIOUS
<1>2. /\ req'[c] = NoReq /\ \A d \in Clients \ {c} : req'[d] = req[d]
      /\ req'[c].op = "none"
  BY EndsAreNoReq, NobodyAsks
<1>3. CASE k = AuthFail
  <2>1. answers' = answers  BY <1>1, <1>3 DEF Answered
  <2> QED  BY <1>2, <2>1, SignalAside DEF TypeOK
<1>4. CASE k # AuthFail
  <2>1. PICK x : x = [alert |-> a, id |-> i, deduped |-> deduped]  OBVIOUS
  <2>2. answers' = answers \cup {x}  BY <1>1, <1>4, <2>1 DEF Answered
  <2>3. a \in Authentic /\ k = KeyOf[a]  BY <1>1, <1>4, KnownKey
  <2>4. /\ i \in DOMAIN events /\ events[i].key = k
        /\ DOMAIN events \subseteq Nat
        /\ events[i] \in [key : Keys, ok : BOOLEAN]
    <3>1. events \in Seq([key : Keys, ok : BOOLEAN])  BY DEF TypeOK
    <3>2. Len(events) \in Nat /\ DOMAIN events = 1 .. Len(events)
      BY <3>1, LenProperties
    <3>3. i \in 1 .. Len(events) /\ events[i].key = k  BY <1>1, <3>2 DEF EventWith
    <3>4. events[i] \in [key : Keys, ok : BOOLEAN]  BY <3>1, <3>3, ElementOfSeq
    <3> QED  BY <3>2, <3>3, <3>4
  <2>5. events[i].ok = TRUE
    BY <1>4, <2>4 DEF SignalInv, FailuresAreMarked
  <2>6. events[i] = [key |-> k, ok |-> TRUE]  BY <2>4, <2>5
  <2>7. KeyIsOwn'  BY <1>2 DEF SignalInv, KeyIsOwn
  <2>8. FailuresAreMarked' /\ AnswersExist'
    BY <2>1, <2>2, <2>4 DEF SignalInv, FailuresAreMarked, AnswersExist
  <2>9. NewsIsOwn'
    <3> SUFFICES ASSUME NEW d \in Clients \ {c}, Rereads(d), ~deduped
                 PROVE  events[i].key # req[d].key
      BY <1>2, <2>1, <2>2 DEF SignalInv, NewsIsOwn, Rereads, EventWith
    <3> QED  BY <1>1, <2>4 DEF SignalInv, NewsIsOwn
  <2>10. SignalIsOneEvent'
    <3>1. ASSUME NEW r \in answers, ~r.deduped, ~deduped
          PROVE  r.id # i
      BY <1>1, <2>4, <3>1 DEF SignalInv, NewsIsOwn
    <3>2. \A r \in answers' : events[r.id] = [key |-> KeyOf[r.alert], ok |-> TRUE]
      <4>1. x.id = i /\ x.alert = a  BY <2>1
      <4>2. events[x.id] = [key |-> KeyOf[x.alert], ok |-> TRUE]  BY <2>3, <2>6, <4>1
      <4> QED  BY <2>2, <4>2 DEF SignalInv, SignalIsOneEvent
    <3>3. ASSUME NEW r \in answers', NEW s \in answers', r.id = s.id, ~r.deduped, ~s.deduped
          PROVE  r = s
      BY <2>1, <2>2, <3>1, <3>3 DEF SignalInv, SignalIsOneEvent
    <3> QED  BY <3>2, <3>3 DEF SignalInv, SignalIsOneEvent
  <2>11. answers' \subseteq [alert : Authentic, id : Nat, deduped : BOOLEAN]
    BY <2>1, <2>2, <2>3, <2>4 DEF TypeOK
  <2> QED  BY <2>7, <2>8, <2>9, <2>10, <2>11 DEF SignalInv
<1> QED  BY <1>3, <1>4

\* A request stores its signal: no event carries its key yet, so nobody has
\* answered or is about to answer for it.
LEMMA StoreStep ==
    ASSUME TypeOK, SignalInv, NEW c \in Clients, InsertEvent(c)
    PROVE  /\ SignalInv' /\ req' \in [Clients -> Requests]
           /\ events' \in Seq([key : Keys, ok : BOOLEAN])
<1>1. PICK a, k : a = req[c].alert /\ k = req[c].key  OBVIOUS
<1>2. req[c].op = "alert" /\ req[c].at = "insert" /\ answers' = answers
  BY DEF InsertEvent, At
<1>3. CASE EventWith(k) # {}
  <2>1. Ends(c) /\ events' = events  BY <1>1, <1>3 DEF InsertEvent
  <2> QED  BY <1>2, <2>1, EndsAreNoReq, NobodyAsks, SignalAside DEF TypeOK
<1>4. CASE EventWith(k) = {}
  <2>1. PICK e : e = [key |-> k, ok |-> a \in Authentic]  OBVIOUS
  <2>2. events' = Append(events, e) /\ Goes(c, "reread")
    BY <1>1, <1>4, <2>1 DEF InsertEvent
  <2>3. /\ req' \in [Clients -> Requests]
        /\ \A d \in Clients \ {c} : req'[d] = req[d]
        /\ req'[c].op = "alert" /\ req'[c].at = "reread"
        /\ req'[c].alert = a /\ req'[c].key = k
    BY <1>1, <1>2, <2>2, GoesOn
  <2>4. /\ k \in Keys /\ (k = AuthFail <=> a \notin Authentic)
        /\ a \in Authentic => k = KeyOf[a]
    BY <1>1, <1>2, KnownKey DEF KnownAlert
  <2>5. e \in [key : Keys, ok : BOOLEAN] /\ e.key = k /\ (e.ok <=> k # AuthFail)
    <3>1. CASE a \in Authentic
      <4>1. (a \in Authentic) = TRUE  BY <3>1
      <4>2. e = [key |-> k, ok |-> TRUE]  BY <2>1, <4>1
      <4> QED  BY <2>4, <3>1, <4>2
    <3>2. CASE a \notin Authentic
      <4>1. (a \in Authentic) = FALSE  BY <3>2
      <4>2. e = [key |-> k, ok |-> FALSE]  BY <2>1, <4>1
      <4> QED  BY <2>4, <3>2, <4>2
    <3> QED  BY <3>1, <3>2
  <2>6. PICK n : n = Len(events) + 1  OBVIOUS
  <2>7. /\ events' \in Seq([key : Keys, ok : BOOLEAN])
        /\ DOMAIN events' = (DOMAIN events) \cup {n} /\ n \notin DOMAIN events
        /\ events'[n] = e /\ \A i \in DOMAIN events : events'[i] = events[i]
    <3>1. /\ events \in Seq([key : Keys, ok : BOOLEAN]) /\ Len(events) \in Nat
          /\ DOMAIN events = 1 .. Len(events)
      BY LenProperties DEF TypeOK
    <3>2. /\ events' \in Seq([key : Keys, ok : BOOLEAN]) /\ Len(events') = n
          /\ events'[n] = e /\ \A i \in 1 .. Len(events) : events'[i] = events[i]
      BY <2>2, <2>5, <2>6, <3>1, AppendProperties
    <3>3. DOMAIN events' = 1 .. n  BY <3>2, LenProperties
    <3> QED  BY <2>6, <3>1, <3>2, <3>3
  <2>8. \A i \in DOMAIN events : events[i].key # k  BY <1>4 DEF EventWith
  <2>9. \A d \in Clients \ {c} : Rereads(d)' => Rereads(d) /\ req[d].key # k
    BY <2>3, <2>8 DEF Rereads, SignalInv, NewsIsOwn, EventWith
  <2>10. KeyIsOwn'  BY <2>3, <2>4 DEF SignalInv, KeyIsOwn
  <2>11. FailuresAreMarked' /\ AnswersExist'
    BY <1>2, <2>5, <2>7 DEF SignalInv, FailuresAreMarked, AnswersExist
  <2>12. \A r \in answers : r.id \in DOMAIN events /\ events'[r.id] = events[r.id]
    BY <2>7 DEF SignalInv, AnswersExist
  <2>13. NewsIsOwn'
    <3> SUFFICES ASSUME NEW d \in Clients, Rereads(d)'
                 PROVE  /\ \E i \in DOMAIN events' : events'[i].key = req'[d].key
                        /\ \A b \in Clients \ {d} : Rereads(b)' => req'[b].key # req'[d].key
                        /\ \A r \in answers : ~r.deduped => events'[r.id].key # req'[d].key
      BY <1>2 DEF NewsIsOwn, EventWith
    <3>1. CASE d = c
      BY <2>3, <2>5, <2>7, <2>8, <2>9, <2>12, <3>1
    <3>2. CASE d # c
      <4>1. Rereads(d) /\ req'[d] = req[d] /\ req[d].key # k  BY <2>3, <2>9, <3>2
      <4>2. \E i \in DOMAIN events : events[i].key = req[d].key
        BY <4>1 DEF SignalInv, NewsIsOwn, EventWith
      <4>3. \A b \in Clients \ {d} : Rereads(b)' => req'[b].key # req[d].key
        BY <2>3, <2>9, <4>1 DEF SignalInv, NewsIsOwn
      <4>4. \A r \in answers : ~r.deduped => events[r.id].key # req[d].key
        BY <4>1 DEF SignalInv, NewsIsOwn
      <4> QED  BY <2>7, <2>12, <4>1, <4>2, <4>3, <4>4
    <3> QED  BY <3>1, <3>2
  <2>14. SignalIsOneEvent'
    <3>1. \A i, j \in DOMAIN events' : events'[i].key = events'[j].key => i = j
      BY <2>5, <2>7, <2>8 DEF SignalInv, SignalIsOneEvent
    <3>2. \A r \in answers : events'[r.id] = [key |-> KeyOf[r.alert], ok |-> TRUE]
      BY <2>12 DEF SignalInv, SignalIsOneEvent
    <3> QED  BY <1>2, <3>1, <3>2 DEF SignalInv, SignalIsOneEvent
  <2> QED  BY <2>3, <2>7, <2>10, <2>11, <2>13, <2>14 DEF SignalInv
<1> QED  BY <1>3, <1>4

LEMMA SignalNext ==
    ASSUME TypeOK, SignalInv, [Next]_vars
    PROVE  /\ SignalInv' /\ req' \in [Clients -> Requests]
           /\ events' \in Seq([key : Keys, ok : BOOLEAN])
           /\ answers' \subseteq [alert : Authentic, id : Nat, deduped : BOOLEAN]
<1>1. CASE \/ Boot \/ OwnCheckpoint \/ UNCHANGED vars
           \/ \E a \in Authentic : Age(a)
  <2>1. UNCHANGED <<events, answers, req>>
    BY <1>1 DEF Boot, Open, Migrate, Checkpoint, OwnCheckpoint, vars, Age, database
  <2> QED  BY <2>1, SignalAside DEF TypeOK
<1>2. CASE Crash
  <2>1. UNCHANGED <<events, answers>> /\ req' = [c \in Clients |-> NoReq]
    BY <1>2 DEF Crash, database
  <2> QED  BY <2>1, NobodyAsks, SignalAside DEF TypeOK
<1>3. ASSUME NEW c \in Clients, NEW r \in Requests, req' = [req EXCEPT ![c] = r],
             UNCHANGED <<events, answers>>,
             \/ r.op # "alert" \/ r.at = "resolve"
             \/ /\ r.at \in {"probe", "insert"}
                /\ r.key = IF r.alert \in Authentic THEN KeyOf[r.alert] ELSE AuthFail
      PROVE  /\ SignalInv' /\ req' \in [Clients -> Requests]
             /\ UNCHANGED <<events, answers>>
  BY <1>3, ReqSet, SignalAside
<1>4. ASSUME NEW c \in Clients, Ends(c), UNCHANGED <<events, answers>>
      PROVE  /\ SignalInv' /\ req' \in [Clients -> Requests]
             /\ UNCHANGED <<events, answers>>
  BY <1>3, <1>4, NobodyAsks DEF Ends
<1>5. ASSUME NEW c \in Clients, NEW at, Goes(c, at), UNCHANGED <<events, answers>>,
             \/ req[c].op = "run" /\ at \in {"probe", "insert", "row"}
             \/ req[c].op = "save" /\ at \in {"stat", "open", "fill", "rename"}
             \/ /\ req[c].op = "alert" /\ req[c].at # "resolve"
                /\ at \in {"probe", "insert"}
      PROVE  /\ SignalInv' /\ req' \in [Clients -> Requests]
             /\ UNCHANGED <<events, answers>>
  <2>1. /\ req' \in [Clients -> Requests]
        /\ \A d \in Clients \ {c} : req'[d] = req[d]
        /\ req'[c].op = req[c].op /\ req'[c].at = at
        /\ req[c].op = "alert" => /\ req'[c].alert = req[c].alert
                                  /\ req'[c].key = req[c].key
    BY <1>5, GoesOn
  <2> QED  BY <1>5, <2>1, SignalAside DEF SignalInv, KeyIsOwn
<1>6. ASSUME NEW c \in Clients,
             \/ \E h \in Hashes : PostRun(c, h)
             \/ \E r \in 1 .. MaxRows : Deploy(c, r)
             \/ \E a \in Alerts : Send(c, a)
             \/ \E f \in Files, h \in Hashes, o \in BOOLEAN : PostSpec(c, f, h, o)
      PROVE  /\ SignalInv' /\ req' \in [Clients -> Requests]
             /\ UNCHANGED <<events, answers>>
  <2>1. PICK r \in Requests :
          /\ req' = [req EXCEPT ![c] = r]
          /\ r.op = "alert" => r.at = "resolve"
    BY <1>6, NewRequest
  <2>2. UNCHANGED <<events, answers>>  BY <1>6, NewRequest
  <2> QED  BY <1>3, <2>1, <2>2
<1>7. ASSUME NEW c \in Clients, Resolve(c)
      PROVE  /\ SignalInv' /\ req' \in [Clients -> Requests]
             /\ UNCHANGED <<events, answers>>
  BY <1>3, <1>4, <1>7, AlertResolved
<1>8. ASSUME NEW c \in Clients, ProbeEvent(c)
      PROVE  /\ SignalInv' /\ req' \in [Clients -> Requests] /\ UNCHANGED events
             /\ answers' \subseteq [alert : Authentic, id : Nat, deduped : BOOLEAN]
  <2>1. req[c].op = "alert" /\ req[c].at = "probe" /\ events' = events
    BY <1>8 DEF ProbeEvent, At, database
  <2>2. CASE Goes(c, "insert") /\ UNCHANGED answers
    BY <1>5, <2>1, <2>2 DEF TypeOK
  <2>3. CASE \E i \in EventWith(req[c].key) : Answered(c, i, TRUE) /\ Ends(c)
    BY <2>1, <2>3, AnswerStep, EndsAreNoReq
  <2> QED  BY <1>8, <2>2, <2>3 DEF ProbeEvent
<1>9. ASSUME NEW c \in Clients, Reread(c)
      PROVE  /\ SignalInv' /\ req' \in [Clients -> Requests] /\ UNCHANGED events
             /\ answers' \subseteq [alert : Authentic, id : Nat, deduped : BOOLEAN]
  <2>1. req[c].op = "alert" /\ req[c].at = "reread" /\ Rereads(c) /\ events' = events
        /\ Ends(c)
    BY <1>9 DEF Reread, At, database, Rereads
  <2>2. PICK i \in EventWith(req[c].key) : Answered(c, i, FALSE)
    BY <1>9 DEF Reread
  <2> QED  BY <2>1, <2>2, AnswerStep, EndsAreNoReq
<1>10. ASSUME NEW c \in Clients,
              \/ ProbeSpec(c) \/ InsertSpec(c) \/ InsertRun(c)
              \/ InsertDeployment(c)
              \/ Stat(c) \/ OpenTemp(c) \/ FillTemp(c) \/ Rename(c)
       PROVE  /\ SignalInv' /\ req' \in [Clients -> Requests]
              /\ UNCHANGED <<events, answers>>
  <2>1. UNCHANGED <<events, answers>>
    BY <1>10
    DEF ProbeSpec, InsertSpec, InsertRun, InsertDeployment, Stat, OpenTemp, FillTemp,
        Rename, database
  <2>2. CASE Ends(c)  BY <1>4, <2>1, <2>2
  <2>3. CASE ~Ends(c)
    <3>1. \E at : /\ Goes(c, at)
                  /\ \/ req[c].op = "run" /\ at \in {"probe", "insert", "row"}
                     \/ req[c].op = "save" /\ at \in {"stat", "open", "fill", "rename"}
      BY <1>10, <2>3
      DEF ProbeSpec, InsertSpec, InsertRun, InsertDeployment, Stat, OpenTemp, FillTemp,
          Rename, At
    <3> QED  BY <1>5, <2>1, <3>1
  <2> QED  BY <2>2, <2>3
<1>11. ASSUME NEW c \in Clients, InsertEvent(c)
       PROVE  answers' = answers
  BY <1>11 DEF InsertEvent
<1>12. ASSUME NEW c \in Clients, Handle(c)
       PROVE  /\ SignalInv' /\ req' \in [Clients -> Requests]
              /\ events' \in Seq([key : Keys, ok : BOOLEAN])
              /\ answers' \subseteq [alert : Authentic, id : Nat, deduped : BOOLEAN]
  BY <1>7, <1>8, <1>9, <1>10, <1>11, <1>12, StoreStep DEF Handle, TypeOK
<1> QED  BY <1>1, <1>2, <1>6, <1>12 DEF Next, TypeOK

-----------------------------------------------------------------------------
(* Specs, runs and deployments.                                            *)

\* The tables only grow, and no request comes to rely on a row that is missing.
LEMMA RequestsStayValid ==
    ASSUME RunExists, specs \subseteq specs', DOMAIN rows \subseteq DOMAIN rows',
           \A c \in Clients :
               \/ req'[c] = req[c]
               \/ /\ req'[c].op = "deploy" => req'[c].run \in DOMAIN rows
                  /\ (req'[c].op = "run" /\ req'[c].at = "row") => req'[c].hash \in specs'
    PROVE  RunExists'
  BY DEF RunExists

LEMMA RowsAside ==
    ASSUME TypeOK, RunExists, SpecsAreStored, UNCHANGED <<specs, rows, deployments>>,
           \A c \in Clients :
               \/ req'[c] = req[c]
               \/ /\ req'[c].op = "deploy" => req'[c].run \in DOMAIN rows
                  /\ (req'[c].op = "run" /\ req'[c].at = "row") => req'[c].hash \in specs
    PROVE  /\ RunExists' /\ SpecsAreStored'
           /\ specs' \subseteq Hashes /\ rows' \in Seq(Hashes) /\ deployments' \in Seq(Hashes)
<1>1. RunExists'  BY RequestsStayValid
<1> QED  BY <1>1 DEF SpecsAreStored, TypeOK

\* A row of runs or deployments is appended, with a hash that is stored.
LEMMA RowAppended ==
    ASSUME NEW t \in Seq(Hashes), NEW h \in Hashes, NEW S, h \in S,
           \A i \in DOMAIN t : t[i] \in S
    PROVE  /\ Append(t, h) \in Seq(Hashes)
           /\ DOMAIN t \subseteq DOMAIN Append(t, h)
           /\ \A i \in DOMAIN Append(t, h) : Append(t, h)[i] \in S
<1> DEFINE u == Append(t, h)
<1>1. Len(t) \in Nat /\ DOMAIN t = 1 .. Len(t)  BY LenProperties
<1>2. /\ u \in Seq(Hashes) /\ Len(u) = Len(t) + 1 /\ u[Len(t) + 1] = h
      /\ \A i \in 1 .. Len(t) : u[i] = t[i]
  BY AppendProperties
<1>3. DOMAIN u = 1 .. (Len(t) + 1)  BY <1>2, LenProperties
<1> HIDE DEF u
<1>4. ASSUME NEW i \in DOMAIN u
      PROVE  u[i] \in S
  <2>1. CASE i = Len(t) + 1  BY <1>2, <2>1
  <2>2. CASE i # Len(t) + 1
    <3>1. i \in 1 .. Len(t)  BY <1>1, <1>3, <1>4, <2>2
    <3> QED  BY <1>1, <1>2, <3>1
  <2> QED  BY <2>1, <2>2
<1>5. DOMAIN t \subseteq DOMAIN u  BY <1>1, <1>3
<1> QED  BY <1>2, <1>4, <1>5 DEF u

LEMMA RowsNext ==
    ASSUME TypeOK, RunExists, SpecsAreStored, [Next]_vars
    PROVE  /\ RunExists' /\ SpecsAreStored'
           /\ specs' \subseteq Hashes /\ rows' \in Seq(Hashes) /\ deployments' \in Seq(Hashes)
<1>1. CASE \/ Boot \/ OwnCheckpoint \/ UNCHANGED vars
           \/ \E a \in Authentic : Age(a)
  <2>1. UNCHANGED <<specs, rows, deployments, req>>
    BY <1>1 DEF Boot, Open, Migrate, Checkpoint, OwnCheckpoint, vars, Age, database
  <2> QED  BY <2>1, RowsAside
<1>2. CASE Crash
  <2>1. UNCHANGED <<specs, rows, deployments>> /\ req' = [c \in Clients |-> NoReq]
    BY <1>2 DEF Crash, database
  <2> QED  BY <2>1, NobodyAsks, RowsAside
<1>3. ASSUME NEW c \in Clients,
             \/ \E h \in Hashes : PostRun(c, h)
             \/ \E r \in 1 .. MaxRows : Deploy(c, r)
             \/ \E a \in Alerts : Send(c, a)
             \/ \E f \in Files, h \in Hashes, o \in BOOLEAN : PostSpec(c, f, h, o)
      PROVE  /\ RunExists' /\ SpecsAreStored'
             /\ specs' \subseteq Hashes /\ rows' \in Seq(Hashes) /\ deployments' \in Seq(Hashes)
  <2>1. PICK r \in Requests :
          /\ req' = [req EXCEPT ![c] = r]
          /\ r.op = "deploy" => r.run \in DOMAIN rows
          /\ r.op = "run" => r.at = "probe"
    BY <1>3, NewRequest
  <2>2. UNCHANGED <<specs, rows, deployments>>  BY <1>3, NewRequest
  <2> QED  BY <2>1, <2>2, ReqSet, RowsAside
<1>4. ASSUME NEW c \in Clients, Ends(c), UNCHANGED <<specs, rows, deployments>>
      PROVE  /\ RunExists' /\ SpecsAreStored'
             /\ specs' \subseteq Hashes /\ rows' \in Seq(Hashes) /\ deployments' \in Seq(Hashes)
  BY <1>4, EndsAreNoReq, NobodyAsks, RowsAside
<1>5. ASSUME NEW c \in Clients, ProbeSpec(c)
      PROVE  /\ RunExists' /\ SpecsAreStored'
             /\ specs' \subseteq Hashes /\ rows' \in Seq(Hashes) /\ deployments' \in Seq(Hashes)
  <2>1. /\ req[c].op = "run" /\ UNCHANGED <<specs, rows, deployments>>
        /\ \/ req[c].hash \in specs /\ Goes(c, "row")
           \/ Goes(c, "insert")
    BY <1>5 DEF ProbeSpec, At, database
  <2>2. PICK at \in {"row", "insert"} : /\ Goes(c, at)
                                        /\ at = "row" => req[c].hash \in specs
    BY <2>1
  <2>3. /\ \A d \in Clients \ {c} : req'[d] = req[d]
        /\ req'[c].op = "run" /\ req'[c].at = at /\ req'[c].hash = req[c].hash
    BY <2>1, <2>2, GoesOn
  <2> QED  BY <2>1, <2>2, <2>3, RowsAside
<1>6. ASSUME NEW c \in Clients, InsertSpec(c)
      PROVE  /\ RunExists' /\ SpecsAreStored'
             /\ specs' \subseteq Hashes /\ rows' \in Seq(Hashes) /\ deployments' \in Seq(Hashes)
  <2>1. req[c] \in RunRequest /\ UNCHANGED <<rows, deployments>>
    BY <1>6, RequestShapes DEF InsertSpec, At, TypeOK
  <2>2. CASE req[c].hash \in specs
    BY <1>4, <1>6, <2>1, <2>2 DEF InsertSpec
  <2>3. CASE req[c].hash \notin specs
    <3>1. PICK h \in Hashes : h = req[c].hash  BY <2>1 DEF RunRequest
    <3>2. specs' = specs \cup {h} /\ Goes(c, "row")
      BY <1>6, <2>3, <3>1 DEF InsertSpec
    <3>3. /\ \A d \in Clients \ {c} : req'[d] = req[d]
          /\ req'[c].op = "run" /\ req'[c].hash = h
      BY <2>1, <3>1, <3>2, GoesOn DEF RunRequest
    <3>4. RunExists'  BY <2>1, <3>2, <3>3, RequestsStayValid
    <3> QED  BY <2>1, <3>2, <3>4 DEF SpecsAreStored, TypeOK
  <2> QED  BY <2>2, <2>3
<1>7. ASSUME NEW c \in Clients, InsertRun(c)
      PROVE  /\ RunExists' /\ SpecsAreStored'
             /\ specs' \subseteq Hashes /\ rows' \in Seq(Hashes) /\ deployments' \in Seq(Hashes)
  <2>1. /\ req[c] \in RunRequest /\ req[c].hash \in specs
        /\ UNCHANGED <<specs, deployments>> /\ Ends(c)
    BY <1>7, RequestShapes DEF InsertRun, At, TypeOK, RunExists
  <2>2. PICK h \in Hashes : h = req[c].hash  BY <2>1 DEF RunRequest
  <2>3. rows' = Append(rows, h)  BY <1>7, <2>2 DEF InsertRun
  <2>4. rows \in Seq(Hashes) /\ \A i \in DOMAIN rows : rows[i] \in specs
    BY DEF TypeOK, SpecsAreStored
  <2>5. /\ rows' \in Seq(Hashes) /\ DOMAIN rows \subseteq DOMAIN rows'
        /\ \A i \in DOMAIN rows' : rows'[i] \in specs
    BY <2>1, <2>2, <2>3, <2>4, RowAppended
  <2>6. RunExists'  BY <2>1, <2>5, EndsAreNoReq, NobodyAsks, RequestsStayValid
  <2> QED  BY <2>1, <2>5, <2>6 DEF SpecsAreStored, TypeOK
<1>8. ASSUME NEW c \in Clients, InsertDeployment(c)
      PROVE  /\ RunExists' /\ SpecsAreStored'
             /\ specs' \subseteq Hashes /\ rows' \in Seq(Hashes) /\ deployments' \in Seq(Hashes)
  <2>1. /\ req[c].op = "deploy" /\ req[c].run \in DOMAIN rows
        /\ UNCHANGED <<specs, rows>> /\ Ends(c)
    BY <1>8 DEF InsertDeployment, At, RunExists
  <2>2. PICK h : h = rows[req[c].run]  OBVIOUS
  <2>3. h \in specs /\ h \in Hashes
    BY <2>1, <2>2 DEF SpecsAreStored, TypeOK
  <2>4. deployments' = Append(deployments, h)  BY <1>8, <2>2 DEF InsertDeployment
  <2>5. /\ deployments \in Seq(Hashes)
        /\ \A i \in DOMAIN deployments : deployments[i] \in specs
    BY DEF TypeOK, SpecsAreStored
  <2>6. /\ deployments' \in Seq(Hashes)
        /\ \A i \in DOMAIN deployments' : deployments'[i] \in specs
    BY <2>3, <2>4, <2>5, RowAppended
  <2>7. RunExists'  BY <2>1, EndsAreNoReq, NobodyAsks, RequestsStayValid
  <2> QED  BY <2>1, <2>6, <2>7 DEF SpecsAreStored, TypeOK
<1>9. ASSUME NEW c \in Clients, Resolve(c)
      PROVE  /\ RunExists' /\ SpecsAreStored'
             /\ specs' \subseteq Hashes /\ rows' \in Seq(Hashes) /\ deployments' \in Seq(Hashes)
  <2>1. \/ \E r \in Requests : req' = [req EXCEPT ![c] = r] /\ r.op = "alert"
        \/ Ends(c)
    BY <1>9, AlertResolved
  <2>2. UNCHANGED <<specs, rows, deployments>>  BY <1>9, AlertResolved
  <2> QED  BY <1>4, <2>1, <2>2, ReqSet, RowsAside
<1>10. ASSUME NEW c \in Clients,
              \/ ProbeEvent(c) \/ InsertEvent(c) \/ Reread(c)
              \/ Stat(c) \/ OpenTemp(c) \/ FillTemp(c) \/ Rename(c)
       PROVE  /\ RunExists' /\ SpecsAreStored'
              /\ specs' \subseteq Hashes /\ rows' \in Seq(Hashes) /\ deployments' \in Seq(Hashes)
  <2>1. UNCHANGED <<specs, rows, deployments>>
    BY <1>10 DEF ProbeEvent, InsertEvent, Reread, Stat, OpenTemp, FillTemp, Rename, database
  <2>2. CASE Ends(c)  BY <1>4, <2>1, <2>2
  <2>3. CASE ~Ends(c)
    <3>1. \E at : /\ Goes(c, at)
                  /\ \/ req[c].op = "alert" /\ req[c].at # "resolve" /\ at \in {"insert", "reread"}
                     \/ req[c].op = "save" /\ at \in {"open", "fill", "rename"}
      BY <1>10, <2>3
      DEF ProbeEvent, InsertEvent, Reread, Stat, OpenTemp, FillTemp, Rename, At
    <3>2. /\ \A d \in Clients \ {c} : req'[d] = req[d]
          /\ req'[c].op \in {"alert", "save"}
      BY <3>1, GoesOn
    <3> QED  BY <2>1, <3>2, RowsAside
  <2> QED  BY <2>2, <2>3
<1> QED
  BY <1>1, <1>2, <1>3, <1>5, <1>6, <1>7, <1>8, <1>9, <1>10 DEF Next, Handle

-----------------------------------------------------------------------------
(* Spec files.                                                             *)

LEMMA FilesAside ==
    ASSUME TypeOK, OneEditor => FileInv, UNCHANGED <<disk, temp>>,
           \A c \in Clients :
               \/ req'[c] = req[c]
               \/ req'[c].op # "save"
               \/ /\ req[c].op = "save" /\ req'[c].file = req[c].file
                  /\ req'[c].at # "rename"
    PROVE  /\ OneEditor => FileInv'
           /\ disk' \in [Files -> Contents] /\ temp' \in [Files -> Contents]
  BY DEF TypeOK, FileInv, Saves, FilesAreWhole

\* What the handler of a save writes.
LEMMA SaveStep ==
    ASSUME TypeOK, OneEditor => FileInv, NEW c \in Clients,
           OpenTemp(c) \/ FillTemp(c) \/ Rename(c)
    PROVE  /\ OneEditor => FileInv'
           /\ disk' \in [Files -> Contents] /\ temp' \in [Files -> Contents]
<1>1. req[c].op = "save" /\ req[c] \in SaveRequest
  BY RequestShapes DEF OpenTemp, FillTemp, Rename, At, TypeOK
<1>2. PICK f \in Files, h \in Hashes : f = req[c].file /\ h = req[c].content
  BY <1>1 DEF SaveRequest
<1>3. h \in Contents /\ Torn \in Contents /\ Absent \in Contents /\ h # Torn /\ Absent # Torn
  BY ContentAssumption DEF Contents, Torn, Absent
<1>4. disk \in [Files -> Contents] /\ temp \in [Files -> Contents]  BY DEF TypeOK
<1>5. OneEditor => \A d \in Clients \ {c}, g \in Files : Saves(d, g) => g # f
  BY <1>1, <1>2 DEF FileInv, Saves
<1>6. CASE OpenTemp(c)
  <2>1. temp' = [temp EXCEPT ![f] = Torn] /\ disk' = disk /\ Goes(c, "fill")
    BY <1>2, <1>6 DEF OpenTemp
  <2>2. /\ \A d \in Clients \ {c} : req'[d] = req[d]
        /\ req'[c].op = "save" /\ req'[c].at = "fill" /\ req'[c].file = f
    BY <1>1, <1>2, <2>1, GoesOn
  <2>3. ASSUME OneEditor
        PROVE  FileInv'
    <3>1. \A g \in Files, b, d \in Clients : Saves(b, g)' /\ Saves(d, g)' => b = d
      BY <1>1, <1>2, <2>2, <2>3 DEF FileInv, Saves
    <3>2. ASSUME NEW d \in Clients, req'[d].op = "save", req'[d].at = "rename"
          PROVE  temp'[req'[d].file] # Torn
      <4>1. d # c /\ req'[d] = req[d]  BY <2>2, <3>2
      <4>2. PICK g \in Files : g = req[d].file
        BY <3>2, <4>1, RequestShapes DEF TypeOK, SaveRequest
      <4>3. g # f  BY <1>5, <2>3, <3>2, <4>1, <4>2 DEF Saves
      <4>4. temp[g] # Torn  BY <2>3, <3>2, <4>1, <4>2 DEF FileInv
      <4> QED  BY <1>4, <2>1, <4>1, <4>2, <4>3, <4>4
    <3> QED  BY <2>1, <2>3, <3>1, <3>2 DEF FileInv, FilesAreWhole
  <2> QED  BY <1>3, <1>4, <2>1, <2>3
<1>7. CASE FillTemp(c)
  <2>1. /\ \/ temp[f] # Absent /\ temp' = [temp EXCEPT ![f] = h] /\ disk' = disk
           \/ temp[f] = Absent /\ disk' = [disk EXCEPT ![f] = h] /\ temp' = temp
        /\ Goes(c, "rename")
    BY <1>2, <1>7 DEF FillTemp
  <2>2. /\ \A d \in Clients \ {c} : req'[d] = req[d]
        /\ req'[c].op = "save" /\ req'[c].at = "rename" /\ req'[c].file = f
    BY <1>1, <1>2, <2>1, GoesOn
  <2>3. /\ disk' \in [Files -> Contents] /\ temp' \in [Files -> Contents]
        /\ temp'[f] # Torn
        /\ \A g \in Files \ {f} : temp'[g] = temp[g] /\ disk'[g] = disk[g]
        /\ disk'[f] = disk[f] \/ disk'[f] = h
    BY <1>3, <1>4, <2>1
  <2>4. ASSUME OneEditor
        PROVE  FileInv'
    <3>1. \A g \in Files, b, d \in Clients : Saves(b, g)' /\ Saves(d, g)' => b = d
      BY <1>1, <1>2, <2>2, <2>4 DEF FileInv, Saves
    <3>2. ASSUME NEW d \in Clients, req'[d].op = "save", req'[d].at = "rename"
          PROVE  temp'[req'[d].file] # Torn
      <4>1. CASE d = c  BY <2>2, <2>3, <4>1
      <4>2. CASE d # c
        <5>1. req'[d] = req[d]  BY <2>2, <4>2
        <5>2. PICK g \in Files : g = req[d].file
          BY <3>2, <5>1, RequestShapes DEF TypeOK, SaveRequest
        <5>3. g # f  BY <1>5, <2>4, <3>2, <4>2, <5>1, <5>2 DEF Saves
        <5>4. temp[g] # Torn  BY <2>4, <3>2, <5>1, <5>2 DEF FileInv
        <5> QED  BY <2>3, <5>1, <5>2, <5>3, <5>4
      <4> QED  BY <4>1, <4>2
    <3>3. FilesAreWhole'
      BY <1>3, <2>3, <2>4 DEF FileInv, FilesAreWhole
    <3> QED  BY <3>1, <3>2, <3>3 DEF FileInv
  <2> QED  BY <2>3, <2>4
<1>8. CASE Rename(c)
  <2>1. /\ req[c].at = "rename" /\ Ends(c)
        /\ \/ UNCHANGED <<disk, temp>>
           \/ /\ disk' = [disk EXCEPT ![f] = temp[f]]
              /\ temp' = [temp EXCEPT ![f] = Absent]
    BY <1>2, <1>8 DEF Rename, At
  <2>2. /\ \A d \in Clients \ {c} : req'[d] = req[d]
        /\ req'[c].op = "none"
    BY <2>1, EndsAreNoReq, NobodyAsks
  <2>3. CASE UNCHANGED <<disk, temp>>
    BY <2>2, <2>3, FilesAside
  <2>4. CASE /\ disk' = [disk EXCEPT ![f] = temp[f]]
             /\ temp' = [temp EXCEPT ![f] = Absent]
    <3>1. /\ disk' \in [Files -> Contents] /\ temp' \in [Files -> Contents]
          /\ disk'[f] = temp[f] /\ temp'[f] = Absent
          /\ \A g \in Files \ {f} : temp'[g] = temp[g] /\ disk'[g] = disk[g]
      BY <1>3, <1>4, <2>4
    <3>2. ASSUME OneEditor
          PROVE  FileInv'
      <4>1. temp[f] # Torn  BY <1>1, <1>2, <2>1, <3>2 DEF FileInv
      <4>2. FilesAreWhole'  BY <3>1, <3>2, <4>1 DEF FileInv, FilesAreWhole
      <4>3. \A g \in Files, b, d \in Clients : Saves(b, g)' /\ Saves(d, g)' => b = d
        BY <2>2, <3>2 DEF FileInv, Saves
      <4>4. ASSUME NEW d \in Clients, req'[d].op = "save", req'[d].at = "rename"
            PROVE  temp'[req'[d].file] # Torn
        <5>1. d # c /\ req'[d] = req[d]  BY <2>2, <4>4
        <5>2. PICK g \in Files : g = req[d].file
          BY <4>4, <5>1, RequestShapes DEF TypeOK, SaveRequest
        <5>3. g # f  BY <1>5, <3>2, <4>4, <5>1, <5>2 DEF Saves
        <5>4. temp[g] # Torn  BY <3>2, <4>4, <5>1, <5>2 DEF FileInv
        <5> QED  BY <3>1, <5>1, <5>2, <5>3, <5>4
      <4> QED  BY <4>2, <4>3, <4>4 DEF FileInv
    <3> QED  BY <3>1, <3>2
  <2> QED  BY <2>1, <2>3, <2>4
<1> QED  BY <1>6, <1>7, <1>8

LEMMA FilesNext ==
    ASSUME TypeOK, OneEditor => FileInv, [Next]_vars
    PROVE  /\ OneEditor => FileInv'
           /\ disk' \in [Files -> Contents] /\ temp' \in [Files -> Contents]
<1>1. CASE \/ Boot \/ OwnCheckpoint \/ UNCHANGED vars
           \/ \E a \in Authentic : Age(a)
  <2>1. UNCHANGED <<disk, temp, req>>
    BY <1>1 DEF Boot, Open, Migrate, Checkpoint, OwnCheckpoint, vars, Age
  <2> QED  BY <2>1, FilesAside
<1>2. CASE Crash
  <2>1. UNCHANGED <<disk, temp>> /\ req' = [c \in Clients |-> NoReq]
    BY <1>2 DEF Crash
  <2> QED  BY <2>1, NobodyAsks, FilesAside
<1>3. ASSUME NEW c \in Clients,
             \/ \E h \in Hashes : PostRun(c, h)
             \/ \E r \in 1 .. MaxRows : Deploy(c, r)
             \/ \E a \in Alerts : Send(c, a)
             \/ \E f \in Files, h \in Hashes, o \in BOOLEAN : PostSpec(c, f, h, o)
      PROVE  /\ OneEditor => FileInv'
             /\ disk' \in [Files -> Contents] /\ temp' \in [Files -> Contents]
  <2>1. PICK r \in Requests :
          /\ req' = [req EXCEPT ![c] = r]
          /\ r.op = "save" => r.at = "stat" /\ (OneEditor => ~Saving(r.file))
    BY <1>3, NewRequest
  <2>2. UNCHANGED <<disk, temp>>  BY <1>3, NewRequest
  <2>3. req'[c] = r /\ \A d \in Clients \ {c} : req'[d] = req[d]  BY <2>1, ReqSet
  <2>4. CASE r.op # "save"  BY <2>2, <2>3, <2>4, FilesAside
  <2>5. CASE r.op = "save"
    <3>1. ASSUME OneEditor
          PROVE  FileInv'
      <4>1. \A d \in Clients : ~(req[d].op = "save" /\ req[d].file = r.file)
        BY <2>1, <2>5, <3>1 DEF Saving
      <4> QED
        BY <2>1, <2>2, <2>3, <2>5, <3>1, <4>1 DEF FileInv, Saves, FilesAreWhole
    <3> QED  BY <2>2, <3>1 DEF TypeOK
  <2> QED  BY <2>4, <2>5
<1>4. ASSUME NEW c \in Clients,
             \/ ProbeSpec(c) \/ InsertSpec(c) \/ InsertRun(c) \/ InsertDeployment(c)
             \/ Resolve(c) \/ ProbeEvent(c) \/ InsertEvent(c) \/ Reread(c) \/ Stat(c)
      PROVE  /\ OneEditor => FileInv'
             /\ disk' \in [Files -> Contents] /\ temp' \in [Files -> Contents]
  <2>1. UNCHANGED <<disk, temp>>
    BY <1>4
    DEF ProbeSpec, InsertSpec, InsertRun, InsertDeployment, Resolve, ProbeEvent,
        InsertEvent, Reread, Stat
  <2>2. CASE Ends(c)  BY <2>1, <2>2, EndsAreNoReq, NobodyAsks, FilesAside
  <2>3. CASE Resolve(c) /\ ~Ends(c)
    <3>1. PICK r \in Requests : req' = [req EXCEPT ![c] = r] /\ r.op = "alert"
      BY <2>3, AlertResolved
    <3> QED  BY <2>1, <3>1, ReqSet, FilesAside
  <2>4. CASE ~Resolve(c) /\ ~Ends(c)
    <3>1. \E at : /\ Goes(c, at)
                  /\ \/ req[c].op = "run" /\ at \in {"row", "insert"}
                     \/ req[c].op = "alert" /\ req[c].at # "resolve" /\ at \in {"insert", "reread"}
                     \/ req[c].op = "save" /\ at = "open"
      BY <1>4, <2>4
      DEF ProbeSpec, InsertSpec, InsertRun, InsertDeployment, ProbeEvent, InsertEvent,
          Reread, Stat, At
    <3>2. PICK at : /\ Goes(c, at)
                    /\ \/ req[c].op = "run" /\ at \in {"row", "insert"}
                       \/ req[c].op = "alert" /\ req[c].at # "resolve" /\ at \in {"insert", "reread"}
                       \/ req[c].op = "save" /\ at = "open"
      BY <3>1
    <3>3. /\ \A d \in Clients \ {c} : req'[d] = req[d]
          /\ req'[c].op = req[c].op
          /\ req[c].op = "save" => req'[c].file = req[c].file /\ req'[c].at = "open"
      BY <3>2, GoesOn
    <3> QED  BY <2>1, <3>2, <3>3, FilesAside
  <2> QED  BY <2>2, <2>3, <2>4
<1> QED
  BY <1>1, <1>2, <1>3, <1>4, SaveStep DEF Next, Handle

-----------------------------------------------------------------------------
(* The theorems.                                                           *)

LEMMA ClockNext ==
    ASSUME TypeOK, [Next]_vars
    PROVE  clock' \in [Authentic -> {"future", "fresh", "stale"}]
<1>1. CASE \E a \in Authentic : Age(a)  BY <1>1 DEF Age, TypeOK
<1>2. CASE ~(\E a \in Authentic : Age(a))
  <2>1. clock' = clock
    BY <1>2
    DEF Next, Boot, Open, Migrate, Checkpoint, OwnCheckpoint, Crash, vars, Handle,
        ProbeSpec, InsertSpec, InsertRun, InsertDeployment, Resolve, ProbeEvent,
        InsertEvent, Reread, Stat, OpenTemp, FillTemp, Rename, PostRun, Deploy, Send,
        PostSpec
  <2> QED  BY <2>1 DEF TypeOK
<1> QED  BY <1>1, <1>2

LEMMA InductiveInit == Init => Inductive /\ InductiveFiles
<1> SUFFICES ASSUME Init PROVE Inductive /\ InductiveFiles  OBVIOUS
<1>1. /\ main \subseteq Names /\ wal = <<>> /\ DOMAIN wal = {} /\ wal \in Seq(Names)
      /\ phase = "down" /\ stmt = 1
  BY NamesOfSchema DEF Init
<1>2. /\ specs = {} /\ rows = <<>> /\ deployments = <<>> /\ events = <<>>
      /\ DOMAIN rows = {} /\ DOMAIN deployments = {} /\ DOMAIN events = {}
      /\ rows \in Seq(Hashes) /\ deployments \in Seq(Hashes)
      /\ events \in Seq([key : Keys, ok : BOOLEAN])
      /\ answers = {} /\ crashes = 0
  BY DEF Init
<1>3. \A c \in Clients : req[c] = NoReq /\ req[c].op = "none"
  BY NobodyAsks DEF Init
<1>4. req \in [Clients -> Requests]  BY NobodyAsks DEF Init
<1>5. /\ disk \in [Files -> Contents] /\ temp \in [Files -> Contents]
      /\ \A f \in Files : disk[f] # Torn
      /\ clock \in [Authentic -> {"future", "fresh", "stale"}]
  BY DEF Init, Contents, Absent, Torn
<1>6. TypeOK  BY <1>1, <1>2, <1>4, <1>5, BoundsAssumption DEF TypeOK
<1>7. SchemaInv
  BY <1>1 DEF SchemaInv, Replays, MigrationProgress, SchemaIsUsable
<1>8. RunExists /\ SpecsAreStored
  BY <1>2, <1>3 DEF RunExists, SpecsAreStored
<1>9. SignalInv
  BY <1>2, <1>3
  DEF SignalInv, KeyIsOwn, FailuresAreMarked, NewsIsOwn, Rereads, AnswersExist,
      SignalIsOneEvent
<1>10. FileInv
  BY <1>3, <1>5 DEF FileInv, Saves, FilesAreWhole
<1> QED  BY <1>6, <1>7, <1>8, <1>9, <1>10 DEF Inductive, InductiveFiles

LEMMA InductiveNext ==
    ASSUME Inductive, InductiveFiles, [Next]_vars
    PROVE  Inductive' /\ InductiveFiles'
<1> USE DEF Inductive
<1>1. OneEditor => FileInv  BY DEF InductiveFiles
<1>2. /\ OneEditor => FileInv'
      /\ disk' \in [Files -> Contents] /\ temp' \in [Files -> Contents]
  BY <1>1, FilesNext
<1>3. TypeOK'
  BY <1>2, SchemaNext, SignalNext, RowsNext, ClockNext DEF TypeOK
<1> QED
  BY <1>2, <1>3, SchemaNext, SignalNext, RowsNext DEF InductiveFiles

LEMMA InductiveHolds == Spec => [](Inductive /\ InductiveFiles)
  BY InductiveInit, InductiveNext, PTL DEF Spec

\* However often TradingView repeats an alert, however the handlers of the
\* copies interleave and wherever the process dies: the inbox holds the signal
\* once, every acknowledgement names it, and one at most calls it new.
THEOREM SignalIsOneEventHolds == Spec => []SignalIsOneEvent
<1>1. Inductive => SignalIsOneEvent  BY DEF Inductive, SignalInv
<1> QED  BY <1>1, InductiveHolds, PTL

\* Whatever release wrote the database file and wherever the process dies, the
\* log can be replayed and requests meet the whole schema; and with one editor
\* no spec file is left half written.
THEOREM CrashesAreSurvivedHolds ==
    ASSUME OneEditor
    PROVE  Spec => []CrashesAreSurvived
<1>1. Inductive /\ InductiveFiles => CrashesAreSurvived
  BY DEF Inductive, SchemaInv, InductiveFiles, FileInv, CrashesAreSurvived
<1> QED  BY <1>1, InductiveHolds, PTL

\* Every stored run and every deployment finds the spec whose hash it carries,
\* although upsertSpec and the INSERT of the run are separate statements.
THEOREM SpecsAreStoredHolds == Spec => []SpecsAreStored
<1>1. Inductive => SpecsAreStored  BY DEF Inductive
<1> QED  BY <1>1, InductiveHolds, PTL
=============================================================================
