------------------------------- MODULE Stores -------------------------------
(***************************************************************************)
(* The small stores behind the HTTP routes: the schema migration of        *)
(* db/connection.js, the content-addressed specs table of db/specs.js, the *)
(* deployments and the webhook inbox of db/deployments.js, and the spec    *)
(* files under strategies/.  Each client has at most one request at the    *)
(* server; a request advances by one awaited statement per step, so the    *)
(* statements of different requests interleave.  A crash loses the         *)
(* requests and keeps what the database and the disk hold.                 *)
(*                                                                         *)
(* DuckDB, the file system and TradingView, which repeats an alert until   *)
(* it is acknowledged, are external.                                       *)
(***************************************************************************)
EXTENDS Naturals, Sequences, FiniteSets

CONSTANTS
    Schema,      \* sequence of statements [alter, name] of db/schema.sql
    Hashes,      \* contents of specs; equal content has an equal hash
    Files,       \* names of spec files under strategies/
    Clients,     \* the senders of requests
    Alerts,      \* alerts TradingView sends
    KeyOf,       \* [Alerts -> bar time, action and direction of the alert]
    Authentic,   \* alerts sent with the secret of their deployment
    Ops,         \* [Clients -> operations the client uses]
    OneEditor,   \* TRUE: two saves of one file never overlap
    MaxCrashes, MaxRows

\* The statements of schema.sql, in order.
ASSUME SchemaAssumption == Schema \in Seq([alter : BOOLEAN, name : STRING])
ASSUME AlertsAssumption == Authentic \subseteq Alerts
ASSUME BoundsAssumption == MaxCrashes \in Nat /\ MaxRows \in Nat
ASSUME EditorAssumption == OneEditor \in BOOLEAN

VARIABLES
    phase,       \* of the process: "down", "migrate", "up", "dead"
    stmt,        \* next statement of the migration
    main,        \* catalog stored in the database file
    wal,         \* catalog statements logged since the last checkpoint
    specs,       \* the specs table: set of hashes (PRIMARY KEY)
    rows,        \* the runs table, reduced to spec_hash: sequence
    deployments, \* the deployments table, reduced to spec_hash: sequence
    events,      \* the webhook_events table: sequence of [key, ok]
    disk,        \* strategies/*.json: [Files -> content or Absent]
    temp,        \* strategies/*.json.tmp
    req,         \* [Clients -> the request of the client]
    clock,       \* [Authentic -> "future", "fresh" or "stale"]
    answers,     \* answers with status 200 to alerts: set of [alert, id, deduped]
    crashes

vars == <<phase, stmt, main, wal, specs, rows, deployments, events, disk,
          temp, req, clock, answers, crashes>>

database == <<specs, rows, deployments, events>>
server == <<phase, stmt, main, wal, crashes>>

Absent == "absent"    \* no such file
Torn == "torn"        \* a file whose content is not all written
AuthFail == "auth_fail"   \* dedup key of a failed attempt (within one minute)

\* The key of a failed attempt carries an action, auth_fail, that no generated
\* strategy sends; and no content of a spec is the absence of one.
ASSUME KeysAssumption == \A a \in Alerts : KeyOf[a] # AuthFail
ASSUME ContentAssumption == {Absent, Torn} \cap Hashes = {}

NoReq == [op |-> "none", at |-> "idle"]
Names == {Schema[i].name : i \in DOMAIN Schema}

Catalog == main \cup {wal[i] : i \in DOMAIN wal}

Init == /\ phase = "down" /\ stmt = 1
        /\ \E n \in 0 .. Len(Schema) : main = {Schema[i].name : i \in 1 .. n}
        /\ wal = <<>>
        /\ specs = {} /\ rows = <<>> /\ deployments = <<>> /\ events = <<>>
        /\ disk = [f \in Files |-> Absent] /\ temp = [f \in Files |-> Absent]
        /\ req = [c \in Clients |-> NoReq]
        /\ clock \in [Authentic -> {"future", "fresh"}]
        /\ answers = {} /\ crashes = 0

----------------------------------------------------------------------------
(* getConn: awaited by server.js before it listens.                        *)

(* Opening the file replays the log.  DuckDB fails on an ALTER whose       *)
(* column the file has already.                                            *)
Replays == \A i \in DOMAIN wal :
              /\ wal[i] \notin main
              /\ \A j \in DOMAIN wal : wal[i] = wal[j] => i = j

Open == /\ phase = "down"
        /\ phase' = IF Replays THEN "migrate" ELSE "dead"
        /\ stmt' = 1
        /\ UNCHANGED <<main, wal, crashes, database, disk, temp, req, clock, answers>>

(* Mutant of Skips: trusts IF NOT EXISTS. *)
SkipsCreateOnly(s) == ~s.alter /\ s.name \in Catalog

(* A statement of the schema that changes nothing is not logged, except    *)
(* for an ALTER, which the code therefore does not execute at all.         *)
Skips(s) == s.name \in Catalog

Migrate == /\ phase = "migrate" /\ stmt <= Len(Schema)
           /\ stmt' = stmt + 1
           /\ wal' = IF Skips(Schema[stmt]) THEN wal
                     ELSE Append(wal, Schema[stmt].name)
           /\ UNCHANGED <<phase, main, crashes, database, disk, temp, req, clock, answers>>

Flush == main' = Catalog /\ wal' = <<>>

Checkpoint == /\ phase = "migrate" /\ stmt > Len(Schema)
              /\ phase' = "up" /\ Flush
              /\ UNCHANGED <<stmt, crashes, database, disk, temp, req, clock, answers>>

(* DuckDB checkpoints on its own when the log grows. *)
OwnCheckpoint == /\ phase \in {"migrate", "up"} /\ wal # <<>> /\ Flush
                 /\ UNCHANGED <<phase, stmt, crashes, database, disk, temp, req, clock, answers>>

Crash == /\ phase \in {"migrate", "up"} /\ crashes < MaxCrashes
         /\ phase' = "down" /\ crashes' = crashes + 1
         /\ req' = [c \in Clients |-> NoReq]
         /\ UNCHANGED <<stmt, main, wal, database, disk, temp, clock, answers>>

----------------------------------------------------------------------------
(* Requests.  At(c, op, at) says where the request of a client stands.     *)

At(c, op, at) == phase = "up" /\ req[c].op = op /\ req[c].at = at
Goes(c, at) == req' = [req EXCEPT ![c].at = at]
Ends(c) == req' = [req EXCEPT ![c] = NoReq]
Arrives(c, op, r) == /\ op \in Ops[c] /\ phase = "up" /\ req[c] = NoReq
                     /\ req' = [req EXCEPT ![c] = r]

(* POST /api/runs with a spec: upsertSpec probes and inserts, then the run *)
(* is inserted with the hash.                                              *)
PostRun(c, h) == /\ Len(rows) < MaxRows
                 /\ Arrives(c, "run", [op |-> "run", at |-> "probe", hash |-> h])
                 /\ UNCHANGED <<server, database, disk, temp, clock, answers>>

ProbeSpec(c) == /\ At(c, "run", "probe")
                /\ Goes(c, IF req[c].hash \in specs THEN "row" ELSE "insert")
                /\ UNCHANGED <<server, database, disk, temp, clock, answers>>

(* The primary key rejects the spec a concurrent request has just stored:  *)
(* the route answers 400.                                                  *)
InsertSpec(c) == /\ At(c, "run", "insert")
                 /\ IF req[c].hash \in specs
                    THEN Ends(c) /\ UNCHANGED specs
                    ELSE Goes(c, "row") /\ specs' = specs \cup {req[c].hash}
                 /\ UNCHANGED <<server, rows, deployments, events, disk, temp, clock, answers>>

InsertRun(c) == /\ At(c, "run", "row")
                /\ rows' = Append(rows, req[c].hash)
                /\ Ends(c)
                /\ UNCHANGED <<server, specs, deployments, events, disk, temp, clock, answers>>

(* POST /api/deployments of a run that has a spec and a best gene.  The    *)
(* new row is read again by its secret, which no other row has.            *)
Deploy(c, run) == /\ run \in DOMAIN rows /\ deployments = <<>>
                  /\ Arrives(c, "deploy", [op |-> "deploy", at |-> "insert", run |-> run])
                  /\ UNCHANGED <<server, database, disk, temp, clock, answers>>

InsertDeployment(c) == /\ At(c, "deploy", "insert")
                       /\ deployments' = Append(deployments, rows[req[c].run])
                       /\ Ends(c)
                       /\ UNCHANGED <<server, specs, rows, events, disk, temp, clock, answers>>

----------------------------------------------------------------------------
(* POST /webhook/:deployment_id/:secret.                                   *)

Acknowledged(a) == \E r \in answers : r.alert = a
InFlight(a) == \E c \in Clients : req[c].op = "alert" /\ req[c].alert = a

(* TradingView sends the alert, and again while it has no answer. *)
Send(c, a) == /\ deployments # <<>> /\ ~Acknowledged(a) /\ ~InFlight(a)
              /\ Arrives(c, "alert", [op |-> "alert", at |-> "resolve", alert |-> a])
              /\ UNCHANGED <<server, database, disk, temp, clock, answers>>

(* The deployment is read, the secret compared and the payload checked:    *)
(* the request is recorded, recorded as a failed attempt, or answered 400. *)
Resolve(c) == /\ At(c, "alert", "resolve")
              /\ LET a == req[c].alert
                 IN IF a \notin Authentic \/ clock[a] = "fresh"
                    THEN req' = [req EXCEPT ![c] =
                           [op |-> "alert", at |-> "probe", alert |-> a,
                            key |-> IF a \in Authentic THEN KeyOf[a] ELSE AuthFail]]
                    ELSE Ends(c)
              /\ UNCHANGED <<server, database, disk, temp, clock, answers>>

EventWith(key) == {i \in DOMAIN events : events[i].key = key}

(* The answer of recordWebhookEvent; a failed attempt is answered 401. *)
Answered(c, id, deduped) ==
    answers' = IF req[c].key = AuthFail THEN answers
               ELSE answers \cup {[alert |-> req[c].alert, id |-> id, deduped |-> deduped]}

(* Mutant of ProbeEvent: relies on the unique index alone. *)
NoProbe(c) == /\ At(c, "alert", "probe") /\ Goes(c, "insert")
              /\ UNCHANGED <<server, database, disk, temp, clock, answers>>

ProbeEvent(c) == /\ At(c, "alert", "probe")
                 /\ LET found == EventWith(req[c].key)
                    IN \/ /\ found = {} /\ Goes(c, "insert") /\ UNCHANGED answers
                       \/ \E i \in found : Answered(c, i, TRUE) /\ Ends(c)
                 /\ UNCHANGED <<server, database, disk, temp, clock>>

(* Mutant of InsertEvent: the table has no UNIQUE constraint. *)
InsertEventTwice(c) == /\ At(c, "alert", "insert")
                       /\ events' = Append(events, [key |-> req[c].key,
                                                    ok |-> req[c].alert \in Authentic])
                       /\ Goes(c, "reread")
                       /\ UNCHANGED <<server, specs, rows, deployments, disk, temp, clock, answers>>

(* UNIQUE(deployment_id, dedup_key) rejects the second of two copies that  *)
(* passed the probe together; the route answers 500.                       *)
InsertEvent(c) == /\ At(c, "alert", "insert")
                  /\ IF EventWith(req[c].key) # {}
                     THEN Ends(c) /\ UNCHANGED events
                     ELSE /\ events' = Append(events, [key |-> req[c].key,
                                                       ok |-> req[c].alert \in Authentic])
                          /\ Goes(c, "reread")
                  /\ UNCHANGED <<server, specs, rows, deployments, disk, temp, clock, answers>>

Reread(c) == /\ At(c, "alert", "reread")
             /\ \E i \in EventWith(req[c].key) : Answered(c, i, FALSE)
             /\ Ends(c)
             /\ UNCHANGED <<server, database, disk, temp, clock>>

(* Time passes: the payload becomes acceptable, then too old. *)
Age(a) == /\ clock[a] # "stale"
          /\ clock' = [clock EXCEPT ![a] = IF @ = "future" THEN "fresh" ELSE "stale"]
          /\ UNCHANGED <<server, database, disk, temp, req, answers>>

----------------------------------------------------------------------------
(* POST /api/specs: stat, then write f.tmp, then rename it to f.           *)

Saving(f) == \E c \in Clients : req[c].op = "save" /\ req[c].file = f

PostSpec(c, f, h, over) ==
    /\ OneEditor => ~Saving(f)
    /\ Arrives(c, "save", [op |-> "save", at |-> "stat", file |-> f,
                           content |-> h, overwrite |-> over])
    /\ UNCHANGED <<server, database, disk, temp, clock, answers>>

Stat(c) == /\ At(c, "save", "stat")
           /\ IF disk[req[c].file] # Absent /\ ~req[c].overwrite
              THEN Ends(c)      \* 409
              ELSE Goes(c, "open")
           /\ UNCHANGED <<server, database, disk, temp, clock, answers>>

(* writeFile creates or truncates the file, then fills it. *)
OpenTemp(c) == /\ At(c, "save", "open")
               /\ temp' = [temp EXCEPT ![req[c].file] = Torn]
               /\ Goes(c, "fill")
               /\ UNCHANGED <<server, database, disk, clock, answers>>

(* If another save renamed the file meanwhile, its bytes go to the target. *)
FillTemp(c) == /\ At(c, "save", "fill")
               /\ LET f == req[c].file
                  IN IF temp[f] # Absent
                     THEN temp' = [temp EXCEPT ![f] = req[c].content] /\ UNCHANGED disk
                     ELSE disk' = [disk EXCEPT ![f] = req[c].content] /\ UNCHANGED temp
               /\ Goes(c, "rename")
               /\ UNCHANGED <<server, database, clock, answers>>

Rename(c) == /\ At(c, "save", "rename")
             /\ LET f == req[c].file
                IN IF temp[f] = Absent THEN UNCHANGED <<disk, temp>>   \* 500
                   ELSE /\ disk' = [disk EXCEPT ![f] = temp[f]]
                        /\ temp' = [temp EXCEPT ![f] = Absent]
             /\ Ends(c)
             /\ UNCHANGED <<server, database, clock, answers>>

----------------------------------------------------------------------------
Boot == Open \/ Migrate \/ Checkpoint

Handle(c) == \/ ProbeSpec(c) \/ InsertSpec(c) \/ InsertRun(c)
             \/ InsertDeployment(c)
             \/ Resolve(c) \/ ProbeEvent(c) \/ InsertEvent(c) \/ Reread(c)
             \/ Stat(c) \/ OpenTemp(c) \/ FillTemp(c) \/ Rename(c)

Next == \/ Boot \/ OwnCheckpoint \/ Crash
        \/ \E a \in Authentic : Age(a)
        \/ \E c \in Clients :
              \/ Handle(c)
              \/ \E h \in Hashes : PostRun(c, h)
              \/ \E r \in 1 .. MaxRows : Deploy(c, r)
              \/ \E a \in Alerts : Send(c, a)
              \/ \E f \in Files, h \in Hashes, o \in BOOLEAN : PostSpec(c, f, h, o)

Spec == Init /\ [][Next]_vars

(* The process is restarted, every handler goes on, and TradingView        *)
(* repeats an alert it has no answer to.                                   *)
FairSpec == /\ Spec /\ WF_vars(Boot)
            /\ \A c \in Clients : WF_vars(Handle(c))
            /\ \A a \in Alerts : SF_vars(\E c \in Clients : Send(c, a))

----------------------------------------------------------------------------
(* getConn, connection.js:62-75: whatever release wrote the file and       *)
(* wherever the process died, the database can be opened again, and a      *)
(* request is only served over the whole schema.                           *)
SchemaIsUsable == /\ phase # "dead"
                  /\ phase = "up" => Catalog = Names

(* recordWebhookEvent: however often a signal arrives, it is one event,    *)
(* every acknowledgement names that event, and only one of them, if any,   *)
(* says that the signal is new.                                            *)
SignalIsOneEvent ==
    /\ \A i, j \in DOMAIN events : events[i].key = events[j].key => i = j
    /\ \A r \in answers : events[r.id] = [key |-> KeyOf[r.alert], ok |-> TRUE]
    /\ \A r, s \in answers : (r.id = s.id /\ ~r.deduped /\ ~s.deduped) => r = s

(* The 200 with deduped of the route: an authentic alert that is repeated  *)
(* until it is answered is acknowledged, unless it is too old by then;     *)
(* also if the first answer got lost in a crash or a copy overtook it.     *)
AlertSettles ==
    \A a \in Authentic :
        (InFlight(a) /\ clock[a] = "fresh") ~> (Acknowledged(a) \/ clock[a] = "stale")

(* POST /api/specs, routes.js:1155-1157: an interrupted save never leaves  *)
(* half a spec under strategies/.                                          *)
FilesAreWhole == \A f \in Files : disk[f] # Torn

(* Whatever a crash interrupts, the database opens with its whole schema   *)
(* and no spec file is half written.                                       *)
CrashesAreSurvived == SchemaIsUsable /\ FilesAreWhole
=============================================================================
