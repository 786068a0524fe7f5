----------------------------- MODULE StoresInv -----------------------------
(***************************************************************************)
(* The inductive invariant of the stores.  SignalIsOneEvent is about events*)
(* and answers alone; it holds because of what the requests in between know*)
(* of them, and CrashesAreSurvived because of what the log and the temporary*)
(* files are like in between.                                              *)
(***************************************************************************)
EXTENDS Stores

Keys == {KeyOf[a] : a \in Authentic} \cup {AuthFail}
Contents == Hashes \cup {Absent, Torn}

RunRequest == [op : {"run"}, at : {"probe", "insert", "row"}, hash : Hashes]
DeployRequest == [op : {"deploy"}, at : {"insert"}, run : 1 .. MaxRows]
NewAlert == [op : {"alert"}, at : {"resolve"}, alert : Alerts]
KnownAlert == [op : {"alert"}, at : {"probe", "insert", "reread"},
               alert : Alerts, key : Keys]
SaveRequest == [op : {"save"}, at : {"stat", "open", "fill", "rename"},
                file : Files, content : Hashes, overwrite : BOOLEAN]
Requests == {NoReq} \cup RunRequest \cup DeployRequest \cup NewAlert
                    \cup KnownAlert \cup SaveRequest

TypeOK ==
    /\ phase \in {"down", "migrate", "up", "dead"}
    /\ stmt \in Nat
    /\ main \subseteq Names
    /\ wal \in Seq(Names)
    /\ specs \subseteq Hashes
    /\ rows \in Seq(Hashes)
    /\ deployments \in Seq(Hashes)
    /\ events \in Seq([key : Keys, ok : BOOLEAN])
    /\ disk \in [Files -> Contents]
    /\ temp \in [Files -> Contents]
    /\ req \in [Clients -> Requests]
    /\ clock \in [Authentic -> {"future", "fresh", "stale"}]
    /\ answers \subseteq [alert : Authentic, id : Nat, deduped : BOOLEAN]
    /\ crashes \in 0 .. MaxCrashes

----------------------------------------------------------------------------
(* The schema.                                                             *)

\* The migration has got as far as its statement counter says.
MigrationProgress ==
    phase = "migrate" =>
        /\ stmt \in 1 .. (Len(Schema) + 1)
        /\ \A i \in 1 .. (stmt - 1) : Schema[i].name \in Catalog

\* Whenever the process dies, the log can be replayed.
SchemaInv == Replays /\ MigrationProgress /\ SchemaIsUsable

----------------------------------------------------------------------------
(* Requests about rows.                                                    *)

\* A deployment is made of a run that exists, and a run refers to a spec that
\* is stored.
RunExists == \A c \in Clients :
    /\ req[c].op = "deploy" => req[c].run \in DOMAIN rows
    /\ req[c].op = "run" /\ req[c].at = "row" => req[c].hash \in specs

\* Invariant.  Every run and every deployment finds the spec of its hash.
SpecsAreStored ==
    /\ \A i \in DOMAIN rows : rows[i] \in specs
    /\ \A i \in DOMAIN deployments : deployments[i] \in specs

----------------------------------------------------------------------------
(* Signals.                                                                *)

Rereads(c) == req[c].op = "alert" /\ req[c].at = "reread"

\* What a request knows of its alert after it was resolved.
KeyIsOwn == \A c \in Clients :
    (req[c].op = "alert" /\ req[c].at # "resolve") =>
        req[c].key = IF req[c].alert \in Authentic THEN KeyOf[req[c].alert] ELSE AuthFail

FailuresAreMarked == \A i \in DOMAIN events : events[i].ok <=> events[i].key # AuthFail

\* The request that is about to answer that its signal is new has stored it,
\* and neither another request nor an answer says so already.
NewsIsOwn == \A c \in Clients : Rereads(c) =>
    /\ EventWith(req[c].key) # {}
    /\ \A d \in Clients \ {c} : Rereads(d) => req[d].key # req[c].key
    /\ \A r \in answers : ~r.deduped => events[r.id].key # req[c].key

AnswersExist == \A r \in answers : r.id \in DOMAIN events

SignalInv == /\ KeyIsOwn /\ FailuresAreMarked /\ NewsIsOwn /\ AnswersExist
             /\ SignalIsOneEvent

----------------------------------------------------------------------------
(* Spec files, when no two saves of one file overlap.                      *)

Saves(c, f) == req[c].op = "save" /\ req[c].file = f

\* The temporary file is torn only while it is being filled, and then no other
\* request can rename it.
FileInv ==
    /\ \A f \in Files, c, d \in Clients : Saves(c, f) /\ Saves(d, f) => c = d
    /\ \A c \in Clients : req[c].op = "save" /\ req[c].at = "rename"
                              => temp[req[c].file] # Torn
    /\ FilesAreWhole

\* Invariants.  Everything SignalIsOneEvent and CrashesAreSurvived rest on.
Inductive == TypeOK /\ SchemaInv /\ RunExists /\ SpecsAreStored /\ SignalInv

InductiveFiles == OneEditor => FileInv
=============================================================================
