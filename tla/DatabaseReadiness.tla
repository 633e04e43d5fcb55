------------------------- MODULE DatabaseReadiness -------------------------
(***************************************************************************)
(* What one poll of the database makes of what it finds: the identity of   *)
(* the Windows service and of its listener, then the probe, a process that *)
(* connects and asks the server what it is.  Only what may pass by waiting *)
(* is "transient"; whatever shows another server is "permanent".           *)
(***************************************************************************)
EXTENDS Naturals

CONSTANT MinimumMigration   \* MINIMUM_COMPATIBLE_PRODUCTION_MIGRATION

ASSUME ReadinessAssumption == MinimumMigration \in Nat \ {0}

(* The service, and who listens on its port.  "borrowed" is a service that *)
(* runs under another program; a port is "exposed" beyond the loopback,    *)
(* "shared" between processes, "foreign" to the service, or its own.       *)
Hosts ==
    [service : {"unreadable", "missing", "foreign", "manual_start", "borrowed", "stopped", "running"},
     port    : {"unreadable", "closed", "exposed", "shared", "foreign", "owned"}]

(* A port nobody listens on may open yet, whether the service runs or not; *)
(* one that is open while the service is stopped is another server's.      *)
ServiceIdentity(host) ==
    IF host.service \notin {"stopped", "running"} \/ host.port = "unreadable" THEN "permanent"
    ELSE IF host.port = "closed" THEN "transient"
    ELSE IF host.service = "running" /\ host.port = "owned" THEN "ready"
    ELSE "permanent"

(* What the settings name, how the connection and the query go, and what   *)
(* the one row of the query says.  Without a table of migrations, or with  *)
(* none in it, the row has no number: NoMigration.                         *)
NoMigration == 0

Servers ==
    [settings   : {"expected", "other"},
     connection : {"made", "unavailable", "rejected"},
     query      : {"row", "unavailable", "rejected"},
     production : BOOLEAN,      \* the database, its port, and not a replica
     writable   : BOOLEAN,      \* the transaction and the server's default
     migration  : {NoMigration, MinimumMigration - 1, MinimumMigration, MinimumMigration + 1},
     required   : BOOLEAN]      \* the minimum itself is applied

Unavailable(server) ==
    /\ server.settings = "expected"
    /\ \/ server.connection = "unavailable"
       \/ server.connection = "made" /\ server.query = "unavailable"

(* A newer schema is compatible, but only with the minimum in it.          *)
Compatible(server) == server.migration >= MinimumMigration /\ server.required

IsProduction(server) ==
    /\ server.settings = "expected" /\ server.connection = "made" /\ server.query = "row"
    /\ server.production /\ server.writable /\ Compatible(server)

ProbeExit(server) ==
    IF IsProduction(server) THEN 0 ELSE IF Unavailable(server) THEN 10 ELSE 20

(* The probe is a process of its own, and may end in another way: 1.       *)
DatabaseProbe(code) == IF code = 0 THEN "ready" ELSE IF code = 10 THEN "transient" ELSE "permanent"

(* The probe is only run when the service is the one that is expected.     *)
Poll(host, code) ==
    IF ServiceIdentity(host) = "ready" THEN DatabaseProbe(code) ELSE ServiceIdentity(host)

Findings == {Poll(host, code) : host \in Hosts, code \in {ProbeExit(s) : s \in Servers} \cup {1}}
=============================================================================
