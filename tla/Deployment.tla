----------------------------- MODULE Deployment -----------------------------
(***************************************************************************)
(* From a topology file to serving gateways: deploy-all.sh splits the      *)
(* topology, deploys and starts TiDB with tiup, renders a configuration    *)
(* and a systemd unit for each timongo host and copies them there; systemd *)
(* starts the gateways and starts them again whenever they exit.  The      *)
(* operator runs the scripts again, with another topology or after a       *)
(* failure, while gateways are running.                                    *)
(***************************************************************************)
EXTENDS Naturals, Sequences, FiniteSets, SequencesExt, Functions

CONSTANTS Hosts,        \* hosts gateways run on
          Topologies,   \* topology files the operator may deploy
          SshUser,      \* the user the scripts copy files as, who owns them
          MaxRuns,      \* bound: runs of the scripts
          MaxFaults     \* bound: commands that fail, gateways that exit, TiDB outages

ASSUME BoundAssumption == MaxRuns \in Nat /\ MaxFaults \in Nat

VARIABLES script,       \* the deploy scripts: the step they are at, and their data
          cluster,      \* the TiDB cluster: absent, deployed, running or stopped
          tidbs,        \* the addresses of its TiDB servers
          database,     \* does the database _timongo exist?
          binaries,     \* host -> deploy directory -> is the binary whole or cut?
          files,        \* host -> deploy directory -> timongo.toml
          units,        \* host -> timongo.service, or NoUnit
          process,      \* host -> the process systemd runs there
          runs, faults

vars == <<script, cluster, tidbs, database, binaries, files, units, process, runs, faults>>
hostVars == <<binaries, files, units, process>>

NoUnit == [user |-> "", dir |-> <<>>, enabled |-> FALSE]
Off == [at |-> "off", user |-> "", dir |-> <<>>, settings |-> <<>>]

-----------------------------------------------------------------------------
(* Topologies.  A topology maps section names to their contents; a server  *)
(* of timongo_servers lacks the fields the file does not give.             *)

TimongoSections == {"timongo_servers", "timongo_lb_servers"}
ClusterSections == {"global", "tidb_servers"}

SplitTopology(topology) ==
  [tidb    |-> Restrict(topology, DOMAIN topology \ TimongoSections),
   timongo |-> Restrict(topology, DOMAIN topology \cap (TimongoSections \union {"global"}))]

TiDBServers(topology) == SplitTopology(topology).tidb.tidb_servers

Required == {"host", "port", "status_port", "tidb_host", "tidb_port"}

Servers(topology) ==
  IF "timongo_servers" \in DOMAIN topology THEN topology.timongo_servers ELSE <<>>

\* timongo_servers is a list, and gateways are deployed to Hosts.
ASSUME HostsAssumption ==
  /\ IsFiniteSet(Hosts)
  /\ \A topology \in Topologies :
       /\ Servers(topology) \in Seq(Range(Servers(topology)))
       /\ \A i \in DOMAIN Servers(topology) : Servers(topology)[i].host \in Hosts

\* ParseTopology returns no error.
Parses(topology) == \A i \in DOMAIN Servers(topology) : Required \subseteq DOMAIN Servers(topology)[i]

User(topology) == IF "global" \in DOMAIN topology THEN topology.global ELSE "tidb"

\* normalizeServerDefaults: the directory named after the port, unless one is given.
DeployDir(server) ==
  IF "deploy_dir" \in DOMAIN server THEN server.deploy_dir ELSE <<"timongo", server.port>>

\* timongo.toml.tmpl: the keys in the order in which they are written.
ConfigKeys == <<"listen", "status", "host", "port", "database">>

ConfigOf(server) == [listen |-> server.port, status |-> server.status_port,
                     host |-> server.tidb_host, port |-> server.tidb_port,
                     database |-> "_timongo"]

\* A faulty variant: every host is given the first server's configuration.
RenderedFromFirst(topology) ==
  LET servers == Servers(topology)
  IN [host \in {servers[i].host : i \in DOMAIN servers} |->
        [config |-> ConfigOf(servers[1]), dir |-> DeployDir(servers[1]), user |-> User(topology)]]

\* One entry for each host: of several servers on a host the last is kept.
Rendered(topology) ==
  LET servers == Servers(topology)
      Kept(host) == CHOOSE i \in DOMAIN servers :
                      servers[i].host = host /\ \A j \in DOMAIN servers : servers[j].host = host => j <= i
  IN [host \in {servers[i].host : i \in DOMAIN servers} |->
        LET server == servers[Kept(host)]
        IN [config |-> ConfigOf(server), dir |-> DeployDir(server), user |-> User(topology)]]

-----------------------------------------------------------------------------
(* Configuration of a process.                                             *)

\* A file of which only the first n keys were written.
Prefix(config, n) == Restrict(config, {ConfigKeys[i] : i \in 1..n})

\* The ports that are written with the first digits of this one only.
FirstDigits(port) == {port \div 10, port \div 100, port \div 1000, port \div 10000} \ {0}

\* What a copy leaves that is cut: the first keys, the last of which may be part of a
\* number.  A file cut within a string does not parse, as one that has no port.
Cut(config) ==
  {Prefix(config, n) : n \in 0..Len(ConfigKeys)}
    \union {[Prefix(config, 4) EXCEPT !.port = port] : port \in FirstDigits(config.port)}

DefaultListen == 27017
DefaultStatus == 28017

\* LoadFile and buildTiDBDSN return a DSN that buildStore accepts.
Loads(file) == {"host", "port"} \subseteq DOMAIN file

LoadFile(file) ==
  [listen   |-> IF "listen" \in DOMAIN file THEN file.listen ELSE DefaultListen,
   status   |-> IF "status" \in DOMAIN file THEN file.status ELSE DefaultStatus,
   tidb     |-> <<file.host, file.port>>,
   database |-> IF "database" \in DOMAIN file THEN file.database ELSE "_timongo"]

-----------------------------------------------------------------------------
(* The scripts.                                                            *)

Finished == {"idle", "done", "failed"}
Copying == {"mkdir", "binary", "config", "install", "enable"}

Init == /\ script = [at |-> "idle", topology |-> <<>>, host |-> "", left |-> <<>>]
        /\ cluster = "absent" /\ tidbs = {} /\ database = FALSE
        /\ binaries = [h \in Hosts |-> <<>>] /\ files = [h \in Hosts |-> <<>>]
        /\ units = [h \in Hosts |-> NoUnit] /\ process = [h \in Hosts |-> Off]
        /\ runs = 0 /\ faults = 0

At(step) == script' = [script EXCEPT !.at = step]
Fails == At("failed")

\* A faulty variant: the line that was read is not taken for the host.
ReadLine(left) ==
  script' = IF left = <<>> THEN [script EXCEPT !.at = "done", !.left = <<>>]
            ELSE [script EXCEPT !.at = "mkdir", !.left = Tail(left)]

\* while read: the next host of hosts.tsv, or the end of the loop.
ReadHost(left) ==
  script' = IF left = <<>> THEN [script EXCEPT !.at = "done", !.left = <<>>]
            ELSE [script EXCEPT !.at = "mkdir", !.host = Head(left), !.left = Tail(left)]

\* ssh has the loop's input as its own and, without -n, reads what is left of it.
AfterSsh(left) == {left, <<>>}

\* The operator runs deploy-all.sh or, on its own, deploy-timongo.sh.
RunScript(topology) ==
  /\ script.at \in Finished /\ runs < MaxRuns /\ runs' = runs + 1
  /\ \E first \in {"split", "render"} :
       script' = [at |-> first, topology |-> topology, host |-> "", left |-> <<>>]
  /\ UNCHANGED <<cluster, tidbs, database, hostVars, faults>>

\* deploy-tidb-cluster.sh: tiup refuses sections it does not know and a name in use.
DeployCluster ==
  /\ script.at = "split"
  /\ IF DOMAIN SplitTopology(script.topology).tidb \subseteq ClusterSections /\ cluster = "absent"
     THEN cluster' = "deployed" /\ tidbs' = TiDBServers(script.topology) /\ At("start")
     ELSE Fails /\ UNCHANGED <<cluster, tidbs>>
  /\ UNCHANGED <<database, hostVars, runs, faults>>

\* tiup cluster start
StartCluster ==
  /\ script.at = "start" /\ cluster' = "running" /\ At("render")
  /\ UNCHANGED <<tidbs, database, hostVars, runs, faults>>

\* tiup render-timongo; the order of hosts.tsv is that of a Go map.
RenderTimongo ==
  /\ script.at = "render"
  /\ IF Parses(script.topology)
     THEN \E hosts \in SetToSeqs(DOMAIN Rendered(script.topology)) : ReadHost(hosts)
     ELSE Fails
  /\ UNCHANGED <<cluster, tidbs, database, hostVars, runs, faults>>

Entry == Rendered(script.topology)[script.host]

\* ssh ... mkdir -p
MakeDirectories ==
  /\ script.at = "mkdir"
  /\ \E left \in AfterSsh(script.left) : script' = [script EXCEPT !.at = "binary", !.left = left]
  /\ UNCHANGED <<cluster, tidbs, database, hostVars, runs, faults>>

Running(h) == process[h].at \in {"starting", "connecting", "bootstrapping", "serving"}

With(f, dir, value) == [d \in DOMAIN f \union {dir} |-> IF d = dir THEN value ELSE f[d]]

\* A binary that is being executed cannot be written: scp fails, and with it the script.
Busy(h, dir) == Running(h) /\ process[h].dir = dir

\* scp bin/timongo-server; a copy cut short leaves part of the file.
CopyBinary ==
  /\ script.at = "binary"
  /\ \/ /\ Busy(script.host, Entry.dir)
        /\ Fails /\ UNCHANGED <<binaries, faults>>
     \/ /\ ~Busy(script.host, Entry.dir)
        /\ binaries' = [binaries EXCEPT ![script.host] = With(@, Entry.dir, "whole")]
        /\ At("config") /\ UNCHANGED faults
     \/ /\ ~Busy(script.host, Entry.dir) /\ faults < MaxFaults /\ faults' = faults + 1
        /\ binaries' = [binaries EXCEPT ![script.host] = With(@, Entry.dir, "cut")]
        /\ Fails
  /\ UNCHANGED <<cluster, tidbs, database, files, units, process, runs>>

\* scp timongo.toml
CopyConfig ==
  /\ script.at = "config"
  /\ \/ /\ files' = [files EXCEPT ![script.host] = With(@, Entry.dir, Entry.config)]
        /\ At("install") /\ UNCHANGED faults
     \/ /\ faults < MaxFaults /\ faults' = faults + 1
        /\ \E left \in Cut(Entry.config) :
             files' = [files EXCEPT ![script.host] = With(@, Entry.dir, left)]
        /\ Fails
  /\ UNCHANGED <<cluster, tidbs, database, binaries, units, process, runs>>

\* scp timongo.service; ssh ... chmod, mv, systemctl daemon-reload
InstallUnit ==
  /\ script.at = "install"
  /\ units' = [units EXCEPT ![script.host] =
                 [user |-> Entry.user, dir |-> Entry.dir, enabled |-> @.enabled]]
  /\ At("enable")
  /\ UNCHANGED <<cluster, tidbs, database, binaries, files, process, runs, faults>>

\* systemd executes the unit as it is now.
Start(h) == [at |-> "starting", user |-> units[h].user, dir |-> units[h].dir, settings |-> <<>>]

\* ... systemctl enable --now, which does nothing to a service that is running.
EnableUnit ==
  /\ script.at = "enable"
  /\ units' = [units EXCEPT ![script.host].enabled = TRUE]
  /\ process' = [process EXCEPT ![script.host] =
                   IF Running(script.host) THEN @ ELSE Start(script.host)]
  /\ \E left \in AfterSsh(script.left) : ReadHost(left)
  /\ UNCHANGED <<cluster, tidbs, database, binaries, files, runs, faults>>

\* A faulty variant: without set -e the script goes on after a copy that failed.
CommandIgnored ==
  /\ script.at \notin Finished /\ faults < MaxFaults /\ faults' = faults + 1
  /\ At(IF script.at = "config" THEN "install" ELSE "failed")
  /\ UNCHANGED <<cluster, tidbs, database, hostVars, runs>>

\* set -e: any other command that fails ends the script.
CommandFails ==
  /\ script.at \notin Finished /\ faults < MaxFaults /\ faults' = faults + 1
  /\ Fails
  /\ UNCHANGED <<cluster, tidbs, database, hostVars, runs>>

-----------------------------------------------------------------------------
(* The gateways.                                                           *)

Becomes(h, step) == process' = [process EXCEPT ![h].at = step]

\* parseServeConfig and buildStore, as the user of the unit; the file is its owner's only.
ReadConfig(h) ==
  LET dir == process[h].dir
  IN /\ process[h].at = "starting"
     /\ IF /\ binaries[h][dir] = "whole"
           /\ process[h].user = SshUser
           /\ Loads(files[h][dir])
        THEN process' = [process EXCEPT ![h].at = "connecting", ![h].settings = LoadFile(files[h][dir])]
        ELSE Becomes(h, "failed")
     /\ UNCHANGED <<script, cluster, tidbs, database, binaries, files, units, runs, faults>>

Reachable(h) == cluster = "running" /\ process[h].settings.tidb \in tidbs

\* NewStore's Ping: a connection of its DSN has selected the database.
Connect(h) ==
  /\ process[h].at = "connecting"
  /\ Becomes(h, IF Reachable(h) /\ database THEN "bootstrapping" ELSE "failed")
  /\ UNCHANGED <<script, cluster, tidbs, database, binaries, files, units, runs, faults>>

\* catalog.Bootstrap: CREATE DATABASE IF NOT EXISTS, then the tables; then both servers.
Bootstrap(h) ==
  /\ process[h].at = "bootstrapping"
  /\ IF Reachable(h) THEN Becomes(h, "serving") /\ database' = TRUE
                     ELSE Becomes(h, "failed") /\ UNCHANGED database
  /\ UNCHANGED <<script, cluster, tidbs, binaries, files, units, runs, faults>>

\* Any exit of a gateway that served.
Exit(h) ==
  /\ process[h].at = "serving" /\ faults < MaxFaults /\ faults' = faults + 1
  /\ Becomes(h, "failed")
  /\ UNCHANGED <<script, cluster, tidbs, database, binaries, files, units, runs>>

\* A faulty variant: Restart=on-abnormal, which no exit of log.Fatal is.
RestartOnAbnormal(h) == process[h].at = "killed" /\ process' = [process EXCEPT ![h] = Start(h)]
                        /\ UNCHANGED <<script, cluster, tidbs, database, binaries, files, units, runs, faults>>

\* Restart=always
Restart(h) ==
  /\ process[h].at = "failed" /\ process' = [process EXCEPT ![h] = Start(h)]
  /\ UNCHANGED <<script, cluster, tidbs, database, binaries, files, units, runs, faults>>

Gateway(h) == ReadConfig(h) \/ Connect(h) \/ Bootstrap(h) \/ Restart(h)

-----------------------------------------------------------------------------
(* Surroundings.                                                           *)

\* Somebody creates the database with another client: no code here does.
CreateDatabase ==
  /\ cluster = "running" /\ ~database /\ database' = TRUE
  /\ UNCHANGED <<script, cluster, tidbs, hostVars, runs, faults>>

Outage ==
  /\ cluster = "running" /\ faults < MaxFaults /\ faults' = faults + 1
  /\ cluster' = "stopped"
  /\ UNCHANGED <<script, tidbs, database, hostVars, runs>>

\* tiup cluster start, by hand
Recovery ==
  /\ cluster \in {"deployed", "stopped"} /\ cluster' = "running"
  /\ UNCHANGED <<script, tidbs, database, hostVars, runs, faults>>

Script == \/ \E topology \in Topologies : RunScript(topology)
          \/ DeployCluster \/ StartCluster \/ RenderTimongo
          \/ MakeDirectories \/ CopyBinary \/ CopyConfig \/ InstallUnit \/ EnableUnit
          \/ CommandFails

Next == \/ Script
        \/ \E h \in Hosts : Gateway(h) \/ Exit(h)
        \/ CreateDatabase \/ Outage \/ Recovery

\* The gateways run and systemd restarts them; nobody has to run scripts or mend TiDB.
Spec == Init /\ [][Next]_vars /\ \A h \in Hosts : WF_vars(Gateway(h))

-----------------------------------------------------------------------------
(* Properties.                                                             *)

\* Script, hosts and processes have their type (deploy-timongo.sh, main.go).
TypeOK ==
  /\ script.at \in Finished \union Copying \union {"split", "start", "render"}
  /\ script.at \in Copying => script.host \in DOMAIN Rendered(script.topology)
  /\ Range(script.left) \subseteq Hosts
  /\ cluster \in {"absent", "deployed", "running", "stopped"} /\ database \in BOOLEAN
  /\ \A h \in Hosts :
       /\ DOMAIN files[h] \subseteq DOMAIN binaries[h]
       /\ process[h].at \in {"off", "starting", "connecting", "bootstrapping", "serving", "failed"}
       /\ process[h].at \in {"connecting", "bootstrapping", "serving"} => process[h].settings # <<>>

\* Whatever script was cut at whatever command, and whatever topology was deployed
\* over which: a unit that systemd may start names a directory to which a binary and a
\* configuration were copied (the order of the commands in deploy-timongo.sh).
UnitsAreComplete ==
  \A h \in Hosts : units[h] # NoUnit => units[h].dir \in DOMAIN binaries[h] \cap DOMAIN files[h]

\* No TiDB listens where a configuration leads that is cut within the port of its TiDB.
PortsApart ==
  \A topology \in {t \in Topologies : Parses(t)}, other \in Topologies :
    \A i \in DOMAIN Servers(topology) :
      LET server == Servers(topology)[i]
      IN \A port \in FirstDigits(server.tidb_port) :
           <<server.tidb_host, port>> \notin TiDBServers(other)

\* A gateway listens where a topology declares a server of its host and works on that
\* server's TiDB: it never serves with a mixture of two servers' settings, with defaults
\* for what a copy cut short lost, or with half a number (RenderTimongoFiles, LoadFile,
\* NewStore's Ping).
RunsAsDeclared == PortsApart =>
  \A h \in Hosts : process[h].at = "serving" =>
    \E topology \in {t \in Topologies : Parses(t)} :
      \E i \in DOMAIN Servers(topology) :
        LET server == Servers(topology)[i]
        IN /\ server.host = h
           /\ process[h].settings.listen = server.port
           /\ process[h].settings.status = server.status_port
           /\ process[h].settings.tidb = <<server.tidb_host, server.tidb_port>>

\* The host has all that a gateway needs, and TiDB the database.
Serviceable(h) ==
  LET dir == units[h].dir
  IN /\ units[h].enabled /\ units[h].user = SshUser
     /\ binaries[h][dir] = "whole" /\ DOMAIN files[h][dir] = Range(ConfigKeys)
     /\ <<files[h][dir].host, files[h][dir].port>> \in tidbs
     /\ cluster = "running" /\ database

\* However often it failed before, while TiDB was away, without its database or with
\* half a configuration, a gateway on a serviceable host comes to serve, and stays
\* (Restart=always; nothing a failed start leaves behind stops the next one).
ServesInTheEnd == \A h \in Hosts : <>[]Serviceable(h) => <>[](process[h].at = "serving")
=============================================================================
