--------------------------- MODULE DeploymentProofs ---------------------------
(***************************************************************************)
(* No unit names a directory without its files, and every gateway serves   *)
(* as a topology declares it, for any topologies, any hosts and any number *)
(* of runs, cuts and failures of the deploy scripts.                       *)
(***************************************************************************)
EXTENDS Deployment, TLAPS, SequenceTheorems, FiniteSetTheorems, WellFoundedInduction

\* The host in hand is one of Hosts, as are those left in hosts.tsv; while files are
\* copied all of them are hosts of a topology that was parsed.
ScriptInv ==
  /\ DOMAIN script = {"at", "topology", "host", "left"}
  /\ script.at \in Finished \union Copying \union {"split", "start", "render"}
  /\ script.at \notin Finished => script.topology \in Topologies
  /\ script.left \in Seq(Hosts)
  /\ script.at \in Copying =>
       /\ Parses(script.topology)
       /\ script.left \in Seq(DOMAIN Rendered(script.topology))
       /\ script.host \in DOMAIN Rendered(script.topology) \cap Hosts

HostsInv ==
  /\ DOMAIN binaries = Hosts /\ DOMAIN files = Hosts /\ DOMAIN units = Hosts
  /\ \A h \in Hosts : DOMAIN units[h] = {"user", "dir", "enabled"}

\* Both files are in directory dir of host h.
Complete(h, dir) == dir \in DOMAIN binaries[h] /\ dir \in DOMAIN files[h]

\* What the commands before the next one have copied to the host in hand.
CopiedInv ==
  /\ script.at = "config" => Entry.dir \in DOMAIN binaries[script.host]
  /\ script.at = "install" => Complete(script.host, Entry.dir)
  /\ script.at = "enable" => Complete(script.host, units[script.host].dir)

UnitsInv == \A h \in Hosts : units[h] # NoUnit => Complete(h, units[h].dir)

DeploymentInv == ScriptInv /\ HostsInv /\ CopiedInv /\ UnitsInv

\* A topology that was parsed declares a server of host h with this configuration.
IsDeclared(h, config) ==
  \E topology \in {t \in Topologies : Parses(t)} :
    \E i \in DOMAIN Servers(topology) :
      Servers(topology)[i].host = h /\ config = ConfigOf(Servers(topology)[i])

\* The TiDB's port, or the first digits of it.
CutPorts(config) == {config.port} \union FirstDigits(config.port)

\* A file of the first keys of config only, the last of which may be cut: what names the
\* TiDB comes after the ports of the gateway.
IsStartOf(file, config) ==
  /\ DOMAIN file \subseteq DOMAIN config
  /\ \A key \in DOMAIN file \ {"port"} : file[key] = config[key]
  /\ "port" \in DOMAIN file => file.port \in CutPorts(config)
  /\ "host" \in DOMAIN file => {"listen", "status"} \subseteq DOMAIN file

FilesInv ==
  \A h \in Hosts :
    /\ DOMAIN files[h] \subseteq DOMAIN binaries[h]
    /\ \A dir \in DOMAIN files[h] : \E config : IsDeclared(h, config) /\ IsStartOf(files[h][dir], config)

\* What a process has read of config.
HasRead(settings, config) ==
  /\ DOMAIN settings = {"listen", "status", "tidb", "database"}
  /\ settings.listen = config.listen /\ settings.status = config.status
  /\ \E port \in CutPorts(config) : settings.tidb = <<config.host, port>>

ConfigRead == {"connecting", "bootstrapping", "serving"}

\* The process p of host h: once started it has files to read, and then what it read.
GoodProcess(h, p) ==
  /\ DOMAIN p = {"at", "user", "dir", "settings"}
  /\ p.at \in {"off", "starting", "failed"} \union ConfigRead
  /\ p.at # "off" => Complete(h, units[h].dir)
  /\ p.at = "starting" => Complete(h, p.dir)
  /\ p.at \in ConfigRead => \E config : IsDeclared(h, config) /\ HasRead(p.settings, config)

ProcessInv ==
  /\ DOMAIN process = Hosts
  /\ \A h \in Hosts : GoodProcess(h, process[h])

\* The cluster, which no host depends on but for its settings.
ClusterInv == cluster \in {"absent", "deployed", "running", "stopped"} /\ database \in BOOLEAN

\* TiDB is where a topology put it, and a process that got past its Ping has found it.
TiDBInv ==
  /\ tidbs = {} \/ \E topology \in Topologies : tidbs = TiDBServers(topology)
  /\ cluster = "absent" => tidbs = {}
  /\ \A h \in Hosts :
       process[h].at \in {"bootstrapping", "serving"} => process[h].settings.tidb \in tidbs

RunsInv == DeploymentInv /\ FilesInv /\ ProcessInv /\ ClusterInv /\ TiDBInv

-----------------------------------------------------------------------------
LEMMA LeastNumber ==
  ASSUME NEW numbers \in SUBSET Nat, numbers # {}
  PROVE  \E least \in numbers : \A n \in numbers : least <= n
<1>. DEFINE smaller == OpToRel(<, Nat)
<1>1. IsWellFoundedOn(smaller, Nat)
  BY NatLessThanWellFounded
<1>2. \A m, n \in Nat : <<n, m>> \in smaller <=> n < m
  BY DEF OpToRel
<1>. HIDE DEF smaller
<1>3. PICK least \in numbers : \A n \in numbers : <<n, least>> \notin smaller
  BY <1>1, WFMin, Zenon
<1>4. \A n \in numbers : ~(n < least)
  BY <1>2, <1>3
<1>. QED  BY <1>4

LEMMA GreatestIndex ==
  ASSUME NEW n \in Nat, NEW indices \in SUBSET (1..n), indices # {}
  PROVE  \E i \in indices : \A j \in indices : j <= i
<1>. DEFINE distances == {n - i : i \in indices}
<1>1. distances \in SUBSET Nat /\ distances # {}
  <2>1. \A i \in indices : n - i \in Nat
    OBVIOUS
  <2>. QED  BY <2>1
<1>. HIDE DEF distances
<1>2. PICK least \in distances : \A d \in distances : least <= d
  BY <1>1, LeastNumber
<1>3. PICK i \in indices : least = n - i
  BY <1>2 DEF distances
<1>4. ASSUME NEW j \in indices PROVE j <= i
  <2>1. n - j \in distances
    BY DEF distances
  <2>2. n - i <= n - j
    BY <1>2, <1>3, <2>1
  <2>3. i \in Int /\ j \in Int
    OBVIOUS
  <2>. QED  BY <2>2, <2>3
<1>. QED  BY <1>3, <1>4

-----------------------------------------------------------------------------
\* The entry of a host is that of a server the topology declares for it, and hosts.tsv
\* lists hosts of the topology only.
LEMMA RenderedEntry ==
  ASSUME NEW topology \in Topologies, NEW host \in DOMAIN Rendered(topology)
  PROVE  \E i \in DOMAIN Servers(topology) :
           /\ Servers(topology)[i].host = host
           /\ Rendered(topology)[host].config = ConfigOf(Servers(topology)[i])
<1>. DEFINE servers == Servers(topology)
            Kept == CHOOSE i \in DOMAIN servers :
                      servers[i].host = host /\ \A j \in DOMAIN servers : servers[j].host = host => j <= i
            indices == {i \in DOMAIN servers : servers[i].host = host}
<1>1. Len(servers) \in Nat /\ DOMAIN servers = 1..Len(servers)
  BY HostsAssumption
<1>2. indices # {}
  BY DEF Rendered
<1>3. \E i \in indices : \A j \in indices : j <= i
  BY <1>1, <1>2, GreatestIndex
<1>4. Kept \in DOMAIN servers /\ servers[Kept].host = host
  BY <1>3
<1>5. Rendered(topology)[host].config = ConfigOf(servers[Kept])
  BY DEF Rendered
<1>. QED  BY <1>4, <1>5

LEMMA RenderedHosts ==
  ASSUME NEW topology \in Topologies,
         NEW hosts \in SetToSeqs(DOMAIN Rendered(topology))
  PROVE  hosts \in Seq(DOMAIN Rendered(topology)) /\ DOMAIN Rendered(topology) \subseteq Hosts
<1>1. DOMAIN Rendered(topology) \subseteq Hosts
  BY HostsAssumption DEF Rendered
<1>2. PICK n : hosts \in [1..n -> DOMAIN Rendered(topology)] /\ n = Cardinality(DOMAIN Rendered(topology))
  BY DEF SetToSeqs
<1>3. n \in Nat
  BY <1>1, <1>2, FS_Subset, FS_CardinalityType, HostsAssumption
<1>. QED  BY <1>1, <1>2, <1>3

LEMMA ReadHostLeaves ==
  ASSUME ScriptInv, script.topology \in Topologies, Parses(script.topology),
         NEW left \in Seq(DOMAIN Rendered(script.topology)), ReadHost(left)
  PROVE  /\ ScriptInv' /\ script'.topology = script.topology
         /\ script'.at \notin {"config", "install", "enable"}
<1>. DEFINE hosts == DOMAIN Rendered(script.topology)
<1>1. hosts \subseteq Hosts
  BY HostsAssumption DEF Rendered
<1>. HIDE DEF hosts
<1>2. CASE left = <<>>
  BY <1>2, EmptySeq DEF ScriptInv, ReadHost, Finished, Copying
<1>3. CASE left # <<>>
  <2>1. left \in Seq(hosts)
    BY DEF hosts
  <2>2. Head(left) \in hosts /\ Tail(left) \in Seq(hosts) /\ Tail(left) \in Seq(Hosts)
    BY <1>1, <1>3, <2>1
  <2>3. script' = [script EXCEPT !.at = "mkdir", !.host = Head(left), !.left = Tail(left)]
    BY <1>3 DEF ReadHost
  <2>4. /\ DOMAIN script' = DOMAIN script /\ script'.at = "mkdir" /\ script'.topology = script.topology
        /\ script'.host = Head(left) /\ script'.left = Tail(left)
    BY <2>3 DEF ScriptInv
  <2>5. /\ script'.left \in Seq(DOMAIN Rendered(script'.topology))
        /\ script'.host \in DOMAIN Rendered(script'.topology) \cap Hosts
    BY <1>1, <2>2, <2>4 DEF hosts
  <2>. QED  BY <2>2, <2>4, <2>5 DEF ScriptInv, Finished, Copying
<1>. QED  BY <1>2, <1>3

LEMMA AtLeaves ==
  ASSUME ScriptInv, NEW step, At(step),
         step \in Finished \union Copying \union {"split", "start", "render"},
         step \notin Finished => script.at \notin Finished,
         step \in Copying => script.at \in Copying
  PROVE  /\ ScriptInv' /\ script'.topology = script.topology /\ script'.host = script.host
         /\ script'.at = step
<1>1. /\ script' = [script EXCEPT !.at = step]
      /\ DOMAIN script = {"at", "topology", "host", "left"}
  BY DEF At, ScriptInv
<1>2. /\ script'.at = step /\ DOMAIN script' = DOMAIN script
      /\ script'.topology = script.topology /\ script'.host = script.host /\ script'.left = script.left
  BY <1>1
<1>. QED  BY <1>1, <1>2 DEF ScriptInv

LEMMA FilesInit == Init => DeploymentInv
<1>. SUFFICES ASSUME Init PROVE DeploymentInv
  OBVIOUS
<1>1. ScriptInv /\ CopiedInv
  BY EmptySeq DEF Init, ScriptInv, CopiedInv, Finished, Copying
<1>2. HostsInv
  BY DEF Init, HostsInv, NoUnit
<1>3. UnitsInv
  BY DEF Init, UnitsInv
<1>. QED  BY <1>1, <1>2, <1>3 DEF DeploymentInv

\* A file that is copied takes nothing away.
LEMMA CopiedStays ==
  ASSUME NEW f, NEW g, NEW h \in DOMAIN f, NEW dir, NEW value,
         g = [f EXCEPT ![h] = With(@, dir, value)]
  PROVE  /\ DOMAIN g = DOMAIN f
         /\ dir \in DOMAIN g[h]
         /\ \A k \in DOMAIN f : DOMAIN f[k] \subseteq DOMAIN g[k]
BY DEF With

-----------------------------------------------------------------------------
\* Steps that leave the hosts alone, and the script before the next copy.
LEMMA HostsKept ==
  ASSUME DeploymentInv, ScriptInv', UNCHANGED <<binaries, files, units>>,
         \/ script'.at \notin {"config", "install", "enable"}
         \/ UNCHANGED script
  PROVE  DeploymentInv'
<1>1. HostsInv' /\ UnitsInv'
  BY DEF DeploymentInv, HostsInv, UnitsInv, Complete
<1>2. CopiedInv'
  BY DEF DeploymentInv, CopiedInv, Complete, Entry
<1>. QED  BY <1>1, <1>2 DEF DeploymentInv

LEMMA EarlySteps ==
  ASSUME DeploymentInv,
         \/ \E topology \in Topologies : RunScript(topology)
         \/ DeployCluster \/ StartCluster \/ RenderTimongo \/ MakeDirectories \/ CommandFails
  PROVE  DeploymentInv'
<1>. USE DEF hostVars, Fails
<1>1. ASSUME NEW topology \in Topologies, RunScript(topology) PROVE DeploymentInv'
  <2>1. PICK first \in {"split", "render"} :
          script' = [at |-> first, topology |-> topology, host |-> "", left |-> <<>>]
    BY <1>1 DEF RunScript
  <2>2. ScriptInv' /\ script'.at \notin {"config", "install", "enable"}
    BY <2>1, EmptySeq DEF ScriptInv, Finished, Copying
  <2>. QED  BY <1>1, <2>2, HostsKept DEF RunScript
<1>2. CASE DeployCluster
  <2>1. script.at = "split" /\ (At("start") \/ At("failed"))
    BY <1>2 DEF DeployCluster
  <2>2. ScriptInv' /\ script'.at \notin {"config", "install", "enable"}
    BY <2>1, AtLeaves DEF DeploymentInv, Finished, Copying
  <2>. QED  BY <1>2, <2>2, HostsKept DEF DeployCluster
<1>3. CASE StartCluster
  <2>1. ScriptInv' /\ script'.at \notin {"config", "install", "enable"}
    BY <1>3, AtLeaves DEF StartCluster, DeploymentInv, Finished, Copying
  <2>. QED  BY <1>3, <2>1, HostsKept DEF StartCluster
<1>4. CASE RenderTimongo
  <2>1. script.topology \in Topologies
    BY <1>4 DEF RenderTimongo, DeploymentInv, ScriptInv, Finished
  <2>2. ASSUME At("failed") PROVE ScriptInv' /\ script'.at \notin {"config", "install", "enable"}
    BY <2>2, AtLeaves DEF DeploymentInv, Finished, Copying
  <2>3. ASSUME NEW hosts \in SetToSeqs(DOMAIN Rendered(script.topology)), ReadHost(hosts),
               Parses(script.topology)
        PROVE  ScriptInv' /\ script'.at \notin {"config", "install", "enable"}
    BY <2>1, <2>3, RenderedHosts, ReadHostLeaves DEF DeploymentInv
  <2>4. ScriptInv' /\ script'.at \notin {"config", "install", "enable"}
    BY <1>4, <2>2, <2>3 DEF RenderTimongo
  <2>. QED  BY <1>4, <2>4, HostsKept DEF RenderTimongo
<1>5. CASE MakeDirectories
  <2>1. PICK left \in AfterSsh(script.left) :
          script.at = "mkdir" /\ script' = [script EXCEPT !.at = "binary", !.left = left]
    BY <1>5 DEF MakeDirectories
  <2>2. left \in Seq(Hosts) /\ left \in Seq(DOMAIN Rendered(script.topology))
    BY <2>1, EmptySeq DEF AfterSsh, DeploymentInv, ScriptInv, Copying
  <2>3. ScriptInv' /\ script'.at \notin {"config", "install", "enable"}
    BY <2>1, <2>2 DEF DeploymentInv, ScriptInv, Finished, Copying
  <2>. QED  BY <1>5, <2>3, HostsKept DEF MakeDirectories
<1>6. CASE CommandFails
  <2>1. ScriptInv' /\ script'.at \notin {"config", "install", "enable"}
    BY <1>6, AtLeaves DEF CommandFails, DeploymentInv, Finished, Copying
  <2>. QED  BY <1>6, <2>1, HostsKept DEF CommandFails
<1>. QED  BY <1>1, <1>2, <1>3, <1>4, <1>5, <1>6

\* A unit that was complete stays so when files are copied.
LEMMA FilesGrow ==
  ASSUME HostsInv, UnitsInv, UNCHANGED units,
         DOMAIN binaries' = Hosts, DOMAIN files' = Hosts,
         \A h \in Hosts : DOMAIN binaries[h] \subseteq DOMAIN binaries'[h],
         \A h \in Hosts : DOMAIN files[h] \subseteq DOMAIN files'[h]
  PROVE  HostsInv' /\ UnitsInv'
BY DEF HostsInv, UnitsInv, Complete

LEMMA CopyBinaryStep ==
  ASSUME DeploymentInv, CopyBinary
  PROVE  DeploymentInv'
<1>1. /\ script.at = "binary" /\ script.host \in Hosts /\ UNCHANGED <<files, units>>
      /\ DOMAIN binaries = Hosts /\ DOMAIN files = Hosts
  BY DEF CopyBinary, DeploymentInv, HostsInv, ScriptInv, Copying
<1>2. ASSUME At("failed") PROVE ScriptInv' /\ CopiedInv'
  <2>1. ScriptInv' /\ script'.at = "failed"
    BY <1>2, AtLeaves DEF DeploymentInv, Finished, Copying
  <2>. QED  BY <2>1 DEF CopiedInv
<1>3. ASSUME NEW whole, binaries' = [binaries EXCEPT ![script.host] = With(@, Entry.dir, whole)]
      PROVE  /\ HostsInv' /\ UnitsInv'
             /\ Entry.dir \in DOMAIN binaries'[script.host]
  BY <1>1, <1>3, CopiedStays, FilesGrow DEF DeploymentInv
<1>4. ASSUME UNCHANGED binaries PROVE HostsInv' /\ UnitsInv'
  BY <1>1, <1>4, FilesGrow DEF DeploymentInv
<1>5. ASSUME At("config"), binaries' = [binaries EXCEPT ![script.host] = With(@, Entry.dir, "whole")]
      PROVE  ScriptInv' /\ CopiedInv'
  <2>1. /\ ScriptInv' /\ script'.at = "config" /\ script'.topology = script.topology
        /\ script'.host = script.host
    BY <1>1, <1>5, AtLeaves DEF DeploymentInv, Finished, Copying
  <2>2. Entry' = Entry
    BY <2>1 DEF Entry
  <2>. QED  BY <1>3, <1>5, <2>1, <2>2 DEF CopiedInv
<1>. QED  BY <1>2, <1>3, <1>4, <1>5 DEF CopyBinary, Fails, DeploymentInv

LEMMA CopyConfigStep ==
  ASSUME DeploymentInv, CopyConfig
  PROVE  DeploymentInv'
<1>1. /\ script.at = "config" /\ script.host \in Hosts /\ UNCHANGED <<binaries, units>>
      /\ DOMAIN binaries = Hosts /\ DOMAIN files = Hosts
      /\ Entry.dir \in DOMAIN binaries[script.host]
  BY DEF CopyConfig, DeploymentInv, HostsInv, CopiedInv, ScriptInv, Copying
<1>2. ASSUME At("failed") PROVE ScriptInv' /\ CopiedInv'
  <2>1. ScriptInv' /\ script'.at = "failed"
    BY <1>2, AtLeaves DEF DeploymentInv, Finished, Copying
  <2>. QED  BY <2>1 DEF CopiedInv
<1>3. ASSUME NEW config, files' = [files EXCEPT ![script.host] = With(@, Entry.dir, config)]
      PROVE  /\ HostsInv' /\ UnitsInv'
             /\ Entry.dir \in DOMAIN files'[script.host]
  BY <1>1, <1>3, CopiedStays, FilesGrow DEF DeploymentInv
<1>4. ASSUME At("install"), files' = [files EXCEPT ![script.host] = With(@, Entry.dir, Entry.config)]
      PROVE  ScriptInv' /\ CopiedInv'
  <2>1. /\ ScriptInv' /\ script'.at = "install" /\ script'.topology = script.topology
        /\ script'.host = script.host
    BY <1>1, <1>4, AtLeaves DEF DeploymentInv, Finished, Copying
  <2>2. Entry' = Entry
    BY <2>1 DEF Entry
  <2>. QED  BY <1>1, <1>3, <1>4, <2>1, <2>2 DEF CopiedInv, Complete
<1>. QED  BY <1>2, <1>3, <1>4 DEF CopyConfig, Fails, DeploymentInv

LEMMA InstallUnitStep ==
  ASSUME DeploymentInv, InstallUnit
  PROVE  DeploymentInv'
<1>1. /\ script.at = "install" /\ script.host \in Hosts /\ At("enable")
      /\ UNCHANGED <<binaries, files>> /\ HostsInv
      /\ Complete(script.host, Entry.dir)
  BY DEF InstallUnit, DeploymentInv, CopiedInv, ScriptInv, Copying
<1>2. /\ ScriptInv' /\ script'.at = "enable" /\ script'.host = script.host
  BY <1>1, AtLeaves DEF DeploymentInv, Finished, Copying
<1>3. units' = [units EXCEPT ![script.host] =
                   [user |-> Entry.user, dir |-> Entry.dir, enabled |-> units[script.host].enabled]]
  BY DEF InstallUnit
<1>4. /\ HostsInv' /\ units'[script.host].dir = Entry.dir
      /\ \A h \in Hosts \ {script.host} : units'[h] = units[h]
  BY <1>1, <1>3 DEF HostsInv
<1>5. UnitsInv'
  BY <1>1, <1>4 DEF UnitsInv, DeploymentInv, Complete
<1>6. CopiedInv'
  BY <1>1, <1>2, <1>4 DEF CopiedInv, Complete
<1>. QED  BY <1>2, <1>4, <1>5, <1>6 DEF DeploymentInv

LEMMA EnableUnitStep ==
  ASSUME DeploymentInv, EnableUnit
  PROVE  DeploymentInv'
<1>1. /\ script.at = "enable" /\ script.host \in Hosts
      /\ UNCHANGED <<binaries, files>> /\ HostsInv /\ UnitsInv
      /\ Complete(script.host, units[script.host].dir)
      /\ units' = [units EXCEPT ![script.host] = [units[script.host] EXCEPT !.enabled = TRUE]]
  BY DEF EnableUnit, DeploymentInv, CopiedInv, ScriptInv, HostsInv, Copying
<1>2. PICK left \in AfterSsh(script.left) : ReadHost(left)
  BY DEF EnableUnit
<1>3. /\ left \in Seq(DOMAIN Rendered(script.topology)) /\ script.topology \in Topologies
      /\ Parses(script.topology)
  BY <1>1, EmptySeq DEF AfterSsh, DeploymentInv, ScriptInv, Finished, Copying
<1>4. ScriptInv' /\ script'.at \notin {"config", "install", "enable"}
  BY <1>2, <1>3, ReadHostLeaves DEF DeploymentInv
<1>5. HostsInv' /\ \A h \in Hosts : units'[h].dir = units[h].dir
  BY <1>1 DEF HostsInv
<1>6. UnitsInv'
  BY <1>1, <1>5 DEF UnitsInv, Complete, HostsInv
<1>. QED  BY <1>4, <1>5, <1>6 DEF CopiedInv, DeploymentInv

\* Gateways and TiDB change neither the script nor the files.
LEMMA OtherSteps ==
  ASSUME DeploymentInv,
         \/ \E h \in Hosts : Gateway(h) \/ Exit(h)
         \/ CreateDatabase \/ Outage \/ Recovery \/ UNCHANGED vars
  PROVE  DeploymentInv'
<1>1. UNCHANGED <<script, binaries, files, units>>
  BY DEF Gateway, ReadConfig, Connect, Bootstrap, Restart, Exit, CreateDatabase, Outage,
         Recovery, vars, hostVars
<1>2. ScriptInv'
  BY <1>1 DEF DeploymentInv, ScriptInv
<1>. QED  BY <1>1, <1>2, HostsKept

LEMMA DeploymentStep == DeploymentInv /\ [Next]_vars => DeploymentInv'
BY EarlySteps, CopyBinaryStep, CopyConfigStep, InstallUnitStep, EnableUnitStep, OtherSteps
DEF Next, Script

-----------------------------------------------------------------------------
\* Files.  What is written to a host is a configuration declared for it, or its start.
LEMMA PrefixIsStart ==
  ASSUME NEW server, NEW n \in 0..Len(ConfigKeys)
  PROVE  /\ IsStartOf(Prefix(ConfigOf(server), n), ConfigOf(server))
         /\ n = 4 => DOMAIN Prefix(ConfigOf(server), n) = {"listen", "status", "host", "port"}
<1>. DEFINE config == ConfigOf(server)
            written == {ConfigKeys[i] : i \in 1..n}
<1>1. DOMAIN config = {"listen", "status", "host", "port", "database"}
  BY DEF ConfigOf
<1>2. n \in 0..5
  BY DEF ConfigKeys
<1>3. /\ written \subseteq DOMAIN config
      /\ "host" \in written => {"listen", "status"} \subseteq written
      /\ n = 4 => written = {"listen", "status", "host", "port"}
  BY <1>1, <1>2 DEF ConfigKeys
<1>. HIDE DEF config, written
<1>4. Prefix(config, n) = [key \in written |-> config[key]]
  BY DEF Prefix, Restrict, written
<1>5. IsStartOf(Prefix(config, n), config)
  BY <1>3, <1>4 DEF IsStartOf, CutPorts
<1>. QED  BY <1>3, <1>4, <1>5 DEF config

LEMMA CutIsStart ==
  ASSUME NEW server, NEW left \in Cut(ConfigOf(server))
  PROVE  IsStartOf(left, ConfigOf(server))
<1>. DEFINE config == ConfigOf(server)
<1>1. CASE \E n \in 0..Len(ConfigKeys) : left = Prefix(config, n)
  BY <1>1, PrefixIsStart
<1>2. ASSUME NEW port \in FirstDigits(config.port), left = [Prefix(config, 4) EXCEPT !.port = port]
      PROVE  IsStartOf(left, config)
  <2>1. 4 \in 0..Len(ConfigKeys)
    BY DEF ConfigKeys
  <2>2. /\ IsStartOf(Prefix(config, 4), config)
        /\ DOMAIN Prefix(config, 4) = {"listen", "status", "host", "port"}
    BY <2>1, PrefixIsStart
  <2>. HIDE DEF config
  <2>3. /\ DOMAIN left = {"listen", "status", "host", "port"} /\ left.port = port
        /\ \A key \in DOMAIN left \ {"port"} : left[key] = Prefix(config, 4)[key]
    BY <1>2, <2>2
  <2>. QED  BY <2>2, <2>3 DEF IsStartOf, CutPorts
<1>. QED  BY <1>1, <1>2 DEF Cut

LEMMA WholeIsStart ==
  ASSUME NEW server
  PROVE  IsStartOf(ConfigOf(server), ConfigOf(server))
BY DEF IsStartOf, ConfigOf, CutPorts

LEMMA CompleteStays ==
  ASSUME RunsInv, [Next]_vars
  PROVE  \A h \in Hosts : /\ DOMAIN binaries[h] \subseteq DOMAIN binaries'[h]
                         /\ DOMAIN files[h] \subseteq DOMAIN files'[h]
<1>. DEFINE Grow == \A h \in Hosts : /\ DOMAIN binaries[h] \subseteq DOMAIN binaries'[h]
                                   /\ DOMAIN files[h] \subseteq DOMAIN files'[h]
<1>1. DOMAIN binaries = Hosts /\ DOMAIN files = Hosts
  BY DEF RunsInv, DeploymentInv, HostsInv
<1>2. CASE CopyBinary
  <2>1. script.host \in Hosts /\ UNCHANGED files
    BY <1>2 DEF CopyBinary, RunsInv, DeploymentInv, ScriptInv, Copying
  <2>2. ASSUME NEW whole, binaries' = [binaries EXCEPT ![script.host] = With(@, Entry.dir, whole)]
        PROVE  Grow
    BY <1>1, <2>1, <2>2, CopiedStays
  <2>. QED  BY <1>2, <2>1, <2>2 DEF CopyBinary
<1>3. CASE CopyConfig
  <2>1. script.host \in Hosts /\ UNCHANGED binaries
    BY <1>3 DEF CopyConfig, RunsInv, DeploymentInv, ScriptInv, Copying
  <2>2. ASSUME NEW config, files' = [files EXCEPT ![script.host] = With(@, Entry.dir, config)]
        PROVE  Grow
    BY <1>1, <2>1, <2>2, CopiedStays
  <2>. QED  BY <1>3, <2>1, <2>2 DEF CopyConfig
<1>4. ASSUME UNCHANGED <<binaries, files>> PROVE Grow
  BY <1>4
<1>5. CopyBinary \/ CopyConfig \/ UNCHANGED <<binaries, files>>
  BY DEF Next, Script, RunScript, DeployCluster, StartCluster, RenderTimongo, MakeDirectories,
         InstallUnit, EnableUnit, CommandFails, Gateway, ReadConfig, Connect, Bootstrap, Restart,
         Exit, CreateDatabase, Outage, Recovery, vars, hostVars
<1>. QED  BY <1>2, <1>3, <1>4, <1>5

LEMMA FilesStep == RunsInv /\ [Next]_vars => FilesInv'
<1>. SUFFICES ASSUME RunsInv, [Next]_vars PROVE FilesInv'
  OBVIOUS
<1>1. CASE UNCHANGED files
  BY <1>1, CompleteStays DEF RunsInv, FilesInv
<1>2. CASE CopyConfig
  <2>. DEFINE host == script.host
              dir == Entry.dir
  <2>1. /\ script.topology \in Topologies /\ Parses(script.topology)
        /\ host \in DOMAIN Rendered(script.topology) /\ host \in Hosts
        /\ dir \in DOMAIN binaries[host] /\ UNCHANGED binaries /\ DOMAIN files = Hosts
    BY <1>2 DEF CopyConfig, RunsInv, DeploymentInv, ScriptInv, CopiedInv, HostsInv, Copying, Finished
  <2>2. PICK i \in DOMAIN Servers(script.topology) :
          /\ Servers(script.topology)[i].host = host
          /\ Entry.config = ConfigOf(Servers(script.topology)[i])
    BY <2>1, RenderedEntry DEF Entry
  <2>3. IsDeclared(host, Entry.config)
    BY <2>1, <2>2 DEF IsDeclared
  <2>4. PICK file : /\ files' = [files EXCEPT ![host] = With(@, dir, file)]
                    /\ IsStartOf(file, Entry.config)
    BY <1>2, <2>2, CutIsStart, WholeIsStart DEF CopyConfig
  <2>. HIDE DEF dir, host
  <2>5. files'[host] = With(files[host], dir, file) /\ \A h \in Hosts \ {host} : files'[h] = files[h]
    BY <2>1, <2>4
  <2>6. /\ DOMAIN files'[host] = DOMAIN files[host] \union {dir}
        /\ files'[host][dir] = file
        /\ \A d \in DOMAIN files[host] \ {dir} : files'[host][d] = files[host][d]
    BY <2>5 DEF With
  <2>. QED  BY <2>1, <2>3, <2>4, <2>5, <2>6 DEF RunsInv, FilesInv
<1>3. CopyConfig \/ UNCHANGED files
  BY DEF Next, Script, RunScript, DeployCluster, StartCluster, RenderTimongo, MakeDirectories,
         CopyBinary, InstallUnit, EnableUnit, CommandFails, Gateway, ReadConfig, Connect, Bootstrap,
         Restart, Exit, CreateDatabase, Outage, Recovery, vars, hostVars
<1>. QED  BY <1>1, <1>2, <1>3

-----------------------------------------------------------------------------
\* Processes.
SameDirectories == \A h \in Hosts : units'[h].dir = units[h].dir

\* A step of the process of one host.
LEMMA OneProcess ==
  ASSUME RunsInv, [Next]_vars, SameDirectories, NEW h \in Hosts, NEW p,
         process' = [process EXCEPT ![h] = p], GoodProcess(h, p)
  PROVE  ProcessInv'
<1>1. \A k \in Hosts : \A dir : Complete(k, dir) => Complete(k, dir)'
  BY CompleteStays DEF Complete
<1>2. DOMAIN process' = Hosts /\ process'[h] = p /\ \A k \in Hosts \ {h} : process'[k] = process[k]
  BY DEF RunsInv, ProcessInv
<1>. QED  BY <1>1, <1>2 DEF RunsInv, ProcessInv, GoodProcess, SameDirectories

\* A process goes to another step with what it has.
LEMMA BecomesKeeps ==
  ASSUME RunsInv, [Next]_vars, SameDirectories, NEW h \in Hosts, NEW step, Becomes(h, step),
         process[h].at # "off",
         \/ step = "failed"
         \/ step \in ConfigRead /\ process[h].at \in ConfigRead
  PROVE  ProcessInv'
<1>. DEFINE p == [process[h] EXCEPT !.at = step]
<1>1. process' = [process EXCEPT ![h] = p]
  BY DEF Becomes
<1>2. DOMAIN process[h] = {"at", "user", "dir", "settings"}
  BY DEF RunsInv, ProcessInv, GoodProcess
<1>3. DOMAIN p = DOMAIN process[h] /\ p.at = step /\ p.settings = process[h].settings
  BY <1>2
<1>. HIDE DEF p
<1>. QED  BY <1>1, <1>2, <1>3, OneProcess DEF RunsInv, ProcessInv, GoodProcess, ConfigRead

LEMMA StartKeeps ==
  ASSUME RunsInv, [Next]_vars, SameDirectories, NEW h \in Hosts, Complete(h, units[h].dir),
         process' = [process EXCEPT ![h] = Start(h)]
  PROVE  ProcessInv'
<1>. DEFINE p == Start(h)
<1>1. DOMAIN p = {"at", "user", "dir", "settings"} /\ p.at = "starting" /\ p.dir = units[h].dir
  BY DEF Start
<1>. HIDE DEF p
<1>2. process' = [process EXCEPT ![h] = p]
  BY DEF p
<1>. QED  BY <1>1, <1>2, OneProcess DEF GoodProcess, ConfigRead

LEMMA ReadConfigKeeps ==
  ASSUME RunsInv, NEW h \in Hosts, ReadConfig(h)
  PROVE  ProcessInv'
<1>. DEFINE file == files[h][process[h].dir]
<1>1. [Next]_vars /\ SameDirectories /\ process[h].at = "starting"
  BY DEF ReadConfig, Next, Gateway, SameDirectories
<1>2. CASE Becomes(h, "failed")
  BY <1>1, <1>2, BecomesKeeps
<1>3. CASE /\ Loads(file)
           /\ process' = [process EXCEPT ![h].at = "connecting", ![h].settings = LoadFile(file)]
  <2>. DEFINE p == [process[h] EXCEPT !.at = "connecting", !.settings = LoadFile(file)]
  <2>1. process' = [process EXCEPT ![h] = p]
    BY <1>3
  <2>2. GoodProcess(h, process[h])
    BY DEF RunsInv, ProcessInv
  <2>3. DOMAIN p = DOMAIN process[h] /\ p.at = "connecting" /\ p.settings = LoadFile(file)
    BY <2>2 DEF GoodProcess
  <2>4. process[h].dir \in DOMAIN files[h]
    BY <1>1, <2>2 DEF GoodProcess, Complete
  <2>5. PICK config : IsDeclared(h, config) /\ IsStartOf(file, config)
    BY <2>4 DEF RunsInv, FilesInv
  <2>6. {"listen", "status", "host", "port"} \subseteq DOMAIN file
    BY <1>3, <2>5 DEF Loads, IsStartOf
  <2>. HIDE DEF file
  <2>7. HasRead(LoadFile(file), config)
    <3>1. LoadFile(file) = [listen |-> file.listen, status |-> file.status,
                            tidb |-> <<file.host, file.port>>, database |-> LoadFile(file).database]
      BY <2>6 DEF LoadFile
    <3>2. /\ file.listen = config.listen /\ file.status = config.status
          /\ file.host = config.host /\ file.port \in CutPorts(config)
      BY <2>5, <2>6 DEF IsStartOf
    <3>. QED  BY <3>1, <3>2 DEF HasRead
  <2>. HIDE DEF p
  <2>8. GoodProcess(h, p)
    BY <1>1, <2>2, <2>3, <2>5, <2>7 DEF GoodProcess, ConfigRead
  <2>. QED  BY <1>1, <2>1, <2>8, OneProcess
<1>. QED  BY <1>2, <1>3 DEF ReadConfig

LEMMA GatewayKeeps ==
  ASSUME RunsInv, NEW h \in Hosts, Gateway(h) \/ Exit(h)
  PROVE  ProcessInv'
<1>1. [Next]_vars /\ UNCHANGED units
  BY DEF Next, Gateway, ReadConfig, Connect, Bootstrap, Restart, Exit
<1>2. SameDirectories
  BY <1>1 DEF SameDirectories
<1>3. CASE Connect(h)
  BY <1>1, <1>2, <1>3, BecomesKeeps DEF Connect, ConfigRead
<1>4. CASE Bootstrap(h)
  BY <1>1, <1>2, <1>4, BecomesKeeps DEF Bootstrap, ConfigRead
<1>5. CASE Exit(h)
  BY <1>1, <1>2, <1>5, BecomesKeeps DEF Exit
<1>6. CASE Restart(h)
  <2>1. GoodProcess(h, process[h]) /\ process[h].at = "failed"
    BY <1>6 DEF RunsInv, ProcessInv, Restart
  <2>. QED  BY <1>1, <1>2, <1>6, <2>1, StartKeeps DEF GoodProcess, Restart
<1>. QED  BY <1>3, <1>4, <1>5, <1>6, ReadConfigKeeps DEF Gateway

\* A unit that is installed names a directory that has its files, as the old one did.
LEMMA InstallKeeps ==
  ASSUME RunsInv, InstallUnit
  PROVE  ProcessInv'
<1>1. /\ script.host \in Hosts /\ DOMAIN units = Hosts /\ UNCHANGED <<binaries, files, process>>
      /\ Complete(script.host, Entry.dir)
  BY DEF InstallUnit, RunsInv, DeploymentInv, CopiedInv, HostsInv, ScriptInv, Copying
<1>2. units'[script.host].dir = Entry.dir /\ \A h \in Hosts \ {script.host} : units'[h] = units[h]
  BY <1>1 DEF InstallUnit
<1>3. ASSUME NEW h \in Hosts PROVE GoodProcess(h, process[h])'
  <2>1. GoodProcess(h, process[h])
    BY DEF RunsInv, ProcessInv
  <2>2. CASE h = script.host
    BY <1>1, <1>2, <2>1, <2>2 DEF GoodProcess, Complete
  <2>3. CASE h # script.host
    BY <1>1, <1>2, <2>1, <2>3 DEF GoodProcess, Complete
  <2>. QED  BY <2>2, <2>3
<1>. QED  BY <1>1, <1>3 DEF RunsInv, ProcessInv

LEMMA EnableKeeps ==
  ASSUME RunsInv, EnableUnit
  PROVE  ProcessInv'
<1>1. /\ script.host \in Hosts /\ HostsInv /\ DOMAIN process = Hosts
      /\ Complete(script.host, units[script.host].dir)
      /\ units' = [units EXCEPT ![script.host] = [units[script.host] EXCEPT !.enabled = TRUE]]
  BY DEF EnableUnit, RunsInv, DeploymentInv, CopiedInv, ScriptInv, ProcessInv, Copying
<1>2. [Next]_vars /\ SameDirectories
  BY <1>1 DEF Next, Script, SameDirectories, HostsInv
<1>3. CASE Running(script.host)
  <2>1. process' = [process EXCEPT ![script.host] = process[script.host]]
    BY <1>3 DEF EnableUnit
  <2>2. GoodProcess(script.host, process[script.host])
    BY <1>1 DEF RunsInv, ProcessInv
  <2>. QED  BY <1>1, <1>2, <2>1, <2>2, OneProcess
<1>4. CASE ~Running(script.host)
  BY <1>1, <1>2, <1>4, StartKeeps DEF EnableUnit
<1>. QED  BY <1>3, <1>4

LEMMA ProcessesStep == RunsInv /\ [Next]_vars => ProcessInv'
<1>. SUFFICES ASSUME RunsInv, [Next]_vars PROVE ProcessInv'
  OBVIOUS
<1>1. CASE UNCHANGED <<units, process>>
  BY <1>1, CompleteStays DEF RunsInv, ProcessInv, GoodProcess, Complete
<1>2. \/ UNCHANGED <<units, process>> \/ InstallUnit \/ EnableUnit
      \/ \E h \in Hosts : Gateway(h) \/ Exit(h)
  BY DEF Next, Script, RunScript, DeployCluster, StartCluster, RenderTimongo, MakeDirectories,
         CopyBinary, CopyConfig, CommandFails, CreateDatabase, Outage, Recovery, vars, hostVars
<1>. QED  BY <1>1, <1>2, InstallKeeps, EnableKeeps, GatewayKeeps

LEMMA ClusterStep == RunsInv /\ [Next]_vars => ClusterInv'
BY DEF RunsInv, ClusterInv, Next, Script, RunScript, DeployCluster, StartCluster, RenderTimongo,
       MakeDirectories, CopyBinary, CopyConfig, InstallUnit, EnableUnit, CommandFails, Gateway,
       ReadConfig, Connect, Bootstrap, Restart, Exit, CreateDatabase, Outage, Recovery, vars

LEMMA TiDBStep == RunsInv /\ [Next]_vars => TiDBInv'
<1>. SUFFICES ASSUME RunsInv, [Next]_vars PROVE TiDBInv'
  OBVIOUS
<1>1. DOMAIN process = Hosts /\ TiDBInv
      /\ \A h \in Hosts : DOMAIN process[h] = {"at", "user", "dir", "settings"}
  BY DEF RunsInv, ProcessInv, GoodProcess
<1>2. CASE DeployCluster
  <2>1. \/ UNCHANGED <<cluster, tidbs>>
        \/ /\ cluster = "absent" /\ cluster' = "deployed"
           /\ tidbs' = TiDBServers(script.topology)
    BY <1>2 DEF DeployCluster
  <2>2. script.topology \in Topologies /\ UNCHANGED process
    BY <1>2 DEF DeployCluster, hostVars, RunsInv, DeploymentInv, ScriptInv, Finished
  <2>. QED  BY <1>1, <2>1, <2>2 DEF TiDBInv
<1>3. CASE UNCHANGED <<tidbs, process>> /\ (cluster' = cluster \/ cluster' = "running" \/ cluster' = "stopped")
  BY <1>1, <1>3 DEF TiDBInv
<1>4. ASSUME NEW h \in Hosts, NEW p, process' = [process EXCEPT ![h] = p], UNCHANGED <<cluster, tidbs>>,
             p.at \in {"bootstrapping", "serving"} => p.settings.tidb \in tidbs
      PROVE  TiDBInv'
  <2>1. process'[h] = p /\ \A k \in Hosts \ {h} : process'[k] = process[k]
    BY <1>1, <1>4
  <2>. QED  BY <1>1, <1>4, <2>1 DEF TiDBInv
<1>5. ASSUME NEW h \in Hosts, NEW step, Becomes(h, step), UNCHANGED <<cluster, tidbs>>,
             step \in {"bootstrapping", "serving"} => process[h].settings.tidb \in tidbs
      PROVE  TiDBInv'
  <2>. DEFINE p == [process[h] EXCEPT !.at = step]
  <2>1. process' = [process EXCEPT ![h] = p]
    BY <1>5 DEF Becomes
  <2>2. p.at = step /\ p.settings = process[h].settings
    BY <1>1
  <2>. HIDE DEF p
  <2>. QED  BY <1>4, <1>5, <2>1, <2>2
<1>6. ASSUME NEW h \in Hosts, process' = [process EXCEPT ![h] = Start(h)], UNCHANGED <<cluster, tidbs>>
      PROVE  TiDBInv'
  BY <1>4, <1>6 DEF Start
<1>7. ASSUME NEW h \in Hosts, ReadConfig(h) PROVE TiDBInv'
  <2>1. UNCHANGED <<cluster, tidbs>>
    BY <1>7 DEF ReadConfig
  <2>2. CASE Becomes(h, "failed")
    BY <1>5, <2>1, <2>2
  <2>3. ASSUME NEW read,
               process' = [process EXCEPT ![h].at = "connecting", ![h].settings = read]
        PROVE  TiDBInv'
    <3>. DEFINE p == [process[h] EXCEPT !.at = "connecting", !.settings = read]
    <3>1. process' = [process EXCEPT ![h] = p] /\ p.at = "connecting"
      BY <1>1, <2>3
    <3>. HIDE DEF p
    <3>. QED  BY <1>4, <2>1, <3>1
  <2>. QED  BY <1>7, <2>2, <2>3 DEF ReadConfig
<1>8. ASSUME NEW h \in Hosts, Connect(h) \/ Bootstrap(h) \/ Exit(h) PROVE TiDBInv'
  <2>1. UNCHANGED <<cluster, tidbs>>
    BY <1>8 DEF Connect, Bootstrap, Exit
  <2>2. \/ Becomes(h, "failed")
        \/ Reachable(h) /\ \E step \in {"bootstrapping", "serving"} : Becomes(h, step)
    BY <1>8 DEF Connect, Bootstrap, Exit
  <2>. QED  BY <1>5, <2>1, <2>2 DEF Reachable
<1>9. ASSUME NEW h \in Hosts, Restart(h) PROVE TiDBInv'
  BY <1>6, <1>9 DEF Restart
<1>10. CASE EnableUnit
  <2>1. /\ script.host \in Hosts /\ UNCHANGED <<cluster, tidbs>>
        /\ process' = [process EXCEPT ![script.host] =
                          IF Running(script.host) THEN @ ELSE Start(script.host)]
    BY <1>10 DEF EnableUnit, RunsInv, DeploymentInv, ScriptInv, Copying
  <2>2. CASE Running(script.host)
    <3>1. process' = [process EXCEPT ![script.host] = process[script.host]]
      BY <2>1, <2>2
    <3>. QED  BY <1>1, <1>4, <2>1, <3>1 DEF TiDBInv
  <2>3. CASE ~Running(script.host)
    BY <1>6, <2>1, <2>3
  <2>. QED  BY <2>2, <2>3
<1>11. \/ DeployCluster \/ EnableUnit
       \/ UNCHANGED <<tidbs, process>> /\ (cluster' = cluster \/ cluster' = "running" \/ cluster' = "stopped")
       \/ \E h \in Hosts : ReadConfig(h) \/ Connect(h) \/ Bootstrap(h) \/ Exit(h) \/ Restart(h)
  BY DEF Next, Script, RunScript, StartCluster, RenderTimongo, MakeDirectories, CopyBinary, CopyConfig,
         InstallUnit, CommandFails, Gateway, CreateDatabase, Outage, Recovery, vars, hostVars
<1>. QED  BY <1>2, <1>3, <1>7, <1>8, <1>9, <1>10, <1>11

LEMMA RunsInit == Init => RunsInv
<1>. SUFFICES ASSUME Init PROVE RunsInv
  OBVIOUS
<1>1. FilesInv
  <2>1. DOMAIN <<>> = {}
    OBVIOUS
  <2>2. \A h \in Hosts : DOMAIN files[h] = {}
    BY <2>1 DEF Init
  <2>. QED  BY <2>2 DEF FilesInv
<1>2. ProcessInv
  BY DEF Init, ProcessInv, GoodProcess, Off, ConfigRead
<1>3. ClusterInv /\ TiDBInv
  BY DEF Init, ClusterInv, TiDBInv, Off
<1>. QED  BY <1>1, <1>2, <1>3, FilesInit DEF RunsInv

LEMMA RunsStep == RunsInv /\ [Next]_vars => RunsInv'
BY DeploymentStep, FilesStep, ProcessesStep, ClusterStep, TiDBStep DEF RunsInv

LEMMA RunsInvariant == Spec => []RunsInv
BY RunsInit, RunsStep, PTL DEF Spec

\* A unit that systemd may start names a directory to which a binary and a configuration
\* were copied, whatever scripts were cut at whatever command (deploy-timongo.sh).
THEOREM UnitsHaveFiles == Spec => []UnitsAreComplete
<1>1. RunsInv => UnitsAreComplete
  BY DEF RunsInv, DeploymentInv, UnitsInv, UnitsAreComplete, Complete
<1>. QED  BY <1>1, RunsInvariant, PTL

\* The scripts, the hosts and their processes have their type: no host is copied to that
\* the topology in hand does not render, a host with a configuration has a binary, and a
\* process past its start has settings (deploy-timongo.sh, main.go).
THEOREM DeploymentTyping == Spec => []TypeOK
<1>1. RunsInv => TypeOK
  <2>. SUFFICES ASSUME RunsInv PROVE TypeOK
    OBVIOUS
  <2>1. /\ script.at \in Finished \union Copying \union {"split", "start", "render"}
        /\ script.at \in Copying => script.host \in DOMAIN Rendered(script.topology)
    BY DEF RunsInv, DeploymentInv, ScriptInv
  <2>2. Range(script.left) \subseteq Hosts
    BY DEF RunsInv, DeploymentInv, ScriptInv, Range
  <2>3. ASSUME NEW h \in Hosts
        PROVE  /\ process[h].at \in {"off", "starting", "connecting", "bootstrapping", "serving", "failed"}
               /\ process[h].at \in {"connecting", "bootstrapping", "serving"} => process[h].settings # <<>>
    <3>1. GoodProcess(h, process[h])
      BY DEF RunsInv, ProcessInv
    <3>2. ASSUME process[h].at \in ConfigRead PROVE DOMAIN process[h].settings # DOMAIN <<>>
      <4>1. DOMAIN process[h].settings = {"listen", "status", "tidb", "database"}
        BY <3>1, <3>2 DEF GoodProcess, HasRead
      <4>. QED  BY <4>1
    <3>. QED  BY <3>1, <3>2 DEF GoodProcess, ConfigRead
  <2>. QED  BY <2>1, <2>2, <2>3 DEF RunsInv, FilesInv, ClusterInv, TypeOK
<1>. QED  BY <1>1, RunsInvariant, PTL

\* Every gateway serves with the ports and the TiDB of a server that a topology declares
\* for its host: none is mixed from two of them, what a copy cut short lost is not made
\* up for by defaults, and half a port leads nowhere unless a TiDB listens there
\* (RenderTimongoFiles, LoadFile, buildTiDBDSN, NewStore).
THEOREM GatewaysRunAsDeclared == Spec => []RunsAsDeclared
<1>1. RunsInv => RunsAsDeclared
  <2>. SUFFICES ASSUME RunsInv, PortsApart, NEW h \in Hosts, process[h].at = "serving"
                PROVE  \E topology \in {t \in Topologies : Parses(t)} :
                         \E i \in DOMAIN Servers(topology) :
                           LET server == Servers(topology)[i]
                           IN /\ server.host = h
                              /\ process[h].settings.listen = server.port
                              /\ process[h].settings.status = server.status_port
                              /\ process[h].settings.tidb = <<server.tidb_host, server.tidb_port>>
    BY DEF RunsAsDeclared
  <2>1. PICK config : IsDeclared(h, config) /\ HasRead(process[h].settings, config)
    BY DEF RunsInv, ProcessInv, GoodProcess, ConfigRead
  <2>2. PICK topology \in {t \in Topologies : Parses(t)} :
          \E i \in DOMAIN Servers(topology) :
            Servers(topology)[i].host = h /\ config = ConfigOf(Servers(topology)[i])
    BY <2>1 DEF IsDeclared
  <2>3. PICK i \in DOMAIN Servers(topology) :
          Servers(topology)[i].host = h /\ config = ConfigOf(Servers(topology)[i])
    BY <2>2
  <2>. DEFINE server == Servers(topology)[i]
  <2>4. /\ config.listen = server.port /\ config.status = server.status_port
        /\ config.host = server.tidb_host /\ config.port = server.tidb_port
    BY <2>3 DEF ConfigOf
  <2>5. PICK port \in CutPorts(config) : process[h].settings.tidb = <<server.tidb_host, port>>
    BY <2>1, <2>4 DEF HasRead
  <2>6. PICK other \in Topologies : process[h].settings.tidb \in TiDBServers(other)
    BY DEF RunsInv, TiDBInv
  <2>7. port \notin FirstDigits(server.tidb_port)
    BY <2>5, <2>6 DEF PortsApart
  <2>8. port = server.tidb_port
    BY <2>4, <2>5, <2>7 DEF CutPorts
  <2>. QED  BY <2>1, <2>3, <2>4, <2>5, <2>8 DEF HasRead
<1>. QED  BY <1>1, RunsInvariant, PTL
=============================================================================
