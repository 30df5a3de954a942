---------------------------- MODULE MCDeployment ----------------------------
(***************************************************************************)
(* Two hosts and four topologies, any of them deployed over any other: a   *)
(* gateway on each host; two gateways on one host, with other ports and    *)
(* directories, while the other host is left alone; a server without a     *)
(* TiDB; the first topology for a user that cannot read the files.         *)
(***************************************************************************)
EXTENDS Deployment, TLC

CONSTANTS north, south

Gate(host, port, dir, tidb) ==
  [host |-> host, port |-> port, status_port |-> port + 1000, deploy_dir |-> dir,
   tidb_host |-> tidb, tidb_port |-> 4000]

\* The directory is left to DeployDir.
Plain(host, port, tidb) ==
  [host |-> host, port |-> port, status_port |-> port + 1000, tidb_host |-> tidb, tidb_port |-> 4000]

Cluster(servers) ==
  [global |-> "tidb", tidb_servers |-> {<<"a", 4000>>, <<"b", 4000>>}, timongo_servers |-> servers]

Each == Cluster(<<Gate(north, 1, <<"old">>, "a"), Gate(south, 1, <<"old">>, "b")>>)
Both == Cluster(<<Plain(north, 2, "b"), Gate(north, 3, <<"old">>, "a")>>)
Half == Cluster(<<Gate(north, 1, <<"old">>, "a"), [host |-> south, port |-> 1, status_port |-> 1001]>>)
Foreign == [Each EXCEPT !.global = "mongo"]
Single == Cluster(<<Gate(north, 1, <<"old">>, "a")>>)

MCTopologies == {Each, Both, Half, Foreign}
OneServer == {Single}

\* Once a deployment has reported success and TiDB keeps running, every server of its
\* topology comes to serve: the script "renders timongo config and systemd units, copies
\* the binary to each timongo_servers host, and starts a stateless timongo.service"
\* (packaging/bundle/README.md:45-46).
DeployedServersServe == <>[](cluster = "running") =>
  \A topology \in Topologies : \A i \in DOMAIN Servers(topology) :
    LET server == Servers(topology)[i]
    IN (script.at = "done" /\ script.topology = topology)
         ~> (process[server.host].at = "serving" /\ process[server.host].settings.listen = server.port)
=============================================================================
