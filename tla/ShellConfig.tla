------------------------------ MODULE ShellConfig ------------------------------
(***************************************************************************)
(* shell/shell.go: how a configuration file becomes two lists of           *)
(* endpoints, one leading to weft-webui and one to weft-loom-server.       *)
(*                                                                         *)
(* A file is [clusters : Seq of [name, dcs], endpoints : Seq of dc,        *)
(* interval, holdDown].  A dc (DCConfig and the legacy EndpointConfig) is  *)
(* [name, kind, addr, sshAddr, webuiAddr, loomAddr, key, hosts], where key *)
(* and hosts say what is found at key_path and known_hosts_path.  User and *)
(* display names are left out.                                             *)
(***************************************************************************)
EXTENDS Integers, SequencesExt

CONSTANTS
  Default,      \* the cluster that wraps endpoints[], "default"
  NoAddr        \* an address that is not set, ""

-------------------------------------------------------------------------------
(* Durations.  A JSON value is "absent", "null", a "string" that           *)
(* time.ParseDuration reads, an "empty" string, a "text" it does not read, *)
(* a "number" that is an int64, or "other".  What the duration is is left  *)
(* to the Supervisor, whose withDefaults replaces it unless positive.      *)

Decodable(raw) == raw \notin {"text", "other"}

LoadConfig(f) == Decodable(f.interval) /\ Decodable(f.holdDown)   \* succeeds

-------------------------------------------------------------------------------
(* Transports.  An option set is [mesh : MeshDialer is given, passphrase : *)
(* what SSHPassphrase does: "none" (nil), "wrong" (or fails), "right"].    *)

LoadSigner(key, opts) ==
  key = "plain" \/ (key = "encrypted" /\ opts.passphrase = "right")

HostKeyCallback(hosts) == hosts = "loaded"

Builds(ec, opts) ==        \* buildBackend returns no error
  \/ ec.kind = "direct" /\ ec.addr # NoAddr
  \/ /\ ec.kind = "ssh" /\ NoAddr \notin {ec.sshAddr, ec.webuiAddr}
     /\ LoadSigner(ec.key, opts) /\ HostKeyCallback(ec.hosts)
  \/ ec.kind = "wireguard" /\ opts.mesh /\ ec.addr # NoAddr

BuildBackend(ec) ==        \* the addresses it dials: the device, then the host
  IF ec.kind = "ssh" THEN <<ec.sshAddr, ec.webuiAddr>> ELSE <<ec.addr>>

EndpointConfig(dc, addr, webuiAddr) ==
  [name |-> dc.name, kind |-> dc.kind, key |-> dc.key, hosts |-> dc.hosts,
   addr |-> addr, sshAddr |-> dc.sshAddr, webuiAddr |-> webuiAddr, loomAddr |-> NoAddr]

DcToLegacy(dc) == EndpointConfig(dc, dc.addr, dc.webuiAddr)

DcToLegacyLoomSSHOnly(dc) ==     \* fault: as the comment says, only WebUIAddr
  EndpointConfig(dc, dc.addr, dc.loomAddr)

DcToLegacyLoom(dc) == EndpointConfig(dc, dc.loomAddr, dc.loomAddr)

-------------------------------------------------------------------------------
(* Endpoints: an index is a rank *)

NormalisedClusters(f) ==
  IF f.endpoints = <<>> THEN f.clusters
  ELSE <<[name |-> Default, dcs |-> f.endpoints]>> \o f.clusters

Serves(dc, p) == p = "webui" \/ dc.loomAddr # NoAddr

(* Where the file has the datacenters of a service, <<cluster, index>>,    *)
(* and the order of New's two nested loops over them.                      *)
Places(f, p) ==
  LET cls == NormalisedClusters(f)
  IN  {pl \in UNION {{k} \X DOMAIN cls[k].dcs : k \in DOMAIN cls} :
         Serves(cls[pl[1]].dcs[pl[2]], p)}

Before(pl, q) == pl[1] < q[1] \/ (pl[1] = q[1] /\ pl[2] < q[2])

Ahead(places, pl) == {q \in places : Before(q, pl)}

PlaceAt(places, rank) ==
  CHOOSE pl \in places : Cardinality(Ahead(places, pl)) = rank - 1

(* The datacenters that New makes an endpoint of, with their clusters.     *)
Members(f, p) ==
  LET Member(pl) ==
        LET cl == NormalisedClusters(f)[pl[1]] IN [cluster |-> cl.name, dc |-> cl.dcs[pl[2]]]
  IN  [rank \in 1..Cardinality(Places(f, p)) |-> Member(PlaceAt(Places(f, p), rank))]

EndpointUnlabelled(m, ec) ==     \* fault: a fixed cluster name for every endpoint
  [name |-> m.dc.name, cluster |-> Default, backend |-> BuildBackend(ec)]

Endpoint(m, ec) ==
  [name |-> m.dc.name, cluster |-> m.cluster, backend |-> BuildBackend(ec)]

ToLegacy(dc, p) == IF p = "webui" THEN DcToLegacy(dc) ELSE DcToLegacyLoom(dc)

Endpoints(f, p) ==
  LET ms == Members(f, p) IN [i \in DOMAIN ms |-> Endpoint(ms[i], ToLegacy(ms[i].dc, p))]

(* New gets as far as the listener of pair p.                              *)
PairBuilds(f, p, opts) ==
  /\ NormalisedClusters(f) # <<>>
  /\ \A cl \in ToSet(NormalisedClusters(f)) : cl.dcs # <<>>
  /\ \A m \in ToSet(Members(f, p)) : Builds(ToLegacy(m.dc, p), opts)

===============================================================================
