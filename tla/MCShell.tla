------------------------------- MODULE MCShell --------------------------------
(* Instances of Shell for TLC. *)
EXTENDS Shell

CONSTANTS paris, tokyo, old, p1, p2, t1, bastion, webui, loom

(* Every datacenter has addresses of its own, <<name, service>>.           *)
DC(name, kind, hasLoom) ==
  [name |-> name, kind |-> kind, key |-> "plain", hosts |-> "loaded",
   addr      |-> IF kind = "ssh" THEN NoAddr ELSE <<name, webui>>,
   sshAddr   |-> IF kind = "ssh" THEN <<name, bastion>> ELSE NoAddr,
   webuiAddr |-> IF kind = "ssh" THEN <<name, webui>> ELSE NoAddr,
   loomAddr  |-> IF hasLoom THEN <<name, loom>> ELSE NoAddr]

(* endpoints[] next to clusters[], loom in one datacenter of each of two.  *)
Mixed ==
  [endpoints |-> <<DC(old, "direct", FALSE)>>,
   clusters  |-> <<[name |-> paris, dcs |-> <<DC(p1, "ssh", TRUE), DC(p2, "ssh", FALSE)>>],
                   [name |-> tokyo, dcs |-> <<DC(t1, "wireguard", TRUE)>>]>>,
   interval  |-> "string", holdDown |-> "absent"]

Legacy ==
  [endpoints |-> <<[DC(p1, "ssh", FALSE) EXCEPT !.key = "encrypted"], DC(t1, "direct", TRUE)>>,
   clusters  |-> <<>>,
   interval  |-> "number", holdDown |-> "null"]

(* Files that New or LoadConfig refuses, one for each reason.              *)
Refused ==
  {[Legacy EXCEPT !.endpoints = <<>>],
   [Mixed EXCEPT !.clusters[2].dcs = <<>>],
   [Mixed EXCEPT !.interval = "text"],
   [Mixed EXCEPT !.holdDown = "other"],
   [Mixed EXCEPT !.clusters[1].dcs[2].hosts = "missing"],
   [Mixed EXCEPT !.clusters[1].dcs[2].key = "unreadable"],
   [Mixed EXCEPT !.clusters[1].dcs[2].webuiAddr = NoAddr],
   [Mixed EXCEPT !.clusters[2].dcs[1].addr = NoAddr]}

AllFiles == {Mixed, Legacy} \cup Refused
OneFile  == {Mixed}

AllOptions == [mesh : BOOLEAN, passphrase : {"none", "right"}]
OneOption  == {[mesh |-> TRUE, passphrase |-> "right"]}
===============================================================================
