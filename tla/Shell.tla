--------------------------------- MODULE Shell ---------------------------------
(***************************************************************************)
(* shell/shell.go: the tray process around two pairs of a Supervisor and a *)
(* Gateway.  The webui pair always exists; the loom pair exists when some  *)
(* datacenter of the configuration (module ShellConfig) has a loom_addr.   *)
(*                                                                         *)
(* Of a Supervisor this module keeps what the scan of module Selection     *)
(* reads, except for the clock: module Supervisor has the whole.  Of a     *)
(* Gateway it keeps the listener and the accept loop; module Gateway has   *)
(* its connections.                                                        *)
(***************************************************************************)
EXTENDS ShellConfig, Selection

CONSTANTS
  Files,        \* the configuration files the process may be started with
  OptionSets,   \* and the Options
  NoCluster,    \* the empty cluster name, ""
  MaxRank       \* bound: datacenters of a file

Services == {"webui", "loom"}

IsList(s) == s \in Seq(ToSet(s))

ASSUME ShellAssumption ==
  /\ MaxRank \in Nat
  /\ \A f \in Files :
       /\ IsList(f.endpoints) /\ IsList(f.clusters)
       /\ \A cl \in ToSet(f.clusters) : IsList(cl.dcs)
       /\ \A p \in Services : DOMAIN Members(f, p) \subseteq 1..MaxRank

VARIABLES
  file,         \* the configuration file of this process
  shell,        \* what New returned: "none" (not yet), "built", "failed"
  eps,          \* each pair's endpoints; a pair without any is not there
  ctxDone,      \* the context given to Run is cancelled
  prober,       \* each pair's Supervisor.Run: "off", "running", "stopped"
  listener,     \* each pair's g.ln: "none", "open", "closed"
  serve,        \* each pair's Serve: "off", "accepting", "returned"
  disabled,     \* each pair's endpoints that are disabled,
  healthy,      \*   that are healthy,
  active,       \*   and the one that is selected
  scope         \* auxiliary: the argument of the last SwitchCluster

built     == <<file, shell, eps>>
selection == <<disabled, healthy, active, scope>>
vars      == <<built, ctxDone, prober, listener, serve, selection>>

-------------------------------------------------------------------------------

Pairs == {p \in Services : eps[p] # <<>>}

RanksOfWebUI(p) == DOMAIN eps["webui"]   \* fault: the loom Supervisor is given eps

Ranks(p) == DOMAIN eps[p]

Quarantined(p, c) == {i \in Ranks(p) : c # NoCluster /\ eps[p][i].cluster # c}

Clusters == {e.cluster : e \in ToSet(eps["webui"])} \ {NoCluster}   \* the tray's menu

-------------------------------------------------------------------------------
(* The application's calls *)

(* LoadConfig, then New, which may fail on its configuration or on the     *)
(* webui's listener and leaves nothing; or on the way to the loom's, where *)
(* it reads the keys again, and leaves the webui's open; or succeeds.      *)
New ==
  /\ shell = "none"
  /\ \/ shell' = "failed" /\ UNCHANGED <<eps, listener>>
     \/ /\ LoadConfig(file) /\ \E opts \in OptionSets : PairBuilds(file, "webui", opts)
        /\ Members(file, "loom") # <<>>
        /\ shell' = "failed"
        /\ listener' = [listener EXCEPT !["webui"] = "open"]
        /\ UNCHANGED eps
     \/ /\ LoadConfig(file)
        /\ \E opts \in OptionSets : \A p \in Services : PairBuilds(file, p, opts)
        /\ shell' = "built"
        /\ eps' = [p \in Services |-> Endpoints(file, p)]
        /\ listener' = [p \in Services |-> IF eps'[p] = <<>> THEN "none" ELSE "open"]
  /\ UNCHANGED <<file, ctxDone, prober, serve, selection>>

Run ==                           \* returns when serve["webui"] has
  /\ shell = "built" /\ serve["webui"] = "off"
  /\ prober' = [p \in Services |-> IF p \in Pairs THEN "running" ELSE "off"]
  /\ serve' = [p \in Services |-> IF p \in Pairs THEN "accepting" ELSE "off"]
  /\ UNCHANGED <<built, ctxDone, listener, selection>>

(* reselectLocked of pair p.  How long an endpoint has been healthy is not *)
(* kept here: the hold-down may be over for any of them.                   *)
ReselectLocked(p, up, off) ==
  \E seasoned \in SUBSET up :
    active' = [active EXCEPT ![p] = Select(active[p], up, off, seasoned)]

SwitchCluster(c) ==              \* the webui's Supervisor.SetClusterFilter
  /\ shell = "built"
  /\ disabled' = [disabled EXCEPT !["webui"] = Quarantined("webui", c)]
  /\ ReselectLocked("webui", healthy["webui"], Quarantined("webui", c))
  /\ scope' = c
  /\ UNCHANGED <<built, ctxDone, prober, listener, serve, healthy>>

Close ==                         \* the webui's Gateway.Close
  /\ shell = "built" /\ listener["webui"] = "open"
  /\ listener' = [listener EXCEPT !["webui"] = "closed"]
  /\ UNCHANGED <<built, ctxDone, prober, serve, selection>>

Cancel ==
  /\ ~ctxDone
  /\ ctxDone' = TRUE
  /\ UNCHANGED <<built, prober, listener, serve, selection>>

-------------------------------------------------------------------------------
(* The goroutines of a pair *)

Round(p) ==                      \* Supervisor.round
  /\ prober[p] = "running"
  /\ \E up \in SUBSET Ranks(p) :
       /\ healthy' = [healthy EXCEPT ![p] = up]
       /\ ReselectLocked(p, up, disabled[p])
  /\ UNCHANGED <<built, ctxDone, prober, listener, serve, disabled, scope>>

ProberStops(p) ==                \* Supervisor.Run: case <-ctx.Done()
  /\ prober[p] = "running" /\ ctxDone
  /\ prober' = [prober EXCEPT ![p] = "stopped"]
  /\ UNCHANGED <<built, ctxDone, listener, serve, selection>>

CloserEndsWithServe(p) ==        \* fault: Serve stops its closer when it returns
  serve[p] = "accepting"

CloserWaits(p) == serve[p] # "off"

ContextCloses(p) ==              \* Serve's goroutine: <-ctx.Done(); g.Close()
  /\ CloserWaits(p) /\ ctxDone /\ listener[p] = "open"
  /\ listener' = [listener EXCEPT ![p] = "closed"]
  /\ UNCHANGED <<built, ctxDone, prober, serve, selection>>

AcceptFaults(p) ==               \* Serve gives up on a listener that is still open
  /\ serve[p] = "accepting" /\ listener[p] = "open"
  /\ serve' = [serve EXCEPT ![p] = "returned"]
  /\ UNCHANGED <<built, ctxDone, prober, listener, selection>>

ServeReturns(p) ==
  /\ serve[p] = "accepting" /\ listener[p] = "closed"
  /\ serve' = [serve EXCEPT ![p] = "returned"]
  /\ UNCHANGED <<built, ctxDone, prober, listener, selection>>

-------------------------------------------------------------------------------

Init ==
  /\ file \in Files
  /\ shell = "none"
  /\ eps = [p \in Services |-> <<>>]
  /\ ctxDone = FALSE
  /\ prober = [p \in Services |-> "off"]
  /\ listener = [p \in Services |-> "none"]
  /\ serve = [p \in Services |-> "off"]
  /\ disabled = [p \in Services |-> {}]
  /\ healthy = [p \in Services |-> {}]
  /\ active = [p \in Services |-> None]
  /\ scope = NoCluster

Application ==
  New \/ Run \/ Close \/ Cancel \/ \E c \in Clusters \cup {NoCluster} : SwitchCluster(c)

Pair(p) ==
  Round(p) \/ ProberStops(p) \/ ContextCloses(p) \/ AcceptFaults(p) \/ ServeReturns(p)

Next == Application \/ \E p \in Pairs : Pair(p)

Spec == Init /\ [][Next]_vars

(* The goroutines of Run run when they can.  A prober that is between two  *)
(* rounds when the context ends may run one more, hence the strong one.    *)
Fairness ==
  \A p \in Services :
    /\ SF_vars(ProberStops(p))
    /\ WF_vars(ContextCloses(p)) /\ WF_vars(ServeReturns(p))

FairSpec == Spec /\ Fairness

-------------------------------------------------------------------------------
(* Properties *)

(* Every variable holds a value of its type.                               *)
TypeOK ==
  /\ file \in Files
  /\ shell \in {"none", "built", "failed"}
  /\ ctxDone \in BOOLEAN
  /\ prober \in [Services -> {"off", "running", "stopped"}]
  /\ listener \in [Services -> {"none", "open", "closed"}]
  /\ serve \in [Services -> {"off", "accepting", "returned"}]
  /\ scope \in Clusters \cup {NoCluster}
  /\ \A p \in Services : /\ disabled[p] \cup healthy[p] \subseteq DOMAIN eps[p]
                         /\ active[p] \in DOMAIN eps[p] \cup {None}

Declared == ToSet(file.clusters) \cup {[name |-> Default, dcs |-> file.endpoints]}

(* The way to a service as the file declares it.                           *)
Declares(p, dc) ==
  LET service == CASE p = "loom"                        -> dc.loomAddr
                   [] p = "webui" /\ dc.kind = "ssh"    -> dc.webuiAddr
                   [] p = "webui" /\ dc.kind # "ssh"    -> dc.addr
  IN  IF dc.kind = "ssh" THEN <<dc.sshAddr, service>> ELSE <<service>>

(* A shell that was built leads every name in its lists to that            *)
(* datacenter's own service, and lists every datacenter that declares the  *)
(* service: through the legacy shape, the copies of the configuration and  *)
(* the second list, loom and webui are not mixed up and none is lost.  It  *)
(* trusts no SSH host without a known_hosts file.                          *)
Targets ==
  shell = "built" =>
    \A p \in Services :
      LET Wanted(cl) == {dc \in ToSet(cl.dcs) : p = "loom" => dc.loomAddr # NoAddr}
      IN  /\ {<<e.cluster, e.name, e.backend>> : e \in ToSet(eps[p])}
               = UNION {{<<cl.name, dc.name, Declares(p, dc)>> : dc \in Wanted(cl)} :
                          cl \in Declared}
          /\ \A cl \in Declared : \A dc \in Wanted(cl) :
               dc.kind = "ssh" => dc.hosts = "loaded"

(* After SwitchCluster the WebView's origin only leads to datacenters that *)
(* the configuration declares in that cluster, whatever shape it has and   *)
(* whatever rounds were running.                                           *)
OriginInCluster ==
  active["webui"] # None /\ scope # NoCluster
    => \E cl \in Declared :
         /\ cl.name = scope
         /\ eps["webui"][active["webui"]].name \in {dc.name : dc \in ToSet(cl.dcs)}

Stopped(p) == prober[p] = "stopped" /\ listener[p] = "closed" /\ serve[p] = "returned"

(* "Blocks until ctx is cancelled, then tears both down": once a context   *)
(* that Run was given ends, nothing of either pair is left, even if an     *)
(* Accept failed or the application called Close before.                   *)
Teardown == (ctxDone /\ serve["webui"] # "off") ~> \A p \in Pairs : Stopped(p)

(* The documented lifetime of the loom pair: "always a strict subset of    *)
(* the primary pair's".  So when Run has returned the loom gateway ends.   *)
LoomEndsWithPrimary ==
  (serve["webui"] = "returned" /\ serve["loom"] = "accepting") ~> serve["loom"] = "returned"

===============================================================================
