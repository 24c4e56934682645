------------------------------ MODULE Discovery -------------------------------
(***************************************************************************)
(* discovery/discovery.go and shell/discover.go: at every start the        *)
(* application resolves its datacenters, by the SRV records of the service *)
(* (the shell's Discover) or by the addresses of one name (A).  The order  *)
(* of the targets is the Supervisor's preference and their names are what  *)
(* the operator sees.  DNS answers in any order, and the zone changes      *)
(* between starts.                                                         *)
(*                                                                         *)
(* The Supervisor's other datacenters, those of a Discover whose base      *)
(* configuration has clusters of its own, follow the targets and are left  *)
(* out.                                                                    *)
(*                                                                         *)
(* A host name is kept as its first label and the rest; labels and         *)
(* addresses are numbers in the order of their text.  Answer and sort are  *)
(* one choice: among all orders of the zone's records, a sorted one.       *)
(***************************************************************************)
EXTENDS Integers, SequencesExt

CONSTANT Records    \* what the zone may hold: [label, domain, priority, addr]

ASSUME DiscoveryAssumption ==
  /\ IsFiniteSet(Records)
  /\ \A r \in Records : r.label \in Nat /\ r.priority \in Nat /\ r.addr \in Nat

VARIABLES
  kind,         \* how this application resolves: "SRV", "A"
  zone,         \* the records the zone holds
  endpoints,    \* the targets of the last successful start
  before        \* auxiliary: those of the successful start before that

vars == <<kind, zone, endpoints, before>>

Label(r) == r.label

Target(r) ==
  [name |-> Label(r), host |-> <<r.label, r.domain>>, priority |-> r.priority]

LessByPriority(t, u) == t.priority < u.priority    \* fault: no tie-break

Less(t, u) ==
  \/ t.priority < u.priority
  \/ t.priority = u.priority /\ t.name < u.name

(* sort.SliceStable of an answer in any order: none is Less than one that  *)
(* comes before it, and equal ones stay as they were answered.             *)
SortTargets(ts) == \A i, j \in DOMAIN ts : i < j => ~Less(ts[j], ts[i])

AnsweredOrder(addrs) == TRUE      \* fault: the addresses as DNS gave them

SortStrings(addrs) == \A i, j \in DOMAIN addrs : i < j => addrs[i] < addrs[j]

Start(targets) ==
  /\ endpoints' = targets
  /\ before' = endpoints
  /\ UNCHANGED <<kind, zone>>

SRV ==                      \* Discover; no targets is an error
  /\ kind = "SRV" /\ zone # {}
  /\ \E recs \in SetToSeqs(zone) :
       LET targets == [i \in DOMAIN recs |-> Target(recs[i])]
       IN  SortTargets(targets) /\ Start(targets)

A ==                        \* names are host#1, host#2, ...
  /\ kind = "A" /\ zone # {}
  /\ \E addrs \in SetToSeqs({r.addr : r \in zone}) :
       /\ SortStrings(addrs)
       /\ Start([i \in DOMAIN addrs |-> [name |-> i, host |-> addrs[i], priority |-> 0]])

ZoneChanges(r) ==           \* a datacenter is added or retired
  /\ zone' = IF r \in zone THEN zone \ {r} ELSE zone \cup {r}
  /\ UNCHANGED <<kind, endpoints, before>>

Init ==
  /\ kind \in {"SRV", "A"}
  /\ zone \in SUBSET Records
  /\ endpoints = <<>>
  /\ before = <<>>

Next == SRV \/ A \/ \E r \in Records : ZoneChanges(r)

Spec == Init /\ [][Next]_vars

-------------------------------------------------------------------------------
(* Properties *)

Hosts(targets) == {t.host : t \in ToSet(targets)}

Precedes(g, h, targets) ==
  \E i, j \in DOMAIN targets : i < j /\ targets[i].host = g /\ targets[j].host = h

(* Restarting never turns a preference around: of two datacenters that     *)
(* both starts found, the same one is preferred, whatever DNS answered and *)
(* whichever records came or went in between.  (Two of the same priority   *)
(* whose host names begin with the same label come in any order.)          *)
PreferenceKept ==
  \A t, u \in ToSet(before) :
    /\ Precedes(t.host, u.host, before)
    /\ t.priority # u.priority \/ t.name # u.name
    => ~Precedes(u.host, t.host, endpoints)

(* A datacenter's name is stable: an SRV target keeps it always, an        *)
(* address keeps it until an address that sorts before it comes or goes.   *)
NameKept ==
  LET Lower(t, targets) == {h \in Hosts(targets) : h < t.host}
  IN  \A t \in ToSet(before), u \in ToSet(endpoints) :
        /\ t.host = u.host
        /\ kind = "A" => Lower(t, before) = Lower(u, endpoints)
        => t.name = u.name

===============================================================================
