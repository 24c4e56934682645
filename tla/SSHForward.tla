------------------------------ MODULE SSHForward ------------------------------
(***************************************************************************)
(* transport/ssh.go: one SSH client per datacenter, established lazily,    *)
(* cached in s.client under s.mu and shared by every Dial: the probe       *)
(* goroutine's, which carries a deadline, and the gateway handlers', which *)
(* carry the application's context only.                                   *)
(*                                                                         *)
(* A client is a number, reused once nothing refers to it any more.        *)
(* golang.org/x/crypto/ssh is external: NewClientConn has no deadline of   *)
(* its own, DialContext returns when its context ends or the client is     *)
(* closed, and Close cuts every channel of the client.                     *)
(***************************************************************************)
EXTENDS Integers

CONSTANTS
  Probers,      \* callers whose context has a deadline
  Handlers,     \* callers whose context has none
  Closers,      \* callers that may call Close
  Nobody,       \* s.mu is free
  MaxClients,   \* bound: SSH clients that are referred to at a time
  MayStall      \* whether the SSH host may accept TCP and then stay silent

ASSUME SSHForwardAssumption ==
  /\ Probers \cap Handlers = {}
  /\ Nobody \notin Probers \cup Handlers
  /\ Closers \subseteq Probers \cup Handlers
  /\ MaxClients \in Nat \ {0}
  /\ MayStall \in BOOLEAN

Callers  == Probers \cup Handlers
Clients  == 1..MaxClients
NoClient == 0                 \* nil

VARIABLES
  mu,           \* who holds s.mu across several steps, or Nobody
  client,       \* s.client
  pc,           \* each caller: "idle", "connecting", "dialing", "shaking",
                \*   "opening", "open", "failed" (about to drop), "closing"
  used,         \* the client connect gave to the caller
  victim,       \* the client dropClient took out of s.client
  late,         \* callers whose deadline has passed
  link,         \* each client's connection: "live", "hung", "dead"
  host,         \* the SSH host: "up", "down", "stalled"
  webui         \* the forward's target answers

calls == <<pc, used, victim, late>>
net   == <<link, host, webui>>
vars  == <<mu, client, calls, net>>

Unused == {n \in Clients : n # client /\ \A c \in Callers : n \notin {used[c], victim[c]}}

Goto(c, label) == pc' = [pc EXCEPT ![c] = label]

(* The caller returns an error, or is through with its connection.         *)
Return(c) ==
  /\ Goto(c, "idle")
  /\ used' = [used EXCEPT ![c] = NoClient]
  /\ late' = late \ {c}

-------------------------------------------------------------------------------
(* Dial.  Probe is Dial with a deadline, then Close of the connection.     *)

Call(c) ==
  /\ pc[c] = "idle"
  /\ Goto(c, "connecting")
  /\ UNCHANGED <<mu, client, used, victim, late, net>>

ConnectCached(c) ==           \* connect: the client is there already
  /\ pc[c] = "connecting" /\ mu = Nobody /\ client # NoClient
  /\ used' = [used EXCEPT ![c] = client]
  /\ Goto(c, "opening")
  /\ UNCHANGED <<mu, client, victim, late, net>>

HolderWhileTesting(c) == Nobody    \* fault: s.mu is released before dialing

Holder(c) == c

ConnectNew(c) ==              \* connect: dial with s.mu held
  /\ pc[c] = "connecting" /\ mu = Nobody /\ client = NoClient
  /\ mu' = Holder(c)
  /\ Goto(c, "dialing")
  /\ UNCHANGED <<client, used, victim, late, net>>

TCPConnects(c) ==
  /\ pc[c] = "dialing" /\ host # "down" /\ c \notin late
  /\ Goto(c, "shaking")
  /\ UNCHANGED <<mu, client, used, victim, late, net>>

HandshakeDone(c) ==           \* NewClientConn succeeds
  /\ pc[c] = "shaking" /\ host = "up" /\ Unused # {}
  /\ LET n == CHOOSE m \in Unused : TRUE IN
     /\ link' = [link EXCEPT ![n] = "live"]
     /\ client' = n
     /\ used' = [used EXCEPT ![c] = n]
  /\ Goto(c, "opening")
  /\ mu' = Nobody
  /\ UNCHANGED <<victim, late, host, webui>>

(* The dial fails or times out, or the handshake fails, which knows of no  *)
(* deadline.  The third way out, no HostKey callback, is left out: every   *)
(* SSHForward is made by the shell's buildBackend, which sets one.         *)
ConnectFails(c) ==
  /\ \/ pc[c] = "dialing" /\ (host = "down" \/ c \in late)
     \/ pc[c] = "shaking" /\ host = "down"
  /\ Return(c)
  /\ mu' = Nobody
  /\ UNCHANGED <<client, victim, net>>

ChannelOpens(c) ==            \* client.DialContext
  /\ pc[c] = "opening" /\ link[used[c]] = "live" /\ webui /\ c \notin late
  /\ Goto(c, "open")
  /\ UNCHANGED <<mu, client, used, victim, late, net>>

RefusedWithoutContext(c) ==   \* fault: the context is not passed to the forward
  link[used[c]] = "dead" \/ (link[used[c]] = "live" /\ ~webui)

Refused(c) ==
  link[used[c]] = "dead" \/ (link[used[c]] = "live" /\ ~webui) \/ c \in late

ChannelFails(c) ==
  /\ pc[c] = "opening" /\ Refused(c)
  /\ Goto(c, "failed")
  /\ UNCHANGED <<mu, client, used, victim, late, net>>

HangUp(c) ==                  \* the connection's user closes it
  /\ pc[c] = "open"
  /\ Return(c)
  /\ UNCHANGED <<mu, client, victim, net>>

-------------------------------------------------------------------------------
(* dropClient, by a Dial that failed or by Close *)

TakenNever == NoClient        \* fault: the client is forgotten, not closed

Taken == client

CachedAfterDropKept == client \* fault: the client is closed, not forgotten

CachedAfterDrop == NoClient

DropClient(c) ==              \* the part under s.mu
  /\ pc[c] = "failed" /\ mu = Nobody
  /\ victim' = [victim EXCEPT ![c] = Taken]
  /\ client' = CachedAfterDrop
  /\ Goto(c, "closing")
  /\ UNCHANGED <<mu, used, late, net>>

CloseClient(c) ==             \* c.Close, then the caller returns
  /\ pc[c] = "closing"
  /\ link' = [n \in Clients |-> IF n = victim[c] THEN "dead" ELSE link[n]]
  /\ victim' = [victim EXCEPT ![c] = NoClient]
  /\ Return(c)
  /\ UNCHANGED <<mu, client, host, webui>>

CloseBackend(c) ==            \* Close
  /\ c \in Closers /\ pc[c] = "idle"
  /\ Goto(c, "failed")
  /\ UNCHANGED <<mu, client, used, victim, late, net>>

-------------------------------------------------------------------------------
(* The environment: deadlines, and the network between device and SSH host *)

HasDeadlineAlways(c) == TRUE   \* fault: Dial sets the deadline, not Probe

HasDeadline(c) == c \in Probers

Deadline(c) ==
  /\ HasDeadline(c) /\ c \notin late
  /\ pc[c] \in {"connecting", "dialing", "shaking", "opening"}
  /\ late' = late \cup {c}
  /\ UNCHANGED <<mu, client, pc, used, victim, net>>

LinkFails(n) ==               \* with a reset, or silently
  /\ link[n] = "live"
  /\ \E s \in {"hung", "dead"} : link' = [link EXCEPT ![n] = s]
  /\ UNCHANGED <<mu, client, pc, used, victim, late, host, webui>>

HostChanges ==                \* a host that stalls stays so
  /\ host # "stalled"
  /\ host' \in {"up", "down"} \cup {s \in {"stalled"} : MayStall}
  /\ webui' \in BOOLEAN
  /\ host' # host \/ webui' # webui
  /\ UNCHANGED <<mu, client, pc, used, victim, late, link>>

-------------------------------------------------------------------------------

Init ==
  /\ mu = Nobody
  /\ client = NoClient
  /\ pc = [c \in Callers |-> "idle"]
  /\ used = [c \in Callers |-> NoClient]
  /\ victim = [c \in Callers |-> NoClient]
  /\ late = {}
  /\ link = [n \in Clients |-> "dead"]
  /\ host = "up"
  /\ webui = TRUE

Lock(c)    == ConnectCached(c) \/ ConnectNew(c)
Dial(c)    == TCPConnects(c) \/ HandshakeDone(c) \/ ConnectFails(c)
Forward(c) == ChannelOpens(c) \/ ChannelFails(c)

Next ==
  \/ \E c \in Callers :
       \/ Call(c) \/ Lock(c) \/ Dial(c) \/ Forward(c) \/ HangUp(c)
       \/ DropClient(c) \/ CloseClient(c) \/ CloseBackend(c) \/ Deadline(c)
  \/ \E n \in Clients : LinkFails(n)
  \/ HostChanges

Spec == Init /\ [][Next]_vars

(* A goroutine that can run runs; Go's mutex starves nobody, hence strong  *)
(* fairness of the steps that take it; a deadline passes; the prober calls *)
(* again and closes what it opened.                                        *)
Fairness ==
  /\ \A c \in Callers :
       /\ SF_vars(Lock(c)) /\ SF_vars(DropClient(c))
       /\ WF_vars(Dial(c)) /\ WF_vars(Forward(c)) /\ WF_vars(CloseClient(c))
  /\ \A c \in Probers : WF_vars(Call(c)) /\ WF_vars(Deadline(c)) /\ WF_vars(HangUp(c))

FairSpec == Spec /\ Fairness

-------------------------------------------------------------------------------
(* Properties *)

(* Every variable holds a value of its type.                               *)
TypeOK ==
  /\ mu \in Callers \cup {Nobody}
  /\ client \in Clients \cup {NoClient}
  /\ pc \in [Callers -> {"idle", "connecting", "dialing", "shaking", "opening", "open",
                         "failed", "closing"}]
  /\ used \in [Callers -> Clients \cup {NoClient}]
  /\ victim \in [Callers -> Clients \cup {NoClient}]
  /\ late \in SUBSET Probers
  /\ link \in [Clients -> {"live", "hung", "dead"}]
  /\ host \in {"up", "down", "stalled"}
  /\ webui \in BOOLEAN

(* No SSH connection is orphaned: one that is not closed is the cached one *)
(* or about to be closed by a goroutine that took it out, however Dials    *)
(* and drops interleave.                                                   *)
NoOrphanClient ==
  \A n \in Clients :
    link[n] # "dead" => n = client \/ \E c \in Callers : victim[c] = n

(* One handshake at a time: Dials that find no client share the first      *)
(* one's instead of each opening its own.                                  *)
SharedHandshake ==
  \A c, d \in Callers :
    pc[c] \in {"dialing", "shaking"} /\ pc[d] \in {"dialing", "shaking"} => c = d

Busy(c) == pc[c] \in {"connecting", "dialing", "shaking", "opening", "failed", "closing"}

(* A Dial without a deadline does not hang on a link that died silently:   *)
(* the next probe meets its own deadline on the same client, drops it, and *)
(* so releases every Dial that waits on it.                                *)
DialsReturn == \A c \in Callers : Busy(c) ~> ~Busy(c)

(* The documented contract of Backend.Probe: "bounded by the context       *)
(* deadline".                                                              *)
ProbeBounded == \A c \in Probers : (c \in late) ~> (pc[c] = "idle")

===============================================================================
