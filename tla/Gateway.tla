------------------------------- MODULE Gateway --------------------------------
(***************************************************************************)
(* failover/gateway.go: the loopback listener that proxies each accepted   *)
(* connection to the datacenter the Supervisor considers active.  One      *)
(* goroutine accepts, one waits for the context to end, one handles each   *)
(* connection and starts two that copy, one per direction; Close may also  *)
(* be called by the application.                                           *)
(*                                                                         *)
(* A direction is named after its source.  Bytes are counted, not          *)
(* inspected.  The Supervisor is reduced to Active, which may change at    *)
(* any time, a transport (package transport) to what its Dial lets the     *)
(* handler wait for: a datacenter may stay silent, and SSHForward's Dial   *)
(* may wait for another caller's handshake (module SSHForward has both).   *)
(***************************************************************************)
EXTENDS Integers

CONSTANTS
  DC,           \* datacenters
  Direct,       \* those reached by DirectTCP,
  Mesh,         \*   those reached by WireGuard; the others by SSHForward
  None,         \* Active reports that every datacenter is down
  Conns,        \* connections the WebView may open
  AppClosers,   \* application goroutines that call Close
  CtxCloser,    \* Serve's goroutine that calls Close when the context ends
  MaxBytes      \* bound: bytes each peer of a connection sends

ASSUME GatewayAssumption ==
  /\ None \notin DC
  /\ Direct \cup Mesh \subseteq DC
  /\ CtxCloser \notin AppClosers
  /\ MaxBytes \in Nat

Closers == AppClosers \cup {CtxCloser}
Peers   == {"client", "upstream"}
Other(p) == IF p = "client" THEN "upstream" ELSE "client"

VARIABLES
  active,       \* what Supervisor.Active returns
  ctxDone,      \* the context given to Serve is cancelled
  closed,       \* g.closed
  listener,     \* g.ln: "open" or "closed"
  serve,        \* Serve: "accepting", "failed" (Accept did), "nil", "error"
  acceptFault,  \* auxiliary: Accept failed on an open listener
  closer,       \* each caller of Close: "waiting", "marked", "returned"
  conn,         \* "none", "backlog", "routing", "dialing", "overdue" (dialing for
                \*   longer than DialTimeout), "proxying", "closed"
  dc,           \* the datacenter that handle dials
  sent,         \* sent[k][p]: bytes p has written into connection k
  copied,       \* copied[k][p]: those that were written to the other peer
  peer,         \* "open", "finished" (closed its writing side), "gone"
  copier        \* the goroutine copying from p: "off", "running", "done"

control == <<ctxDone, closed, listener, serve, acceptFault, closer>>
traffic == <<sent, copied, peer, copier>>
vars == <<active, control, conn, dc, traffic>>

-------------------------------------------------------------------------------
(* Close *)

Called(c) == IF c = CtxCloser THEN ctxDone ELSE TRUE

MarkClosed(c) ==                 \* the part under g.mu
  /\ closer[c] = "waiting" /\ Called(c)
  /\ closer' = [closer EXCEPT ![c] = IF closed THEN "returned" ELSE "marked"]
  /\ closed' = TRUE
  /\ UNCHANGED <<active, ctxDone, listener, serve, acceptFault, conn, dc, traffic>>

CloseListener(c) ==              \* ln.Close resets what was not accepted
  /\ closer[c] = "marked"
  /\ closer' = [closer EXCEPT ![c] = "returned"]
  /\ listener' = "closed"
  /\ conn' = [k \in Conns |-> IF conn[k] = "backlog" THEN "closed" ELSE conn[k]]
  /\ UNCHANGED <<active, ctxDone, closed, serve, acceptFault, dc, traffic>>

-------------------------------------------------------------------------------
(* Serve *)

Accept(k) ==
  /\ serve = "accepting" /\ listener = "open" /\ conn[k] = "backlog"
  /\ conn' = [conn EXCEPT ![k] = "routing"]
  /\ UNCHANGED <<active, control, dc, traffic>>

AcceptFails ==
  /\ serve = "accepting" /\ listener = "closed"
  /\ serve' = "failed"
  /\ UNCHANGED <<active, ctxDone, closed, listener, acceptFault, closer, conn, dc, traffic>>

AcceptFaults ==                  \* out of descriptors, say
  /\ serve = "accepting" /\ listener = "open"
  /\ serve' = "failed"
  /\ acceptFault' = TRUE
  /\ UNCHANGED <<active, ctxDone, closed, listener, closer, conn, dc, traffic>>

StoppedByContext == ctxDone      \* fault: forgets that Close may be called by the application

StoppedOnPurpose == closed

ServeReturns ==
  /\ serve = "failed"
  /\ serve' = IF StoppedOnPurpose THEN "nil" ELSE "error"
  /\ UNCHANGED <<active, ctxDone, closed, listener, acceptFault, closer, conn, dc, traffic>>

-------------------------------------------------------------------------------
(* handle *)

Route(k) ==
  /\ conn[k] = "routing"
  /\ conn' = [conn EXCEPT ![k] = IF active = None THEN "closed" ELSE "dialing"]
  /\ dc' = [dc EXCEPT ![k] = active]
  /\ UNCHANGED <<active, control, traffic>>

Dialing(k) == conn[k] \in {"dialing", "overdue"}

DialReturns(k, label) ==
  /\ conn' = [conn EXCEPT ![k] = label]
  /\ dc' = [dc EXCEPT ![k] = None]

DialSucceeds(k) ==
  /\ Dialing(k)
  /\ DialReturns(k, "proxying")
  /\ copier' = [copier EXCEPT ![k] = [p \in Peers |-> "running"]]
  /\ UNCHANGED <<active, control, sent, copied, peer>>

DialFails(k) ==                  \* refused or unreachable, or connect returned an error
  /\ Dialing(k)
  /\ DialReturns(k, "closed")
  /\ UNCHANGED <<active, control, traffic>>

(* DirectTCP and WireGuard dial with the handler's context.  SSHForward    *)
(* waits for s.mu and for the handshake without looking at it, so its Dial *)
(* may outlast the context, and for good.                                  *)
HeedsContext(d) == d \in Direct \cup Mesh

DialAborts(k) ==                 \* the context ends a Dial that heeds it
  /\ Dialing(k) /\ ctxDone /\ HeedsContext(dc[k])
  /\ DialReturns(k, "closed")
  /\ UNCHANGED <<active, control, traffic>>

BoundsOnlyProbe(d) == FALSE      \* fault: the timeout is in Probe, not in Dial

(* DirectTCP's Dial gives its dialer the timeout; WireGuard's sets none,   *)
(* and SSHForward's bounds only its TCP connect.                           *)
BoundsDial(d) == d \in Direct

DialTimeoutPasses(k) ==
  /\ conn[k] = "dialing"
  /\ IF BoundsDial(dc[k]) THEN DialReturns(k, "closed")
     ELSE conn' = [conn EXCEPT ![k] = "overdue"] /\ UNCHANGED dc
  /\ UNCHANGED <<active, control, traffic>>

UnreadOffByOne(k, p) == copied[k][p] <= sent[k][p]   \* fault

Unread(k, p) == copied[k][p] < sent[k][p]

Copy(k, p) ==                    \* io.Copy moves a byte
  /\ copier[k][p] = "running" /\ Unread(k, p)
  /\ peer[k][p] # "gone" /\ peer[k][Other(p)] # "gone"
  /\ copied' = [copied EXCEPT ![k][p] = @ + 1]
  /\ UNCHANGED <<active, control, conn, dc, sent, peer, copier>>

ExhaustedAtEof(k, p) ==          \* fault: a reset connection is not an end
  peer[k][p] = "finished" /\ ~Unread(k, p)

(* io.Copy returns: end of file, a read error, or a write error.           *)
Exhausted(k, p) ==
  \/ peer[k][p] = "finished" /\ ~Unread(k, p)
  \/ peer[k][p] = "gone"
  \/ peer[k][Other(p)] = "gone" /\ Unread(k, p)

CopyEnds(k, p) ==                \* then CloseWrite and done <- struct{}{}
  /\ copier[k][p] = "running" /\ Exhausted(k, p)
  /\ copier' = [copier EXCEPT ![k][p] = "done"]
  /\ UNCHANGED <<active, control, conn, dc, sent, copied, peer>>

OneDirectionDone(k) ==           \* fault: the first direction to finish ends it
  \E p \in Peers : copier[k][p] = "done"

NeverCancelled(k) ==             \* fault: the wait does not select on ctx.Done
  \A p \in Peers : copier[k][p] = "done"

MayReturn(k) == ctxDone \/ \A p \in Peers : copier[k][p] = "done"

HandleReturns(k) ==              \* the deferred Closes end both connections
  /\ conn[k] = "proxying" /\ MayReturn(k)
  /\ conn' = [conn EXCEPT ![k] = "closed"]
  /\ copier' = [copier EXCEPT ![k] = [p \in Peers |-> "done"]]
  /\ UNCHANGED <<active, control, dc, sent, copied, peer>>

-------------------------------------------------------------------------------
(* The environment: the Supervisor, the WebView and the datacenters *)

Reselect ==
  /\ active' \in (DC \cup {None}) \ {active}
  /\ UNCHANGED <<control, conn, dc, traffic>>

Cancel ==
  /\ ~ctxDone
  /\ ctxDone' = TRUE
  /\ UNCHANGED <<active, closed, listener, serve, acceptFault, closer, conn, dc, traffic>>

Connect(k) ==
  /\ conn[k] = "none" /\ listener = "open"
  /\ conn' = [conn EXCEPT ![k] = "backlog"]
  /\ UNCHANGED <<active, control, dc, traffic>>

Send(k, p) ==
  /\ conn[k] = "proxying" /\ peer[k][p] = "open" /\ sent[k][p] < MaxBytes
  /\ sent' = [sent EXCEPT ![k][p] = @ + 1]
  /\ UNCHANGED <<active, control, conn, dc, copied, peer, copier>>

Finish(k, p) ==
  /\ conn[k] = "proxying" /\ peer[k][p] = "open"
  /\ peer' = [peer EXCEPT ![k][p] = "finished"]
  /\ UNCHANGED <<active, control, conn, dc, sent, copied, copier>>

Vanish(k, p) ==                  \* a reset, or a process that dies
  /\ conn[k] = "proxying" /\ peer[k][p] # "gone"
  /\ peer' = [peer EXCEPT ![k][p] = "gone"]
  /\ UNCHANGED <<active, control, conn, dc, sent, copied, copier>>

-------------------------------------------------------------------------------

Init ==                          \* NewGateway, then Serve
  /\ active \in DC \cup {None}
  /\ ctxDone = FALSE
  /\ closed = FALSE
  /\ listener = "open"
  /\ serve = "accepting"
  /\ acceptFault = FALSE
  /\ closer = [c \in Closers |-> "waiting"]
  /\ conn = [k \in Conns |-> "none"]
  /\ dc = [k \in Conns |-> None]
  /\ sent = [k \in Conns |-> [p \in Peers |-> 0]]
  /\ copied = [k \in Conns |-> [p \in Peers |-> 0]]
  /\ peer = [k \in Conns |-> [p \in Peers |-> "open"]]
  /\ copier = [k \in Conns |-> [p \in Peers |-> "off"]]

Close == \E c \in Closers : MarkClosed(c) \/ CloseListener(c)

Serve == AcceptFails \/ AcceptFaults \/ ServeReturns \/ \E k \in Conns : Accept(k)

Handle(k) ==
  \/ Route(k) \/ HandleReturns(k)
  \/ DialSucceeds(k) \/ DialFails(k) \/ DialAborts(k) \/ DialTimeoutPasses(k)
  \/ \E p \in Peers : Copy(k, p) \/ CopyEnds(k, p)

Environment ==
  \/ Reselect \/ Cancel
  \/ \E k \in Conns : Connect(k) \/ \E p \in Peers : Send(k, p) \/ Finish(k, p) \/ Vanish(k, p)

Next == Close \/ Serve \/ (\E k \in Conns : Handle(k)) \/ Environment

Spec == Init /\ [][Next]_vars

(* The gateway's goroutines run when they can, timeouts pass and a Dial    *)
(* that heeds its context ends with it.  Nothing obliges a datacenter to   *)
(* answer a Dial, an SSH Dial to return, a peer, the Supervisor or the     *)
(* application to do anything.                                             *)
Fairness ==
  /\ WF_vars(AcceptFails) /\ WF_vars(ServeReturns) /\ WF_vars(MarkClosed(CtxCloser))
  /\ \A c \in Closers : WF_vars(CloseListener(c))
  /\ \A k \in Conns :
       /\ WF_vars(Accept(k)) /\ WF_vars(Route(k)) /\ WF_vars(HandleReturns(k))
       /\ WF_vars(DialAborts(k)) /\ WF_vars(DialTimeoutPasses(k))
       /\ \A p \in Peers : WF_vars(Copy(k, p)) /\ WF_vars(CopyEnds(k, p))

FairSpec == Spec /\ Fairness

-------------------------------------------------------------------------------
(* Properties *)

(* Every variable holds a value of its type.                               *)
TypeOK ==
  /\ active \in DC \cup {None}
  /\ {ctxDone, closed, acceptFault} \subseteq BOOLEAN
  /\ listener \in {"open", "closed"}
  /\ serve \in {"accepting", "failed", "nil", "error"}
  /\ closer \in [Closers -> {"waiting", "marked", "returned"}]
  /\ conn \in [Conns -> {"none", "backlog", "routing", "dialing", "overdue", "proxying",
                       "closed"}]
  /\ dc \in [Conns -> DC \cup {None}]
  /\ sent \in [Conns -> [Peers -> 0..MaxBytes]]
  /\ copied \in [Conns -> [Peers -> 0..MaxBytes]]
  /\ peer \in [Conns -> [Peers -> {"open", "finished", "gone"}]]
  /\ copier \in [Conns -> [Peers -> {"off", "running", "done"}]]

(* "Returns nil on ctx cancel / Close": however Close, the context and the *)
(* accept loop interleave, Serve reports an error only if Accept failed on *)
(* its own account.                                                        *)
OrderlyStop == serve = "error" => acceptFault

(* "Wait for both directions to finish so we don't truncate an in-flight   *)
(* transfer when one side closes first": a direction ends with bytes of a  *)
(* peer undelivered only if a peer vanished or the context ended.          *)
NoTruncation ==
  \A k \in Conns, p \in Peers :
    copier[k][p] = "done" /\ ~ctxDone /\ (\A q \in Peers : peer[k][q] # "gone")
      => peer[k][p] = "finished" /\ copied[k][p] = sent[k][p]

Drained ==
  /\ serve \in {"nil", "error"}
  /\ \A k \in Conns :
       conn[k] \in {"none", "closed"} \/ (Dialing(k) /\ ~HeedsContext(dc[k]))

(* Cancelling the context ends Serve and every connection, whatever state  *)
(* it catches them in, except for one: a handler may stay in a Dial that   *)
(* does not look at the context, and if that Dial returns late, with a     *)
(* connection even, the handler ends too.  (An Accept that failed earlier  *)
(* has ended Serve already; the context goroutine still closes the         *)
(* listener, and with it the connections that nobody accepted.)            *)
CancelDrains == ctxDone ~> Drained

(* A handler whose datacenter is reached over plain TCP does not wait on a *)
(* silent one: the connection is proxied or closed, even if the Supervisor *)
(* has meanwhile moved on.                                                 *)
Answered ==
  \A k \in Conns :
    (conn[k] = "dialing" /\ dc[k] \in Direct) ~> conn[k] \in {"proxying", "closed"}

(* The documented bound on WireGuard: "DialTimeout bounds a single dial /  *)
(* probe", so no Dial is still waiting when it has passed.                 *)
DialBounded == \A k \in Conns : conn[k] # "overdue"

(* A connection both of whose peers are through is released, so the        *)
(* gateway does not accumulate handlers.                                   *)
HandlersEnd ==
  \A k \in Conns :
    (conn[k] = "proxying" /\ \A p \in Peers : peer[k][p] # "open") ~> conn[k] = "closed"

===============================================================================
