---------------------------- MODULE Gateway_proofs ----------------------------
(***************************************************************************)
(* Proofs about Gateway, for any number of connections, of goroutines that *)
(* call Close, and of bytes.                                               *)
(***************************************************************************)
EXTENDS Gateway, TLAPS

(* g.closed is set before the listener closes, and an Accept that failed   *)
(* did so on a closed listener or on its own account.                      *)
StopInv ==
  /\ TypeOK
  /\ \A c \in Closers : closer[c] = "marked" => closed
  /\ listener = "closed" => closed
  /\ serve = "failed" => closed \/ acceptFault
  /\ OrderlyStop

(* No direction delivers more than its source has sent.                    *)
CopyInv ==
  /\ TypeOK
  /\ \A k \in Conns, p \in Peers : copied[k][p] <= sent[k][p]
  /\ NoTruncation

-------------------------------------------------------------------------------
(* Types *)

LEMMA InitTypeOK == Init => TypeOK
<1> SUFFICES ASSUME Init
             PROVE  TypeOK
  OBVIOUS
<1>1. 0 \in 0..MaxBytes
  BY GatewayAssumption
<1>2. /\ sent \in [Conns -> [Peers -> 0..MaxBytes]]
      /\ copied \in [Conns -> [Peers -> 0..MaxBytes]]
  BY <1>1 DEF Init
<1>3. QED
  BY <1>2 DEF Init, TypeOK

LEMMA StopKeepsTypes ==
  ASSUME TypeOK, Close \/ Serve \/ Cancel
  PROVE  TypeOK'
<1> USE DEF TypeOK
<1>1. CASE Close
  BY <1>1 DEF Close, MarkClosed, CloseListener, traffic
<1>2. CASE Serve
  BY <1>2 DEF Serve, Accept, AcceptFails, AcceptFaults, ServeReturns, traffic, control
<1>3. CASE Cancel
  BY <1>3 DEF Cancel, traffic
<1>4. QED
  BY <1>1, <1>2, <1>3

LEMMA ConnectionKeepsTypes ==
  ASSUME TypeOK, NEW k \in Conns,
         \/ Route(k) \/ HandleReturns(k) \/ Connect(k)
         \/ DialSucceeds(k) \/ DialFails(k) \/ DialAborts(k) \/ DialTimeoutPasses(k)
  PROVE  TypeOK'
<1> USE DEF TypeOK
<1>1. CASE Route(k)
  BY <1>1 DEF Route, traffic, control
<1>2. CASE DialSucceeds(k)
  BY <1>2 DEF DialSucceeds, DialReturns, control
<1>3. CASE DialFails(k) \/ DialAborts(k) \/ DialTimeoutPasses(k) \/ Connect(k)
  BY <1>3 DEF DialFails, DialAborts, DialTimeoutPasses, DialReturns, Connect, traffic, control
<1>4. CASE HandleReturns(k)
  BY <1>4 DEF HandleReturns, control
<1>5. QED
  BY <1>1, <1>2, <1>3, <1>4

LEMMA TrafficKeepsTypes ==
  ASSUME TypeOK, NEW k \in Conns, NEW p \in Peers,
         Copy(k, p) \/ CopyEnds(k, p) \/ Send(k, p) \/ Finish(k, p) \/ Vanish(k, p)
  PROVE  TypeOK'
<1> USE DEF TypeOK
<1>1. CASE Copy(k, p)
  <2>1. copied[k][p] + 1 \in 0..MaxBytes
    BY <1>1, GatewayAssumption DEF Copy, Unread
  <2>2. QED
    BY <1>1, <2>1 DEF Copy, control
<1>2. CASE CopyEnds(k, p)
  BY <1>2 DEF CopyEnds, control
<1>3. CASE Send(k, p)
  <2>1. sent[k][p] + 1 \in 0..MaxBytes
    BY <1>3, GatewayAssumption DEF Send
  <2>2. QED
    BY <1>3, <2>1 DEF Send, control
<1>4. CASE Finish(k, p)
  BY <1>4 DEF Finish, control
<1>5. CASE Vanish(k, p)
  BY <1>5 DEF Vanish, control
<1>6. QED
  BY <1>1, <1>2, <1>3, <1>4, <1>5

LEMMA NextTypeOK == TypeOK /\ [Next]_vars => TypeOK'
<1> SUFFICES ASSUME TypeOK, [Next]_vars
             PROVE  TypeOK'
  OBVIOUS
<1>1. CASE Reselect
  BY <1>1 DEF Reselect, TypeOK, traffic, control
<1>2. CASE UNCHANGED vars
  BY <1>2 DEF vars, control, traffic, TypeOK
<1>3. QED
  BY <1>1, <1>2, StopKeepsTypes, ConnectionKeepsTypes, TrafficKeepsTypes
     DEF Next, Handle, Environment

(* Every variable keeps its type, whatever the constants.                  *)
THEOREM TypeCorrect == Spec => []TypeOK
  BY InitTypeOK, NextTypeOK, PTL DEF Spec

-------------------------------------------------------------------------------
(* Stopping *)

LEMMA NextStopInv == StopInv /\ [Next]_vars => StopInv'
<1> SUFFICES ASSUME StopInv, [Next]_vars
             PROVE  StopInv'
  OBVIOUS
<1> USE DEF StopInv, OrderlyStop
<1>1. TypeOK /\ TypeOK'
  BY NextTypeOK
<1>2. ASSUME NEW c \in Closers, MarkClosed(c)
      PROVE  StopInv'
  BY <1>1, <1>2 DEF MarkClosed, TypeOK
<1>3. ASSUME NEW c \in Closers, CloseListener(c)
      PROVE  StopInv'
  BY <1>1, <1>3 DEF CloseListener, TypeOK
<1>4. CASE AcceptFails \/ AcceptFaults \/ ServeReturns
  BY <1>1, <1>4 DEF AcceptFails, AcceptFaults, ServeReturns, StoppedOnPurpose
<1>5. CASE Cancel
  BY <1>1, <1>5 DEF Cancel
<1>6. CASE UNCHANGED control
  BY <1>1, <1>6 DEF control
<1>7. QED
  BY <1>2, <1>3, <1>4, <1>5, <1>6
     DEF Next, Close, Serve, Handle, Environment, Accept, Route, DialSucceeds, DialFails,
         DialAborts, DialTimeoutPasses, DialReturns, HandleReturns, Copy, CopyEnds, Reselect,
         Connect, Send, Finish, Vanish, vars

(* Serve reports an error only if Accept failed on an open listener,       *)
(* whoever calls Close, when, and how often.                               *)
THEOREM OrderlyServe == Spec => []OrderlyStop
<1>1. Init => StopInv
  BY InitTypeOK DEF Init, StopInv, OrderlyStop
<1>2. StopInv => OrderlyStop
  BY DEF StopInv
<1>3. QED
  BY <1>1, <1>2, NextStopInv, PTL DEF Spec

-------------------------------------------------------------------------------
(* Copying *)

LEMMA CountsAreNatural ==
  ASSUME TypeOK, NEW k \in Conns, NEW p \in Peers
  PROVE  copied[k][p] \in Nat /\ sent[k][p] \in Nat
<1>1. copied[k][p] \in 0..MaxBytes /\ sent[k][p] \in 0..MaxBytes
  BY DEF TypeOK
<1>2. QED
  BY <1>1, GatewayAssumption

(* A step that leaves the traffic alone, even one that ends the context.   *)
LEMMA TrafficUntouched ==
  ASSUME CopyInv, TypeOK', UNCHANGED traffic, ctxDone => ctxDone'
  PROVE  CopyInv'
  BY DEF CopyInv, NoTruncation, traffic

LEMMA CopyKeepsCopyInv ==
  ASSUME CopyInv, TypeOK', NEW k \in Conns, NEW p \in Peers,
         Copy(k, p) \/ CopyEnds(k, p)
  PROVE  CopyInv'
<1> USE DEF CopyInv, NoTruncation
<1>1. TypeOK /\ MaxBytes \in Nat
  BY GatewayAssumption
<1>2. CASE Copy(k, p)
  <2>1. copied' = [copied EXCEPT ![k][p] = copied[k][p] + 1]
    BY <1>2 DEF Copy
  <2>2. \A j \in Conns, q \in Peers :
          copied'[j][q] = IF j = k /\ q = p THEN copied[j][q] + 1 ELSE copied[j][q]
    BY <1>1, <2>1 DEF TypeOK
  <2>3. /\ copied[k][p] < sent[k][p] /\ copier[k][p] = "running"
        /\ UNCHANGED <<sent, peer, copier, ctxDone>>
    BY <1>2 DEF Copy, Unread, control
  <2>4. copied[k][p] + 1 <= sent[k][p]
    BY <1>1, <2>3 DEF TypeOK
  <2>5. QED
    BY <2>2, <2>3, <2>4
<1>3. CASE CopyEnds(k, p)
  <2>1. /\ UNCHANGED <<sent, copied, peer, ctxDone>>
        /\ copier' = [copier EXCEPT ![k][p] = "done"]
    BY <1>3 DEF CopyEnds, control
  <2>2. \A j \in Conns, q \in Peers :
          copier'[j][q] = IF j = k /\ q = p THEN "done" ELSE copier[j][q]
    BY <1>1, <2>1 DEF TypeOK
  <2>3. Other(p) \in Peers
    BY DEF Other, Peers
  <2>4. (\A q \in Peers : peer[k][q] # "gone") => peer[k][p] = "finished" /\ ~Unread(k, p)
    BY <1>3, <2>3 DEF CopyEnds, Exhausted
  <2>5. ~Unread(k, p) => copied[k][p] = sent[k][p]
    BY <1>1, CountsAreNatural DEF Unread
  <2>6. QED
    BY <2>1, <2>2, <2>4, <2>5
<1>4. QED
  BY <1>2, <1>3

LEMMA PeerKeepsCopyInv ==
  ASSUME CopyInv, TypeOK', NEW k \in Conns, NEW p \in Peers,
         Send(k, p) \/ Finish(k, p) \/ Vanish(k, p)
  PROVE  CopyInv'
<1> USE DEF CopyInv, NoTruncation
<1>1. TypeOK /\ MaxBytes \in Nat
  BY GatewayAssumption
<1>2. CASE Send(k, p)
  <2>1. /\ sent' = [sent EXCEPT ![k][p] = sent[k][p] + 1]
        /\ UNCHANGED <<copied, peer, copier, ctxDone>>
        /\ peer[k][p] = "open"
    BY <1>2 DEF Send, control
  <2>2. \A j \in Conns, q \in Peers :
          sent'[j][q] = IF j = k /\ q = p THEN sent[j][q] + 1 ELSE sent[j][q]
    BY <1>1, <2>1 DEF TypeOK
  <2>3. \A j \in Conns, q \in Peers : copied[j][q] <= sent'[j][q]
    BY <1>1, <2>2, CountsAreNatural
  <2>4. QED
    BY <2>1, <2>2, <2>3
<1>3. CASE Finish(k, p)
  <2>1. /\ peer' = [peer EXCEPT ![k][p] = "finished"]
        /\ UNCHANGED <<sent, copied, copier, ctxDone>>
        /\ peer[k][p] = "open"
    BY <1>3 DEF Finish, control
  <2>2. \A j \in Conns, q \in Peers :
          peer'[j][q] = IF j = k /\ q = p THEN "finished" ELSE peer[j][q]
    BY <1>1, <2>1 DEF TypeOK
  <2>3. QED
    BY <2>1, <2>2
<1>4. CASE Vanish(k, p)
  <2>1. /\ peer' = [peer EXCEPT ![k][p] = "gone"]
        /\ UNCHANGED <<sent, copied, copier, ctxDone>>
    BY <1>4 DEF Vanish, control
  <2>2. \A j \in Conns, q \in Peers :
          peer'[j][q] = IF j = k /\ q = p THEN "gone" ELSE peer[j][q]
    BY <1>1, <2>1 DEF TypeOK
  <2>3. QED
    BY <2>1, <2>2
<1>5. QED
  BY <1>2, <1>3, <1>4

LEMMA HandlerKeepsCopyInv ==
  ASSUME CopyInv, TypeOK', NEW k \in Conns, DialSucceeds(k) \/ HandleReturns(k)
  PROVE  CopyInv'
<1> USE DEF CopyInv, NoTruncation
<1>1. UNCHANGED <<sent, copied, peer, ctxDone>>
  BY DEF DialSucceeds, HandleReturns, control
<1>2. CASE DialSucceeds(k)
  <2>1. \A j \in Conns, q \in Peers :
          copier'[j][q] = IF j = k THEN "running" ELSE copier[j][q]
    BY <1>2 DEF DialSucceeds, TypeOK
  <2>2. QED
    BY <1>1, <2>1
<1>3. CASE HandleReturns(k)
  <2>1. \A j \in Conns, q \in Peers :
          copier'[j][q] = IF j = k THEN "done" ELSE copier[j][q]
    BY <1>3 DEF HandleReturns, TypeOK
  <2>2. ~ctxDone => \A q \in Peers : copier[k][q] = "done"
    BY <1>3 DEF HandleReturns, MayReturn
  <2>3. QED
    BY <1>1, <2>1, <2>2
<1>4. QED
  BY <1>2, <1>3

LEMMA NextCopyInv == CopyInv /\ [Next]_vars => CopyInv'
<1> SUFFICES ASSUME CopyInv, [Next]_vars
             PROVE  CopyInv'
  OBVIOUS
<1>1. TypeOK'
  BY NextTypeOK DEF CopyInv
<1>2. CASE UNCHANGED traffic /\ (ctxDone => ctxDone')
  BY <1>1, <1>2, TrafficUntouched
<1>3. CASE Close \/ Serve \/ Reselect \/ Cancel \/ UNCHANGED vars
  BY <1>2, <1>3 DEF Close, MarkClosed, CloseListener, Serve, Accept, AcceptFails,
     AcceptFaults, ServeReturns, Reselect, Cancel, vars, control
<1>4. ASSUME NEW k \in Conns,
             \/ Route(k) \/ Connect(k)
             \/ DialFails(k) \/ DialAborts(k) \/ DialTimeoutPasses(k)
      PROVE  CopyInv'
  BY <1>2, <1>4 DEF Route, DialFails, DialAborts, DialTimeoutPasses, DialReturns, Connect, control
<1>5. QED
  BY <1>1, <1>3, <1>4, CopyKeepsCopyInv, PeerKeepsCopyInv, HandlerKeepsCopyInv
     DEF Next, Handle, Environment

(* handle never truncates a transfer on its own: a direction that ended    *)
(* while both peers lived and the context was not cancelled has delivered  *)
(* everything up to the end of file.                                       *)
THEOREM Untruncated == Spec => []NoTruncation
<1>1. Init => CopyInv
  BY InitTypeOK DEF Init, CopyInv, NoTruncation
<1>2. CopyInv => NoTruncation
  BY DEF CopyInv
<1>3. QED
  BY <1>1, <1>2, NextCopyInv, PTL DEF Spec

-------------------------------------------------------------------------------
(* Nothing is left waiting: what CancelDrains and HandlersEnd rest on *)

(* Whoever set g.closed first is on the way to close the listener until it *)
(* is closed, so the calls of Close that return at once may; and no        *)
(* connection waits for an Accept that will not come.                      *)
CloseUnderWay ==
  /\ closed /\ listener = "open" => \E c \in Closers : closer[c] = "marked"
  /\ listener = "closed" => \A k \in Conns : conn[k] # "backlog"

LEMMA NextCloseUnderWay == TypeOK /\ CloseUnderWay /\ [Next]_vars => CloseUnderWay'
<1> SUFFICES ASSUME TypeOK, CloseUnderWay, [Next]_vars
             PROVE  CloseUnderWay'
  OBVIOUS
<1> USE DEF TypeOK, CloseUnderWay
<1>1. ASSUME NEW c \in Closers, MarkClosed(c)
      PROVE  CloseUnderWay'
  BY <1>1 DEF MarkClosed
<1>2. ASSUME NEW c \in Closers, CloseListener(c)
      PROVE  CloseUnderWay'
  BY <1>2 DEF CloseListener
<1>3. CASE AcceptFails \/ AcceptFaults \/ ServeReturns \/ Cancel
  BY <1>3 DEF AcceptFails, AcceptFaults, ServeReturns, Cancel
<1>4. ASSUME NEW k \in Conns,
             \/ Accept(k) \/ Route(k) \/ Connect(k) \/ HandleReturns(k)
             \/ DialSucceeds(k) \/ DialFails(k) \/ DialAborts(k) \/ DialTimeoutPasses(k)
      PROVE  CloseUnderWay'
  BY <1>4 DEF Accept, Route, Connect, HandleReturns, DialSucceeds, DialFails, DialAborts,
              DialTimeoutPasses, DialReturns, control
<1>5. CASE UNCHANGED <<control, conn>>
  BY <1>5 DEF control
<1>6. QED
  BY <1>1, <1>2, <1>3, <1>4, <1>5
     DEF Next, Close, Serve, Handle, Environment, Copy, CopyEnds, Reselect, Send, Finish,
         Vanish, vars

(* However calls of Close overlap, closing is under way once one has       *)
(* begun, and a closed listener holds no connection back.                  *)
THEOREM CloseGoesThrough == Spec => []CloseUnderWay
<1>1. Init => CloseUnderWay
  BY DEF Init, CloseUnderWay
<1>2. QED
  BY <1>1, NextCloseUnderWay, TypeCorrect, PTL DEF Spec

(* A handler that proxies has started both of its directions.              *)
BothStarted ==
  \A k \in Conns, p \in Peers : conn[k] = "proxying" => copier[k][p] # "off"

LEMMA NextBothStarted == TypeOK /\ BothStarted /\ [Next]_vars => BothStarted'
<1> SUFFICES ASSUME TypeOK, BothStarted, [Next]_vars
             PROVE  BothStarted'
  OBVIOUS
<1> USE DEF TypeOK, BothStarted
<1>1. ASSUME NEW c \in Closers, CloseListener(c)
      PROVE  BothStarted'
  BY <1>1 DEF CloseListener, traffic
<1>2. ASSUME NEW k \in Conns,
             \/ Accept(k) \/ Route(k) \/ Connect(k)
             \/ DialFails(k) \/ DialAborts(k) \/ DialTimeoutPasses(k)
      PROVE  BothStarted'
  BY <1>2 DEF Accept, Route, Connect, DialFails, DialAborts, DialTimeoutPasses, DialReturns,
              traffic
<1>3. ASSUME NEW k \in Conns, DialSucceeds(k) \/ HandleReturns(k)
      PROVE  BothStarted'
  <2>1. CASE DialSucceeds(k)
    <3>1. conn' = [conn EXCEPT ![k] = "proxying"]
      BY <2>1 DEF DialSucceeds, DialReturns
    <3>2. QED
      BY <2>1, <3>1 DEF DialSucceeds
  <2>2. CASE HandleReturns(k)
    BY <2>2 DEF HandleReturns
  <2>3. QED
    BY <1>3, <2>1, <2>2
<1>4. ASSUME NEW k \in Conns, NEW p \in Peers, CopyEnds(k, p)
      PROVE  BothStarted'
  BY <1>4 DEF CopyEnds
<1>5. CASE UNCHANGED <<conn, copier>>
  BY <1>5
<1>6. QED
  BY <1>1, <1>2, <1>3, <1>4, <1>5
     DEF Next, Close, MarkClosed, Serve, AcceptFails, AcceptFaults, ServeReturns, Handle,
         Environment, Copy, Reselect, Cancel, Send, Finish, Vanish, vars, traffic

(* A step that the direction from p may take.                              *)
Moves(k, p) ==
  /\ copier[k][p] = "running"
  /\ \/ Exhausted(k, p)
     \/ Unread(k, p) /\ \A q \in Peers : peer[k][q] # "gone"

HandlersMove ==
  \A k \in Conns :
    conn[k] = "proxying" /\ (\A p \in Peers : peer[k][p] # "open")
      => MayReturn(k) \/ \E p \in Peers : Moves(k, p)

(* A handler both of whose peers are through is never stuck: it may        *)
(* return, or one of its directions has a byte that it can deliver or a    *)
(* reason to end.                                                          *)
THEOREM NoStuckHandler == Spec => []HandlersMove
<1>1. Init => BothStarted
  BY DEF Init, BothStarted
<1>2. Spec => []BothStarted
  BY <1>1, NextBothStarted, TypeCorrect, PTL DEF Spec
<1>3. ASSUME TypeOK, BothStarted
      PROVE  HandlersMove
  <2> SUFFICES ASSUME NEW k \in Conns, conn[k] = "proxying",
                      \A p \in Peers : peer[k][p] # "open", ~MayReturn(k)
               PROVE  \E p \in Peers : Moves(k, p)
    BY DEF HandlersMove
  <2>1. PICK p \in Peers : copier[k][p] # "done"
    BY DEF MayReturn
  <2>2. copier[k][p] = "running"
    BY <1>3, <2>1 DEF TypeOK, BothStarted
  <2>3. peer[k][p] \in {"finished", "gone"}
    BY <1>3 DEF TypeOK
  <2>4. CASE peer[k][p] = "gone" \/ ~Unread(k, p)
    BY <2>2, <2>3, <2>4 DEF Moves, Exhausted
  <2>5. CASE peer[k][p] # "gone" /\ Unread(k, p)
    BY <2>2, <2>5 DEF Moves, Exhausted, Other, Peers
  <2>6. QED
    BY <2>4, <2>5
<1>4. QED
  BY <1>2, <1>3, TypeCorrect, PTL

===============================================================================
