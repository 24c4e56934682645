------------------------------- MODULE Control --------------------------------
(***************************************************************************)
(* control/control.go: the tray process keeps the active datacenter in a   *)
(* Server that OnSwitch publishes to; the WebView process polls it over    *)
(* loopback HTTP and calls onChange.                                       *)
(*                                                                         *)
(* Of the Supervisor only its interface is kept: an actor of the tray      *)
(* changes the choice under a lock and calls OnSwitch once the lock is     *)
(* released.  ControlPlane shows that Supervisor behaves like that.        *)
(***************************************************************************)
EXTENDS Integers

CONSTANTS
  DC,       \* datacenters
  None,     \* no datacenter (the empty name)
  Actors    \* goroutines of the tray that change the choice

ASSUME ControlAssumption == None \notin DC

Switch   == [from : DC \cup {None}, to : DC \cup {None}, allDown : BOOLEAN]
NoSwitch == [from |-> None, to |-> None, allDown |-> FALSE]

(* The struct Active; its labels and cluster follow from the name.  An     *)
(* all-down state names no datacenter.                                     *)
Active ==
  [name : DC \cup {None}, allDown : {FALSE}] \cup [name : {None}, allDown : {TRUE}]
ZeroActive == [name |-> None, allDown |-> FALSE]

VARIABLES
  active,     \* the Supervisor's choice
  outbox,     \* outbox[a]: the Switch a is about to hand to OnSwitch
  current,    \* Server.current
  server,     \* "listening" or "closed"
  trayDone,   \* the context of Listen is cancelled
  selected,   \* auxiliary: some datacenter has been selected before
  prev,       \* Watch's prev: what onChange was last told
  fetch,      \* Watch's request: "none", "sent", "refused" or "answered"
  cur,        \* the answer on its way back
  watch       \* "polling" or "stopped"

trayVars == <<active, outbox, current, server, trayDone, selected>>
viewVars == <<prev, fetch, cur, watch>>
vars == <<trayVars, viewVars>>

-------------------------------------------------------------------------------
(* The tray process *)

Reselect(a) ==
  /\ outbox[a] = NoSwitch
  /\ active' \in (DC \cup {None}) \ {active}
  /\ outbox' = [outbox EXCEPT ![a] =
       [from |-> active, to |-> active', allDown |-> active' = None]]
  /\ selected' = TRUE
  /\ UNCHANGED <<current, server, trayDone, viewVars>>

ActiveOfNameOnly(sw) ==            \* fault: AllDown is not copied
  [name |-> sw.to, allDown |-> FALSE]

ActiveOfKeepingName(sw) ==         \* fault: an empty ToName falls back to FromName
  [name |-> IF sw.to = None THEN sw.from ELSE sw.to, allDown |-> sw.allDown]

ActiveOf(sw) == [name |-> sw.to, allDown |-> sw.allDown]

Publish(sw) == current' = ActiveOf(sw)

OnSwitch(a) ==
  /\ outbox[a] # NoSwitch
  /\ Publish(outbox[a])
  /\ outbox' = [outbox EXCEPT ![a] = NoSwitch]
  /\ UNCHANGED <<active, server, trayDone, selected, viewVars>>

Cancel ==
  /\ ~trayDone
  /\ trayDone' = TRUE
  /\ UNCHANGED <<active, outbox, current, server, selected, viewVars>>

Shutdown ==                        \* Listen's goroutine; a request being served goes on
  /\ trayDone /\ server = "listening"
  /\ server' = "closed"
  /\ UNCHANGED <<active, outbox, current, trayDone, selected, viewVars>>

-------------------------------------------------------------------------------
(* The WebView process: Watch, and the server's handler of its request *)

Poll ==                            \* case <-t.C
  /\ watch = "polling" /\ fetch = "none"
  /\ fetch' = IF server = "listening" THEN "sent" ELSE "refused"
  /\ UNCHANGED <<trayVars, prev, cur, watch>>

Handle ==                          \* GET /active encodes s.Active()
  /\ fetch = "sent"
  /\ fetch' = "answered"
  /\ cur' = current
  /\ UNCHANGED <<trayVars, prev, watch>>

NameChanged(old, new) == old.name # new.name    \* fault: compares the names only

Changed(old, new) == old # new

FetchReturns ==
  /\ fetch = "answered"
  /\ prev' = IF Changed(prev, cur) THEN cur ELSE prev   \* onChange(prev, cur)
  /\ fetch' = "none"
  /\ cur' = ZeroActive
  /\ UNCHANGED <<trayVars, watch>>

FetchFails ==                      \* refused, cut, timed out or cancelled
  /\ fetch # "none"
  /\ fetch' = "none"
  /\ cur' = ZeroActive
  /\ UNCHANGED <<trayVars, prev, watch>>

StopWatch ==                       \* case <-ctx.Done()
  /\ watch = "polling" /\ fetch = "none"
  /\ watch' = "stopped"
  /\ UNCHANGED <<trayVars, prev, fetch, cur>>

-------------------------------------------------------------------------------

Init ==
  /\ active = None
  /\ outbox = [a \in Actors |-> NoSwitch]
  /\ current = ZeroActive
  /\ server = "listening"
  /\ trayDone = FALSE
  /\ selected = FALSE
  /\ prev = ZeroActive
  /\ fetch = "none"
  /\ cur = ZeroActive
  /\ watch = "polling"

Tray == Cancel \/ Shutdown \/ \E a \in Actors : Reselect(a) \/ OnSwitch(a)
View == Poll \/ Handle \/ FetchReturns \/ FetchFails \/ StopWatch
Next == Tray \/ View

Spec == Init /\ [][Next]_vars

(* Goroutines that can run do run, Watch's ticker keeps firing, and        *)
(* loopback requests do not all fail for ever: each is retried at the next *)
(* tick, so strong fairness of the two steps that a failure disables.      *)
Fairness ==
  /\ WF_vars(Shutdown) /\ WF_vars(Poll) /\ SF_vars(Handle) /\ SF_vars(FetchReturns)
  /\ \A a \in Actors : WF_vars(OnSwitch(a))

FairSpec == Spec /\ Fairness

-------------------------------------------------------------------------------
(* Properties *)

(* Every variable holds a value of its type.                               *)
TypeOK ==
  /\ active \in DC \cup {None}
  /\ outbox \in [Actors -> Switch]
  /\ current \in Active
  /\ server \in {"listening", "closed"}
  /\ trayDone \in BOOLEAN
  /\ selected \in BOOLEAN
  /\ prev \in Active
  /\ fetch \in {"none", "sent", "refused", "answered"}
  /\ cur \in Active
  /\ watch \in {"polling", "stopped"}

InFlight == \E a \in Actors : outbox[a] # NoSwitch

(* "Server holds the latest active-DC state": once every OnSwitch has      *)
(* returned, the server holds the Supervisor's choice, all-down included,  *)
(* unless nothing was ever selected.                                       *)
PublishedIsActive ==
  InFlight \/ ~selected \/ current = [name |-> active, allDown |-> active = None]

(* While the tray and the watcher live, the watcher ends up told of the    *)
(* choice once it stops changing, whatever requests failed and however     *)
(* many changes fell between two polls.                                    *)
Informed ==
  \/ []<><<active' # active>>_vars
  \/ <>trayDone
  \/ <>(watch = "stopped")
  \/ <>[](~selected \/ prev = [name |-> active, allDown |-> active = None])

===============================================================================
