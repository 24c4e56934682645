# weft-app-core in TLA+

Formal models of the connection core of the weft desktop shell: the code that
keeps a WebView attached to a working datacenter. TLC checks the models on
small instances; TLAPS proves the most important properties of the core for
every instance. All paths below are relative to the repository; line numbers
are in `PROJECT.json` (`map`).

## The system

One *tray* process holds, per service, a **Supervisor** that probes every
datacenter and selects one, and a **Gateway**, a loopback listener that proxies
each connection of the WebView to the datacenter selected when the connection
was accepted. Datacenters are reached through a **transport** (`Backend`). The
tray publishes the choice on a **control server**; the *WebView* process polls
it and tells the page. The **Shell** builds all of this from a configuration,
or from DNS (**discovery**).

| component | state | operations | interacts through |
|---|---|---|---|
| Supervisor `failover/supervisor.go` | per endpoint health, upSince, disabled; active, allDown; a ticker | Run/round, reselectLocked, SetClusterFilter, Active and other readers | Backend.Probe from one goroutine per datacenter and round; OnSwitch callback, called after unlock |
| Gateway `failover/gateway.go` | listener, closed flag; per connection the chosen datacenter and two copying goroutines | Serve, handle, Close | Supervisor.Active, Backend.Dial, the context |
| Control plane `control/control.go` | Server.current; Watch's prev | Publish, Handler, Listen; Get, Watch | is the OnSwitch of the primary Supervisor; HTTP polling |
| SSH transport `transport/ssh.go` | the cached client, behind a mutex | connect, Dial, Probe, dropClient, Close | shared by the prober and all gateway handlers; connect waits for the mutex and the handshake without looking at its context |
| Direct and WireGuard transports `transport/transport.go`, `wireguard.go` | none | Dial, Probe | both end with their context; DirectTCP bounds both by its timeout, WireGuard only Probe |
| Shell `shell/` | a primary and an optional loom pair of Supervisor and Gateway | LoadConfig, New, Run, SwitchCluster, Close, status readers | reads the configuration, both of its shapes, into two lists of endpoints; owns everything above |
| Discovery `discovery/`, `shell/discover.go` | none between starts | SRV, A, Discover | DNS |
| Assertions `auth/keypair.go` | none | SignAssertion, VerifyAssertion | the clocks of device and server |
| WebView injection `webinject/`, `shell/auth.go`, `shell/inject_auth.go` | none | rendering of JavaScript text | the page that evaluates it |

**What is hard here.** Rounds and filter calls reselect on state the other
writes; Switches are delivered outside the lock by two goroutines; probes
outlast the ticker's interval; hold-down is measured on recorded times, not on
the network; the accept loop, Close and the context race; handlers wait for two
directions and a context; many Dials share one SSH client, which any of them may
drop; polling sees states, not changes; two pairs are started together but not
ended together. `PROJECT.json` lists each hazard at its line.

**What makes each part correct.**

- Supervisor: the choice is sound and inside the filter at every moment; it
  moves only as "fail over fast, fail back slow" allows; failover is bounded in
  time; fail-back is seasoned; it converges.
- Gateway: Serve's result is right, no transfer is truncated, no handler is left
  behind, cancellation drains everything except a Dial that does not look at its
  context (SSH), and a connection to a silent datacenter is answered in bounded
  time where the transport bounds its Dial (plain TCP).
- Control plane: the last change arrives at the server and at the page.
- SSH transport: no client leaks, one handshake at a time, Dials return; prober
  and handlers, who fail each other through the shared client, do not keep the
  Supervisor away from a datacenter that works.
- Shell: every endpoint leads to the service and the datacenter that the file
  declares; the origin stays in the selected cluster; cancellation ends both
  pairs.
- Discovery: preference between two datacenters is the same at every start, and
  so is the name of a datacenter.
- Assertions: fresh ones are accepted, and for a bounded time only.

## The modules

| module | models | correspondence |
|---|---|---|
| `FailoverSelector` | the promise of the Supervisor | `eligible` and `settled` change freely, only `active` is constrained |
| `Selection` | the scan of `reselectLocked` | `Select` on the choice so far and the sets of healthy, disabled and seasoned endpoints (those up for the hold-down); used by `Supervisor` and by `Shell` |
| `Supervisor` | `failover/supervisor.go` | one action per step of Run (`Launch`, `BeginRound`, `ProbeReturn`, `FinishRound`, `StopRun`), per call (`SetClusterFilter`) and per delivery (`OnSwitch`); `FinishRound` is the whole locked part of `round`. `upFor[i]` is the age of `upSince`; an endpoint is seasoned when `now.Sub(upSince)`, with the round's own `now`, has reached the hold-down. `outbox[a]` is the Switch a goroutine holds between unlock and callback |
| `SupervisorTiming` | the same, watched | adds two auxiliary clocks on the network and on probe answers; conjoins them to the unchanged actions |
| `Control` | `control/control.go` | tray half (reduced to: change, hand over, deliver) and WebView half (`Poll`, `Handle`, `FetchReturns`, `FetchFails`) |
| `ControlPlane` | Supervisor with Publish as OnSwitch | composes `Supervisor` with the operators of `Control`, and implements Control's tray half; the `supervisor` run checks this composition |
| `Gateway` | `failover/gateway.go`, Dial of every transport | Close in its two steps, accept loop, `Route` to `HandleReturns` per connection, `Copy`/`CopyEnds` per direction; a Dial succeeds, fails, ends with the context (`DialAborts`: only for the datacenters in `Direct` and `Mesh`, because an SSH Dial does not look at it while it connects), or outlasts its timeout (`DialTimeoutPasses`), which ends it only for those in `Direct` |
| `SSHForward` | `transport/ssh.go` | a program counter per caller; `mu` is held from `ConnectNew` to `HandshakeDone` or `ConnectFails`, as in `connect` |
| `Path` | SSHForward between the prober of a Supervisor and the gateway's handlers | composes `SSHForward` (all of its actions) with a round that probes through it, a second datacenter that answers or not, and a choice made by `FailoverSelector`; handlers dial only while the SSH datacenter is active |
| `ShellConfig` | the pure part of `shell/shell.go`, LoadSigner and hostKeyCallback | which durations are refused, both shapes of the file, `buildBackend` and the copies `dcToLegacy` and `dcToLegacyLoom` as operators; the two nested loops of `New` are the order `Before` on the places where the file has a datacenter, and a rank counts the places before it |
| `Shell` | `shell/shell.go` | `New` (with LoadConfig, and the three ways it may end), `Run`, `SwitchCluster`, `Close`; per pair what a Supervisor has disabled, believes healthy and has selected, changed by `SwitchCluster` and `Round` through the scan of `Selection`. The clock is left out: any healthy endpoint may have been up for the hold-down |
| `Discovery` | `discovery.SRV`, `discovery.A`, `shell.Discover` | the order of a DNS answer and the sort of it are one choice: an arbitrary order of the zone's records in which none is less than one before it; so equal records come in any order, as in a stable sort of an arbitrary answer |
| `Assertion` | `auth/keypair.go` | claims in whole seconds, clocks in fractions of one |
| `..._proofs` | | the proofs about the module of that name; `Supervisor_proofs` also has those about `SupervisorTiming` and the lemmas about `Min`, `SSHForward_proofs` those about `Path` |
| `MC...` | | values of constants for TLC |

Operators marked *fault* are slips a programmer might make of the definition
that follows them. No specification uses them; `PROJECT.json` (`mutants`) pairs
each property with one that must violate it.

**External parts**, modelled from how the code uses them: the network and DNS,
`time.Ticker` (one buffered tick), HTTP polling (a request may fail at any
point), `golang.org/x/crypto/ssh` (`NewClientConn` has no deadline, `DialContext`
ends with its context or with the client, `Close` cuts every channel).

## Runs

| run | bounds | shows |
|---|---|---|
| `supervisor` | 2 datacenters, one per cluster, one UI goroutine that filters on either cluster or none; interval 1, hold-down 3, probe timeout 2; the control server as OnSwitch | types, soundness, scope, refinement of `FailoverSelector`, convergence, the end of Run, and that `ControlPlane` implements the tray half of `Control` |
| `timing` | 2 datacenters, interval 1, hold-down 3, probe timeout 2, a filter on and off | failover within `Max(Interval, ProbeTimeout) + ProbeTimeout`; fail-back after `HoldDown - ProbeTimeout` of answers; all-down is witnessed |
| `control` | 3 datacenters, one goroutine delivering | the server holds the choice; the watcher ends up told |
| `gateway` | 1 connection, 2 bytes each way, one datacenter behind each transport, Close by the application and by the context | Serve's result, nothing truncated, cancellation drains all but an SSH Dial, handlers end, connections over plain TCP are answered |
| `path` | the prober, a handler that may also call Close, 3 clients | no orphan; one handshake; Dials return; the preferred datacenter comes back in a calm network, and stays once no new Dial asks for it |
| `shell` | 10 files: `endpoints[]` next to two clusters with loom in both, a legacy file with an encrypted key, and eight that are refused, each for a reason of its own; with and without mesh and passphrase | targets, origin in cluster, teardown |
| `discovery` | 5 records of two priorities, two of them with the same priority and first label, by SRV or by address | preference kept, names kept |
| `assertion` | half-second ticks, lifetime 4 s, leeway 2 s, clocks up to 15 s wrong | fresh accepted, window bounded |

The type invariant of a module is checked in its run. `OriginInCluster` and
`ActiveInScope` speak of two levels: the first of names in the configuration,
through the flattening and the ranks of `New`; the second of `ep.Cluster`.

**Why the bounds are enough.** Two datacenters show every relation of a
preferred one, a fallback and none, in one cluster or two; the theorems below
hold for any number. A probe timeout longer than the interval makes ticks wait
in the channel and rounds overlap them; a hold-down longer than a round makes
the recorded and the real time of health differ. Ages saturate at
`HoldDown + ProbeTimeout`: no comparison in the code tells larger ones apart
(`AgesSaturateLate`).
One UI goroutine and the prober are the two actors of the locked section. A
prober and a handler are enough for one caller to replace the client that the
other has failed on; three clients are enough for these two callers never to run
out of them (`BoundIsLoose`). Two
datacenters in `Path`, the SSH one first, are enough for the choice to leave it
and come back. The files of `shell` have each transport, loom on some of each,
and each error once; all addresses of a file differ, so a target that is mixed
up shows. One connection shows all orders of two directions against Close, the context and
the accept loop, as connections share nothing but the listener; two bytes let
one be unread when the peer ends. `MaxClients`, `MaxBytes`, `MaxRank`, `Start`,
`MaxNow` and `Offsets` are the named bounds.

**Deadlock** is checked except in the runs of `Shell`, because a program whose
`New` failed stops, and in `ssh_stall`, because a stalled host stops it.

### Disagreements between code and documentation

Four runs must find their one property violated; `findings` quotes the sentence.

| run | what the code does instead |
|---|---|
| `plane_stale` | Switches are delivered by two goroutines after unlock and overtake each other; the control server keeps the older one |
| `ssh_stall` | a silent host blocks the handshake, the lock, Probe and the round |
| `gateway_wireguard` | a gateway Dial over WireGuard has no timeout, only Probe has; how long a silent peer holds the connection is left to the mesh dialer and the application's context |
| `shell_loom_lifetime` | Close leaves the loom gateway and both probers running |

Modelling showed others. The models have the behaviour, and no property claims
the sentence:

- `failover/supervisor.go:376`: a first round that finds nothing leaves `active`
  at -1, which is no change, so `OnSwitch` is not called and the control server
  keeps AllDown false; `failover/gateway.go:83` counts on the notice.
- `failover/supervisor.go:389`: a filter on a cluster without a healthy
  datacenter reports AllDown while others are healthy, against "AllDown is true
  when no DC is healthy" (line 71).
- `failover/supervisor.go:288`: the hold-down counts from the start of the round
  whose probe succeeded, so up to `ProbeTimeout` of it may precede the answer,
  against lines 11-12; `FailbackSeasoned` states what does hold.
- `failover/supervisor.go:287`: until `SwitchCluster` is called no endpoint is
  excluded, and a round moves between clusters, against lines 116-117.
- `transport/ssh.go:65` and `85`: an SSH Dial waits for the mutex and for the
  handshake without looking at the context that `gateway.go:89` hands it, so a
  handler may outlive the application's context, against `shell/shell.go:390-391`
  ("blocks until ctx is cancelled, then tears both down"). `CancelDrains` exempts
  this wait and no other.
- `failover/gateway.go:71`: one Accept error on an open listener ends `Serve`, while
  the listener goes on taking connections that nobody serves, against lines 55-56
  ("until ctx is cancelled or the Gateway is closed").
- `failover/gateway.go:112`: a change of datacenter ends no connection in
  flight, against README.md:83-84 of the repository.
- `transport/ssh.go:114`: a Dial that fails drops whatever client is cached by
  then, possibly a fresh one of another Dial, against lines 112-113. Prober and
  handlers can go on like this for ever in a network without faults: the late
  drop of a handler fails the next probe, the drop of that probe fails the next
  handler. `Path` shows that the datacenter comes back each time (`ComesBack`)
  and that the exchange ends with the handlers' dialing (`Settles`); that it ends
  while they keep dialing is false in the model, and not claimed.
- `transport/ssh.go:115`: the first call after a drop fails; only the next one
  reconnects, against lines 25-26.
- `shell/shell.go:436`: `SwitchCluster` does not reach the loom Supervisor,
  against lines 428-430.
- `shell/shell.go:327`: a `New` that fails on the loom pair leaves the listener of
  the webui pair open. It has read every key once more for loom, so the operator
  is asked for each passphrase twice.
- `shell/shell.go:151`: a legacy configuration has a cluster name, "default",
  against lines 438-440.
- `shell/shell.go:453`: InitScript never sets `CurrentDC`, which
  `webinject/webinject.go:34-37` calls the only signal for the page's chip in
  single-gateway mode; the control plane's `Get` and `Watch` supply it instead.
- `webinject/webinject.go:54`: a notice evaluated before the page has registered
  its hook is dropped, while Watch's `prev` has moved on; the page hears of the
  next change only.
- `webinject/auth.go:97`: the patched fetch leaves a header that the caller has
  set, the patched XMLHttpRequest adds a second value to it.
- `discovery/discovery.go:102`: records with the same priority and first label
  come out in the order DNS answered, against lines 44-45; `PreferenceKept`
  exempts such a pair and no other.

## Fairness

- `Supervisor`: a goroutine that can run runs, probes meet their deadline (the
  context of `round`), the ticker and the clock go on. Time does not pass over
  work of the prober that is due (`Due`): the model's tick is long against
  scheduling. Nothing is assumed of the operator, the network or the
  application; `Converges` speaks of executions in which they come to rest.
- `Control`: a request may fail at any time, but not every one for ever, hence
  strong fairness of the two steps a failure disables; Watch retries at each tick.
- `Supervisor`, at the end: `StopRun` is strongly fair, because a `select` with a
  tick and a cancelled context both ready picks at random.
- `Gateway`: the goroutines run, timeouts pass, and a cancelled context ends a Dial
  over plain TCP or WireGuard, whose dialers watch it. An SSH Dial need never return,
  as `ssh_stall` shows of its connect. No datacenter is obliged to answer a Dial, and no peer to send, finish or
  vanish.
- `SSHForward`: `sync.Mutex` starves nobody, hence strong fairness of the
  steps that take it; deadlines pass; the prober probes again, as Run does.
- `Path`: what `SSHForward` assumes, of the whole steps here; rounds end and begin
  (the ticker), and the hold-down passes. A handler is not obliged to dial.
- `Shell`: goroutines run; strong fairness for a prober's `select`, which picks at
  random when a tick and the end of the context are both ready. A round is one
  step here, so `Teardown` takes for granted that probes meet their deadline, which
  `ssh_stall` refutes for a host that falls silent; gateway handlers and SSH clients
  are not part of `Teardown`.

## Proofs

Every invariant and every action property that a passing run checks is also a theorem
about the module that states it, for every value of the constants that the named
assumptions allow. In `Supervisor_proofs` that is every number of datacenters,
assignment to clusters, set of filters and of UI goroutines, and all positive
durations.

| module | theorem | statement |
|---|---|---|
| `Supervisor_proofs` | `TypeCorrect` | `Spec => []TypeOK` |
| | `Soundness` | `Spec => []SelectionSound` |
| | `Scoped` | `Spec => []ActiveInScope` |
| | `Refinement` | `Spec => ImplementsSelector` |
| | `AgesSaturateLate` | the bound on ages changes no comparison with the hold-down |
| | `FailsFast` | `TimedSpec => []FailoverBound` |
| | `FailsBackSlowly` | `TimedSpec => FailbackSeasoned` |
| | `Witnessed` | `TimedSpec => AllDownWitnessed` |
| `ControlPlane_proofs` | `TrayRefinement` | `PlaneSpec => ImplementsControl` |
| | `ProberAlone` | without UI goroutines, `PlaneSpec => []PublishedIsActive` |
| `Control_proofs` | `TypeCorrect` | `Spec => []TypeOK` |
| | `Published` | if one goroutine calls OnSwitch, `Spec => []PublishedIsActive` |
| `Gateway_proofs` | `TypeCorrect` | `Spec => []TypeOK` |
| | `OrderlyServe` | `Spec => []OrderlyStop` |
| | `Untruncated` | `Spec => []NoTruncation` |
| | `CloseGoesThrough` | `Spec => []CloseUnderWay` |
| | `NoStuckHandler` | `Spec => []HandlersMove` |
| `SSHForward_proofs` | `TypeCorrect` | `Spec => []TypeOK` |
| | `NoLeak` | `Spec => []NoOrphanClient` |
| | `OneHandshake` | `Spec => []SharedHandshake` |
| | `LockHasOwner` | `Spec => []HeldWhileConnecting` |
| | `BoundIsLoose` | with `2 * Cardinality(Callers) - 1` clients, `Spec =>` a handshake always has one to return |
| | `FewConnections` | `Spec =>` at most one connection more than goroutines about to close one |
| | `PathImplements` | `PathFairSpec => Spec` of SSHForward |
| | `PathShares` | `PathFairSpec => [](TypeOK /\ NoOrphanClient /\ SharedHandshake)` |
| `Shell_proofs` | `TypeCorrect` | `Spec => []TypeOK` |
| | `Aimed` | `Spec => []Targets` |
| | `OriginConfined` | `Spec => []OriginInCluster` |
| `Discovery_proofs` | `Preferred` | if `OnePriority`, `Spec => []PreferenceKept` |
| | `Named` | `Spec => []NameKept` |
| `Assertion_proofs` | `Windowed` | `Spec => []WindowBounded` |
| | `Accepted` | `Spec => []FreshAccepted` |

The assumptions are those the modules name, and the runs evaluate them:
`SupervisorAssumption` (N positive, the prober is not a UI goroutine, durations
positive after `withDefaults`), `ControlAssumption`, `GatewayAssumption` and
`SSHForwardAssumption`, which keep the names of actors and of "none" apart,
`AssertionAssumption` (durations and clocks are numbers), `DiscoveryAssumption`
(there are finitely many records, their fields are numbers) and `ShellAssumption`
(`endpoints`, `clusters` and each `dcs` are lists, and no file yields a list longer
than `MaxRank`). `Preferred` assumes `OnePriority`: no host
is found with another priority than before. If the operator swaps two priorities,
the preference is meant to turn around; the records of the run satisfy it.

*The argument.* None of the Supervisor's properties is inductive alone. A round selects
among what it has just found healthy, minus the endpoints that are disabled
*at that time*; that its choice lies in the operator's cluster therefore needs
that `disabled` is always exactly what the last filter quarantines. The inductive
invariant is `TypeOK`, `SelectionSound` and `disabled = Quarantined(scope)`;
with it, a selected datacenter is not disabled, hence in scope. Lemmas on
`Select` (it returns a member of `Candidates`, and none only if there is none)
rest on `MinIsLeast`, because `Min` is a `CHOOSE`. For the refinement, only
`FinishRound` and `SetClusterFilter` change what `FailoverSelector` sees of the
choice; the lemma that `Select` returns one of its `Successors` is shared by both.
A tick changes `settled` only, which the abstract step allows as long as the
choice stays, which `SelectionSound` grants.

The second half of `Supervisor_proofs` follows the clocks through a round. `RoundClock`: while no
tick waits in the channel, the running round began no longer ago than the ticker
has counted, so `roundFor + tickIn <= Interval`. `GoneClock`: a datacenter that is
gone although the Supervisor believes in it has been so for no longer than the
age of the record: `roundFor` once its probe has answered in this round, what is
left of the interval between rounds, and, when a tick had to wait, the slower of
interval and timeout plus the age of the round that follows. With
`SelectionSound` (the active datacenter is one the Supervisor believes in) this
gives `FailsFast`. `AnswerClock`: `upSince` is at most `ProbeTimeout` earlier than
the first good answer; the hold-down is compared with the round's own start, so
whatever passes it was healthy before the round. `FailClock`: without a cancelled
context, a failed probe met its datacenter gone in this round. All four are
needed for every step, and they are inductive together with the invariant of
the first half, because every timed step is one of Supervisor.

For `TrayRefinement`, `Control` lets a goroutine change the choice only with an
empty outbox and leaves it with one Switch from the old choice to the new. The
prober reselects without looking at its outbox, so the invariant adds that the
outbox is empty whenever a round is running (Run delivers before it returns to
its `select`), and that the auxiliary `selected` is true once a datacenter is
active. `FinishRound` and `SetClusterFilter` then share one lemma
(`ReselectHandsOver`, then `ChangeRefines`); the other actions of the Supervisor
stutter, except `Cancel`.

`Published` has a hypothesis, `OneActor`, because `plane_stale` shows the
property false with two delivering goroutines: with one, what is in the outbox
is the choice as it is now, which two overlapping deliveries break. `ProberAlone`
carries this to the whole tray: its steps are Control's, so what Control's step
preserves for one actor (`ControlStepPublishes`) holds of the prober's rounds.

In `Gateway_proofs` two invariants serve two theorems. `StopInv` orders the two
halves of Close: `g.closed` is set by whoever is about to close the listener, so
an Accept that failed on a closed listener finds it set. `CopyInv` adds to
`NoTruncation` that no direction delivers more than was sent, so "nothing
unread" means everything was delivered.

Three theorems are what liveness rests on, stated as safety. `CloseGoesThrough`: the
calls of Close that return at once do so because another goroutine is about to
close the listener, and what the listener had accepted for nobody is reset.
`NoStuckHandler`: in every state in which both peers of a proxied connection are
through, `handle` or one of its directions has a step to take; with `BothStarted`
this is a case split over `Exhausted`. `LockHasOwner`: no error path of `connect`
keeps `s.mu`. That the steps are then taken is fairness, and stays with TLC.

In `SSHForward_proofs` the invariant says what `s.mu` protects: whoever dials or
shakes hands holds it, meanwhile there is no cached client (hence
`HandshakeDone` overwrites none), and a client taken out of `s.client` is held
by the goroutine about to close it (hence `DropClient` forgets none). For
`BoundIsLoose` it adds that a caller refers to no client before it has got one
(`Unassigned`): whoever shakes hands refers to none, there is no cached one, and the
others refer to two each at most. `PathImplements` needs no invariant: every step of
`Path` is a call, a step or a fault that `SSHForward` has as well, or leaves it alone.

In `Assertion_proofs`, `Signed` says that the claims stand for the device's clock
within one second: `Unix()` drops the fraction of both, and adding the lifetime
commutes with dropping it (`SecondsAdd`). `Bounded` speaks of the claims alone,
because the device's clock may be set between signing and verifying; what was
accepted lies between `iat` less the leeway and `exp`. Seconds and ticks differ
by a factor that is a constant, so products are kept behind `Ticks`, with the two
lemmas on it that the provers need.

In `Shell_proofs` a list of endpoints is a function on ranks, whatever it was built
from. Until New replaces the lists nothing is healthy, disabled or selected
(`Listed`). The lemmas on `Min` are needed here as well, and repeated. `Aimed` is
about what New computes. The places of a file are finitely many and `Before` orders them strictly, so the number
of places before one is different for each (`FewerAhead`) and, by the pigeonhole
principle, takes every value below their number (`RanksArePlaces`): the list has
every declared datacenter of the service and nothing else (`MembersAreDeclared`,
`DeclaredAreMembers`), and neither copy changes where it leads (`LeadsAsDeclared`).
That hosts are trusted only with a known_hosts file is what `Listed` keeps of
`buildBackend`: a shell that was built passed every one of its checks. For
`OriginConfined` the invariant has `Confined`: what the webui's Supervisor has
disabled is what the last SwitchCluster asked for, and no choice is disabled. A round
keeps the second part because `Select` returns none or an endpoint that is not
disabled (`SelectAmong`, from the code of the scan), SwitchCluster because it selects
anew in the same step.

In `Discovery_proofs` the invariant says of both lists that they are a sorted order
of targets of some set of records, or of numbered addresses. `Preferred` then
compares the two starts: a host has one target whenever it is found
(`HostHasOneTarget`), and of two that differ in priority or name exactly one is
`Less`. For addresses, `Named` is a counting argument: in a sorted list without
repetition the position of an address is the number of addresses below it.

**Only model-checked**: everything with fairness (`Converges`, `RunEnds`,
`Informed`, `CancelDrains`, `HandlersEnd`, `Answered`, `DialsReturn`, `ComesBack`,
`Settles`, `Teardown`), which the prover does not reach.

## Not modelled

- `webinject`, `shell/auth.go`, `shell/inject_auth.go`: they render JavaScript and
  keep no state. What the text does depends on the page and on when the platform
  binary evaluates it, both outside the repository.
- Labels and display names, `Target()`, the readers of a Supervisor or Shell for
  menus and titles: they copy state that the models have.
- The value of a duration in a configuration: `withDefaults` replaces one that is not
  positive, and the models take any positive one. A number that was meant as seconds
  is read as nanoseconds.
- `connect`'s refusal without a HostKey callback (`transport/ssh.go:70-74`): every
  SSHForward of this repository is made by `buildBackend`, which sets one.
- The clusters of a base configuration given to `Discover`: `normalisedClusters`
  appends them behind the targets.
- Ports and weights of SRV records; the user name of an SSH endpoint.
- What base64, JSON, ed25519, SSH and DNS libraries compute. Whether a key or a
  known_hosts file can be read is an input of `ShellConfig`, whether an assertion
  arrives intact one of `Assertion`.

## Plan

The order followed puts the Supervisor first (specification, promise, proofs,
timing), then what consumes its choice (control plane, gateway), then what it
depends on (transports, their composition `Path`), then the shell around them,
from its configuration on. What would come next:

1. The control plane seen from the WebView across a restart of the tray on
   another port, and the page: `Get` as a seed, notices before the hook.
2. A `Path` with two handlers and two SSH datacenters, to bound how often prober
   and handlers can drop each other's client when Dials are rare.
3. The two pairs of a shell in full: the loom gateway with connections of its own,
   in place of the listener and accept loop that `Shell` keeps of it.
4. The application's context in `Path` and `SSHForward`: which of the goroutines
   inside the SSH transport a cancelled context releases.
