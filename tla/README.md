# map-walker: a TLA+ verification project

map-walker is a multiplayer web game on a real map: browsers steer players over
a websocket, one Go process simulates the world, tells every browser about the
players and the collectible items near its own, and saves positions and scores to
a database; it can also play synthetic clients of its own. This directory holds
TLA+ modules translated from the Go (and a little JavaScript) source, TLC
configurations that check them on small instances, and TLAPS proofs for all
instances.

Run, inside this directory:

    tlasany AOI.tla                                      # parse
    tlc -workers 2 -config MCAOI.cfg MCAOI.tla           # model-check a run
    tlapm AOIProofs.tla                                  # check the proofs

`PROJECT.json` lists, for every definition, the source lines it translates; the
runs; for every property a mutant of the code the run rejects; the hazards the
properties are for; the theorems and the findings.

## 1. Inventory

All game state is owned by **one goroutine, the hub actor**
(`internal/realtime/hub.go`, `Run`). Everybody else reaches it through
unbuffered channels, so an operation is a rendezvous that can happen only while
the actor is in its `select`. The hard behaviour is where that actor meets
goroutines it does not control.

| Component | State | Operations | Talks to | Hard part | What makes it correct |
|---|---|---|---|---|---|
| **Area-of-interest index** `internal/game/aoi.go` | position, scan marker and cell of each player, visibility relation | Insert, MoveDetailed, RecalculateRelationships, Remove, VisibleNeighbors | called by the actor | enter scans are skipped for short moves; hysteresis 500/600 m; relation stored twice | relation symmetric, nobody visible beyond 600 m, only far pairs missed, reported deltas exact |
| **Hub actor and connections** `realtime/hub.go`, `client.go` | current connection per user, players, pending changes | register, replace, unregister, input, broadcast, logout, stop | clients, dispatcher, workers, HTTP handlers | replaced connections still have goroutines, queued jobs and blocked calls | one current connection, inputs only from it, stream in order, no goroutine left waiting |
| **Replication dispatcher** `realtime/replication_dispatcher.go` | one bounded queue per worker | Submit, send, failure callback, Stop | actor, clients | callback re-enters the actor; full queues drop | order per recipient, Stop ends |
| **Replication content** `hub.go`, `replication_builder.go`, `messages.go`, `web/app.js` | pending entered/left/appearance sets; markers of each browser | broadcast, build, normalise, snapshot, apply | index, world, dispatcher | changes, not snapshots: whatever is cleared, overtaken or dropped is wrong on a screen for good | the browser shows exactly the neighbours |
| **World** `internal/game/world.go` | positions, inputs, appearances, moved set | AddPlayer, ApplyInput, ResetInput, Step, UpdatePlayerAppearance | actor | input sequence numbers across connections | in `HubConnections`, `Replication` |
| **Position persistence** `storage/persistence.go`, `position_batch.go`, `hub.go` | dirty set, sequence numbers; worker's lastSeq, channels; users table | Submit (a goroutine per batch), SubmitSync, Drain, Stop | actor, database | batches overtake one another; chunks fail; rendezvous is not completion | a saved position never goes back; logout and shutdown save the last one |
| **Score persistence** `storage/score_persistence.go`, `score.go` | bounded channel, pending map | Submit, SubmitSync, Drain, flush with retry | actor, database | drops, retries, outages, Drain racing submissions | points are permanent, Drain ends |
| **Collectible field and pickups** `game/collectible.go`, `hub.go`, `web/app.js` | items per region, replacements, tracked items per player, pending item changes, gems | Populate, processCollect, Remove, AdvanceReplacements, recalcCollectibleVisibility | actor, replication, scores | two requests for one item, tracked items against the field, hysteresis for movers only, four lists in one update | an item is worth one point, a region keeps its target, gems follow what is tracked |
| **Synthetic clients** `internal/synthetic/manager.go`, `client.go` | a slot per account, ramp tokens, counters; queue and drain goroutine per client | load, tick (activate, ready, time out, disconnect), shutdown | hub, provisioner | the hub drops or replaces a client while the loop looks at it; drains end later | no client left over, counters exact, ramp and Stop end |
| **Provisioning** `synthetic/provisioner.go`, `storage/synthetic.go`, `cmd/synthetic-provision` | rows of the users table, a report per account | mark, load, create in chunks, correct appearance, place | database, manager; another provisioner | a statement fails, another provisioner changes the rows in between, a player walks meanwhile | reports are true, a saved position is never reset |
| **Accounts and sessions** `internal/auth`, `storage/users.go`, `sessions.go`, `server/auth.go`, `appearance.go`, `websocket.go` | users, sessions with expiry, cookies | Register, Login, Logout, AuthenticateSession, websocket accept, PUT appearance | hub (Register, DisconnectUser, UpdateAppearance) | handlers interleave statement by statement; a websocket outlives its authentication | a logout leaves no connection of its session; the world shows the saved appearance |
| Other handlers, the rest of the browser, migrations, benchmarks | | | | request parsing, drawing, SQL at start-up, measuring | see section 7 |

## 2. Modules

| Module | Models | Composes | Proofs |
|---|---|---|---|
| `AOI` | `game/aoi.go` | | `AOIProofs` |
| `HubConnections` | `hub.go` (connections, stop), `client.go`, `replication_dispatcher.go`, logout and accept handlers | | `HubConnectionsProofs` |
| `PositionPersistence` | `storage/persistence.go`, `position_batch.go` and the hub's part | | `PositionPersistenceProofs` |
| `ScorePersistence` | `storage/score_persistence.go`, `score.go` and the hub's part | | `ScorePersistenceProofs` |
| `Replication` | pending changes, builder, normalisation, the browser's markers | `AOI` (INSTANCE) | `ReplicationProofs` |
| `Pickups` | abstract: what the collectible world promises | | |
| `Collectibles` | `game/collectible.go`, the hub's collectible part, item messages, the browser's gems | implements `Pickups` | `CollectiblesProofs` |
| `Provisioning` | `synthetic/provisioner.go`, `storage/synthetic.go`, the command | | `SyntheticManagerProofs` |
| `SyntheticManager` | `synthetic/manager.go`, `client.go` | `Provisioning` (EXTENDS) | `SyntheticManagerProofs` |
| `Accounts` | `internal/auth`, users and sessions tables, the handlers with a session | | `AccountsProofs` |

Each `MC*` module only gives constants to its module; each `.cfg` is one run, or
one of the counterexamples listed under section 3.

### AOI

`pos`, `marker`, `cells`, `visible` are the fields of `AOIIndex`; `delta` is what
the last call returned. `Insert`, `MoveDetailed`, `RecalculateRelationships` and
`Remove` are the exported operations with all they call. Coordinates are local
metres as integers: the code's `LatLngToLocal` and its float64 rounding are not
modelled, so a pair within a rounding error of a radius may be judged otherwise
by the code. `Point` is any set of integer points.

### HubConnections

`hub` says where the actor is (its select, `sendInitialization`,
`dispatcher.Stop`, returned); `clients` and `world` are `players.clients` and the
world's players; per connection `pc` is the read loop, `buf` its send channel,
`closed` says that `finish` or `CloseSend` ran; `queue`/`worker` are the
dispatcher. What a job says is only the number of the broadcast that built it.
Register, Unregister, ApplyInput and DisconnectUser are calls that wait
(`pc`, `logouts`, `worker.step = "failing"`) until the actor takes them or
`channels.done` is closed.

### PositionPersistence

A position is the number of steps walked, so *older* and *newer* are comparisons.
`agenda` is what the actor has still to do in the event it handles: an actor with a
non-empty agenda is blocked, as in the code. `started` are batches whose
goroutine (`Submit`) has not reached the channel yet, `parked` is the FIFO of
blocked senders, `mode`/`writing`/`lastSeq` the worker, `db` the table. A write of
up to `ChunkSize` rows succeeds or fails as a whole. A logout drains the persister
and is answered whether or not the user is still online.

### ScorePersistence

`submitCh` (bounded, drops when full), `pending`, the worker's place in `run`
(`at`) and the snapshot `flushPending` works on. `earned` is a ghost: the points a
user ever had. `dropped` is a ghost: a submission was dropped for want of room.
The database has outages (`dbUp`); main closes it (`dbOpen`) after `Hub.Stop`.

### Replication

`Index == INSTANCE AOI` is the index inside the hub; `wpos`, `look`, `moved` are
the world; `pendingEntered`, `pendingLeft`, `pendingAppearances` the hub's pending
changes; a broadcast is `BroadcastTick` (take the movers), one `ApplyMovement` per
mover in any order, `Build`. `view[r]` are the markers of r's browser. A queued
update reaches the browser in order (`HubConnections!StreamInOrder`), or is
dropped by a full queue (`Build(dropped)`, any set, at any time); what the browser
has still to read is folded into the step that sends it. `gap` is a ghost: pairs
for which a change was never told and neither an entered, a left nor a snapshot
made up for it. Three things put a pair into `gap`: the recipient's own move (the
code tells the neighbour, not the mover), a dropped update, and a registration
that clears a pending change.

### Pickups and Collectibles

`field`, `nextID`, `replacements` are `CollectibleField`; `visible` is
`collectibles.visibleIDs` (`None` is a player without an entry, which the code
tells from an empty one: `advanceCollectibleReplacements` and `processCollect`
extend and shrink an entry and never create one); `collected` is
`pendingCollected`. The other three pending maps are filled and emptied within one
`broadcastReplication` and are values of `Broadcasted`. A broadcast is one step:
it runs within one event of the actor. `requests` are pickups on their way, with
whether their connection is still current; `gems` is the browser's
`collectibleGems`. The index appears as `at`, the position of each player at its
last broadcast, which is what `QueryPlayerIDsNearPoint` reads by cell
(`ReplicationProofs!IndexFollows`). A due replacement is any owed one: `respawnMin`
to `respawnMax` seconds are any number of broadcasts. The 300 ms cooldown is any
span after a player's last request. `gap` is a ghost, as in `Replication`: items
whose update was dropped, or that the hub let go of without a word.

`Pickups` knows only points, the region each item lies in, and what is owed.
`Collectibles!Game` is the refinement mapping.

### Provisioning and SyntheticManager

A row of `accounts` says whether it is marked as synthetic, has the fixed
appearance, and holds no position, an initial one, or one that was walked to;
`task[w]` is the progress of a call of `Provision`, one step per SQL statement
(chunks of `ChunkSize` accounts). There may be several provisioners: the service's
background goroutine and runs of the command. `SyntheticManager` EXTENDS it with
the manager's slots, one `Client` per account, and `current`, the hub's current
client per user ID, as `registerClient` and `removeClient` keep it. The loop runs
one event at a time, so `Tick` is one step that does for every slot what
`processActivatingAndActive` and `tryActivateNext` do. At shutdown each
`Hub.Unregister`, which waits for the hub's actor, is a step (`CloseNext`) between
which the hub goes on; those a tick makes, and its `Hub.Register`s, are part of the
tick. Time is counted in ticks
(`age`). A restart (`ProcessEnds`) forgets everything but the rows.

### Accounts

`request[h]` is what a handler goroutine is doing, each SQL statement and each hub
call a step; an open websocket is a handler too. `sessions`, `users` are tables,
`cookies` the tokens that were handed out (a browser may use any of them, in
several tabs); `clients`, `world` are the hub's current connection and the
appearance of the player. `AddPlayer` loads the saved appearance or, when that
fails, takes the default one. `late` and `crossed` are ghosts for what the two
properties exclude (section 6, findings 10 to 12), `unloaded` for the players whose
load failed and whose appearance has not been changed since (finding 15).

## 3. Runs

| Run | Question | States |
|---|---|---|
| `MCAOI` | Is the index consistent, and what do skipped scans miss? | 38 k |
| `HubReconnect` | Replacement, inputs, jobs, logouts and stop at every moment: safety | 1.9 M |
| `HubShutdown` | Do stop and every goroutine waiting for the actor end? (liveness) | 0.07 M |
| `HubStopStuck` | *violation*: `Hub.Stop` may never return | |
| `PositionSaved` | What is saved, dropped, overwritten; does the actor get back? | 1.1 M |
| `PositionSeqReset` | *violation*: the last position of a second session is lost | |
| `ScoreSaved` | Are points permanent, are none lost silently, does Drain end? | 0.16 M |
| `ReplicationViews` | Does a browser show exactly its neighbours? | 0.8 M |
| `Collectibles` | Who gets the point, what may be picked up, which gems are shown? | 0.73 M |
| `SyntheticManager` | Clients, counters, reports and rows; do ramp and Stop end? | 0.42 M |
| `SyntheticIdentity` | *violation*: two new synthetic clients act as one user | |
| `Accounts` | Does a logout end its connections, is the saved appearance shown? | 0.48 M |

`CHECK_DEADLOCK FALSE` is said where the program really stops: after `Hub.Stop`
(`Hub*`, `Position*`, `Score*`); in `Accounts` the bounded supply of tokens ends.
The other modules never stop and are checked for deadlock.

Five more configurations are kept as counterexamples to run by hand; each finds
the behaviour that section 6 describes:

| Configuration | Module | Violates |
|---|---|---|
| `HubStaleJob.cfg` | `MCHubConnections` | `ReplacedConnectionHarmless` |
| `PositionReconnect.cfg` | `MCPositionPersistence` | `ReconnectRestores` |
| `ScoreShutdown.cfg` | `MCScorePersistence` | `ShutdownSavesScores` |
| `ReplicationFrozen.cfg` | `MCReplication` | `NoFrozenMarker` |
| `CollectiblesGhost.cfg` | `MCCollectibles` | `NoDeadGem` |

### Bounds, and why they are enough

* `MCAOI`: three players on seven points, 1 unit = 10 m, so the lengths are the
  real 600/500/600/50 m. The points make every rule bite: moves of 4 (scan
  skipped) and of 5 or more, pairs on both sides of each radius, three cells one
  of which is negative, and a point with two others 8 apart around it, for drifts
  past a marker. Three players make a relation a third party could disturb. The
  proofs cover every other set.
* `HubReconnect`: one user with two connections is the smallest instance with a
  replaced connection; two workers, queues and buffers of two, three broadcasts
  and one input per connection let a buffer and a queue fill while the other
  connection registers. Different users share only a worker and the actor's
  attention; `WorkerOf` is a function of the user, so a second user adds load,
  which full queues and `SkipEmptyJob` cover. `HubShutdown`, for liveness, has
  one worker, and queues and buffers of one.
* `PositionSaved`: two users on one worker, two steps, one periodic save each way,
  two sessions, one failing write and one failing load, chunks of one row (as with
  SQLite): enough for a batch of the first session to arrive in the second.
  `MaxMove`, `MaxSave`, `MaxSession`, `MaxFail`, `MaxLoadFail` are guards on the
  environment only.
* `ScoreSaved`: two users, two points each (saved ones included), a channel of
  two, one outage, one failed load; sessions are not bounded.
* `ReplicationViews`: two players (symmetric; every property is about a pair) on
  three points at distances 40 (enters), 60 (kept, does not enter) and 100 (out),
  one change of look each. Connections, moves, broadcasts and drops are not
  bounded.
* `Collectibles`: two players (symmetric), one region of one item, which lies on
  a corner of four cells; the players stand within reach in the next cell, in the
  band between the radii, or beyond both but within the nine cells that learn of a
  new item, the three answers a distance can give. `MaxItem` = 2, the first item
  and its replacement, lets a request and a gem outlive their item. One request is on
  its way at a time (`MaxRequest` = 1), also one of a connection that is replaced
  meanwhile; requests of two players for one item are then served one after the
  other, which is how the actor takes them anyway, with anything in between.
* `SyntheticManager`: two accounts (a pair is what can share a user or compete for
  a token), one of the service and one of the command provisioning, chunks of one
  so that one chunk may fail and the next succeed, one failing statement; a client
  needs two messages, has room for two, and gets at most three, so that it can be
  late, ready, full and drained after its end. Restarts are not bounded. Tokens come
  one per tick; with two ticks per activation (`TicksPerSecond = 2`), when a tick may
  leave a fraction, the run passes too, in twice the time (0.6 M states before the
  steps of `CloseNext` were told apart); the theorem `TypeCorrect` covers every rate.
* `Accounts`: one user with two sessions, four requests at once, two appearances:
  a logout, its websocket, a second websocket that replaces it, and a change.
  Handlers of different users share nothing. The proofs cover every number of all
  of them.

### Fairness

* `HubConnections!FairSpec`: goroutines that can run do (weak fairness); Go's
  `select` picks among ready cases at random, so a caller that is ready again and
  again is eventually served (strong fairness on each case). Peers, inputs,
  broadcasts, logouts and the request to stop have no fairness.
* `PositionPersistence!FairSpec`: weak fairness of the actor's own steps and of
  the worker; nothing forces events, and a `Submit` goroutine may take for ever to
  reach the channel.
* `ScorePersistence!FairSpec`: the same, plus strong fairness of the two select
  cases and weak fairness of `Recovery`: every outage ends. Without the last, the
  actor waits for the database for as long as the outage lasts.
* `SyntheticManager!FairSpec`: weak fairness of the loop (its ticker ticks and its
  channels are read), of the wait at shutdown, of the drain goroutines, and of the
  service's provisioning, whose statements return (with an error, perhaps). Stop,
  what the hub does to a client, and the command need not happen.

## 4. Safety and liveness checked

* **AOI** `Symmetric`, `VisibleWithinLeave`, `NoNearbyStranger`
  (no pair closer than 500 - 3*50 m is invisible: both may have drifted by less
  than 50 m from their markers since their last scans, and one more is the scan
  that found nobody), `DeltaExact` (entered and left are what changed, and stable is
  everyone who stayed, for a move), `Hysteresis`.
* **HubConnections** `OneCurrentConnection`, `InputFromCurrent`, `StreamInOrder`,
  `OfflineForAReason` (one user at a time, because its current connection is closed,
  for its logout, or because a Send to a connection of that user failed; the last may
  be a connection that was replaced, finding 4), and, fair, `StopEndsOrStuck` and
  `GoroutinesEnd`: a logout and the goroutines of a closed connection end. These two
  exclude one circular
  wait, `StopStuck`, which `HubStopStuck` exhibits.
* **PositionPersistence** `NoStaleOverwrite`, `DropsOnlyStale`,
  `FirstSessionSaved` (logout and shutdown save the last position of a first
  session, also when the connection had left before the logout came),
  `EventsFinish`. Second sessions are the subject of `LogoutCommitted`, which fails.
  One periodic save per session is enough for a batch to overtake the final save;
  two periodic batches overtaking each other rest on the theorem `MonotoneSaves`. `NoStaleOverwrite` is about behaviours without failed
  writes, failed loads included: after a failed final save lastSeq stays low and a
  late batch of the first session can overwrite the second.
* **ScorePersistence** `PermanentPoints`, `NothingLost`, `ActorReturns`,
  `PointsEventuallySaved`. They exclude sessions whose load failed: pickups then
  count from 0 below the saved score. A submission left in the channel at shutdown
  counts as on its way; that it is lost is `ScoreShutdown.cfg`.
* **Replication** `ViewExact`: once nothing is pending about a player, a browser
  shows it if and only if the index relates the two, where it stands and with its
  look, except for pairs in `gap`; `IndexFollowsWorld`: between broadcasts the
  index and the world agree but for the players that moved.
* **Collectibles** `TrackedItems` (what the hub tracks for a player whose movement
  has been broadcast is on the field, and is all that lies within the enter radius if
  the player has an entry at all), `GemsTracked` (a browser shows the tracked items
  and those whose collection is about to be told, in spite of four lists in one
  update that are applied one after the other; `gap` names the exceptions), `OnePointPerItem`, which is `Pickups!Spec`: the
  refinement.
* **SyntheticManager** `NoStrayClient`, `CountersExact`, `AccountsReady`,
  `PositionsKept` (no provisioner resets a position that a player walked to), and,
  fair, `RampSettles` and `StopReturns`.
* **Accounts** `LogoutDisconnects`, but for the websockets in `late`;
  `AppearanceSaved`: when no change is under way, the world shows the saved
  appearance, or the default one as long as `unloaded` says that the load failed.

## 5. Proofs

`AOIProofs` proves, for every set of players, every set of integer points and
every four lengths that satisfy `RadiusAssumption` (cells no smaller than the enter
radius, a rescan step between the two radii, three steps within the enter radius;
all true of 600/500/600/50), the theorems `TypeCorrect`, `SymmetricIndex`,
`ExactLeave`, `BoundedMiss`, `ExactDelta` and `HysteresisHolds`.

`NoNearbyStranger` is not inductive: it says nothing of where a pair stood when it
was last scanned. The inductive invariant `IInv` adds

* `Drift`: a player is within RescanDistance of its marker;
* `MarkersApart`: the markers of an invisible pair are farther apart than
  EnterRadius - RescanDistance, since the later of the two scans saw the other
  player, which stood within its own drift of its marker;

to `TypeOK`, `Symmetric`, `CellsExact` (the cell map is the inverse of the
positions) and `VisibleWithinLeave`. The argument uses
the triangle inequality for integer points (`Triangle`, by Cauchy-Schwarz) and the
fact that two points within EnterRadius lie in adjacent cells
(`NineCellCoverage`), so that nine cells contain every candidate
(`EnterScanExact`). `Outcome` describes what one recalculation does to the
relation; `RecalculateOutcome` and `MoveOutcome` show that both code paths (enter
scan first, leave check first) meet it, `OutcomePreserves` that it preserves
`IInv`.

`ReplicationProofs` proves about the hub, again for every set of players and points:

* `IndexFollows` and `TypeCorrect`: the run's `IndexFollowsWorld` and `TypeOK`. The
  inductive invariant `IInv` adds that a player's index entry is behind its place in
  the world only while it is in `moved` or still to be applied by the broadcast at
  hand (`Tracked`), and that stable neighbours belong to that broadcast
  (`StableOK`); the types of the markers need in addition that the relation names
  players of the index only, which `IndexInHub` supplies.
* `IndexImplemented`: `Spec => Index!Spec`, the hub implements the specification of
  the index under the identity mapping: each step is an `AOI` step or a stutter,
  and the guard of the `AOI` step follows from `Tracked`.
* `IndexInHub`: hence the theorems of `AOIProofs` hold of the relation that the
  hub builds its messages from. `SameInit` and `SameNext` only say that the two
  instances of `AOI` (in `Replication` and in the proofs) are one.

* `ViewsExact`: the run's `ViewExact`. It becomes inductive when it says, of every
  ordered pair outside `gap` and at every point of a broadcast, how the marker may
  differ from the relation (`PairOK`): only by what is pending (a departure, an
  entry, a look) or by a position that the broadcast at hand has still to tell.
  `PendingOK` adds that nobody moves during a broadcast and that who has departed is
  not among its movers.

The assumptions of these proofs are those of `AOI` (`IndexAssumption`) and
`BoundAssumption`: `MaxLook \in Nat`, and `None` is no marker.

`HubConnectionsProofs` proves, for every number of users, connections and workers
and all queue and buffer sizes, from `ConnectionAssumption`, what `HubReconnect`
checks for one user:

* `OneCurrent` and `CurrentInput`: `OneCurrentConnection` and `InputFromCurrent`.
  The two are inductive together once the types of `clients`, `accepted` and `sent`
  are added (`Online`). Nothing need be known of the dispatcher's jobs or of which
  connection a handler names: `removeClient` does nothing unless the connection is
  the current one (`RemovePreserves`), a registration closes the one it replaces and
  resets its input (`RegisterPreserves`), an input is accepted from the current one
  only (`InputPreserves`), and every other step at most closes connections or ends
  goroutines (`QuietPreserves`).
* `StreamOrdered`: `StreamInOrder`. The invariant `Stream` says why: every job for a
  connection goes through the one worker of its user, comes after the connection's
  initialization and is not older than anything written to it (`Routed`); queues hold
  their jobs oldest first, the one being sent before all others (`QueuesInOrder`); and
  a connection that is current has registered (`Registered`), so that none is written
  to before it exists.
* `TypeCorrect` and `GoesForAReason`: `TypeOK` and `OfflineForAReason`. The types
  need that only finitely many players are online: a broadcast lists them. That a
  failed Send hits nobody but the owner of the connection needs that every job, in a
  queue or in a worker's hands, names its connection's user (`FailedOwned`, with
  `Routed`). The theorem does not say that the connection is the current one: it is
  not always (finding 4).

What a broadcast does to the queues is a `FoldLeft` of `Submit`, a function defined
by recursion. The prover has no induction, so that the recursion has a solution is
shown by a least counterexample (`UnfoldExists`, from `LeastNatural`); `FoldIs` then
replaces the fold by the sequence of queues after each job, about which one argues
job by job.

`PositionPersistenceProofs` proves `TypeCorrect`, `FirstSessionSafe`, `StaleDropped`
and `MonotoneSaves`, the run's `TypeOK`, `FirstSessionSaved`, `DropsOnlyStale` and
`NoStaleOverwrite`, for every set of users, any chunk size and any number of moves,
saves, sessions and failures, from `PersistenceAssumption`. The inductive invariant
has three parts.

* `Base`: the types, the shape of the actor's agenda (a final save is followed by the
  wait for it, a removal comes after the saves, a drain before the answer), one row
  per user in a batch, and that nobody is saved further than it has walked.
* `FirstSession`: the updates of a first session are ordered alike by sequence number
  and by position, those of the table and of `lastSeq` included (`Ordered`), so what
  is dropped is never newer than what is saved, whatever fails; and once the final
  update has been handed over, the last position is saved or on its way, and saved
  when the actor answers, if no write has failed. A user whose session has ended
  (`Ended`) is offline or in the middle of its departure, so that a logout that comes
  after a disconnect is covered: its drain waits for what is still on its way.
* `NeverBack`: while no write fails, whatever the worker would still accept is of the
  present session and ordered as above (`Accepted`). That needs `Settled`: a departure
  waits until the worker has received the final update, the highest number of its
  session, so all older updates are dead when the counter is deleted; and a player
  that comes back produces nothing acceptable before it has walked on. `Ordered` does
  not hold beyond a first session (finding 2), which is why there are two invariants.

`CollectiblesProofs` proves `TypeCorrect` and the refinement `OnePoint`:
`Spec => Game!Spec`, for all players, points, circles, radii and targets. The
mapping takes an item's region from the field and what a region is owed from
`replacements`. The step that matters is a request: it awards a point only when
the item is on the field, takes it off, and owes its region one, all in one event
of the actor, so a second request for the same item, from whichever connection,
maps to a stutter; a new item is not one of the old ones because IDs at or above
`nextID` are never on the field, the part of `TypeOK` the refinement needs.
`RegionsConserved` says of the field what `Pickups` promises, that the items of a
region and what is owed to it always make its target.
`TrackedInStep` and `GemsInStep` are the run's `TrackedItems` and `GemsTracked`. The
first needs that every tracked item lies in the nine cells of the position the
index has of the player (`TrackInv`): the fan-outs look for players by cell, so
whoever tracks an item is found when it is collected, and whoever is near a new
one is told. The second needs that a collection which is yet to be announced is
final (`Announced`), for it is told after, and wins over, whatever else the same
broadcast says of the item; that an item which enters cannot leave in the same
broadcast (`EnterRadius <= LeaveRadius`, in `FieldAssumption`) does the rest
(`BroadcastGems`).

`AccountsProofs` proves `TypeCorrect`, `LogoutEndsSession` and `AppearanceShown`,
the run's `TypeOK`, `LogoutDisconnects` and `AppearanceSaved`, for every number of
users, tokens, handlers and appearances, from `AccountsAssumption`. Three
invariants stand on one another. `Shape` is the types and that whoever makes a
request has an account. `Sessions` adds why a logout is complete: a websocket and
a logout are of the user of their session while it lasts (`SessionOwner`), so the
disconnect hits every connection of the session, and from then to the deletion no
connection of it is current but a late one (`Disconnected`). `Appearances` says
that, for a user whose changes do not overlap, table and world agree except
between the two steps of its one change, when the table holds the new appearance,
and except for a player in `unloaded`, which has the default one.

`ScorePersistenceProofs` proves `TypeCorrect`, `PointsPermanent` and `ScoresKept`,
the run's `TypeOK`, `PermanentPoints` and `NothingLost`, for every number of users,
points and outages and any capacity of the channel. `IInv` adds that no copy of a
score (in the channel, the pending map, a snapshot, the table) is above what was
earned (`Bounded`), so that taking the larger of two never invents points; which
agendas the actor may have, and that one which is past its `SubmitSync` has its
user's points in the table (`AgendaOK`); and that the worker answers what the actor
waits for (`Answering`). Merging takes a maximum, which exists because the copies
are bounded (`HighestIs`, from the library's well-foundedness of the naturals).

`SyntheticManagerProofs` proves `ReadyAccounts` and `PositionsSafe`, the run's
`AccountsReady` and `PositionsKept`, for every number of accounts, provisioners and
failures and any chunk size. Every statement only improves rows (`Grows`), so what
a provisioner has read or done stays true whatever the others do (`OthersKeep`);
`TaskOK` says what that is at each step, and that an account which was neither
found nor created is among the failed ones. The ramp takes only what was reported
or loaded (`SlotsOK`). `ClientsAccounted` is the run's `NoStrayClient`: `ClientsOK`
says that the hub's clients are those of the held slots that are open, `PhaseOK`
which slots hold one in each phase of the manager, from an empty table before a
start to a stopped manager that has let go of all of them. Each unregistration of
the shutdown does what the hub may do to a client anyway (`CloseDrops`). `CountsExact` is
`CountersExact`: `Counting` says that a slot whose client was found gone has failed
and holds nothing, and that a client whose drain has ended is closed and empty, so
that its messages are final; `Counted` then relates each counter to the slots.
`Drained` sums over a set in an order that a `CHOOSE` picks; `SumsExist` builds a sum
that is additive over disjoint sets, `DrainedIs` shows that whatever the order, this
is what comes out. `TypeCorrect` is `TypeOK`, with `Bounded`: queues and totals keep
their bounds, and the ramp never spends tokens it does not have, since the last
account it activates needed the tokens of all before it (`TokensSuffice`). The
assumptions are `ProvisioningAssumption` and `ManagerAssumption`, which says of the
bound `MaxMessage` that it leaves room for the initialization.

So every invariant and every action property that a passing run checks is also a
theorem. Only model-checked: liveness under fairness (`StopEndsOrStuck`,
`GoroutinesEnd`, `EventsFinish`, `ActorReturns`, `PointsEventuallySaved`,
`RampSettles`, `StopReturns`), which is out of the prover's reach.

## 6. Findings

Violation runs and configurations; the behaviours are TLC's shortest.

1. `HubStopStuck`: the stop event waits for the dispatcher's workers while a worker
   with a failed Send waits for the actor in `DisconnectUser`.
2. `PositionSeqReset`: the sequence counter is deleted at departure, the worker's
   `lastSeq` is not; in a second session updates are dropped until the counter has
   passed it, the final position of a logout included.
3. `SyntheticIdentity`: accounts that provisioning has just created are reported
   without their IDs (`provisioner.go`, `Provision`), so all their clients register
   as user 0, each replacing the one before; after a restart they are loaded and
   have theirs.
4. `HubStaleJob.cfg`: a dispatcher job of a replaced connection fails and its
   callback, which knows the user only, disconnects the new connection.
5. `PositionReconnect.cfg`: `SubmitSync` returns when the worker has *received* the
   update, so a reconnect may load the row before the write.
6. `ScoreShutdown.cfg`: `Drain` flushes the pending map, not the submission channel,
   and shutdown saves scores in no other way.
7. `ReplicationFrozen.cfg`: a player that leaves and returns between two broadcasts
   has its pending departure cleared for every recipient; a neighbour more than
   500 m from its new position keeps a marker that nothing updates. A mover that is
   told nothing of the neighbours it leaves behind has such markers too
   (`2026-06-15-replication-reverse-fanout-design.md` describes that as existing
   behaviour, the AOI design rules it out).
8. `CollectiblesGhost.cfg`: when a player moves, an item between 500 and 600 m from
   it is taken out of its tracked items, but its browser is told to remove only
   what is beyond 600 m (`hub.go:823`); when another player collects the item
   nobody tells the first one, and the gem stays on its screen.

Seen while modelling, and excluded by name from the properties where they matter:

9. A player in the world without an entry in `visibleIDs` is told of a new item
   but is not given an entry, so its pickup is refused until it moves. The pickup
   radius is 20 m (`hub.go:759`, `app.js`), where the comment above it and
   `README.md:104` say 10 m.
10. `Accounts`: a websocket that was authenticated before a logout may register
    after the logout's `DisconnectUser`, and outlive its session.
11. `Accounts`: `handleLogout` disconnects only if the session lookup succeeds; a
    logout of an expired session, or one whose lookup fails in the database, deletes
    the session and leaves the websocket (`late` collects both). That expiry alone
    closes no websocket is documented.
12. `Accounts`: two overlapping `PUT /api/appearance` may reach the table and the
    hub in different orders (`crossed`). A registration whose session cannot be
    created leaves the account.
13. `Provisioning`: an error in one chunk marks the accounts of chunks that had
    been created as failed; the pattern `synthetic_%` has a wildcard in it and marks
    any name that begins with `synthetic` and one more character; `Manager.Stop`
    neither stops nor waits for the provisioning goroutine.
14. `SyntheticManager`: messages of a client that failed before it was active are
    not carried over, so the totals of the statistics can fall, and the rates
    computed from them wrap around; ramp tokens pile up during provisioning and are
    spent in a burst.
15. `Accounts`: a player whose load fails (`hub.go:481`) stays in the world with the
    default appearance while the table holds another, until it changes its appearance
    or has left and is loaded again; replacing its connection does not load it.

## 7. Not modelled, and why

* Float arithmetic, the direction and speed of a movement, rotation of spawn
  points, the random choice of an item's place: pure arithmetic on values the
  properties do not tell apart.
* `Behavior`, the inputs a synthetic client invents: a hash of time and seed; to the
  hub they are inputs like others.
* JSON encoding, HTTP request parsing, passwords, drawing in the browser, the
  leaderboard (a query), statistics, logging, the region file's parser.
* Migrations (SQL run once before anything else exists); benchmark and load-test
  tools (they drive the system from outside).
* A crash of the process: `SyntheticManager` has one (`ProcessEnds`), since its
  accounts are loaded again. Elsewhere nothing but the database survives it, and
  there is no recovery code to model; what a crash loses is what `NothingLost`
  calls *on its way*.
* What a session is worth whose load failed: the code falls back to the spawn point
  and a score of 0, and no document says what may be saved then. The fallback itself
  is modelled, its position and score in the persistence modules, its appearance in
  `Accounts`.

## 8. Plan: what is left

1. An abstract single-cell `SavedValue` (save, load), refined by
   `PositionPersistence` (first sessions) and by `ScorePersistence`, with the
   refinement proved from the invariants of section 5.
2. The composition of `Accounts` with `HubConnections`: the logout handler and the
   registration are steps of both, each with the other's detail left out.
