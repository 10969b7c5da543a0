# Verification of lsp-server

TLA+ models of the mahjong server in this repository (rooms, rounds, sessions,
lobby, event delivery, and the Sichuan and competition rules), TLC configurations
that check them on small instances, and TLAPS proofs of what holds for every
instance. Run everything from this directory:

    tlc -workers 2 -config RoundPlay.cfg RoundPersist   # a run: module and cfg are in PROJECT.json
    tlapm RoundProofs.tla                               # the proofs: any module named ...Proofs

`PROJECT.json` lists components, runs, mutants (one plausible bug per property that
its run must catch), the map from definitions to source lines, the finding, the
hazards and the theorems. Paths below are relative to `src/internal` unless they
start with `docs/`, `deploy/`, `cmd/` or `pkg/`.

## 1. The system and its parts

A client sends WebSocket frames to a gate (`handler`), which calls a gateway
(`gateway/local` in one process, `gateway/remote` over gRPC to lobby and room
processes). A room lives in one actor: a goroutine with a mailbox. Events go to
PostgreSQL, then through a Redis list to the gate that polls the room.

| Part | State | Operations | Talks to | What is hard |
|---|---|---|---|---|
| Round engine `service/room/engine` | `RoundState`: hands, melds, wall, claim window, pending draw, flags, phase, deadline | start, opening actions, discard, pong, gang, hu, pass, timeout, save, restore, view | called by the actor | order of answers to a discard, robbed gangs, several winners, timeouts and departures anywhere, failure after a partial update, restart in any phase |
| Rules `mahjong/*` | none (pure), but for the rule state of the opening | win search, fans, claims, scores, settlement, advice | engine, bots | all hands, combinations of penalties and refunds |
| Room aggregate `domain/room` | seats, readiness, surrenders, hand number, FSM | join, ready, leave, close, next hand | called by the actor | sequences of commands over hands |
| Room actor `service/room/actor` | mailbox, closed flag, submit lock, scheduler, offline timers, draining | one command at a time, timers, shutdown | callers wait for replies; `onAuto` publishes | submit against close, stale timers, full mailbox, shutdown |
| Room service `service/room` | table of actors, active count, registry | EnsureRoom, Join, RecoverRoom, exit of an actor | starts actors, which call back | start, exit and recovery racing |
| Room adapter `adapter/room` | event log, snapshot, idempotency keys | ApplyEvent, PersistPublishAndFinalize, SnapshotRoom, RecoverOwnedRooms | service, Redis, PostgreSQL | a crash or fault between the steps, requests side by side |
| Sessions `session`, `handler`, `service/reconnect` | connection per user, queues, heartbeats, session records | login, join, leave, broadcast, cleanup, expiry | hub, gateway | a second connection of one user, dead clients |
| Event delivery `gateway/remote`, `store/redis` | the room's list, poller goroutines, cursors | push, pop, forward, replay, resubscribe | adapter, hub | events lost or repeated over a resubscription |
| Lobby `service/lobby`, `adapter/lobby`, `cluster` | rooms, Redis records, owner keys, leases | create, join, leave, match, bots, claim, restart | gateway, Redis, etcd | retries of what is still running, claims that race, rollback |
| Rate limits `pkg/ratelimit` | buckets, bounded cache | Allow, SeenOrStore | handlers | eviction |
| Configuration, processes, logging, metrics, generated code | - | I/O | - | - |

## 2. Modules

| Module | Models | Checked by |
|---|---|---|
| `RoundEngine` | one round and every engine operation, on counts of tiles | `RoundPlay`, `RoundEnds` |
| `RoundPersist` (extends it) | save, restore, restart; the view; phase tokens | the same |
| `RoundProofs` | the round's invariants, winners, restart, view, tokens | tlapm |
| `RoomLifecycle`, `MCLifecycle` | seats, readiness, hands, FSM | `Lifecycle` |
| `RoomLifecycleProofs` | `LifecycleInv` is inductive | tlapm |
| `RoomActor` | event loop, submits, scheduler, offline timers, shutdown | `ActorLoop`, `ActorAnswers` |
| `RoomActorProofs` | the actor's invariants | tlapm |
| `RoomProcess`, `MCProcess` | table of actors, requests, stores, snapshots for resuming clients, crash, recovery | `RoomProcess` |
| `RoomJournal` | abstract: what the process promises about events | refined by `RoomProcess` |
| `RoomProcessProofs` | the process's invariants; it implements `RoomJournal` | tlapm |
| `GateSessions` | connections, hub, writers, sessions, heartbeats, idempotency cache | `GateSessions`, `GateKeys` |
| `GateSessionsProofs` | the hub's and the cache's invariants | tlapm |
| `RoomFeed` | store, push, pop, forward, replay, login | `RoomFeed` |
| `EventFeed` | abstract: what a returning player is promised | refined by `RoomFeed` |
| `RoomFeedProofs` | the feed's invariant; the safety part of `EventFeed` | tlapm |
| `Lobby` | gateway calls with retries, lobby table, Redis, etcd | `Lobby` |
| `LobbyProofs` | records, calls, seats and owners | tlapm |
| `Tiles`, `TableRules`, `WinForms` | encodings, standard claims, win search | through the next ones |
| `HandAnalysis`, `Guobiao` | distance and advice; competition fans and score | through `HandTable` |
| `HandTable`, `OpeningTiles`, `MCRules` | state machines that feed the rules: one seat's hand, one opening | `Rules` |
| `BloodBattle`, `MCPoints` | one round's points: draws, gangs, wins, departures, settlement | `Rules`, `SettlementZeroSum` |
| `RulesProofs` | the opening, the points, the hands, the win search and readings, the exclusion of fans, the advised discard | tlapm |

The models meet at the actor. One command of `RoomActor` (`HandleAct`,
`HandleTimeout`, `HandleLeave`, `HandleReady`) is one action of `RoundEngine` and one
of `RoomLifecycle`; `RoomActor` sees of the round only whether one is open and its
deadline. `RoomProcess` composes the table of actors with the adapter and the
stores and reduces the hand to its number and step; the events it pushes are those
`RoomFeed` carries, and `GateSessions` has the hub that `RoomFeed` reduces to
"registered".

### RoundEngine and RoundPersist

Variables are the fields of `RoundState` that guard or are changed by an operation.
Which tiles a hand holds decides only who may claim, win or gang; those answers of
the rules are nondeterministic within what the counts and the four copies of a tile
allow (`DiscardCandidates`, `QiangGangCandidates`, `CanHu`). `phase` stands for
`phaseReason` and the waiting flags `enterPhase` keeps equal to it; `deadline` is
none, running or expired; `Tick` is the clock. `dealt` and `robbed` are what the
code recovers from a hand's contents. Every operation runs to its end in the actor
and is one action, trailing draw, settlement and phase change included; errors that
leave state behind (`DiscardMissingTile`, a failing `completeBuGang` in
`PassClaimBy`) are actions or disjuncts.

`Restart` rebuilds every variable from `MarshalRoundPersistJSON` as
`RestoreRoundFromPersistJSON` and `InjectRecoveryRuntime` do. A closed round saves
nothing; unset seats are written as 0; the deadline is not saved but computed again
from the start of the phase. `SnapshotWaiting` and the offered actions are the view;
`PhaseUpdateFromProgress`, `PhaseUpdateFromRoundView` and `DriftPhaseUpdate` are the
three ways a phase token reaches a client, `ValidatePhaseToken` how it comes back.

### RoomActor and RoomLifecycle

A submit is two steps (`Begin`: lock and look at `closed`; `Send`). A `fire`
goroutine goes through `start` (timer ran out, not yet counted), `sending`, a queued
`timeout` message and `callback`. The client side (`Drop`, `Notice`, `Reconnect`)
lets the server learn of a broken connection after the player is back. `signal` and
`lost` are history. `RoomLifecycle` has one action per command on the aggregate with
the FSM moves on its way; `TimeoutSurrenders` covers a successful timeout and one
that fails after it surrendered a seat. Commands on a closed room are allowed,
because `ensureActorForExistingRoom` starts a new actor for one.

### RoomProcess

A request is a program counter: `Begin` (idempotency check), `EnsureRoom`,
`CreateRoom`, `StartActorLocked`, the command, `PersistNotifications`, `Effects`
(push, summary), the snapshot in four steps (`MetaPrev`, `MetaRoom`, `MetaRound`,
`MetaPut`) and `Answer`. Every message and every store call is a step of its own.
When `MaxSeq` fails, the snapshot is written with the seq of the previous one.
`SnapshotRoom` for a client that resumes is three steps: the state of the room
(`SnapshotState`; from Redis when this node has no actor that answers), the cursor
(`SnapshotCursor`; none when `MaxSeq` fails) and the view (`SnapshotView`). As in the code
the view is empty when there is no round, no actor or a mailbox that refuses; a refusal
counts as a fault.
`Crash` loses what is in memory; `Recover` is `RecoverOwnedRooms` with
`DeriveRecoveredState`, including a round that cannot be restored. `games`, `done` and
`rolled` (how many events were stored before the last start) are history.

### GateSessions and RoomFeed

In `GateSessions` a read loop handles one frame at a time; login and join are several
steps because the session record is read and written in two, and the room is asked in
between; hub operations hold the lock and are atomic. Heartbeats are ages advanced by
`Tick`; expired ones are closed only when some frame arrives, as in the code.
Game requests, leave, match and create go through `shouldDropRequest` first, joins and
logins do not. It drops a request for the rate limit (`Limited`, possible at any time
because the bucket is a matter of real time) or for its key (`Dropped`; `UseKey`): all
kinds of requests share one least-recently-used cache, keyed by message, user and id.
`RoomFeed` has the pollers, of which a cancelled one notices so only after its pop;
faults are a failing push, the expiry of the list, a failing replay, a second gate
popping the same list and a player leaving (which cancels the poll for everybody on
that gate).

### Lobby

A call of the gateway is retried after two seconds while the first attempt goes on
with a cancelled context: it still changes the table, but its writes to Redis and
etcd fail. The table changes under the mutex, the record is written after it is
released, and the claim in etcd is a read followed by a transaction. Faults are
time-outs, broken transports (of a leave and of a bot's call too: they are not retried,
but what has begun in the lobby goes on), Redis, etcd, the end of a lease and a restart
of the lobby. `ListRooms` is
the set of the lists the sort may give: oldest first, rooms of one age in any order.
`told`, `lost` and `restarted` are history. `told` is the seat a player was last told
and has not asked to leave since (the gateway's own `roomSeats` keeps it even after a
leave); `lost` (rooms rolled back, leaves that broke off) and `restarted` name the ways a
given seat may go without its player being told.

### The rules

The pure algorithms are operators, and recursive functions where the code recurses
(`meldN`, `enumerateMelds`, `Walk`). They are exercised by state machines, so that the
inputs are hands play can reach: `HandTable` draws, discards, claims and gangs over a box
of tiles, and a chi takes the run the player names, or the lowest one for a player who
names none; `BloodBattle` draws, books gangs and wins and settles at any moment;
`OpeningTiles` sends selections, quits and exchanges. In `BloodBattle` a seat may keep
what it draws and discard another tile, `due` is the turn an open claim window goes on
with after the last pass, and `late` (history) are winners that were made to draw once
more. References: `DecomposerExact` and `ReadingsExact` compare with an enumeration of
multisets of melds, `ShantenIsDistance` with the number of replacements to the nearest sum
of melds and a pair (`MeldSums`), and to the nearest of them that is a win, with four
copies of a tile at most (`Standards`). The fans of a competition win are computed with
the gang records the engine passes beside the melds (`gangRecords`). Sums over tiles,
seats and events are `Total`, the number of units of a bag of counts (`Units`), which is
what the proofs reason about.

## 3. Runs

The invariants ending in `Inv` are conjunctions of a module's named parts, its `TypeOK`
included, and so are those of `rules` but `ExchangeConserves`; each part is defined
and commented beside them. Each conjunction's mutant breaks one of its parts.

| Run | Instance | Shows |
|---|---|---|
| `round_play` | wall 3, one meld per seat, two robbers, two seats may sleep or leave, restarts anywhere | hands, claim windows, deadlines, reasons to close, earthly win, wall, winners before play; a restart changes nothing; the view offers what the engine takes; every current token is accepted |
| `round_ends` | wall 2, exchange of three, all seats may sleep, one may leave, two robbers, restarts; fairness | the exchange keeps every selection of a seat that stayed in and skews a hand only next to a surrendered seat; `IInv`; the deadlines alone end every round, except from an opening that waits only for surrendered seats and a round left without phase by a robbed gang |
| `actor_loop` | one caller, one user, mailbox 3, two broken connections, a shutdown | deadlines watched, cancelled offline timers harmless, quiet after shutdown |
| `actor_answers` | two callers, mailbox 2, a shutdown, fairness | nobody stranded; every queued command is answered |
| `room_lifecycle` | five users, two hands, leaving allowed | the invariants of the aggregate |
| `room_process` | two requests at a time, three in all, a timeout, one fault, one crash | one actor, told events stored, snapshots within the log, a settled hand not resumed, a playing room with a round, views that cover their cursor and empty ones that hide no hand; implements `RoomJournal` |
| `gate_sessions` | two connections of a user, queue 1, no keys, four frames, one event | the newer connection stays, closed and dead ones go, admission before registration and in every session record or stale copy of one |
| `gate_keys` | one connection, one id, four kinds of requests, cache 2, seven frames | a key runs again only after as many other keys as the cache holds; a dropped request changes nothing |
| `room_feed` | two pollers, two events, three logins, two faults | pushed once, nothing slips past a player who is logged in, cancelled pollers end; implements `EventFeed` with its fairness |
| `lobby` | two players, one number, two nodes, two requests at a time, one fault (a broken leave among them) | distinct seats and three bots at most in every record, every answer to its own call, given seats kept and routed, owners stay, calls end |
| `rules` | five kinds of a suit with four copies and special boxes, named runs; three deals of a blood battle, one meld or kept draw and one departure in each; one opening | the algorithms against their references; payments, penalties, refunds, breakdowns, settlement and exchange against what happened |
| `settlement_zero_sum` (violation) | the same ledgers | the scores and penalties of a settlement do not always sum to zero |

**The finding.** `BuildSettlement` (`mahjong/sichuan/xuezhandaodi/settlement.go:73`)
copies a seat's balance into its score inside the loop that books penalties seat by
seat, so what later seats owe an earlier one never reaches its score.
`docs/drills/20260512-player-journey/06-settle-rematch.md:22` demands a zero sum.
`OnlyLaterPenaltiesMissing` says that exactly these amounts are missing.

**Bounds.** `WallSize` 3 lets every seat but one draw, a claim interrupt the rotation, a
gang take its supplement and the wall run out on each path. `MaxMelds` 1 is enough for a
pong and its added gang; `MaxRobbers` 2 for one robber that wins and one that passes.
`Sleepers` are two adjacent seats, the dealer among them. The proofs drop these bounds. In
`round_ends` every seat may sleep through everything and `Leavers` is one seat, so that a
departure meets every phase. In the actor one user and two callers give every pair of
racing goroutines; a mailbox of 2 or 3 can be full. Five users over four seats allow
replacements, two hands what carries over. `room_process` has one seat, so that one join
and one ready start a hand, and three requests of which two overlap: enough for a slower
request to write behind a faster one and for a settlement before a crash. Two connections
and a queue of one are the least at which a takeover and a full queue happen. With a cache
of two and four kinds of requests a key is refreshed, evicted and run again within seven
frames, the login among them. In the feed two pollers are an old and a new one. In the
lobby two attempts of one call and a second player racing them are all there is to
overlap. Five kinds of tiles reach the edge of a suit, runs that overlap and four copies;
the boxes add honors, knitted straights and orphans; the deals hold pigs, hands that wait
and do not, gangs of each kind and a robbed gang. One meld or kept draw (`MaxChanges`) is
enough for a winner to keep a tile of its missing suit and to be charged for it. The
largest runs have 2.5 million (`room_process`) and 2.1 million (`actor_loop`) states.

Deadlock is not checked: closed rounds and rooms, exited loops and exhausted bounds
stop by design. Unwanted stops are properties (`WaitsUnlessGangRobbed`, `RoundEndsOrStalls`,
`NobodyLeftWaiting`, `EveryCallAnswered`, `CallsEnd`, `CancelledPollersEnd`).

**Fairness.** `round_ends`: the clock advances and the scheduler delivers expired
deadlines (that it does is `ExpiredDeadlineWatched` with `EveryCallAnswered`, a full
mailbox excepted); players owe nothing. Timeouts are strongly fair, because a restart may
find an expired deadline running again, but not for ever: it is always counted from the
same saved start of the phase. `actor_answers`: the
loop runs while it can, a submit holding the lock proceeds, the context of a shutdown
ends. `gate_sessions`: the goroutine of a connection is scheduled and its read deadline
passes. `room_feed`: goroutines of room process and gate are scheduled and Redis answers.
`lobby`: a request in the lobby goes on, the gateway takes its answer or notices that the
lobby is gone. No client, fault, crash, lease or timeout of a caller is fair.

**Refinements.** `ImplementsJournal`: `RoomProcess` implements `RoomJournal`, with the
log as journal and what was pushed or acknowledged as told. `ImplementsFeed`:
`RoomFeed` implements `EventFeed`; `up` is a registered connection on
a gate with a current poller, and the fairness of `EventFeed` (every stored event that
no fault took is shown while the feed stays up) follows from that of the goroutines.

## 4. Proofs

Each proof module shows, for every value of the constants under the named assumptions,
that a conjunction is inductive: one lemma for the initial states, one per action (or per
step several actions share), one for stuttering. TLC checks the conjunctions, or in
`RulesProofs` the properties they are for, as well. In all of them the property of
interest needs company, and what that is says why the code works.

`RoundProofs`, for every wall size, rule variant and bound. `InvariantHolds` is
`Spec => []IInv` with `IInv = TypeOK /\ HandShape /\ ClaimWindowAnswerable /\
WaitsUnlessGangRobbed /\ Bookkeeping`. `HandShape` alone is not inductive: a claim or
draw keeps it only if no draw is open in a claim window, the pending gang seat still has
its pong, a robbed gang is forgotten with the next draw, and melding seats hold what they
claim with. `Bookkeeping` says this. `FinishStep` and `DrawStep` show that the two ways a
turn ends re-establish `IInv` from hands that owe nothing (`Settled`); then one lemma per
operation. `TypeCorrect`, `HandsKeepTheirShape`, `ClaimWindowsAnswerable`,
`WaitsForSomebody` follow; `WallShrinks` is an action property (in a claim there is
nothing to rewind). On top of it `PlayInv` adds `ClosedForAReason`, `EarthlyWindow`,
`ExchangeSkewedOnlyBySurrender` and that nobody wins before the opening is over; from it
follow `ClosesForAReason`, `EarthlyFlagFalls`, `ExchangeIsFair`. The exchange needs to
know of the unfinished exchange which selections are kept, so this is part of the
property. `WinnersAreServed` is an action property: of the steps that end a claim
window, each serves the winners or finds none.

The second half of `RoundProofs` is about `PersistSpec` (the round with restarts).
`RestoreUndoesMarshal`: a restart leaves every variable but the deadline as it was, which
needs `IInv` (a window is open exactly in the claim phase, so candidates written only
then are all there are). `InvariantSurvivesRestarts`, `PlaySurvivesRestarts` and
`WinnersServedAcrossRestarts` follow. `CurrentTokensAreAccepted`: any token made of an
update that left in the current state is accepted; the waiting reason a snapshot guesses
is the engine's, because somebody is shown as asked in every phase (`SomebodyIsAsked`,
from `NearestSeat` and `HighestSeat`). `ViewAgreesWithEngine`: the view, derived by other
code than the engine's guards, offers a seat in play only what they accept, and asks
somebody whenever the round waits for a seat in play.

`RoomLifecycleProofs`, for every set of users and number of hands: the conjunction of the
invariants is inductive (`LifecycleHolds`), `NeverMissesTheStart` among them;
`StartIsNeverMissed`, `SeatsAreUnique`, `PlayingHasARound`, `SurrendersMirrorTheRound` and
`SeatsHold` follow.

`RoomActorProofs`, for every set of callers and users and every mailbox size:
`ActorInv /\ NobodyLeftWaiting /\ ExpiredDeadlineWatched` is inductive. Nobody is left
waiting because the submit lock is held exactly between the look at `closed` and the send
(`LockIsSending`) and the closing loop takes it before it empties the mailbox. A stale
offline timer is harmless because of the order of the mailbox (`SignsPending`): a sign of
life the loop has yet to take stands behind every absence and ahead of every timeout
that was recorded since. `OfflineSound` follows from it at the head of the mailbox.

`RoomProcessProofs`, for every number of users, seats, requests, hands, faults and
crashes: `ProcessInv /\ SnapshotWithinLog /\ PlayingHasRound /\ ViewCoversCursor` is
inductive. `ProcessInv` has what requests carry between two steps: a batch is in the log
where its base says (`BatchInLog`), what was read for a snapshot is past (`SeenIsPast`),
every event belongs to a step that was made, and the hand being played has no settlement
stored or on its way (`EventsSound`). `SettledSound` is that last part. `ViewSound`: the
actor's view is read after the cursor, so it is at least as far; and an empty one hides
no hand still played, because a hand that starts later has no event below the cursor yet.
`JournalImplemented`: `Init` maps to the initial state of `RoomJournal`, and every step
is a `Store`, a `Tell` or a stutter; a `Tell` needs `BatchInLog`.

`RoomFeedProofs`, for every number of pollers, events, logins and faults: `FeedInv` is
inductive. That nothing slips past a player needs that everything up to the cursor of
its snapshot is shown, that a registered player in replay has a poller that replays from
this cursor, and that an event is at one place (`PollersFit`, `PushedOnce`).
`FeedImplemented`: the safety part of `EventFeed`, step by step.

`GateSessionsProofs`, for every number of connections, users, rooms, keys, frames and
every queue and cache size: `HubInv /\ KeyRunsOnce` is inductive. Who is registered was
admitted needs the same of every session record, and of every copy of one that a handler
or the event pump has read and will write back (`RecordsAdmitted`). `KeyRunsOnce` needs
the order of the cache: a key in an older place has been used before those in newer ones,
so when a key is pushed out `CacheSize` others were used since (`CacheInOrder`,
`HoldsMany`).

`LobbyProofs`, for every number of players, rooms, nodes, requests, attempts, calls and
faults: `LobbyInv` is inductive by itself. Records stay sound because `JoinRoom` and
`AddBot` take the lowest free seats (`SeatedSound`, `WithBotsSound`). A given seat is kept
because an attempt that timed out never drops a seat: only a leave does, and a leave is
not retried (`CallsMatchRequests`). It has its caller waiting, or its transport broke;
such a leave is in `lost`, which only grows, for it may take a seat regained since.
`HandlerStep` and `GatewaySideStep` are the two shapes all steps have: one request moves
on, or one call does. `OwnersStayOwners` is the action property.

`RulesProofs`, for every deal, box of tiles and bound. It starts with what a total is:
`Total(c)` is the cardinality of a set of units, so that adding up, moving a tile,
splitting by seat or by class are facts about finite sets (`TotalSplit`, `TotalMoved`,
`TotalByClass`) and need no induction.

* `OpeningConserves`: the exchange neither makes nor loses a tile. It needs that until
  the last seat has sent its tiles nothing has moved and each selection can still be
  taken from its hand (`SelectionsStillHeld`); then the exchange is four hands less what
  they give and more what they get, the same bags in another order (`ExchangeMoves`).
* `PointsAlwaysAccounted`: the five parts of `PointsAccounted`. `LedgerIInv` says of the
  ledger that every event is a gang or a recorded win, that a seat wins once, is paid for
  it and, unless it drew again (`late`), holds none of its missing suit, and that a
  settlement is still what the ledger gives. A winner is never charged for not waiting
  because that penalty looks at the wins first. Points only change hands because every
  event is received by one seat and paid by another (`BalancesCancel`). What a settlement
  misses is found by splitting the penalties at the seat whose score is copied
  (`PenaltiesUpTo`, `LaterPenalties`).
* `MeldFactsReadBack`: the text of a meld in a saved round is read back as the meld.
* `HandsKept`: thirteen tiles and one for the draw, whatever is drawn, discarded, claimed
  or upgraded, with whatever run a player names for a chi: the engine takes one only if it
  holds the tile, is a run of one suit and its other tiles are in the hand; and a chi is
  offered exactly when one can be taken. `HandIInv` counts the
  closed tiles together with those in meld facts, a gang as three, within the box.
* `HandsAlwaysRead`: the win search is exact, and so is the enumeration of readings and
  the two special hands, for every set of kinds (with all 34: every hand of the game).
  `meldN` and `enumerateMelds` try only melds of the lowest tile, the reference any
  multiset of melds. They agree because the lowest tile must be in some meld, it can only
  be the first of a run, every meld with it is tried, and melds commute (`SumSplits`,
  `SearchStep`, `MeldsCommute`); for readings the same with bags (`ReadStep`). The depth
  is four at most, so both recursions are unrolled five times (`MeldNSays`,
  `EnumerateSays`) and `SearchIsExact` and `ReadFour` go up step by step. `ReadIInv`
  adds that a hand holds only tiles of its box and has four melds at most: without it the
  number of tiles does not say how many melds are left to find. `OrphansExact`
  and `KnittedExact` count kinds.
* `SuppressedFansPaid`: whatever fans a win shows, one that is left out is excluded by a
  counted fan worth at least as much. Not obvious, since a fan that is itself left out
  still excludes: what it excludes, the fan that left it out excludes too
  (`ExclusionsReach`). The one exception is `half_flush` behind `full_flush`, and no hand
  shows both (`FlushesDiffer`).
* `BestDiscardDecided`: `betterDiscard` is a strict total order on the options of a hand,
  so the advised discard exists, is unique and does not depend on the order in which
  options are compared. It assumes of the options that they are records with
  integer scores and a byte for the tile (`Options`).

Assumptions are the named `ASSUME`s of the modules, which TLC evaluates on every run:
natural bounds, sizes that are not zero, Boolean flags, a wall that is not empty, "none"
values that name nothing else. The rules are about hands of thirteen tiles with no more
than four of a kind (`OpeningAssumption`, `DealsAssumption`, `DealtAssumption`), of the
kinds of the game (`KindsAssumption`). `GateSessions` has finitely many users. In `Lobby`
a bot's name is no user's: a user id is a UUID (`handler/ws_handlers_session.go:126`), a
bot's starts with `bot:` (`service/lobby/lobby.go:395`).

**Only model-checked.** Liveness, which needs fairness and ENABLED: `RoundEndsOrStalls`,
`EveryCallAnswered`, `DeadClientForgotten`, `CancelledPollersEnd`, `CallsEnd`, and with
the fairness of `EventFeed` `ImplementsFeed`. `AdviceSound`: the distance is a walk over
sets of part splits without a fixed depth (`Walk`), so what it computes needs induction
over data; that it is the least number of replacements is an argument about all ways to
cut a hand into blocks; and the suits and tiles advised come out of `SortSeq`,
`SelectSeq` and sums by fold, of which the provers know no facts. Of `FansAccounted` the
exclusion is proved (`SuppressedFansPaid`); `ExposingAddsNoFan` and `MCRFanPaidOnce`
are not, because they go through the matchers of all fans on all readings, with `Max`
and sums by fold.

## 5. Plan

1. Proofs: abstract specifications of the seats `Lobby` gives out and of the calls
   `RoomActor` answers, with the refinements; for `RoundEndsOrStalls` and `CallsEnd` the part
   that is an action property, a measure of the round or call that no step raises.
2. A guobiao round in `RoundEngine` (chi, own claim order), then its save and view.
3. Totals over hands in `RoomLifecycle`.

## 6. Seen on the way and not run

Behaviours of the code that the models have and no run singles out.

*Round.* A seat surrendered in the exchange, by its time-out or by leaving, is never
answered for in the step of the missing suits: `ApplyTimeout` passes over surrendered
seats (`engine_timeout.go:28`), and the opening waits for good
(`docs/adr/0018-room-timer-and-heartbeat-clock.md:25` speaks of responses for surrendered
seats). `RoundEndsOrStalls` says that this and the robbed gang are the only stalls. A seat
that won in a claim window draws and discards again when another winner passes last,
because the turn was fixed before (`engine_claim.go:288`;
`docs/drills/20260512-player-journey/04-draw-discard.md:20` excludes it). It may keep a
tile of its missing suit and be charged for it; `WinnersPayOnlyForLateDraws` says that
nothing else is charged to a winner. A relayed claim keeps the first candidate's deadline
(`engine_claim.go:272`; `docs/PROTOCOL.md:104` says otherwise). After a robbed added gang
the last pass leaves a round without phase and deadline (`engine_claim.go:279`). The
concealed gang keeps the mark of the heavenly win; the first winner on the dealer's first
discard ends the earthly win for the second; `lastGangFollowUp` survives a timeout of the
gang seat (`engine_timeout.go:74`); a seat that could win may meld past another winner.

*Views and tokens.* The view offers "hu" to surrendered candidates and to a turn seat
that has won, which the engine refuses (`ViewMatchesEngine` leaves these seats out). A
token is a step and a reason; passes, added gangs and timeouts do not move the step, so
a late second "pass" can match a later window of the same step. In a window with only
chi the snapshot of a guobiao room has no waiting action, and candidates with chi cannot
be restored.

*Actor.* A timeout names no phase: one that is queued or doubled acts on the next phase
(`actor.go:364`, `scheduler.go:50`; `docs/ROOM-FSM.md:46`). A connected player is
surrendered when the end of the old connection is noticed after the new login
(`handler/ws.go:92`). `Shutdown` of a room that has just closed does not wait for the
callback of the timeout that closed it.

*Process.* `SnapshotRoom` reads state, cursor and view one after the other and ignores
that there is no view (`adapter/room/server.go:143`). When a hand is settled in between,
the client is shown a playing room without a view, with a cursor that is already past the
settlement, which is then not replayed, although
`docs/adr/0014-reconnect-session-and-snapshot-cutover.md:32` has this order so as to miss
no frame. `ViewCoversCursor` says what does hold. The active count can be too low; the
snapshot's seq can go back; recovery reseats players from the first seat on and forgets
readiness, hand number and scores; a closed room is served again after a restart; one
unreadable room keeps a node from starting; a failing idempotency mark is ignored; a view
of SnapshotRoom may be empty because the mailbox was full, or older than the cursor
because it came from Redis (`ViewCoversCursor` leaves both out). Totals are kept by seat
and stay when a player leaves between hands (`domain/room/room.go:187`).

*Gate and feed.* With two gates (`deploy/k8s/base/gate/deployment.yaml:9`) both pop one
list per room, so each event reaches one of them only, although `docs/CLUSTER.md:25`
calls gates interchangeable. `CloseConn` with a running writer does not close the socket
(`session/writer.go:83`). A second login of another user on a connection leaves the first
user registered. A cursor update can be lost to a concurrent one. A retry that reaches
another gate runs again as far as the gates know: each has its own idempotency cache, and
only keyed requests that the room process marks are stopped there.

*Lobby.* A join whose claim fails keeps its seat; an older record can overwrite a newer
one in Redis; an expired lease is not registered again; a delayed attempt can seat a
player who has left, and a leave whose transport broke can unseat one who came back;
`roomSeats` of the gateway is never cleared by a leave (`gateway/remote/room.go:79`); the
seat in the lobby and the seat in the room are chosen apart.

*Rules.* `Shanten` promises that 0 means the hand waits
(`mahjong/analysis/analysis.go:35`). For 666777888m 1111p it is 0 and no tile completes
the hand: a fifth 1p is refused by `hu.IsWinning`. `ShantenIsDistance` says that the
distance is short by one at most, and only in a hand with four of a kind. A hand with
melds is never "ting" for the settlement, so it pays as one that does not wait; concealed
gangs of a pig keep their income when somebody won; a round that ends in the opening
charges pigs against suit 0; a hand of triplets with a gang does not count as all
triplets; open pongs count as concealed ones; the fan for robbing a gang is never awarded
live. In the competition rules every gang counts as two kongs, once as a meld and once as
a record (`KongFans`, `ExposingAddsNoFan` states it), fans of several readings are
combined, and "hu" is offered below eight points and then refused.

*What the proofs asked for.* Some of the properties hold for a reason that is easy to
undo. `ViewCoversCursor` holds only for events since the
last start: a recovery from an older snapshot does not play later events again, so a view
after it may lack an event below its cursor (`recover.go:125`). That a player misses
nothing rests on the replay, not on the order of subscription and registration: a frame
forwarded before `Hub.Register` goes to nobody. And a seat in the lobby survives late
attempts only because `LeaveRoom` is never retried. The win search is complete
only because runs do not cross suits and honors have none: the check of the suit is
what makes "the lowest tile starts its run" true. And a left-out fan may exclude
others only because the table of exclusions is closed under composition, or nearly so.

## 7. Not modelled

* Byte and frame encoding, generated protocol code, configuration, logging, metrics,
  wiring of processes and migrations: no state the properties could be about. They are
  more than a third of the implementation's lines.
* Inputs and outputs of the modelled components that only copy: notification payloads,
  conversion of views to messages, game requests of `handler` that forward a call.
* The token bucket of the rate limit and the expiry of session records and keys: matters
  of real time. Circuit breakers and connection pools of the stores: stores are modelled
  by what their callers see, answers and failures.
* A guobiao round in the engine: its rules are modelled on hands (`Guobiao`,
  `HandTable`), its claim windows with chi are not.
* `engine_auto.go` (used by tests only), the automatic choice of exchange tiles (nothing
  reaches it), rule interfaces without a registered variant, shuffling.
* Server-side `AutoMatch`, `CreateRoom` with an id and `GetRoom` of the lobby, which the
  gateways do not call, and the watches of the cluster registry.
* The gateway of the single-process build: it makes the same calls without a network.
* Totals over hands.
* `RoomFeed` takes the snapshot a player resumes with as complete up to its cursor. What
  `SnapshotRoom` really gives is in `RoomProcess`; where the two differ is in section 6.
* A second gate's idempotency cache, and the gateway's map of seats (`roomSeats`), which
  finds the user of a seat for frames that are for one seat only.
* `ReadingsExact` gives the enumeration the concealed tiles only; readings with open melds
  are reached through the fans (`ExposingAddsNoFan`) and not compared with a reference.
