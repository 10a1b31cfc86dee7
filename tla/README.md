# A TLA+ development for 2DPVP

2DPVP is a two-player duel: a C++ client, a Go gateway (accounts, matchmaking,
profiles) and a Go match server that runs the authoritative simulation and talks
to the clients over QUIC. This directory models the parts whose correctness
depends on more than one actor or on more than one step, checks them with TLC on
small instances and proves what matters most with TLAPS.

Paths below are relative to the repository; `room/`, `matchserver/`,
`matchmaking/`, `quicserver/` abbreviate `backend/internal/...`.

## 1. The system

| Component | State it keeps | Operations | What is hard | What makes it correct |
|---|---|---|---|---|
| Room (`room/room.go`) | players, inputs in force, pending commands, cooldowns, clock, verdict | `SubmitInput`, `Step`, `Snapshot` | phases and cooldowns across ticks, both players in one tick, end by two rules at once | `Timeline`, `VerdictFollowsLives`, `DamageIsEarned`, `Evenhanded`, `CountdownIsInert` |
| Room loop (`room/loop.go`) | a one-snapshot channel | `Run`, `publish` | back-pressure, cancellation, the final snapshot | `NewestWins`, `EveryoneHears` |
| Match (`matchserver/manager.go`, type `match`) | sessions with two channels each, last snapshot, start barrier, `terminalOnce` | `broadcast`, `finalize`, `playerDisconnected`, `abort`, `acknowledgeStart` | five kinds of goroutine end the match in any order | `SoleOutcome`, `OutcomeJustified`, `NeverBlocksNorPanics`, `Settles` |
| Match manager (same file) | `waiting`, `used` | `Authenticate` | verification outside the lock, first player giving up while being paired | `BothOrNone`, `OnceWhileValid`, `NobodyHangs` |
| QUIC server (`quicserver/server.go`) | one handler per connection | start, stream, end, grace period | disconnect against match end | `EveryoneHears` |
| Result reporter and profile (`matchserver/result_reporter.go`, `profile/`, `storage/postgres/profile.go`) | recorded matches, totals | `Report`, `RetryReport`, `RecordMatchResult` | lost answers, retries, two writers | counted at most once |
| Matchmaking (`matchmaking/service.go`) | entries, candidate queue | `Join`, `PlayerStatus`, `Leave` | stale ids, expiry, repeated joins | `NobodyWaitsInVain`, `PairsMutual` |
| Tickets (`matchticket/ticket.go`) | secret, ttl | `Issue`, `Verify` | expiry in whole seconds | a ticket handed out can be used |
| Auth service (`auth/`, `storage/postgres/postgres.go`) | players, refresh tokens | `Register`, `Login`, `Refresh`, `Logout` | a token presented twice, an answer that is lost after the rotation | `StaysLoggedIn` |
| Gateway (`gateway/server.go`) | none | HTTP routes | - | - |
| Input delivery (`client/game/input`, `client/game/match`, input half of the Room) | command queue, ticks, acks | `Enqueue`, `FixedTick`, `ApplySnapshot`, `queueAction`, `processActions` | loss and reordering in both directions | `ExactlyOnce`, `NothingForgotten`, `NeverOverflows` |
| Prediction, interpolation, presentation (`client/game/prediction.cpp`, `interpolation.cpp`, `presentation/`) | predicted position, unacknowledged inputs, points to draw between, last state observed | `ApplyInput`, `Reconcile`, `Push`, `Advance`, `Sample`, `ApplySnapshot` | snapshots late, missing or overtaken, frames of any length | `PredictedFromNewest`, `ShownOnce` |
| Match controller, QUIC client (`client/game/match`, `client/net/quic_client.cpp`) | connection state, mailboxes | `Connect`, `Poll*`, callbacks, `Close` | a callback between two polls, a late answer after a timeout | `EndIsShown`, `ErrorExplained`, `CauseKept`, `Settles` |
| Client session (`client/auth/session_manager.cpp`) | session, stored token | requests, refresh after 401, `Logout` | threads refreshing and logging out at once | `SingleUse`, `StaysLoggedIn`, `NoStaleCredential` |
| Client application (`client/app`) | screen, futures, transport, queue cleanup | screen transitions, `begin*`, `handleQueueResult` | stale futures, lost answers, objects that threads still use | `NoDangling`, `NeverBlocks`, `PendingIsLeft`, `NoStaleMatch` |
| Settings (`client/platform/settings_store.cpp`, bindings of `client/game/input`) | settings file, draft, bindings in use | `Load`, `Save`, `Rebind` | a crash or a failure within a save, editing during a save | `RestartKeepsBindings` |
| Updater (`client/update`) | installed client, backup, temporary file | `CheckAndStart`, `FetchHttps`, the updater's `main` | a crash between two renames, two starts at once, a changing manifest | `CopyRemains`, `Trusted`, `NoDowngrade`, `Installs` |
| Secure storage, gateway client, arena data, migrations, commands | key stores, requests, wiring | - | I/O | - |

How they interact. A client logs in at the gateway, joins the queue and polls;
matchmaking pairs two players and issues two tickets for one match id. Each
client connects to the match server with its ticket; `Authenticate` keeps the
first until the second arrives and creates the match. Both handlers write
`MatchStart` and acknowledge; then the loop steps the Room 30 times a second, the
broadcaster forwards snapshots to the two handlers, and the clients send input
datagrams that repeat every command not yet acknowledged. The Room's verdict, or
the disconnect of a player, ends the match through `finalize`, which fills both
sessions' `matchEnds` and posts the result to the gateway, where it is recorded
in the players' profiles.

On the client one main loop owns the screen. It starts every request as a future,
polls it once a frame and decides what comes next; only the QUIC client's mailboxes
and the session manager are shared with other threads. During a match the loop polls
the controller, whose snapshots correct the prediction and feed interpolation and
presentation. Settings are loaded once and saved by a thread; the updater runs before
the first window opens, and replaces the program it was started from.

## 2. Modules

    Duel <------- Match -------> MatchOutcome          (Match implements it)
      ^
      +---------- Room                                 (Room implements Duel)
    ActionDelivery ------------> CommandStream         (implements it)
    Matchmaking -> QueueEntries      ClientApp -> ClientLoop      Settings -> KeyBindings
    Rendezvous                                         (hands its matches to Match)
    Session <- - - ClientApp - - -> ClientMatch, Settings  (screens; see below)
    Room <- - - - Playback
    Updater

A module `X` has its TLC instance in `MCX`, run by `MCX.cfg`. Its theorems are in `XProofs`,
or with those of a neighbour: `Rendezvous`, `Matchmaking` and `ClientApp` in `PairingProofs`,
`Updater` and `Settings` in `FilesProofs`. A dashed line is an abstraction by hand, not an
`INSTANCE`: the module at its left takes the other's operations in the short form its comments
give.

`QueueEntries`, `ClientLoop` and `KeyBindings` hold the part of a component's state that others
see and what it promises about that part; the component EXTENDS it and adds the rest of the
state and the steps. A promise can so be named in a module that instantiates the component.

**Duel** is what the match server relies on when it runs a Room: clock, status and
result. `Match` EXTENDS it and steps it; `Room` is shown to implement it
(`DuelKept`), so what `Match` assumes of the Room is not an assumption of the
development.

**Match** models one running match. Every goroutine has a program counter
(`loopPc`, `bcPc`, `hpc[p]`), every Go channel of capacity one is a set with at
most one element, `terminalOnce` is a `sync.Once` with its three phases. Actions:
`Loop*`, `PublishTry`, `PublishDisplace`, `Republish` are the selects of
`Loop.Run` and `Loop.publish` one by one; `Bc*` are `match.broadcast`;
`EnterOnce`, `SendEnd`, `FinishOnce` are `finalize`, called by the broadcaster
(`BcFinalize`) or by a closing handler (`HandlerFinalize`), and the others skip
it (`BcSkipOnce`, `HandlerSkipOnce`) when it is done; `WriteStart`, `Acknowledge`,
`StreamSnapshot`, `ConnectionDone`, `DeliverEnd`, `GraceOver` are
`Server.handleConnection`, `CloneLast` and `Abort` the `session.Close` it ends
with. `HandOff` and `HandOffCanceled` are the last select of `Authenticate`.
`publishLatest` is one action: it has a single sender, and a receive between two
of its selects can only take what the second would discard.
`LoseConnection` is the environment. Player input is left out: to the match it
only decides which blow ends the duel, and when, which `Duel` leaves open.
**MatchOutcome** is its abstract promise: one outcome is decided, and what a player
is told is that outcome.

**Room** models the simulation itself, tick by tick: the countdown, phases of an
action (`Advanced`), movement and facing, dash and attack with their cooldowns,
hitboxes, damage, the two ways to finish. `StepActive` is one call of `Step`. The
code processes the players in array order; each of its sub-steps touches only one
player, except the attacks, which read both positions after both have acted, so
the model writes them per player. `FirstStart` stands for the loop of
`processActions`: a command that starts leaves idle and move, so no later command
of the same tick can start. Integer positions stand for the code's fixed-point
ones.

**ActionDelivery** is the path of one player's commands: `PendingActionQueue` and
`MatchController` on the client, two lossy channels whose contents are sets (so
datagrams overtake each other), and `queueAction`, `processActions` and the tick
window on the server. Commands are their sequence numbers. The queue of commands
is a set in it and a sequence of types in `Room`; the two modules model the two
halves of the same functions. A datagram is delivered at most once, as QUIC
delivers them. **CommandStream** is its abstract promise.

**Matchmaking** has one action per operation, all of which run under the service's
mutex. Time is how many `Tick`s an entry has left. `Leave` and expiry leave ids
behind in `waiting`, as in the code.

**Rendezvous** is `MatchManager.Authenticate`, one action per step that other calls
can come between: `Verify` looks at the ticket before the mutex is taken; `Refuse`,
`Wait` and `Pair` are the three ways through the section under the mutex, each with
the `purgeUsed` it begins with; `Meet`, `Abandon`, `GiveUp` are the cases of the two
selects, and `Remove` is `removeWaiting`, under the mutex again. Calls, not
players, are the actors: a client may call again with the ticket of a call that is
still waiting. A `waitingPlayer` is named by the call that made it and a match by
the call that created it, so that pointer equality is equality. `Meet` and
`Abandon` are the `HandOff` and `HandOffCanceled` of `Match`. The error of `newMatch`
is left out: it refuses empty and equal player ids, which the Gateway does not issue.

**Session** is the client's `SessionManager` against the Gateway's token rotation.
The steps lie between the accesses to the session (one short critical section
each), to the secure storage and to the Gateway. `JoinQueue`, `QueueStatus`,
`LeaveQueue` and `Profile` differ only in the request, so they are one family of
actions; the single repetition after a refresh changes nothing further and is part
of `Recheck`. Restoring, logging in and logging out are started by the screens one
after another, but requests outlive the screen that began them. A call can be lost
before or after the service has acted, the storage can fail, the client can die at
any step. `Rotate` is the transaction of `RotateRefreshToken`.

**ClientMatch** is one match on the client: the thread of `Connect`, MsQuic's callbacks
and the main loop. Every acquisition of `QuicClient`'s mutex is a step, so a frame is
four: `PollStart`, `PollSnapshot`, `PollEnd`, `CheckConnected`. The stream delivers what
the server wrote in order, datagrams are a set. A snapshot stands for its tick. `due` and
`newest` are history: what there was to poll.

**ClientApp** is the main loop around it: the screens of `RuntimeState` with the buttons
each draws, the six futures, the `QuicClient` and `MatchController` objects by identity,
`MatchmakingCleanup`, and the Gateway's queue entries as `Matchmaking` keeps them. A
thread's call acts on the Gateway and answers, or fails before or after acting; the token
refresh of `Session` is folded into it, as a failure that may cost the session. `Join` answers
with a wait or, if an opponent waits already, with the match. `accepted` is history: the
accounts whose entry at the Gateway is a match they have been sent into. It is forgotten when
the entry turns out to be gone or a new match takes its place; and, as the flag that the entry must be left
belongs to the process, by a restart, and for the other accounts when one account's queue
request has cleared the flag.

**Settings** is the settings file and its editing. `Clean`, `OpenTemporary`, `Write`,
`AtomicReplace` are the calls of `SettingsStore::Save` in the order of the code, each of
which may fail; `Kill` may come anywhere. Bindings are functions from actions to keys; a
document is such a function or `Garbage`. `Load` gives what the file says, or the defaults if
the file cannot be opened or read; `unread` (history) is what such a file held.

**Updater** follows one start of the client through `CheckAndStart`, the updater and the
new client, with the file operations as steps and `Bundle` choosing between the two builds:
the single file that a rename replaces, and the directory that neither `remove` nor a
rename over it can. A release stands for its file, so equality of contents is that of
checksums. `trouble` (history) is the set of clients with a failed call of their own;
`remove` fails without one, as its result is ignored.

**Playback** is what the player sees: the Room's step and its snapshots (a position moved
to or dashed to, any hit and any attack), lossy reordering channels, and `Frame`, one turn of
the main loop: `PollNetwork` with `ApplySnapshot`, the fixed ticks, `AdvanceFrame`. The
move of an input tick stays in `moves`, so that what was predicted can be compared with
what should have been. Times are whole ticks; the smoothing of the drawn position is left
out.

## 3. What the runs check

| Run | Instance | Question |
|---|---|---|
| `match` | two players, countdown 1, duration 2; 712 thousand states | Can any interleaving, with connections failing anywhere, produce two outcomes, a blocked or panicking `finalize`, an unjustified technical defeat, a stale mailbox, a connected client that is left untold? Does `Match` implement `MatchOutcome`? Do all goroutines return, is the result reported? |
| `room` | 3 x 2 arena, windup 1, active 2, recovery 1, 2 lives, 4 ticks; 349 thousand states | Are the countdown, the mirror symmetry of the places, the timeline of snapshots, damage, the verdict and the refinement of `Duel` right for every input? |
| `delivery` | queues 2, window 3, 4 commands, 4 ticks, 2 datagrams per direction; 131 thousand states | Is every command carried out once, in order, and none forgotten? |
| `matchmaking` | 4 players, ttl 3 and 2, 4 matches, symmetry; 2 304 states | Does anyone wait while another waits, are pairs mutual? |
| `rendezvous` | 4 calls, 2 tickets that expire one after the other, 2 ticks; 159 thousand states | Do both players get a session or neither, is a match created once while a ticket is valid, does every handler return that was taken, creates, or lost its connection? |
| `session` | 2 requests, 3 token pairs, symmetry; 1.3 million states | Is a refresh token sent once, does expiry alone never cost the session, is what is stored never older than the session? |
| `session_logout` | the same | Does a logout leave no credential? Not always (section 6). |
| `client_match` | a match of 3 ticks; 32 thousand states | Is an end that was there shown, has every error its first cause, is a dead match always left? |
| `client_app` | two accounts, restarts; 25 thousand states | Does a result name a match that was accepted before, does a thread or controller ever keep a destroyed `QuicClient`, does the loop ever wait for a future it overwrites, is every pending screen left? |
| `settings` | 2 actions, 3 keys; 221 thousand states | Does a save or a load that fails, or a save that is interrupted, ever cost the bindings that the file holds? |
| `updater` | 2 starts, 4 releases, 2 redirects, symmetry; 36 thousand states | Is a client always left, is only what was checked installed, never an older release, and does what a killed or failed update has left never stop the next? |
| `playback` | arena of 3 positions, 2 hit points, 3 ticks of the server, 2 of the client, frames of up to 2 ticks, 2 snapshots under way; 979 thousand states | Is the prediction the newest snapshot plus what it does not acknowledge, is every hit and attack shown once? |

Why the bounds are enough. In `Match`, channels hold one element, so a loop that
is two snapshots ahead of the broadcaster already meets every case of `publish`,
and one tick after the countdown already ends the duel by either rule; two ticks
add an update that a final snapshot displaces. In `ActionDelivery`, four commands
against queues of two overflow them twice; the constants keep the order of the
code's (queue <= sequence window, 8 <= 64). `room` has an attack that passes through all
its phases and a cooldown that ends within the match; what it leaves out (no windup or
recovery, longer queues, unknown commands) the proofs of section 4 cover. In `Matchmaking` four players allow two matches, a waiter
and a stale id at the same time. In `Rendezvous` the calls are interchangeable, so `MCRendezvous`
starts them only in the ways that differ by how many hold which ticket (liveness rules out a
`SYMMETRY`); four calls are two pairings of the
same match, or one pairing and two late repetitions, and tickets that expire in
different seconds tell the expiry of the creator from that of the first player. In
`Session` two requests are rejected for the same session and three pairs are a login, a
refresh and another login. In `ClientMatch` three ticks let one snapshot overtake another
and both the MatchStart or the MatchEnd. In `ClientApp` three objects are all that can be
referred to at once, and two accounts are one that has left something behind and one that
finds it. `Settings` has a free key and a key that is taken. `Updater` has two starts, so
that one update follows or meets another, and versions of which two are equal and one
shorter than the next. `Playback` has an arena whose edge is met by a second step in one
direction, a buffer smaller than the match, and a snapshot that overtakes another.

`CHECK_DEADLOCK FALSE` is used where the model stops by design: a finished Room
(its loop has returned), `ActionDelivery` and `Playback` at their bounds, `Rendezvous`, whose
calls are bounded and where a lone player waits for as long as his connection lasts, and
`ClientMatch` and `Updater`, which end with the match and the process. `Match` states its end
explicitly (`Terminated`), so a deadlock there would be a real one.

Fairness. Four modules have liveness properties. In `Match` and `Rendezvous` each goroutine is weakly fair:
Go's scheduler runs what is runnable, and the loop's ticker and the handlers'
grace timers fire. Neither a connection failing nor a client reading is assumed,
except that writing to a live stream completes. In `Rendezvous` the handlers run
once their ticket has been verified; that an opponent ever calls is not assumed.
In `ClientMatch` the thread of `Connect` (whose wait has a timeout), the callbacks and the
main loop are weakly fair: what has arrived is delivered, and the loop draws frames. The
server need not say anything and the network need not fail, so `Settles` promises an end
only once one of them has. In `ClientApp` the threads of the futures end (every HTTP call
has a timeout) and the loop polls; the player, the opponent and expiry are not fair.
A client that is restarted for ever need not get anywhere, so `PendingIsLeft` excludes it.

## 4. What is proved

Every safety property a run checks, invariant or action property, is also a theorem of its
module's specification, for every value of the constants that satisfies the named
assumptions: two distinct players, positive durations; for the Room, what
`NewWithRuleset` demands and spawn points inside the arena; for the delivery, that the
queue is no longer than the sequence window; for the settings, that the defaults are valid;
for the main loop, that accounts are not confused with the other values of a future; for
what is shown, that a move is one of -1, 0 and 1. So are the three refinements.

The inductive invariant of a module is its `IndInv` (`TypeOK` and `WaiterIsQueue` for
`Matchmaking`) and, where a property needs more, the predicate named below. The runs check
the properties that follow; the invariants themselves were checked on the same instances
before they were proved and are not repeated there.

A module of proofs EXTENDS one component. `PairingProofs` instantiates two more that are close
to it (`Q`, `A`), `FilesProofs` one (`S`), and both EXTEND what these promise; an instance's
assumptions are hypotheses of its theorems.

* `MatchProofs`: `IndInv` is inductive, hence `TypeOK`, `SoleOutcome`,
  `NeverBlocksNorPanics`, `EndBeforeClose` and with it `EveryoneHears`, `OutcomeJustified`, and `Match`
  implements `MatchOutcome` (`PromiseKept`). `SoleOutcome` is not inductive: one
  needs that everything said comes from the one admitted outcome (`OutcomeOnce`),
  that a session is filled once and keeps its end until its handler takes it
  (`Filling`), that a match that was never handed out never starts
  (`NeverStarted`), that channels close only when the outcome is settled
  (`Closing`), that a finished Room stands still (`Verdict`), and that who decides
  by closing was lost and told nothing (`Losers`). `NewestWins` rests on `Mailboxes`:
  a mailbox the loop has not filled yet or has just emptied, and the part of a broadcast that
  is done.
* `RoomProofs`: `TypeOK`, `Timeline`, `VerdictFollowsLives`, `CountdownIsInert`
  as invariants, `DamageIsEarned` as an action property, `DuelKept` as a
  refinement. The proof goes operator by operator (what a clamp, a phase, a move,
  a dash, an attack, a blow keep of the timeline) and strengthens with
  `ClocksAgree` (tick = countdown + active ticks), `AttackClock` (while an attack
  lasts, the cooldown still knows when it began; this is what dates a hit) and
  `Inert` (nothing is in force for a silent player). `Evenhanded` rests on `Balanced`:
  cooldowns and attacks under way are mirror images as well (`Images`), and each operator
  takes images to images, whichever player is first.
* `ActionDeliveryProofs`: `ExactlyOnce`, `NothingForgotten` and `StreamKept`,
  from `Contiguous` (queue, datagrams and Room queue each hold everything between
  their acknowledgement and their newest command) and `SnapshotOrder` (newer
  snapshots acknowledge at least as much). `NeverOverflows` follows from the same two, by
  counting: the commands between two acknowledgements are no more than the client's queue holds.
* `PairingProofs`, queue: `TypeOK`, `NobodyWaitsInVain` from `WaiterIsQueue`, and
  `PairsMutual` from `PairInv`, which adds that a match number is used once.
* `PairingProofs`, `Authenticate`: `TypeOK`, `NoOrphan`, `BothOrNone`, `OnceWhileValid`. The map
  holds only waits that have not ended (`Registered`), a wait that was taken has one
  creator and left the map (`Partners`), creator and partner play together or not at
  all (`Sessions`), and `used` outlives the creator's ticket (`UsedSince`).
* `SessionProofs`: `TypeOK` and `SingleUse`. Between `Lock` and `Recheck` there is one
  request (`Owner`); a token that was sent is still the session's only while its
  sender is about to replace it (`SentOnce`); a pair just obtained is new to everyone
  (`NewPairs`, `Known`); nothing runs while a stored session is restored
  (`QuietStart`). `StaysLoggedIn` needs in addition that the refresh of the one request that
  holds the mutex is for the session in use and cannot be refused (`LoggedIn`),
  `NoStaleCredential` that only the owner of the mutex changes a session that is there, and
  that what is stored besides is about to be the session or to be erased (`Restorable`).
* `ClientMatchProofs`: `EndIsShown` and `ErrorExplained` as invariants, `CauseKept` and
  that the world never goes back (`NeverBack`) as action properties. `CauseInv` says that a
  failure has a message and that an accepted connection is only lost by a failure or after
  the MatchEnd; `EndInv` follows an end that was there when the frame began through the
  frame's polls.
* `PairingProofs`, main loop: `NoDangling`, `NeverBlocks`, `NoStaleMatch`. A future that a
  screen waits for outlives neither the screen nor its poll (`OwnScreen`); the transport is
  made when a match is found and the thread alone uses it until it has connected (`Owned`);
  the session is that of the loop or of the call that will tell it (`OneSession`); and an
  accepted match that an entry still names is one the cleanup flag knows of, and the request
  that is to clear the flag has left its own account's entry before it joins (`Cleaned`).
* `FilesProofs`, updater: `CopyRemains`, `Trusted`, `NoDowngrade`, `Installs`. `InHand` says
  what each updater holds at each of its steps, `Vacant` that while the client's name is vacant
  there is a backup (of a bundle always, since nothing removes one) or an updater that holds a
  single file, `Sole` that without overlap one updater is busy, and `Files` where the client it
  was started from is meanwhile. All four are proved for both kinds of executable, though the
  run has the single file only. `NoDowngrade` compares by an order of its own (`Older`), of
  which `NewerIsLater` shows that `IsNewer` agrees with it.
* `FilesProofs`, settings: `TypeOK`, `RestartKeepsBindings` and that no key ever serves two
  actions (`Usable`), from `SaveInv`: a save is pending exactly while its thread runs, and
  until the rename the file still holds the bindings in use, or what could not be read at the
  start. More is not promised of such a start: a save after it replaces the player's bindings
  by edits of the defaults, which nothing in the code prevents or asks about.
* `PlaybackProofs`: `ShownOnce` and `PredictedFromNewest`. Whatever was told of the room, on
  its way or applied, is one history (`Chain`): a later snapshot has no more hit points,
  acknowledges no less, and tells of the same attack, of none, or of one that has begun since.
  So a difference shown is never shown again. The pending inputs are a run of numbers that
  begins after the newest snapshot's acknowledgement (`Predicts`), and to walk a path and then
  another is to walk both joined (`WalkJoins`).

Only model-checked is what is out of the prover's reach: liveness (both `Settles`,
`NobodyHangs`, `PendingIsLeft`). The library's induction theorems take an operator and no
backend can give them one; where a proof needs induction over the length of a path (`Walk`),
`PlaybackProofs` argues by the least counterexample (`Reaches`) instead.

## 5. Plan

In order of importance.

1. **ResultDelivery**: `RetryReport` against the gateway's idempotent
   `RecordMatchResult`; abstract specification: a result is counted at most once,
   and once if an attempt gets through.
2. **Pairing**: composition of `Matchmaking` and `Rendezvous`: what a lost answer to
   `Join` costs, and that two players who were told of a match meet in it.
3. Abstract promises of `Session` and `Updater`, stated as specifications of their own and
   shown to be implemented, as `MatchOutcome` and `CommandStream` are.

## 6. Where code and documents disagree

One disagreement has a run of its own:

* `session_logout` (`LogoutRemoves`): `RefreshAfterUnauthorized` compares the session
  (`client/auth/session_manager.cpp:204-205`) and then calls `SetSession` (line 206)
  without a lock over both. A request that is refreshing while the user logs out may
  compare before `Logout` clears the session, and store and set the new session after
  `Logout` has erased the old one: the client is logged in again, and so is its next
  start. The comment at line 70 of that file and `docs/client-flow.md:27-28` say that
  the local credential is always removed. What does hold is `SingleUse`, and
  `NoStaleCredential` as long as nobody logs out.

The others are definitions that no run lists. Each states what a comment or a document
says, and TLC refutes it when it is added to its module's `.cfg`:

* `RoomOutcomeStands` (`Match`): a handler whose connection failed may enter `terminalOnce`
  after the Room has finished and before the broadcaster gets there. Both clients and the
  report then carry `DISCONNECT`, whatever the Room decided, although the comment at
  `matchserver/manager.go:289-291` says that a concurrent disconnect can no longer publish a
  different result after the Room has ended. What does hold, and is proved, is `SoleOutcome`
  and `OutcomeJustified`.
* `NewestIsUsed` (`ActionDelivery`): the tick window (`room/room.go:228`) is measured from
  the last accepted input, while the client numbers every tick it sends. After more
  consecutive losses than the window is wide (120 ticks, four seconds) every later
  input is refused for the rest of the match; `docs/client-prediction.md:14-15` says that the
  tick numbers let loss and reordering be survived. `ExactlyOnce` and `NothingForgotten` still
  hold then: nothing is done twice, and the client keeps repeating.
* `ReceivedEndIsShown` (`ClientMatch`): `PollNetwork` asks for the MatchEnd
  (`client/game/match/match_controller.cpp:45`) and whether there is a connection (line 50)
  under separate locks. If both the MatchEnd and the close behind it arrive in between, the
  player is shown a network error without a text, and the end is never polled.
  `docs/network-protocol.md:71-73` promises the end with winner and reason. An end that was
  there when the frame began is always shown (`EndIsShown`, proved).
* `NewestIsApplied` (`ClientMatch`): of several snapshots the last to arrive is used
  (`client/net/quic_client.cpp:159`), not the newest; `docs/client-prediction.md:19` says that
  reordered datagrams are ignored. The world never goes back all the same (`NeverBack`, proved).
* `NoStaleMatch` for what the process has forgotten (`ClientApp`): whether a matched entry has
  to be left before the next join is one flag of the process
  (`client/app/application_runtime.cpp:265`). After a restart, or when another account logs in
  and uses the flag up, the old match is joined again, which the comment at lines 263-264 rules
  out. TLC shows it when `Restart` or `QueueSettled` leaves `accepted` unchanged.
* `ProfileIsOwn` (`ClientApp`): a profile request that Back left behind is answered on the
  profile screen of the account that logs in next (`client/app/application_runtime.cpp:213`,
  306); `docs/auth.md:10-11` speaks of the current user.
* `DraftKeepsSaved` (`Settings`): the draft is copied when the settings screen opens
  (`client/app/application_runtime.cpp:509`), even while an earlier save is pending; saving it
  takes that save back, against `docs/adr/0003-client-gameplay-architecture.md:427`.
* `ReplacedAtomically` (`Updater`): the updater renames the client away and then the new one
  into place (`client/update/updater.cpp:126`, 131), so between the two there is none, against
  `docs/client-updates.md:12-14`. A whole copy is left under the backup's name (`CopyRemains`).
  If the user starts the client again during an update of a single file, the second updater
  may remove that backup (line 125) and the first fail to install: a whole copy is then left in
  the temporary directory only, where nobody looks for it.
* `Installs` without its exception for a bundle (`Updater`, with `Bundle = TRUE`):
  `std::filesystem::remove` does not remove the `.app` that is the backup
  (`client/update/updater.cpp:100`, 114); it stays, and the next update's rename onto it fails.
  On macOS only one update in the life of an installation succeeds, against
  `docs/client-updates.md:20-23`.
* `CatchesUp` (`Playback`, with `Moves <- MCStill`, `Arena = 0`, `MaxHP = 0`, `Capacity = 32`,
  `MaxTick = 10`, `MaxInput = 10`, `MaxElapsed = 1`, `MaxInFlight = 1`, `MaxQuiet = 3`): the
  render tick advances at the server's rate and is capped by the newest snapshot
  (`client/game/interpolation.cpp:36`), so every late snapshot adds to the delay for good, up
  to the buffer's 32 points; `docs/client-prediction.md:16-18` says three ticks.

## 7. Not modelled

Cryptography and formats (tickets, JWT, password hashes, protobuf, JSON, frames), SQL,
drawing, audio, arena data, configuration and wiring. A datagram's authenticity is QUIC's.
The goroutine that feeds datagrams to the inputs channel is part of the lossy channel of
`ActionDelivery`: it may drop an input when the channel is full.

On the client: frames that the match server never sends (oversized or malformed ones, which
`QuicClient::Receive` refuses); the sending of datagrams, which changes no state; the operating
systems' key stores beyond one value whose writes may fail; two clients that share a settings
file; a power loss that undoes a rename; the smoothing of the local player's drawn position and
the flashes; the rounding of a frame's time, which `Playback` counts in whole ticks.

Not yet: the reporter's retries and the profile totals (section 5), the expiry of refresh
tokens, and the shutdown of the servers.
