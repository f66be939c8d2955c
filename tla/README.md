# Seat booking: models, checks and proofs

A verification project for the seat booking service (NestJS, PostgreSQL through
TypeORM, Redis, Kafka). The service sells seats: a client asks for a set of
seats, has them reserved for some minutes, pays, or lets the reservation lapse.
The promise that matters is that a seat is sold to one person; everything
below is about how far the code keeps it, and about what a client is told.

1. [The system](#1-the-system)
2. [The modules](#2-the-modules)
3. [What is abstracted](#3-what-is-abstracted)
4. [The runs](#4-the-runs)
5. [The proofs](#5-the-proofs)
6. [Where the code departs from its documents](#6-where-the-code-departs-from-its-documents)
7. [What is not modelled](#7-what-is-not-modelled)
8. [The plan](#8-the-plan)

To repeat a check: `tlc -workers 2 -config Bookings_one.cfg MCBookings` (the
runs and their modules are in `PROJECT.json`), `tlapm Bookings_proofs.tla`.
Modules that end in `_proofs` hold theorems; those that begin with `MC` give
constants their values for TLC. `SeatReservations` is small enough to hold its own.

## 1. The system

Paths are relative to the repository's `src/`.

```
 client ── POST /bookings ──► BookingsController ──► KafkaProducerService
                                                         │ topic booking-requests,
                                                         ▼ key = first seat
   polls /bookings/request/:id      KafkaConsumerService ──► BookingConsumerService
        ▲                                                        │ createBooking
        │ Redis booking:request:<id> ◄───────────────────────────┤
        │                                                        ▼
 client ── confirm, cancel ──► BookingsController ──► BookingsService ──► PaymentsService
                                                        │        ▲
                             LockingService ◄───────────┤        └── BookingTimeoutService
                             (Redis lock:seat:<id>)     ▼            (cron, every minute)
                                                   PostgreSQL: bookings, seats, rooms
```

Any number of processes run this code over one database, one Redis and one
Kafka. Inside a process JavaScript yields at every `await`, so two calls
interleave at their awaits whether or not they are in the same process.

| component | state | operations | interacts by | hard behaviour | correct when |
|---|---|---|---|---|---|
| `LockingService` | Redis keys with a 30 s time to live | `acquireLock` (SET NX PX), `releaseLock` (Lua check-and-delete) | called by `BookingsService` | keys lapse under their owners, Redis errors, processes that die | a key is released by its owner or by time |
| `BookingsService`: the locks of several seats | tokens of the keys it holds | `acquireMultipleLocks`, `releaseMultipleLocks`, one key at a time | loops over `LockingService` | overlapping requests that take their keys in opposite orders; an error in the middle of a loop | all or nothing, exclusive, nothing left behind, no call waits for another |
| `BookingsService`: the bookings | rows with status, deadline, transaction id | `createBooking`, `confirmBooking(s)WithPayment`, `cancelBooking(s)By…`, `expireBookings` | database; payment; locks | values read before an await and used after it; the cron job and the expired mark take no lock; partial failures around commit | one occupant per seat; all seats of a request or none; a confirmed booking is paid for; no payment on record lost |
| `BookingTimeoutService` | none | runs `expireBookings` every minute | `BookingsService` | races with confirmations | reservations do not stay for ever |
| `PaymentsService` | none (simulated gateway) | `processPayment`: 1 s, then success or refusal at random | called under the seat locks | its delay is the window of most races | a call that returns normally has recorded its payment |
| `BookingsController` | none | `create` sends the request to Kafka, `getBookingByRequestId` reads the answer; the other handlers call `BookingsService` | Kafka, Redis | an error answer for a message that was sent after all | every accepted request gets the right answer |
| `BookingConsumerService` | answer of each request in Redis, for an hour | `handleMessage`; subscription with 30 retries | consumer callback, `createBooking`, Redis | redelivery after a crash, copies of a message, failures between commit and answer | an answer is true, final and eventually there |
| `KafkaConsumerService` | flags connected/running, callbacks, pending topics | `connect`, `subscribe`, `subscribeToTopic`, `retryPendingSubscriptions`, `setupSubscriptions` | timers, kafkajs | timers and awaits of four loops over one list; a failure of `run` | every registered topic is consumed in the end |
| `KafkaProducerService` | connected flag, retry counter | `connect`, `sendMessage`, `sendWithRetry` | timers, kafkajs | retries after an attempt that did succeed; connection attempts in parallel, on a flag that is not the state of kafkajs | a message is sent at least once or the caller told so |
| `SeatsService`, `RoomsService` | rows of seats and rooms | create, update, remove, activate, deactivate, generate | HTTP | check-then-act without unique constraint or transaction; whole rows saved back | one seat per position, seats inside their room |
| `UsersService`, `AuthService`, seed, configuration, `RedisService` | users | register, login, find | HTTP, library code | one check-then-insert, which a unique index backs up | — |

Every hazard is listed with its line in `PROJECT.json`, next to the
properties that would catch it; a hazard without one says why.

## 2. The modules

| module | what it is |
|---|---|
| `SeatMutex` | abstract: an operation takes a whole set of seats, or gives it back, in one step; held sets are disjoint |
| `SeatReservations` | abstract: seats are granted all together to whoever asked, sold to their holder, withdrawn or lapse; with its own theorems |
| `SeatLocks` | the Redis keys and the two loops of `BookingsService`, one Redis command per step; `Abstract == INSTANCE SeatMutex WITH held <- heldSeats` |
| `SeatLocks_proofs` | theorems about `SeatLocks` |
| `Bookings` | EXTENDS `SeatLocks`: `BookingsService`, `PaymentsService` and the cron job, one await per step |
| `Bookings_proofs` | theorems about `Bookings` with its locks |
| `Groups_proofs` | theorems about the bookings of one code and their payments, on top of `Bookings_proofs` |
| `Reservations_proofs` | `Bookings` implements `SeatReservations`, and what follows |
| `MCBookings` | sets of requests, kinds of calls and the symmetry for the runs of `Bookings` |
| `BookingRequests` | controller, producer, Kafka lanes, `handleMessage`, the answer in Redis, over an abstract `createBooking` |
| `MCBookingRequests` | two requests, two seats, two lanes |
| `BookingRequests_proofs` | theorems about `BookingRequests` |
| `KafkaCalls` | calls of kafkajs end normally or throw; the failures that producer and consumer share |
| `SendPromise` | abstract: what a caller of `sendMessage` may rely on |
| `KafkaProducer` | `KafkaProducerService`: timers, parallel connects, retries; `Promise == INSTANCE SendPromise WITH ...` |
| `KafkaConsumer` | `KafkaConsumerService` with its overlapping loops over topics, and the clients that subscribe |
| `Messaging` | EXTENDS both: a message from `sendMessage` to the callback of its topic |
| `Messaging_proofs` | theorems about producer, consumer and the promise |
| `Catalogue` | `RoomsService` and `SeatsService`, one query or write per step |
| `MCCatalogue` | one room with one seat at the start, and what administrators may send |
| `Catalogue_proofs` | theorems about `Catalogue` |

`SeatLocks` implements `SeatMutex`, and `BookingRequests` takes the locks of
`createBooking` to be that much (all or none, in one step); `KafkaProducer` implements `SendPromise`, whose `Post` and `Send`
are those of `BookingRequests` with a count of copies in place of the topic. So the
small models that the end-to-end module stands on are themselves checked against
the code's own steps.

`SeatReservations` is the promise that both ways into the system share:
`Bookings` implements it with confirmation codes for holders, `BookingRequests` with
requests, where a holder may ask again (a message is delivered twice) and
nothing is sold. It does not promise that a sale is in time, as the code does
not check that; `SalesInTime` names what is missing.

### SeatLocks

`lock[s]` is the token under `lock:seat:<s>`, `want[o]` the seats an operation
passed to `acquireMultipleLocks`, `todo[o]` those its loop has still to visit,
`mine[o]` its `lockTokens` map. `failedSeats` is `want \ (todo ∪ mine)`.

| action | code |
|---|---|
| `StartLocking` | `acquireMultipleLocks` starts |
| `AcquireLock(o, s)` | one round of its loop: SET NX, token or failure noted |
| `ReleaseLock(o, s)` | one round of a release loop: the Lua script, the token forgotten |
| `CrashLocks`, `RedisError` | the process dies; a command throws out of a loop, executed or not |
| `LapseLock(s)` | the time to live is over |

Operations are abstract here: they lock, hold and release, again and again.
`Bookings` drives the same actions from the real calls.

### Bookings

An operation `o` is one call. `pc[o]` says which await it is in: `lock`,
`seats`, `bookings`, `insert` (createBooking), `expire`, `pay`, `write`
(confirmations and cancellations), `release`. The code that follows an await
runs in the step that answers it. `booking[c][s]` is the row for seat `s` under
the confirmation code drawn by create `c`; `entity[o]` the object that a
`save()` will write back whole; `charged` the calls whose payment went through.

| action | code |
|---|---|
| `CreateBooking`, `AcquireSeat` | entry and lock loop of `createBooking`; `AcquireSeat` serves all calls |
| `FindSeats`, `FindActiveBookings`, `InsertBookings` | the three awaits of its transaction |
| `NotFound`, `LookupRefused`, `LookupOverdue`, `LookupAccepted` | the lookup and the checks at the head of the two confirmations and the two cancellations, which come before the locks |
| `ExpireFound` | a confirmation marks what it found overdue |
| `ProcessPayment`, `WriteBookings` | payment and write under the locks |
| `ReleaseSeat` | the loop of the `finally` block |
| `ExpireBookings`, `Tick`, `ToggleSeat`, `Lapse` | cron job, clock, administrator, time to live |
| `Crash`, `RedisFails`, `DbFails` | the faults; a write whose call throws may have taken effect |

The single calls (`confirmOne`, `cancelOne`) write the loaded entity back with
its stale columns; the group calls update named columns. `NewRow` keeps the
two apart.

### BookingRequests

A lane is a partition with the group member that reads it. `topic`,
`position` and `committed` are Kafka's; `pc[l]` is the await of `handleMessage`.
`createBooking` appears as lock (all or nothing, as `SeatMutex` promises),
transaction, return; `answer[r]` is the key `booking:request:<r>`.

| action | code |
|---|---|
| `Post`, `Send` | `BookingsController.create`, one attempt of `sendWithRetry` |
| `TakeMessage`, `LookUpAnswer` | `eachMessage`, the test for a processed request |
| `LockSeats`, `CreateBookings` | `createBooking` |
| `StoreCode`, `StoreError` | the answer, in the try and in the catch block; a SET that throws may have been executed |
| `AutoCommit`, `Crash` | offsets; a member dies, its lane is read again from the offset |
| `LapseLock`, `EndBooking` | time to live; expiry and cancellation |

### KafkaProducer

A message `m` is one call of `sendMessage`. `sender[m]` is its await: `connect`,
`send` (the record is under way), `refused` (kafkajs, which is not connected, throws at
once), `wait` (the pause), `reconnect`. Calls of `connect` share
`producerConnected`, the flag, and `producerRetries`, whoever makes them: `timers` counts
the timers that will call it, `dials` the calls that timers have made. `linked` is whether
kafkajs takes records. The two differ: a connect that fails takes the flag back from one
that succeeded, and `sendWithRetry` sends whatever the flag says. What is under way may be
stored and acknowledged whatever the flag says by then.

| action | code |
|---|---|
| `Dial`, `DialEnds` | a timer runs out; its `connect` ends, sets flag and counter and perhaps one more timer |
| `SendMessage`, `ConnectForMessage` | `sendMessage` up to its first attempt |
| `Attempt`, `RefusedAttempt` | `producer.send` and the catch block of `sendWithRetry`; a call that throws may have stored the record, unless it was refused |
| `Retry`, `ReconnectForMessage` | after the pause, with the `connect` before the next attempt |
| `DestroyProducer`, `DisconnectEnds` | `onModuleDestroy`, up to its await and after it |

### KafkaConsumer

Topics are subscribed to by loops that all run `subscribeToTopic`: the loop of
`setupSubscriptions`, calls of `retryPendingSubscriptions` by the interval, and calls
of `subscribe`. `todo[f]` is the rest of a loop's copy of the list, `topic[f]` the
topic in hand, `attempts[f]` its `retryCount`. `pending[t]` counts occurrences
in `pendingSubscriptions`, as the code guards its pushes with `includes` and splices by
index.

| action | code |
|---|---|
| `ConnectConsumer`, `ConsumerConnects`, `ConsumerConnectFails` | `connect`, its timer, the snapshot that `setupSubscriptions` takes |
| `AttemptSucceeds`, `AttemptFails` | one round of `subscribeToTopic`, and what its caller does when it returns |
| `RunSucceeds`, `RunFails` | `consumer.run` and the retry at once that follows it |
| `Enqueue`, `SubscribeNow` | `subscribe`, called by `trySubscribe` of `BookingConsumerService`, while the consumer does not run and while it does |
| `RetryPending` | the interval; an earlier call may still be under way |
| `DestroyConsumer` | `onModuleDestroy` |

`Messaging` puts the broker between the two: `Produce`, `Consume`, and
`EachMessage`, which passes a record to the callback of its topic.

### Catalogue

A call `c` starts with its first query. `pc[c]` is the query or write it waits in
next, `job[c]` what it carries along: the row as it was read, and the request.
`stale[c]` is history: the tables that others have written since the call
began; `races` and `unchecked` record which kinds of races and of unchecked writes
have happened, so that the properties can say which of them a broken rule needs.

| action | code |
|---|---|
| `CreateRoom`, `UpdateRoom`, `CheckName`, `SwitchRoom`, `SaveRoom` | `create`, `update`, `activate`, `deactivate` of `RoomsService` |
| `RemoveRoom`, `DeleteRoom` | `remove`; the database deletes the seats, and refuses if one has a booking |
| `CreateSeat`, `CheckPlace` | `create` of `SeatsService` |
| `UpdateSeat`, `CheckNewRoom`, `CheckFits`, `CheckPlace` | `update`, whose checks depend on the columns the request gives |
| `SwitchSeat`, `SaveSeat`, `RemoveSeat`, `DeleteSeat` | activation, the saves, `remove` |
| `GenerateSeats`, `CheckEmpty`, `SaveAll` | `generateSeatsForRoom` |
| `Book` | a booking of the seat is stored |

## 3. What is abstracted

- **Requests are sets of seats.** The order in which the loops visit the seats
  is left open, which covers every order a client can send. A request that names
  a seat twice fails on its own key and is always refused; it is left out.
- **Tokens** are fresh UUIDs; an operation never takes a key twice, so the
  operation stands for its tokens. Confirmation codes stand for the create that
  drew them: collisions of codes are left out.
- **Time to live** is not counted. Where a run says `"ttl" \in Faults` a key may
  lapse at any time, otherwise only when its owner has forgotten it.
- **The clock** is one counter for service and database, and the comparison with
  the deadline and the read it guards are one step. The three comparisons differ
  at the instant of the deadline in the code (`MoreThan`, `<`, `LessThan`) and
  in the model.
- **The transaction** of a create is read-committed without row locks, so its
  reads see what is committed and its writes appear at the commit.
- E-mail, name, price and seat labels are left out: a call with a wrong id,
  code or e-mail finds nothing (`NotFound`).
- A failure of the very first read of a call has no effect and is left out, as
  is one of `connect` or `startTransaction`, where the code throws before its
  `try` block: the locks are given back, the connection is not.
- A crash takes one operation at a time. A process that dies takes several,
  which is the same as several crashes in a row.
- The cron job updates all overdue rows in one statement; its error is logged
  and the next minute tries again.
- In `BookingRequests` the messages are valid (the DTO's validation comes before
  the producer), the answer does not expire (one hour against retries of
  minutes), and a failed `createBooking` that is not about taken seats is one
  outcome, `bookingError`.
- **Timers** have no lengths: a pause or a timer is over at some time. The longer
  delays after leadership errors are therefore the same step.
- **Redis**: a command that throws may have taken effect, its reply lost. That holds of the
  locks and of the answers.
- **kafkajs** is external. It refuses `send` on a producer that is not connected; what
  a `connect` or `disconnect` that throws leaves of the connection is open. It throws at `subscribe` after `run`, fetches the topics it knew when
  `run` was called, and starts a new group behind the records there are
  (`fromBeginning: false`). `Messaging` takes the group to be new.
- `MAX_RETRIES` of `BookingConsumerService` plays no part: `subscribe` of the
  consumer service queues a topic or gives it back to the list, and returns
  normally in every case, so `trySubscribe` takes itself for subscribed after
  its first call.
- `main.ts` enables no shutdown hooks, so `onModuleDestroy` runs only where
  something else closes the application, as the tests do; the model lets it
  happen at any time.
- **Catalogue**: row and column of a seat are one place, the dimensions of a room
  the set of its places, so a room that is made smaller loses places.
  Descriptions, labels and prices are left out.
- **TypeORM** as the code uses it: `save` writes back every column of the entity it
  is given and inserts the row again if it is gone. Where a patch changes `roomId` of
  a seat loaded with its room, either the column or the object may win,
  and both are allowed. A delete of a room cascades to its seats; a
  booking's foreign key forbids the delete of its seat.

## 4. The runs

Each `.cfg` names its bounds. Deadlock is not reported where operations are
single calls or the requests run out; `locks` repeats for ever and is checked
for deadlock.

| run | question | instance | states |
|---|---|---|---|
| `locks` | Do the locks survive every fault, lapsing keys included? | 3 operations, 2 seats, all faults of Redis | 59 thousand |
| `bookings_one` | Who may end up with a contested seat, and what becomes of the payments? | 1 seat that is switched off and on, 2 creates, 2 calls of any kind, clock to 3 | 138 thousand |
| `bookings_two` | Do sets of seats, groups and payments stay whole? | 2 seats, 2 creates, 2 group calls, failing database, clock to 2 | 660 thousand |
| `bookings_live` | Does no call wait for another, and does every reservation end? | 2 creates of the same 2 seats, 1 group confirmation or single cancellation, crashes and Redis errors, clock to 2 | 141 thousand |
| `bookings_double`, `bookings_unpaid`, `bookings_twice` | see section 6 | as `bookings_one` | — |
| `requests` | Is the answer to a request true and eventual, and does it stand? | 2 requests for a common seat in 2 lanes, 2 attempts each, 1 failure | 377 thousand |
| `requests_unknown`, `requests_again` | see section 6 | as `requests` | — |
| `messaging` | Do connects, retries and overlapping loops lose a message or a topic? | 1 message, 2 topics, the setup loop, 1 interval and 1 call of `subscribe`, 2 calls of kafkajs that throw | 234 thousand |
| `catalogue` | What does it take to break the rules of rooms and seats? | 3 calls on up to 2 rooms, 3 seats, 2 names, 2 places | 121 thousand |

What the passing runs show:

- `locks`: `OnlyOwnerReleases` (a key is deleted by its owner or by time: the
  Lua check matters as soon as a key has lapsed and has a new owner; three
  operations are the least for the former owner, the new one and a rival).
- `bookings_one`: `InsertOnlyWhenFree` (the check of the active bookings is
  still true at the commit, although nothing but the Redis lock protects it),
  `DoubleBookingNeedsLateConfirm` (a second occupant comes from one place only,
  a confirmation that outlived its check), `OnlyHolderDecides` (all decisions
  but expiry are written under the seat's key), `ConfirmedIsPaid`,
  `PaymentWipedByOldEntity` (a payment on record disappears only when a call for a single
  booking saves the entity it loaded before the payment). Two
  creates and two other calls are the least in which a reservation lapses under
  a confirmation, is taken by another create, and a further call meddles; three
  ticks let the reservation of one tick be in time, at its deadline, overdue,
  and be followed by another one.
- `bookings_two`: `ExclusiveWork` and `ImplementsSeatMutex` (the loops, in any
  order of keys, implement the atomic lock),
  `NoKeyLeftBehind`, `CreateAllOrNothing`, `GroupUniform` (the bookings of a
  code go through their life together as long as they are confirmed and
  cancelled together) and `PaymentRecorded` (no later write wipes the
  transaction id of a paid booking; true of the group calls, untrue of the
  single ones, whose `save` writes back what it read), and
  `ImplementsReservations` for sets of seats (whatever a step does to the table is
  one step of the abstract reservations, also when the write's call throws). Two seats are
  the least for requests that overlap without being equal and for partial
  effects.
- `bookings_live`: `OperationsFinish` (two reservations may take the keys of the
  same seats in opposite orders, each while it has one the other needs; a
  lock that waited for its key would leave both waiting for ever, which is what the mutant
  does) and `ReservationsEnd`, with crashes and Redis errors in any number. No key
  lapses under its owner here, so that time alone does not resolve a deadlock.
- `requests`: `AnswerStands` (no copy and no redelivery overwrites an answer. One
  thing does: the SET of the code is executed, its reply is lost, and the catch block of the
  same call stores an error over the code, which TLC reaches), `AnsweredBeforeCommit` (an offset never passes an
  unanswered request), `ErrorMeansNotBooked` (without failures an error answer
  means that the request has no booking, copies notwithstanding),
  `NoRequestLost` (an accepted request has its answer once its lane has no message
  left to handle, Redis permitting), `ImplementsReservations` (however often a
  request is handled, it gets its seats all together and only if nobody, itself
  included, has them), `EveryRequestAnswered`. Two attempts make a duplicate possible; the one
  failure may be a crash, a Redis error or a database error, at any point.
  The bound on failures keeps the run short; a second failure repeats the
  effects of the first from a state that one failure reaches.
- `messaging`: of the producer, `NeverIdleDisconnected` (parallel connects reset
  and raise one counter and take the flag from each other, also from under a send that
  succeeds, and still somebody will
  connect as long as the attempts are not used up), `SendsEnd`,
  and `PromiseKept` (it implements `SendPromise`). Of the consumer,
  `NoTopicForgotten`, `PendingOnce` and `NothingSilentlyMissed` (loops that work from
  copies of one list and put back what they could not do neither drop a topic nor list it
  twice, and what is not fetched shows on the list), `EarlyTopicsAreFetched`. Of
  both, `NoRecordLost` (every record the producer stored that is not
  handled is in the topic or skipped by a group that started behind it)
  and `SentIsHandled`. Two topics are the least for a copy of the list that differs
  from the list, and for a topic that comes after the snapshot; with three loops every
  two kinds of loop overlap. Each of the retry limits is 1 or 2, so that two failures
  use up any of them, and leave a first attempt that fails for one topic and for
  the connection.
- `catalogue`: `NamesUnique`, `PlacesUnique` and `SeatsInside` name
  the races and unchecked writes without which the rules of the catalogue
  cannot break. That is the strongest that holds: there is no unique
  constraint, transaction or lock, and each named race is reached.
  `BookedSeatsStay`: whatever is deleted around it, a booked seat keeps its row
  and its room. `OnlyAskedChanges`: a save changes other columns only if the row was written
  in the meantime. Two calls make a race, the third comes between them or prepares
  the row. Seats to come and calls are interchangeable, hence the symmetry; this
  run checks no liveness.

**Fairness.** Of `Bookings`: the event loop
resumes a call whose await has been answered (WF of each operation's step),
Redis drops a key whose time is over, time passes and the cron job runs every
minute while there is something to expire. Weak fairness is enough: none of these
is disabled by others again and again. Of `BookingRequests`: an attempt to send
ends (the client library has timeouts), the consumer is polled, keys lapse.
Of `Messaging`: calls of kafkajs end one way or the other, timers and pauses run out, the
consumer fetches what there is; the interval is not obliged to find
its moment, and `EarlyTopicsAreFetched` names every way out that the code leaves.
`Catalogue` has no fairness: a call of an administrator may stop anywhere.
Nobody obliges a client to post, send, subscribe, confirm or cancel, an administrator to toggle
a seat, or a fault to happen. The bounded clock weakens `ReservationsEnd` to
the deadlines it passes.

Every property has a mutant in `PROJECT.json`: a plausible slip in one
definition that makes TLC report it violated. The mutated forms stand next to
the definitions, marked "Mutant".

## 5. The proofs

Checked by TLAPS for every number of seats, operations, requests, messages,
topics, loops and calls, every timeout and retry limit, and no bound on time.

Assumptions on the constants, which TLC evaluates in the runs:
`LocksAssumption` (Null is no operation, faults are of the listed kinds),
`BookingsAssumption` (creates are operations, requests are non-empty sets of
seats, the kinds are the four calls, Null is no time). One more is a hypothesis of
the theorems that need it, `Timely == "ttl" \notin Faults`: a key
outlives the work done under it. Without it the locks exclude
nobody. Crashes, Redis errors and database errors are all allowed.
`RequestsAssumption` says that lanes and limits fit (a request has a lane, Null is
none of the values), `CallsAssumption` and `ProducerAssumption` that limits are numbers
and a first attempt is allowed, `ConsumerAssumption` that the three kinds of loops are
different and `NoTopic` is no topic, `MessagingAssumption` that the topic of the
messages is a topic, `CatalogueAssumption` that `Nothing` is no value of a column, that
ids of rooms are not ids of seats, that the first tables keep the rules, and that requests have
passed the DTOs' validation.

`SeatLocks_proofs`

- `LocksTypeCorrect` — types.
- `TokensAlwaysValid` — under `Timely`, a key an operation believes to own
  holds its token. With the types this is inductive (`LocksInv`).
- `LocksImplementSeatMutex` — under `Timely`, each step of the loops
  is a `Take`, a `Give` or a stutter of `SeatMutex` under `heldSeats`: the last
  key is the `Take`, because by `TokensValid` whoever holds a seat has the key
  that has just been found free; the first key given back, a crash or an error
  is the `Give`. The invariant `WithinWanted` adds that `todo` and `mine` stay within `want`.
- `OwnersRelease` — `OnlyOwnerReleases`, lapsing keys included: a loop compares
  and deletes under its own token, so type correctness is invariant enough.

`Bookings_proofs`

- `TypeCorrect` — types.
- `ExclusiveWorkHolds` — calls past `acquireMultipleLocks` have disjoint seats.
- `InsertsAreSafe` — `InsertOnlyWhenFree`.
- `DoubleBookingsAreLate` — `DoubleBookingNeedsLateConfirm`.
- `DecisionsAreLocked` — `OnlyHolderDecides`.
- `BookingsImplementSeatMutex` — `ImplementsSeatMutex` of `SeatLocks` carried over: each
  step of a call is, for the locks, a step that `SeatLocks` allows, with the
  loops in the phases where the code runs them (`LoopsFit`). `OwnersReleaseBookings`
  carries over `OnlyOwnerReleases` in the same way.
- `ConfirmedIsPaidHolds`, `AllOrNothing`, `NoKeyLeft`, `PaymentsWipedByOldEntities` —
  `ConfirmedIsPaid`, `CreateAllOrNothing`, `NoKeyLeftBehind`, `PaymentWipedByOldEntity`. These do not need `Timely`: they hold
  however short the keys live. `NoKeyLeft` needs `"redis" \notin Faults`, as a
  Redis error ends a release loop early.

The inductive invariant of `ExclusiveWorkHolds` and the three theorems after it, which need `Timely`, is
`Inv == TypeOK /\ TokensValid /\ KeysHeld /\ PhaseFits /\ RowsStored /\ Deadlines /\ StillFree`:
a call at work has the keys of all its seats (`KeysHeld`, with which
`TokensValid` gives exclusion); a phase fits the kind of call (`PhaseFits`); calls that
write have rows to write (`RowsStored`) and pending rows a deadline
(`Deadlines`); and at the heart, `StillFree`: from the check of the active
bookings to the insert, the seats of a create stay free. It is inductive
because only a holder of the key could make a seat occupied, expiry and the
passing of time only free seats, and the create itself holds the keys. Without
`KeysHeld` and `TokensValid`, `StillFree` could not be carried over the steps
of others. The theorems follow from `Inv` step by step: an insert
adds an occupant to a free seat, so a second occupant needs a write on a row
that did not occupy its seat, and of those the cancellations and the expiries
occupy nothing.

`ConfirmedIsPaidHolds`, `AllOrNothing` and `NoKeyLeft` have invariants of their own. `PaymentInv` adds to types, phases
and deadlines that a confirmation writes only after its payment (`PaidFirst`).
`CreateInv` adds `OwnCode` (a create works on the code it drew, so that no
other call inserts under it) and `Stage` (nothing is stored before the insert,
everything after it, and the result agrees); `RowsStored` is what keeps the
confirmations and cancellations from adding rows. `KeysAccounted` says that a token
in Redis is in its owner's map or its owner is dead, and that a finished call has
an empty map. `RecordInv` says that the entity a call for a single booking has loaded is
pending, or confirmed with its payment: so of the entities that can wipe a payment none
was loaded as confirmed.

`SeatReservations` (theorems about the abstract specification, which hold of all that
implements it)

- `TypeCorrect` — types.
- `AllThatWasAsked` — a holder gets all the seats it asked for together or none, and
  has no others.
- `OneHolderIfInTime` — no seat has two holders, if every sale is made while its seats
  are reserved (`SalesInTime`, a hypothesis and not a promise: the code does not keep it,
  see section 6).

`Reservations_proofs` (under `Timely`; all other faults)

- `BookingsImplementReservations` — `ImplementsReservations`: an insert is a `Reserve`, the
  write of a confirmation a `Sell`, cancellations and the expired mark a
  `Withdraw`, the clock a `Lapse`, and the start of a create an `Ask`; all else,
  the cron job included, is a stutter, as overdue rows are nobody's already.
  The hard step is the insert, where `StillFree` says that nobody has the seats. The invariant
  `PromiseInv` joins `Inv` and `CreateInv` (nothing stored before the insert) and adds
  `Asking`: a call has no seats before it begins and some while it is under way.
- `OneBookingIfInTime` — `OneBookingPerSeat` in every behaviour in which each
  confirmation is written before its reservation ends. It follows from the refinement
  and `OneHolderIfInTime`, without looking at the locks again.

`Groups_proofs` (all faults, lapsing keys included)

- `GroupsStayTogether` — `GroupUniform`: the bookings of a code that are confirmed and
  cancelled together have one status and one deadline.
- `PaymentsStay` — `PaymentRecorded`.

`GroupInv` starts from `CreateInv` and `PaidFirst`. It needs to know who can write to a
code: `Chargers` (whoever has charged is a confirmation past its payment), `Undecided`
(a call has no code before it starts and no result before it leaves its `try` block) and
`Follows` (a group call works on all rows of its code at once). From these a
write finds uniform rows and leaves uniform rows, and a write after a payment
leaves the rows with a transaction. Why no lock is needed: a group write is one
statement.

- `ConfirmedStaysIfApart`, `ChargedOnceIfApart` — `ConfirmedNeverExpires` and
  `ConfirmedNotChargedAgain`, which the code violates, hold in every behaviour in which
  no two confirmations or cancellations under one code are under way at the same
  time (`CallsApart`), the cron job and all faults notwithstanding. The invariant is
  `Unconfirmed`: from its lookup to its charge or its expired mark a
  confirmation is right that its rows are not confirmed. Only another call's write
  could make it wrong.

`BookingRequests_proofs`

- `RequestsTypeCorrect` — types.
- `AnswersAreFinal` — `AnswerStands`, with the one exception that the code has: the call
  whose own SET of a code was executed and threw (`LostReply`).
- `OffsetsFollowAnswers` — `AnsweredBeforeCommit`.
- `ErrorsAreTrue` — `ErrorMeansNotBooked`.
- `AcceptedIsAnswered` — `NoRequestLost`.
- `RequestsImplementReservations` — `ImplementsReservations`: posting is an `Ask`, the
  transaction of `createBooking` a `Reserve`, the end of a booking a `Withdraw`.

The invariant `IInv`: all copies of a request are in one lane (`KeyedByLane`; the
key of the message decides it), so only one lane can work on a request, and
from look-up to answer it is unanswered but for a lost reply (`WorkUnanswered`); what was passed is answered
unless Redis failed (`HandledIsAnswered`); and if nothing failed, a request with
bookings has its code or is about to get it (`BookedGetsCode`), which is what makes a
later copy stop at the look-up. `LanesFit` and `OutcomeFits` say that a lane at work
has a message and a result of the right kind, `SendsLeft` and `NothingSent` that the
count of attempts is right. `RequestsKept` adds that an accepted request is in its lane
and that what is in a lane was posted: with `HandledIsAnswered` a drained lane has only
answered requests. `BookedAsAsked` says that a request has booked only its own seats.

`Messaging_proofs`

- `MessagingTypes` — types.
- `ProducerNeverIdle`, `ResolvedStored` — from `ProducerInv`, which says what each
  await of `sendMessage` has stored and tried so far, whatever the flag and
  kafkajs say of the connection.
- `TopicsKept`, `ListedOnce`, `MissesShow` — from `ConsumerInv`: topics in hand, listed
  or known are registered (`RegisteredOnly`), a loop that is not at work has nothing
  left to do (`IdleLoops`), so that starting it overwrites nothing, and what is
  fetched was known (`FetchedIsKnown`).
- `RecordsKept` — `NoRecordLost`, which needs both services: that a record is
  stored under the topic of its message and counted once (`Produce`), and that a
  topic is fetched only if its callback is known (`FetchedIsKnown`), without which
  `eachMessage` would drop it.
- `ProducerKeepsPromise` — each step of the producer is a `Post`, a `Send` or a stutter
  of `SendPromise`: pauses, timers and connects are invisible, an attempt is a `Send`,
  and a call that finds no connection is a `Post` that fails.

The two services share the count of failures and nothing else, so their invariants
are proved apart and joined in `MessagingInv`.

`Catalogue_proofs`

- `CatalogueTypes` — types.
- `NamesClashByRace`, `PlacesClashByRace`, `SeatsLeaveByRace` — the three properties that
  name the races.
- `BookedSeatsKept` — `BookedSeatsStay`, from the foreign keys alone (`TablesOK`).
- `SavesChangeTheirs` — `OnlyAskedChanges`.

The invariant says of each call what it still knows: the row it read is the row
there is (`RowFresh`), the checks it made still hold (`ChecksHold`), the seat it read
was inside its room (`OldFits`), each only as long as no other call has written the table
in question. A call that sleeps while others write loses its knowledge
(`stale` grows) and nothing else; a call that writes with its knowledge intact keeps the
rules, and one that writes without adds its race to `races`.

Only model-checked: everything about liveness, which is out of the prover's reach
(`OperationsFinish`, `ReservationsEnd`, `EveryRequestAnswered`, `SendsEnd`,
`EarlyTopicsAreFetched`, `SentIsHandled`). Every invariant, action property and
refinement of the passing runs is a theorem; a few auxiliary invariants
(`LocksTypeOK`, `TokensValid`, `ResolvedIsStored`) are theorems that no run lists: the
runs check what they serve, `TypeOK`, `ImplementsSeatMutex` and `PromiseKept`.

## 6. Where the code departs from its documents

Each is a run in which TLC finds the violation; no fault is needed for the
first three.

- `bookings_double` / `OneBookingPerSeat`. The repository's README says that
  distributed locking prevents races between people who book one seat.
  `confirmBooking(s)WithPayment` checks status and deadline before it takes the
  locks and never again: a reservation lapses, the seat is reserved by someone
  else, and the late confirmation is written. By the proved
  `DoubleBookingNeedsLateConfirm` this is the only way, and by `OneBookingIfInTime` the
  promise holds as long as no confirmation is that late.
- `bookings_unpaid` / `ConfirmedNeverExpires`. Reservations that are not confirmed
  expire, says the README. A confirmation that read its booking as overdue writes
  `expired` by id, without lock or condition, over a booking that another call
  has confirmed and charged in between. By `ConfirmedStaysIfApart` it takes two calls that
  overlap.
- `bookings_twice` / `ConfirmedNotChargedAgain`. Confirming a confirmed
  booking is said to answer 400. Two calls that both read it as pending are
  merely queued by the lock, and both charge. By `ChargedOnceIfApart` it takes two calls
  that overlap; a retry after an error or a crash does not charge again for what
  is confirmed.
- `requests_unknown` / `CodeIsReported`. A processed request is said to be answered
  with its confirmation code. A code that reads as a JSON number (`12345678`,
  `1234E567`) is answered with "Booking status is unknown".
- `requests_again` / `RefusedForOthersOnly`. "Already booked" is said to mean
  booked by someone else. After a crash between the commit and the answer the
  redelivered request is refused because of its own bookings.

Two more places where a comment promises what the code does not do, without a run
of their own:

- `seats.service.ts` announces a check of the new position whenever it is updated
  (line 91); a patch of row or column without `roomId` is stored unchecked. `"place" \in
  unchecked` of `Catalogue` is this case, and `PlacesUnique` and `SeatsInside` name it.
- `kafka-consumer.service.ts` adds topics to the pending list "for retry" (lines 147
  and 250) and retries them every ten seconds; once `run` has been called kafkajs refuses
  them, and they stay on the list for good: the `[](pending[t] > 0)` of
  `EarlyTopicsAreFetched`.

## 7. What is not modelled

- `UsersService`, `AuthService`, guards and strategies: a lookup, a unique
  index and library calls; no state that several actors share beyond the index.
- `RedisService`: a wrapper of ioredis. The keys it holds are state of `SeatLocks` and
  `BookingRequests`; its connection events only log.
- Controllers' validation and the read-only queries: no state.
- The expiry of an answer after its hour, and offsets of a group that outlive it.
- Database, seeds, configuration, `main.ts`: wiring at start-up.

## 8. The plan

In the order of what matters most to the program; all of it is done but the last item.

1. `SeatMutex`, `SeatLocks` and the refinement between them.
2. `Bookings` over `SeatLocks`, its safety and liveness, its findings.
3. Proofs of both.
4. `BookingRequests` over an abstract `createBooking`.
5. `KafkaProducer` and the promise it keeps; `KafkaConsumer` and its loops;
   `Messaging`, which joins them.
6. `Catalogue`: what races of administrators can break, and what they cannot.
7. Proofs of `BookingRequests`, of the groups of `Bookings`, of `Messaging` and of
   `Catalogue`.
8. `SeatReservations`, which `Bookings` and `BookingRequests` both implement.
9. Left: the expiry of answers, and copies of a message that come after it; a seat
   that is deactivated between the check of a create and its insert.
