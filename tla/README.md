# Campus OS: a TLA+ development

Campus OS is a multi-tenant web platform for universities: a Next.js application
(`apps/web`) over feature modules (`packages/modules/*`) that keep all their state
in one PostgreSQL database. There is no message bus and no in-process shared state
worth the name. What is concurrent is the database: every operation is one
transaction of several SQL statements, two requests run theirs interleaved, a
cron job runs beside them, and a process may die between two statements. The
promises a module makes ("the seat ledger cannot be oversold", "a txn_id is
posted at most once") are promises about those interleavings, and the tests of the
repository run the operations one after another. This project states the
promises, models the operations statement by statement, checks them with TLC and
proves all but the liveness properties with TLAPS.

## Inventory

| Part | State | Operations | What is hard | What makes it correct |
|---|---|---|---|---|
| Transactions, `packages/db` | rows, row locks, the tenant and actor settings of a transaction | `withTenant`, `withActor`, `withActorInTenant`, granted transactions | READ COMMITTED: each statement has a snapshot of its own; `now()` is the start of the transaction | nothing uncommitted is seen, nothing committed is lost |
| Rides, `packages/modules/rides` | `ride_posts`, `ride_seat_requests`, ratings, reports, share tokens | post, edit, cancel; request, accept, decline and cancel a seat; hourly sweep; report, dismiss, remove; rate; share | driver, passengers, moderator and sweep act at once; rows taken in opposite orders | no seat promised twice or lost, decisions final, rides end when due, a recurring offer posted once, everyone told |
| Marketplace: service orders | `mkt_orders`, `mkt_order_events`, `mkt_reviews`, `mkt_order_files` | place, move along an edge, auto-complete, review, attach | both parties at once, auto-complete meanwhile, calls sent twice | lifecycle edges, log agrees with row, revisions bounded, one earned review |
| Marketplace: listings and gigs | `mkt_listings`, `mkt_gigs`, photos, saved items, reports | owner's writes, expiry, moderation | caps counted and then used | caps, hidden stays hidden |
| Money, `packages/modules/money` | `ledger_entries` | `money_post_txn`, own balance | retries of a finance action | double entry, each id posted once |
| Lost and found | items, claims, claim messages | open, confirm, reject, withdraw a claim; expire | two claims decided at once | one approved claim, item resolved with it |
| Messages | conversations, messages, read and cleared marks | request, accept, decline, send, read, clear, disappear, clean up | both ends write first; marks are transaction start times | one conversation per pair, nothing unread is marked read, what disappears stays away |
| Communities | posts, comments, votes, tallies, karma, sanctions, reports | vote, moderate, pin, ban, report | counters kept beside the votes they count | tallies equal votes, caps, sanctions in force |
| Identity | users, sessions, memberships, roles, tenant grants, audit | sign in, revoke, verify, grant, role changes | first sign-in twice, revocation against use | one user per subject, no use after the end of a grant, roles contained |
| Timetable and ingestion | versioned sessions, rooms, runs | ingest, diff, free rooms, conflicts, calendars | two runs at once, a run that dies | one valid version of each session, pure functions right |
| LGU adapter | portal session, request queue | fetch, renew, normalise | an expiring portal session | no page lost or fetched twice |
| Notifications | inbox rows | emit (inside the causing transaction), read, click | ordering with the cause | told if and only if it happened |
| Core | tenant and module registry, permissions, fees | pure functions | rounding, containment | fee + net = gross |
| Media, campus map, UI, tenants, scripts, web | files, reads, presentation, jobs | | | |

The parts interact in three ways: web routes call one module operation each; an
operation writes notifications in its own transaction (`notifyInTx`); cron scripts
call a module's maintenance function. `PROJECT.json` lists the parts again with the
modules that model them, and under `hazards` the places where each of the above can
go wrong.

## Modules

| Module | What it is |
|---|---|
| `RowStore` | A PostgreSQL row under READ COMMITTED: committed version, version being written, holder of the row lock; the operators every model of a transaction uses. |
| `RowStoreProofs` | Lemmas for every proof below: what writing, committing and rolling back preserve of a row, and what a unique index keeps of two rows. |
| `RideSeats` | The seat ledger of rides: every operation on offers and seat requests, moderator removal and the sweep. |
| `SeatBooking` | What the rides module promises, without rows or transactions: who has a seat on which ride. |
| `RideSeatsProofs` | Theorems about `RideSeats`, its refinement of `SeatBooking` among them. |
| `ServiceOrders` | Service orders of the marketplace: placing, moving, the auto-complete, reviewing. |
| `OrderContract` | The contract of buyer and seller: the edges an order may take, by whom and when. |
| `ServiceOrdersProofs` | Theorems about `ServiceOrders`, its refinement of `OrderContract` among them. |
| `Ledger`, `LedgerBooks` | `money_post_txn` statement by statement, and the books it keeps. |
| `Votes` | Votes, polls and karma of the communities. |
| `Conversations`, `ChatContract`, `ConversationsProofs` | Direct messages of one pair, the life of their request, and theorems about both. |
| `ItemClaims`, `ItemClaimsProofs` | Claims on a lost-and-found item, and theorems about them. |
| `Verification`, `VerificationProofs` | Who is verified in a university: requests, verdicts, verification by hand, sign-in from the domain; and theorems about it. |
| `TenantGrants`, `TenantGrantsProofs` | Visits of platform administrators to a university, the roles and standings written on them, and theorems about them. |
| `Ingestion` | A timetable ingestion from the first request to the last line in its log. |
| `Schedule` | The interval arithmetic over the timetable's current entries, against the minutes themselves. |
| `TablesProofs` | Theorems about the modules whose properties are about all rows of a table at once: `Votes`, `Ledger`, `Ingestion` and `Schedule`. |
| `MC...` | The instances TLC checks. |

All but `Ledger`, `Ingestion` and `Schedule` are written over `RowStore`. `SeatBooking`,
`OrderContract`, `LedgerBooks` and `ChatContract` are abstract specifications; the
detailed modules instantiate them with a refinement mapping (`BookingSpec`,
`ContractSpec`, `BooksSpec`) and TLC checks that every step of the code is a step of
theirs or a stutter. TLAPS proves it too, of all four.

Four operations of the code take a step on what an earlier statement read, and nothing
stops two of them in flight at once from undoing a promise: cancelling a seat, posting
money, deciding a claim, changing one's vote. Their modules let any number of them overlap and keep a history
variable of what such an overlap spoilt; the properties are about everything else (see What
the code does not keep).

### How a transaction is modelled

`tx[t]` is what connection `t` remembers between two statements: the next statement
(`pc`), the caller, the row ids, the values it has read into variables of the
TypeScript or PL/pgSQL function, the rows its current statement has yet to visit,
and the notifications, events or audit lines it has inserted. An action is one
statement:

- a SELECT reads `View(row, t)`: the newest committed version, or the
  transaction's own; `FOR UPDATE` waits for the row and takes its lock;
- an UPDATE looks at the view; a row that does not satisfy its WHERE is passed
  over at once; one that does is waited for (`Free`) and looked at again, which is
  what PostgreSQL does after a wait;
- an UPDATE over many rows (`auth_rides_sweep`, the closing of a ride's requests,
  the auto-complete) takes its set of rows from one snapshot and then visits
  them one by one in any order;
- a unique index makes an INSERT wait for the transaction that is writing the same
  key (`AskHolders`, `SlotHolders`, `ReviewHolders`, `Holders`) and then fail or do
  nothing;
- `Commit` makes rows and notices visible together; `Abort` or `Rollback` is the
  death of the process or its connection, `DeadlockVictim` is the database's way out
  of a cycle of waits.

A transaction of one statement is one step where nothing can come between
(`ItemClaims`, `Conversations`). A request refused before it wrote has changed
nothing; it is not represented. Inputs that only decide such refusals (contact
details in a note, the hourly cap) are left out.

### RideSeats

`rides` and `reqs` are the tables of offers and seat requests. `requestSeat` is
`Request_Ride`, `Request_Live`, `Request_Insert` (or `Request_Duplicate`);
`acceptRequest` is `Accept_Read`, `Accept_Ride`, `Accept_Req`; `declineRequest` is
the single UPDATE `Decline_Req`; `cancelSeatRequest` is `Leave_Read`, `Leave_Req`,
`Leave_Ride`; `cancelRide` is `CallOff_Ride`, `CallOff_Riders`, `CallOff_Snapshot`,
`CallOff_Req`; `editRide` and `createRidePost` are one statement each;
`removeRide` is `Remove_Ride`; `auth_rides_sweep` is `Sweep_Start` to `Sweep_Spawn`.
The clock counts hours and every hour is a slot of every recurrence. Ride posts of
kind `request` have no seats and no place here. `raced` is a history variable:
`Leave_Read` puts a ride into it when it reads as accepted a request that another cancel
(`Returning`) has read as accepted and is not done with. In `SeatBooking` the same step is
`Dispute`, after which `Book` no longer counts the seats of that ride.

### ServiceOrders

`orders`, `log` and `reviews` are the three tables. `mkt_place_order` is one action;
`mkt_order_transition` is `Move_Begin` (the transaction, and with it `now()`,
starts), `Move_Lock` (SELECT ... FOR UPDATE) and `Move_Apply` or `Move_Illegal`;
`mkt_order_autocomplete` is `Auto_Begin`, `Auto_Scan`, `Auto_Row`; `writeReview` is
`Review_Order`, `Review_Existing`, `Review_Insert`. `log` holds the events in the
order of their commits, each with the `created_at` it carries. Nothing in the
repository schedules the auto-complete, so no liveness is claimed for it.

### Ledger

`entries` is the table, `calls` the calls of `money_post_txn` in progress. Nothing
calls the function yet; any sequence of calls, with any id, including a repetition
of one whose outcome the caller never learnt or that is still running, is a caller's
behaviour. `retried` is a history variable: the ids that `Post_Exists` found unposted while
another call had found the same (`Inserting`). In `LedgerBooks` that is `Dispute`, which an
id can only suffer before it is posted: a retry that comes later is refused whatever else
happens.

### Votes

`votePost` and `voteComment` are `Vote_Read` (the previous vote, read without a
lock), `Vote_Row` (the vote is inserted, changed or deleted), `Vote_Tally` (the
item's counters move by the difference), `Vote_Ledger` and `Vote_Karma` (the
definer `communities_karma_vote`: the day's running total of this voter for this
author is clamped, and what is left of the change goes to the author's own and, for
a signed item, public karma). `votePoll` is `Poll_Ballot` and `Poll_Count`. `raced`
is a history variable: the items on which somebody ever had two votes in flight.

### Conversations

`conv` is the pair's row, `msgs` its messages. `startConversation` is `Start_Locked` on
a row that exists, `Start_Absent` and `Start_Insert` on one that does not;
`sendMessage` is `Send_Locked`; `acceptRequest`, `declineRequest`, `setEphemerality`,
`Edit`, `DeleteForEveryone`, `Remove` (a moderator) and `Expire` (`auth_msg_expire`)
are one statement each; `markRead` is `Read_Status` and `Read_Stamp`, because it
stamps by the mode it read before. `held` is a history variable: the messages that
came with the pending request. Times are starts of transactions.

### ItemClaims

One item, its claims, and the last notification of each claimant. `openClaim` is
`Open_Read` and `Open_Insert`; `confirmClaim` is `Confirm_Read`, `Confirm_Claim`,
`Confirm_Item`, `Confirm_Others`; `rejectClaim` is `Reject_Read` and `Reject_Claim`;
`WithdrawClaim`, `WithdrawItem`, `ExtendItem`, `ExpireItem` and `RemoveItem` are one
statement each. The reporter may have as many decisions in progress as there are
connections. `raced` is a history variable: `Decides`, the read of a decision, puts into it
the claims of those in progress that disagree with it (`Opposing`): two
confirmations of different claims, or a confirmation and a rejection of one. Two that
agree, and a confirmation beside the rejection of another claim, are not in it.

### Verification

`members`, `requests`, `details` and `identity` are `tenant_memberships`,
`verification_requests`, `verification_request_details` and
`tenant_member_identity`; `log` the audit lines about requests.
`requestVerification` is `Ask_Member` (a transaction of its own), `Ask_Count`,
`Ask_Open`, `Ask_Insert`. `decideRequest` is `Decide_Begin`, `Decide_Lock`, for an
approval the two statements of `auth_verify_member` (`Verify_Member`,
`Verify_Capture`), and `Decide_Update` with the purging trigger. `verifyMember` is
`Verify_Begin`, the same two, and `supersedePending` (`Supersede_Scan`,
`Supersede_Row`). `ensureDomainMembership` is `Sign_Begin`, `Sign_Domain`
(`auth_verify_self_by_domain`), `Sign_Join` (`auth_join_as_student`), `Sign_Read` and
`supersedePending`.

### TenantGrants

`grants`, `roles` and `standing` are tables, `sessions` the live sessions, `log` the
last role line of each membership. `auth_open_tenant_grant` is `Open_Expire` and
`Open_Insert`; `auth_set_membership_role` under a grant is `Role_Begin`,
`Role_Grant` or `Role_Count` and `Role_Delete`; `auth_write_standing` is
`Standing_Begin`, `Standing_Count`, `Standing_Write`; `auth_revoke_tenant_grant` is
`Close_Read` and `Close_Write`; `revokeSession` is `SignOut`, and then, in a
transaction of its own, `Cleanup_Scan` and `Cleanup_Row`.

### Ingestion

The portal is a tree of pages; `run` is the process that crawls it. `Start`,
`Fetch`, `Retry`, `Skip`, `Blocked`, `Snapshot`, `Persist` or `PersistFails`, and the
three ways to finish follow `runIngestion`, the crawl of the LGU adapter and
`TimetableSink`. `Crash` may end the process anywhere; the portal may change at any
time. `wrote` and `source` are history: whether this run's entries were committed,
and which batch the current entries of each term are from.

### Schedule

The state is a set of current entries, changed one at a time as an ingestion
changes them; in every state `BusyIntervals`, `FreeGaps`, `FreeRooms` and
`DetectConflicts`, written as the code's algorithms, are compared with what the
minutes and the pairs of entries say. The scan returns the entries in an order nobody
knows (`SetToSeq`), and `Sorted` is any arrangement of them in order, which is all that
the code's sort promises.

## Runs

All runs use a few members, rows and connections, as model values, with symmetry
where no liveness property is checked. `CHECK_DEADLOCK FALSE` in all but
`Ingestion`: an instance whose row identities and clock are used up has nothing
left to do, and so does the program when nobody calls it. Waiting for one
another is not hidden by that: `EveryCallEnds`, in `Sweeps` and in `Verdicts`, shows
that every call ends.

| Run | Properties | Instance | Shows |
|---|---|---|---|
| `Seats` | `NoOversell`, `LedgerOK`, `OneLiveRequest`, `AcceptedRidersTold`, `EndedStaysEnded`, `RequestLifecycle`, `BookingSpec` | three members, one ride with up to two seats, three requests, three connections that may die; asking and leaving sent twice at once by one member, the other calls once per member | no seat is promised twice but on a ride whose accepted seat was cancelled twice at once, decisions and ends are final, accepted riders are told, and the ledger implements `SeatBooking` |
| `Sweeps` | `OneLiveOccurrence`, `EndsOnlyWhenDue`, `EveryCallEnds`, `DueRidesEnd`, `BookingSpec` | two members, a recurring offer, its successor and one more, one request, two overlapping sweeps; clock to hour two | sweeps end what is due and only that, and post one successor; every call ends, though `cancelRide` and `cancelSeatRequest` lock in opposite orders |
| `Orders` | `HistoryInv`, `PaidBeforeWork`, `ReviewsEarned`, `CompletedByBuyerOrTime`, `ContractSpec` | one order, two connections, one revision, two review rows, every payment mode, days zero and two | the row lock serialises the moves, the log tells the row's story, the order implements `OrderContract` |
| `Tables` | `LedgerInv`, `BooksSpec` | two calls of `money_post_txn` at once, of one id or two, lists of up to two entries, crashes | double entry; each id is posted once unless two calls had found it unposted at once; the table implements `LedgerBooks` |
| | `StretchesInv`, `PagesAgree`, `ConflictsAreDoubleBookings` | every timetable of three entries over two days of three minutes, one room and one teacher or none | intervals, free rooms and conflicts are right |
| `Votes` | `CountersTell`, `KarmaEarned`, `PublicMovesBySigned` | a signed and an anonymous post of one author, a poll, three members, two connections, two days, cap one | counters are the rows they count, karma is within the cap, the public number moves by signed posts alone |
| `Conversations` | `RequestsWait`, `ContractSpec`, `DeletedStaysEmpty` | the pair, two message slots, two connections, clock of two moments | a pending request keeps its one message, the pair implements `ChatContract`, deleted stays empty |
| `ItemClaims` | `GivenInv`, `DecidedAreTold`, `DecisionsStand` | two claimants, two claims, three connections, each of which may be a decision, clock of two moments | one taker and final decisions for every claim no two decisions at once disagreed on, one pending claim a person, everyone told |
| `Verdicts` | `VerificationInv`, `VerdictsStand`, `EveryCallEnds` | one person, who is also an approver, and another approver, three requests with a limit of two, two connections that may die | one open request, details exactly while it waits, one verdict by somebody else, in the audit log, that verifies whom it approves; every call ends |
| `Ingestion` | `TableInv`, `SuccessIsPersisted`, `CatchesUp` | two semesters, three sections, four slots, two tries, two faults, one change of the portal | no term mixes two crawls, success means written, the table catches up |
| `Visits` | `RolesByVisitors`, `AuditInv`, `GrantsEndOnce` | one administrator with one session, two tenants, two grants, two connections, two memberships written to, two instants | one open grant, it ends once, roles are written under it only and are in the audit log |
| `LastAdmin` (violation) | `AdministratorLeft` | one tenant, three members of whom two are administrators, one connection | suspending one administrator and then revoking the other's role are each allowed and leave a tenant nobody administers, against "A tenant must keep at least one administrator." (`0029:111`) and "Never lock out the last active administrator." (`0022:52`) |
| `DoublePost` (violation) | `PostedAtMostOnce` | two calls of one id at once | both look for the id before either commits and both post it, against "a txn_id is posted at most once (idempotency for a retried finance action)." (`0000_money.sql:81`) |

`Tables` explores `Ledger` while the timetable is empty and `Schedule` while nobody has posted
anything: the two share no state, no property is about both, and so the run finds every state of
each of them.

### What the code does not keep

A finance action retried while its first call still runs is posted twice (`DoublePost`); a seat
cancelled twice at once is returned twice; two claims confirmed at once are both approved.
Each needs one operation twice in flight, and the cause is the same: a statement acts on
what an earlier one read without a lock, and no index or guard looks again. The
properties about the same promise except exactly what the race spoilt, by a history
variable that the racing step itself sets:

- `NoOversell` and `BookingSpec` except the rides in `raced`: `cancelSeatRequest` returns a
  seat by the status its first statement read (`seats.ts:187`), so that two of one accepted
  request return one seat twice, and two more riders may be accepted onto it. That
  "The seat ledger cannot be oversold" (`docs/pr/0192-rides-seat-requests.md:42`) is true of
  the decrement it is said of, not of the increment. Any other call may overlap with any:
  two asks, two accepts, a leave against an accept, two leaves of a request that is still
  pending.
- `BooksSpec` excepts the ids in `retried`: `money_post_txn` looks the id up and then
  inserts (`0000_money.sql:101`), and no constraint of the table makes the second of
  two such calls fail. A retry that starts when the first call has committed or died is
  not excepted, nor are calls of different ids at once. `LedgerInv` excepts nothing.
- `GivenInv` and `DecisionsStand` except the claims in `raced`: `confirmClaim` and
  `rejectClaim` update by id the claim they read (`claims.ts:158`): of two confirmations
  at once neither "denies the rest" (`claims.ts:13`). One pending claim per
  person and `DecidedAreTold` except nothing.
- `CountersTell` excepts the items on which somebody raced a vote of their own (`raced` of
  `Votes`): the difference is computed from a vote read before. `KarmaEarned` and
  `PublicMovesBySigned` except nothing.

Where no document promises otherwise, a race is recorded as a hazard and no run shows it:

- A seat can be lost: `cancelSeatRequest` decides by the status it read (`seats.ts:191`), so
  that a leave that waited for an accept keeps the seat for nobody; of two accepts of one
  request each takes a seat (`seats.ts:130`). No property counts lost seats.
- A request inserted on a ride that has just been called off stays pending
  (`seats.ts:72`); `auth_rides_sweep` expires a ride that was accepted on between its
  two UPDATEs (`0004_ride_lifecycle.sql:87`). The properties are about accepted
  seats and ends, which both leave right.
- `AcceptedRidersTold` is about the requests the calling-off transaction closes itself
  (it holds their rows): another member's own cancel may commit while a call-off runs,
  and owes its author no notice.
- `markRead` stamps by the mode it read (`0002` of messages, line 83): a message
  may get a fresh grace after a change of mode. Nothing promises otherwise.
- Ingestion runs come one after another, as `cron-ingest.sh` starts them; a manual
  run beside one mixes two crawls of a term until the next. A killed run stays
  `running` in the log.
- Grants that ran out are closed by the next visit without the audit line of their
  own that `0018_tenant_grants.sql:386` speaks of; `GrantsEndOnce` is about the rows.
- In `Verification`, a request that passed its first check before the person was
  verified stays pending; the limit per window may be passed by one, by a call that
  counted before another inserted; a verification by hand that races a rejection
  keeps the details of the rejected request.

### Why the bounds are enough

Every hazard of the rides needs two transactions, and some three (two passengers and
the driver); one ride suffices except for sweeps, where an offer, its successor and
one more tell every case apart. Two seats are the least for which `active` has two
meanings (one left, two left). Three requests let a passenger ask, leave and ask
again while another does. `MaxTime`, `SpawnReserve`, `InFlight`, `Ops`, `Recurrence`
and `IdOrder` bound the environment only; `IdOrder` says that rows are inserted in
the order of their names, which only removes copies of a behaviour.
An order's life is finite by itself: `MaxRevisions` bounds its only cycle; one order is
enough because no statement but the auto-complete touches two, and that one visits
rows one by one; `Days` keeps the days on which something is done, `Autos` the
auto-completes running at once. For the ledger two accounts and two ids are the least
in which money moves and ids differ; amounts are one and minus one, and an entry without an
account stands for the malformed ones (what a null or zero amount does is left to the proof of
`LedgerInv`). For votes, a cap of one is reached by the first
vote; `MayVote` gives each day the votes that matter on it and `Reach` stops votes for
authors whose public karma is already one. A pair has one conversation; two slots hold a
request's message and one more. Two claims are the least that can be confirmed against each
other, and three connections let two decisions overlap while a third call (another
decision, a new claim, a withdrawal, the sweep) comes between. Verification's rows are all per person, so one person is enough; the
second approver and the person's own permission tell the self-check apart. For
grants, two tenants and two grants let a stale page act in the wrong one. The ingestion's
tree has a term with two sections, one of which may be skipped, and one beside it.
For intervals three entries are enough to touch, nest and leave a gap.

### Fairness

`EveryCallEnds` and `DueRidesEnd` assume strong fairness of `Run(t)` for each
connection: a transaction that has begun is executed by its process, and a row lock
is granted in the order of arrival, so a statement that can run again and again
does run. That a process may die is the action `Abort`, and no fairness is assumed of
it. `DueRidesEnd` also assumes that a sweep is started again and again: the hourly
cron line of `docs/runbooks/rides-sweep.md`. `CatchesUp` assumes weak fairness of
`Progress`: cron starts the next run, and a run that is not disturbed goes on; faults
are bounded by `MaxFaults` but may fall anywhere. No client is assumed to call
anything.

## Proofs

Each theorem is about the specification with any values of its constants that satisfy
the named assumptions: any number of members, rows, connections, any clock. What a run
shows on its instance, the theorem says of every instance.

| Module | Theorem | Property | Kind |
|---|---|---|---|
| `RideSeatsProofs` | `TypeCorrect` | `TypeOK` | types |
| | `LedgerConsistent` | `LedgerOK` | invariant |
| | `AskedOnce` | `OneLiveRequest` | invariant |
| | `OfferedOnce` | `OneLiveOccurrence` | invariant |
| | `SeatsNotOversold` | `NoOversell` | invariant |
| | `EndedForGood` | `EndedStaysEnded` | action property |
| | `RequestsMoveOn` | `RequestLifecycle` | action property |
| | `EndedWhenDue` | `EndsOnlyWhenDue` | action property |
| | `RidersAreTold` | `AcceptedRidersTold` | action property |
| | `LedgerBooksSeats` | `BookingSpec` | refinement |
| `ServiceOrdersProofs` | `HistoryKept` | `HistoryInv` | invariant |
| | `NoWorkUnpaid` | `PaidBeforeWork` | invariant |
| | `ReviewsAreEarned` | `ReviewsEarned` | invariant |
| | `CompletedInTime` | `CompletedByBuyerOrTime` | action property |
| | `OrdersKeepContract` | `ContractSpec` | refinement |
| `ConversationsProofs` | `RequestKept` | `RequestsWait` | invariant |
| | `DeletedForGood` | `DeletedStaysEmpty` | action property |
| | `ChatsKeepTheContract` | `ContractSpec` | refinement |
| `ItemClaimsProofs` | `AllAreTold` | `DecidedAreTold` | invariant |
| | `GivenToOne` | `GivenInv` | invariant |
| | `DecisionsAreFinal` | `DecisionsStand` | action property |
| `VerificationProofs` | `VerifiedAreKnown` | `VerificationInv` | invariant |
| | `VerdictsAreFinal` | `VerdictsStand` | action property |
| `TenantGrantsProofs` | `AuditTells` | `AuditInv` | invariant |
| | `VisitorsWriteRoles` | `RolesByVisitors` | invariant |
| | `GrantsEnd` | `GrantsEndOnce` | action property |
| `TablesProofs` | `CountersAlwaysTell` | `CountersTell` | invariant |
| | `KarmaAlwaysEarned` | `KarmaEarned` | invariant |
| | `PublicAlwaysMovesBySigned` | `PublicMovesBySigned` | action property |
| | `LedgerKeepsItsBooks` | `LedgerInv` | invariant |
| | `PostsOnce` | `BooksSpec` | refinement |
| | `TermsStayWhole` | `TableInv` | invariant |
| | `SuccessMeansPersisted` | `SuccessIsPersisted` | invariant |
| | `StretchesDivideTheDay` | `StretchesInv` | invariant |
| | `PagesAlwaysAgree` | `PagesAgree` | invariant |
| | `ConflictsAlwaysReal` | `ConflictsAreDoubleBookings` | invariant |

Each module also states its inductive invariant as a theorem (`Invariance`;
`HeldInvariance` for the second one of the rides, `StrongInvariance` for the second one
of the claims; `VotesInvariance`, `IngestionInvariance` and
`ScheduleInvariance` in `TablesProofs`).

### Assumptions

The named assumptions of the modules say that hours, days, seats and windows are numbers,
that members, verified members and moderators are what their names say, and that the
values standing for NULL are no values: `NoTxAssumption` (nobody is the holder `NoTx`),
`AbsentAssumption` (the row not inserted is no row), `NothingAssumption`,
`NobodyAssumption`, and the last lines of `PeopleAssumption` and `ClaimsAssumption`. Row
identities of claims, messages and verification requests are numbers, given out in order;
`BoundsAssumption` of `Verification` makes the pool of request identities finite, because
a new request is modelled only while an identity is left for it. A sum over a table is
a sum over a finite set: there are finitely many members (`MembersAssumption` of `Votes`),
accounts (`AccountsAssumption`) and identities of entries (`IdsAssumption`), however many.
TLC evaluates each of them on every run of its module.

No theorem has a hypothesis on what callers do: any number of members and processes may
send any call at any time and any number of times at once.

### Rows

None of the properties about rows is inductive. A value is read by one statement, rewritten by a
later one and published by a commit, and in between other transactions run; what a
statement may rely on is not in the row's committed version alone. `RowStoreProofs` says
once what every table keeps:

- `RowInv`: both versions are good values, a row nobody holds has nothing pending,
  and the pending version is reached from the committed one by legal moves (a reflexive,
  transitive relation, because one transaction may write a row twice). `RowPreserved`
  shows that writing along a move, committing and rolling back keep it; `CommitMoves`
  that a commit is a move; `ViewKept` and `OthersRow` that a transaction does not disturb
  what another one sees or holds.
- `OneEntry`, a unique index: of two rows at most one has the key in its committed, and
  at most one in its uncommitted version, and where one version of the one row and the
  other version of the other have it, both wait for the same commit. `EntryTouched`,
  `EntryEnds` and `EntryMade` keep it through statements, ends and inserts that waited
  for every other writer of the key. It is what makes `OneLiveRequest`,
  `ReviewsEarned`, `OnePending`, `OneOpen` and `OneOpenGrant` true, although every one of
  those calls first reads and then inserts.

### The inductive invariants

Every proof has one lemma per action and one per kind of step; the invariants are
conjunctions of named parts.

`RideSeatsProofs` has five, because each property needs a different one:

- `Inv`: `RowInv` of both tables with the moves of rides and requests, and that a
  statement names rows that exist. It gives the types, `LedgerOK`, `EndedStaysEnded` and
  `RequestLifecycle`.
- `HeldInv`: the rows a transaction holds, told by its next statement: which they are,
  and how the uncommitted version differs from the committed one (a seat taken, a ride
  called off, taken down, past its window, a new offer). A commit publishes all of them at
  once, so only this says what it changes; `EndsOnlyWhenDue` and `AcceptedRidersTold` are
  read off it. For the second it says of a call-off in progress that every accepted rider
  is told, and closed or still to be visited: the ride's lock keeps accepts out.
- `IndexInv`: `OneEntry` of the live requests of a passenger on a ride.
- `SeatsInv`: a seat is charged to a request that is accepted, or whose cancel has read
  that it was and has not yet returned the seat; charged and free seats fit into the
  car, on every ride not in `raced`. Without the second kind the seat would be free twice
  between the two UPDATEs of a cancel. A request is charged once however many cancels have
  read it, which is why two of them are one too many; `RacedInv`, the other half of
  `SeatsInv`, says that whenever two cancels stand between their read and their end, their
  ride is in `raced`, so that on any other ride the cancel that returns a seat is the only one
  its request was charged for.
- `LineInv`: the live occurrences of a recurring offer share one entry, as in
  `OneEntry` but over values that name their own row; a line's first ride is posted before
  another names it; and a sweep that is about to post successors holds each ride it
  follows up, has ended it, and posted no live ride of its line yet. The index on
  occurrences is by departure and does not give this: two occurrences at different hours
  would pass it. What does is that the follow-ups are the rows of the sweep's own UPDATE.

`ServiceOrdersProofs`: an order and its event are written by two statements and count
only when committed. `TxInv` says of each uncommitted version that it is a locked copy or
is told by exactly one event in its writer's hands, which follows the committed
row; `LogInv` that the committed log tells the committed row (`History`) and has a payment
before any work (`PaidFirst`); `ReviewsInv` that each review, committed or not, is of
an order that is over, which no move leaves, and has it to itself. `CompletedInTime`
needs besides that `now()` of an auto-complete is not after the commit's clock.

`ConversationsProofs`: what is in flight belongs to the one transaction that holds the
pair's row; a pending request's message is not older than the request, which is what
refuses a second one; an open chat stays open.

`ItemClaimsProofs`: a notice is written by whoever decides its claim, which suffices for
`DecidedAreTold` however decisions race. `StrongInv` adds what the other two need:
of decisions in progress that disagree, the claims are in `raced` (`RacedInv`); what a decision
in progress read still holds, or its claim is in `raced` (`ReadInv`: a claim read as pending
is at worst withdrawn or decided the same way, and the item is resolved by nothing, by
this claim, or by one in `raced`); a decided claim is at most written again as it was
(`Settled`); an approved claim has resolved the item (`Taken`). The step that makes it
inductive is the second read: whoever reads a claim as pending while an opposing decision
is in progress puts both in `raced` before either writes; whoever reads after the commit
finds it decided.

`VerificationProofs`: the details of a request are locked by whoever opens or closes
it; only open requests are ever locked; an identity is copied from a request that
waits no more when the copy is committed, whether the transaction had locked the
request (an approval) or looks for open ones after the copy (by hand, and at sign-in);
the lines in a transaction's hands are those its requests' new versions call for.

`TenantGrantsProofs`: a transaction works under a grant it read earlier, and no step
changes more of a grant than its status, once; the audit line in its hands is true
because it holds the lock of the role.

`TablesProofs` has the properties that speak of all rows of a table together. Its first
part is about sums: `SumFunctionOnSet` and `FoldLeft` are recursive functions on subsets,
and that they have a value, and which, is induction over data. The library's induction
theorems take an operator for the property; `SetInduction` and `FiniteInduction` take a
*set* of numbers or of subsets instead, from the well-foundedness of `<` on `Nat`
(`WFMin`), and give what the rest needs: a sum moves by the difference when one row
does, and a fold is a sequence of passes.

- `Votes`: `VotesInv` is the types, `HeldInv` (which rows a transaction holds, told by its
  next statement), `RaceInv` (two votes of one person on one item at once are `raced`),
  `WorkInv` (what a transaction at work has written so far: it moved the counter by
  what its vote changed, and the karma by what it added to the day's total), `DayInv` (nobody gives karma on a day to come), and the three
  equations `TallyIsVotes`, `PollCountsBallots`, `KarmaIsLedger`. Half-done work
  is in one transaction's hands and commits as a whole, so a commit moves both
  sides of each equation by the same amount. `PublicMovesBySigned` is read off
  `WorkInv`.
- `Ledger`: `PostingsInv` adds to `LedgerInv` that a call about to commit has been
  judged (`Judged`: balanced and well formed). `BooksSpec` needs besides that a call past its
  look-up finds its id still unposted or in `retried`, and that two calls past their look-up
  of one id have put it there (`LookedUp`).
- `Ingestion`: `TermsAreWhole` is inductive once it is known what closing and inserting
  leave of a term (`DiffIsExact`: exactly the batch, for a term the batch has entries of,
  and the old entries for any other). `SuccessIsPersisted` is not: that a run in `finish`
  has written, and that a run in progress is logged as `running` (`WroteBeforeFinish`), is
  what makes its step hold, also when recording the success fails and a failure is
  recorded instead.
- `Schedule`: its state is any set of well-formed entries (`ScheduleTypes`), and the
  properties follow from that alone: what has to be proved is the algorithms, each
  as the invariant of its loop. `mergeIntervals` keeps stretches that are apart and cover
  the minutes of the intervals merged so far (`CoalesceAdds`); the cursor of `freeGaps`
  has found the free minutes behind it and no others (`Swept`); a total is the number
  of minutes covered (`TotalIs`); and sets have as many elements together as their sizes sum
  up to exactly when no two of them meet (`DisjointCount`), which is what a double booking is.

The refinements (`LedgerBooksSeats`, `OrdersKeepContract`, `ChatsKeepTheContract`,
`PostsOnce`) map the committed rows. A statement that commits nothing is a stutter; a commit is the one
step of the abstract specification that the invariant finds in its writer's hands.

What the proofs taught about the models: `AcceptedRidersTold` first spoke of any
request that becomes cancelled while a call-off runs, which one ride cannot tell from the
right statement and two rides refute; it is now about the rows the call-off holds.
And the races that break a promise turned out to be few: of all overlaps of the calls on
seats, only two cancels of one accepted request matter to `NoOversell`; of the decisions on
claims, only those that disagree.

### Only model-checked

- `EveryCallEnds`, `DueRidesEnd` and `CatchesUp`: liveness under fairness, whose proof
  needs ENABLED, is beyond the prover.
- `AdministratorLeft` and `PostedAtMostOnce`, which the code violates.

Every other property of a run is stated by a theorem.

## Plan

Done, with proofs: the seat ledger of rides, service orders, conversations and the money
ledger with their contracts; votes, polls and karma; claims, verification, grants, roles and
standings; the ingestion and the timetable's arithmetic. Left, the most important first:

1. The moderation of communities (pins and their cap, reports, queue, automatic hiding).
   A survey of `mod-actions.ts`, `moderation.ts` and `queue.ts` found that what a
   property would say is mostly not kept under two moderators at once (a pin
   beyond the cap after remove, pin, approve; an automatic hiding over a
   moderator's decision), so that an invariant worth stating has first to be agreed
   on.
2. Sessions and sign-in; timed standings and appeals; role templates.
3. Ride reports, ratings and share links, composed with `RideSeats` through the row
   of the ride; delivery files and gigs of the marketplace.
4. Read marks, blocks and delete-for-me of messages.

## Not modelled

Row-level security, except where a policy is part of what a statement does
(`Reviewable`, the tenant of a grant); who is verified, banned or permitted, where a
module says that its callers are let through. Wording, formatting and rendering, which
with the web application, the UI kit and the message catalogues is most of the
repository's lines; HTTP; files and images; the HTML parsing of the adapter; what
happens outside PostgreSQL. The parts of the inventory that have no module (campus
map, notifications' inbox, core registries, media, listings and gigs, ride reports
and ratings) are reads, single guarded writes or pure presentation, as `PROJECT.json`
says of each. Isolation anomalies of a statement against itself (an UPDATE whose
subquery reads other rows than its own snapshot after a wait) are modelled as
PostgreSQL has them: the subquery is not evaluated again.

The rest of the communities (memberships, reports, moderation, pins) is left out for
another reason. `leaveCommunity`, `setCommunityRole`, `joinCommunity`, `reportItem` and
`setPinned` read a row or count rows without a lock and then write, and no index or
guarded UPDATE decides between two of them. Read that way, two owners who leave at once
both see a second owner; two leaves or two rejoins of one person move `member_count`
twice; two reports that complete a threshold together each miss the other's row; two
pins pass the cap together; a report may hide a post a moderator has just approved. What
is left to state once these are excluded is the shape of single statements, so a module
would say little; it becomes worth writing when those functions take a lock. No run
shows these races: they are readings of the code, at `communities.ts:324`, `:350`, `:362`,
`:457`, `moderation.ts:164` and `mod-actions.ts:245` of
`packages/modules/communities/src`.
