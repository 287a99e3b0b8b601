# Verification of the launchpad pool API

The repository is a NestJS service over MongoDB and Solana. It keeps documents
about token-sale pools that live on chain, records that users join them, and at
the end of a pool's join phase decides which joins really happened. It also
builds transactions for the owners of pools, hands out platform accounts, signs
users in and records stakes. This directory holds TLA+ models of that code, TLC
configurations that check them on small instances, and TLAPS proofs of theorems
for every size of the instance.

Paths below are relative to the repository; `src/...` is its own `src`
directory.

## The system

| Component | State | Operations | Hard part |
|---|---|---|---|
| Pool documents (`src/modules/pools`) | one document per commit: data read on chain, `join_pool_start/end`, `flags` | `commitInitPool`, `syncPool`, `updateOffchainPool`, `userVote` | handlers read the chain, then write; nothing is versioned |
| Finalize cron jobs (`addJobFinalizePool`) | one timer per commit or changed end, in process memory | armed by commit and sync, fires once at `join_pool_end` | never cancelled, lost on restart, several per contract address |
| Join-pool histories (`src/modules/pool-participants`) | a status per recorded join | `userJoinPool`, `updateJoinPoolHistory`, the cron | client and cron both write the status |
| Pool participants | rows with amount, history ids, `__v` | the cron; `exportParticipants` reads | read-modify-write by concurrent workers |
| Pool listings (`index`, `indexPoolsVoting`, `adminIndex`) | none (queries) | sections by dates, activation, voting; pages | boundary instants, stale flags, two queries per page |
| Voting (`userVote`) | totals and `flags.is_ready` in the document | vote, commit, sync | concurrent saves of modified fields only |
| Whitelists | one document per (pool, wallet), no unique index | add, batch, check-and-add, remove | check-then-insert, delete-then-insert |
| Guards, access tokens (`src/guards`, `src/middlewares`) | none; they read the stored administrator and the common settings | filter requests | the stored administrator is a copy of the chain's |
| On-chain transactions (`updateOnchainPool`, `activatePool`, `changePoolAdmin`) | none; unsigned transactions in clients' hands | read the account, check, build | signed later, in any order; units and rounding |
| Instructions and layouts (`src/shared/utils`, `src/shared/helpers`) | none | write and read bytes | several layouts of the same numbers, missing ones, width |
| Platform accounts (`src/modules/platform`, `src/scripts/initTiers.ts`) | one document per program, an account on chain | `generate` | find-or-create over chain and database |
| Users and login (`src/modules/auth`, `users`) | documents without a unique index; tokens | sign in, create, update | find-or-create |
| Stake histories (`src/modules/stake`) | append-only rows | record, export | rows come from clients' reports |
| Paging (`src/shared/base.service.ts`, `mongoose.ts`) | none | three ways to cut pages | pages move during a walk |
| Claim-token histories, pool members, health, scripts | none, or append-only | read, insert | none |

How they interact: commit and sync write a pool document and arm a cron job;
users record joins against the contract address; a client reports the outcome
of a join with `PUT /pool-participants/join-pool-history/:id`; the job asks the
chain whether the user's associated account exists, writes the status of each
history that is still pending and adds the amount to the user's participants
row. The listings read the documents these handlers write. The guards of the
admin and whitelist routes read the administrator that commit and sync copied.

What makes each correct:

- the ledger: every credited history is in exactly one row of its own user,
  never lost to a concurrent save, never credited twice; statuses agree with it;
- the schedule: an end that is still to come has a job waiting for it;
- the whole: a join recorded in time is decided; none is decided early, except
  by a job that a sync has made stale;
- the listings: sections meet only at their boundaries and miss no pool, and a
  walk through pages sees everything that can be told apart, once;
- the voting: the stored totals decide where the pool is listed;
- the edits: only administrators pass, a pool opens before it can be joined, and
  concurrent edits keep each other's fields;
- the transactions: each thing given is found at its place in the bytes, phases
  meet, and an update changes what it names, once;
- the platform accounts: all calls for a program get one account, of that
  program, whose key is stored; the logins of a wallet name one user, while its
  address stays; the export of stakes adds up to what is staked.

## Modules

| Module | Models | State and actions |
|---|---|---|
| `ParticipantLedger` | what the export of participants promises (abstract) | A status per join, a growing total per user. No rows, versions, awaits or exits. |
| `FinalizeRun` | the histories and rows of one contract address, and the callback of every job armed for it | A worker `w = <<job, history>>` is one element of `Promise.all`. `pc[w]` is the await it has reached: `account` (RPC), `fail`/`succeed` (save of the status), `find`, `create`/`update`. `copy[w]` is the row it loaded. One action per await. |
| `PoolSchedule` | `commitInitPool`, `syncPool` and the jobs of one contract address | `req[q].pc` is the next await of request `q`; `poolEnd` the documents; `job[q]` the timer it armed; `chainEnd` the on-chain campaign. `Restart` loses requests and timers. |
| `FinalizeSystem` | both, composed by `INSTANCE` | Arming and firing are joint steps; a job is named by the request that arms it; one clock; a restart, or a rejected save, stops both. |
| `PoolSections` | the queries of `GET /pools` and `GET /pools/voting` | Predicates of one document at an instant. |
| `PoolVoting` | commit, votes and syncs of one document, as the listings see it | `VoteLoad`/`VoteSave` and `SyncRead`/`SyncWrite` are the awaits; a save writes the fields that differ from the loaded copy. |
| `PoolEdit` | `updateOffchainPool` and the guards, racing with commit and sync | `req[q].pc`: guard passed (`read`), campaign read and checked (`write`). Four fields stand for those a body may name: a required one, one of the unique index, one that is always written, one derived. |
| `ContractLayout` | the byte layouts and `Numberu64` | A layout is a sequence of named kinds; data is a sequence of cells, each a number and the bytes it takes, without names, read by position. A 64-bit number is `Width` digits of base `Base`. |
| `Instructions` | both instruction builders | An operation is its code, accounts and layout; `Data` writes its fields. `ProgramInit` and the like are the program's own layouts, with which it reads them (external). |
| `PoolUpdate` | `updateOnchainPool`, `activatePool`, `changePoolAdmin` | `req[q]` is what a request was given, the account it read and the transaction it returned; `Land` executes it, in any order. Durations are counted in units of dates, of which a second has `Second`; ratios in parts of a cent, amounts in parts of a token (`Fine`). |
| `Whitelist` | the whitelist documents of one pool and the four handlers that write them | `req[q].pc` is the next command of request `q`, `docs[w]` counts the documents of a wallet; a delete and an insert are a step for each wallet. The chain's answers are a choice. |
| `Platform` | `generate`, `generateNewPlatformAccount`, `initTiers` | One action per await. An account is named by the call that creates it; `Restart` deploys another program. |
| `UserLogin` | sign in, create and update of users | `LoginMissed`/`LoginCreate` are the two sides of the await between find and create. `update` drops the address a body names, but writes the one an operator in it sets. |
| `Paging` | a client walking a listing while documents come and go | `FindPage` and `CountDocs` are the two queries of a page, `Respond` the answer. `Slice` is the set of the pages a query may give: documents that tie on the sort key are in any order, a new one for each query. |
| `StakeLedger` | reports of stakes and their export | `posts` are the reports on their way; `Repeat`, `Lose` and `Deploy` are what can happen to them. |
| `*_proofs` | theorems about the module they are named after; `FinalizeRun_proofs` also about `ParticipantLedger`, `Services_proofs` about `MCServices` and its four modules, `OnChain_proofs` about `MCOnChain`, `PoolUpdate`, `Instructions` and `ContractLayout` | |
| `MC*` | instances for TLC; `MCOnChain` and `MCServices` put modules that share no state side by side | |

What the models assume of the environment, and where the code relies on it:

- **MongoDB and mongoose.** A single-document write is atomic. `save()` writes
  only modified paths; because a worker assigns the array
  `join_pool_history_ids`, mongoose matches the row on the `__v` it loaded and
  rejects with a VersionError otherwise. A vote modifies no array, so its save
  is not versioned. `flags` and `data.voting` are tracked subdocuments.
  `findOne` without a sort may return any of several documents. A sort leaves
  documents that tie in any order, which need not be that of the query before.
  An update document may mix fields and operators such as `$set`.
  `mongoose-paginate` counts pages from 1 and takes 0 for 1.
- **Amounts.** A row's amount is the set of workers whose history it adds up.
  That tells a lost and a doubled credit apart, which is what matters; decimal
  arithmetic is left out.
- **cron.** `job.start()` throws for a date in the past, inside the `try` of
  `commitInitPool`. A job fires at its instant, once. The rejection of an
  asynchronous callback is caught nowhere and Node 16 exits
  (`Dockerfile`: `node:16-alpine`); the container restarts.
- **The chain.** A user's associated account appears at any time and stays; the
  owner may move the end of the campaign, and hand the pool over, at any time;
  the totals of a vote grow while the voting is open. Of the program, which
  is not in the repository, `Instructions` assumes in which order it takes the
  fields of an instruction, and `PoolUpdate` that it writes the fields it so
  finds, and takes a transaction only from the fee payer who is administrator
  when it lands; it tells two operations apart by their code and the length of
  their data. An account has one
  owner, and `createAccount` may land although its confirmation fails.
- **Clients.** They may record joins and overwrite statuses at any time, with
  the statuses the DTO admits. A client reports each stake, and may repeat a
  report or lose it.
- **Deployments.** A deployment may come with another program, or another stake
  account. A platform document from before `programId` lacks it. Scripts run in
  processes of their own and survive the service.

## What is checked

| Run | Question | Instance |
|---|---|---|
| `finalize_overlap` | do the ledger and the statuses stay right when jobs, workers, clients and crashes interleave, and is it the abstract ledger? | 2 jobs, 2 joins of one user, so 4 workers on at most 4 rows |
| `schedule` | is every end to come armed, and followed by its run? | 2 commits of one name, 2 syncs, clock 0..2, 1 restart, fairness |
| `system` | is a join in time decided, and none early but by a stale job? | 1 commit, 1 restart, fairness, and either 1 sync, 1 join and a clock 0..2, or 3 joins of one user whose saves conflict and a clock 0..1 |
| `voting` | where is the pool listed through its life? | 2 votes, 1 sync, totals 0..1, required 0 or 1, plans of dates and versions, with join phases that end at their start or before |
| `pool_edit` | whom do the guards let through, and what do edits leave? | 2 pools of one contract, 2 edits, 1 sync, 1 whitelist request, dates 1..2, 1 change on chain |
| `on_chain` | do bytes keep what was given, do phases meet, does an update have its effect? | all instructions; every combination of five dates and six durations, -1 to 1.5 seconds; 2 updates, 1 activation, 1 change of administrator |
| `whitelist` | what can duplicate, lose or bring back a whitelisted wallet? | one request of each kind, 2 wallets, lists of 0 to 3 accounts of which 2 are allowed |
| `services` | platform accounts, logins, walks and stakes: do answers agree, and add up? | 2 calls and 1 script over 2 programs; 3 logins, 1 create and any updates over 2 wallets; 5 documents of which 2 tie and 3 come and go, 2 to a page; 3 operations of 2 users |
| `cron_flag`, `ready_flag`, `vote_threshold`, `claim_after_end` | do the flags and the dates mean what the comments and messages say? | violated |

`on_chain` and `services` check parts that share no state one at a time: one
initial state chooses the part that runs, and the others stay where they are.
`system` has its two parts because a moving end and several joins together are
out of TLC's reach.

Bounds. Two overlapping jobs are the least that can credit twice, two workers of a
user the least that can lose a credit or create two rows, and three the least in
which two workers find the same existing row and one save is rejected. Two syncs are
the least that can overwrite each other; a clock of three values lets an end be
moved later and back. Two concurrent votes are the least that mix their fields; with
totals of 0 and 1, an absolute vote misses or meets a required 1, and misses, meets
or exceeds a required 0. One whitelist request of each kind overlaps with each of
the others, and the lists repeat a wallet, are empty, or exceed `MaxAccounts` (12 in
the code, 2 here). Two edits and two pools are the least in which names collide and
an edit can undo another; one change on chain can move the campaign or the
administrator between a read and its write. Numbers have 4 digits of base 10 instead
of 8 bytes, so that each boundary (zero, a digit more, too large, negative) is a
value; a second is 2 ms, so that a date between two seconds exists, and a duration
of less than a second; rates are in half cents, with one that is not in whole cents,
and one beyond the digits kept. Two calls and a script are the least in which one
call overtakes another and a third finds both accounts. Three pages of two documents
leave one before and one after the page that moves; two documents that tie may fall
on both sides of a page's end. `MaxTime`, `MaxRestarts`, `MaxVotes`, `MaxMoves` and
`MaxDocs` bound the clock, the restarts, the totals, the changes on chain and the
documents; users, histories, jobs, requests and operations are finite sets.

History variables. No guard reads them; properties use them to name exactly the
cases in which the code gives no guarantee.

- `contended` (`FinalizeRun`): histories two runs had read as pending at the
  same time, or that a client reopened after their credit was due;
  `history[h].by`: who wrote a status last.
- `exact` (`PoolVoting`): the last write was a vote's, on the document it had
  loaded.
- `raced`, `added`, `removed` (`Whitelist`): wallets that inserters named at the
  same time, that an answer has acknowledged, that a remove has deleted last.
- `overtaken`, `raced`, `lost` (`Platform`): calls that found no document before
  another program's was stored; programs that two calls created for, or whose
  document was not labelled; accounts that a process which ended left without a
  document.
- `racedAddresses`, `readdressed` (`UserLogin`): wallets with two first logins at
  once, or a user created for them, or given them, beside; users whose address an
  update changed.
- `ever`, `asked`, `since`, `as_of` (`PoolEdit`): the administrators so far, the
  last value asked for each field, and which campaign `pool_start` was checked
  against and `join_pool_start` was copied from.
- `steady`, `moved` (`Paging`) and `lost`, `repeated` (`StakeLedger`): what stayed
  and what moved during a walk; reports lost and repeated.

Fairness. The event loop runs a due timer and resumes a chain whose await has
settled, so workers, callbacks, the rest of a handler that has stored its pool,
a listing's handler, and the clock are weakly fair. Clients, the chain, crashes
and restarts are not.

Deadlock checking is off in `system`, `voting`, `ready_flag`, `vote_threshold`,
`whitelist`, `on_chain`, `claim_after_end`, `pool_edit` and `services`, where all
requests may be answered and the clock and the documents at their bounds.

### What the runs show

- No interleaving of workers loses or doubles a credit: concurrent first joins
  of a user create several rows, which the export adds up, and later ones are
  kept apart by the document version. The price is that the loser of a version
  conflict ends the process. Seen through the export, rows and versions
  disappear: `FinalizeRun` implements `ParticipantLedger`.
- Two runs overlapping on one address can credit a history twice, and a client's
  `PUT` of `pending` after the credit makes a later run credit it again. Both are
  reachable; `CreditedAtMostOnce` excludes exactly these by `contended`, and the
  ledger calls them disputed.
- A restart forgets every armed job; the properties of the schedule say so. A
  job is also missing when the end passes between the write of the document and
  `job.start()`, which then throws.
- A sync that moves an end later leaves the old job armed; it fails joins whose
  transaction is still to come. That is the only way a join is decided early.
- Three statements of the comments on `Flags` and one message are not what the
  code does (findings in `PROJECT.json`): `is_cron_running` is never reset;
  `is_ready` of a pool committed before its voting ends stays true without the
  votes, and is set by votes that meet the minimum, where the comment asks for
  more; and a claim date less than a second after the end is sent as the same
  second.
  `is_finalize_participants` is written nowhere.
- A whitelist has duplicates only from requests that overlap on a wallet or from
  a list that repeats it. A wallet that was acknowledged can be missing for the
  time between the delete and the insert of a check, and for good if the process
  ends there; the answer of an add whose wallet a remove deleted meanwhile
  promises nothing.
- The guards let former administrators pass until a sync copies the change, and
  again when a slow sync writes an older read. `updateOffchainPool` accepts a
  `pool_start` equal to the start of the first phase (line 662), which
  `commitInitPool` refuses (line 485); and `pool_start` is not checked again when
  the campaign moves. Concurrent edits keep each other's fields. An edit without
  `token` throws (line 638), and one with an empty slug and no name gets a slug
  that begins with `undefined` (line 690).
- Every update sends the whole campaign, since `isChangedCampaign` is not awaited
  (line 778), with the values it read. A rate that is not a whole number of cents
  moves when an update that does not name it lands. A ratio of more than two
  decimals is compared with what it is rounded to: asking for it again never finds
  that nothing changes. An early phase of less than a second may be lost in the
  floor to seconds. A missing date is written
  as 0, and a negative `early_join_duration` is accepted; `PhasesMeet` excludes
  both. `updateOnchainPool`, `activatePool` and `changePoolAdmin` have no caller.
- A platform account's key is lost when the process ends, or a confirmation
  fails, between the creation on chain and the write. A first call that another
  program's call overtakes is handed that program's account. Otherwise all calls
  for a program agree.
- Two first logins of one wallet at once make two users, and so does an update
  that gives a user the wallet of another: `PUT /users` drops the address of the
  body only where it is a field of its own (`users.service.ts:57`). Otherwise
  logins agree, and a token names a user of its own wallet until an update moves
  that user to another.
- A walk through pages misses documents after a removal, and shows one twice
  after an insertion before others, as of a pool in the newest-first listing.
  Documents that tie on the sort key may be missed or shown twice although nothing
  moves: whitelists of one `insertMany`, and every history, since they are sorted
  by `created_at` (`mongoose.ts:280`), which none has. The histories count pages
  from 1, the other listings from 0.
- The export of stakes adds up to the chain but for reports on their way, in any
  order. A lost or repeated report stays wrong for good.

## What is proved

Every invariant and every action property of the passing runs is a theorem; only
liveness is not. Each theorem holds for all values of the constants under the
`ASSUME`s of its module, which TLC evaluates. Most say no more than that kinds of
requests are disjoint, bounds are numbers and maps have their domains. The
others are:

- `PlansAssumption` (`PoolVoting`): the dates of a pool are numbers, in any order:
  commit and sync copy them from the chain unchecked.
- `AmountsAssumption` (`MCServices`): stakes are not negative.
  `PagingAssumption`: a page has room for a document, since a limit of 0 is
  replaced by the default.
- `BytesAssumption` (`ContractLayout`): a byte has at least two values, a number
  at least one byte.
- `UnitsAssumption` (`PoolUpdate`): units are positive and `Precision` fits in a
  number. `InputsAssumption`: a request has the types of `UpdateOnchainPoolInput`: a
  duration is any whole number of units, of which a second may have any number, and
  a ratio any number of parts of a cent, which may have any number too, so that
  fractions of any fineness are covered. No date, the end of an early phase of
  negative length included, is before 1970, and no amount is negative, though
  nothing refuses one. `AccountsAssumption`: the account to start from holds numbers
  of its width and a rate with `Precision` as denominator, as
  `convertRateToDataContract` makes it; a rate of 0 is refused when a pool is
  created.
- `GivenAssumption` (`MCOnChain`): a field is a natural number or missing, as
  the amounts, rates and dates of `createInitInstruction` are.

`FinalizeRun_proofs`, for all users, histories and jobs:

| Theorem | Statement |
|---|---|
| `TypeCorrect` | `Spec => []TypeOK` |
| `NoCreditIsLost` | `Spec => []NoCreditLost` |
| `IdsMatch` | `Spec => []IdsMatchAmount` |
| `CreditAtMostOnce` | `Spec => []CreditedAtMostOnce` |
| `CreditKeepsStatus` | `Spec => []CreditedIsSucceeded` |
| `SucceededHasWorker` | `Spec => []SucceededIsAccounted` |

The first three rest on `LedgerInv`. `NoCreditLost` alone is not inductive: a
save replaces a whole row by the copy read earlier, so one needs to know that a
copy whose version is still the row's *is* the row (`CopiesVersioned`), that the
rows contain exactly the finished credits (`RowsAreCredits`), and their shape
(`RowsWellFormed`). A save at the version that was read can then only add.

`CreditAtMostOnce` and `CreditKeepsStatus` rest on `CreditInv`. For an
uncontended history, at most one worker is undecided or crediting
(`OneActive`), and once one is crediting the status stands and is not pending
(`StatusStands`), so no later run picks the history up. `Started` relates a
worker's `pc` to its job: a job that has not run yet has only idle workers.

The last theorem of the module is `RunImplementsLedger`, `Spec => ImplementsLedger`.
The total of a user is mapped to `exportParticipants(u)`, the union of the
user's rows. By `LedgerInv` this is the set of the user's workers that have
credited, whatever rows hold them, so the totals change only where a worker
reaches `credited`, by that worker; by `CreditInv` its history is then decided
and not credited by another, unless it is contended. Every other step is
`Record`, `Set`, `Dispute` or a stutter.

`PoolSchedule_proofs`, for all commits, syncs, keys and bounds:

| Theorem | Statement |
|---|---|
| `ScheduleTypeCorrect` | `Spec => []TypeOK` |
| `EveryEndIsArmed` | `Spec => []EndIsArmed` |

`EndIsArmed` is not inductive: a sync that finds its end unchanged writes it and
arms nothing, although another sync may have replaced that end meanwhile. The
invariant adds `BasesArmed`: the end a sync has loaded is armed too, for as long
as it is to come. It stays so because a job waits until its end, and a request
that armed one is over (`ArmedStands`).

`FinalizeSystem_proofs`, for all requests, users and histories:

| Theorem | Statement |
|---|---|
| `SystemImplementsSchedule` | `Spec => Schedule!Spec` |
| `SystemImplementsRun` | `Spec => Run!Spec` |
| `OnlyStaleJobsDecideEarly` | `Spec => []EarlyDecisionIsStale` |

By the first two, what is proved of the parts holds in the system. The third
needs both parts: what the cron has decided was decided by a job that fired
(`RunsAreFired`, `DecisionsAreFired`), and a job fires at the end its request
wrote (`ArmedAreDone`, `FiredInTime`); if that end is still the pool's, it has
passed.

`Whitelist_proofs`, for all wallets, requests of each kind and lists:

| Theorem | Statement |
|---|---|
| `WhitelistTypeCorrect` | `Spec => []TypeOK` |
| `OnlyRacesDuplicate` | `Spec => []DuplicatesAreRaced` |
| `RemovedStaysOut` | `Spec => []RemovedIsOut` |
| `AddedStaysListed` | `Spec => []AddedIsListed` |

`DuplicatesAreRaced` says nothing of a request between its read and its insert.
`UnracedInv` adds, for a wallet that is not raced, that at most one inserter
names it (`OneInserter`), with at most one document to insert (`InsertsOne`),
which is still missing when it is about to be inserted (`InsertsMissing`).

For the other two: a request inserts only wallets it names while it is in flight
(`NamesOnly`), and these are not among the removed ones (`NamedAreIn`); a wallet
that a request in flight will acknowledge is listed, about to be inserted by it, or
about to be inserted again by the check that deleted it (`Due`); and a check deletes
only what it will insert (`DeletesItsOwn`). The two invariants are proved together,
one lemma for each kind of request (`BothAdd`, `BothBatch`, `BothCheck`,
`BothRemove`) and one for the crash.

`PoolEdit_proofs`, for all requests, addresses, bodies and dates:

| Theorem | Statement |
|---|---|
| `EditTypeCorrect` | `Spec => []TypeOK` |
| `OnlyAdminsAllowed` | `Spec => []AllowedWereAdmins` |
| `PoolsOpenBeforeJoin` | `Spec => []OpensBeforeJoin` |
| `OwnersEditsSurvive` | `Spec => []EditsSurvive` |

`Admins` says that every administrator in a document, or in the hands of a
request, was on chain at some time; `Copies` that copies of the campaign that
were read between the same two moves agree; `Opening` extends `OpensBeforeJoin`
to a campaign that is still on chain, or in the hands of a request. `EditsSurvive`
is inductive together with the domain of `asked`: a write leaves every field that it
does not name (`StoreSurvives`).

`PoolVoting_proofs`, for all votes, syncs, totals and plans:

| Theorem | Statement |
|---|---|
| `VotingTypeCorrect` | `Spec => []TypeOK` |
| `SectionsMeet` | `Spec => []SectionsMeetAtBoundaries` |
| `ActivePoolsAreShown` | `Spec => []ActivePoolIsShown` |
| `InactivePoolsAreListed` | `Spec => []InactivePoolIsListed` |
| `VotesDecideListing` | `Spec => []VoteDecidesListing` |

The three about sections follow from the types: they are facts about the queries of
`PoolSections`, whatever the document holds and in whatever order its dates are. The
last needs `VotesInv`: what a vote is about to save is ready exactly if its own
totals are enough, and so is the pool for as long as `exact` holds. A save keeps
that because it writes every field in which the vote's copy differs from what it
loaded, and the others are the pool's own when nothing came between.

`Services_proofs` puts together the four parts of `MCServices`. The first part of
the module is about `Platform`, for all calls, scripts and programs:

| Theorem | Statement |
|---|---|
| `PlatformTypeCorrect` | `Spec => []TypeOK` |
| `AnswersAreOwned` | `Spec => []AnswerIsOwned` |
| `AllAnswersAgree` | `Spec => []AnswersAgree` |
| `NoKeyLeaks` | `Spec => []NothingLeaks` |

The invariant has a part for each request, by where it is (`CallInv`), the owners
of the accounts (`Owned`), and that a program that was not raced has at most one
account, stored or about to be (`OneAccount`).

The second is about `UserLogin`, for all logins, wallets and names:

| Theorem | Statement |
|---|---|
| `UserTypeCorrect` | `LoginSpec => []LoginTypeOK` |
| `TokensNameTheirUsers` | `LoginSpec => []TokenNamesItsUser` |
| `OnlyRacesMakeTwoUsers` | `LoginSpec => []OneUserUnlessRaced` |
| `AllLoginsAgree` | `LoginSpec => []LoginsAgree` |

`Pending` says that a login about to create finds no user of its wallet, and no
other login about to create one, unless the wallet is raced. An update that gives a
user the wallet of such a login makes it raced.

The third is about `StakeLedger`, the fourth about `Paging`, the last about all four:

| Theorem | Statement |
|---|---|
| `StakeExportAddsUp` | `ServicesSpec => []ExportAddsUp` |
| `WalksSeeAll` | `ServicesSpec => []WalkSeesAll` |
| `WalksShowOnce` | `ServicesSpec => []NothingTwice` |
| `ServicesTypeCorrect` | `ServicesSpec => []ServicesTypeOK` |

`ExportAddsUp` speaks of the account that is current; a deployment makes another
one current, so `StakeInv` says it of all accounts (`AddsUp`). It also counts, for
every operation, the copies on their way and stored (`Reported`), which tells that
a report that arrives adds a row that was not there, and that the row moves the
amount of its operation (`RowInv`). Lemmas about `SumOf` say what one more or one
changed term does to a sum.

For a walk, the rank of a document is the number of those that every query gives
before it. Whatever the order of documents that tie, the first `k` that a query gives
are those of rank less than `k`, but for the tied ones (`FirstRank`), so a page
has the untied documents whose rank is in its range and is as long as its range
(`FindFacts`). `PagesInv` says, while nothing is inserted before others, that what was
shown is behind what is left to read (`ShownOnce`); while nothing is removed, that a
document that stays is shown, found, or still to come, and then counted
(`NothingMissed`); and while nothing moves, that as many were shown as the pages hold
(`Counted`). `HasNextMeans` is the arithmetic: a listing has a next page exactly if it
counts more than the pages read hold.

`OnChain_proofs`, for all bases and widths of a number, units, bodies, accounts,
requests and values:

| Theorem | Statement |
|---|---|
| `NumbersFit` | `OnChainSpec => []NumbersKeepTheirWidth` |
| `PhasesAlwaysMeet` | `OnChainSpec => []PhasesMeet` |
| `OnlyNamedFieldsChange` | `OnChainSpec => UnnamedFieldsKept` |
| `UpdatesHappenOnce` | `OnChainSpec => UpdateConverges` |
| `BytesSayWhatWasGiven` | `OnChainSpec => []ProgramReadsWhatWasGiven` |

The first four rest on `OnChainInv`: the account keeps its type, and a transaction
that is out (`Answered`) is the answer of `Update` to the input and the account its
request recorded. What lands is thereby known, whatever landed before; that the
account keeps its type also needs that every number of an answer is encodable, which
`createUpdatePoolTx` makes sure of by failing otherwise. `PhasesMeet` is then a fact
about one answer: the floor to seconds keeps the order of dates, and an early phase
of at least a second does not vanish in it. For `UpdateConverges` the step is
followed by the same request on the new account: the campaign it would send is the
one it holds (`LandedOnce`), and a rate in whole cents comes back from its contract
rate, a fact about rounding twice (`RoundedBack`: for `c * c < n` the quotient `n /
c`, rounded, is at least `c`, so dividing `n` by it again is off from `c` by less
than a unit). `BytesInv` says what was written for what was given. `Cells` says what
the cell of each position holds; `InitIsRead`, `CampaignIsRead` and `RateIsRead`
compare the layout of a builder with that of the program, position by position, and
`FieldsInPlace` and `InitAgreesWithSetCampaign` follow. `NumbersFit` includes that
the digits of a number, reversed, padded and folded, are the number again.

Induction. The sums, the folds over bytes and the powers of `Base` are defined by
recursion over finite sets and numbers. The induction these proofs need is stated as
membership in a set (`FiniteSetInduction`, `NatInd`: a set that holds 0 and the
successors of its members holds every number), and derived from the
well-foundedness of the strict subsets of a finite set.

Some definitions have the form they have because of the proofs: `Power` is a
function and `InitSource` names its domain. None says less than before.
`PoolAccount` and `UpdateInput` type what `TypeOK` and the assumptions need.

### What stays with TLC

- Liveness, which the provers do not reach: `EndIsFinalized`,
  `JoinInTimeIsDecided`, `WalkEnds`.
- The four disagreements with comments and messages, which are counterexamples.

## Plan

Done, in this order: the finalize run and its ledger; the schedule; their
composition; voting and listings; whitelists; edits and guards; transactions and
bytes; platform accounts, logins, paging and stakes; the proofs above.

What is left: an abstract set of listed wallets that `Whitelist` implements while
nothing races, with its refinement proved.

## Not modelled

- The JOINED section of `GET /pools` and the export of join histories: both take
  the result of `paginate`, an object, for an array, and fail on every call
  (`pools.service.ts:151`, `1139`). The admin listing by program filters on
  `poolProgramid`, which no document has (`pools.service.ts:111`). They are what
  they are on every call: no order of steps matters.
- `verifyParticipantsProgress`, `PoolMembersService`, `readUserStakeData`,
  `getPoolFullInfo` and the verification of one whitelisted wallet read and write
  nothing. The progress divides by the number of participants
  (`pool-participants.service.ts:179`), a matter of one expression.
- Claim-token histories: an insert and a lookup of independent documents.
- Fuzzy search and the filters of the admin listing: library queries over one
  document.
- `PoolOwnerQueryGuard` (commented out at its only use), `findOneOrCreate`
  (`mongoose.ts:224`), `delete` and `isExisted` have no caller. `rustString` is
  used by no instruction.
- Pools stored before `flags` existed: nothing tells which. The job of such a
  pool throws on `pool.flags` and ends the process, as `Exit` does.
- Signing and verifying of tokens, request validation and formatting, CSV output,
  health checks, logging, configuration: library code or no state. Scripts other
  than `initTiers` are run by hand, and print what they read or send one
  transaction.
