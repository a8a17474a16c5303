# JellyPass in TLA+

JellyPass keeps titles in a Jellyfin server private to the people and households
that asked for them. This directory models the parts of it where order, failure
and concurrency decide whether it does: what is written to the state file, who a
grant gives a title to, how Jellyfin is made to agree, how "Get this" turns one
member's wish into a request, how a request is given up, whose token and whose
Seerr user a call is made with, how calls to a rate-limited upstream are shared
out, and how the process starts, is configured and stops. Paths below are relative
to `src/` in the repository.

## The system

| Part | Keeps | Operations | Talks to |
| --- | --- | --- | --- |
| State file (`src/store.ts`) | the whole state in memory, the file, a write in flight and one queued | every mutator ends in `#save`; `load`, `close` | the file system |
| Grants and households (`src/store.ts`) | grants, groups, removal marks, revocations, handled requests, withdrawals | `grant`, `revokeRequest`, `setManualAccess`, `upsertGroup`, `deleteGroup`, `joinGrant`, `mergeGrants`, `retireMovedGrant`, `writeAppRequests`, ... | called by the services below, synchronous until the save |
| AccessService (`src/access-service.ts`) | one write queue (`#exclusive`), sync state and retry time of each grant | webhooks, administrators' changes, backfill, remap, full and scheduled reconciliation | Jellyfin item by item and user by user; Seerr |
| "Get this" (`src/household-requests.ts`) | records, intents and tombstones in the store; claims (`#live`) and title locks in memory | `submit`, its three branches, settle, `refresh`, `cancel`, title holds | Seerr as the member, Jellyfin, AccessService's joins |
| Fair dispatcher (`src/fair-dispatcher.ts`) | lanes, tokens, calls in flight, a pause | `run`, timers, aborts | TMDB |
| Administrators' requests (`src/admin-requests.ts`) | nothing of its own | approve, decline, cancel, release in the title's turn | Seerr, AccessService |
| Seerr users (`src/seerr-users.ts`, `src/seerr.ts`) | cached mappings, lookups in flight, invalidation versions | candidate, invalidate, confirm | Seerr |
| Sessions (`src/auth.ts`, `src/app-api.ts`, `src/household-gateway.ts`) | administrators' sessions, verified member tokens, token owners, sign-outs under way | sign in, check again, sign out | Jellyfin |
| Version gate (`src/jellyfin-version.ts`) | version, read in flight, confirmation | check, confirm, decide | Jellyfin |
| Start and shutdown (`src/index.ts`, `src/shutdown.ts`) | timers, background tasks, servers | start, stop, restart after setup | everything |
| Setup (`src/setup.ts`, `src/settings.ts`) | settings, a queue of steps | steps, drain and apply | the file system |
| Gateway, HTTP API, pages, apps | nothing shared | routing, validation, layout | the parts above |

JellyPass is one Node.js process: code between two `await`s is atomic, and what can
interleave is what awaits: the write chain, the jobs of the write queue with other
handlers, calls with the refresh, and everything with Seerr, Jellyfin and a crash.
The hard behaviours are therefore state read before an `await` and used after it;
a write to two systems with no transaction; a request whose answer is lost; webhooks
that come early, twice or never; a crash between a write and the call it protects;
and turns that must come. `PROJECT.json` lists them at their lines under `hazards`.

What makes each part correct:

- **State file**: what a caller was told is saved survives; writes never stop; close flushes.
- **Grants**: what an administrator took off stays off; moves neither lose nor add anybody; deleted households leave nothing behind.
- **Reconciliation**: `synced` means Jellyfin enforces it; every grant gets there; nothing is left when it goes.
- **"Get this"**: a title that was public is never made private by a request that came too late; nobody gets a title they did not ask for; every intent, request and follower is decided. The first of these does not hold in three orders, which the properties name.
- **Cancelling**: what was given up is given to nobody who does not ask for it (but by a webhook that comes
  later than anything JellyPass remembers), what somebody still follows is not deleted, and a title that
  arrives all the same is held, not made public.
- **Seerr users**: what was looked up or confirmed before an invalidation is not used after it.
- **Sessions**: what was verified before a sign-out is not trusted after it, and a closed host has no open socket.
- **Start, setup and shutdown**: JellyPass starts with what the wizard stored; an orderly end loses nothing and comes.
- **Fair dispatcher**: nobody waits more than a turn for each other household; bounds hold; no call is forgotten.

## The modules

| Module | Models | State and actions against the code |
| --- | --- | --- |
| `StateFile` | the write chain of `GrantStore` | `memory` and `disk` are the changes made and those in the file, in order. `sharing` awaits the queued write (`#queued`), `awaiting` the one in flight (`#writing`). `StartWrite`, `Serialize`, `Rename`, `FailWrite`, `Complete`, `Reject` are the awaits of `#write`; `FileRestart` is `load` in a new process. |
| `DurableLog` | what the state file promises | Three variables and four steps; `StateFile` implements it. |
| `GrantStore` | who may see what | One action per mutator. A move is `RemapGrant` or `RecoverMissingItem` (merge into the targets) and then `RetireMovedGrant`, with other operations between, as Jellyfin is called between. |
| `AccessReconcile` | AccessService's queue and Jellyfin | `job` and `todo` are the operation whose turn it is; `plan` what `#buildPlanContext` planned; one `WriteTag` or `WritePolicy` per call; outcomes are `#markSync...`, `Purge`, `RetireMovedGrant`. A grant is its owners and its sync state. Others create and delete users and items and edit policies at any time. |
| `AppRequests` | the records, intents and tombstones and the operators on them | Pure operators: which requests could be an intent's, what is protected, what a household's join does. |
| `GetThis` | calls of "Get this", webhooks, backfill and refresh for one movie | `call` is the call in the title's turn with its program counter; `queue` the job of the write queue; `refresh` the refreshes; `mem` the state with `unsaved` intents on their way to disk; `seerr`, `flying` and `here` are Seerr, requests under way to it and Jellyfin. The refresh works through the intents it copied when it began and `RequestRead` through the tombstones listed before the read, while calls write; `outpaced`, `adopted` and `reworked` are history: the requests whose rule, record or intent was such a stale one. |
| `FairDispatcher` | `src/fair-dispatcher.ts` | `lanes`, `waiting`, `queued`, `inFlight`, `tokens`, `paused` and the timer as in the class. Time passes in ticks of one token. While `pumping`, `#pump` runs to its end. |
| `Cancel` | a request for one movie given up: `#cancel`, `approve`, `decline`, `cancel`, the withdrawals of `writeAppRequests`, `#grantWebhook`, `applyTitleHolds` and the refresh | `turn` is what holds the title's turn (`inTitleTurn`), with each `await` as a step; `job` what holds the write queue; `refresh` what the refresh has read and not written. `withdrawals`, `records`, `handled`, `granted` and `groups` are the store's. Seerr, Radarr and Jellyfin go on by themselves, and webhooks come however late. `overtaken` and `forgotten` are history: requests that lost their withdrawal too soon. |
| `SeerrUsers` | `SeerrUserMap` and the calls of `SeerrMemberClient` | `cache`, `pending`, `stamps`, `floor` and `counter` as in the class; a call goes through `#confirm` with its two attempts; `ready` is what `confirmRequester` returned. What a lookup or a call knows of invalidations and relinks is history. |
| `HostSessions` | tokens on a household's host: `#tokenOwners` of the gateway, verified sessions and sign-outs of the app API, WebSockets | a `request` is one HTTP request with its kind and stage; `kept`, `owners`, `signingOut` and `signedOut` are the caches; `valid` and `late` are Jellyfin's; `closing` and `awaited` are `closeWebSockets`. |
| `Service` | `main` of `src/index.ts`, the wizard of `src/setup.ts`, `src/settings.ts`, `src/shutdown.ts` | `phase` is the turn of the main loop; `steps` the wizard's queue, `applying` from its check to the next phase; `down` the orderly end and what it still waits for; `abandoned` a task that outlived its phase. A setting is there or not. |

`MC<Module>.tla` gives the constants of a run their values and states its bounds as
constraints; each `.cfg` is one run. `<Module>Proofs.tla` holds the theorems about a module,
`StoreProofs.tla` those about `StateFile` and `GrantStore`, the two sides of `store.ts`.

`GrantStore` and `AccessReconcile` share one piece: the owners of a grant. `GrantStore`
says who they are and forgets Jellyfin; `AccessReconcile` takes them as given, changing
at any time, and says how Jellyfin follows. `GetThis` keeps of a grant whether a request
was granted and which households hold it, and of the store's file that a change is in it
or not, which `StateFile` justifies. `Cancel` takes the other half of the same records:
every request in it is genuine, where `GetThis` decides which are; its withdrawals and
holds are those of `GrantStore` seen with the calls around them. `Service` closes the
store that `StateFile` flushes.

### What the models leave out

- `StateFile`: what a change is, beyond intents, epochs and all others.
- `GrantStore`: the library join history, timestamps, media types and sync attempts.
- `AccessReconcile`: administrators (never blocked), trailers (written with their
  item), dry runs, the catalogue. The Jellyfin list of users is read with the plan.
- `GetThis`: one movie, no seasons; no `failed` requests in Seerr; no cancelling or
  title holds; no expiry of tombstones (30 days) and no cap on deferred webhooks; no
  grants made by hand and no removal marks (these are `GrantStore`'s); no media that
  is deleted again. Reading, joining and writing one record is one step of the refresh,
  with a variant for each way it can fail.
- `Cancel`: the join rules, intents and tombstones (`GetThis`); requests Seerr calls
  `failed`, seasons of a series, `removeFromRadarr`, the 400 days a withdrawal is kept,
  revocations, requesters Jellyfin does not know, media deleted later.
- `SeerrUsers`: how an ID is checked and sent. `invalidate` and `clear` are public, and
  nothing in `src/` calls them today; the model calls them at any time.
- `HostSessions`: revocations that bypass the host, disabled users, spellings of a token
  that JellyPass does not read, the windows that limit sign-outs, signing in. A sign-out
  that Jellyfin acts on after it failed to answer ends before the grace is over. An
  owner read before such a late revocation may be remembered: `OwnersFollow` excepts it
  (`missed`), though the comment at `src/household-gateway.ts:1169` says such an answer
  is never kept.
- `Service`: values of settings, the checks of URLs and keys, several servers and sockets
  (one stands for all), what a background task does.
- `FairDispatcher`: how much of a token has refilled.

## What the runs check

| Run | Bounds | Shows |
| --- | --- | --- |
| `state_file` | an intent's whole life, another change, a household epoch; 2 failures, 1 restart | Callers, file and memory agree through every order of savers, failures and a restart; writes always settle; the file implements `DurableLog`. |
| `grant_store` | 2 items, 2 users, 1 household, 1 request, 2 given, 2 taken and 1 withdrawn at a time; or 3 items, 2 requests and a grant that is split or moved | Revocations, marks, households and owners through every sequence of operations within the bounds; a grant that is moved or split keeps everyone and adds nobody. |
| `access_reconcile` | 2 items, 1 user; 2 changes, 1 edit by others, 1 failure or restart | Synced means enforced; policies are only opened for owners and moves never leave a title open (`StaysPrivate`); scheduled runs repair everything and purge what is empty. |
| `fair_dispatcher` | 2 households with 3 calls and 1, 2 in flight, 2 waiting each and 4 in all, so that the bound of a lane is met and the total is not (`src/app-api.ts:532` gives a total that no lanes can exceed; `AccountedAlways` covers every total) | Places, bounds, turns and the timer agree in every order of calls, answers, aborts, timeouts and rate limits; every call ends, though calls hang and the upstream limits every one. |
| `get_this` | a member of 2 households and one of 1 of them; 2 calls, or 1 call and 1 request made in Seerr itself; a crash, a declined request, a household replaced, one at a time; everything may fail; with a second call no settle deadline passes; 2.4 million states | A late request is granted as a private grant in three orders only, and stays protected in memory and on disk until handled but for two of them; only households that asked hold the title. |
| `get_this_serves` | 1 member of a household, 1 who uses Seerr alone; Seerr takes its time over every read | Every intent is resolved, every completed request granted or joined, every follower joins. |
| `cancel` | 2 members, of 2 households and of 1 of them; 1 request with 2 records, or 1 record and a crash; or 2 requests, the second after the first was given up; 0.3 million states | What was given up goes to nobody who does not ask again, unless its webhook comes after the withdrawal was forgotten; no request somebody follows is deleted, withdrawals and records agree with grants, but for two orders; and what arrives or is gone is decided at last. |
| `seerr_users` | 2 calls of one member, 2 Seerr users, 2 relinks, 2 invalidations, room for 1 stamp | No call acts on, waits for or fills the cache from what an invalidation made stale, also when stamps are forgotten; calls are refused only for a cause of their own time. |
| `host_sessions` | 3 requests, 2 tokens (1 or 2 sent, and 1 that only signs out and takes the other's room), 3 households (2 share a member, 1 has none), 2 sign-outs (1 from a client), 1 late revocation; either an app call with two sign-outs or a sign-out with a relayed request, or WebSockets closed down with a relayed request | No session or owner verified before a sign-out counts after it; no WebSocket survives the closing. |
| `service` | 2 tabs, 5 environments, 5 forms of the household step; the orderly end with the smallest settings | JellyPass starts with whatever the wizard left, finished is as checked, an orderly end loses no change and comes. |
| `late_read`, `asked_again` | as small as each needs | The findings below. |

The bounds are the smallest where each hazard happens: a second item is what a title
moves to or shares a policy with, a third what it is split into; a second household is
who a turn is taken from, who follows or who loses its place; two failures are one on
top of another's recovery; a second call joins the lookup of the first. The properties of
`get_this` also hold with one member, two calls and both a crash and a declined request
(0.9 million states), and with two refreshes at once, one call, a crash, a declined request
and a household replaced (1.5 million).

### Fairness

- `StateFile`: the file system answers. A write may fail, so nothing says it succeeds.
- `AccessReconcile`: the timer of `index.ts` fires again and again and every Jellyfin
  call is answered or times out (15 s), so the job in the queue goes on; retry times come.
  What others do, failures and restarts are never fair, only bounded.
- `FairDispatcher`: time passes, the wake timer fires and a call in flight meets its
  timeout. Strong fairness, because an operation that is running makes them wait.
- `Cancel`: the holder of the title's turn and of the write queue goes on, since its calls
  time out; refresh and hold checks run again and again; waits for the turn and the queue
  are served in order of arrival, which strong fairness stands for. Nothing says that Seerr
  approves, that a movie arrives or that a member acts.
- `Service`: timers fire, steps of the wizard end, the hard timer fires. The state file may
  hang, a task or a socket never end.
- `GetThis`: timers fire (backfill and refresh), calls go on since every read has a
  timeout, and the write queue serves in order of arrival, which strong fairness of the
  steps that wait for it stands for. Reads may fail for as long as they like: that they
  recover (`failing` becoming FALSE) is a condition of `Served`, and
  no part of the fairness. `IntentsEnd` needs only that deadlines pass.

### Findings

Each is a run that TLC ends with a counterexample; `PROJECT.json` quotes the lines.

- `late_read`: `#grantRule` reads tombstones before it awaits Seerr and not again after: a
  call that settles its late request meanwhile is granted as a private grant, against
  "never granted privately before it is settled" (`src/access-service.ts:786-788`) and
  "never a private grant" (`docs/app-design.md:1027`). `SettledFirst` is that comment, as far as
  the rule goes.
- `asked_again`: a member cancels and asks again, Seerr's request completes, and the refresh
  completes the record before the webhook grants it: the grant is made under the withdrawal
  without the household, and the settle looks at pending records only.

Seen while modelling, with what shows them and no run of their own:

- Three orders make a private grant of a late request. `NeverPrivate` excepts exactly these, each
  by the history variable in brackets; without the exception TLC finds each in `get_this`:
  - (`outpaced`) `late_read`, above.
  - (`adopted`) A member asks on one household's host and the answer is lost. On the other
    host the member asks again, before Seerr makes the first request; the movie arrives, the
    first request is made, the second refused as its duplicate and the first followed as the
    member's own (`src/household-requests.ts:832`), which counts as genuine (1223): the refresh
    takes it for no candidate of the open intent, and the grant is private, against
    `docs/app-design.md:1031`.
  - (`reworked`) The refresh lists an intent (`src/household-requests.ts:1111`); its call, which
    could not read Jellyfin, leaves it `settling` with its request recorded; the refresh takes
    the intent as listed, finds no candidate since the request is recorded by now, and drops
    the intent once it is two minutes old. `Protected` fails with it, as with `adopted`.
- Two orders lose who withdrew from a request that is granted. `WithdrawalKept` excepts exactly
  these; without the exception TLC finds each in `cancel`:
  - (`overtaken`) A cancel deletes the request at Seerr; before it hears so, the refresh finds
    the request gone and turns the withdrawal into a hold, which is granted when the movie
    arrives; the cancel then forgets the withdrawal (`src/store.ts:986`), which does not ask
    whether it was granted. Nobody is given the title by it.
  - (`forgotten`) An administrator's cancel when the title is on a grant, or its hold was dropped,
    forgets the withdrawal; a webhook under way then gives the household the access that the
    cancel took (`src/admin-requests.ts:336-338` says it does not). `GivenOnlyWhoAsk` excepts it too.
- A variant of `asked_again` needs no refresh in time: the requester belongs to two
  households, a follower of one of them withdrew, and the requester asks again; the grant
  leaves that household out and the settle joins nobody.
- On a running JellyPass "the wizard changes stored settings only: they take effect when you
  **apply** them" (`docs/server-reference.md:396`): each step is written at once
  (`src/settings.ts:191`), so a restart for any other reason starts with them unapplied
  (`src/index.ts:41-52`).
- The wizard's household step turns the app off while `TV_ADDON_ENABLED` is set by the
  environment, which `loadConfig` then refuses; so does `ADMIN_PORT` equal to `PORT` with a
  gateway. `StartsAgain` leaves those two environments out.
- A household whose requester was taken off an item by hand gets it back when a move
  carries the request's households (`src/store.ts:1219`, against
  `docs/server-reference.md:1124`); `MovesKeepAudience` states what holds.
- A scheduled run skips orphaned grants, also when the item is back
  (`docs/server-reference.md:1146` says so; `README.md:49` reads as if it did not).
  `Converges` leaves orphaned grants out.
- `#current` can complete a record whose call is still `settling`; when the settle then
  finds the title public, the record is skipped and the household never joins a grant made
  later (`src/household-requests.ts:1272`, against `docs/app-design.md:1066`). No property
  states this: TLC reaches such a record in `get_this`, but no later grant within its bounds.
  `InterestReadyIsHeld` states what holds, for interests.

## What is proved

TLAPS checks these for all values of the constants: any sets of users, items, households,
calls, requests and tokens, any number of failures and restarts, any limits. For each module
`M` the module `MProofs` (`StoreProofs` for the first two) holds an inductive invariant, one lemma for each action or group of
actions that says the action keeps it, and the theorems. The invariants were checked by TLC
on the runs' instances before they were proved.

| Module | Theorems | What the properties need besides themselves |
| --- | --- | --- |
| `StateFile` | `FileTypeCorrect`, `Durability`, `IntentDurability`, `CloseFlushed`, `Refinement` | File, serialized write and memory are prefixes of one another (`FileInv`); what callers awaiting a write have changed is in it (`CallersInv`); a durable intent was written (`IntentsInv`). `ResolvedSurvives` alone says nothing of a write between serializing and renaming, nor of a restart that makes the memory the file again. |
| `GrantStore` | `Revocations`, `ManualUnmarkedAlways`, `NoDangling`, `NothingResurrected` | What stays behind of a move comes from its source (`LeftFromSource`): without it, retiring the source brings back what was revoked there meanwhile. |
| | `RecomputedAlikeAlways`, `NoQuietReturnAlways`, `MovesKeepAudienceAlways`, `WithdrawnGivesNobodyAlways` | A second invariant, `KeepInv`: what a grant records is handled; stored owners are those of its audience; all of a moving grant's audience goes to a target or stays (`Covers`), and what went is at the target, or had been taken off it (`Arrived`), with the source's marks (`Carried`). |
| `SeerrUsers` | `LookupsFollowAlways`, `RefusedForCauseAlways` | A registered lookup is not stale, and a call whose version is still its member's is fresh, also when stamps are forgotten (`VersionsInv`). For refusals: what a member's second attempt can find is right (`AttemptsInv`). |
| `Service` | `FinishedAsCheckedAlways`, `StartsAgainAlways`, `ClosedBehindAlways` | The step that runs would not be refused now, and nothing else runs from finish's check on (`StepsInv`, `FinishInv`); settings taken for finished make a configuration (`ValidInv`); what a phase that is down has left (`PhaseInv`). |
| `FairDispatcher` | `AccountedAlways`, `NoLostWakeupAlways`, `OneTurnEachAlways` | A lane holds each waiting call of its household once, the turn order each lane that is not empty once; lanes before another are those that may still go first (`AheadInv`); counters count (`CountInv`). |
| `HostSessions` | `RevokedNotTrustedAlways`, `OwnersFollowAlways`, `SocketsStayClosedAlways` | What Jellyfin may still revoke is kept back or was dropped for room (`LateInv`); a verification Jellyfin confirmed and no sign-out spoiled is of a token that counts, or whose loss is excused (`AppInv`, `OwnerInv`); sign-outs are counted (`CountInv`). |
| `AccessReconcile` | `JellyfinAgreesAlways`, `StaysPrivateAlways` | The plan under way is right about all that nobody else changed since: each tag and each policy is as planned, or still to be written (`Planned`); a move keeps its source until the target is in force (`MoveInv`). |
| `GetThis` | `OnlyAskersAlways`, `InterestReadyIsHeldAlways` | Whoever waits in the store, in a call or in a refresh asked, as the household it is now (`AskInv`). |
| | `ProtectedAlways`, `NeverPrivateAlways` | One request at most for each call, none before its intent is on disk (`Numbered`); an intent is its call's and older than its requests (`IntentsFaithful`), and a refresh has it as it is or as it was until its call settled (`ListedFaithful`); a late request whose intent is gone is named by something nothing takes away (`Keeps`), and a call gives its intent up only then (`CallSafe`); all this of the requests not in `adopted` or `reworked`. `GrantInv` adds that what is at the rule that makes a private grant is no late request, but for those and `outpaced`. |
| `Cancel` | `CancelKeepsFollowers`, `FollowersAreGiven` | What the refresh read of a record, and that a member's cancel found none waiting, holds until they write (`FollowInv`); who joins a grant is on it before the record says so (`JoinInv`). |
| | `Agreement`, `GivenWhoAsk` | What a cancel deleted was never sent and is neither granted nor held before the cancel hears so (`DeletedInv`), which is why it may forget the withdrawal; what was given up is remembered while Seerr has the request, and beyond where it was sent (`GivenUpInv`); whoever left a request that Seerr has is in its withdrawal (`LeftInv`). |

`Refinement` maps each step of `StateFile` to a step of `DurableLog` or none. Action
properties (`NoResurrection`, `NoQuietReturn`, `StaysPrivate`, `OneTurnEach`, ...) are proved
of each step from the invariant of its module, as those that are invariants are.

### From which assumptions

Those named in the modules: requesters are users, households are homes of members, `NoItem` is
no item, bounds are numbers, and sets of households and requests that are counted are finite.
No theorem assumes an order away: those the program gets wrong are in the properties, as exceptions
that history variables name, and the theorems say that there are no others.

### What proving showed

- `HostSessions`: `dropped` first held only tokens Jellyfin might still revoke. A token dropped
  for room after the revocation, while a verification that had been told "valid" was still to be
  heard, is trusted again (`Pending`); no run had room for a second token that displaces the first, until
  `<<t2>>` was made a credential.
- `Service`: `StartsAgain` held on the environments of the run, but not for any environment:
  one that could not start with nothing stored is not saved by the wizard (`Startable`).
- `GetThis`: that an intent is kept does not follow from what is stored. A refresh may hold it, and a call that was
  answered may be about to release it, so the invariant speaks of what a refresh listed and what a call will write.
- `GetThis`: a refresh that holds an outdated copy of an intent does harm only when the call left the intent
  `settling`. A call that settled at once has removed it, and what the refresh then writes for the copy takes
  no protection away (`RetireKeeps`, `RecoveredKeeps`).

### Only model-checked

All liveness (`EverySaveSettles`, `Converges`, `EveryCallEnds`, `ComesToAnEnd`, `Served`,
`IntentsEnd`, `DecidedAtLast`), which the prover cannot reach. Every invariant and action property
the runs check is a theorem.

## Plan

Done: the modules above and their proofs. Still worth having: the version gate, the parser of
titles, seasons of a series in `GetThis` and `Cancel`.

Not modelled, and why: pages, apps, routing, parsing and validation keep no shared state and
their properties are those of a function, well covered by tests; they are most of the
repository's lines (the administrator's pages, the web, TV and mobile apps, the HTTP routes).
Metrics and logs are layout. The catalogue's calls are `FairDispatcher`'s; the version gate
keeps one read and one confirmation, both looked up when they are needed; rate limits and
administrators' cookies are sequential.
