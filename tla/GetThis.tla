-------------------------------- MODULE GetThis --------------------------------
(***************************************************************************)
(* "Get this" for one movie (src/src/household-requests.ts) and the grants *)
(* of the requests made for it (src/src/access-service.ts): a member's     *)
(* call decides between joining, following and requesting; a request is    *)
(* sent to Seerr behind an intent on disk; Jellyfin is read again once     *)
(* Seerr answered; webhooks that arrive meanwhile are deferred; and the    *)
(* refresh resolves what a crash or a lost answer left open.               *)
(*                                                                         *)
(* The title may arrive in Jellyfin at any moment.  A request Seerr        *)
(* accepts after that is late: granting it as a new private grant would    *)
(* take a public title from everyone else.                                 *)
(***************************************************************************)
EXTENDS AppRequests, Sequences

CONSTANTS
  Refresher,      \* the refreshes that may run at once (startup's and the timer's)
  MaxCalls, MaxDirect, MaxDeclined, MaxReplaced, MaxCrashes

ASSUME BoundsAssumption == {MaxCalls, MaxDirect, MaxDeclined, MaxReplaced, MaxCrashes} \subseteq Nat

VARIABLES
  mem,      \* the state, in memory and (but for `unsaved`) on disk
  unsaved,  \* the intents whose write is still under way
  here,     \* Jellyfin has the title
  seerr,    \* Seerr's requests for it
  lapsed,   \* how many of them are older than an intent written now allows for its own
  flying,   \* requests sent to Seerr that it has not made yet
  age,      \* of each call's intent: 0, 1 (APP_INTENT_TIMEOUT_MS passed), 2 (APP_SETTLE_DEADLINE_MS passed)
  call,     \* the call whose turn the title is
  queue,    \* AccessService's write queue: the job it is on
  refresh,  \* the refreshes
  asked,    \* history: the households, by epoch, that asked for the title
  outpaced, \* history: requests granted by join rules read before Seerr's answer, which were others by then
  adopted,  \* history: lost requests a call followed as its own while the intent of the call that made them was open
  reworked, \* history: requests whose settling intent a refresh resolved as the one it had listed before
  spent,    \* what has been used of the bounds
  failing   \* reads of Seerr and Jellyfin, and writes of the state file, may fail; once FALSE they never do again

world == <<here, seerr, lapsed, flying>>
slips == <<outpaced, adopted, reworked>>
history == <<asked, slips>>
bounds == <<spent, failing>>
vars == <<mem, unsaved, here, seerr, lapsed, flying, age, call, queue, refresh, history, spent, failing>>

-----------------------------------------------------------------------------
(* Data *)

Requests == 1..(MaxCalls + MaxDirect)

SeerrRequest == [by : Member, status : {"active", "declined", "completed"},
                 call : 0..MaxCalls,   \* the call that made it, 0 when none did
                 late : BOOLEAN]       \* Jellyfin had the title already

NoCall == [pc |-> "idle", call |-> 0, user |-> NoMember, home |-> NoMember, epoch |-> 0, req |-> NoRequest,
           out |-> NoOutcome]
NoJob == [job |-> "none", pc |-> "idle", todo |-> {}, req |-> NoRequest, rule |-> "none", ready |-> {},
          done |-> {}, hadIntents |-> FALSE, wide |-> {}]
NoIntent == [call |-> 0, user |-> NoMember, home |-> NoMember, epoch |-> 0, old |-> {}, status |-> "submitting",
             req |-> NoRequest]
Resting == [pc |-> "idle", intents |-> {}, records |-> {}, intent |-> NoIntent, made |-> NoRequest]

Made == DOMAIN seerr
Active == {r \in Made : seerr[r].status = "active"}
Blocking == {r \in Made : seerr[r].status # "declined"}

OnDisk == [mem EXCEPT !.intents = {i \in @ : i.call \notin unsaved}]

QueueIdle == queue.pc = "idle"

\* The intent the running call holds.
Live == IF call.pc \in {"idle", "look", "decide", "retry"} THEN {} ELSE {call.call}

OwnView == here /\ \/ mem.granted = {}
                   \/ Homes[call.user] \cap mem.groups # {}
                   \/ \E r \in mem.granted : seerr[r].by = call.user

NewRecord(branch, r) ==
  [home |-> call.home, user |-> call.user, branch |-> branch, status |-> "pending", req |-> r, rule |-> FALSE,
   awaiting |-> FALSE, detached |-> FALSE]

\* The caller's own request, made outside the app, becomes the household's.
Follow(r) == NewRecord(IF seerr[r].by = call.user THEN "request" ELSE "interest", r)

TombstoneFor(reqs) == [reqs |-> reqs, user |-> NoMember, old |-> {}, exempt |-> {}]

\* Covering the intent's member too, less the requests known to be genuine.
MemberTombstone(i, reqs, exempt) ==
  [reqs |-> reqs, user |-> i.user, old |-> i.old, exempt |-> GenuineRequests(mem, i.user) \cup exempt]

Init ==
  /\ mem = NewState /\ unsaved = {}
  /\ here \in BOOLEAN
  /\ seerr = <<>> /\ lapsed = 0 /\ flying = {}
  /\ age = [n \in 1..MaxCalls |-> 0]
  /\ call = NoCall
  /\ queue = NoJob
  /\ refresh = [f \in Refresher |-> Resting]
  /\ asked = {} /\ outpaced = {} /\ adopted = {} /\ reworked = {}
  /\ spent = [calls |-> 0, direct |-> 0, declined |-> 0, replaced |-> 0, crashes |-> 0]
  /\ failing = TRUE

-----------------------------------------------------------------------------
(* A call *)

Submit(u, h) ==
  /\ call.pc = "idle"
  /\ spent.calls < MaxCalls
  /\ h \in Homes[u]
  /\ spent' = [spent EXCEPT !.calls = @ + 1]
  /\ call' = [NoCall EXCEPT !.pc = "look", !.call = spent.calls + 1, !.user = u, !.home = h, !.epoch = mem.epoch[h]]
  /\ asked' = asked \cup {<<h, mem.epoch[h]>>}
  /\ UNCHANGED <<mem, unsaved, world, age, queue, refresh, slips, failing>>

\* The call's eligibility, the blocklist, the caller's view, Seerr's requests or Jellyfin could not be read.
CallFails ==
  /\ call.pc \in {"look", "decide"}
  /\ failing
  /\ call' = NoCall
  /\ UNCHANGED <<mem, unsaved, world, age, queue, refresh, history, bounds>>

NothingToDo ==
  /\ call.pc = "look"
  /\ OwnView \/ Asked(mem, call.home)
  /\ call' = NoCall
  /\ UNCHANGED <<mem, unsaved, world, age, queue, refresh, history, bounds>>

Look ==
  /\ call.pc = "look"
  /\ ~OwnView /\ ~Asked(mem, call.home)
  /\ \E r \in (IF Active = {} THEN {NoRequest} ELSE Active) : call' = [call EXCEPT !.pc = "decide", !.req = r]
  /\ UNCHANGED <<mem, unsaved, world, age, queue, refresh, history, bounds>>

DecideJoin ==
  /\ call.pc = "decide"
  /\ here
  /\ call' = [call EXCEPT !.pc = "join"]
  /\ UNCHANGED <<mem, unsaved, world, age, queue, refresh, history, bounds>>

DecideFollow ==
  /\ call.pc = "decide"
  /\ ~here /\ call.req # NoRequest
  /\ call' = [call EXCEPT !.pc = "write", !.out.add = {Follow(call.req)}]
  /\ UNCHANGED <<mem, unsaved, world, age, queue, refresh, history, bounds>>

\* The intent is claimed and in memory; its write is awaited.
DecideRequest ==
  /\ call.pc = "decide"
  /\ ~here /\ call.req = NoRequest
  /\ lapsed' \in lapsed..Len(seerr)
  /\ mem' = [mem EXCEPT !.intents = @ \cup {[call |-> call.call, user |-> call.user, home |-> call.home,
                                             epoch |-> call.epoch, old |-> 1..lapsed',
                                             status |-> "submitting", req |-> NoRequest]}]
  /\ unsaved' = unsaved \cup {call.call}
  /\ call' = [call EXCEPT !.pc = "save"]
  /\ UNCHANGED <<here, seerr, flying, age, queue, refresh, history, bounds>>

\* joinHousehold, in the write queue: refused for a household replaced since the call began.  One whose write fails
\* is not recorded, though the household is on the grant in memory.
Join ==
  /\ call.pc = "join"
  /\ QueueIdle
  /\ LET joins == mem.epoch[call.home] = call.epoch /\ mem.granted # {}
         completed == [NewRecord("join", NoRequest) EXCEPT !.status = "completed"]
     IN  /\ mem' = IF joins THEN Joined(mem, {call.home}) ELSE mem
         /\ \/ call' = [call EXCEPT !.pc = "write", !.out.add = IF joins THEN {completed} ELSE {}]
            \/ failing /\ joins /\ call' = [call EXCEPT !.pc = "write"]
  /\ UNCHANGED <<unsaved, world, age, queue, refresh, history, bounds>>

\* Mutant: the request leaves once its intent is in memory.
IntentInMemory(n) == \E i \in mem.intents : i.call = n

IntentOnDisk(n) == n \notin unsaved /\ \E i \in mem.intents : i.call = n

IntentSaved ==
  /\ call.pc = "save"
  /\ IntentOnDisk(call.call)
  /\ call' = [call EXCEPT !.pc = "recheck"]
  /\ UNCHANGED <<mem, unsaved, world, age, queue, refresh, history, bounds>>

\* The write failed: nothing is sent, and the intent is left to the refresh.
IntentNotSaved ==
  /\ call.pc = "save"
  /\ failing
  /\ call' = [call EXCEPT !.pc = "write"]
  /\ UNCHANGED <<mem, unsaved, world, age, queue, refresh, history, bounds>>

Dropped == [call.out EXCEPT !.remove = {call.call}]

RecheckFails ==
  /\ call.pc = "recheck"
  /\ failing
  /\ call' = [call EXCEPT !.pc = "write", !.out = Dropped]
  /\ UNCHANGED <<mem, unsaved, world, age, queue, refresh, history, bounds>>

\* It arrived since the first read: joined instead.
RecheckJoin ==
  /\ call.pc = "recheck"
  /\ here
  /\ call' = [call EXCEPT !.pc = "join", !.out = Dropped]
  /\ UNCHANGED <<mem, unsaved, world, age, queue, refresh, history, bounds>>

Send ==
  /\ call.pc = "recheck"
  /\ ~here
  /\ IF IntentOnDisk(call.call)
     THEN /\ flying' = flying \cup {[call |-> call.call, user |-> call.user]}
          /\ call' = [call EXCEPT !.pc = "sent"]
     ELSE /\ call' = [call EXCEPT !.pc = "write", !.out = Dropped]
          /\ UNCHANGED flying
  /\ UNCHANGED <<mem, unsaved, here, seerr, lapsed, age, queue, refresh, history, bounds>>

\* No answer in time, or a 5xx: Seerr may have made it, or may make it yet.
NoAnswer ==
  /\ call.pc = "sent"
  /\ call' = [call EXCEPT !.pc = "write"]
  /\ UNCHANGED <<mem, unsaved, world, age, queue, refresh, history, bounds>>

\* Seerr made it: Jellyfin is read once more.
SettledAs(outcome) ==
  LET rec == NewRecord("request", call.req)
  IN  CASE outcome = "absent"  -> [Dropped EXCEPT !.add = {rec}, !.exempt = {<<call.user, call.req>>}]
        [] outcome = "present" -> [Dropped EXCEPT !.add = {[rec EXCEPT !.rule = TRUE]}, !.tombs = {TombstoneFor({call.req})}]
        [] OTHER               -> [call.out EXCEPT !.add = {rec}, !.settle = {<<call.call, call.req>>}]

Presence == IF here THEN "present" ELSE "absent"

Settle ==
  /\ call.pc = "settle"
  /\ \/ call' = [call EXCEPT !.pc = "write", !.out = SettledAs(Presence)]
     \/ failing /\ call' = [call EXCEPT !.pc = "write", !.out = SettledAs("unreadable")]
  /\ UNCHANGED <<mem, unsaved, world, age, queue, refresh, history, bounds>>

\* Made by a call that never heard so and whose intent is still open.
Lost == {r \in Made : \E i \in mem.intents : i.call = seerr[r].call}

\* Seerr refused it as a duplicate: what it duplicates is followed.
FallBack ==
  /\ call.pc = "conflict"
  /\ \/ \E r \in (IF Active # {} THEN Active ELSE IF Blocking # {} THEN Blocking ELSE {NoRequest}) :
          /\ call' = [call EXCEPT !.pc = "write",
                                  !.out = [Dropped EXCEPT !.add = {IF r = NoRequest THEN NewRecord("interest", r) ELSE Follow(r)}]]
          /\ adopted' = adopted \cup {q \in Lost : q = r /\ seerr[q].by = call.user}
     \/ /\ failing
        /\ call' = [call EXCEPT !.pc = "write", !.out = [Dropped EXCEPT !.add = {NewRecord("interest", NoRequest)}]]
        /\ UNCHANGED adopted
  /\ UNCHANGED <<mem, unsaved, world, age, queue, refresh, asked, outpaced, reworked, bounds>>

\* Written together, and the intent released; then the deferred webhooks are tried again.
WriteOutcome ==
  /\ call.pc = "write"
  /\ mem' = Written(mem, call.epoch, call.out)
  /\ call' = IF call.out.remove # {} THEN [NoCall EXCEPT !.pc = "retry", !.call = call.call] ELSE NoCall
  /\ UNCHANGED <<unsaved, world, age, queue, refresh, history, bounds>>

RetryJob == [NoJob EXCEPT !.job = "retry", !.pc = "next", !.todo = mem.deferred]

RetryAfterCall ==
  /\ call.pc = "retry"
  /\ QueueIdle
  /\ queue' = IF mem.deferred = {} THEN NoJob ELSE RetryJob
  /\ call' = NoCall
  /\ UNCHANGED <<mem, unsaved, world, age, refresh, history, bounds>>

-----------------------------------------------------------------------------
(* Seerr, Jellyfin and the clock *)

Waiting(f) == call.pc = "sent" /\ call.call = f.call

Make(u, n) ==
  seerr' = Append(seerr, [by |-> u, status |-> "active", call |-> n, late |-> here])

\* The request gets to Seerr: it is made, refused as a duplicate, refused otherwise, or lost on the way.  The call
\* hears of it if it still waits and the answer comes through.
SeerrMakes(f) ==
  /\ f \in flying
  /\ Blocking = {}
  /\ flying' = flying \ {f}
  /\ Make(f.user, f.call)
  /\ call' \in IF Waiting(f) THEN {[call EXCEPT !.pc = "settle", !.req = Len(seerr) + 1], call} ELSE {call}
  /\ UNCHANGED <<mem, unsaved, here, lapsed, age, queue, refresh, history, bounds>>

SeerrRefuses(f) ==
  /\ f \in flying
  /\ flying' = flying \ {f}
  /\ call' \in IF ~Waiting(f) THEN {call}
               ELSE IF Blocking = {} THEN {[call EXCEPT !.pc = "write", !.out = Dropped], call}
               ELSE {[call EXCEPT !.pc = "conflict"], call}
  /\ UNCHANGED <<mem, unsaved, here, seerr, lapsed, age, queue, refresh, history, bounds>>

\* A member uses Seerr itself.
Direct(u) ==
  /\ spent.direct < MaxDirect
  /\ Blocking = {}
  /\ spent' = [spent EXCEPT !.direct = @ + 1]
  /\ Make(u, 0)
  /\ UNCHANGED <<mem, unsaved, here, lapsed, flying, age, call, queue, refresh, history, failing>>

Decline(r) ==
  /\ r \in Active
  /\ spent.declined < MaxDeclined
  /\ spent' = [spent EXCEPT !.declined = @ + 1]
  /\ seerr' = [seerr EXCEPT ![r].status = "declined"]
  /\ UNCHANGED <<mem, unsaved, here, lapsed, flying, age, call, queue, refresh, history, failing>>

Arrive ==
  /\ ~here
  /\ here' = TRUE
  /\ UNCHANGED <<mem, unsaved, seerr, lapsed, flying, age, call, queue, refresh, history, bounds>>

\* Seerr finds the title available.
Available(r) ==
  /\ here
  /\ r \in Active
  /\ seerr' = [seerr EXCEPT ![r].status = "completed"]
  /\ UNCHANGED <<mem, unsaved, here, lapsed, flying, age, call, queue, refresh, history, bounds>>

Recovers ==
  /\ failing
  /\ failing' = FALSE
  /\ UNCHANGED <<mem, unsaved, world, age, call, queue, refresh, history, spent>>

Age(n) ==
  /\ \E i \in mem.intents : i.call = n
  /\ age[n] < 2
  /\ age' = [age EXCEPT ![n] = @ + 1]
  /\ UNCHANGED <<mem, unsaved, world, call, queue, refresh, history, bounds>>

-----------------------------------------------------------------------------
(* The state file, households and restarts *)

Save ==
  /\ unsaved # {}
  /\ unsaved' = {}
  /\ UNCHANGED <<mem, world, age, call, queue, refresh, history, bounds>>

\* An administrator deletes the household and creates another under its ID.
Replace(h) ==
  /\ spent.replaced < MaxReplaced
  /\ spent' = [spent EXCEPT !.replaced = @ + 1]
  /\ mem' = Replaced(mem, h)
  /\ UNCHANGED <<unsaved, world, age, call, queue, refresh, history, failing>>

Crash ==
  /\ spent.crashes < MaxCrashes
  /\ spent' = [spent EXCEPT !.crashes = @ + 1]
  /\ mem' = OnDisk
  /\ unsaved' = {}
  /\ call' = NoCall /\ queue' = NoJob /\ refresh' = [f \in Refresher |-> Resting]
  /\ UNCHANGED <<world, age, history, failing>>

-----------------------------------------------------------------------------
(* Granting: the jobs of the write queue *)

\* A MEDIA_AVAILABLE webhook, delivered late, more than once, or never.
Hook(r) ==
  /\ QueueIdle
  /\ seerr[r].status = "completed"
  /\ queue' = IF r \notin mem.handled THEN [NoJob EXCEPT !.job = "hook", !.pc = "next", !.todo = {r}]
              ELSE IF r \in mem.granted THEN [NoJob EXCEPT !.job = "hook", !.pc = "settle", !.req = r]
              ELSE NoJob
  /\ UNCHANGED <<mem, unsaved, world, age, call, refresh, history, bounds>>

\* backfillRequests, for the webhooks that never came.
Backfill ==
  /\ QueueIdle
  /\ LET missed == {r \in Made : seerr[r].status = "completed" /\ r \notin mem.handled}
     IN  /\ missed # {}
         /\ queue' = [NoJob EXCEPT !.job = "backfill", !.pc = "next", !.todo = missed]
  /\ UNCHANGED <<mem, unsaved, world, age, call, refresh, history, bounds>>

Ruled(q, r, rule) ==
  IF rule = "defer" THEN [q EXCEPT !.pc = "next", !.req = NoRequest]
  ELSE IF q.job = "retry" THEN [q EXCEPT !.pc = "next", !.ready = @ \cup {<<r, rule>>}, !.req = NoRequest]
  ELSE [q EXCEPT !.pc = "act", !.req = r, !.rule = rule]

\* A webhook that must wait is kept.
RuleGiven(q, r, rule) ==
  /\ queue' = [Ruled(q, r, rule) EXCEPT !.hadIntents = FALSE, !.wide = {}]
  /\ mem' = IF rule = "defer" /\ q.job = "hook" THEN [mem EXCEPT !.deferred = @ \cup {r}] ELSE mem

\* The backfill has just read the request.
ReadsAtOnce(q) == q.job = "backfill"

Rule(r) ==
  /\ queue.pc = "next"
  /\ r \in queue.todo
  /\ LET q == [queue EXCEPT !.todo = @ \ {r}]
         rule == RuleAtOnce(mem, r)
     IN  \/ /\ r \in mem.handled
            /\ queue' = [q EXCEPT !.done = @ \cup {r}]
            /\ UNCHANGED mem
         \/ /\ r \notin mem.handled /\ rule # "read"
            /\ RuleGiven(q, r, rule)
         \/ /\ r \notin mem.handled /\ rule = "read" /\ ~ReadsAtOnce(q)
            /\ queue' = [q EXCEPT !.pc = "read", !.req = r, !.hadIntents = mem.intents # {}, !.wide = MemberWide(mem)]
            /\ UNCHANGED mem
         \/ /\ r \notin mem.handled /\ rule = "read" /\ ReadsAtOnce(q)
            /\ RuleGiven(q, r, RuleAfterRead(mem, r, seerr[r].by, mem.intents # {}, MemberWide(mem)))
  /\ UNCHANGED <<unsaved, world, age, call, refresh, history, bounds>>

\* By the tombstones listed before the read.
RuleThen == RuleAfterRead(mem, queue.req, seerr[queue.req].by, queue.hadIntents, queue.wide)

\* #requestFacts answers, whatever was written while it was awaited.
RequestRead ==
  /\ queue.pc = "read"
  /\ \/ /\ RuleGiven(queue, queue.req, RuleThen)
        /\ outpaced' = outpaced \cup {r \in {queue.req} : RuleThen = "grant" /\ RuleNow(mem, r, seerr[r].by) # "grant"}
     \/ /\ failing /\ RuleGiven(queue, queue.req, "defer")
        /\ UNCHANGED outpaced
  /\ UNCHANGED <<unsaved, world, age, call, refresh, asked, adopted, reworked, bounds>>

\* Deferred webhooks: the genuine ones first, so that a join finds the grant it joins.
TakeReady ==
  /\ queue.pc = "next" /\ queue.todo = {}
  /\ \E x \in queue.ready :
       /\ x[2] = "grant" \/ \A y \in queue.ready : y[2] = "join"
       /\ queue' = [queue EXCEPT !.pc = "act", !.ready = @ \ {x}, !.req = x[1], !.rule = x[2]]
  /\ UNCHANGED <<mem, unsaved, world, age, call, refresh, history, bounds>>

Act ==
  /\ queue.pc = "act"
  /\ \/ /\ mem' = IF queue.rule = "join" THEN Handled(mem, queue.req)
                  ELSE GrantedTo(mem, queue.req, Homes[seerr[queue.req].by])
        /\ queue' = [queue EXCEPT !.pc = "settle"]
     \/ /\ failing    \* the item, or the requester, could not be resolved
        /\ queue' = [queue EXCEPT !.pc = "next", !.req = NoRequest, !.rule = "none"]
        /\ UNCHANGED mem
  /\ UNCHANGED <<unsaved, world, age, call, refresh, history, bounds>>

\* The grant is applied and the records that follow it are settled, unless Jellyfin fails.
SettleRecords ==
  /\ queue.pc = "settle"
  /\ LET after == [queue EXCEPT !.pc = "next", !.req = NoRequest, !.rule = "none"]
     IN  \/ /\ mem' = RecordsSettled(mem, queue.req)
            /\ queue' = [after EXCEPT !.done = @ \cup {queue.req}]
         \/ /\ failing    \* a delivery fails with its grant's application, not with its records
            /\ queue' \in {after, [after EXCEPT !.done = @ \cup {queue.req}]}
            /\ UNCHANGED mem
  /\ UNCHANGED <<unsaved, world, age, call, refresh, history, bounds>>

JobDone ==
  /\ queue.pc = "next" /\ queue.todo = {} /\ queue.ready = {}
  /\ mem' = IF queue.job = "retry" THEN [mem EXCEPT !.deferred = @ \ queue.done] ELSE mem
  /\ queue' = NoJob
  /\ UNCHANGED <<unsaved, world, age, call, refresh, history, bounds>>

-----------------------------------------------------------------------------
(* The refresh *)

RefreshStarts(f) ==
  /\ refresh[f].pc = "idle"
  /\ mem.intents # {} \/ mem.deferred # {} \/ \E rec \in mem.records : rec.status = "pending"
  /\ refresh' = [refresh EXCEPT ![f].pc = "intents", ![f].intents = mem.intents]
  /\ UNCHANGED <<mem, unsaved, world, age, call, queue, history, bounds>>

Done(f, i) == [refresh[f] EXCEPT !.pc = "intents", !.intents = @ \ {i}, !.intent = NoIntent, !.made = NoRequest]

\* Left for the next run: a running call holds it, or it is too young to give up on.
Leave(f, i) == refresh' = [refresh EXCEPT ![f] = Done(f, i)] /\ UNCHANGED mem

Retire(f, i, reqs) ==
  /\ mem' = Written(mem, 0, [NoOutcome EXCEPT !.remove = {i.call}, !.tombs = {MemberTombstone(i, reqs, {})}])
  /\ refresh' = [refresh EXCEPT ![f] = Done(f, i)]

\* The requests the intent may have made, as Seerr lists them.
Candidates(i) == {r \in Made : seerr[r].by = i.user} \ (GenuineRequests(mem, i.user) \cup i.old)

Recover(f, i) ==
  LET found == Candidates(i)
      current == mem.epoch[i.home] = i.epoch
      made == CHOOSE r \in found : TRUE
      several == Cardinality(found) > 1
  IN  IF found = {} THEN IF age[i.call] = 0 THEN Leave(f, i) ELSE Retire(f, i, {})
      ELSE IF several \/ seerr[made].status = "declined" \/ ~current THEN Retire(f, i, found)
      ELSE /\ refresh' = [refresh EXCEPT ![f] = [Done(f, i) EXCEPT !.pc = "settle", !.intent = i, !.made = made]]
           /\ UNCHANGED mem

\* History: the call the intent was listed of has ended since, and left it settling.
Reworks(i) ==
  /\ reworked' = reworked \cup
       {j.req : j \in {x \in mem.intents \ mem'.intents : x.call = i.call /\ x.status = "settling" /\ i.status = "submitting"}}
  /\ UNCHANGED <<asked, outpaced, adopted>>

RefreshIntent(f, i) ==
  /\ refresh[f].pc = "intents"
  /\ i \in refresh[f].intents
  /\ \/ i.call \in Live /\ Leave(f, i)
     \/ i.call \notin Live /\ i.status = "submitting" /\ Recover(f, i)
     \/ i.call \notin Live /\ i.status = "submitting" /\ failing /\ IF age[i.call] = 2 THEN Retire(f, i, {}) ELSE Leave(f, i)
     \/ /\ i.call \notin Live /\ i.status = "settling"
        /\ refresh' = [refresh EXCEPT ![f] = [Done(f, i) EXCEPT !.pc = "settle", !.intent = i, !.made = i.req]]
        /\ UNCHANGED mem
  /\ Reworks(i)
  /\ UNCHANGED <<unsaved, world, age, call, queue, bounds>>

\* #recover: recorded for the household, and whatever else the member's intent may have made follows the join rules.
Recovered(i, r, present) ==
  LET rec == [home |-> i.home, user |-> i.user, branch |-> "request", status |-> "pending", req |-> r, rule |-> present,
              awaiting |-> FALSE, detached |-> FALSE]
  IN  [NoOutcome EXCEPT !.add = {rec}, !.remove = {i.call},
                        !.tombs = {MemberTombstone(i, IF present THEN {r} ELSE {}, IF present THEN {} ELSE {r})}]

\* #resettle
Resettled(m, i, follow) ==
  LET out == [NoOutcome EXCEPT !.remove = {i.call},
                               !.tombs = IF follow THEN {TombstoneFor({i.req})} ELSE {},
                               !.exempt = IF follow THEN {} ELSE {<<i.user, i.req>>}]
      ruled(rec) == rec.branch = "request" /\ rec.req = i.req
  IN  [Written(m, 0, out) EXCEPT
         !.records = {IF follow /\ ruled(rec) THEN [rec EXCEPT !.rule = TRUE] ELSE rec : rec \in @}]

SettleRead(f, i, r) ==
  /\ refresh' = [refresh EXCEPT ![f] = Done(f, i)]
  /\ mem' = IF i.call \in Live THEN mem
            ELSE IF i.status = "submitting" THEN Written(mem, i.epoch, Recovered(i, r, here))
            ELSE Resettled(mem, i, here)

\* Mutant: no deadline for reading Jellyfin.
RefreshSettleForever(f) ==
  /\ refresh[f].pc = "settle"
  /\ LET i == refresh[f].intent
     IN  \/ SettleRead(f, i, refresh[f].made)
         \/ failing /\ Leave(f, i)
  /\ Reworks(refresh[f].intent)
  /\ UNCHANGED <<unsaved, world, age, call, queue, bounds>>

RefreshSettle(f) ==
  /\ refresh[f].pc = "settle"
  /\ LET i == refresh[f].intent
         r == refresh[f].made
     IN  \/ SettleRead(f, i, r)
         \/ failing /\ age[i.call] < 2 /\ Leave(f, i)
         \/ failing /\ age[i.call] = 2 /\ i.status = "submitting" /\ Retire(f, i, {r})
         \/ /\ failing /\ age[i.call] = 2 /\ i.status = "settling"
            /\ mem' = Resettled(mem, i, TRUE)
            /\ refresh' = [refresh EXCEPT ![f] = Done(f, i)]
  /\ Reworks(refresh[f].intent)
  /\ UNCHANGED <<unsaved, world, age, call, queue, bounds>>

IntentsRead(f) ==
  /\ refresh[f].pc = "intents" /\ refresh[f].intents = {}
  /\ refresh' = [refresh EXCEPT ![f].pc = "records", ![f].records = {rec \in mem.records : rec.status = "pending"}]
  /\ UNCHANGED <<mem, unsaved, world, age, call, queue, history, bounds>>

\* Mutant: a household that follows a request is left to the grant's own settling.
NowIsSeerrs(rec) ==
  CASE rec.req # NoRequest /\ seerr[rec.req].status = "declined" -> [rec EXCEPT !.status = "declined"]
    [] rec.req # NoRequest /\ seerr[rec.req].status = "completed" /\ MadeByItsRequest(rec) /\ here
         -> [rec EXCEPT !.status = "completed"]
    [] OTHER -> rec

\* What a pending record becomes (#current), and the household joined with it.
NowIs(rec) ==
  LET joins == ~rec.detached /\ here /\ mem.granted # {}
      waits == ~rec.detached /\ here /\ mem.granted = {} /\ (rec.awaiting \/ rec.req \in mem.handled)
      interest == IF joins THEN [rec EXCEPT !.status = "completed", !.awaiting = FALSE]
                  ELSE IF waits THEN [rec EXCEPT !.awaiting = TRUE] ELSE rec
  IN  CASE rec.awaiting \/ rec.req = NoRequest                        -> interest
        [] rec.req # NoRequest /\ ~rec.awaiting /\ seerr[rec.req].status = "active"   -> rec
        [] rec.req # NoRequest /\ ~rec.awaiting /\ seerr[rec.req].status = "declined" -> [rec EXCEPT !.status = "declined"]
        [] OTHER -> IF ~MadeByItsRequest(rec) THEN interest
                    ELSE IF here THEN [rec EXCEPT !.status = "completed"] ELSE rec

\* The record as it is by now: a request settled, or an interest found without a grant, since it was read.
Still(rec) ==
  {x \in mem.records : x = [rec EXCEPT !.awaiting = x.awaiting, !.rule = x.rule]}

\* Its household joins while the record is followed; the change is written only if the record is as it was read.
RefreshRecord(f, rec) ==
  /\ refresh[f].pc = "records"
  /\ rec \in refresh[f].records
  /\ refresh' = [refresh EXCEPT ![f].records = @ \ {rec}]
  /\ \/ failing /\ UNCHANGED mem
     \/ /\ QueueIdle
        /\ LET now == NowIs(rec)
               joins == now.status = "completed" /\ ~MadeByItsRequest(rec)
               joined == IF joins /\ Still(rec) # {} THEN Joined(mem, {rec.home}) ELSE mem
           IN  mem' \in {IF rec \in mem.records THEN [joined EXCEPT !.records = (@ \ {rec}) \cup {now}] ELSE joined}
                        \cup IF failing THEN {joined} ELSE {}
  /\ UNCHANGED <<unsaved, world, age, call, queue, history, bounds>>

RefreshRetries(f) ==
  /\ refresh[f].pc = "records" /\ refresh[f].records = {}
  /\ QueueIdle
  /\ queue' = IF mem.deferred = {} THEN NoJob ELSE RetryJob
  /\ refresh' = [refresh EXCEPT ![f] = Resting]
  /\ UNCHANGED <<mem, unsaved, world, age, call, history, bounds>>

-----------------------------------------------------------------------------
(* The specification *)

CallStep ==
  \/ CallFails \/ NothingToDo \/ Look \/ DecideJoin \/ DecideFollow \/ DecideRequest \/ Join
  \/ IntentSaved \/ IntentNotSaved \/ RecheckFails \/ RecheckJoin \/ Send \/ NoAnswer \/ Settle \/ FallBack
  \/ WriteOutcome \/ RetryAfterCall

GrantStep ==
  \/ \E r \in queue.todo : Rule(r)
  \/ RequestRead \/ TakeReady \/ Act \/ SettleRecords \/ JobDone

RefreshStep(f) ==
  \/ RefreshStarts(f)
  \/ \E i \in refresh[f].intents : RefreshIntent(f, i)
  \/ RefreshSettle(f) \/ IntentsRead(f)
  \/ \E rec \in refresh[f].records : RefreshRecord(f, rec)
  \/ RefreshRetries(f)

Outside ==
  \/ \E u \in Member : Direct(u) \/ \E h \in Household : Submit(u, h)
  \/ \E f \in flying : SeerrMakes(f) \/ SeerrRefuses(f)
  \/ \E r \in Made : Decline(r) \/ Available(r) \/ Hook(r)
  \/ \E h \in Household : Replace(h)
  \/ Arrive \/ Recovers \/ Crash

Next ==
  \/ CallStep \/ GrantStep \/ Outside \/ Save \/ Backfill
  \/ \E f \in Refresher : RefreshStep(f)
  \/ \E n \in DOMAIN age : Age(n)

Spec == Init /\ [][Next]_vars

\* Timers fire, and every wait on Seerr and Jellyfin is timed out.  Steps that wait for the write queue get their turn
\* because it is first come, first served, however many webhooks are delivered again.
Fairness ==
  /\ SF_vars(CallStep) /\ WF_vars(GrantStep) /\ WF_vars(Save) /\ SF_vars(Backfill)
  /\ \A f \in Refresher : SF_vars(RefreshStep(f))
  /\ \A n \in 1..MaxCalls : WF_vars(Age(n))

FairSpec == Spec /\ Fairness

-----------------------------------------------------------------------------
(* Properties *)

Late(r) == seerr[r].call # 0 /\ seerr[r].late

\* Every part of the state has its type, in memory and on disk.
TypeOK ==
  /\ \A m \in {mem} :
       /\ m.intents \subseteq Intent /\ m.records \subseteq Record /\ m.tombs \subseteq Tombstone
       /\ \A i \in m.intents : i.home \in Homes[i.user] /\ i.call \in 1..MaxCalls
       /\ \A rec \in m.records : rec.home \in Homes[rec.user] /\ rec.req \in Made \cup {NoRequest}
       /\ m.deferred \cup m.handled \subseteq Made /\ m.granted \subseteq m.handled
       /\ m.groups \subseteq Household /\ m.epoch \in [Household -> Nat]
  /\ seerr \in Seq(SeerrRequest)
  /\ \A x \in flying : x.call \in 1..MaxCalls /\ x.user \in Member
  /\ lapsed \in 0..Len(seerr) /\ unsaved \subseteq 1..MaxCalls
  /\ outpaced \cup adopted \cup reworked \subseteq Nat

\* A request "Get this" made after Jellyfin already had the title is granted as a new private grant in three
\* orders only: its rule was read before Seerr's answer and written meanwhile (access-service.ts #grantRule); a call
\* refused as its duplicate recorded it as the member's own before the intent behind it was resolved
\* (household-requests.ts, the duplicate's fallback); or a refresh resolved that intent as it had listed it, before
\* the call settled (#reconcileIntents). app-design.md says never.
NeverPrivate == \A r \in mem.granted : Late(r) => r \in outpaced \cup adopted \cup reworked

\* Until it is handled, such a request is protected in memory and on disk, so that no crash uncovers it; the last
\* two of those orders can uncover it, and nothing else.
Protected ==
  \A r \in Made : Late(r) /\ r \notin adopted \cup reworked =>
    \A m \in {mem, OnDisk} : Protects(m, r, seerr[r].by, seerr[r].call)

\* access-service.ts, #grantRule: "so a request "Get this" may have made is never granted privately before it is
\* settled", and with it a late request whose intent was resolved as it should be.
SettledFirst == \A r \in mem.granted : Late(r) => r \in adopted \cup reworked

\* The households on the grant asked for the title themselves, as they are now and not as one deleted since,
\* or have a member whose request was granted; and every part of the state has its type.
OnlyAskers == TypeOK /\ \A h \in mem.groups : <<h, mem.epoch[h]>> \in asked \/ \E r \in mem.granted : h \in Homes[seerr[r].by]

\* A household's interest is never ready while the title's grant leaves the household out, or there is no grant.
InterestReadyIsHeld ==
  \A rec \in mem.records : rec.status = "completed" /\ rec.branch = "interest" /\ ~rec.detached => rec.home \in mem.groups

\* Every intent is resolved in the end, whatever was lost and however long Seerr and Jellyfin cannot be read: an
\* intent holds back every other member's grant for the title.
IntentsEnd == \A n \in 1..MaxCalls : (\E i \in mem.intents : i.call = n) ~> ~ \E i \in mem.intents : i.call = n

\* Once reads stop failing, every request that completed is granted or joined: a webhook that was deferred, failed or
\* never came is not lost.
Decided == \A r \in Requests : (r \in Made /\ seerr[r].status = "completed" /\ ~failing) ~> r \in mem.handled

\* And every household waiting on a request that completed joins the title's grant, once it has one.
Waits(h) == \E rec \in mem.records :
  /\ rec.home = h /\ ~rec.detached /\ rec.status = "pending" /\ rec.branch = "interest"
  /\ rec.req = NoRequest \/ seerr[rec.req].status = "completed"
FollowersJoin == \A h \in Household : (Waits(h) /\ here /\ mem.granted # {} /\ ~failing) ~> h \in mem.groups

\* No request and no household is left behind.
Served == Decided /\ FollowersJoin
=============================================================================
